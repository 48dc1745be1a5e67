------------------------------ MODULE MCProbe ------------------------------
(***************************************************************************)
(* Probe for TLC: the default model of four layers and, behind the corpus  *)
(* as it is, every fault of it in every layer.                             *)
(***************************************************************************)
EXTENDS Probe

\* FAULT_CORPUS with its layers counted from 1.
FAULT_CORPUS == <<
    <<"nan_in_hidden_state", 2>>, <<"inf_in_hidden_state", 3>>,
    <<"negative_inf_in_hidden_state", 1>>, <<"truncated_sequence_axis", 1>>,
    <<"widened_feature_axis", 4>>, <<"dtype_promotion", 2>>, <<"rank_collapse", 3>>,
    <<"magnitude_explosion", 4>>, <<"magnitude_explosion_single_element", 1>>,
    <<"causal_mask_leak", 2>>, <<"attention_mass_not_normalized", 3>>,
    <<"negative_attention_weight", 1>>, <<"attention_weight_above_one", 4>>,
    <<"nan_in_attention", 3>> >>

EveryLayer == FAULT_CORPUS \o
    [i \in 1..(4 * Len(FAULT_CORPUS)) |->
        <<FAULT_CORPUS[(i + 3) \div 4][1], 1 + ((i - 1) % 4)>>]
=============================================================================
