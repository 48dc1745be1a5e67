---------------------------- MODULE MCCheckpoint ----------------------------
(***************************************************************************)
(* Checkpoint for TLC: two configs of one layer to save models of, three   *)
(* tensors among which magnitude and norm are ordered differently and one  *)
(* norm overflows, the margins 0.5, 1.0, 1.5 and NaN, and for every field  *)
(* values an editor may put there, some of which ModelConfig or the        *)
(* constructor of the model refuses.                                       *)
(***************************************************************************)
EXTENDS Checkpoint

SmallConfig == [vocab_size |-> 4, d_model |-> 4, n_heads |-> 2, n_layers |-> 1,
                d_ff |-> 3, max_seq_len |-> 8, norm_eps |-> 1, seed |-> 1]
TwoConfigs == {SmallConfig, [SmallConfig EXCEPT !.n_heads = 1, !.seed = 3]}
EditedValues == [vocab_size |-> {0}, d_model |-> {5, 6}, n_heads |-> {4, 0, -1},
                 n_layers |-> {2}, d_ff |-> {5, 0}, max_seq_len |-> {4, 9},
                 norm_eps |-> {2}, seed |-> {3, -1}]
SmallTensors == {<<1, 3>>, <<2, 2>>, <<3, Inf>>}
FourMargins == {1, 2, 3, NaN}
=============================================================================
