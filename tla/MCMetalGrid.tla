---------------------------- MODULE MCMetalGrid ----------------------------
(***************************************************************************)
(* Instances of MetalGrid for TLC: dimensions as small as they can be with *)
(* rows of odd and even length, heads that share a key head and heads that *)
(* do not, a second layer, and tokens behind the current one.              *)
(***************************************************************************)
EXTENDS MetalGrid

Grouped == [hidden |-> 3, q_heads |-> 2, kv_heads |-> 1, head_dim |-> 2,
            vocab |-> 2, context |-> 2, layers |-> 2, layer |-> 1, token |-> 1,
            seq_len |-> 2, token_index |-> 1, rows |-> 2, cols |-> 3,
            count |-> 2, lanes |-> 2]

\* The context is longer than the sequence, and the simdgroup than the row.
Unshared == [hidden |-> 2, q_heads |-> 2, kv_heads |-> 2, head_dim |-> 2,
             vocab |-> 2, context |-> 3, layers |-> 2, layer |-> 1, token |-> 0,
             seq_len |-> 2, token_index |-> 0, rows |-> 2, cols |-> 2,
             count |-> 3, lanes |-> 3]

\* Every kernel with shared key heads, and again those that deal with heads,
\* positions or packed rows otherwise.
AllDispatches ==
    {<<Grouped, DOMAIN Library(Grouped)>>,
     <<Unshared, {"rmsnorm", "rope_qk", "quantized_matvec", "attention_scores",
                  "causal_mask", "masked_softmax", "masked_attention_value",
                  "kv_store_layer", "cache_lookup"}>>}
=============================================================================
