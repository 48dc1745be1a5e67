-------------------------- MODULE TransformerModel --------------------------
(***************************************************************************)
(* What identifies a model: ModelConfig with its schema hash, the          *)
(* parameters CleanRoomTransformer derives from it by name, and the        *)
(* fingerprint over them.                                                  *)
(*                                                                         *)
(* A hash is what it hashes, so two are equal only for equal contents.  A  *)
(* parameter is known by its name and its layer, 0 for those the model has *)
(* once, and holds what its generator draws for a seed and a name, unless  *)
(* somebody has written over it.                                           *)
(***************************************************************************)
EXTENDS Integers

Fields == {"vocab_size", "d_model", "n_heads", "n_layers", "d_ff",
           "max_seq_len", "norm_eps", "seed"}

\* ModelConfig.__post_init__ raises for every other config.  A negative number
\* of heads that divides d_model gets past it.
Valid(cfg) ==
    /\ cfg.n_heads # 0
    /\ cfg.d_model % (IF cfg.n_heads < 0 THEN -cfg.n_heads ELSE cfg.n_heads) = 0
    /\ cfg.d_model > 0 /\ cfg.n_layers > 0 /\ cfg.vocab_size > 0

\* The constructor draws the tensors of these and raises for the others: a seed
\* or an extent below 0 is refused, and d_ff = 0 divided by.
Buildable(cfg) == cfg.seed >= 0 /\ cfg.max_seq_len >= 0 /\ cfg.d_ff > 0

\* Mutant of schema_hash: the heads are left out.
schema_hash_headless(cfg) == [f \in Fields \ {"n_heads"} |-> cfg[f]]

schema_hash(cfg) == [f \in Fields |-> cfg[f]]

-----------------------------------------------------------------------------
LayerParameters == {"attn.w_q", "attn.w_k", "attn.w_v", "attn.w_o",
    "ffn.w_gate", "ffn.w_up", "ffn.w_down",
    "ln1_gamma", "ln1_beta", "ln2_gamma", "ln2_beta"}

Parameters(cfg) ==
    ({"embed.token", "embed.position", "final_gamma", "final_beta", "head.w_out"} \X {0})
    \cup (LayerParameters \X (1..cfg.n_layers))

\* The gains and offsets of the norms, which are not drawn.
Constant == {"ln1_gamma", "ln1_beta", "ln2_gamma", "ln2_beta", "final_gamma",
             "final_beta"}

ShapeOf(cfg, name) ==
    CASE name = "embed.token"    -> <<cfg.vocab_size, cfg.d_model>>
      [] name = "embed.position" -> <<cfg.max_seq_len, cfg.d_model>>
      [] name = "head.w_out"     -> <<cfg.d_model, cfg.vocab_size>>
      [] name \in {"attn.w_q", "attn.w_k", "attn.w_v", "attn.w_o"} ->
            <<cfg.d_model, cfg.d_model>>
      [] name \in {"ffn.w_gate", "ffn.w_up"} -> <<cfg.d_model, cfg.d_ff>>
      [] name = "ffn.w_down"     -> <<cfg.d_ff, cfg.d_model>>
      [] name \in Constant       -> <<cfg.d_model>>

\* The standard deviations of w_o and w_down shrink with the depth.
DepthOf(cfg, name) == IF name \in {"attn.w_o", "ffn.w_down"} THEN cfg.n_layers ELSE 0

\* CleanRoomTransformer(cfg).
CleanRoomTransformer(cfg) == [cfg |-> cfg, altered |-> {}]

\* What fingerprint sees of a parameter: the seed its generator was given, if
\* it was drawn, its shape and scale, and whether it is still what was drawn.
\* The name goes into the generator with the seed.
fingerprint(model, p) ==
    [seed |-> IF p[1] \in Constant THEN 0 ELSE model.cfg.seed,
     shape |-> ShapeOf(model.cfg, p[1]), depth |-> DepthOf(model.cfg, p[1]),
     altered |-> p \in model.altered]

\* Mutant of weight_fingerprint: the output head is left out.
weight_fingerprint_headless(model) ==
    [p \in Parameters(model.cfg) \ {<<"head.w_out", 0>>} |-> fingerprint(model, p)]

\* The fingerprints of all parameters, in a fixed order.
weight_fingerprint(model) ==
    [p \in Parameters(model.cfg) |-> fingerprint(model, p)]
=============================================================================
