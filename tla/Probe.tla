------------------------------- MODULE Probe -------------------------------
(***************************************************************************)
(* scripts/mutation_probe.py over the fault corpus of tests/conftest.py:   *)
(* which of the membrane's rules stands between a corrupted tensor and the *)
(* emission of a token.                                                    *)
(*                                                                         *)
(* A tensor is its shape, its dtype, whether it is finite and the measures *)
(* the checks take of it.  Magnitudes are tenths of the largest the        *)
(* calibration saw at the boundary, weights tenths of 1.0.  A clean tensor *)
(* stays within what the calibration saw.  Four tokens behind the prompt   *)
(* break no rule of the policy, so the gate only counts them.              *)
(***************************************************************************)
EXTENDS Integers, Sequences

CONSTANTS
    n_layers,
    d_model, n_heads, vocab_size,
    PromptLength,
    max_new_tokens,
    FaultCorpus     \* pairs of an effect and the layer it is injected into

HiddenEffects == {"nan_in_hidden_state", "inf_in_hidden_state",
    "negative_inf_in_hidden_state", "truncated_sequence_axis",
    "widened_feature_axis", "dtype_promotion", "rank_collapse",
    "magnitude_explosion", "magnitude_explosion_single_element"}
AttentionEffects == {"causal_mask_leak", "attention_mass_not_normalized",
    "negative_attention_weight", "attention_weight_above_one",
    "nan_in_attention"}

ASSUME ProbeAssumption ==
    /\ n_layers \in Nat \ {0} /\ d_model \in Nat \ {0}
    /\ n_heads \in Nat \ {0} /\ vocab_size \in Nat \ {0}
    /\ PromptLength \in Nat \ {0, 1} /\ max_new_tokens \in Nat \ {0}
    /\ FaultCorpus \in Seq((HiddenEffects \cup AttentionEffects) \X (1..n_layers))

VARIABLES
    pc,           \* where main, classify and the model's forward are
    column,       \* the label of MUTATIONS main is at
    patch,        \* the membrane's functions as main has left them
    undo,         \* what restore has still to put back, oldest first
    fault,        \* the place in FaultCorpus of the fault injected last
    step, offset, \* of generate
    layer, x, weights,  \* of forward
    inspections,  \* report.inspections
    cell,         \* what classify made of the fault
    results,      \* by column, the outcomes so far
    exit          \* what main returns
cellVars == <<fault, step, offset, layer, x, weights, inspections, cell, results>>
vars == <<pc, column, patch, undo, cellVars, exit>>

\* What each column of MUTATIONS disables, in order.  Only the first target
\* takes a set of rules.
Structural(rules) == [target |-> "check", rules |-> rules]
Function(name) == [target |-> name, rules |-> {}]
Shape == {"rank", "extent", "dtype"}
MUTATIONS == <<
    <<>>,
    <<Structural({"finite"})>>,
    <<Structural(Shape)>>,
    <<Function("check_attention_weights")>>,
    <<Function("check_magnitude")>>,
    <<Structural({"finite"} \cup Shape), Function("check_attention_weights"),
      Function("check_magnitude")>> >>

\* The functions as they are imported: check drops no rules.
Unpatched == [check |-> {}, check_attention_weights |-> "real",
              check_magnitude |-> "real"]

NoCell == [outcome |-> "none", rules |-> {}]

Hidden(shape) ==
    [shape |-> shape, dtype |-> "float32", finite |-> TRUE,
     max_abs |-> 10, max_row_norm |-> 10]

Init ==
    /\ pc = "disable" /\ column = 1
    /\ patch = Unpatched /\ undo = <<>>
    /\ fault = 0 /\ step = 0 /\ offset = 0 /\ layer = 1
    /\ x = Hidden(<<0, d_model>>) /\ weights = {}
    /\ inspections = 0 /\ cell = NoCell
    /\ results = [c \in DOMAIN MUTATIONS |-> {}]
    /\ exit = -1

-----------------------------------------------------------------------------
\* main's patching of the membrane.

\* Mutant of Disable: the function is looked up when it is replaced already.
Disable_late ==
    /\ pc = "disable" /\ Len(undo) < Len(MUTATIONS[column])
    /\ LET d == MUTATIONS[column][Len(undo) + 1]
           patched == IF d.target = "check" THEN patch.check \cup d.rules ELSE "stub"
       IN  /\ patch' = [patch EXCEPT ![d.target] = patched]
           /\ undo' = Append(undo, <<d.target, patched>>)
    /\ UNCHANGED <<pc, column, cellVars, exit>>

\* disable_structural_rules wraps what is there, disable_function replaces it;
\* both remember what they found.
Disable ==
    /\ pc = "disable" /\ Len(undo) < Len(MUTATIONS[column])
    /\ LET d == MUTATIONS[column][Len(undo) + 1]
       IN  /\ patch' = [patch EXCEPT ![d.target] =
                            IF d.target = "check" THEN @ \cup d.rules ELSE "stub"]
           /\ undo' = Append(undo, <<d.target, patch[d.target]>>)
    /\ UNCHANGED <<pc, column, cellVars, exit>>

\* classify: a new model with the fault, a new membrane, a new engine.
Classify ==
    /\ pc = "disable" \/ pc = "next"
    /\ Len(undo) = Len(MUTATIONS[column])
    /\ fault < Len(FaultCorpus)
    /\ fault' = fault + 1
    /\ step' = 0 /\ offset' = 0 /\ inspections' = 0 /\ cell' = NoCell
    /\ pc' = "loop"
    /\ UNCHANGED <<column, patch, undo, layer, x, weights, results, exit>>

\* classify returns.
Ends(outcome, rules) ==
    /\ cell' = [outcome |-> outcome, rules |-> rules]
    /\ results' = [results EXCEPT ![column] = @ \cup {outcome}]
    /\ pc' = "next"

\* The finally clause: every undo, in the order they were made.
Restore ==
    /\ pc = "next" \/ pc = "restore"
    /\ fault = Len(FaultCorpus)
    /\ \/ /\ undo # <<>>
          /\ patch' = [patch EXCEPT ![Head(undo)[1]] = Head(undo)[2]]
          /\ undo' = Tail(undo)
          /\ pc' = "restore"
          /\ UNCHANGED <<column, fault>>
       \/ /\ undo = <<>> /\ column < Len(MUTATIONS)
          /\ column' = column + 1 /\ fault' = 0
          /\ pc' = "disable"
          /\ UNCHANGED <<patch, undo>>
       \/ /\ undo = <<>> /\ column = Len(MUTATIONS)
          /\ pc' = "verdict"
          /\ UNCHANGED <<column, fault, patch, undo>>
    /\ UNCHANGED <<step, offset, layer, x, weights, inspections, cell, results, exit>>

\* main's last words.
Verdict ==
    /\ pc = "verdict"
    /\ exit' = IF results[1] \subseteq {"CAUGHT"}
                  /\ ~(results[Len(MUTATIONS)] \subseteq {"CAUGHT"})
               THEN 0 ELSE 1
    /\ pc' = "done"
    /\ UNCHANGED <<column, patch, undo, cellVars>>

-----------------------------------------------------------------------------
\* The membrane, as far as it is not patched.

t == IF step = 0 THEN PromptLength ELSE 1
t_kv == offset + t

\* Mutant of Contract: the keys of this pass are not counted.
Contract_stale(kind) ==
    CASE kind \in {"embedding", "layer_output", "final_hidden"} -> <<t, d_model>>
      [] kind = "logits" -> <<t, vocab_size>>
      [] kind = "attention" -> <<n_heads, t, offset>>

\* The extents each boundary is declared with.
Contract(kind) ==
    CASE kind \in {"embedding", "layer_output", "final_hidden"} -> <<t, d_model>>
      [] kind = "logits" -> <<t, vocab_size>>
      [] kind = "attention" -> <<n_heads, t, t_kv>>

\* Mutant of check: a wrong dtype is let through.
check_untyped(kind, tensor) ==
    LET shape == Contract(kind)
    IN  IF Len(tensor.shape) # Len(shape) THEN {"rank"}
        ELSE {r \in {"extent"} : tensor.shape # shape}
             \cup {r \in {"finite"} : ~tensor.finite}

\* StructuralContract.check: a wrong rank hides everything else.
check(kind, tensor) ==
    LET shape == Contract(kind)
    IN  IF Len(tensor.shape) # Len(shape) THEN {"rank"}
        ELSE {r \in {"extent"} : tensor.shape # shape}
             \cup {r \in {"dtype"} : tensor.dtype # "float32"}
             \cup {r \in {"finite"} : ~tensor.finite}

\* check_attention_weights: no comparison with a NaN is true.
check_attention_weights(tensor) ==
    {r \in {"attn_nonneg"} : tensor.finite /\ tensor.lo < 0}
    \cup {r \in {"attn_max_one"} : tensor.finite /\ tensor.hi > 10}
    \cup {r \in {"attn_rows_sum_to_one"} : tensor.finite /\ tensor.worst > 0}
    \cup {r \in {"attn_causal_mask"} : tensor.finite /\ tensor.leaked > 0}

\* check_magnitude with the margin 1.5.
check_magnitude(tensor) ==
    {r \in {"max_abs", "max_row_norm"} : tensor.finite /\ tensor[r] > 15}

\* What on_state finds: the other tiers only look at what is structurally sound.
Violations(kind, tensor) ==
    LET structural == check(kind, tensor) \ patch.check
        mathematical == IF kind = "attention" /\ patch.check_attention_weights = "real"
                        THEN check_attention_weights(tensor) ELSE {}
        statistical == IF patch.check_magnitude = "real" THEN check_magnitude(tensor)
                       ELSE {}
    IN  IF structural # {} THEN structural ELSE mathematical \cup statistical

\* _publish to a membrane in ENFORCE mode.
Publish(kind, tensor, next) ==
    /\ pc = kind
    /\ inspections' = inspections + 1
    /\ LET rules == Violations(kind, tensor)
       IN  \/ rules # {} /\ Ends("CAUGHT", rules)
           \/ rules = {} /\ pc' = next /\ UNCHANGED <<cell, results>>
    /\ UNCHANGED <<column, patch, undo, fault, step, offset, x, weights, exit>>

-----------------------------------------------------------------------------
\* generate, forward and the injected fault.

effect == FaultCorpus[fault][1]

\* Nothing but Ends or pc changes.
Local == UNCHANGED <<column, patch, undo, fault, exit>>

\* The budget is used up.
BudgetExhausted ==
    /\ pc = "loop" /\ step = max_new_tokens
    /\ Ends("SILENT", {})
    /\ Local /\ UNCHANGED <<step, offset, layer, x, weights, inspections>>

Embed ==
    /\ pc = "loop" /\ step < max_new_tokens
    /\ x' = Hidden(<<t, d_model>>) /\ layer' = 1
    /\ pc' = "embedding"
    /\ Local /\ UNCHANGED <<step, offset, weights, inspections, cell, results>>

\* A model that raises, whatever it raises, is a crash.
Crash ==
    /\ \/ pc = "layer" /\ ~(Len(x.shape) = 2 /\ x.shape[2] = d_model)
       \/ pc = "norm" /\ x.shape[Len(x.shape)] # d_model
       \/ pc = "head" /\ x.shape # <<t, d_model>>
    /\ Ends("CRASH", {})
    /\ Local /\ UNCHANGED <<step, offset, layer, x, weights, inspections>>

\* The weights a layer computes from x: a NaN reaches every query behind it.
Attention ==
    LET rows == x.shape[1]
    IN  [shape |-> <<n_heads, rows, offset + rows>>, dtype |-> "float32",
         finite |-> x.finite, max_abs |-> 10, max_row_norm |-> 10,
         lo |-> 0, hi |-> 10, worst |-> 0, leaked |-> 0]

\* What the corpus makes of the hidden state o: the norm of rows that were run
\* together or widened may be beyond the envelope or not.
CorruptedHidden(o) ==
    CASE effect \in {"nan_in_hidden_state", "inf_in_hidden_state",
                     "negative_inf_in_hidden_state"} -> {[o EXCEPT !.finite = FALSE]}
      [] effect = "truncated_sequence_axis" -> {[o EXCEPT !.shape[1] = @ - 1]}
      [] effect = "widened_feature_axis" ->
            {[o EXCEPT !.shape[2] = @ + 1, !.max_row_norm = n] : n \in {10, 20}}
      [] effect = "dtype_promotion" -> {[o EXCEPT !.dtype = "float64"]}
      [] effect = "rank_collapse" ->
            {[o EXCEPT !.shape = <<@[1] * @[2]>>, !.max_row_norm = n] : n \in {10, 20}}
      [] effect \in {"magnitude_explosion", "magnitude_explosion_single_element"} ->
            {[o EXCEPT !.max_abs = 1000, !.max_row_norm = 1000]}
      [] effect \in AttentionEffects -> {o}

\* And of the weights w.  The uniform map has mass on the future where a query
\* has one.
CorruptedWeights(w) ==
    CASE effect = "causal_mask_leak" ->
            [w EXCEPT !.leaked = IF w.shape[2] > 1 THEN 1 ELSE 0]
      [] effect = "attention_mass_not_normalized" ->
            [w EXCEPT !.hi = 5, !.max_abs = 5, !.max_row_norm = 5, !.worst = 5]
      [] effect = "negative_attention_weight" -> [w EXCEPT !.lo = -5, !.worst = 15]
      [] effect = "attention_weight_above_one" ->
            [w EXCEPT !.hi = 40, !.max_abs = 40, !.max_row_norm = 40, !.worst = 30]
      [] effect = "nan_in_attention" -> [w EXCEPT !.finite = FALSE]
      [] effect \in HiddenEffects -> w

\* A layer's forward, replaced by the injector in one layer.  Norms go back to
\* float32, and the residual sum carries on whatever came in.
LayerRuns ==
    /\ pc = "layer" /\ Len(x.shape) = 2 /\ x.shape[2] = d_model
    /\ LET out == [x EXCEPT !.dtype = "float32"]
           injected == layer = FaultCorpus[fault][2]
       IN  /\ x' \in IF injected THEN CorruptedHidden(out) ELSE {out}
           /\ weights' = IF injected THEN CorruptedWeights(Attention) ELSE Attention
    /\ pc' = "attention"
    /\ Local /\ UNCHANGED <<step, offset, layer, inspections, cell, results>>

\* The final norm: what was beyond the envelope is evened out, if not fully.
FinalNorm ==
    /\ pc = "norm" /\ x.shape[Len(x.shape)] = d_model
    /\ \E m \in {10, IF x.max_abs > 15 THEN 20 ELSE 10} :
          x' = [x EXCEPT !.dtype = "float32", !.max_abs = m, !.max_row_norm = 10]
    /\ pc' = "final_hidden"
    /\ Local /\ UNCHANGED <<step, offset, layer, weights, inspections, cell, results>>

\* The output head, whose expect refuses any other shape.
OutputHead ==
    /\ pc = "head" /\ x.shape = <<t, d_model>>
    /\ x' = [x EXCEPT !.shape[2] = vocab_size]
    /\ pc' = "logits"
    /\ Local /\ UNCHANGED <<step, offset, layer, weights, inspections, cell, results>>

\* The argmax is a token, of NaN logits too, and the policy lets it through.
Gate ==
    /\ pc = "gate"
    /\ step' = step + 1 /\ offset' = t_kv
    /\ pc' = "loop"
    /\ Local /\ UNCHANGED <<layer, x, weights, inspections, cell, results>>

PublishState ==
    \/ Publish("embedding", x, "layer") /\ UNCHANGED layer
    \/ Publish("attention", weights, "layer_output") /\ UNCHANGED layer
    \/ layer < n_layers /\ Publish("layer_output", x, "layer") /\ layer' = layer + 1
    \/ layer = n_layers /\ Publish("layer_output", x, "norm") /\ UNCHANGED layer
    \/ Publish("final_hidden", x, "head") /\ UNCHANGED layer
    \/ Publish("logits", x, "gate") /\ UNCHANGED layer

Next ==
    \/ Disable \/ Classify \/ Restore \/ Verdict
    \/ BudgetExhausted \/ Embed \/ Crash \/ LayerRuns \/ FinalNorm \/ OutputHead
    \/ Gate \/ PublishState

Spec == Init /\ [][Next]_vars /\ WF_vars(Next)
-----------------------------------------------------------------------------
\* The rules that tell each fault from a clean tensor, each of them by itself.
Breaks(name) ==
    CASE name \in {"nan_in_hidden_state", "inf_in_hidden_state",
                   "negative_inf_in_hidden_state", "nan_in_attention"} -> {"finite"}
      [] name \in {"truncated_sequence_axis", "widened_feature_axis"} -> {"extent"}
      [] name = "dtype_promotion" -> {"dtype"}
      [] name = "rank_collapse" -> {"rank"}
      [] name \in {"magnitude_explosion", "magnitude_explosion_single_element"} ->
            {"max_abs", "max_row_norm"}
      [] name = "causal_mask_leak" -> {"attn_causal_mask"}
      [] name = "attention_mass_not_normalized" -> {"attn_rows_sum_to_one"}
      [] name = "negative_attention_weight" -> {"attn_nonneg", "attn_rows_sum_to_one"}
      [] name = "attention_weight_above_one" ->
            {"attn_max_one", "attn_rows_sum_to_one", "max_abs", "max_row_norm"}

\* The rules a column switches off.
Off(c) ==
    LET targets == {MUTATIONS[c][i].target : i \in DOMAIN MUTATIONS[c]}
        rules == UNION {MUTATIONS[c][i].rules : i \in DOMAIN MUTATIONS[c]}
    IN  rules
        \cup {r \in {"attn_nonneg", "attn_max_one", "attn_rows_sum_to_one",
                     "attn_causal_mask"} : "check_attention_weights" \in targets}
        \cup {r \in {"max_abs", "max_row_norm"} : "check_magnitude" \in targets}

\* Each column measures its own tiers and nothing else: a fault is caught if a
\* rule it breaks is still on, by such a rule, and if none is it goes through,
\* to a crash if its shape is wrong and to emitted tokens if not.  (Two of the
\* wrong shapes may push a row norm beyond the envelope and be caught by that.)
\* Nothing a column switched off stays off in the next.
EachTierIsMeasured ==
    pc = "next" =>
        LET on == Breaks(effect) \ Off(column)
            misshapen == effect \in {"truncated_sequence_axis", "widened_feature_axis",
                                     "rank_collapse"}
            byNorm == effect \in {"widened_feature_axis", "rank_collapse"}
                      /\ "max_row_norm" \notin Off(column)
        IN  /\ on # {} => cell.outcome = "CAUGHT" /\ cell.rules = on
            /\ on = {} => \/ cell.outcome = IF misshapen THEN "CRASH" ELSE "SILENT"
                          \/ byNorm /\ cell = [outcome |-> "CAUGHT",
                                               rules |-> {"max_row_norm"}]

\* What is caught is caught where it was injected, in the first pass and with
\* nothing of the layers behind it run, whatever tiers are off: no later
\* boundary makes up for a rule that is missing at the one the fault is at.
CaughtWhereInjected ==
    pc = "next" /\ cell.outcome = "CAUGHT" =>
        /\ step = 0
        /\ inspections = 2 * FaultCorpus[fault][2]
                         + IF effect \in AttentionEffects THEN 0 ELSE 1

\* The probe comes to its end, with the membrane as it was and the verdict that
\* it is load-bearing.
ProbePasses ==
    <>(pc = "done" /\ exit = 0 /\ patch = Unpatched)
=============================================================================
