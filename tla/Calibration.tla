----------------------------- MODULE Calibration -----------------------------
(***************************************************************************)
(* src/membrane/calibration.py and check_magnitude of invariants.py: how a *)
(* calibration pass over a corpus makes an activation envelope, how the    *)
(* envelope goes to a record and back, and what it flags afterwards.       *)
(*                                                                         *)
(* A finite tensor is <<largest element magnitude, largest row norm>>: the *)
(* collector and the guard look at nothing else of it.  Inf stands for the *)
(* norm of a finite row whose squares overflow.  Margins and bounds count  *)
(* halves, so that 1.0 is 2 and 1.5 is 3; NaN only occurs as a margin, and *)
(* through it as a bound.                                                  *)
(***************************************************************************)
EXTENDS TransformerModel, FiniteSetsExt

CONSTANTS
    LayerKinds,  \* kinds of boundary every layer has
    OtherKinds,  \* kinds of boundary the model has once
    Tensors,     \* the finite tensors of the model
    Margins,     \* margins somebody asks for
    MaxSamples   \* bound on the inputs of the corpus

Inf == 1000
NaN == -1
NoLayer == -1
NonFinite == <<Inf, Inf>>

ASSUME CalibrationAssumption ==
    /\ LayerKinds \cap OtherKinds = {}
    /\ IsFiniteSet(LayerKinds) /\ IsFiniteSet(OtherKinds)
    /\ MaxSamples \in Nat
    /\ \A t \in Tensors : t[1] \in 0..(Inf - 1) /\ t[2] \in t[1]..Inf
    /\ Margins \subseteq Nat \cup {NaN}

VARIABLES
    subject,  \* the model calibrate was called with: at most one
    phase,    \* "idle", "collecting", "refused" (ValueError) or "fitted"
    margin,   \* the margin argument
    observed, \* _Collector.observed: by path, the largest magnitude and norm
    pending,  \* the boundaries the current forward pass has still to publish
    samples,  \* inputs the model has run over
    profile,  \* the CalibrationProfile once there is one
    seen      \* what the collector was shown: pairs of a path and a tensor
calibrationVars == <<subject, phase, margin, observed, pending, samples, profile,
                     seen>>

\* StateEvent.path: the kind, behind its layer where it has one.
PathsOf(model) ==
    (LayerKinds \X (0..(model.cfg.n_layers - 1))) \cup (OtherKinds \X {NoLayer})
Paths == UNION {PathsOf(m) : m \in subject}

\* Paths one may ask an envelope for: those, and a layer the model has not.
AskedPaths ==
    Paths \cup UNION {LayerKinds \X {m.cfg.n_layers} : m \in subject}

Empty == [p \in {} |-> <<>>]
NoProfile == [bounds |-> Empty, margin |-> NaN, schema_hash |-> Empty,
              weight_fingerprint |-> Empty, generalize_layers |-> TRUE]

\* values[0] * margin and values[1] * margin.
Widened(values, m) ==
    IF m = NaN THEN <<NaN, NaN>> ELSE <<values[1] * m, values[2] * m>>

\* measured > bound: false when the bound is no number.
Exceeds(measured, bound) == bound # NaN /\ 2 * measured > bound

\* The larger of the elements, by coordinate.
Widest(S) == <<Max({b[1] : b \in S}), Max({b[2] : b \in S})>>

-----------------------------------------------------------------------------
\* for_path: at most one bound.  A path that was not seen gets the widest of
\* those seen for its kind.
for_path(prof, path) ==
    LET candidates == {prof.bounds[p] : p \in {q \in DOMAIN prof.bounds : q[1] = path[1]}}
    IN  IF path \in DOMAIN prof.bounds THEN {prof.bounds[path]}
        ELSE IF candidates = {} \/ ~prof.generalize_layers THEN {}
        ELSE {Widest(candidates)}

\* check_magnitude behind on_state's look-up: what is flagged of a tensor.
check_magnitude(prof, path, tensor) ==
    IF tensor = NonFinite THEN {} ELSE UNION
        {{rule \in {"max_abs", "max_row_norm"} :
            \/ rule = "max_abs" /\ Exceeds(tensor[1], b[1])
            \/ rule = "max_row_norm" /\ Exceeds(tensor[2], b[2])}
           : b \in for_path(prof, path)}

\* Mutant of from_record: what the record leaves out is taken to be false.
from_record_closed(record) ==
    [f \in DOMAIN record \cup {"generalize_layers"} |->
        IF f \in DOMAIN record THEN record[f] ELSE FALSE]

\* as_record and from_record.  The record has no generalize_layers.
as_record(prof) == [f \in DOMAIN prof \ {"generalize_layers"} |-> prof[f]]
from_record(record) ==
    [f \in DOMAIN record \cup {"generalize_layers"} |->
        IF f \in DOMAIN record THEN record[f] ELSE TRUE]

-----------------------------------------------------------------------------
CalibrationInit ==
    /\ subject = {}
    /\ phase = "idle" /\ margin = NaN /\ samples = 0
    /\ observed = Empty /\ pending = {}
    /\ profile = NoProfile /\ seen = {}

\* calibrate begins: a margin below 1.0 is refused.  NaN is not below it.
Calibrate(model, m) ==
    /\ phase = "idle"
    /\ subject' = {model}
    /\ margin' = m
    /\ phase' = IF m # NaN /\ m < 2 THEN "refused" ELSE "collecting"
    /\ UNCHANGED <<observed, pending, samples, profile, seen>>

\* The next input of the corpus: every boundary of the model will publish.
NextInput ==
    /\ phase = "collecting" /\ pending = {} /\ samples < MaxSamples
    /\ pending' = Paths
    /\ UNCHANGED <<subject, phase, margin, observed, samples, profile, seen>>

\* The model goes over its boundaries in one order, whichever it is.
NextPath == CHOOSE p \in pending : TRUE

\* samples counts the inputs whose forward pass has come to its end.
Counted == IF Cardinality(pending) = 1 THEN samples + 1 ELSE samples

\* Mutant of Observed: the last value shown replaces the ones before it.
Observed_last(path, tensor) ==
    [p \in DOMAIN observed \cup {path} |-> IF p = path THEN tensor ELSE observed[p]]

\* What observed becomes when path shows tensor.
Observed(path, tensor) ==
    [p \in DOMAIN observed \cup {path} |->
        IF p # path THEN observed[p]
        ELSE Widest({tensor} \cup (IF path \in DOMAIN observed THEN {observed[path]}
                                   ELSE {<<0, 0>>}))]

\* _Collector.on_state.
OnState(tensor) ==
    /\ phase = "collecting" /\ pending # {}
    /\ tensor # NonFinite
    /\ observed' = Observed(NextPath, tensor)
    /\ seen' = seen \cup {<<NextPath, tensor>>}
    /\ pending' = pending \ {NextPath}
    /\ samples' = Counted
    /\ UNCHANGED <<subject, phase, margin, profile>>

\* It raises, and calibrate with it, on a tensor that is not finite.
OnStateRaises ==
    /\ phase = "collecting" /\ pending # {}
    /\ phase' = "refused"
    /\ UNCHANGED <<subject, margin, observed, pending, samples, profile, seen>>

\* The corpus was empty.
NothingSeen ==
    /\ phase = "collecting" /\ pending = {} /\ samples = 0
    /\ phase' = "refused"
    /\ UNCHANGED <<subject, margin, observed, pending, samples, profile, seen>>

\* The profile names the config and the weights it was fitted on.
Fit == \E model \in subject :
    /\ phase = "collecting" /\ pending = {} /\ samples > 0
    /\ phase' = "fitted"
    /\ profile' = [bounds |-> [p \in DOMAIN observed |-> Widened(observed[p], margin)],
                   margin |-> margin, schema_hash |-> schema_hash(model.cfg),
                   weight_fingerprint |-> weight_fingerprint(model),
                   generalize_layers |-> TRUE]
    /\ UNCHANGED <<subject, margin, observed, pending, samples, seen>>

\* calibrate runs over its corpus.
Calibrates ==
    \/ NextInput \/ OnStateRaises \/ NothingSeen \/ Fit
    \/ \E t \in Tensors : OnState(t)

-----------------------------------------------------------------------------
\* What was seen at this boundary, or, of a layer the model has not, at the same
\* boundary of the others.
SeenFor(path) ==
    {s[2] : s \in {x \in seen : IF path \in Paths THEN x[1] = path ELSE x[1][1] = path[1]}}

\* No input of the corpus is flagged when it is run again, as a whole or as a
\* prompt of any length followed by single tokens: a tensor no larger than one
\* the corpus made passes, whichever inputs came later, at the margin 1.0, and
\* after the profile was shipped ("margin must be >= 1.0 or clean runs will be
\* quarantined").
ReplayIsClean ==
    phase = "fitted" =>
        \A path \in AskedPaths, t \in Tensors :
            (\E s \in SeenFor(path) : t[1] <= s[1] /\ t[2] <= s[2])
                => check_magnitude(profile, path, t) = {}

\* With a margin that is a number, drift is flagged at every layer, one the
\* profile has no bounds for included ("so an uncalibrated layer is not
\* unguarded"): a tensor that is beyond the margin times all that was seen, in
\* its largest element or its largest row norm.
DriftIsFlagged ==
    phase = "fitted" /\ margin # NaN =>
        \A path \in AskedPaths, t \in Tensors : \A i \in {1, 2} :
            (\A s \in SeenFor(path) : 2 * t[i] > margin * s[i])
                => check_magnitude(profile, path, t) # {}
=============================================================================
