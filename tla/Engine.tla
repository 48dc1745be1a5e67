------------------------------ MODULE Engine ------------------------------
(***************************************************************************)
(* CleanRoomEngine.generate of src/runtime/engine.py with what it calls:   *)
(* CleanRoomTransformer.forward and its KV caches, the membrane's on_state *)
(* and gate_emission, and the client side of the audit log.                *)
(*                                                                         *)
(* One thread runs generate.  The only other actor is the audit log's      *)
(* writer thread, seen here as AuditClient.tla gives it to its callers:    *)
(* append accepts a record or raises the error the writer has met, flush   *)
(* waits until the writer has dealt with every record and then raises or   *)
(* returns.                                                                *)
(*                                                                         *)
(* A tensor is what the membrane's checks can tell of it (TensorKinds).  A *)
(* cache row is the position and the token it was computed for.            *)
(***************************************************************************)
EXTENDS KVCache, TokenPolicy

CONSTANTS
    n_layers,
    model_vocab,    \* cfg.vocab_size: forward takes and decodes 0 .. this - 1
    budget,         \* generate's max_new_tokens
    mode,           \* "enforce" or "monitor"
    traced,         \* the trace level is not NONE
    audited,        \* the engine and its membrane have an audit log
    Prompts,        \* the prompts generate is called with
    Tensors,        \* the kinds of tensor the model may produce
    IOFaults,       \* whether the log's writer may fail on a good record
    MaxSessions,    \* bound on the calls of generate
    MaxFaults       \* bound on the tensors that are not "sound"

\* "sound"      breaks no invariant, and its statistics are finite
\* "huge"       breaks no invariant, but max_abs, mean, std or the margin of
\*              its logits overflows float32 to an infinity
\* "deviant"    breaks an invariant; the violations hold finite measurements
\* "unbounded"  breaks an invariant, and a measurement (a row norm, a row sum)
\*              overflows to an infinity
\* "nonfinite"  holds a NaN or an infinity
\* "malformed"  has the wrong rank or width
TensorKinds == {"sound", "huge", "deviant", "unbounded", "nonfinite",
                "malformed"}
Violating == {"deviant", "unbounded", "nonfinite", "malformed"}

Layers == 1..n_layers
Events == {"session_open", "state", "divergence", "emission", "session_close"}
Kinds == {"embedding", "attention", "layer_output", "final_hidden", "logits",
          "emission", "none"}
Statuses == {"completed", "quarantined", "budget_exhausted", "context_full"}

ASSUME EngineAssumption ==
    /\ n_layers \in Nat \ {0}
    /\ model_vocab \in Nat
    /\ budget \in Int
    /\ mode \in {"enforce", "monitor"}
    /\ traced \in BOOLEAN /\ audited \in BOOLEAN /\ IOFaults \in BOOLEAN
    /\ Prompts \subseteq Seq(Int)
    /\ Tensors \subseteq TensorKinds
    /\ ZERO \notin Int \X Int
    /\ MaxSessions \in Nat /\ MaxFaults \in Nat

VARIABLES
    pc,             \* where generate is; a boundary's name when it is published
    layer,          \* the decoder layer forward is at
    prompt, emitted, pending, step, status,     \* the locals of generate
    snapshot,       \* what _snapshot returned
    offset,         \* caches[0].length when the step began
    caches,         \* self.caches, by layer
    x,              \* the kind of the tensor forward passes on
    token,          \* the token gate_emission returned
    signatures,     \* len(report.signatures)
    quarantines,    \* report.quarantines
    accepted,       \* the records the audit log accepted, in order
    failed,         \* the log's writer has met an error
    acked,          \* how many records the last flush that returned covered
    outcome,        \* how the last generate ended: the exception it let escape
    sessions, faults    \* counters for MaxSessions and MaxFaults

localVars  == <<prompt, emitted, pending, step>>
stepVars   == <<snapshot, offset>>
reportVars == <<signatures, quarantines>>
auditVars  == <<accepted, failed, acked>>
boundVars  == <<sessions, faults>>
vars == <<pc, layer, prompt, emitted, pending, step, status, snapshot, offset,
          caches, x, token, signatures, quarantines, accepted, failed, acked, outcome,
          sessions, faults>>

Published == {"embedding", "attention", "layer_output", "final_hidden",
              "logits"}
PCs == {"idle", "loop", "forward", "layer", "norm", "head", "gate", "commit",
        "except", "close", "flush"} \cup Published
\* "ModelError" is a ValueError or a ShapeViolation raised inside forward.
Outcomes == {"none", "returned", "RuntimeError", "ModelError"}

\* What the properties tell of a record of the membrane.
Record(event, kind, tok, writable) ==
    [event |-> event, kind |-> kind, step |-> step, token |-> tok,
     layer |-> IF kind \in {"attention", "layer_output"} THEN layer ELSE 0,
     writable |-> writable]

NoToken == -1

\* session_open and session_close, with the number of committed steps.
SessionRecord(event, steps) ==
    [event |-> event, kind |-> "none", step |-> steps, token |-> NoToken,
     layer |-> 0, writable |-> TRUE]

Records == [event : Events, kind : Kinds, step : Nat, token : Int,
            layer : Nat, writable : BOOLEAN]

CacheType == [rows : [1..Capacity -> (Int \X Int) \cup {ZERO}], length : Nat]

TypeOK ==
    /\ pc \in PCs
    /\ layer \in Layers
    /\ prompt \in Seq(Int) /\ emitted \in Seq(Int) /\ pending \in Seq(Int)
    /\ step \in Nat
    /\ step = Len(emitted)
    /\ status \in Statuses
    /\ snapshot \in [Layers -> Nat]
    /\ offset \in Nat
    /\ caches \in [Layers -> CacheType]
    /\ x \in TensorKinds
    /\ token \in Int
    /\ signatures \in Nat /\ quarantines \in Nat
    /\ accepted \in Seq(Records)
    /\ failed \in BOOLEAN
    /\ acked \in Nat
    /\ outcome \in Outcomes
    /\ sessions \in Nat /\ faults \in Nat

Init ==
    /\ pc = "idle"
    /\ layer = 1
    /\ prompt = <<>> /\ emitted = <<>> /\ pending = <<>> /\ step = 0
    /\ status = "completed"
    /\ snapshot = [l \in Layers |-> 0] /\ offset = 0
    /\ caches = [l \in Layers |-> new_cache]
    /\ x = "sound" /\ token = NoToken
    /\ signatures = 0 /\ quarantines = 0
    /\ accepted = <<>> /\ failed = FALSE /\ acked = 0
    /\ outcome = "none"
    /\ sessions = 0 /\ faults = 0

-----------------------------------------------------------------------------
\* The audit log as generate sees it.

Unwritable == [event : Events, kind : Kinds, step : Nat, token : Int,
               layer : Nat, writable : {FALSE}]

Log == INSTANCE AuditClient WITH Unencodable <- Unwritable

\* append on a log whose writer has met no error; nothing without a log.
Appends(record) ==
    \/ audited /\ ~failed /\ Log!Accept(record)
    \/ ~audited /\ UNCHANGED auditVars

\* append raises RuntimeError.
AppendRaises == audited /\ failed /\ UNCHANGED auditVars

\* An exception that is not a QuarantineError, or the result, leaves generate.
Ends(how) == pc' = "idle" /\ outcome' = how

Goes(to) == pc' = to /\ UNCHANGED outcome

\* A call of append on the way to the next thing generate does.
Audits(record, next) ==
    \/ Appends(record) /\ Goes(next)
    \/ AppendRaises /\ Ends("RuntimeError")

EngineSide == <<pc, layer, localVars, status, stepVars, caches, x, token,
                reportVars, outcome, boundVars>>

\* The log's writer thread.
WriterRefuses == Log!Refuse /\ UNCHANGED EngineSide
WriterBreaks  == Log!Break /\ UNCHANGED EngineSide

\* Mutant of Settled: task_done is not called for a record that failed.
Settled_error_ignored == \A i \in 1..Len(accepted) : accepted[i].writable

\* The writer has dealt with every record, so that queue.join returns.
Settled == failed \/ \A i \in 1..Len(accepted) : accepted[i].writable

-----------------------------------------------------------------------------
\* Mutant of Generate: every session begins with a report of its own.
Generate_report_renewed(p) ==
    /\ pc = "idle" /\ sessions < MaxSessions
    /\ sessions' = sessions + 1
    /\ caches' = [l \in Layers |-> reset(caches[l])]
    /\ prompt' = p /\ emitted' = <<>> /\ pending' = p /\ step' = 0
    /\ status' = "completed"
    /\ signatures' = 0 /\ quarantines' = 0
    /\ \/ Appends(SessionRecord("session_open", 0))
          /\ pc' = "loop" /\ outcome' = "none"
       \/ AppendRaises /\ Ends("RuntimeError")
    /\ UNCHANGED <<layer, stepVars, x, token, faults>>

\* generate up to its loop.
Generate(p) ==
    /\ pc = "idle" /\ sessions < MaxSessions
    /\ sessions' = sessions + 1
    /\ caches' = [l \in Layers |-> reset(caches[l])]
    /\ prompt' = p /\ emitted' = <<>> /\ pending' = p /\ step' = 0
    /\ status' = "completed"
    /\ \/ Appends(SessionRecord("session_open", 0))
          /\ pc' = "loop" /\ outcome' = "none"
       \/ AppendRaises /\ Ends("RuntimeError")
    /\ UNCHANGED <<layer, stepVars, x, token, reportVars, faults>>

\* The loop's two breaks.
Exhausted ==
    /\ pc = "loop" /\ step >= budget
    /\ status' = "budget_exhausted"
    /\ Goes("close")
    /\ UNCHANGED <<layer, localVars, stepVars, caches, x, token, reportVars,
                   auditVars, boundVars>>

\* Mutant of Overflows: the context is left one position early.
Overflows_early == caches[1].length + Len(pending) >= Capacity

Overflows == caches[1].length + Len(pending) > Capacity

ContextFull ==
    /\ pc = "loop" /\ ~(step >= budget)
    /\ Overflows
    /\ status' = "context_full"
    /\ Goes("close")
    /\ UNCHANGED <<layer, localVars, stepVars, caches, x, token, reportVars,
                   auditVars, boundVars>>

\* _snapshot and begin_step.
BeginStep ==
    /\ pc = "loop" /\ ~(step >= budget) /\ ~Overflows
    /\ offset' = caches[1].length
    /\ snapshot' = [l \in Layers |-> caches[l].length]
    /\ Goes("forward")
    /\ UNCHANGED <<layer, localVars, status, caches, x, token, reportVars,
                   auditVars, boundVars>>

-----------------------------------------------------------------------------
\* CleanRoomTransformer.forward.

Acceptable ==
    /\ pending # <<>>
    /\ \A i \in 1..Len(pending) : pending[i] \in 0..(model_vocab - 1)
    /\ ~Overflows

ForwardRefuses ==
    /\ pc = "forward" /\ ~Acceptable
    /\ Ends("ModelError")
    /\ UNCHANGED <<layer, localVars, status, stepVars, caches, x, token,
                   reportVars, auditVars, boundVars>>

ForwardStarts ==
    /\ pc = "forward" /\ Acceptable
    /\ layer' = 1
    /\ Goes("embedding")
    /\ UNCHANGED <<localVars, status, stepVars, caches, x, token, reportVars,
                   auditVars, boundVars>>

\* The rows a layer computes for the pending tokens: positions run from the
\* offset forward read off the first cache.
NewRows == [i \in 1..Len(pending) |-> <<offset + i, pending[i]>>]

\* Mutant of LayerRuns: the attention weights are not published.
LayerRuns_unpublished ==
    /\ pc = "layer" /\ x # "malformed" /\ Fits(caches[layer], NewRows)
    /\ caches' = [caches EXCEPT ![layer] = append(@, NewRows)]
    /\ Goes("layer_output")
    /\ UNCHANGED <<layer, localVars, status, stepVars, x, token, reportVars,
                   auditVars, boundVars>>

\* DecoderLayer.forward: the keys and values are in the cache before anything
\* of the layer is published.
LayerRuns ==
    /\ pc = "layer" /\ x # "malformed" /\ Fits(caches[layer], NewRows)
    /\ caches' = [caches EXCEPT ![layer] = append(@, NewRows)]
    /\ Goes("attention")
    /\ UNCHANGED <<layer, localVars, status, stepVars, x, token, reportVars,
                   auditVars, boundVars>>

\* layer_norm or expect refuses what the membrane has let through, or a cache
\* that would overflow does.
Refused == x = "malformed" \/ (pc = "layer" /\ ~Fits(caches[layer], NewRows))

ModelRefuses ==
    /\ pc \in {"layer", "norm", "head"} /\ Refused
    /\ Ends("ModelError")
    /\ UNCHANGED <<layer, localVars, status, stepVars, caches, x, token,
                   reportVars, auditVars, boundVars>>

\* The final layer_norm.  It passes on a tensor of the wrong rank.
FinalNorm ==
    /\ pc = "norm"
    /\ Goes("final_hidden")
    /\ UNCHANGED <<layer, localVars, status, stepVars, caches, x, token,
                   reportVars, auditVars, boundVars>>

OutputHead ==
    /\ pc = "head" /\ x # "malformed"
    /\ Goes("logits")
    /\ UNCHANGED <<layer, localVars, status, stepVars, caches, x, token,
                   reportVars, auditVars, boundVars>>

-----------------------------------------------------------------------------
\* The membrane.

\* Mutants of _handle: the exception leaves before the record is appended; only
\* forced quarantines raise.
_handle_unrecorded(kind, writable, force, next) ==
    LET raises == mode = "enforce" \/ force
    IN  /\ signatures' = signatures + 1
        /\ quarantines' = IF raises THEN quarantines + 1 ELSE quarantines
        /\ IF raises THEN Goes("except") /\ UNCHANGED auditVars
           ELSE Audits(Record("divergence", kind, NoToken, writable), next)
_handle_lenient(kind, writable, force, next) ==
    LET raises == force
    IN  /\ signatures' = signatures + 1
        /\ quarantines' = IF raises /\ ~(audited /\ failed)
                          THEN quarantines + 1 ELSE quarantines
        /\ Audits(Record("divergence", kind, NoToken, writable),
                  IF raises THEN "except" ELSE next)

\* The divergence is recorded, then QuarantineError is raised.  An append that
\* raises instead takes its place: its RuntimeError is not caught by generate.
_handle(kind, writable, force, next) ==
    LET raises == mode = "enforce" \/ force
    IN  /\ signatures' = signatures + 1
        /\ quarantines' = IF raises /\ ~(audited /\ failed)
                          THEN quarantines + 1 ELSE quarantines
        /\ Audits(Record("divergence", kind, NoToken, writable),
                  IF raises THEN "except" ELSE next)

\* The record of a boundary or an emission that broke nothing.
Trace(record, next) ==
    /\ IF traced THEN Audits(record, next) ELSE Goes(next) /\ UNCHANGED auditVars
    /\ UNCHANGED reportVars

\* on_state for a tensor of kind t: no further than next if it raises.
on_state(kind, t, next) ==
    \/ /\ t \in Violating
       /\ _handle(kind, t # "unbounded", FALSE, next)
    \/ /\ t \notin Violating
       /\ Trace(Record("state", kind, NoToken, t # "huge"), next)

\* The model computes a tensor of kind t.  One that is malformed because its
\* input was is not a fault of its own.
Yields(t) ==
    \/ /\ t = "sound" \/ (t = "malformed" /\ x = "malformed")
       /\ UNCHANGED faults
    \/ /\ t # "sound" /\ ~(t = "malformed" /\ x = "malformed")
       /\ faults < MaxFaults
       /\ faults' = faults + 1

\* Attention weights that break nothing lie between 0 and 1.
PublishAttention == \E t \in Tensors \ {"huge"} :
    /\ pc = "attention"
    /\ Yields(t)
    /\ on_state("attention", t, "layer_output")
    /\ UNCHANGED <<layer, localVars, status, stepVars, caches, x, token,
                   sessions>>

\* A boundary whose tensor is what forward goes on with.
Publish(kind, t, next) ==
    /\ pc = kind
    /\ Yields(t)
    /\ on_state(kind, t, next)
    /\ x' = t
    /\ UNCHANGED <<localVars, status, stepVars, caches, token, sessions>>

\* expect refuses a malformed embedding before it is published.
PublishEmbedding == \E t \in Tensors \ {"malformed"} :
    Publish("embedding", t, "layer") /\ UNCHANGED layer

PublishLayerOutput == \E t \in Tensors :
    \/ /\ layer < n_layers
       /\ Publish("layer_output", t, "layer")
       /\ layer' = layer + 1
    \/ /\ layer = n_layers
       /\ Publish("layer_output", t, "norm")
       /\ UNCHANGED layer

PublishFinalHidden == \E t \in Tensors :
    /\ t = "malformed" <=> x = "malformed"
    /\ Publish("final_hidden", t, "head")
    /\ UNCHANGED layer

\* Malformed logits need a model whose forward was replaced: its own ends in an
\* expect that refuses them.
PublishLogits == \E t \in Tensors :
    Publish("logits", t, "gate") /\ UNCHANGED layer

\* gate_emission cannot decode logits that are not of rank 2.  Here malformed
\* logits are of another rank; those of another width are decoded, as any
\* others that broke an invariant.
GateRefuses ==
    /\ pc = "gate" /\ x = "malformed"
    /\ _handle("emission", TRUE, TRUE, "commit")
    /\ UNCHANGED <<layer, localVars, status, stepVars, caches, x, token,
                   boundVars>>

\* Mutant of Gate: the policy does not see the prompt.
Gate_prompt_ignored == \E tok \in 0..(model_vocab - 1), encodable \in BOOLEAN :
    /\ pc = "gate" /\ x # "malformed"
    /\ x \notin {"nonfinite", "huge"} => encodable
    /\ token' = tok
    /\ \/ /\ check(tok, emitted, step) # {}
          /\ _handle("emission", TRUE, FALSE, "commit")
       \/ /\ check(tok, emitted, step) = {}
          /\ Trace(Record("emission", "emission", tok, encodable), "commit")
    /\ UNCHANGED <<layer, localVars, status, stepVars, caches, x, boundVars>>

\* gate_emission: the argmax may be any token.  A NaN or an infinity among the two
\* largest logits of the last row is in the record of the emission; one in another
\* place is not.
Gate == \E tok \in 0..(model_vocab - 1), encodable \in BOOLEAN :
    /\ pc = "gate" /\ x # "malformed"
    /\ x \notin {"nonfinite", "huge"} => encodable
    /\ token' = tok
    /\ \/ /\ check(tok, prompt \o emitted, step) # {}
          /\ _handle("emission", TRUE, FALSE, "commit")
       \/ /\ check(tok, prompt \o emitted, step) = {}
          /\ Trace(Record("emission", "emission", tok, encodable), "commit")
    /\ UNCHANGED <<layer, localVars, status, stepVars, caches, x, boundVars>>

-----------------------------------------------------------------------------
\* The rest of generate's loop.

\* Mutant of Commit: the step is not counted.
Commit_uncounted ==
    /\ pc = "commit"
    /\ emitted' = Append(emitted, token)
    /\ pending' = <<token>>
    /\ Goes("loop")
    /\ UNCHANGED <<layer, prompt, step, status, stepVars, caches, x, token,
                   reportVars, auditVars, boundVars>>

Commit ==
    /\ pc = "commit"
    /\ emitted' = Append(emitted, token)
    /\ step' = step + 1
    /\ pending' = <<token>>
    /\ Goes("loop")
    /\ UNCHANGED <<layer, prompt, status, stepVars, caches, x, token,
                   reportVars, auditVars, boundVars>>

\* except QuarantineError, with _rollback.
Quarantined ==
    /\ pc = "except"
    /\ \A l \in Layers : CanRollBackTo(caches[l], snapshot[l])
    /\ caches' = [l \in Layers |-> rollback_to(caches[l], snapshot[l])]
    /\ status' = "quarantined"
    /\ Goes("close")
    /\ UNCHANGED <<layer, localVars, stepVars, x, token, reportVars, auditVars,
                   boundVars>>

Close ==
    /\ pc = "close"
    /\ \/ audited /\ Audits(SessionRecord("session_close", step), "flush")
       \/ ~audited /\ Ends("returned") /\ UNCHANGED auditVars
    /\ UNCHANGED <<layer, localVars, status, stepVars, caches, x, token,
                   reportVars, boundVars>>

Flush ==
    /\ pc = "flush" /\ Settled
    /\ \/ failed /\ Ends("RuntimeError") /\ UNCHANGED auditVars
       \/ Log!Acknowledge(Len(accepted)) /\ Ends("returned")
    /\ UNCHANGED <<layer, localVars, status, stepVars, caches, x, token,
                   reportVars, boundVars>>

Forward ==
    \/ ForwardRefuses \/ ForwardStarts \/ LayerRuns \/ ModelRefuses \/ FinalNorm
    \/ OutputHead \/ PublishEmbedding \/ PublishAttention \/ PublishLayerOutput
    \/ PublishFinalHidden \/ PublishLogits

Run ==
    \/ Exhausted \/ ContextFull \/ BeginStep \/ Forward \/ GateRefuses \/ Gate
    \/ Commit \/ Quarantined \/ Close \/ Flush

Next ==
    \/ \E p \in Prompts : Generate(p)
    \/ Run
    \/ WriterRefuses \/ WriterBreaks

Spec == Init /\ [][Next]_vars

\* The two threads are scheduled for ever; nobody has to call generate and no
\* I/O has to fail, but the writer comes to every record it was given.
FairSpec == Spec /\ WF_vars(Run) /\ WF_vars(WriterRefuses)

-----------------------------------------------------------------------------
\* What the model has seen: the prompt and what was emitted.
History == prompt \o emitted

\* What of it the caches should hold: all but what is pending.
Committed == SubSeq(History, 1, Len(History) - Len(pending))

RowsOf(tokens) == [i \in 1..Len(tokens) |-> <<i, tokens[i]>>]

CachesHold(tokens) == \A l \in Layers : caches[l] = Holding(RowsOf(tokens))

\* Between two steps, after the last one and in the state generate leaves
\* behind when it returns, the caches of all layers hold the committed history,
\* each token at its own position, and zeros behind it: no residue of a
\* quarantined step, of an earlier session or of a misaligned layer.  This is
\* what makes incremental decoding equal to decoding from scratch.
CacheIsHistory ==
    \/ pc \in {"loop", "close", "flush"}
    \/ pc = "idle" /\ outcome = "returned"
    => CachesHold(Committed)

\* Tokens are emitted as long as the context has room for their positions and
\* no longer, and "context_full" is only said of a context that has none.
ContextIsUsedUp ==
    /\ emitted # <<>> => Len(History) <= Capacity + 1
    /\ status = "context_full" => Len(History) > Capacity

\* The n tokens up to place j of the history are all the same.
Loops(n, j) == j >= n /\ \A i \in (j - n + 1)..j : History[i] = History[j]

\* ENFORCE lets nothing out that the policy forbids, judged on the whole output:
\* every emitted token is in range and off the denylist, no emitted token ends
\* a longer run of itself, the prompt's tokens included, than is allowed, and
\* both step budgets are kept.
EmissionsPermitted ==
    mode = "enforce" =>
        /\ \A i \in 1..Len(emitted) :
              /\ emitted[i] \in 0..(vocab_size - 1)
              /\ emitted[i] \notin forbidden_tokens
              /\ ~Loops(max_consecutive_repeats + 1, Len(prompt) + i)
        /\ emitted # <<>> => Len(emitted) <= budget /\ Len(emitted) <= max_new_tokens

\* The i-th of the records is the last session_open among them,
LastOpen(records, i) ==
    /\ records[i].event = "session_open"
    /\ \A j \in (i + 1)..Len(records) : records[j].event # "session_open"

\* and these are the records from there on: of a log, those of the current or
\* last session.
TrailOf(records) ==
    IF records = <<>> THEN <<>>
    ELSE SubSeq(records,
                CHOOSE i \in 1..Len(records) : LastOpen(records, i),
                Len(records))

SessionTrail == TrailOf(accepted)

\* One of them is a divergence.
Diverged == \E i \in 1..Len(SessionTrail) : SessionTrail[i].event = "divergence"

\* How many of the first n records of a trail are of the event.
CountOf(records, event, n) ==
    Cardinality({i \in 1..n : records[i].event = event})

\* The emission records of a trail hold these tokens, in this order.
EmissionsAre(records, tokens) ==
    /\ CountOf(records, "emission", Len(records)) = Len(tokens)
    /\ \A i \in 1..Len(records) : records[i].event = "emission" =>
          records[i].token = tokens[CountOf(records, "emission", i)]

\* A reader of the log can tell how a session that returned ended: under
\* ENFORCE it has one divergence, the record before session_close, if generate
\* said "quarantined" and none otherwise, and its emission records are the
\* tokens generate returned; session_close closes it with the committed steps.
TrailTellsSession ==
    audited /\ pc = "idle" /\ outcome = "returned" /\ mode = "enforce" =>
        LET n == Len(SessionTrail)
        IN  /\ SessionTrail[n] = SessionRecord("session_close", Len(emitted))
            /\ SessionTrail[n - 1].event = "divergence" <=> status = "quarantined"
            /\ \A i \in 1..(n - 2) : SessionTrail[i].event # "divergence"
            /\ traced => EmissionsAre(SessionTrail, emitted)

\* The boundaries of a step, in the order forward and gate_emission come to
\* them.
Boundaries ==
    LET layered == [i \in 1..(2 * n_layers) |->
            <<IF i % 2 = 1 THEN "attention" ELSE "layer_output", (i + 1) \div 2>>]
    IN  <<<<"embedding", 0>>>> \o layered
            \o <<<<"final_hidden", 0>>, <<"logits", 0>>, <<"emission", 0>>>>

\* The place in a trail of the b-th boundary of step k, behind session_open.
Place(k, b) == 1 + k * Len(Boundaries) + b

\* No committed step went past a boundary unseen: with tracing on the log has
\* one record for each boundary of each committed step, in their order, and no
\* other record of that step.
EveryBoundaryInspected ==
    audited /\ traced => \A k \in 0..(step - 1) :
        /\ \A i \in 1..Len(SessionTrail) :
              /\ SessionTrail[i].event \in {"state", "divergence", "emission"}
              /\ SessionTrail[i].step = k
              <=> i \in Place(k, 1)..Place(k, Len(Boundaries))
        /\ \A b \in 1..Len(Boundaries) :
              /\ Place(k, b) \in 1..Len(SessionTrail)
              /\ LET r == SessionTrail[Place(k, b)]
                 IN  <<r.kind, r.layer>> = Boundaries[b]

\* Under ENFORCE nothing is emitted after a divergence in the same session.
DivergenceStops ==
    [][mode = "enforce" /\ pc # "idle" /\ Diverged => emitted' = emitted]_vars

\* How many emissions a trail reports as breaking the policy, and the places of
\* the tokens that do when the prompt asked.
Reported(records) == Cardinality({i \in 1..Len(records) :
    records[i].event = "divergence" /\ records[i].kind = "emission"})

Forbidden(asked, tokens) == {k \in 1..Len(tokens) :
    check(tokens[k], asked \o SubSeq(tokens, 1, k - 1), k - 1) # {}}

\* A MONITOR run follows the trajectory of an unguarded one and reports every
\* forbidden token on it, once per occurrence: it is only quarantined over
\* logits no token can be decoded from, and until then the emission divergences
\* of the session are as many as the emitted tokens that break the policy.
ShadowReportsEveryOccurrence ==
    mode = "monitor" =>
        /\ status = "quarantined" => x = "malformed"
        /\ audited /\ pc \in {"loop", "close"} /\ status # "quarantined" =>
              Reported(SessionTrail) = Cardinality(Forbidden(prompt, emitted))

\* membrane.report is the account of the membrane's whole life, not of a session:
\* over all sessions it counts each divergence once, so the counts a session's
\* result and its session_close carry are those of the sessions before it too.
\* It may be one ahead of the log, and only because the log had failed; what
\* it calls a quarantine is a divergence that was logged and that raised.
ReportCountsTrail ==
    audited =>
        LET n == CountOf(accepted, "divergence", Len(accepted))
        IN  /\ signatures = n \/ (failed /\ signatures = n + 1)
            /\ quarantines <= n
            /\ mode = "enforce" => quarantines = n

\* generate ends: it returns or lets an exception out, and never waits for ever
\* in flush.
GenerateEnds == pc # "idle" ~> pc = "idle"

-----------------------------------------------------------------------------
\* What the documentation says and the code does not keep.

\* engine.py:11-14: "If the membrane raises anywhere in that sequence, the engine
\* rolls the KV cache back to the snapshot" and "The step leaves no residue".
NoResidue ==
    pc = "idle" /\ outcome \in {"returned", "RuntimeError"} =>
        CachesHold(Committed)

\* engine.py:12: on a violation the engine "records the divergence, and stops
\* generating".  Here, with no I/O error: it is in the log when generate ends.
DivergenceRecorded ==
    audited /\ ~IOFaults /\ mode = "enforce" /\ pc = "idle" /\ signatures > 0 =>
        Diverged /\ acked = Len(accepted)
=============================================================================
