---------------------------- MODULE EngineProofs ----------------------------
(***************************************************************************)
(* Theorems about Engine.tla, for any number of layers, any context, policy,*)
(* prompt and number of sessions, with and without an audit log, in both    *)
(* modes.                                                                   *)
(*                                                                         *)
(* The first part is about the cache and the policy.  The second is about  *)
(* what the audit trail tells, with a log whose writer may fail at any      *)
(* moment: how many divergences there were, how a session ended and what it *)
(* emitted, and that every boundary of every committed step was inspected.  *)
(* For it the steps of generate are first grouped by what they do to the   *)
(* trail.                                                                  *)
(***************************************************************************)
EXTENDS Engine, FiniteSetTheorems, SeqFacts

-----------------------------------------------------------------------------
\* The cache operators on a cache that holds a sequence of tokens.

LEMMA HoldingIsCache ==
    ASSUME NEW s \in Seq(Int)
    PROVE  Holding(RowsOf(s)) \in CacheType
  BY CapacityAssumption DEF Holding, RowsOf, Cache, CacheType

LEMMA HoldingLength ==
    ASSUME NEW s \in Seq(Int)
    PROVE  Holding(RowsOf(s)).length = Len(s)
  BY DEF Holding, RowsOf, Cache

LEMMA EmptyHolds ==
    ASSUME NEW c \in CacheType
    PROVE  /\ reset(c) = Holding(RowsOf(<<>>)) /\ reset(c) \in CacheType
           /\ new_cache = Holding(RowsOf(<<>>))
  BY CapacityAssumption DEF reset, new_cache, Holding, RowsOf, Cache, CacheType

\* Appending the rows of t behind s gives the cache of s and t.
LEMMA AppendHolds ==
    ASSUME NEW s \in Seq(Int), NEW t \in Seq(Int)
    PROVE  append(Holding(RowsOf(s)),
                  [i \in 1..Len(t) |-> <<Len(s) + i, t[i]>>])
             = Holding(RowsOf(s \o t))
<1> DEFINE new == [i \in 1..Len(t) |-> <<Len(s) + i, t[i]>>]
           c == Holding(RowsOf(s))
           d == Holding(RowsOf(s \o t))
           both == s \o t
<1>1. Len(s) \in Nat /\ Len(t) \in Nat
  OBVIOUS
<1>2. /\ both \in Seq(Int)
      /\ Len(both) = Len(s) + Len(t)
      /\ \A i \in 1..Len(both) :
            both[i] = IF i <= Len(s) THEN s[i] ELSE t[i - Len(s)]
  OBVIOUS
<1>3. Len(new) = Len(t) /\ Len(RowsOf(s)) = Len(s) /\ Len(RowsOf(both)) = Len(both)
  BY <1>1, <1>2 DEF RowsOf
<1>4. /\ DOMAIN c.rows = 1..Capacity /\ c.length = Len(s)
      /\ \A i \in 1..Capacity :
            c.rows[i] = IF i \in 1..Len(s) THEN <<i, s[i]>> ELSE ZERO
  BY <1>3 DEF Holding, Cache, RowsOf
<1>5. \A i \in 1..Capacity :
          (IF i \in (c.length + 1)..(c.length + Len(new))
           THEN new[i - c.length] ELSE c.rows[i])
            = (IF i \in 1..Len(RowsOf(both)) THEN RowsOf(both)[i] ELSE ZERO)
  <2> SUFFICES ASSUME NEW i \in 1..Capacity
               PROVE  (IF i \in (c.length + 1)..(c.length + Len(new))
                       THEN new[i - c.length] ELSE c.rows[i])
                        = (IF i \in 1..Len(RowsOf(both)) THEN RowsOf(both)[i]
                           ELSE ZERO)
    OBVIOUS
  <2> i \in Nat /\ i >= 1
    BY CapacityAssumption
  <2>1. CASE i <= Len(s)
    <3>1. i \notin (c.length + 1)..(c.length + Len(new)) /\ i \in 1..Len(s)
            /\ i \in 1..Len(both)
      BY <2>1, <1>1, <1>2, <1>3, <1>4
    <3>2. RowsOf(both)[i] = <<i, s[i]>>
      BY <3>1, <2>1, <1>2 DEF RowsOf
    <3> QED BY <3>1, <3>2, <1>3, <1>4
  <2>2. CASE i > Len(s) /\ i <= Len(s) + Len(t)
    <3>1. i \in (c.length + 1)..(c.length + Len(new)) /\ i \in 1..Len(both)
            /\ i - Len(s) \in 1..Len(t) /\ ~(i <= Len(s))
      BY <2>2, <1>1, <1>2, <1>3, <1>4
    <3>2. RowsOf(both)[i] = <<i, t[i - Len(s)]>>
      BY <3>1, <1>2 DEF RowsOf
    <3>3. new[i - Len(s)] = <<Len(s) + (i - Len(s)), t[i - Len(s)]>>
      BY <3>1
    <3>4. Len(s) + (i - Len(s)) = i
      BY <1>1
    <3> QED BY <3>1, <3>2, <3>3, <3>4, <1>3, <1>4
  <2>3. CASE i > Len(s) + Len(t)
    <3>1. i \notin (c.length + 1)..(c.length + Len(new)) /\ i \notin 1..Len(s)
            /\ i \notin 1..Len(both)
      BY <2>3, <1>1, <1>2, <1>3, <1>4
    <3> QED BY <3>1, <1>3, <1>4
  <2> QED BY <2>1, <2>2, <2>3, <1>1
<1>6. append(c, new) =
        Cache([i \in 1..Capacity |->
                  IF i \in (c.length + 1)..(c.length + Len(new))
                  THEN new[i - c.length] ELSE c.rows[i]], Len(s) + Len(t))
  BY <1>3, <1>4 DEF append
<1>7. d = Cache([i \in 1..Capacity |->
                  IF i \in 1..Len(RowsOf(both)) THEN RowsOf(both)[i] ELSE ZERO],
                Len(s) + Len(t))
  BY <1>2, <1>3 DEF Holding
<1> QED BY <1>5, <1>6, <1>7

\* Rolling the cache of s and t back to the length of s gives the cache of s.
LEMMA RollbackHolds ==
    ASSUME NEW s \in Seq(Int), NEW t \in Seq(Int)
    PROVE  /\ CanRollBackTo(Holding(RowsOf(s \o t)), Len(s))
           /\ rollback_to(Holding(RowsOf(s \o t)), Len(s)) = Holding(RowsOf(s))
<1> DEFINE both == s \o t
           c == Holding(RowsOf(both))
<1>1. Len(s) \in Nat /\ Len(t) \in Nat
  OBVIOUS
<1>2. /\ both \in Seq(Int)
      /\ Len(both) = Len(s) + Len(t)
      /\ \A i \in 1..Len(both) :
            both[i] = IF i <= Len(s) THEN s[i] ELSE t[i - Len(s)]
  OBVIOUS
<1>3. Len(RowsOf(s)) = Len(s) /\ Len(RowsOf(both)) = Len(s) + Len(t)
  BY <1>1, <1>2 DEF RowsOf
<1>4. /\ DOMAIN c.rows = 1..Capacity /\ c.length = Len(s) + Len(t)
      /\ \A i \in 1..Capacity :
            c.rows[i] = IF i \in 1..(Len(s) + Len(t)) THEN <<i, both[i]>> ELSE ZERO
  BY <1>2, <1>3 DEF Holding, Cache, RowsOf
<1>5. \A i \in 1..Capacity :
         (IF i \in (Len(s) + 1)..c.length THEN ZERO ELSE c.rows[i])
            = (IF i \in 1..Len(RowsOf(s)) THEN RowsOf(s)[i] ELSE ZERO)
  <2> SUFFICES ASSUME NEW i \in 1..Capacity
               PROVE  (IF i \in (Len(s) + 1)..c.length THEN ZERO ELSE c.rows[i])
                        = (IF i \in 1..Len(RowsOf(s)) THEN RowsOf(s)[i] ELSE ZERO)
    OBVIOUS
  <2> i \in Nat /\ i >= 1
    BY CapacityAssumption
  <2>1. CASE i <= Len(s)
    <3>1. i \in 1..Len(both) /\ i \in 1..Len(s) /\ i \notin (Len(s) + 1)..c.length
      BY <2>1, <1>1, <1>2, <1>4
    <3>2. c.rows[i] = <<i, s[i]>>
      BY <3>1, <2>1, <1>2, <1>4
    <3> QED BY <3>1, <3>2, <1>3 DEF RowsOf
  <2>2. CASE ~(i <= Len(s))
    <3>1. i \notin 1..Len(RowsOf(s))
      BY <2>2, <1>1, <1>3
    <3>2. CASE i <= Len(s) + Len(t)
      <4>1. i \in (Len(s) + 1)..c.length
        BY <2>2, <3>2, <1>1, <1>4
      <4> QED BY <4>1, <3>1
    <3>3. CASE ~(i <= Len(s) + Len(t))
      <4>1. i \notin (Len(s) + 1)..c.length /\ i \notin 1..(Len(s) + Len(t))
        BY <2>2, <3>3, <1>1, <1>4
      <4>2. c.rows[i] = ZERO
        BY <4>1, <1>4
      <4> QED BY <4>1, <4>2, <3>1
    <3> QED BY <3>2, <3>3
  <2> QED BY <2>1, <2>2
<1>6. rollback_to(c, Len(s)) =
        Cache([i \in 1..Capacity |->
                  IF i \in (Len(s) + 1)..c.length THEN ZERO ELSE c.rows[i]],
              Len(s))
  BY <1>4 DEF rollback_to
<1>7. Holding(RowsOf(s)) =
        Cache([i \in 1..Capacity |->
                  IF i \in 1..Len(RowsOf(s)) THEN RowsOf(s)[i] ELSE ZERO],
              Len(s))
  BY <1>3 DEF Holding
<1>8. CanRollBackTo(c, Len(s))
  BY <1>1, <1>4 DEF CanRollBackTo
<1> QED BY <1>5, <1>6, <1>7, <1>8

-----------------------------------------------------------------------------
\* The inductive invariant.

\* Between the first append of a step and its commit.
Mid == {"layer", "attention", "layer_output", "norm", "final_hidden", "head",
        "logits", "gate", "commit"}

\* From begin_step to the commit or the handler.
InStep == Mid \cup {"forward", "embedding", "except"}

\* Before the first append, after the commit, and after the loop.
AtRest ==
    \/ pc \in {"loop", "forward", "embedding", "close", "flush"}
    \/ pc = "idle" /\ outcome = "returned"

\* Layer l has appended the rows of the step that runs.
Done(l) ==
    \/ pc \in {"norm", "final_hidden", "head", "logits", "gate", "commit"}
    \/ pc \in {"attention", "layer_output"} /\ l <= layer
    \/ pc = "layer" /\ l < layer

\* What is pending is the prompt, or the last token once there is one.
PendingInv ==
    \/ emitted = <<>> /\ pending = prompt
    \/ emitted # <<>> /\ pending = <<emitted[Len(emitted)]>>

RestInv == AtRest => CachesHold(Committed)

\* A step knows where it began and has room for what is pending.
StepInv ==
    pc \in InStep =>
        /\ offset = Len(Committed)
        /\ snapshot = [l \in Layers |-> Len(Committed)]
        /\ Len(History) <= Capacity
        /\ pc = "embedding" => layer = 1

\* While the layers run, those that have appended hold the whole history and
\* the others what was committed.
MidInv ==
    pc \in Mid => \A l \in Layers :
        /\ Done(l)  => caches[l] = Holding(RowsOf(History))
        /\ ~Done(l) => caches[l] = Holding(RowsOf(Committed))

\* Wherever the step was left, a cache holds one or the other.
ExceptInv ==
    pc = "except" => \A l \in Layers :
        \/ caches[l] = Holding(RowsOf(History))
        \/ caches[l] = Holding(RowsOf(Committed))

\* The context bound, and what "context_full" is said of.
RoomInv ==
    /\ emitted # <<>> => Len(History) <= Capacity + 1
    /\ status = "context_full" =>
          pc \in {"close", "flush", "idle"} /\ Len(History) > Capacity

IInv ==
    /\ TypeOK /\ PendingInv /\ RestInv /\ StepInv /\ MidInv /\ ExceptInv
    /\ RoomInv

-----------------------------------------------------------------------------
\* What the shared parts of the actions do.

\* The history is the committed tokens and the pending ones.
LEMMA HistorySplit ==
    ASSUME TypeOK, PendingInv
    PROVE  /\ History \in Seq(Int) /\ Committed \in Seq(Int)
           /\ Committed \o pending = History
           /\ Len(Committed) + Len(pending) = Len(History)
<1> USE DEF TypeOK
<1>1. History \in Seq(Int)
  BY DEF History
<1>2. CASE emitted = <<>> /\ pending = prompt
  <2>1. History = prompt
    BY <1>2 DEF History
  <2>2. Committed = <<>>
    BY <1>2, <2>1 DEF Committed
  <2> QED BY <1>1, <1>2, <2>1, <2>2
<1>3. CASE emitted # <<>> /\ pending = <<emitted[Len(emitted)]>>
  <2>1. Len(emitted) >= 1 /\ Len(pending) = 1
    BY <1>3
  <2>2. /\ Len(History) = Len(prompt) + Len(emitted)
        /\ History[Len(History)] = emitted[Len(emitted)]
    BY <2>1 DEF History
  <2>3. Committed = SubSeq(History, 1, Len(History) - 1)
    BY <2>1 DEF Committed
  <2>4. /\ Committed \in Seq(Int) /\ Len(Committed) = Len(History) - 1
        /\ \A i \in 1..Len(Committed) : Committed[i] = History[i]
    BY <1>1, <2>1, <2>2, <2>3
  <2>5. Committed \o pending = History
    BY <1>1, <1>3, <2>1, <2>2, <2>4
  <2> QED BY <1>1, <2>1, <2>4, <2>5
<1> QED BY <1>2, <1>3 DEF PendingInv

\* The audit log's part of TypeOK.
AuditTyped == accepted \in Seq(Records) /\ failed \in BOOLEAN /\ acked \in Nat

\* A call of append on a well-typed record, when it succeeds
LEMMA AppendsEffect ==
    ASSUME TypeOK, NEW r \in Records, Appends(r)
    PROVE  AuditTyped'
<1>0. accepted \in Seq(Records) /\ failed \in BOOLEAN /\ acked \in Nat
  BY DEF TypeOK
<1>1. CASE accepted' = Append(accepted, r) /\ UNCHANGED <<failed, acked>>
  BY <1>0, <1>1 DEF AuditTyped
<1>2. CASE UNCHANGED <<accepted, failed, acked>>
  BY <1>0, <1>2 DEF AuditTyped
<1> QED BY <1>1, <1>2 DEF Appends, Log!Accept, auditVars

\* and when it may raise.
LEMMA AuditsEffect ==
    ASSUME TypeOK, NEW r \in Records, NEW next \in PCs, Audits(r, next)
    PROVE  /\ AuditTyped'
           /\ \/ pc' = next /\ outcome' = outcome
              \/ pc' = "idle" /\ outcome' = "RuntimeError"
<1>1. CASE Appends(r) /\ Goes(next)
  BY <1>1, AppendsEffect DEF Goes
<1>2. CASE AppendRaises /\ Ends("RuntimeError")
  BY <1>2 DEF AppendRaises, Ends, TypeOK, AuditTyped, auditVars
<1> QED BY <1>1, <1>2 DEF Audits

\* A boundary or the gate ends in the next place, in the handler of
\* QuarantineError or outside generate.
Proceeds(next) ==
    /\ AuditTyped'
    /\ signatures' \in Nat /\ quarantines' \in Nat
    /\ \/ pc' = next /\ outcome' = outcome
       \/ pc' = "except" /\ outcome' = outcome
       \/ pc' = "idle" /\ outcome' = "RuntimeError"

LEMMA HandleEffect ==
    ASSUME TypeOK, NEW kind \in Kinds, NEW w \in BOOLEAN, NEW f \in BOOLEAN,
           NEW next \in PCs, _handle(kind, w, f, next)
    PROVE  Proceeds(next)
<1> DEFINE r == Record("divergence", kind, NoToken, w)
           to == IF mode = "enforce" \/ f THEN "except" ELSE next
<1>1. r \in Records
  BY EngineAssumption DEF Record, Records, Events, Kinds, NoToken, TypeOK, Layers
<1>2. to \in PCs /\ (to = "except" \/ to = next)
  BY DEF PCs
<1>3. Audits(r, to)
  BY DEF _handle
<1>4. signatures' \in Nat /\ quarantines' \in Nat
  BY DEF _handle, TypeOK
<1> HIDE DEF r, to
<1>5. /\ AuditTyped'
      /\ \/ pc' = to /\ outcome' = outcome
         \/ pc' = "idle" /\ outcome' = "RuntimeError"
  BY <1>1, <1>2, <1>3, AuditsEffect
<1> QED BY <1>2, <1>4, <1>5 DEF Proceeds

LEMMA TraceEffect ==
    ASSUME TypeOK, NEW r \in Records, NEW next \in PCs, Trace(r, next)
    PROVE  Proceeds(next)
<1>1. signatures' \in Nat /\ quarantines' \in Nat
  BY DEF Trace, TypeOK, reportVars
<1>2. CASE traced
  <2>1. Audits(r, next)
    BY <1>2 DEF Trace
  <2> QED BY <1>1, <2>1, AuditsEffect DEF Proceeds
<1>3. CASE ~traced
  BY <1>1, <1>3 DEF Trace, Goes, Proceeds, TypeOK, AuditTyped, auditVars
<1> QED BY <1>2, <1>3

LEMMA OnStateEffect ==
    ASSUME TypeOK, NEW kind \in Kinds, NEW t, NEW next \in PCs,
           on_state(kind, t, next)
    PROVE  Proceeds(next)
<1>1. CASE _handle(kind, t # "unbounded", FALSE, next)
  BY <1>1, HandleEffect
<1>2. CASE Trace(Record("state", kind, NoToken, t # "huge"), next)
  <2>1. Record("state", kind, NoToken, t # "huge") \in Records
    BY EngineAssumption DEF Record, Records, Events, Kinds, NoToken, TypeOK, Layers
  <2> QED BY <1>2, <2>1, TraceEffect
<1> QED BY <1>1, <1>2 DEF on_state

LEMMA GateEffect ==
    ASSUME TypeOK, Gate
    PROVE  Proceeds("commit") /\ token' \in Int
<1>1. PICK tok \in 0..(model_vocab - 1), encodable \in BOOLEAN :
          /\ token' = tok
          /\ \/ _handle("emission", TRUE, FALSE, "commit")
             \/ Trace(Record("emission", "emission", tok, encodable), "commit")
  BY DEF Gate
<1>2. tok \in Int
  BY EngineAssumption
<1>3. "emission" \in Kinds /\ "commit" \in PCs
  BY DEF Kinds, PCs
<1>4. CASE _handle("emission", TRUE, FALSE, "commit")
  BY <1>1, <1>2, <1>3, <1>4, HandleEffect
<1>5. CASE Trace(Record("emission", "emission", tok, encodable), "commit")
  <2>1. Record("emission", "emission", tok, encodable) \in Records
    BY <1>2, EngineAssumption
       DEF Record, Records, Events, Kinds, TypeOK, Layers
  <2> QED BY <1>1, <1>2, <1>3, <1>5, <2>1, TraceEffect
<1> QED BY <1>1, <1>4, <1>5

-----------------------------------------------------------------------------
\* Type correctness is preserved by every step.

LEMMA PublishType ==
    ASSUME TypeOK, NEW kind \in Kinds, NEW t \in Tensors, NEW next \in PCs,
           Publish(kind, t, next), layer' \in Layers
    PROVE  TypeOK'
<1>1. Proceeds(next)
  BY OnStateEffect DEF Publish
<1>2. faults' \in Nat
  BY DEF Publish, Yields, TypeOK
<1>3. x' \in TensorKinds
  BY EngineAssumption DEF Publish
<1>4. /\ pc' \in PCs /\ outcome' \in Outcomes
  BY <1>1 DEF Proceeds, TypeOK, PCs, Outcomes
<1>5. UNCHANGED <<localVars, status, stepVars, caches, token, sessions>>
  BY DEF Publish
<1> QED BY <1>1, <1>2, <1>3, <1>4, <1>5
        DEF Proceeds, AuditTyped, TypeOK, localVars, stepVars

LEMMA TypeStep == TypeOK /\ [Next]_vars => TypeOK'
<1> SUFFICES ASSUME TypeOK, [Next]_vars
             PROVE  TypeOK'
  OBVIOUS
<1> USE DEF localVars, stepVars, reportVars, auditVars, boundVars, AuditTyped
<1>0. n_layers \in Nat \ {0} /\ 1 \in Layers
  BY EngineAssumption DEF Layers
<1>1. ASSUME NEW p \in Prompts, Generate(p)
      PROVE  TypeOK'
  <2>1. p \in Seq(Int)
    BY EngineAssumption
  <2>2. caches' \in [Layers -> CacheType]
    <3>1. \A l \in Layers : caches[l] \in CacheType
      BY DEF TypeOK
    <3>2. \A l \in Layers : reset(caches[l]) \in CacheType
      BY <3>1, EmptyHolds
    <3> QED BY <3>2, <1>1 DEF Generate
  <2>3. AuditTyped' /\ pc' \in PCs /\ outcome' \in Outcomes
    <3>1. CASE Appends(SessionRecord("session_open", 0))
                 /\ pc' = "loop" /\ outcome' = "none"
      <4>1. SessionRecord("session_open", 0) \in Records
        BY DEF SessionRecord, Records, Events, Kinds, NoToken
      <4> QED BY <3>1, <4>1, AppendsEffect DEF PCs, Outcomes
    <3>2. CASE AppendRaises /\ Ends("RuntimeError")
      BY <3>2 DEF AppendRaises, Ends, PCs, Outcomes, TypeOK
    <3> QED BY <1>1, <3>1, <3>2 DEF Generate
  <2> QED BY <1>1, <2>1, <2>2, <2>3 DEF Generate, TypeOK, Statuses
<1>2. CASE Exhausted
  BY <1>2 DEF Exhausted, Goes, TypeOK, PCs, Statuses
<1>3. CASE ContextFull
  BY <1>3 DEF ContextFull, Goes, TypeOK, PCs, Statuses
<1>4. CASE BeginStep
  <2>1. \A l \in Layers : caches[l].length \in Nat
    BY DEF TypeOK, CacheType
  <2> QED BY <1>0, <1>4, <2>1 DEF BeginStep, Goes, TypeOK, PCs
<1>5. CASE ForwardRefuses
  BY <1>5 DEF ForwardRefuses, Ends, TypeOK, PCs, Outcomes
<1>6. CASE ForwardStarts
  BY <1>0, <1>6 DEF ForwardStarts, Goes, TypeOK, PCs, Published
<1>7. CASE LayerRuns
  <2>1. caches' \in [Layers -> CacheType]
    <3>1. append(caches[layer], NewRows) \in CacheType
      <4>1. /\ caches[layer] \in CacheType /\ offset \in Nat
            /\ pending \in Seq(Int)
        BY DEF TypeOK
      <4>2. /\ Len(NewRows) = Len(pending) /\ Len(pending) \in Nat
            /\ \A i \in 1..Len(pending) : NewRows[i] \in Int \X Int
        BY <4>1 DEF NewRows
      <4> QED BY <4>1, <4>2, CapacityAssumption DEF append, Cache, CacheType
    <3> QED BY <1>7, <3>1 DEF LayerRuns, TypeOK
  <2> QED BY <1>7, <2>1 DEF LayerRuns, Goes, TypeOK, PCs, Published
<1>8. CASE ModelRefuses
  BY <1>8 DEF ModelRefuses, Ends, TypeOK, PCs, Outcomes
<1>9. CASE FinalNorm
  BY <1>9 DEF FinalNorm, Goes, TypeOK, PCs, Published
<1>10. CASE OutputHead
  BY <1>10 DEF OutputHead, Goes, TypeOK, PCs, Published
<1>11. CASE PublishEmbedding
  <2>1. PICK t \in Tensors : Publish("embedding", t, "layer") /\ UNCHANGED layer
    BY <1>11 DEF PublishEmbedding
  <2> QED BY <2>1, PublishType DEF Kinds, PCs, TypeOK
<1>12. CASE PublishAttention
  <2>1. PICK t \in Tensors :
            /\ on_state("attention", t, "layer_output") /\ Yields(t)
            /\ UNCHANGED <<layer, localVars, status, stepVars, caches, x, token,
                           sessions>>
    BY <1>12 DEF PublishAttention
  <2>2. Proceeds("layer_output")
    BY <2>1, OnStateEffect DEF Kinds, PCs, Published
  <2>3. faults' \in Nat
    BY <2>1 DEF Yields, TypeOK
  <2> QED BY <2>1, <2>2, <2>3 DEF Proceeds, TypeOK, PCs, Published, Outcomes
<1>13. CASE PublishLayerOutput
  <2>1. PICK t \in Tensors :
            \/ /\ layer < n_layers
               /\ Publish("layer_output", t, "layer")
               /\ layer' = layer + 1
            \/ /\ layer = n_layers
               /\ Publish("layer_output", t, "norm")
               /\ UNCHANGED layer
    BY <1>13 DEF PublishLayerOutput
  <2>2. layer' \in Layers
    BY <1>0, <2>1 DEF TypeOK, Layers
  <2> QED BY <2>1, <2>2, PublishType DEF Kinds, PCs
<1>14. CASE PublishFinalHidden
  <2>1. PICK t \in Tensors : Publish("final_hidden", t, "head") /\ UNCHANGED layer
    BY <1>14 DEF PublishFinalHidden
  <2> QED BY <2>1, PublishType DEF Kinds, PCs, TypeOK
<1>15. CASE PublishLogits
  <2>1. PICK t \in Tensors : Publish("logits", t, "gate") /\ UNCHANGED layer
    BY <1>15 DEF PublishLogits
  <2> QED BY <2>1, PublishType DEF Kinds, PCs, TypeOK
<1>16. CASE GateRefuses
  <2>1. Proceeds("commit")
    BY <1>16, HandleEffect DEF GateRefuses, Kinds, PCs
  <2> QED BY <1>16, <2>1 DEF GateRefuses, Proceeds, TypeOK, PCs, Outcomes
<1>17. CASE Gate
  <2>1. Proceeds("commit") /\ token' \in Int
    BY <1>17, GateEffect
  <2> QED BY <1>17, <2>1 DEF Gate, Proceeds, TypeOK, PCs, Outcomes
<1>18. CASE Commit
  BY <1>18 DEF Commit, Goes, TypeOK, PCs
<1>19. CASE Quarantined
  <2>1. caches' \in [Layers -> CacheType]
    <3>1. \A l \in Layers : rollback_to(caches[l], snapshot[l]) \in CacheType
      BY CapacityAssumption DEF rollback_to, Cache, CacheType, TypeOK
    <3> QED BY <1>19, <3>1 DEF Quarantined
  <2> QED BY <1>19, <2>1 DEF Quarantined, Goes, TypeOK, PCs, Statuses
<1>20. CASE Close
  <2>1. SessionRecord("session_close", step) \in Records
    BY DEF SessionRecord, Records, Events, Kinds, NoToken, TypeOK
  <2>2. AuditTyped' /\ pc' \in PCs /\ outcome' \in Outcomes
    <3>1. CASE Audits(SessionRecord("session_close", step), "flush")
      BY <2>1, <3>1, AuditsEffect DEF PCs, Outcomes, TypeOK
    <3>2. CASE Ends("returned") /\ UNCHANGED auditVars
      BY <3>2 DEF Ends, PCs, Outcomes, TypeOK
    <3> QED BY <1>20, <3>1, <3>2 DEF Close
  <2> QED BY <1>20, <2>2 DEF Close, TypeOK
<1>21. CASE Flush
  <2>1. AuditTyped'
    <3>1. Len(accepted) \in Nat
      BY DEF TypeOK
    <3> QED BY <1>21, <3>1 DEF Flush, Log!Acknowledge, TypeOK
  <2>2. pc' \in PCs /\ outcome' \in Outcomes
    BY <1>21 DEF Flush, Ends, PCs, Outcomes
  <2> QED BY <1>21, <2>1, <2>2 DEF Flush, TypeOK
<1>22. CASE WriterRefuses \/ WriterBreaks
  BY <1>22 DEF WriterRefuses, WriterBreaks, Log!Refuse, Log!Break, Log!Fail,
               EngineSide, TypeOK
<1>23. CASE UNCHANGED vars
  BY <1>23 DEF vars, TypeOK
<1> QED
  BY <1>1, <1>2, <1>3, <1>4, <1>5, <1>6, <1>7, <1>8, <1>9, <1>10, <1>11,
     <1>12, <1>13, <1>14, <1>15, <1>16, <1>17, <1>18, <1>19, <1>20, <1>21,
     <1>22, <1>23 DEF Next, Run, Forward

-----------------------------------------------------------------------------
\* The cache invariants are preserved.

\* A step that touches neither the locals, nor the caches, nor what the step
\* remembers of its beginning, and only moves between the places named here.
LEMMA Moves ==
    ASSUME IInv, UNCHANGED <<localVars, stepVars, caches>>,
           AtRest' => AtRest,
           pc' \in InStep => pc \in InStep,
           pc' = "embedding" => layer' = 1,
           \/ pc' \notin Mid
           \/ pc \in Mid /\ \A l \in Layers : Done(l)' <=> Done(l)
           \/ pc = "embedding" /\ pc' = "layer" /\ UNCHANGED layer,
           pc' = "except" => pc \in Mid \cup {"embedding", "except"},
           status' = "context_full" =>
              /\ pc' \in {"close", "flush", "idle"}
              /\ status = "context_full" \/ Len(History) > Capacity
    PROVE  /\ PendingInv' /\ RestInv' /\ StepInv' /\ MidInv' /\ ExceptInv'
           /\ RoomInv'
<1> USE DEF IInv, localVars, stepVars
<1>1. History' = History /\ Committed' = Committed
  BY DEF History, Committed
<1>2. PendingInv'
  BY DEF PendingInv
<1>3. RestInv'
  BY <1>1 DEF RestInv, CachesHold
<1>4. StepInv'
  BY <1>1 DEF StepInv
<1>5. MidInv'
  <2> SUFFICES ASSUME pc' \in Mid, NEW l \in Layers
               PROVE  /\ Done(l)'  => caches[l] = Holding(RowsOf(History))
                      /\ ~Done(l)' => caches[l] = Holding(RowsOf(Committed))
    BY <1>1 DEF MidInv
  <2>1. CASE pc \in Mid /\ \A k \in Layers : Done(k)' <=> Done(k)
    BY <2>1 DEF MidInv
  <2>2. CASE pc = "embedding" /\ pc' = "layer" /\ UNCHANGED layer
    <3>1. layer = 1
      BY <2>2 DEF StepInv, InStep
    <3>2. ~Done(l)'
      BY <2>2, <3>1 DEF Done, Layers
    <3>3. caches[l] = Holding(RowsOf(Committed))
      BY <2>2 DEF RestInv, AtRest, CachesHold
    <3> QED BY <3>2, <3>3
  <2> QED BY <2>1, <2>2
<1>6. ExceptInv'
  <2> SUFFICES ASSUME pc' = "except", NEW l \in Layers
               PROVE  \/ caches[l] = Holding(RowsOf(History))
                      \/ caches[l] = Holding(RowsOf(Committed))
    BY <1>1 DEF ExceptInv
  <2>1. CASE pc \in Mid
    BY <2>1 DEF MidInv
  <2>2. CASE pc = "embedding"
    BY <2>2 DEF RestInv, AtRest, CachesHold
  <2>3. CASE pc = "except"
    BY <2>3 DEF ExceptInv
  <2> QED BY <2>1, <2>2, <2>3
<1>7. RoomInv'
  BY <1>1 DEF RoomInv
<1> QED BY <1>2, <1>3, <1>4, <1>5, <1>6, <1>7

\* Publishing goes on, or to the handler, or out of generate: the caches stay.
LEMMA Publishes ==
    ASSUME IInv, NEW next, Proceeds(next),
           UNCHANGED <<localVars, stepVars, caches, status>>,
           pc \in Mid \cup {"embedding"},
           pc' = next =>
              \/ pc \in Mid /\ next \in Mid /\ \A l \in Layers : Done(l)' <=> Done(l)
              \/ pc = "embedding" /\ next = "layer" /\ UNCHANGED layer
    PROVE  /\ PendingInv' /\ RestInv' /\ StepInv' /\ MidInv' /\ ExceptInv'
           /\ RoomInv'
<1>1. status # "context_full"
  BY DEF IInv, RoomInv, Mid
<1>2. \/ pc' = next /\ outcome' = outcome
      \/ pc' = "except" /\ outcome' = outcome
      \/ pc' = "idle" /\ outcome' = "RuntimeError"
  BY DEF Proceeds
<1>3. ~AtRest' /\ pc' # "embedding" /\ pc' # "forward"
  BY <1>2 DEF AtRest, Mid
<1>4. \/ pc' \notin Mid
      \/ pc \in Mid /\ \A l \in Layers : Done(l)' <=> Done(l)
      \/ pc = "embedding" /\ pc' = "layer" /\ UNCHANGED layer
  BY <1>2 DEF Mid
<1>5. pc \in InStep
  BY DEF InStep
<1> QED BY <1>1, <1>3, <1>4, <1>5, Moves DEF Mid

LEMMA InvStep ==
    IInv /\ [Next]_vars => /\ PendingInv' /\ RestInv' /\ StepInv' /\ MidInv'
                           /\ ExceptInv' /\ RoomInv'
<1> SUFFICES ASSUME IInv, [Next]_vars
             PROVE  /\ PendingInv' /\ RestInv' /\ StepInv' /\ MidInv'
                    /\ ExceptInv' /\ RoomInv'
  OBVIOUS
<1> USE DEF IInv
<1>0. /\ n_layers \in Nat \ {0} /\ 1 \in Layers
      /\ layer \in Nat /\ Layers = 1..n_layers
  BY EngineAssumption DEF Layers, TypeOK
<1>h. /\ History \in Seq(Int) /\ Committed \in Seq(Int)
      /\ pending \in Seq(Int)
      /\ Committed \o pending = History
      /\ Len(Committed) + Len(pending) = Len(History)
  BY HistorySplit DEF TypeOK
<1>1. ASSUME NEW p \in Prompts, Generate(p)
      PROVE  /\ PendingInv' /\ RestInv' /\ StepInv' /\ MidInv' /\ ExceptInv'
             /\ RoomInv'
  <2>1. /\ emitted' = <<>> /\ pending' = p /\ prompt' = p
        /\ status' = "completed"
        /\ pc' \in {"loop", "idle"}
        /\ p \in Seq(Int)
    BY <1>1, EngineAssumption DEF Generate, Ends
  <2>2. Committed' = <<>>
    BY <2>1 DEF Committed, History
  <2>3. \A l \in Layers : caches'[l] = Holding(RowsOf(<<>>))
    BY <1>1, EmptyHolds DEF Generate, TypeOK
  <2>4. RestInv'
    BY <2>2, <2>3 DEF RestInv, CachesHold
  <2> QED BY <2>1, <2>4
          DEF PendingInv, StepInv, MidInv, ExceptInv, RoomInv, InStep, Mid
<1>2. CASE Exhausted
  <2>1. ~(pc' \in InStep) /\ AtRest
    BY <1>2 DEF Exhausted, Goes, InStep, Mid, AtRest
  <2> QED BY <1>2, <2>1, Moves DEF Exhausted, Goes, InStep
<1>3. CASE ContextFull
  <2>1. ~(pc' \in InStep) /\ AtRest
    BY <1>3 DEF ContextFull, Goes, InStep, Mid, AtRest
  <2>2. caches[1] = Holding(RowsOf(Committed))
    BY <1>0, <2>1 DEF RestInv, CachesHold
  <2>3. caches[1].length = Len(Committed)
    BY <1>h, <2>2, HoldingLength
  <2>4. Len(History) > Capacity
    BY <1>3, <1>h, <2>3 DEF ContextFull, Overflows
  <2> QED BY <1>3, <2>1, <2>4, Moves DEF ContextFull, Goes, InStep
<1>4. CASE BeginStep
  <2>1. UNCHANGED <<localVars, caches, status>> /\ pc = "loop" /\ pc' = "forward"
    BY <1>4 DEF BeginStep, Goes
  <2>2. History' = History /\ Committed' = Committed
    BY <2>1 DEF History, Committed, localVars
  <2>3. CachesHold(Committed) /\ CachesHold(Committed)'
    BY <2>1, <2>2 DEF RestInv, AtRest, CachesHold
  <2>4. \A l \in Layers : caches[l].length = Len(Committed)
    BY <1>h, <2>3, HoldingLength DEF CachesHold
  <2>5. /\ offset' = Len(Committed)
        /\ snapshot' = [l \in Layers |-> Len(Committed)]
    BY <1>0, <1>4, <2>4 DEF BeginStep
  <2>6. Len(History) <= Capacity
    BY <1>0, <1>4, <1>h, <2>4, CapacityAssumption DEF BeginStep, Overflows
  <2>7. PendingInv' /\ RoomInv'
    BY <2>1, <2>2 DEF PendingInv, RoomInv, localVars
  <2> QED BY <2>1, <2>2, <2>3, <2>5, <2>6, <2>7
          DEF RestInv, StepInv, MidInv, ExceptInv, Mid
<1>5. CASE ForwardRefuses
  <2>1. ~(pc' \in InStep) /\ ~AtRest' /\ status # "context_full"
    BY <1>5 DEF ForwardRefuses, Ends, InStep, Mid, AtRest, RoomInv
  <2> QED BY <1>5, <2>1, Moves DEF ForwardRefuses, InStep
<1>6. CASE ForwardStarts
  <2>1. /\ pc = "forward" /\ pc' = "embedding" /\ AtRest /\ layer' = 1
        /\ UNCHANGED <<localVars, stepVars, caches, status>>
        /\ status # "context_full"
    BY <1>6 DEF ForwardStarts, Goes, AtRest, RoomInv
  <2> QED BY <2>1, Moves DEF InStep, Mid
<1>7. CASE LayerRuns
  <2>1. /\ UNCHANGED <<localVars, stepVars, status, layer>>
        /\ pc = "layer" /\ pc' = "attention"
        /\ caches' = [caches EXCEPT ![layer] = append(caches[layer], NewRows)]
        /\ layer \in Layers
    BY <1>7 DEF LayerRuns, Goes, TypeOK
  <2>2. History' = History /\ Committed' = Committed
    BY <2>1 DEF History, Committed, localVars
  <2>3. append(caches[layer], NewRows) = Holding(RowsOf(History))
    <3>1. ~Done(layer)
      BY <1>0, <2>1 DEF Done
    <3>2. caches[layer] = Holding(RowsOf(Committed))
      BY <2>1, <3>1 DEF MidInv, Mid
    <3>3. offset = Len(Committed)
      BY <2>1 DEF StepInv, InStep, Mid
    <3> QED BY <1>h, <3>2, <3>3, AppendHolds DEF NewRows
  <2>4. MidInv'
    <3> SUFFICES ASSUME NEW l \in Layers
                 PROVE  /\ Done(l)'  => caches'[l] = Holding(RowsOf(History))
                        /\ ~Done(l)' => caches'[l] = Holding(RowsOf(Committed))
      BY <2>2 DEF MidInv
    <3>0. /\ Done(l)' <=> l <= layer
          /\ Done(l) <=> l < layer
      BY <2>1 DEF Done
    <3>1. CASE l = layer
      BY <1>0, <2>1, <2>3, <3>0, <3>1 DEF TypeOK
    <3>2. CASE l # layer
      <4>1. caches'[l] = caches[l]
        BY <2>1, <3>2 DEF TypeOK
      <4>2. Done(l)' <=> Done(l)
        BY <1>0, <3>0, <3>2
      <4> QED BY <2>1, <4>1, <4>2 DEF MidInv, Mid
    <3> QED BY <3>1, <3>2
  <2>5. /\ PendingInv' /\ RoomInv' /\ StepInv'
    BY <2>1, <2>2 DEF PendingInv, RoomInv, StepInv, InStep, Mid, localVars, stepVars
  <2>6. RestInv' /\ ExceptInv'
    BY <2>1 DEF RestInv, AtRest, ExceptInv
  <2> QED BY <2>4, <2>5, <2>6
<1>8. CASE ModelRefuses
  <2>1. ~(pc' \in InStep) /\ ~AtRest' /\ status # "context_full"
    BY <1>8 DEF ModelRefuses, Ends, InStep, Mid, AtRest, RoomInv
  <2> QED BY <1>8, <2>1, Moves DEF ModelRefuses, InStep
<1>9. CASE FinalNorm
  <2>1. /\ pc = "norm" /\ pc' = "final_hidden"
        /\ UNCHANGED <<localVars, stepVars, caches, status, layer>>
        /\ status # "context_full"
    BY <1>9 DEF FinalNorm, Goes, RoomInv
  <2>2. \A l \in Layers : Done(l)' <=> Done(l)
    BY <2>1 DEF Done
  <2> QED BY <2>1, <2>2, Moves DEF InStep, Mid, AtRest
<1>10. CASE OutputHead
  <2>1. /\ pc = "head" /\ pc' = "logits"
        /\ UNCHANGED <<localVars, stepVars, caches, status, layer>>
        /\ status # "context_full"
    BY <1>10 DEF OutputHead, Goes, RoomInv
  <2>2. \A l \in Layers : Done(l)' <=> Done(l)
    BY <2>1 DEF Done
  <2> QED BY <2>1, <2>2, Moves DEF InStep, Mid, AtRest
<1>11. CASE PublishEmbedding
  <2>1. /\ pc = "embedding" /\ Proceeds("layer") /\ UNCHANGED layer
        /\ UNCHANGED <<localVars, stepVars, caches, status>>
    BY <1>11, OnStateEffect DEF PublishEmbedding, Publish, Kinds, PCs
  <2> QED BY <2>1, Publishes
<1>12. CASE PublishAttention
  <2>1. /\ pc = "attention" /\ Proceeds("layer_output") /\ UNCHANGED layer
        /\ UNCHANGED <<localVars, stepVars, caches, status>>
    BY <1>12, OnStateEffect DEF PublishAttention, Kinds, PCs, Published
  <2>2. pc' = "layer_output" => \A l \in Layers : Done(l)' <=> Done(l)
    BY <2>1 DEF Done
  <2> QED BY <2>1, <2>2, Publishes DEF Mid
<1>13. CASE PublishLayerOutput
  <2>1. /\ pc = "layer_output"
        /\ UNCHANGED <<localVars, stepVars, caches, status>>
    BY <1>13 DEF PublishLayerOutput, Publish
  <2>2. CASE Proceeds("layer") /\ layer < n_layers /\ layer' = layer + 1
    <3>1. pc' = "layer" => \A l \in Layers : Done(l)' <=> Done(l)
      BY <1>0, <2>1, <2>2 DEF Done
    <3> QED BY <2>1, <2>2, <3>1, Publishes DEF Mid
  <2>3. CASE Proceeds("norm") /\ layer = n_layers /\ UNCHANGED layer
    <3>1. pc' = "norm" => \A l \in Layers : Done(l)' <=> Done(l)
      BY <1>0, <2>1, <2>3 DEF Done
    <3> QED BY <2>1, <2>3, <3>1, Publishes DEF Mid
  <2> QED BY <1>13, <2>2, <2>3, OnStateEffect
          DEF PublishLayerOutput, Publish, Kinds, PCs
<1>14. CASE PublishFinalHidden
  <2>1. /\ pc = "final_hidden" /\ Proceeds("head") /\ UNCHANGED layer
        /\ UNCHANGED <<localVars, stepVars, caches, status>>
    BY <1>14, OnStateEffect DEF PublishFinalHidden, Publish, Kinds, PCs
  <2>2. pc' = "head" => \A l \in Layers : Done(l)' <=> Done(l)
    BY <2>1 DEF Done
  <2> QED BY <2>1, <2>2, Publishes DEF Mid
<1>15. CASE PublishLogits
  <2>1. /\ pc = "logits" /\ Proceeds("gate") /\ UNCHANGED layer
        /\ UNCHANGED <<localVars, stepVars, caches, status>>
    BY <1>15, OnStateEffect DEF PublishLogits, Publish, Kinds, PCs
  <2>2. pc' = "gate" => \A l \in Layers : Done(l)' <=> Done(l)
    BY <2>1 DEF Done
  <2> QED BY <2>1, <2>2, Publishes DEF Mid
<1>16. CASE GateRefuses \/ Gate
  <2>1. /\ pc = "gate" /\ UNCHANGED layer
        /\ UNCHANGED <<localVars, stepVars, caches, status>>
    BY <1>16 DEF GateRefuses, Gate
  <2>2. Proceeds("commit")
    BY <1>16, GateEffect, HandleEffect DEF GateRefuses, Kinds, PCs
  <2>3. pc' = "commit" => \A l \in Layers : Done(l)' <=> Done(l)
    BY <2>1 DEF Done
  <2> QED BY <2>1, <2>2, <2>3, Publishes DEF Mid
<1>17. CASE Commit
  <2>1. /\ pc = "commit" /\ pc' = "loop"
        /\ emitted' = Append(emitted, token) /\ pending' = <<token>>
        /\ UNCHANGED <<prompt, caches, status>>
        /\ emitted \in Seq(Int) /\ prompt \in Seq(Int) /\ token \in Int
    BY <1>17 DEF Commit, Goes, TypeOK
  <2>2. History' = Append(History, token)
    BY <2>1 DEF History
  <2>3. Committed' = History
    <3>1. Committed' = SubSeq(Append(History, token), 1, Len(Append(History, token)) - 1)
      BY <2>1, <2>2 DEF Committed
    <3> QED BY <1>h, <2>1, <3>1
  <2>4. \A l \in Layers : caches[l] = Holding(RowsOf(History))
    BY <2>1 DEF MidInv, Mid, Done
  <2>5. RestInv'
    BY <2>1, <2>3, <2>4 DEF RestInv, CachesHold
  <2>6. PendingInv'
    <3>1. emitted' # <<>> /\ emitted'[Len(emitted')] = token
      BY <2>1
    <3> QED BY <2>1, <3>1 DEF PendingInv
  <2>7. RoomInv'
    <3>1. Len(History) <= Capacity /\ status # "context_full"
      BY <2>1 DEF StepInv, InStep, Mid, RoomInv
    <3>2. Len(History') = Len(History) + 1
      BY <1>h, <2>1, <2>2
    <3> QED BY <1>h, <2>1, <3>1, <3>2, CapacityAssumption DEF RoomInv
  <2> QED BY <2>1, <2>5, <2>6, <2>7
          DEF StepInv, MidInv, ExceptInv, InStep, Mid
<1>18. CASE Quarantined
  <2>1. /\ pc = "except" /\ pc' = "close" /\ status' = "quarantined"
        /\ caches' = [l \in Layers |-> rollback_to(caches[l], snapshot[l])]
        /\ UNCHANGED localVars
    BY <1>18 DEF Quarantined, Goes
  <2>2. History' = History /\ Committed' = Committed
    BY <2>1 DEF History, Committed, localVars
  <2>3. \A l \in Layers : caches'[l] = Holding(RowsOf(Committed))
    <3> SUFFICES ASSUME NEW l \in Layers
                 PROVE  rollback_to(caches[l], snapshot[l])
                          = Holding(RowsOf(Committed))
      BY <2>1
    <3>1. snapshot[l] = Len(Committed)
      BY <2>1 DEF StepInv, InStep
    <3>2. CASE caches[l] = Holding(RowsOf(History))
      BY <1>h, <3>1, <3>2, RollbackHolds
    <3>3. CASE caches[l] = Holding(RowsOf(Committed))
      <4>1. Committed \o <<>> = Committed /\ <<>> \in Seq(Int)
        BY <1>h
      <4> QED BY <1>h, <3>1, <3>3, <4>1, RollbackHolds
    <3> QED BY <2>1, <3>2, <3>3 DEF ExceptInv
  <2>4. RestInv'
    BY <2>2, <2>3 DEF RestInv, CachesHold
  <2>5. PendingInv' /\ RoomInv'
    BY <2>1, <2>2 DEF PendingInv, RoomInv, localVars
  <2> QED BY <2>1, <2>4, <2>5 DEF StepInv, MidInv, ExceptInv, InStep, Mid
<1>19. CASE Close \/ Flush
  <2>1. /\ pc \in {"close", "flush"} /\ pc' \in {"flush", "idle"}
        /\ UNCHANGED <<localVars, stepVars, caches, status>>
    BY <1>19 DEF Close, Flush, Audits, Goes, Ends
  <2>2. AtRest /\ pc' \notin InStep
    BY <2>1 DEF AtRest, InStep, Mid
  <2> QED BY <2>1, <2>2, Moves DEF InStep, RoomInv
<1>20. CASE WriterRefuses \/ WriterBreaks \/ UNCHANGED vars
  <2>1. UNCHANGED <<pc, layer, localVars, stepVars, caches, status, outcome>>
    BY <1>20 DEF WriterRefuses, WriterBreaks, EngineSide, vars, localVars,
                 stepVars
  <2>2. AtRest' <=> AtRest
    BY <2>1 DEF AtRest
  <2>3. \A l \in Layers : Done(l)' <=> Done(l)
    BY <2>1 DEF Done
  <2> QED BY <2>1, <2>2, <2>3, Moves DEF RoomInv, StepInv, InStep, Mid
<1> QED
  BY <1>1, <1>2, <1>3, <1>4, <1>5, <1>6, <1>7, <1>8, <1>9, <1>10, <1>11,
     <1>12, <1>13, <1>14, <1>15, <1>16, <1>17, <1>18, <1>19, <1>20
     DEF Next, Run, Forward

-----------------------------------------------------------------------------
\* The theorems.

LEMMA InitEstablishes == Init => IInv
<1> SUFFICES ASSUME Init PROVE IInv
  OBVIOUS
<1>1. 1 \in Layers
  BY EngineAssumption DEF Layers
<1>2. new_cache \in CacheType
  BY CapacityAssumption DEF new_cache, Cache, CacheType
<1>3. TypeOK
  <2>1. /\ pc \in PCs /\ layer \in Layers /\ status \in Statuses
        /\ x \in TensorKinds /\ token \in Int /\ outcome \in Outcomes
    BY <1>1 DEF Init, PCs, Statuses, TensorKinds, Outcomes, NoToken
  <2>2. /\ prompt \in Seq(Int) /\ emitted \in Seq(Int) /\ pending \in Seq(Int)
        /\ step \in Nat /\ step = Len(emitted) /\ accepted \in Seq(Records)
    BY DEF Init
  <2>3. snapshot \in [Layers -> Nat] /\ caches \in [Layers -> CacheType]
    BY <1>2 DEF Init
  <2> QED BY <2>1, <2>2, <2>3 DEF Init, TypeOK
<1>4. PendingInv /\ RestInv /\ StepInv /\ MidInv /\ ExceptInv /\ RoomInv
  BY DEF Init, PendingInv, RestInv, AtRest, StepInv, InStep, MidInv, Mid,
         ExceptInv, RoomInv
<1> QED BY <1>3, <1>4 DEF IInv

\* The invariant holds in every reachable state.
THEOREM Invariance == Spec => []IInv
<1>1. Init => IInv
  BY InitEstablishes
<1>2. IInv /\ [Next]_vars => IInv'
  BY TypeStep, InvStep DEF IInv
<1> QED BY <1>1, <1>2, PTL DEF Spec

\* Every variable of the engine stays in its type, and the step count is the
\* number of emitted tokens.
THEOREM TypeCorrect == Spec => []TypeOK
<1>1. IInv => TypeOK
  BY DEF IInv
<1> QED BY <1>1, Invariance, PTL

\* Whatever was quarantined, recorded or replayed before, between steps and
\* after a returning generate the caches of all layers are exactly those that
\* decoding the committed tokens from scratch would have filled.
THEOREM CacheCorrect == Spec => []CacheIsHistory
<1>1. IInv => CacheIsHistory
  BY DEF IInv, RestInv, AtRest, CacheIsHistory
<1> QED BY <1>1, Invariance, PTL

\* The context is used up to its last position and never beyond.
THEOREM ContextCorrect == Spec => []ContextIsUsedUp
<1>1. IInv => ContextIsUsedUp
  BY DEF IInv, RoomInv, ContextIsUsedUp
<1> QED BY <1>1, Invariance, PTL

\* _rollback is never refused: no snapshot is longer than its cache, so the
\* handler of QuarantineError cannot fail with a ValueError of its own.
RollbackAccepted ==
    pc = "except" => \A l \in Layers : CanRollBackTo(caches[l], snapshot[l])

THEOREM RollbackSucceeds == Spec => []RollbackAccepted
<1>1. IInv => RollbackAccepted
  <2> SUFFICES ASSUME IInv, pc = "except", NEW l \in Layers
               PROVE  CanRollBackTo(caches[l], snapshot[l])
    BY DEF RollbackAccepted
  <2>1. /\ Committed \in Seq(Int) /\ pending \in Seq(Int)
        /\ Committed \o pending = History
    BY HistorySplit DEF IInv, TypeOK
  <2>2. snapshot[l] = Len(Committed)
    BY DEF IInv, StepInv, InStep
  <2>3. CASE caches[l] = Holding(RowsOf(History))
    BY <2>1, <2>2, <2>3, RollbackHolds
  <2>4. CASE caches[l] = Holding(RowsOf(Committed))
    <3>1. Committed \o <<>> = Committed /\ <<>> \in Seq(Int)
      BY <2>1
    <3> QED BY <2>1, <2>2, <2>4, <3>1, RollbackHolds
  <2> QED BY <2>3, <2>4 DEF IInv, ExceptInv
<1> QED BY <1>1, Invariance, PTL

-----------------------------------------------------------------------------
\* What ENFORCE lets out.

\* Each emitted token passed the policy's check against all that came before
\* it, within generate's own budget.
Passed(i) ==
    /\ check(emitted[i], prompt \o SubSeq(emitted, 1, i - 1), i - 1) = {}
    /\ i <= budget

EmissionInv ==
    mode = "enforce" =>
        /\ \A i \in 1..Len(emitted) : Passed(i)
        /\ pc \in InStep => step < budget
        /\ pc = "commit" => check(token, History, step) = {}

\* Under ENFORCE _handle never lets the step go on.
LEMMA HandleStops ==
    ASSUME mode = "enforce", NEW kind, NEW w, NEW f, NEW next,
           _handle(kind, w, f, next)
    PROVE  pc' \in {"except", "idle"}
  BY DEF _handle, Audits, Goes, Ends

\* A run the check passes is no longer than the policy allows.
LEMMA RunBound ==
    ASSUME NEW t \in Int, NEW h \in Seq(Int), NEW m \in Int,
           run(t, h) <= m
    PROVE  /\ m >= 0
           /\ ~(/\ Len(h) >= m
                /\ \A i \in (Len(h) - m + 1)..Len(h) : h[i] = t)
<1> DEFINE tail == {k \in 1..Len(h) : \A i \in k..Len(h) : h[i] = t}
           last == (Len(h) - m + 1)..Len(h)
<1>1. Len(h) \in Nat
  OBVIOUS
<1>2. IsFiniteSet(1..Len(h)) /\ tail \in SUBSET (1..Len(h))
  BY <1>1, FS_Interval
<1>3. IsFiniteSet(tail)
  BY <1>2, FS_Subset
<1>4. Cardinality(tail) \in Nat
  BY <1>3, FS_CardinalityType
<1>5. run(t, h) = 1 + Cardinality(tail)
  BY DEF run
<1> HIDE DEF tail
<1>6. m >= 1
  BY <1>4, <1>5
<1>7. ASSUME Len(h) >= m, \A i \in last : h[i] = t
      PROVE  FALSE
  <2>1. last \in SUBSET tail
    <3> SUFFICES ASSUME NEW k \in last
                 PROVE  k \in 1..Len(h) /\ \A i \in k..Len(h) : h[i] = t
      BY DEF tail
    <3>1. k \in 1..Len(h) /\ \A i \in k..Len(h) : i \in last
      BY <1>1, <1>6, <1>7
    <3> QED BY <3>1, <1>7
  <2>2. Cardinality(last) = Len(h) - (Len(h) - m + 1) + 1
    <3>1. Len(h) - m + 1 \in Int /\ Len(h) \in Int /\ ~(Len(h) - m + 1 > Len(h))
      BY <1>1, <1>6
    <3> QED BY <3>1, FS_Interval
  <2>3. Cardinality(last) = m
    BY <1>1, <1>6, <2>2
  <2>4. Cardinality(last) <= Cardinality(tail)
    BY <1>3, <2>1, FS_Subset
  <2> QED BY <1>4, <1>5, <2>3, <2>4
<1> QED BY <1>6, <1>7

LEMMA EmissionStep ==
    IInv /\ EmissionInv /\ [Next]_vars => EmissionInv'
<1> SUFFICES ASSUME IInv, EmissionInv, [Next]_vars, mode = "enforce"
             PROVE  EmissionInv'
  BY DEF EmissionInv
<1> USE DEF localVars
<1>0. /\ step \in Nat /\ step = Len(emitted) /\ emitted \in Seq(Int)
      /\ prompt \in Seq(Int) /\ token \in Int /\ budget \in Int
  BY EngineAssumption DEF IInv, TypeOK
\* Steps that leave the locals alone and do not reach commit.
<1>1. ASSUME UNCHANGED localVars, pc' # "commit",
             pc' \in InStep => step < budget
      PROVE  EmissionInv'
  <2>1. \A i \in 1..Len(emitted) : Passed(i)' <=> Passed(i)
    BY <1>1 DEF Passed
  <2> QED BY <1>1, <2>1 DEF EmissionInv
<1>2. ASSUME NEW p \in Prompts, Generate(p)
      PROVE  EmissionInv'
  BY <1>2 DEF Generate, Ends, EmissionInv, InStep, Mid
<1>3. CASE Exhausted \/ ContextFull \/ ForwardRefuses \/ ModelRefuses \/ Close
             \/ Flush
  <2>1. UNCHANGED localVars /\ pc' \in {"close", "idle", "flush"}
    BY <1>3 DEF Exhausted, ContextFull, ForwardRefuses, ModelRefuses, Close,
                Flush, Audits, Goes, Ends
  <2> QED BY <1>1, <2>1 DEF InStep, Mid
<1>4. CASE BeginStep
  <2>1. UNCHANGED localVars /\ pc' = "forward" /\ ~(step >= budget)
    BY <1>4 DEF BeginStep, Goes
  <2> QED BY <1>0, <1>1, <2>1
<1>5. CASE ForwardStarts \/ LayerRuns \/ FinalNorm \/ OutputHead
  <2>1. /\ UNCHANGED localVars /\ pc \in InStep
        /\ pc' \in {"embedding", "attention", "final_hidden", "logits"}
    BY <1>5 DEF ForwardStarts, LayerRuns, FinalNorm, OutputHead, Goes, InStep,
                Mid
  <2> QED BY <1>1, <2>1 DEF EmissionInv
<1>6. CASE PublishEmbedding \/ PublishAttention \/ PublishLayerOutput
             \/ PublishFinalHidden \/ PublishLogits
  <2>1. UNCHANGED localVars /\ pc \in InStep
    BY <1>6 DEF PublishEmbedding, PublishAttention, PublishLayerOutput,
                PublishFinalHidden, PublishLogits, Publish, InStep, Mid
  <2>2. TypeOK /\ Published \subseteq Kinds /\ Published \subseteq PCs
          /\ {"layer", "norm", "head", "gate"} \subseteq PCs
    BY DEF IInv, Published, Kinds, PCs
  <2>3. \/ Proceeds("layer") \/ Proceeds("layer_output") \/ Proceeds("norm")
        \/ Proceeds("head") \/ Proceeds("gate")
    <3>1. CASE PublishEmbedding \/ PublishFinalHidden \/ PublishLogits
      BY <2>2, <3>1, OnStateEffect
         DEF PublishEmbedding, PublishFinalHidden, PublishLogits, Publish,
             Published
    <3>2. CASE PublishAttention
      BY <2>2, <3>2, OnStateEffect DEF PublishAttention, Published
    <3>3. CASE PublishLayerOutput
      BY <2>2, <3>3, OnStateEffect DEF PublishLayerOutput, Publish, Published
    <3> QED BY <1>6, <3>1, <3>2, <3>3
  <2>4. pc' # "commit"
    BY <2>3 DEF Proceeds
  <2> QED BY <1>1, <2>1, <2>4 DEF EmissionInv
<1>7. CASE GateRefuses
  <2>1. UNCHANGED localVars /\ pc = "gate" /\ pc' \in {"except", "idle"}
    BY <1>7, HandleStops DEF GateRefuses
  <2> QED BY <1>1, <2>1 DEF EmissionInv, InStep, Mid
<1>8. CASE Gate
  <2>1. UNCHANGED localVars /\ pc = "gate"
    BY <1>8 DEF Gate
  <2>2. step < budget
    BY <2>1 DEF EmissionInv, InStep, Mid
  <2>3. PICK tok \in 0..(model_vocab - 1) :
            /\ token' = tok
            /\ \/ _handle("emission", TRUE, FALSE, "commit")
               \/ check(tok, prompt \o emitted, step) = {}
    BY <1>8 DEF Gate
  <2>4. CASE _handle("emission", TRUE, FALSE, "commit")
    <3>1. pc' \in {"except", "idle"}
      BY <2>4, HandleStops
    <3> QED BY <1>1, <2>1, <2>2, <3>1
  <2>5. CASE check(tok, prompt \o emitted, step) = {}
    <3>1. check(token', History', step') = {}
      BY <2>1, <2>3, <2>5 DEF History
    <3>2. \A i \in 1..Len(emitted) : Passed(i)' <=> Passed(i)
      BY <2>1 DEF Passed
    <3> QED BY <2>1, <2>2, <3>1, <3>2 DEF EmissionInv
  <2> QED BY <2>3, <2>4, <2>5
<1>9. CASE Commit
  <2>1. /\ pc = "commit" /\ pc' = "loop" /\ emitted' = Append(emitted, token)
        /\ prompt' = prompt
    BY <1>9 DEF Commit, Goes
  <2>2. check(token, History, step) = {} /\ step < budget
    BY <2>1 DEF EmissionInv, InStep, Mid
  <2>3. \A i \in 1..Len(emitted') : Passed(i)'
    <3> SUFFICES ASSUME NEW i \in 1..Len(emitted')
                 PROVE  /\ check(emitted'[i],
                                 prompt \o SubSeq(emitted', 1, i - 1), i - 1) = {}
                        /\ i <= budget
      BY <2>1 DEF Passed
    <3>0. Len(emitted') = Len(emitted) + 1 /\ i \in Int
      BY <1>0, <2>1
    <3>1. CASE i <= Len(emitted)
      <4>1. i \in 1..Len(emitted)
        BY <1>0, <3>0, <3>1
      <4>2. emitted'[i] = emitted[i]
              /\ SubSeq(emitted', 1, i - 1) = SubSeq(emitted, 1, i - 1)
        BY <1>0, <2>1, <4>1
      <4> QED BY <4>1, <4>2 DEF EmissionInv, Passed
    <3>2. CASE i = Len(emitted) + 1
      <4>1. emitted'[i] = token /\ SubSeq(emitted', 1, i - 1) = emitted
        BY <1>0, <2>1, <3>2
      <4>2. i - 1 = step /\ i <= budget
        BY <1>0, <2>2, <3>2
      <4> QED BY <2>2, <4>1, <4>2 DEF History
    <3> QED BY <1>0, <3>0, <3>1, <3>2
  <2> QED BY <2>1, <2>3 DEF EmissionInv, InStep, Mid
<1>10. CASE Quarantined \/ WriterRefuses \/ WriterBreaks \/ UNCHANGED vars
  <2>1. CASE Quarantined
    BY <1>1, <2>1 DEF Quarantined, Goes, InStep, Mid
  <2>2. CASE WriterRefuses \/ WriterBreaks \/ UNCHANGED vars
    <3>1. UNCHANGED <<pc, localVars, token>>
      BY <2>2 DEF WriterRefuses, WriterBreaks, EngineSide, vars
    <3>2. History' = History
      BY <3>1 DEF History
    <3>3. \A i \in 1..Len(emitted) : Passed(i)' <=> Passed(i)
      BY <3>1 DEF Passed
    <3> QED BY <3>1, <3>2, <3>3 DEF EmissionInv
  <2> QED BY <1>10, <2>1, <2>2
<1> QED
  BY <1>2, <1>3, <1>4, <1>5, <1>6, <1>7, <1>8, <1>9, <1>10
     DEF Next, Run, Forward

\* In ENFORCE nothing leaves generate that the policy forbids, judged on the
\* output as a whole: no denied or unknown id, no run of one token longer than
\* allowed across the prompt and the output, no step beyond either budget.
THEOREM EmissionCorrect == Spec => []EmissionsPermitted
<1>1. Init => EmissionInv
  BY DEF Init, EmissionInv, InStep, Mid
<1>2. IInv /\ EmissionInv => EmissionsPermitted
  <2> SUFFICES ASSUME IInv, EmissionInv, mode = "enforce"
               PROVE  EmissionsPermitted
    BY DEF EmissionsPermitted
  <2>0. /\ emitted \in Seq(Int) /\ prompt \in Seq(Int) /\ Len(prompt) \in Nat
        /\ budget \in Int
    BY EngineAssumption DEF IInv, TypeOK
  <2>1. ASSUME NEW i \in 1..Len(emitted)
        PROVE  /\ emitted[i] \in 0..(vocab_size - 1)
               /\ emitted[i] \notin forbidden_tokens
               /\ i <= budget /\ i <= max_new_tokens
               /\ ~Loops(max_consecutive_repeats + 1, Len(prompt) + i)
    <3> DEFINE h == prompt \o SubSeq(emitted, 1, i - 1)
               t == emitted[i]
               m == max_consecutive_repeats
               j == Len(prompt) + i
    <3>0. check(t, h, i - 1) = {} /\ i <= budget
      BY <2>1 DEF EmissionInv, Passed
    <3>1. t \in Int /\ i \in Nat /\ i >= 1 /\ m \in Int /\ vocab_size \in Nat
            /\ max_new_tokens \in Int
      BY <2>0, <2>1, PolicyAssumption
    <3>2. /\ h \in Seq(Int) /\ Len(h) = j - 1
          /\ \A k \in 1..(j - 1) : h[k] = History[k]
          /\ History[j] = t
      <4>1. SubSeq(emitted, 1, i - 1) \in Seq(Int)
              /\ Len(SubSeq(emitted, 1, i - 1)) = i - 1
              /\ \A k \in 1..(i - 1) : SubSeq(emitted, 1, i - 1)[k] = emitted[k]
        BY <2>0, <2>1
      <4>2. h \in Seq(Int) /\ Len(h) = j - 1
        BY <2>0, <3>1, <4>1
      <4>3. History[j] = t
        BY <2>0, <2>1, <3>1 DEF History
      <4>4. ASSUME NEW k \in 1..(j - 1)
            PROVE  h[k] = History[k]
        <5>1. CASE k <= Len(prompt)
          BY <2>0, <3>1, <4>1, <5>1 DEF History
        <5>2. CASE k > Len(prompt)
          <6>1. k - Len(prompt) \in 1..(i - 1)
            BY <2>0, <3>1, <5>2
          <6>2. h[k] = SubSeq(emitted, 1, i - 1)[k - Len(prompt)]
            BY <2>0, <4>1, <5>2, <6>1
          <6>3. History[k] = emitted[k - Len(prompt)]
            BY <2>0, <2>1, <5>2, <6>1 DEF History
          <6> QED BY <4>1, <6>1, <6>2, <6>3
        <5> QED BY <2>0, <3>1, <5>1, <5>2
      <4> QED BY <4>2, <4>3, <4>4
    <3> HIDE DEF h, t, m, j
    <3>3. /\ 0 <= t /\ t < vocab_size /\ t \notin forbidden_tokens
          /\ ~(run(t, h) > max_consecutive_repeats)
          /\ ~(i - 1 >= max_new_tokens)
      BY <3>0 DEF check
    <3>4. run(t, h) \in Int
      <4>1. IsFiniteSet(1..Len(h))
        BY <3>2, FS_Interval
      <4>2. IsFiniteSet({k \in 1..Len(h) : \A n \in k..Len(h) : h[n] = t})
        BY <4>1, FS_Subset
      <4> QED BY <4>2, FS_CardinalityType DEF run
    <3>5. run(t, h) <= m
      BY <3>1, <3>3, <3>4 DEF m
    <3>6. /\ m >= 0
          /\ ~(/\ Len(h) >= m
               /\ \A k \in (Len(h) - m + 1)..Len(h) : h[k] = t)
      BY <3>1, <3>2, <3>5, RunBound
    <3>7. ~Loops(m + 1, j)
      <4> SUFFICES ASSUME Loops(m + 1, j)
                   PROVE  /\ Len(h) >= m
                          /\ \A k \in (Len(h) - m + 1)..Len(h) : h[k] = t
        BY <3>6
      <4>1. j \in Nat
        BY <2>0, <3>1 DEF j
      <4>2. j >= m + 1 /\ \A k \in (j - (m + 1) + 1)..j : History[k] = History[j]
        BY DEF Loops
      <4>3. Len(h) >= m
        BY <3>1, <3>2, <4>1, <4>2
      <4>4. ASSUME NEW k \in (Len(h) - m + 1)..Len(h)
            PROVE  h[k] = t
        <5>1. k \in 1..(j - 1) /\ k \in (j - (m + 1) + 1)..j
          BY <3>1, <3>2, <4>1, <4>2, <3>6
        <5> QED BY <3>2, <4>2, <5>1
      <4> QED BY <4>3, <4>4
    <3> QED BY <3>0, <3>1, <3>3, <3>7 DEF m, j, t
  <2>2. ASSUME emitted # <<>>
        PROVE  Len(emitted) <= budget /\ Len(emitted) <= max_new_tokens
    <3>1. Len(emitted) \in 1..Len(emitted)
      BY <2>0, <2>2
    <3> QED BY <2>1, <3>1
  <2> QED BY <2>1, <2>2 DEF EmissionsPermitted
<1>3. IInv /\ EmissionInv /\ [Next]_vars => (IInv /\ EmissionInv)'
  BY TypeStep, InvStep, EmissionStep DEF IInv
<1> QED BY <1>1, <1>2, <1>3, InitEstablishes, PTL DEF Spec

-----------------------------------------------------------------------------
\* What the steps do to the trail.

\* append accepts the record, or there is no log.
Logged(r) == IF audited THEN accepted' = Append(accepted, r)
                        ELSE UNCHANGED accepted

Frame   == UNCHANGED <<prompt, emitted, step, status>>
Account == UNCHANGED <<signatures, quarantines>>

\* A boundary or the gate, and where generate goes behind it.
AtBoundary == pc \in Published \cup {"gate"}
BoundaryKind == IF pc = "gate" THEN "emission" ELSE pc
Behind ==
    CASE pc = "embedding"    -> "layer"
      [] pc = "attention"    -> "layer_output"
      [] pc = "layer_output" -> IF layer < n_layers THEN "layer" ELSE "norm"
      [] pc = "final_hidden" -> "head"
      [] pc = "logits"       -> "gate"
      [] pc = "gate"         -> "commit"
NextLayer == IF pc = "layer_output" /\ layer < n_layers THEN layer + 1 ELSE layer

\* generate opens a session.
Opens ==
    /\ pc = "idle" /\ pc' = "loop" /\ outcome' = "none"
    /\ audited => ~failed /\ failed' = failed
    /\ Logged(SessionRecord("session_open", 0))
    /\ emitted' = <<>> /\ step' = 0 /\ status' = "completed"
    /\ Account

\* An exception leaves generate, before the session was opened, in it, or in
\* place of a divergence record.
Leaves ==
    /\ pc' = "idle" /\ outcome' \in {"RuntimeError", "ModelError"}
    /\ UNCHANGED <<accepted, failed>>
    /\ \/ pc # "idle" /\ Frame /\ (AtBoundary \/ x' = x)
       \/ pc = "idle" /\ emitted' = <<>> /\ step' = 0 /\ status' = "completed"
    /\ \/ Account
       \/ /\ audited /\ failed /\ AtBoundary
          /\ signatures' = signatures + 1 /\ quarantines' = quarantines

\* Steps that are not recorded.
Computes ==
    /\ \/ pc = "loop" /\ pc' = "forward" /\ layer' = layer
       \/ pc = "forward" /\ pc' = "embedding" /\ layer' = 1
       \/ pc = "layer" /\ pc' = "attention" /\ layer' = layer
       \/ pc = "norm" /\ pc' = "final_hidden" /\ layer' = layer
       \/ pc = "head" /\ pc' = "logits" /\ layer' = layer
    /\ UNCHANGED <<accepted, failed, outcome, x, token>> /\ Frame /\ Account

Breaks ==
    /\ pc = "loop" /\ pc' = "close"
    /\ status' \in {"budget_exhausted", "context_full"}
    /\ UNCHANGED <<accepted, failed, outcome, prompt, emitted, step, x>>
    /\ Account

\* The gate found the token permitted, or not.
Found(permitted) ==
    pc = "gate" => (permitted <=> check(token', prompt \o emitted, step) = {})

Passes ==
    /\ AtBoundary /\ pc' = Behind /\ layer' = NextLayer
    /\ \E tok \in Int, w \in BOOLEAN :
          LET r == IF pc = "gate" THEN Record("emission", "emission", tok, w)
                   ELSE Record("state", pc, NoToken, w)
          IN  /\ pc = "gate" => tok = token'
              /\ IF traced THEN Logged(r) ELSE UNCHANGED accepted
    /\ Found(TRUE)
    /\ UNCHANGED <<failed, outcome>> /\ Frame /\ Account

Diverges ==
    /\ AtBoundary
    /\ \E w \in BOOLEAN : Logged(Record("divergence", BoundaryKind, NoToken, w))
    /\ UNCHANGED <<failed, outcome>> /\ Frame
    /\ signatures' = signatures + 1
    /\ \/ /\ mode = "monitor" /\ pc' = Behind /\ layer' = NextLayer
          /\ quarantines' = quarantines /\ Found(FALSE)
       \/ /\ mode = "enforce" \/ (pc = "gate" /\ x = "malformed" /\ x' = x)
          /\ pc' = "except"
          /\ quarantines' = quarantines + 1

Commits ==
    /\ pc = "commit" /\ pc' = "loop"
    /\ emitted' = Append(emitted, token) /\ step' = step + 1
    /\ UNCHANGED <<accepted, failed, outcome, prompt, status>> /\ Account

Handles ==
    /\ pc = "except" /\ pc' = "close" /\ status' = "quarantined"
    /\ UNCHANGED <<accepted, failed, outcome, prompt, emitted, step, x>>
    /\ Account

Closes ==
    /\ pc = "close"
    /\ \/ audited /\ pc' = "flush" /\ outcome' = outcome
          /\ accepted' = Append(accepted, SessionRecord("session_close", step))
       \/ ~audited /\ pc' = "idle" /\ outcome' = "returned" /\ UNCHANGED accepted
    /\ UNCHANGED <<failed, x>> /\ Frame /\ Account

Returns ==
    /\ pc = "flush" /\ pc' = "idle" /\ outcome' = "returned"
    /\ UNCHANGED <<accepted, failed, x>> /\ Frame /\ Account

\* The log's writer, and a stuttering step.
Waits ==
    /\ failed => failed'
    /\ UNCHANGED <<pc, layer, outcome, accepted, x, token>> /\ Frame /\ Account

TrailStep ==
    \/ Opens \/ Leaves \/ Computes \/ Breaks \/ Passes \/ Diverges \/ Commits
    \/ Handles \/ Closes \/ Returns \/ Waits

-----------------------------------------------------------------------------
\* A call of append: it is accepted, or the writer has failed and it raises.
LEMMA AuditsCases ==
    ASSUME NEW r, NEW next, Audits(r, next)
    PROVE  \/ /\ Logged(r) /\ pc' = next /\ outcome' = outcome /\ failed' = failed
              /\ audited => ~failed
           \/ /\ audited /\ failed /\ UNCHANGED <<accepted, failed>>
              /\ pc' = "idle" /\ outcome' = "RuntimeError"
BY DEF Audits, Appends, AppendRaises, Goes, Ends, Logged, auditVars, Log!Accept

\* Where a boundary's check may lead.
Diverting(kind, force, next) ==
    \/ /\ audited /\ failed /\ UNCHANGED <<accepted, failed>>
       /\ pc' = "idle" /\ outcome' = "RuntimeError"
       /\ signatures' = signatures + 1 /\ quarantines' = quarantines
    \/ /\ \E w \in BOOLEAN : Logged(Record("divergence", kind, NoToken, w))
       /\ UNCHANGED <<failed, outcome>>
       /\ signatures' = signatures + 1
       /\ IF mode = "enforce" \/ force
          THEN pc' = "except" /\ quarantines' = quarantines + 1
          ELSE pc' = next /\ quarantines' = quarantines

Tracing(r, next) ==
    \/ /\ UNCHANGED <<accepted, failed>> /\ Account
       /\ pc' = "idle" /\ outcome' = "RuntimeError"
    \/ /\ IF traced THEN Logged(r) ELSE UNCHANGED accepted
       /\ UNCHANGED <<failed, outcome>> /\ Account
       /\ pc' = next

LEMMA HandleCases ==
    ASSUME NEW kind, NEW w \in BOOLEAN, NEW force \in BOOLEAN, NEW next,
           TypeOK, _handle(kind, w, force, next)
    PROVE  Diverting(kind, force, next)
<1> DEFINE r == Record("divergence", kind, NoToken, w)
           to == IF mode = "enforce" \/ force THEN "except" ELSE next
<1>1. /\ Audits(r, to)
      /\ signatures' = signatures + 1
      /\ quarantines' = IF (mode = "enforce" \/ force) /\ ~(audited /\ failed)
                        THEN quarantines + 1 ELSE quarantines
  BY DEF _handle
<1> HIDE DEF r, to
<1>2. CASE Logged(r) /\ pc' = to /\ outcome' = outcome /\ failed' = failed
           /\ (audited => ~failed)
  <2>1. quarantines' = IF mode = "enforce" \/ force
                       THEN quarantines + 1 ELSE quarantines
    BY <1>1, <1>2
  <2>2. \E v \in BOOLEAN : Logged(Record("divergence", kind, NoToken, v))
    BY <1>2 DEF r
  <2>3. QED
    BY <1>1, <1>2, <2>1, <2>2 DEF Diverting, to
<1>3. CASE audited /\ failed /\ UNCHANGED <<accepted, failed>>
           /\ pc' = "idle" /\ outcome' = "RuntimeError"
  BY <1>1, <1>3 DEF Diverting
<1>4. QED
  BY <1>1, <1>2, <1>3, AuditsCases

LEMMA TraceCases ==
    ASSUME NEW r, NEW next, Trace(r, next)
    PROVE  Tracing(r, next)
<1>1. CASE traced
  <2>1. Audits(r, next) /\ Account
    BY <1>1 DEF Trace, Account, reportVars
  <2>2. QED
    BY <1>1, <2>1, AuditsCases DEF Tracing
<1>2. CASE ~traced
  BY <1>2 DEF Trace, Tracing, Goes, Account, reportVars, auditVars
<1>3. QED
  BY <1>1, <1>2

LEMMA OnStateCases ==
    ASSUME TypeOK, NEW kind, NEW t, NEW next, on_state(kind, t, next)
    PROVE  \/ Diverting(kind, FALSE, next)
           \/ \E w \in BOOLEAN : Tracing(Record("state", kind, NoToken, w), next)
<1>1. CASE _handle(kind, t # "unbounded", FALSE, next)
  <2>1. (t # "unbounded") \in BOOLEAN
    OBVIOUS
  <2>2. QED
    BY <1>1, <2>1, HandleCases
<1>2. CASE Trace(Record("state", kind, NoToken, t # "huge"), next)
  <2>1. (t # "huge") \in BOOLEAN
    OBVIOUS
  <2>2. QED
    BY <1>2, <2>1, TraceCases
<1>3. QED
  BY <1>1, <1>2 DEF on_state

\* A boundary that forward publishes.
LEMMA BoundaryCases ==
    ASSUME TypeOK, NEW t, pc \in Published, on_state(pc, t, Behind), Frame,
           layer' = NextLayer
    PROVE  Leaves \/ Passes \/ Diverges
<1>1. pc # "gate" /\ AtBoundary /\ BoundaryKind = pc /\ pc # "idle"
  BY DEF Published, AtBoundary, BoundaryKind
<1>2. Found(TRUE) /\ Found(FALSE)
  BY <1>1 DEF Found
<1>3. CASE Diverting(pc, FALSE, Behind)
  <2>1. mode = "enforce" \/ mode = "monitor"
    BY EngineAssumption
  <2>2. QED
    BY <1>1, <1>2, <1>3, <2>1 DEF Diverting, Leaves, Diverges
<1>4. CASE \E w \in BOOLEAN : Tracing(Record("state", pc, NoToken, w), Behind)
  <2>1. PICK w \in BOOLEAN : Tracing(Record("state", pc, NoToken, w), Behind)
    BY <1>4
  <2>2. CASE UNCHANGED <<accepted, failed>> /\ Account
             /\ pc' = "idle" /\ outcome' = "RuntimeError"
    BY <1>1, <2>2 DEF Leaves
  <2>3. CASE /\ IF traced THEN Logged(Record("state", pc, NoToken, w))
                          ELSE UNCHANGED accepted
             /\ UNCHANGED <<failed, outcome>> /\ Account
             /\ pc' = Behind
    <3>1. NoToken \in Int
      BY DEF NoToken
    <3>2. QED
      BY <1>1, <1>2, <2>3, <3>1 DEF Passes
  <2>4. QED
    BY <2>1, <2>2, <2>3 DEF Tracing
<1>5. QED
  BY <1>3, <1>4, OnStateCases

LEMMA GateCases == TypeOK /\ (Gate \/ GateRefuses) => Leaves \/ Passes \/ Diverges
<1> SUFFICES ASSUME TypeOK, Gate \/ GateRefuses
             PROVE  Leaves \/ Passes \/ Diverges
  OBVIOUS
<1>0. mode = "enforce" \/ mode = "monitor"
  BY EngineAssumption
<1>1. CASE GateRefuses
  <2>1. /\ pc = "gate" /\ x = "malformed" /\ x' = x
        /\ _handle("emission", TRUE, TRUE, "commit") /\ Frame
    BY <1>1 DEF GateRefuses, Frame, localVars
  <2>2. Diverting("emission", TRUE, "commit")
    BY <2>1, HandleCases
  <2>3. AtBoundary /\ BoundaryKind = "emission" /\ pc # "idle"
    BY <2>1 DEF AtBoundary, BoundaryKind
  <2>4. QED
    BY <2>1, <2>2, <2>3 DEF Diverting, Leaves, Diverges
<1>2. CASE Gate
  <2>1. PICK tok \in 0..(model_vocab - 1), encodable \in BOOLEAN :
           /\ pc = "gate" /\ token' = tok /\ layer' = layer /\ Frame
           /\ \/ /\ check(tok, prompt \o emitted, step) # {}
                 /\ _handle("emission", TRUE, FALSE, "commit")
              \/ /\ check(tok, prompt \o emitted, step) = {}
                 /\ Trace(Record("emission", "emission", tok, encodable), "commit")
    BY <1>2 DEF Gate, Frame, localVars
  <2>2. /\ AtBoundary /\ BoundaryKind = "emission" /\ pc # "idle"
        /\ Behind = "commit" /\ NextLayer = layer
    BY <2>1 DEF AtBoundary, BoundaryKind, Behind, NextLayer
  <2>3. CASE /\ check(tok, prompt \o emitted, step) # {}
             /\ _handle("emission", TRUE, FALSE, "commit")
    <3>1. Diverting("emission", FALSE, "commit")
      BY <2>3, HandleCases
    <3>2. Found(FALSE)
      BY <2>1, <2>3 DEF Found
    <3>3. QED
      BY <1>0, <2>1, <2>2, <3>1, <3>2 DEF Diverting, Leaves, Diverges
  <2>4. CASE /\ check(tok, prompt \o emitted, step) = {}
             /\ Trace(Record("emission", "emission", tok, encodable), "commit")
    <3>1. Tracing(Record("emission", "emission", tok, encodable), "commit")
      BY <2>4, TraceCases
    <3>2. Found(TRUE)
      BY <2>1, <2>4 DEF Found
    <3>3. tok \in Int /\ encodable \in BOOLEAN
      BY EngineAssumption
    <3>4. CASE UNCHANGED <<accepted, failed>> /\ Account
               /\ pc' = "idle" /\ outcome' = "RuntimeError"
      BY <2>1, <2>2, <3>4 DEF Leaves
    <3>5. CASE /\ IF traced
                  THEN Logged(Record("emission", "emission", tok, encodable))
                  ELSE UNCHANGED accepted
               /\ UNCHANGED <<failed, outcome>> /\ Account
               /\ pc' = "commit"
      BY <2>1, <2>2, <3>2, <3>3, <3>5 DEF Passes
    <3>6. QED
      BY <3>1, <3>4, <3>5 DEF Tracing
  <2>5. QED
    BY <2>1, <2>3, <2>4
<1>3. QED
  BY <1>1, <1>2

\* Every step does one of these things to the trail.
LEMMA TrailCases == TypeOK /\ [Next]_vars => TrailStep
<1> SUFFICES ASSUME TypeOK, [Next]_vars PROVE TrailStep
  OBVIOUS
<1> USE DEF localVars, stepVars, reportVars, auditVars, boundVars, Frame, Account
<1>1. ASSUME NEW p \in Prompts, Generate(p) PROVE TrailStep
  <2>1. /\ pc = "idle" /\ emitted' = <<>> /\ step' = 0 /\ status' = "completed"
        /\ Account
    BY <1>1 DEF Generate
  <2>2. CASE Appends(SessionRecord("session_open", 0))
               /\ pc' = "loop" /\ outcome' = "none"
    <3>1. /\ Logged(SessionRecord("session_open", 0))
          /\ audited => ~failed /\ failed' = failed
      BY <2>2 DEF Appends, Logged, Log!Accept
    <3>2. QED
      BY <2>1, <2>2, <3>1 DEF Opens, TrailStep
  <2>3. CASE AppendRaises /\ Ends("RuntimeError")
    BY <2>1, <2>3 DEF AppendRaises, Ends, Leaves, TrailStep
  <2>4. QED
    BY <1>1, <2>2, <2>3 DEF Generate
<1>2. CASE Exhausted \/ ContextFull
  BY <1>2 DEF Exhausted, ContextFull, Goes, Breaks, TrailStep
<1>3. CASE BeginStep \/ ForwardStarts \/ LayerRuns \/ FinalNorm \/ OutputHead
  BY <1>3 DEF BeginStep, ForwardStarts, LayerRuns, FinalNorm, OutputHead, Goes,
              Computes, TrailStep
<1>4. CASE ForwardRefuses \/ ModelRefuses
  BY <1>4 DEF ForwardRefuses, ModelRefuses, Ends, Leaves, TrailStep
<1>5. CASE PublishEmbedding
  <2>1. PICK t \in Tensors : Publish("embedding", t, "layer") /\ layer' = layer
    BY <1>5 DEF PublishEmbedding
  <2>2. /\ pc = "embedding" /\ on_state(pc, t, "layer") /\ Frame
    BY <2>1 DEF Publish
  <2>3. pc \in Published /\ Behind = "layer" /\ NextLayer = layer
    BY <2>2 DEF Published, Behind, NextLayer
  <2>4. QED
    BY <2>1, <2>2, <2>3, BoundaryCases DEF TrailStep
<1>6. CASE PublishAttention
  <2>1. PICK t \in Tensors :
           pc = "attention" /\ on_state(pc, t, "layer_output") /\ Frame
           /\ layer' = layer
    BY <1>6 DEF PublishAttention
  <2>2. pc \in Published /\ Behind = "layer_output" /\ NextLayer = layer
    BY <2>1 DEF Published, Behind, NextLayer
  <2>3. QED
    BY <2>1, <2>2, BoundaryCases DEF TrailStep
<1>7. CASE PublishLayerOutput
  <2>1. PICK t \in Tensors :
           \/ /\ layer < n_layers /\ Publish("layer_output", t, "layer")
              /\ layer' = layer + 1
           \/ /\ layer = n_layers /\ Publish("layer_output", t, "norm")
              /\ layer' = layer
    BY <1>7 DEF PublishLayerOutput
  <2>2. pc = "layer_output" /\ Frame
    BY <2>1 DEF Publish
  <2>3. layer \in Nat /\ n_layers \in Nat
    BY EngineAssumption DEF TypeOK, Layers
  <2>4. /\ pc \in Published /\ layer' = NextLayer
        /\ Behind = IF layer < n_layers THEN "layer" ELSE "norm"
    BY <2>1, <2>2, <2>3 DEF Published, Behind, NextLayer
  <2>5. on_state(pc, t, Behind)
    <3>1. CASE layer < n_layers /\ Publish("layer_output", t, "layer")
      BY <2>2, <2>4, <3>1 DEF Publish
    <3>2. CASE layer = n_layers /\ Publish("layer_output", t, "norm")
      <4>1. ~(layer < n_layers)
        BY <2>3, <3>2
      <4>2. QED
        BY <2>2, <2>4, <3>2, <4>1 DEF Publish
    <3>3. QED
      BY <2>1, <3>1, <3>2
  <2>6. QED
    BY <2>2, <2>4, <2>5, BoundaryCases DEF TrailStep
<1>8. CASE PublishFinalHidden
  <2>1. PICK t \in Tensors : Publish("final_hidden", t, "head") /\ layer' = layer
    BY <1>8 DEF PublishFinalHidden
  <2>2. /\ pc = "final_hidden" /\ on_state(pc, t, "head") /\ Frame
    BY <2>1 DEF Publish
  <2>3. pc \in Published /\ Behind = "head" /\ NextLayer = layer
    BY <2>2 DEF Published, Behind, NextLayer
  <2>4. QED
    BY <2>1, <2>2, <2>3, BoundaryCases DEF TrailStep
<1>9. CASE PublishLogits
  <2>1. PICK t \in Tensors : Publish("logits", t, "gate") /\ layer' = layer
    BY <1>9 DEF PublishLogits
  <2>2. /\ pc = "logits" /\ on_state(pc, t, "gate") /\ Frame
    BY <2>1 DEF Publish
  <2>3. pc \in Published /\ Behind = "gate" /\ NextLayer = layer
    BY <2>2 DEF Published, Behind, NextLayer
  <2>4. QED
    BY <2>1, <2>2, <2>3, BoundaryCases DEF TrailStep
<1>10. CASE Gate \/ GateRefuses
  BY <1>10, GateCases DEF TrailStep
<1>11. CASE Commit
  BY <1>11 DEF Commit, Goes, Commits, TrailStep
<1>12. CASE Quarantined
  BY <1>12 DEF Quarantined, Goes, Handles, TrailStep
<1>13. CASE Close
  <2>1. pc = "close" /\ x' = x /\ Frame /\ Account
    BY <1>13 DEF Close
  <2>2. CASE audited /\ Audits(SessionRecord("session_close", step), "flush")
    <3>1. CASE /\ Logged(SessionRecord("session_close", step)) /\ pc' = "flush"
               /\ outcome' = outcome /\ failed' = failed
      BY <2>1, <2>2, <3>1 DEF Logged, Closes, TrailStep
    <3>2. CASE /\ UNCHANGED <<accepted, failed>>
               /\ pc' = "idle" /\ outcome' = "RuntimeError"
      BY <2>1, <3>2 DEF Leaves, TrailStep
    <3>3. QED
      BY <2>2, <3>1, <3>2, AuditsCases
  <2>3. CASE ~audited /\ Ends("returned") /\ UNCHANGED auditVars
    BY <2>1, <2>3 DEF Ends, Closes, TrailStep
  <2>4. QED
    BY <1>13, <2>2, <2>3 DEF Close
<1>14. CASE Flush
  <2>1. pc = "flush" /\ x' = x /\ Frame /\ Account
    BY <1>14 DEF Flush
  <2>2. CASE failed /\ Ends("RuntimeError") /\ UNCHANGED auditVars
    BY <2>1, <2>2 DEF Ends, Leaves, TrailStep
  <2>3. CASE Log!Acknowledge(Len(accepted)) /\ Ends("returned")
    BY <2>1, <2>3 DEF Log!Acknowledge, Ends, Returns, TrailStep
  <2>4. QED
    BY <1>14, <2>2, <2>3 DEF Flush
<1>15. CASE WriterRefuses \/ WriterBreaks
  BY <1>15 DEF WriterRefuses, WriterBreaks, Log!Refuse, Log!Break, Log!Fail,
               EngineSide, Waits, TrailStep
<1>16. CASE UNCHANGED vars
  BY <1>16 DEF vars, Waits, TrailStep
<1>17. QED
  BY <1>1, <1>2, <1>3, <1>4, <1>5, <1>6, <1>7, <1>8, <1>9, <1>10, <1>11, <1>12,
     <1>13, <1>14, <1>15, <1>16 DEF Next, Run, Forward

-----------------------------------------------------------------------------
\* Counting the records of one event, and the reported emissions.
EventAt(records, event) == {i \in Nat : records[i].event = event}

LEMMA CountOfIsCount ==
    ASSUME NEW records, NEW event, NEW n \in Nat
    PROVE  CountOf(records, event, n) = CountUpTo(EventAt(records, event), n)
<1>1. {i \in 1..n : records[i].event = event}
        = EventAt(records, event) \cap (1..n)
  BY DEF EventAt
<1>2. QED
  BY <1>1 DEF CountOf, CountUpTo

\* A record more at the end counts if it is of the event, and the counts
\* before it stay.
LEMMA CountOfAppend ==
    ASSUME NEW s \in Seq(Records), NEW r \in Records, NEW event
    PROVE  /\ CountOf(s, event, Len(s)) \in Nat
           /\ CountOf(Append(s, r), event, Len(s) + 1) =
                 CountOf(s, event, Len(s)) + (IF r.event = event THEN 1 ELSE 0)
           /\ \A i \in 1..Len(s) :
                 CountOf(Append(s, r), event, i) = CountOf(s, event, i)
<1> DEFINE t == Append(s, r)
           n == Len(s)
<1>1. /\ n \in Nat /\ t[n + 1] = r /\ \A i \in 1..n : t[i] = s[i]
  OBVIOUS
<1>2. \A m \in 1..n : CountUpTo(EventAt(t, event), m) =
                      CountUpTo(EventAt(s, event), m)
  <2> SUFFICES ASSUME NEW m \in 1..n
               PROVE  CountUpTo(EventAt(t, event), m) =
                      CountUpTo(EventAt(s, event), m)
      OBVIOUS
  <2> HIDE DEF t
  <2>1. m \in Nat
    BY <1>1
  <2>2. \A j \in 1..m : j \in EventAt(t, event) <=> j \in EventAt(s, event)
    BY <1>1 DEF EventAt
  <2>3. QED
    BY <2>1, <2>2, CountSame
<1>3. CountUpTo(EventAt(t, event), n) = CountUpTo(EventAt(s, event), n)
  <2>1. CASE n = 0
    BY <1>1, <2>1, CountIsNat
  <2>2. CASE n # 0
    <3>1. n \in 1..n
      BY <1>1, <2>2
    <3>2. QED
      BY <3>1, <1>2
  <2>3. QED
    BY <2>1, <2>2
<1> HIDE DEF t, n
<1>4. CountUpTo(EventAt(t, event), n + 1) = CountUpTo(EventAt(t, event), n)
          + (IF n + 1 \in EventAt(t, event) THEN 1 ELSE 0)
  BY <1>1, CountNext
<1>5. n + 1 \in EventAt(t, event) <=> r.event = event
  BY <1>1 DEF EventAt
<1>6. CountUpTo(EventAt(s, event), n) \in Nat
  BY <1>1, CountIsNat
<1>7. CountOf(t, event, n + 1) =
          CountOf(s, event, n) + (IF r.event = event THEN 1 ELSE 0)
  <2>1. n + 1 \in Nat
    BY <1>1
  <2>2. QED
    BY <1>1, <1>3, <1>4, <1>5, <2>1, CountOfIsCount
<1>8. CountOf(s, event, n) \in Nat
  BY <1>1, <1>6, CountOfIsCount
<1>9. \A i \in 1..n : CountOf(t, event, i) = CountOf(s, event, i)
  <2>1. \A i \in 1..n : i \in Nat
    BY <1>1
  <2>2. QED
    BY <1>2, <2>1, CountOfIsCount
<1>10. QED
  BY <1>7, <1>8, <1>9 DEF t, n

\* A record of the event is counted among the first to the last of them.
LEMMA CountOfPlace ==
    ASSUME NEW s \in Seq(Records), NEW event, NEW i \in 1..Len(s),
           s[i].event = event
    PROVE  CountOf(s, event, i) \in 1..CountOf(s, event, Len(s))
<1>1. Len(s) \in Nat /\ i \in 0..Len(s) /\ i - 1 \in Nat /\ i \in Nat
  OBVIOUS
<1>2. CountUpTo(EventAt(s, event), i) <= CountUpTo(EventAt(s, event), Len(s))
  BY <1>1, CountGrows
<1>3. CountUpTo(EventAt(s, event), (i - 1) + 1) =
          CountUpTo(EventAt(s, event), i - 1)
            + (IF (i - 1) + 1 \in EventAt(s, event) THEN 1 ELSE 0)
  BY <1>1, CountNext
<1>4. (i - 1) + 1 = i /\ i \in EventAt(s, event)
  BY <1>1 DEF EventAt
<1>5. CountUpTo(EventAt(s, event), i - 1) \in Nat
      /\ CountUpTo(EventAt(s, event), Len(s)) \in Nat
  BY <1>1, CountIsNat
<1>6. CountUpTo(EventAt(s, event), i) \in 1..CountUpTo(EventAt(s, event), Len(s))
  BY <1>2, <1>3, <1>4, <1>5
<1>7. QED
  BY <1>1, <1>6, CountOfIsCount

-----------------------------------------------------------------------------
\* The report of the membrane against the log of its whole life.
ReportInv ==
    audited =>
        LET n == CountOf(accepted, "divergence", Len(accepted))
        IN  /\ signatures = n \/ (failed /\ pc = "idle" /\ signatures = n + 1)
            /\ quarantines <= n
            /\ mode = "enforce" => quarantines = n

LEMMA RecordIsRecord ==
    ASSUME TypeOK, NEW event \in Events, NEW kind \in Kinds, NEW tok \in Int,
           NEW w \in BOOLEAN
    PROVE  /\ Record(event, kind, tok, w) \in Records
           /\ Record(event, kind, tok, w).event = event
           /\ Record(event, kind, tok, w).kind = kind
           /\ Record(event, kind, tok, w).token = tok
           /\ Record(event, kind, tok, w).step = step
           /\ Record(event, kind, tok, w).layer =
                 IF kind \in {"attention", "layer_output"} THEN layer ELSE 0
  BY EngineAssumption DEF Record, Records, TypeOK, Layers

LEMMA SessionRecordIsRecord ==
    ASSUME NEW event \in Events, NEW n \in Nat
    PROVE  /\ SessionRecord(event, n) \in Records
           /\ SessionRecord(event, n).event = event
           /\ SessionRecord(event, n).step = n
  BY DEF SessionRecord, Records, Kinds, NoToken

LEMMA BoundaryKindIsKind == AtBoundary => BoundaryKind \in Kinds
  BY DEF AtBoundary, BoundaryKind, Published, Kinds

\* What Passes puts in the log.
LEMMA PassedRecord ==
    ASSUME TypeOK, Passes
    PROVE  \/ ~traced /\ UNCHANGED accepted
           \/ ~audited /\ UNCHANGED accepted
           \/ \E r \in Records :
                 /\ accepted' = Append(accepted, r)
                 /\ r.event = IF pc = "gate" THEN "emission" ELSE "state"
                 /\ r.kind = BoundaryKind /\ r.step = step
                 /\ r.layer = IF pc \in {"attention", "layer_output"}
                              THEN layer ELSE 0
                 /\ pc = "gate" => r.token = token'
<1>1. PICK tok \in Int, w \in BOOLEAN :
         LET r == IF pc = "gate" THEN Record("emission", "emission", tok, w)
                  ELSE Record("state", pc, NoToken, w)
         IN  /\ pc = "gate" => tok = token'
             /\ IF traced THEN Logged(r) ELSE UNCHANGED accepted
  BY DEF Passes
<1>2. CASE ~traced \/ ~audited
  BY <1>1, <1>2 DEF Logged
<1>3. CASE traced /\ audited /\ pc = "gate"
  <2>1. accepted' = Append(accepted, Record("emission", "emission", tok, w))
    BY <1>1, <1>3 DEF Logged
  <2>2. "emission" \in Events /\ "emission" \in Kinds
    BY DEF Events, Kinds
  <2>3. BoundaryKind = "emission" /\ tok = token'
    BY <1>1, <1>3 DEF BoundaryKind
  <2>4. QED
    BY <1>3, <2>1, <2>2, <2>3, RecordIsRecord
<1>4. CASE traced /\ audited /\ pc # "gate"
  <2>1. accepted' = Append(accepted, Record("state", pc, NoToken, w))
    BY <1>1, <1>4 DEF Logged
  <2>2. "state" \in Events /\ pc \in Kinds /\ NoToken \in Int /\ BoundaryKind = pc
    BY <1>4, BoundaryKindIsKind DEF Passes, Events, BoundaryKind, NoToken
  <2>3. QED
    BY <1>4, <2>1, <2>2, RecordIsRecord
<1>5. QED
  BY <1>2, <1>3, <1>4

\* And what Diverges does.
LEMMA DivergedRecord ==
    ASSUME TypeOK, Diverges
    PROVE  \/ ~audited /\ UNCHANGED accepted
           \/ /\ audited
              /\ \E r \in Records :
                   /\ accepted' = Append(accepted, r)
                   /\ r.event = "divergence"
                   /\ r.kind = BoundaryKind /\ r.step = step
                   /\ r.layer = IF pc \in {"attention", "layer_output"}
                                THEN layer ELSE 0
<1>1. PICK w \in BOOLEAN :
         Logged(Record("divergence", BoundaryKind, NoToken, w))
  BY DEF Diverges
<1>2. "divergence" \in Events /\ BoundaryKind \in Kinds /\ NoToken \in Int
  BY BoundaryKindIsKind DEF Diverges, Events, NoToken
<1>3. BoundaryKind \in {"attention", "layer_output"}
        <=> pc \in {"attention", "layer_output"}
  BY DEF BoundaryKind
<1>4. CASE audited
  <2>1. accepted' = Append(accepted, Record("divergence", BoundaryKind, NoToken, w))
    BY <1>1, <1>4 DEF Logged
  <2>2. QED
    BY <1>2, <1>3, <1>4, <2>1, RecordIsRecord
<1>5. CASE ~audited
  BY <1>1, <1>5 DEF Logged
<1>6. QED
  BY <1>4, <1>5

LEMMA ReportStep == TypeOK /\ ReportInv /\ TrailStep => ReportInv'
<1> SUFFICES ASSUME TypeOK, ReportInv, TrailStep, audited PROVE ReportInv'
  BY DEF ReportInv
<1> DEFINE n == CountOf(accepted, "divergence", Len(accepted))
<1>0. /\ accepted \in Seq(Records) /\ Len(accepted) \in Nat
      /\ signatures \in Nat /\ quarantines \in Nat
  BY DEF TypeOK
<1>1. n \in Nat
  <2>1. CountUpTo(EventAt(accepted, "divergence"), Len(accepted)) \in Nat
    BY <1>0, CountIsNat
  <2>2. QED
    BY <1>0, <2>1, CountOfIsCount
<1>2. /\ signatures = n \/ (failed /\ pc = "idle" /\ signatures = n + 1)
      /\ quarantines <= n
      /\ mode = "enforce" => quarantines = n
  BY DEF ReportInv
<1>3. ASSUME NEW r \in Records, accepted' = Append(accepted, r)
      PROVE  n' = n + (IF r.event = "divergence" THEN 1 ELSE 0)
  <2>1. Len(accepted') = Len(accepted) + 1
    BY <1>0, <1>3
  <2>2. QED
    BY <1>0, <1>3, <2>1, CountOfAppend
<1>4. accepted' = accepted => n' = n
  OBVIOUS
<1> HIDE DEF n
<1>5. ReportInv' <=>
        /\ signatures' = n' \/ (failed' /\ pc' = "idle" /\ signatures' = n' + 1)
        /\ quarantines' <= n'
        /\ mode = "enforce" => quarantines' = n'
  BY DEF ReportInv, n
<1>6. ASSUME Account, n' = n, pc # "idle" \/ ~failed PROVE ReportInv'
  BY <1>1, <1>2, <1>5, <1>6 DEF Account
<1>7. CASE Opens
  <2>1. SessionRecord("session_open", 0) \in Records
        /\ SessionRecord("session_open", 0).event = "session_open"
    BY SessionRecordIsRecord DEF Events
  <2>2. accepted' = Append(accepted, SessionRecord("session_open", 0))
    BY <1>7 DEF Opens, Logged
  <2>3. n' = n
    BY <1>1, <1>3, <2>1, <2>2
  <2>4. QED
    BY <1>6, <1>7, <2>3 DEF Opens
<1>8. CASE Leaves
  <2>1. n' = n /\ pc' = "idle" /\ failed' = failed
    BY <1>4, <1>8 DEF Leaves
  <2>2. CASE Account
    BY <1>1, <1>2, <1>5, <2>1, <2>2 DEF Account
  <2>3. CASE /\ failed /\ AtBoundary
             /\ signatures' = signatures + 1 /\ quarantines' = quarantines
    <3>1. pc # "idle"
      BY <2>3 DEF AtBoundary, Published
    <3>2. QED
      BY <1>1, <1>2, <1>5, <2>1, <2>3, <3>1
  <2>4. QED
    BY <1>8, <2>2, <2>3 DEF Leaves
<1>9. CASE Computes \/ Breaks \/ Commits \/ Handles \/ Returns
  <2>1. Account /\ accepted' = accepted /\ pc # "idle"
    BY <1>9 DEF Computes, Breaks, Commits, Handles, Returns
  <2>2. QED
    BY <1>4, <1>6, <2>1
<1>10. CASE Waits
  <2>1. Account /\ accepted' = accepted /\ pc' = pc /\ (failed => failed')
    BY <1>10 DEF Waits
  <2>2. QED
    BY <1>1, <1>2, <1>4, <1>5, <2>1 DEF Account
<1>11. CASE Passes
  <2>1. Account /\ pc # "idle"
    BY <1>11 DEF Passes, AtBoundary, Published
  <2>2. n' = n
    BY <1>1, <1>3, <1>4, <1>11, PassedRecord
  <2>3. QED
    BY <1>6, <2>1, <2>2
<1>12. CASE Diverges
  <2>1. /\ pc # "idle" /\ signatures' = signatures + 1
        /\ \/ mode = "monitor" /\ quarantines' = quarantines
           \/ quarantines' = quarantines + 1
    BY <1>12 DEF Diverges, AtBoundary, Published
  <2>2. n' = n + 1
    BY <1>1, <1>3, <1>12, DivergedRecord
  <2>3. QED
    BY <1>0, <1>1, <1>2, <1>5, <2>1, <2>2
<1>13. CASE Closes
  <2>1. SessionRecord("session_close", step) \in Records
        /\ SessionRecord("session_close", step).event = "session_close"
    BY SessionRecordIsRecord DEF Events, TypeOK
  <2>2. accepted' = Append(accepted, SessionRecord("session_close", step))
        /\ Account /\ pc # "idle"
    BY <1>13 DEF Closes
  <2>3. n' = n
    BY <1>1, <1>3, <2>1, <2>2
  <2>4. QED
    BY <1>6, <2>2, <2>3
<1>14. QED
  BY <1>7, <1>8, <1>9, <1>10, <1>11, <1>12, <1>13 DEF TrailStep

\* For any number of sessions, in both modes, whatever the log's writer does:
\* the one report of the membrane counts the divergences of the log, and may be
\* one ahead only when the log had failed.
THEOREM ReportCorrect == Spec => []ReportCountsTrail
<1>1. Init => ReportInv
  <2>1. Init => signatures = 0 /\ quarantines = 0 /\ Len(accepted) = 0
    BY DEF Init
  <2>2. CountOf(accepted, "divergence", 0) = 0
    <3>1. 0 \in Nat
      OBVIOUS
    <3>2. CountUpTo(EventAt(accepted, "divergence"), 0) = 0
      BY <3>1, CountIsNat
    <3>3. QED
      BY <3>1, <3>2, CountOfIsCount
  <2>3. QED
    BY <2>1, <2>2 DEF ReportInv
<1>2. TypeOK /\ ReportInv /\ [Next]_vars => ReportInv'
  BY TrailCases, ReportStep
<1>3. ReportInv => ReportCountsTrail
  BY DEF ReportInv, ReportCountsTrail
<1>4. QED
  BY TypeCorrect, <1>1, <1>2, <1>3, PTL DEF Spec

-----------------------------------------------------------------------------
\* The trail of a session.

\* The log has a last session_open while there is anything in it.
StartInv ==
    /\ accepted # <<>> => \E i \in 1..Len(accepted) : LastOpen(accepted, i)
    /\ audited /\ pc # "idle" => accepted # <<>>
    /\ ~audited => accepted = <<>>

\* The trail runs from the last session_open to the end of the log.
LEMMA TrailFrom ==
    ASSUME NEW s \in Seq(Records), NEW i \in 1..Len(s), LastOpen(s, i)
    PROVE  TrailOf(s) = SubSeq(s, i, Len(s))
<1> DEFINE c == CHOOSE j \in 1..Len(s) : LastOpen(s, j)
<1>1. c \in 1..Len(s) /\ LastOpen(s, c)
  OBVIOUS
<1> HIDE DEF c
<1>2. c = i
  <2>1. Len(s) \in Nat /\ c \in Nat /\ i \in Nat
    BY <1>1
  <2>2. ~(c < i)
    <3>1. c < i => i \in (c + 1)..Len(s)
      BY <1>1, <2>1
    <3>2. QED
      BY <1>1, <3>1 DEF LastOpen
  <2>3. ~(i < c)
    <3>1. i < c => c \in (i + 1)..Len(s)
      BY <1>1, <2>1
    <3>2. QED
      BY <1>1, <3>1 DEF LastOpen
  <2>4. QED
    BY <2>1, <2>2, <2>3
<1>3. s # <<>>
  OBVIOUS
<1>4. QED
  BY <1>2, <1>3 DEF TrailOf, c

LEMMA TrailIsSeq ==
    ASSUME NEW s \in Seq(Records),
           s # <<>> => \E i \in 1..Len(s) : LastOpen(s, i)
    PROVE  /\ TrailOf(s) \in Seq(Records)
           /\ s # <<>> => /\ Len(TrailOf(s)) >= 1
                          /\ TrailOf(s)[1].event = "session_open"
           /\ s = <<>> => TrailOf(s) = <<>>
<1>1. CASE s = <<>>
  BY <1>1 DEF TrailOf
<1>2. CASE s # <<>>
  <2>1. PICK i \in 1..Len(s) : LastOpen(s, i)
    BY <1>2
  <2>2. TrailOf(s) = SubSeq(s, i, Len(s))
    BY <2>1, TrailFrom
  <2>3. /\ SubSeq(s, i, Len(s)) \in Seq(Records)
        /\ Len(SubSeq(s, i, Len(s))) = Len(s) - i + 1
        /\ SubSeq(s, i, Len(s))[1] = s[i]
    OBVIOUS
  <2>4. Len(s) - i + 1 >= 1
    OBVIOUS
  <2>5. QED
    BY <1>2, <2>1, <2>2, <2>3, <2>4 DEF LastOpen
<1>3. QED
  BY <1>1, <1>2

\* A session_open begins a new trail,
LEMMA TrailOpens ==
    ASSUME NEW s \in Seq(Records), NEW r \in Records, r.event = "session_open"
    PROVE  /\ TrailOf(Append(s, r)) = <<r>>
           /\ \E i \in 1..Len(Append(s, r)) : LastOpen(Append(s, r), i)
<1> DEFINE t == Append(s, r)
           n == Len(s) + 1
<1>1. /\ t \in Seq(Records) /\ Len(t) = n /\ n \in Nat /\ n >= 1 /\ t[n] = r
  OBVIOUS
<1> HIDE DEF t, n
<1>2. LastOpen(t, n)
  <2>1. \A j \in (n + 1)..Len(t) : FALSE
    BY <1>1
  <2>2. QED
    BY <1>1, <2>1 DEF LastOpen
<1>3. n \in 1..Len(t)
  BY <1>1
<1>4. TrailOf(t) = SubSeq(t, n, Len(t))
  BY <1>1, <1>2, <1>3, TrailFrom
<1>5. SubSeq(t, n, n) = <<r>>
  <2>1. /\ SubSeq(t, n, n) \in Seq(Records) /\ Len(SubSeq(t, n, n)) = 1
        /\ SubSeq(t, n, n)[1] = r
    BY <1>1, <1>3
  <2>2. <<r>> \in Seq(Records) /\ Len(<<r>>) = 1 /\ <<r>>[1] = r
    OBVIOUS
  <2>3. /\ Len(SubSeq(t, n, n)) = Len(<<r>>)
        /\ \A j \in 1..Len(SubSeq(t, n, n)) : SubSeq(t, n, n)[j] = <<r>>[j]
    BY <2>1, <2>2
  <2>4. QED
    BY <2>1, <2>2, <2>3, SameSeq
<1>6. QED
  BY <1>1, <1>2, <1>3, <1>4, <1>5 DEF t

\* and any other record goes to the end of the trail.
LEMMA TrailGrows ==
    ASSUME NEW s \in Seq(Records), NEW r \in Records, r.event # "session_open",
           NEW i \in 1..Len(s), LastOpen(s, i)
    PROVE  /\ TrailOf(Append(s, r)) = Append(TrailOf(s), r)
           /\ LastOpen(Append(s, r), i)
           /\ i \in 1..Len(Append(s, r))
<1> DEFINE t == Append(s, r)
           n == Len(s)
<1>1. /\ t \in Seq(Records) /\ Len(t) = n + 1 /\ n \in Nat /\ t[n + 1] = r
      /\ \A j \in 1..n : t[j] = s[j]
      /\ i \in 1..n
  OBVIOUS
<1>2. LastOpen(t, i)
  <2>1. t[i].event = "session_open"
    BY <1>1 DEF LastOpen
  <2>2. ASSUME NEW j \in (i + 1)..(n + 1) PROVE t[j].event # "session_open"
    <3>1. CASE j = n + 1
      BY <1>1, <3>1
    <3>2. CASE j # n + 1
      <4>1. j \in (i + 1)..n /\ j \in 1..n
        BY <1>1, <3>2
      <4>2. QED
        BY <1>1, <4>1 DEF LastOpen
    <3>3. QED
      BY <3>1, <3>2
  <2>3. QED
    BY <1>1, <2>1, <2>2 DEF LastOpen
<1>3. i \in 1..Len(t)
  BY <1>1
<1>4. TrailOf(t) = SubSeq(t, i, n + 1) /\ TrailOf(s) = SubSeq(s, i, n)
  BY <1>1, <1>2, <1>3, TrailFrom
<1>5. SubSeq(t, i, n + 1) = Append(SubSeq(s, i, n), r)
  <2> DEFINE u == SubSeq(t, i, n + 1)
             v == SubSeq(s, i, n)
  <2>1. /\ u \in Seq(Records) /\ Len(u) = n - i + 2
        /\ \A j \in 1..(n - i + 2) : u[j] = t[i + j - 1]
    BY <1>1
  <2>2. /\ v \in Seq(Records) /\ Len(v) = n - i + 1
        /\ \A j \in 1..(n - i + 1) : v[j] = s[i + j - 1]
    BY <1>1
  <2> HIDE DEF u, v
  <2>3. /\ Append(v, r) \in Seq(Records) /\ Len(Append(v, r)) = n - i + 2
        /\ \A j \in 1..(n - i + 1) : Append(v, r)[j] = v[j]
        /\ Append(v, r)[n - i + 2] = r
    <3>1. Len(v) + 1 = n - i + 2 /\ Len(v) = n - i + 1
      BY <1>1, <2>2
    <3>2. /\ Append(v, r) \in Seq(Records)
          /\ Len(Append(v, r)) = Len(v) + 1
          /\ \A j \in 1..Len(v) : Append(v, r)[j] = v[j]
          /\ Append(v, r)[Len(v) + 1] = r
      BY <2>2, AppendTyped
    <3>3. QED
      BY <3>1, <3>2
  <2>4. ASSUME NEW j \in 1..(n - i + 2) PROVE u[j] = Append(v, r)[j]
    <3>1. CASE j = n - i + 2
      <4>1. i + j - 1 = n + 1
        BY <1>1, <3>1
      <4>2. QED
        BY <1>1, <2>1, <2>3, <3>1, <4>1
    <3>2. CASE j # n - i + 2
      <4>1. j \in 1..(n - i + 1) /\ i + j - 1 \in 1..n
        BY <1>1, <3>2
      <4>2. QED
        BY <1>1, <2>1, <2>2, <2>3, <4>1
    <3>3. QED
      BY <3>1, <3>2
  <2>5. u = Append(v, r)
    BY <2>1, <2>3, <2>4, SameSeq
  <2>6. QED
    BY <2>5 DEF u, v
<1> HIDE DEF t, n
<1>6. QED
  BY <1>2, <1>3, <1>4, <1>5 DEF t

\* What the steps do to the trail of the session.
LEMMA TrailFacts ==
    ASSUME TypeOK, StartInv
    PROVE  /\ SessionTrail \in Seq(Records) /\ Len(SessionTrail) \in Nat
           /\ accepted # <<>> => /\ Len(SessionTrail) >= 1
                                 /\ SessionTrail[1].event = "session_open"
           /\ accepted = <<>> => SessionTrail = <<>>
  BY TrailIsSeq DEF TypeOK, StartInv, SessionTrail

LEMMA TrailBegins ==
    ASSUME TypeOK, NEW r \in Records, r.event = "session_open",
           accepted' = Append(accepted, r)
    PROVE  /\ SessionTrail' = <<r>>
           /\ accepted' # <<>>
           /\ \E i \in 1..Len(accepted') : LastOpen(accepted', i)
<1>1. accepted \in Seq(Records)
  BY DEF TypeOK
<1>2. /\ TrailOf(accepted') = <<r>>
      /\ \E i \in 1..Len(accepted') : LastOpen(accepted', i)
  BY <1>1, TrailOpens
<1>3. accepted' # <<>>
  BY <1>1
<1>4. QED
  BY <1>2, <1>3 DEF SessionTrail

LEMMA TrailContinues ==
    ASSUME TypeOK, StartInv, accepted # <<>>, NEW r \in Records,
           r.event # "session_open", accepted' = Append(accepted, r)
    PROVE  /\ SessionTrail' = Append(SessionTrail, r)
           /\ accepted' # <<>>
           /\ \E i \in 1..Len(accepted') : LastOpen(accepted', i)
<1>1. accepted \in Seq(Records)
  BY DEF TypeOK
<1>2. PICK i \in 1..Len(accepted) : LastOpen(accepted, i)
  BY DEF StartInv
<1>3. /\ TrailOf(accepted') = Append(TrailOf(accepted), r)
      /\ LastOpen(accepted', i) /\ i \in 1..Len(accepted')
  BY <1>1, <1>2, TrailGrows
<1>4. accepted' # <<>>
  BY <1>1
<1>5. QED
  BY <1>3, <1>4 DEF SessionTrail

LEMMA TrailStays == accepted' = accepted => SessionTrail' = SessionTrail
  BY DEF SessionTrail

\* Four of the steps write to the trail, each one record.
SameTrail == accepted' = accepted /\ SessionTrail' = SessionTrail
Longer(r) ==
    /\ audited /\ accepted # <<>> /\ accepted' # <<>>
    /\ r \in Records
    /\ SessionTrail' = Append(SessionTrail, r)
    /\ \E i \in 1..Len(accepted') : LastOpen(accepted', i)

LEMMA OpensTrail ==
    ASSUME TypeOK, StartInv, Opens
    PROVE  \/ ~audited /\ SameTrail
           \/ /\ audited /\ accepted' # <<>>
              /\ SessionTrail' = <<SessionRecord("session_open", 0)>>
              /\ \E i \in 1..Len(accepted') : LastOpen(accepted', i)
<1>1. CASE ~audited
  BY <1>1, TrailStays DEF Opens, Logged, SameTrail
<1>2. CASE audited
  <2>1. accepted' = Append(accepted, SessionRecord("session_open", 0))
    BY <1>2 DEF Opens, Logged
  <2>2. SessionRecord("session_open", 0) \in Records
        /\ SessionRecord("session_open", 0).event = "session_open"
    BY SessionRecordIsRecord DEF Events
  <2>3. QED
    BY <1>2, <2>1, <2>2, TrailBegins
<1>3. QED
  BY <1>1, <1>2

LEMMA PassesTrail ==
    ASSUME TypeOK, StartInv, Passes
    PROVE  \/ ~(audited /\ traced) /\ SameTrail
           \/ \E r \in Records :
                 /\ Longer(r)
                 /\ r.event = IF pc = "gate" THEN "emission" ELSE "state"
                 /\ r.kind = BoundaryKind /\ r.step = step
                 /\ r.layer = IF pc \in {"attention", "layer_output"}
                              THEN layer ELSE 0
                 /\ pc = "gate" => r.token = token'
<1>1. CASE ~(audited /\ traced)
  <2>1. accepted' = accepted
    BY <1>1 DEF Passes, Logged
  <2>2. QED
    BY <1>1, <2>1, TrailStays DEF SameTrail
<1>2. CASE audited /\ traced
  <2>1. audited /\ accepted # <<>>
    BY <1>2 DEF StartInv, Passes, AtBoundary, Published
  <2>2. PICK r \in Records :
           /\ accepted' = Append(accepted, r)
           /\ r.event = IF pc = "gate" THEN "emission" ELSE "state"
           /\ r.kind = BoundaryKind /\ r.step = step
           /\ r.layer = IF pc \in {"attention", "layer_output"}
                        THEN layer ELSE 0
           /\ pc = "gate" => r.token = token'
    BY <1>2, PassedRecord
  <2>3. r.event # "session_open"
    BY <2>2
  <2>4. Longer(r)
    BY <2>1, <2>2, <2>3, TrailContinues DEF Longer
  <2>5. QED
    BY <2>2, <2>4
<1>3. QED
  BY <1>1, <1>2

LEMMA DivergesTrail ==
    ASSUME TypeOK, StartInv, Diverges
    PROVE  \/ ~audited /\ SameTrail
           \/ \E r \in Records :
                 /\ Longer(r)
                 /\ r.event = "divergence"
                 /\ r.kind = BoundaryKind /\ r.step = step
                 /\ r.layer = IF pc \in {"attention", "layer_output"}
                              THEN layer ELSE 0
<1>1. CASE ~audited
  <2>1. accepted' = accepted
    BY <1>1 DEF Diverges, Logged
  <2>2. QED
    BY <1>1, <2>1, TrailStays DEF SameTrail
<1>2. CASE audited
  <2>1. audited /\ accepted # <<>>
    BY <1>2 DEF StartInv, Diverges, AtBoundary, Published
  <2>2. PICK r \in Records :
           /\ accepted' = Append(accepted, r)
           /\ r.event = "divergence"
           /\ r.kind = BoundaryKind /\ r.step = step
           /\ r.layer = IF pc \in {"attention", "layer_output"}
                        THEN layer ELSE 0
    BY <1>2, DivergedRecord
  <2>3. r.event # "session_open"
    BY <2>2
  <2>4. Longer(r)
    BY <2>1, <2>2, <2>3, TrailContinues DEF Longer
  <2>5. QED
    BY <2>2, <2>4
<1>3. QED
  BY <1>1, <1>2

LEMMA ClosesTrail ==
    ASSUME TypeOK, StartInv, Closes
    PROVE  \/ ~audited /\ SameTrail
           \/ Longer(SessionRecord("session_close", step))
<1>1. CASE ~audited
  <2>1. accepted' = accepted
    BY <1>1 DEF Closes
  <2>2. QED
    BY <1>1, <2>1, TrailStays DEF SameTrail
<1>2. CASE audited
  <2>1. audited /\ accepted # <<>>
        /\ accepted' = Append(accepted, SessionRecord("session_close", step))
    BY <1>2 DEF StartInv, Closes
  <2>2. SessionRecord("session_close", step) \in Records
        /\ SessionRecord("session_close", step).event = "session_close"
    BY SessionRecordIsRecord DEF Events, TypeOK
  <2>3. QED
    BY <2>1, <2>2, TrailContinues DEF Longer
<1>3. QED
  BY <1>1, <1>2

\* The others write nothing.
LEMMA QuietTrail ==
    Leaves \/ Computes \/ Breaks \/ Commits \/ Handles \/ Returns \/ Waits
        => SameTrail
  BY TrailStays
     DEF Leaves, Computes, Breaks, Commits, Handles, Returns, Waits, SameTrail

LEMMA StartStep == TypeOK /\ StartInv /\ TrailStep => StartInv'
<1> SUFFICES ASSUME TypeOK, StartInv, TrailStep PROVE StartInv'
  OBVIOUS
<1>1. ASSUME accepted' = accepted, pc # "idle" \/ pc' = "idle" \/ ~audited
      PROVE  StartInv'
  BY <1>1 DEF StartInv
<1>2. ASSUME audited, accepted' # <<>>,
             \E i \in 1..Len(accepted') : LastOpen(accepted', i)
      PROVE  StartInv'
  BY <1>2 DEF StartInv
<1>3. CASE Opens
  BY <1>1, <1>2, <1>3, OpensTrail DEF SameTrail
<1>4. CASE Passes
  <2>1. pc # "idle"
    BY <1>4 DEF Passes, AtBoundary, Published
  <2>2. QED
    BY <1>1, <1>2, <1>4, <2>1, PassesTrail DEF SameTrail, Longer
<1>5. CASE Diverges
  <2>1. pc # "idle"
    BY <1>5 DEF Diverges, AtBoundary, Published
  <2>2. QED
    BY <1>1, <1>2, <1>5, <2>1, DivergesTrail DEF SameTrail, Longer
<1>6. CASE Closes
  <2>1. pc # "idle"
    BY <1>6 DEF Closes
  <2>2. QED
    BY <1>1, <1>2, <1>6, <2>1, ClosesTrail DEF SameTrail, Longer
<1>7. CASE Leaves \/ Computes \/ Breaks \/ Commits \/ Handles \/ Returns \/ Waits
  <2>1. accepted' = accepted
    BY <1>7, QuietTrail DEF SameTrail
  <2>2. pc # "idle" \/ pc' = "idle"
    BY <1>7 DEF Leaves, Computes, Breaks, Commits, Handles, Returns, Waits
  <2>3. QED
    BY <1>1, <2>1, <2>2
<1>8. QED
  BY <1>3, <1>4, <1>5, <1>6, <1>7 DEF TrailStep

-----------------------------------------------------------------------------
\* How the trail of a session ends under ENFORCE.

InLoop == PCs \ {"idle", "except", "close", "flush"}
Finished == pc = "flush" \/ (pc = "idle" /\ outcome = "returned")

Clean(t, n) == \A i \in 1..n : t[i].event # "divergence"
OnlyLast(t, n) == n >= 1 /\ t[n].event = "divergence" /\ Clean(t, n - 1)
Ended(t, n, how) == IF how = "quarantined" THEN OnlyLast(t, n) ELSE Clean(t, n)

\* Inside the loop no divergence has been recorded; one sends generate through
\* its handler to the end, and session_close is the last record.
StopInv ==
    mode = "enforce" =>
        LET n == Len(SessionTrail)
        IN  /\ pc \in InLoop \cup {"except"} => status = "completed"
            /\ pc \in InLoop => Clean(SessionTrail, n)
            /\ audited /\ pc = "except" => OnlyLast(SessionTrail, n)
            /\ audited /\ pc = "close" => Ended(SessionTrail, n, status)
            /\ audited /\ Finished =>
                  /\ n >= 2
                  /\ SessionTrail[n] = SessionRecord("session_close", step)
                  /\ Ended(SessionTrail, n - 1, status)

LEMMA CleanGrows ==
    ASSUME NEW t \in Seq(Records), NEW r \in Records
    PROVE  LET u == Append(t, r)
           IN  /\ Len(u) = Len(t) + 1 /\ u[Len(u)] = r
               /\ Clean(t, Len(t)) =>
                     IF r.event = "divergence" THEN OnlyLast(u, Len(u))
                     ELSE Clean(u, Len(u))
               /\ \A how : Ended(t, Len(t), how) => Ended(u, Len(u) - 1, how)
<1> DEFINE u == Append(t, r)
           n == Len(t)
<1>1. /\ n \in Nat /\ Len(u) = n + 1 /\ u[n + 1] = r
      /\ \A i \in 1..n : u[i] = t[i]
  OBVIOUS
<1> HIDE DEF u, n
<1>2. /\ Len(u) = n + 1 /\ u[Len(u)] = r /\ Len(u) - 1 = n /\ Len(u) >= 1
  BY <1>1
<1>3. Clean(t, n) => Clean(u, n)
  BY <1>1 DEF Clean
<1>4. Clean(t, n) /\ r.event # "divergence" => Clean(u, n + 1)
  <2> SUFFICES ASSUME Clean(t, n), r.event # "divergence", NEW i \in 1..(n + 1)
               PROVE  u[i].event # "divergence"
    BY DEF Clean
  <2>1. CASE i = n + 1
    BY <1>1, <2>1
  <2>2. CASE i # n + 1
    <3>1. i \in 1..n
      BY <1>1, <2>2
    <3>2. QED
      BY <1>1, <3>1 DEF Clean
  <2>3. QED
    BY <2>1, <2>2
<1>5. Clean(t, n) /\ r.event = "divergence" => OnlyLast(u, Len(u))
  BY <1>2, <1>3 DEF OnlyLast
<1>6. OnlyLast(t, n) => OnlyLast(u, n)
  <2> SUFFICES ASSUME OnlyLast(t, n) PROVE OnlyLast(u, n)
    OBVIOUS
  <2>1. n >= 1 /\ n \in 1..n /\ \A i \in 1..(n - 1) : i \in 1..n
    BY <1>1 DEF OnlyLast
  <2>2. QED
    BY <1>1, <2>1 DEF OnlyLast, Clean
<1>7. \A how : Ended(t, n, how) => Ended(u, n, how)
  BY <1>3, <1>6 DEF Ended
<1>8. /\ Clean(t, n) => IF r.event = "divergence" THEN OnlyLast(u, Len(u))
                        ELSE Clean(u, Len(u))
      /\ \A how : Ended(t, n, how) => Ended(u, Len(u) - 1, how)
  BY <1>2, <1>4, <1>5, <1>7
<1>9. QED
  BY <1>2, <1>8 DEF u, n

LEMMA BehindIsInLoop == AtBoundary => pc \in InLoop /\ Behind \in InLoop
  BY DEF AtBoundary, Behind, InLoop, PCs, Published

LEMMA StopStep == TypeOK /\ StartInv /\ StopInv /\ TrailStep => StopInv'
<1> SUFFICES ASSUME TypeOK, StartInv, StopInv, TrailStep, mode = "enforce"
             PROVE  StopInv'
  BY DEF StopInv
<1> DEFINE T == SessionTrail
           n == Len(T)
<1>0. T \in Seq(Records) /\ n \in Nat /\ (accepted # <<>> => n >= 1)
      /\ step \in Nat
  BY TrailFacts DEF TypeOK
<1>1. /\ pc \in InLoop \cup {"except"} => status = "completed"
      /\ pc \in InLoop => Clean(T, n)
      /\ audited /\ pc = "except" => OnlyLast(T, n)
      /\ audited /\ pc = "close" => Ended(T, n, status)
      /\ audited /\ Finished =>
            n >= 2 /\ T[n] = SessionRecord("session_close", step)
                   /\ Ended(T, n - 1, status)
  BY DEF StopInv
<1> HIDE DEF T, n
<1>2. StopInv' <=>
        /\ pc' \in InLoop \cup {"except"} => status' = "completed"
        /\ pc' \in InLoop => Clean(T', n')
        /\ audited /\ pc' = "except" => OnlyLast(T', n')
        /\ audited /\ pc' = "close" => Ended(T', n', status')
        /\ audited /\ Finished' =>
              n' >= 2 /\ T'[n'] = SessionRecord("session_close", step')
                      /\ Ended(T', n' - 1, status')
  BY DEF StopInv, T, n
<1>3. SameTrail => T' = T /\ n' = n
  BY DEF SameTrail, T, n
<1>4. ASSUME NEW r \in Records, Longer(r)
      PROVE  /\ n' = n + 1 /\ T'[n'] = r /\ n >= 1
             /\ Clean(T, n) => IF r.event = "divergence" THEN OnlyLast(T', n')
                               ELSE Clean(T', n')
             /\ \A how : Ended(T, n, how) => Ended(T', n' - 1, how)
  <2>1. T' = Append(T, r) /\ accepted # <<>>
    BY <1>4 DEF Longer, T
  <2>2. QED
    BY <1>0, <2>1, CleanGrows DEF n
<1>5. CASE Opens
  <2>1. pc' = "loop" /\ status' = "completed" /\ "loop" \in InLoop
    BY <1>5 DEF Opens, InLoop, PCs
  <2>2. Clean(T', n')
    <3>1. CASE audited
      <4>1. T' = <<SessionRecord("session_open", 0)>>
        BY <1>5, <3>1, OpensTrail DEF T
      <4>2. n' = 1 /\ T'[1].event = "session_open"
        BY <4>1, SessionRecordIsRecord DEF n, Events
      <4>3. QED
        BY <4>2 DEF Clean
    <3>2. CASE ~audited
      <4>1. T' = T /\ T = <<>>
        BY <1>3, <1>5, <3>2, OpensTrail, TrailFacts DEF StartInv, T
      <4>2. n' = 0
        BY <4>1 DEF n
      <4>3. QED
        BY <4>2 DEF Clean
    <3>3. QED
      BY <3>1, <3>2
  <2>3. QED
    BY <1>2, <2>1, <2>2 DEF Finished
<1>6. CASE Leaves
  <2>1. pc' = "idle" /\ outcome' # "returned"
    BY <1>6 DEF Leaves
  <2>2. QED
    BY <1>2, <2>1 DEF InLoop, Finished
<1>7. CASE Computes
  <2>1. T' = T /\ n' = n /\ status' = status
    BY <1>3, <1>7, QuietTrail DEF Computes, Frame
  <2>2. pc \in InLoop /\ pc' \in InLoop
    BY <1>7 DEF Computes, InLoop, PCs, Published
  <2>3. QED
    BY <1>1, <1>2, <2>1, <2>2 DEF InLoop, Finished
<1>8. CASE Breaks
  <2>1. T' = T /\ n' = n /\ pc' = "close" /\ status' # "quarantined"
    BY <1>3, <1>8, QuietTrail DEF Breaks
  <2>2. pc \in InLoop
    BY <1>8 DEF Breaks, InLoop, PCs
  <2>3. QED
    BY <1>1, <1>2, <2>1, <2>2 DEF InLoop, Finished, Ended
<1>9. CASE Passes
  <2>1. pc \in InLoop /\ pc' \in InLoop /\ status' = status
    BY <1>9, BehindIsInLoop DEF Passes, Frame
  <2>2. Clean(T', n')
    <3>1. CASE SameTrail
      BY <1>1, <1>3, <2>1, <3>1
    <3>2. CASE \E r \in Records : Longer(r) /\ r.event # "divergence"
      BY <1>1, <1>4, <2>1, <3>2
    <3>3. QED
      BY <1>9, <3>1, <3>2, PassesTrail
  <2>3. QED
    BY <1>1, <1>2, <2>1, <2>2 DEF InLoop, Finished
<1>10. CASE Diverges
  <2>1. /\ pc \in InLoop /\ pc' = "except" /\ status' = status
    BY <1>10, BehindIsInLoop DEF Diverges, Frame
  <2>2. audited => OnlyLast(T', n')
    <3>1. CASE \E r \in Records : Longer(r) /\ r.event = "divergence"
      BY <1>1, <1>4, <2>1, <3>1
    <3>2. QED
      BY <1>10, <3>1, DivergesTrail
  <2>3. QED
    BY <1>1, <1>2, <2>1, <2>2 DEF InLoop, Finished
<1>11. CASE Commits
  <2>1. T' = T /\ n' = n /\ pc' = "loop" /\ status' = status
    BY <1>3, <1>11, QuietTrail DEF Commits
  <2>2. pc \in InLoop
    BY <1>11 DEF Commits, InLoop, PCs
  <2>3. QED
    BY <1>1, <1>2, <2>1, <2>2 DEF InLoop, Finished
<1>12. CASE Handles
  <2>1. T' = T /\ n' = n /\ pc = "except" /\ pc' = "close"
        /\ status' = "quarantined"
    BY <1>3, <1>12, QuietTrail DEF Handles
  <2>2. QED
    BY <1>1, <1>2, <2>1 DEF InLoop, Finished, Ended
<1>13. CASE Closes
  <2>1. pc = "close" /\ status' = status /\ step' = step
        /\ pc' \in {"flush", "idle"}
    BY <1>13 DEF Closes, Frame
  <2>2. CASE ~audited
    BY <1>2, <2>1, <2>2 DEF InLoop
  <2>3. CASE audited
    <3>1. Longer(SessionRecord("session_close", step))
          /\ SessionRecord("session_close", step) \in Records
      BY <1>13, <2>3, ClosesTrail DEF Longer
    <3>2. /\ n' = n + 1 /\ T'[n'] = SessionRecord("session_close", step)
          /\ n >= 1 /\ Ended(T', n' - 1, status)
      BY <1>1, <1>4, <2>1, <2>3, <3>1
    <3>3. n' >= 2
      BY <1>0, <3>2
    <3>4. QED
      BY <1>2, <2>1, <3>2, <3>3 DEF InLoop, Finished
  <2>4. QED
    BY <2>2, <2>3
<1>14. CASE Returns
  <2>1. T' = T /\ n' = n /\ pc = "flush" /\ pc' = "idle"
        /\ status' = status /\ step' = step
    BY <1>3, <1>14, QuietTrail DEF Returns, Frame
  <2>2. QED
    BY <1>1, <1>2, <2>1 DEF InLoop, Finished
<1>15. CASE Waits
  <2>1. T' = T /\ n' = n /\ pc' = pc /\ outcome' = outcome
        /\ status' = status /\ step' = step
    BY <1>3, <1>15, QuietTrail DEF Waits, Frame
  <2>2. QED
    BY <1>1, <1>2, <2>1 DEF Finished
<1>16. QED
  BY <1>5, <1>6, <1>7, <1>8, <1>9, <1>10, <1>11, <1>12, <1>13, <1>14, <1>15
     DEF TrailStep

LEMMA StopInit == Init => StartInv /\ StopInv
<1> SUFFICES ASSUME Init PROVE StartInv /\ StopInv
  OBVIOUS
<1>1. StartInv
  BY DEF Init, StartInv
<1>2. pc = "idle" /\ outcome = "none"
  BY DEF Init
<1>3. QED
  BY <1>1, <1>2 DEF StopInv, InLoop, Finished

LEMMA TrailInvariance == Spec => [](TypeOK /\ StartInv /\ StopInv)
<1>1. TypeOK /\ StartInv /\ StopInv /\ [Next]_vars => StartInv' /\ StopInv'
  BY TrailCases, StartStep, StopStep
<1>2. QED
  BY TypeCorrect, StopInit, <1>1, PTL DEF Spec

\* Under ENFORCE, once a divergence is in the trail of the session nothing is
\* emitted in it any more, whatever generate is doing.
THEOREM StopsAtDivergence == Spec => DivergenceStops
<1>1. TypeOK /\ StopInv /\ [Next]_vars
        => [mode = "enforce" /\ pc # "idle" /\ Diverged => emitted' = emitted]_vars
  <2> SUFFICES ASSUME TypeOK, StopInv, [Next]_vars, mode = "enforce",
                      pc # "idle", Diverged
               PROVE  emitted' = emitted
    OBVIOUS
  <2>1. pc # "commit"
    <3>1. ~Clean(SessionTrail, Len(SessionTrail))
      BY DEF Diverged, Clean
    <3>2. pc \notin InLoop
      BY <3>1 DEF StopInv
    <3>3. QED
      BY <3>2 DEF InLoop, PCs
  <2>2. TrailStep
    BY TrailCases
  <2>3. QED
    BY <2>1, <2>2
       DEF TrailStep, Opens, Leaves, Computes, Breaks, Passes, Diverges,
           Commits, Handles, Closes, Returns, Waits, Frame
<1>2. QED
  BY TrailInvariance, <1>1, PTL DEF DivergenceStops, Spec

-----------------------------------------------------------------------------
\* The emissions a trail tells of.

LEMMA EmissionsSame ==
    ASSUME NEW t \in Seq(Records), NEW tokens, NEW r \in Records,
           r.event # "emission", EmissionsAre(t, tokens)
    PROVE  EmissionsAre(Append(t, r), tokens)
<1> DEFINE u == Append(t, r)
           n == Len(t)
<1>1. /\ n \in Nat /\ Len(u) = n + 1 /\ u[n + 1] = r
      /\ \A i \in 1..n : u[i] = t[i]
  OBVIOUS
<1>2. /\ CountOf(t, "emission", n) \in Nat
      /\ CountOf(u, "emission", n + 1) = CountOf(t, "emission", n)
      /\ \A i \in 1..n : CountOf(u, "emission", i) = CountOf(t, "emission", i)
  BY CountOfAppend
<1> HIDE DEF u, n
<1>3. CountOf(u, "emission", Len(u)) = Len(tokens)
  BY <1>1, <1>2 DEF EmissionsAre, n
<1>4. ASSUME NEW i \in 1..Len(u), u[i].event = "emission"
      PROVE  u[i].token = tokens[CountOf(u, "emission", i)]
  <2>1. i # n + 1
    BY <1>1, <1>4
  <2>2. i \in 1..n
    BY <1>1, <2>1
  <2>3. QED
    BY <1>1, <1>2, <1>4, <2>2 DEF EmissionsAre, n
<1>5. QED
  BY <1>3, <1>4 DEF EmissionsAre, u

LEMMA EmissionsMore ==
    ASSUME NEW t \in Seq(Records), NEW tokens \in Seq(Int), NEW r \in Records,
           NEW tok \in Int, r.event = "emission", r.token = tok,
           EmissionsAre(t, tokens)
    PROVE  EmissionsAre(Append(t, r), Append(tokens, tok))
<1> DEFINE u == Append(t, r)
           n == Len(t)
           told == Append(tokens, tok)
<1>1. /\ n \in Nat /\ Len(u) = n + 1 /\ u[n + 1] = r
      /\ \A i \in 1..n : u[i] = t[i]
  OBVIOUS
<1>2. /\ CountOf(t, "emission", n) \in Nat
      /\ CountOf(u, "emission", n + 1) = CountOf(t, "emission", n) + 1
      /\ \A i \in 1..n : CountOf(u, "emission", i) = CountOf(t, "emission", i)
  BY CountOfAppend
<1>3. /\ Len(told) = Len(tokens) + 1 /\ told[Len(tokens) + 1] = tok
      /\ \A i \in 1..Len(tokens) : told[i] = tokens[i]
  BY AppendTyped
<1>4. CountOf(t, "emission", n) = Len(tokens)
  BY DEF EmissionsAre
<1>5. \A i \in 1..n : t[i].event = "emission" =>
         /\ t[i].token = tokens[CountOf(t, "emission", i)]
         /\ CountOf(t, "emission", i) \in 1..Len(tokens)
  BY <1>4, CountOfPlace DEF EmissionsAre
<1> HIDE DEF u, n, told
<1>6. CountOf(u, "emission", Len(u)) = Len(told)
  BY <1>1, <1>2, <1>3, <1>4
<1>7. ASSUME NEW i \in 1..Len(u), u[i].event = "emission"
      PROVE  u[i].token = told[CountOf(u, "emission", i)]
  <2>1. CASE i = n + 1
    BY <1>1, <1>2, <1>3, <1>4, <2>1
  <2>2. CASE i # n + 1
    <3>1. i \in 1..n
      BY <1>1, <2>2
    <3>2. QED
      BY <1>1, <1>2, <1>3, <1>5, <1>7, <3>1
  <2>3. QED
    BY <2>1, <2>2
<1>8. QED
  BY <1>6, <1>7 DEF EmissionsAre, u, told

\* What has been emitted when the gate has let a token through.
Told == IF pc = "commit" THEN Append(emitted, token) ELSE emitted

TokensInv ==
    audited /\ traced /\ mode = "enforce" /\ (pc # "idle" \/ outcome = "returned")
        => EmissionsAre(SessionTrail, Told)

LEMMA TokensStep ==
    TypeOK /\ TypeOK' /\ StartInv /\ TokensInv /\ TrailStep => TokensInv'
<1> SUFFICES ASSUME TypeOK, TypeOK', StartInv, TokensInv, TrailStep,
                    audited, traced, mode = "enforce",
                    (pc # "idle" \/ outcome = "returned")'
             PROVE  EmissionsAre(SessionTrail', Told')
  BY DEF TokensInv
<1>0. /\ SessionTrail \in Seq(Records) /\ emitted \in Seq(Int) /\ token \in Int
      /\ token' \in Int /\ mode # "monitor"
  BY TrailFacts DEF TypeOK
<1>1. CASE Opens
  <2>1. SessionTrail' = <<SessionRecord("session_open", 0)>> /\ Told' = <<>>
    BY <1>1, OpensTrail DEF Opens, Told
  <2>2. SessionRecord("session_open", 0) \in Records
        /\ SessionRecord("session_open", 0).event = "session_open"
    BY SessionRecordIsRecord DEF Events
  <2>3. EmissionsAre(<<>>, <<>>)
    <3>1. CountUpTo(EventAt(<<>>, "emission"), 0) = 0 /\ Len(<<>>) = 0
      BY CountIsNat
    <3>2. QED
      BY <3>1, CountOfIsCount DEF EmissionsAre
  <2>4. <<>> \in Seq(Records)
        /\ Append(<<>>, SessionRecord("session_open", 0))
             = <<SessionRecord("session_open", 0)>>
    OBVIOUS
  <2>5. QED
    BY <2>1, <2>2, <2>3, <2>4, EmissionsSame
<1>2. CASE Leaves
  BY <1>2 DEF Leaves
<1>3. CASE ~Opens /\ ~Leaves
  <2>1. EmissionsAre(SessionTrail, Told)
    <3>1. pc # "idle" \/ outcome = "returned"
      BY <1>3
         DEF TrailStep, Computes, Breaks, Passes, Diverges, AtBoundary,
             Published, Commits, Handles, Closes, Returns, Waits
    <3>2. QED
      BY <3>1 DEF TokensInv
  <2>2. CASE Computes \/ Breaks \/ Handles \/ Returns
    <3>1. Told' = Told /\ SameTrail
      BY <2>2, QuietTrail
         DEF Computes, Breaks, Handles, Returns, Told, Frame
    <3>2. QED
      BY <2>1, <3>1 DEF SameTrail
  <2>3. CASE Commits
    <3>1. Told' = Told /\ SameTrail
      BY <2>3, QuietTrail DEF Commits, Told
    <3>2. QED
      BY <2>1, <3>1 DEF SameTrail
  <2>4. CASE Waits
    <3>1. Told' = Told /\ SameTrail
      BY <2>4, QuietTrail DEF Waits, Told, Frame
    <3>2. QED
      BY <2>1, <3>1 DEF SameTrail
  <2>5. CASE Passes
    <3>1. PICK r \in Records :
             /\ Longer(r)
             /\ r.event = IF pc = "gate" THEN "emission" ELSE "state"
             /\ pc = "gate" => r.token = token'
      BY <2>5, PassesTrail
    <3>2. Told = emitted /\ emitted' = emitted
          /\ Told' = IF pc = "gate" THEN Append(emitted, token') ELSE emitted
      BY <2>5 DEF Passes, AtBoundary, Published, Behind, Told, Frame
    <3>3. SessionTrail' = Append(SessionTrail, r)
      BY <3>1 DEF Longer
    <3>4. CASE pc = "gate"
      BY <1>0, <2>1, <3>1, <3>2, <3>3, <3>4, EmissionsMore
    <3>5. CASE pc # "gate"
      BY <1>0, <2>1, <3>1, <3>2, <3>3, <3>5, EmissionsSame
    <3>6. QED
      BY <3>4, <3>5
  <2>6. CASE Diverges
    <3>1. PICK r \in Records : Longer(r) /\ r.event = "divergence"
      BY <2>6, DivergesTrail
    <3>2. Told = emitted /\ Told' = emitted
      BY <1>0, <2>6 DEF Diverges, AtBoundary, Published, Told, Frame
    <3>3. QED
      BY <1>0, <2>1, <3>1, <3>2, EmissionsSame DEF Longer
  <2>7. CASE Closes
    <3>1. Longer(SessionRecord("session_close", step))
      BY <2>7, ClosesTrail
    <3>2. SessionRecord("session_close", step) \in Records
          /\ SessionRecord("session_close", step).event = "session_close"
      BY SessionRecordIsRecord DEF Events, TypeOK
    <3>3. Told = emitted /\ Told' = emitted
      BY <2>7 DEF Closes, Told, Frame
    <3>4. QED
      BY <1>0, <2>1, <3>1, <3>2, <3>3, EmissionsSame DEF Longer
  <2>8. QED
    BY <1>3, <2>2, <2>3, <2>4, <2>5, <2>6, <2>7 DEF TrailStep
<1>4. QED
  BY <1>1, <1>2, <1>3

\* For any model, policy and prompt, and whatever the log's writer does: the
\* records of a session that returned under ENFORCE tell how it ended and which
\* tokens it gave.
THEOREM TrailTells == Spec => []TrailTellsSession
<1>1. Init => TokensInv
  BY DEF Init, TokensInv
<1>2. TypeOK /\ TypeOK' /\ StartInv /\ TokensInv /\ [Next]_vars => TokensInv'
  BY TrailCases, TokensStep
<1>3. TypeOK /\ StartInv /\ StopInv /\ TokensInv => TrailTellsSession
  <2> SUFFICES ASSUME TypeOK, StartInv, StopInv, TokensInv, audited, pc = "idle",
                      outcome = "returned", mode = "enforce"
               PROVE  LET n == Len(SessionTrail)
                      IN  /\ SessionTrail[n] =
                                SessionRecord("session_close", Len(emitted))
                          /\ SessionTrail[n - 1].event = "divergence"
                                <=> status = "quarantined"
                          /\ \A i \in 1..(n - 2) :
                                SessionTrail[i].event # "divergence"
                          /\ traced => EmissionsAre(SessionTrail, emitted)
    BY DEF TrailTellsSession
  <2> DEFINE n == Len(SessionTrail)
  <2>1. n \in Nat /\ n >= 2 /\ step = Len(emitted)
        /\ SessionTrail[n] = SessionRecord("session_close", step)
        /\ Ended(SessionTrail, n - 1, status)
    BY TrailFacts DEF StopInv, Finished, TypeOK
  <2>2. traced => EmissionsAre(SessionTrail, emitted)
    BY DEF TokensInv, Told
  <2> HIDE DEF n
  <2>3. n - 1 \in 1..(n - 1) /\ (n - 1) - 1 = n - 2
        /\ \A i \in 1..(n - 2) : i \in 1..(n - 1)
    BY <2>1
  <2>4. CASE status = "quarantined"
    <3>1. OnlyLast(SessionTrail, n - 1)
      BY <2>1, <2>4 DEF Ended
    <3>2. /\ SessionTrail[n - 1].event = "divergence"
          /\ \A i \in 1..(n - 2) : SessionTrail[i].event # "divergence"
      BY <2>3, <3>1 DEF OnlyLast, Clean
    <3>3. QED
      BY <2>1, <2>2, <2>4, <3>2 DEF n
  <2>5. CASE status # "quarantined"
    <3>1. \A i \in 1..(n - 1) : SessionTrail[i].event # "divergence"
      BY <2>1, <2>5 DEF Ended, Clean
    <3>2. QED
      BY <2>1, <2>2, <2>3, <2>5, <3>1 DEF n
  <2>6. QED
    BY <2>4, <2>5
<1>4. QED
  BY TypeCorrect, TrailInvariance, <1>1, <1>2, <1>3, PTL DEF Spec

-----------------------------------------------------------------------------
\* MONITOR: what the shadow run reports.

ReportedAt(records) == {i \in Nat :
    records[i].event = "divergence" /\ records[i].kind = "emission"}
ForbiddenAt(asked, tokens) == {k \in Nat :
    check(tokens[k], asked \o SubSeq(tokens, 1, k - 1), k - 1) # {}}

LEMMA ReportedIsCount ==
    ASSUME NEW s \in Seq(Records)
    PROVE  Reported(s) = CountUpTo(ReportedAt(s), Len(s))
<1>1. {i \in 1..Len(s) : s[i].event = "divergence" /\ s[i].kind = "emission"}
        = ReportedAt(s) \cap (1..Len(s))
  BY DEF ReportedAt
<1>2. QED
  BY <1>1 DEF Reported, CountUpTo

LEMMA ReportedGrows ==
    ASSUME NEW s \in Seq(Records), NEW r \in Records
    PROVE  /\ Reported(s) \in Nat
           /\ Reported(Append(s, r)) = Reported(s) +
                (IF r.event = "divergence" /\ r.kind = "emission" THEN 1 ELSE 0)
<1> DEFINE t == Append(s, r)
           n == Len(s)
<1>1. /\ n \in Nat /\ t \in Seq(Records) /\ Len(t) = n + 1 /\ t[n + 1] = r
      /\ \A i \in 1..n : t[i] = s[i]
  OBVIOUS
<1> HIDE DEF t, n
<1>2. \A i \in 1..n : i \in ReportedAt(t) <=> i \in ReportedAt(s)
  BY <1>1 DEF ReportedAt
<1>3. CountUpTo(ReportedAt(t), n) = CountUpTo(ReportedAt(s), n)
  BY <1>1, <1>2, CountSame
<1>4. CountUpTo(ReportedAt(t), n + 1) = CountUpTo(ReportedAt(t), n)
        + (IF n + 1 \in ReportedAt(t) THEN 1 ELSE 0)
  BY <1>1, CountNext
<1>5. n + 1 \in ReportedAt(t) <=> r.event = "divergence" /\ r.kind = "emission"
  BY <1>1 DEF ReportedAt
<1>6. Reported(t) = CountUpTo(ReportedAt(t), n + 1)
  BY <1>1, ReportedIsCount
<1>7. Reported(s) = CountUpTo(ReportedAt(s), n)
  BY ReportedIsCount DEF n
<1>8. CountUpTo(ReportedAt(s), n) \in Nat
  BY <1>1, CountIsNat
<1>9. QED
  BY <1>3, <1>4, <1>5, <1>6, <1>7, <1>8 DEF t

LEMMA ForbiddenIsCount ==
    ASSUME NEW asked, NEW tokens \in Seq(Int)
    PROVE  Cardinality(Forbidden(asked, tokens)) =
               CountUpTo(ForbiddenAt(asked, tokens), Len(tokens))
<1>1. Forbidden(asked, tokens) = ForbiddenAt(asked, tokens) \cap (1..Len(tokens))
  BY DEF ForbiddenAt, Forbidden
<1>2. QED
  BY <1>1 DEF CountUpTo

\* One more token adds one if the policy forbids it behind the others.
LEMMA ForbiddenGrows ==
    ASSUME NEW asked, NEW tokens \in Seq(Int), NEW tok \in Int
    PROVE  /\ Cardinality(Forbidden(asked, tokens)) \in Nat
           /\ Cardinality(Forbidden(asked, Append(tokens, tok))) =
                Cardinality(Forbidden(asked, tokens)) +
                (IF check(tok, asked \o tokens, Len(tokens)) # {} THEN 1 ELSE 0)
<1> DEFINE t == Append(tokens, tok)
           n == Len(tokens)
<1>1. /\ n \in Nat /\ t \in Seq(Int) /\ Len(t) = n + 1 /\ t[n + 1] = tok
      /\ \A i \in 1..n : t[i] = tokens[i]
      /\ \A i \in 1..n : SubSeq(t, 1, i - 1) = SubSeq(tokens, 1, i - 1)
      /\ SubSeq(t, 1, (n + 1) - 1) = tokens
      /\ (n + 1) - 1 = n
  <2>1. /\ n \in Nat /\ t \in Seq(Int) /\ Len(t) = n + 1 /\ t[n + 1] = tok
        /\ \A i \in 1..n : t[i] = tokens[i]
    OBVIOUS
  <2>2. ASSUME NEW i \in 1..(n + 1)
        PROVE  SubSeq(t, 1, i - 1) = SubSeq(tokens, 1, i - 1)
    <3>1. /\ SubSeq(t, 1, i - 1) \in Seq(Int)
          /\ Len(SubSeq(t, 1, i - 1)) = i - 1
          /\ \A j \in 1..(i - 1) : SubSeq(t, 1, i - 1)[j] = t[j]
      BY <2>1
    <3>2. /\ SubSeq(tokens, 1, i - 1) \in Seq(Int)
          /\ Len(SubSeq(tokens, 1, i - 1)) = i - 1
          /\ \A j \in 1..(i - 1) : SubSeq(tokens, 1, i - 1)[j] = tokens[j]
      BY <2>1
    <3>3. \A j \in 1..(i - 1) : t[j] = tokens[j]
      BY <2>1
    <3>4. QED
      BY <3>1, <3>2, <3>3, SameSeq
  <2>3. n + 1 \in 1..(n + 1) /\ (n + 1) - 1 = n /\ \A i \in 1..n : i \in 1..(n + 1)
    BY <2>1
  <2>4. SubSeq(tokens, 1, n) = tokens
    OBVIOUS
  <2>5. QED
    BY <2>1, <2>2, <2>3, <2>4
<1> HIDE DEF t, n
<1>2. \A i \in 1..n : i \in ForbiddenAt(asked, t) <=> i \in ForbiddenAt(asked, tokens)
  BY <1>1 DEF ForbiddenAt
<1>3. CountUpTo(ForbiddenAt(asked, t), n) = CountUpTo(ForbiddenAt(asked, tokens), n)
  BY <1>1, <1>2, CountSame
<1>4. CountUpTo(ForbiddenAt(asked, t), n + 1) =
        CountUpTo(ForbiddenAt(asked, t), n)
        + (IF n + 1 \in ForbiddenAt(asked, t) THEN 1 ELSE 0)
  BY <1>1, CountNext
<1>5. n + 1 \in ForbiddenAt(asked, t) <=> check(tok, asked \o tokens, n) # {}
  <2>1. n + 1 \in Nat
    BY <1>1
  <2>2. n + 1 \in ForbiddenAt(asked, t) <=>
          check(t[n + 1], asked \o SubSeq(t, 1, (n + 1) - 1), (n + 1) - 1) # {}
    BY <2>1 DEF ForbiddenAt
  <2>3. check(t[n + 1], asked \o SubSeq(t, 1, (n + 1) - 1), (n + 1) - 1)
          = check(tok, asked \o tokens, n)
    BY <1>1, Zenon
  <2>4. QED
    BY <2>2, <2>3
<1>6. Cardinality(Forbidden(asked, t)) = CountUpTo(ForbiddenAt(asked, t), n + 1)
  BY <1>1, ForbiddenIsCount
<1>7. Cardinality(Forbidden(asked, tokens)) =
        CountUpTo(ForbiddenAt(asked, tokens), n)
  BY ForbiddenIsCount DEF n
<1>8. CountUpTo(ForbiddenAt(asked, tokens), n) \in Nat
  BY <1>1, CountIsNat
<1>9. QED
  BY <1>3, <1>4, <1>5, <1>6, <1>7, <1>8 DEF t, n

\* Only malformed logits stop a shadow run; until then the trail reports the
\* forbidden tokens, the one at the gate included.
ShadowInv ==
    mode = "monitor" =>
        /\ pc \in InLoop \cup {"except"} => status = "completed"
        /\ status = "quarantined" \/ pc = "except" => x = "malformed"
        /\ audited /\ (pc \in InLoop \/ (pc = "close" /\ status # "quarantined")) =>
              Reported(SessionTrail) = Cardinality(Forbidden(prompt, Told))

LEMMA ShadowStep ==
    TypeOK /\ TypeOK' /\ StartInv /\ ShadowInv /\ TrailStep => ShadowInv'
<1> SUFFICES ASSUME TypeOK, TypeOK', StartInv, ShadowInv, TrailStep,
                    mode = "monitor"
             PROVE  ShadowInv'
  BY DEF ShadowInv
<1> DEFINE T == SessionTrail
           Agrees == Reported(T) = Cardinality(Forbidden(prompt, Told))
<1>0. /\ T \in Seq(Records) /\ emitted \in Seq(Int) /\ token' \in Int
      /\ step = Len(emitted) /\ mode # "enforce"
  BY TrailFacts DEF TypeOK
<1>1. /\ pc \in InLoop \cup {"except"} => status = "completed"
      /\ status = "quarantined" \/ pc = "except" => x = "malformed"
      /\ audited /\ (pc \in InLoop \/ (pc = "close" /\ status # "quarantined"))
            => Agrees
  BY DEF ShadowInv
<1> HIDE DEF T, Agrees
<1>2. ShadowInv' <=>
        /\ pc' \in InLoop \cup {"except"} => status' = "completed"
        /\ status' = "quarantined" \/ pc' = "except" => x' = "malformed"
        /\ audited /\ (pc' \in InLoop \/ (pc' = "close" /\ status' # "quarantined"))
              => Agrees'
  BY DEF ShadowInv, T, Agrees, InLoop
<1>3. ASSUME SameTrail, Told' = Told, prompt' = prompt, Agrees PROVE Agrees'
  BY <1>3 DEF Agrees, T, SameTrail
<1>4. CASE Opens
  <2>1. pc' = "loop" /\ status' = "completed" /\ Told' = <<>>
    BY <1>4 DEF Opens, Told
  <2>2. ASSUME audited PROVE Agrees'
    <3>1. T' = <<SessionRecord("session_open", 0)>>
      BY <1>4, <2>2, OpensTrail DEF T
    <3>2. SessionRecord("session_open", 0) \in Records
          /\ SessionRecord("session_open", 0).event = "session_open"
      BY SessionRecordIsRecord DEF Events
    <3>3. /\ <<>> \in Seq(Records) /\ <<>> \in Seq(Int) /\ Len(<<>>) = 0
          /\ Append(<<>>, SessionRecord("session_open", 0))
               = <<SessionRecord("session_open", 0)>>
      OBVIOUS
    <3>4. Reported(<<>>) = 0
      BY <3>3, ReportedIsCount, CountIsNat
    <3>5. Reported(T') = 0
      <4>1. Reported(Append(<<>>, SessionRecord("session_open", 0))) =
              Reported(<<>>) + 0
        BY <3>2, <3>3, ReportedGrows
      <4>2. QED
        BY <3>1, <3>3, <3>4, <4>1
    <3>6. Cardinality(Forbidden(prompt', <<>>)) = 0
      BY <3>3, ForbiddenIsCount, CountIsNat
    <3>7. QED
      BY <2>1, <3>5, <3>6 DEF Agrees
  <2>3. QED
    BY <1>2, <2>1, <2>2 DEF InLoop
<1>5. CASE Leaves
  <2>1. pc' = "idle"
    BY <1>5 DEF Leaves
  <2>2. status' = "quarantined" => x' = "malformed"
    <3>1. CASE pc = "idle" /\ status' = "completed"
      BY <3>1
    <3>2. CASE Frame /\ AtBoundary
      BY <1>1, <3>2, BehindIsInLoop DEF Frame
    <3>3. CASE Frame /\ x' = x
      BY <1>1, <3>3 DEF Frame
    <3>4. QED
      BY <1>5, <3>1, <3>2, <3>3 DEF Leaves
  <2>3. QED
    BY <1>2, <2>1, <2>2 DEF InLoop
<1>6. CASE Computes
  <2>1. /\ pc \in InLoop /\ pc' \in InLoop /\ status' = status
        /\ Told' = Told /\ prompt' = prompt /\ SameTrail
    BY <1>6, QuietTrail DEF Computes, Frame, Told, InLoop, PCs, Published
  <2>2. QED
    BY <1>1, <1>2, <1>3, <2>1 DEF InLoop
<1>7. CASE Breaks
  <2>1. /\ pc \in InLoop /\ pc' = "close" /\ status' # "quarantined"
        /\ Told' = Told /\ prompt' = prompt /\ SameTrail
    BY <1>7, QuietTrail DEF Breaks, Told, InLoop, PCs
  <2>2. QED
    BY <1>1, <1>2, <1>3, <2>1 DEF InLoop
<1>8. CASE Passes
  <2>1. /\ pc \in InLoop /\ pc' \in InLoop /\ status' = status /\ prompt' = prompt
        /\ Told = emitted /\ emitted' = emitted
        /\ Told' = IF pc = "gate" THEN Append(emitted, token') ELSE emitted
    BY <1>8, BehindIsInLoop
       DEF Passes, AtBoundary, Published, Behind, Told, Frame
  <2>2. ASSUME audited PROVE Agrees'
    <3>1. Reported(T') = Reported(T)
      <4>1. CASE SameTrail
        BY <4>1 DEF SameTrail, T
      <4>2. CASE \E r \in Records : Longer(r) /\ r.event # "divergence"
        <5>1. PICK r \in Records : Longer(r) /\ r.event # "divergence"
          BY <4>2
        <5>2. Reported(T) \in Nat /\ Reported(Append(T, r)) = Reported(T) + 0
          BY <1>0, <5>1, ReportedGrows
        <5>3. QED
          BY <5>1, <5>2 DEF Longer, T
      <4>3. QED
        BY <1>8, <4>1, <4>2, PassesTrail
    <3>2. Cardinality(Forbidden(prompt, Told')) = Cardinality(Forbidden(prompt, Told))
      <4>1. CASE pc = "gate"
        <5>1. check(token', prompt \o emitted, Len(emitted)) = {}
          BY <1>0, <1>8, <4>1 DEF Passes, Found
        <5>2. /\ Cardinality(Forbidden(prompt, emitted)) \in Nat
              /\ Cardinality(Forbidden(prompt, Append(emitted, token'))) =
                    Cardinality(Forbidden(prompt, emitted)) + 0
          BY <1>0, <5>1, ForbiddenGrows
        <5>3. QED
          BY <2>1, <4>1, <5>2
      <4>2. CASE pc # "gate"
        BY <2>1, <4>2
      <4>3. QED
        BY <4>1, <4>2
    <3>3. Agrees
      BY <1>1, <2>1, <2>2
    <3>4. QED
      BY <2>1, <3>1, <3>2, <3>3 DEF Agrees
  <2>3. QED
    BY <1>1, <1>2, <2>1, <2>2 DEF InLoop
<1>9. CASE Diverges
  <2>1. /\ pc \in InLoop /\ status' = status /\ status = "completed"
        /\ prompt' = prompt /\ Told = emitted /\ emitted' = emitted
    BY <1>1, <1>9, BehindIsInLoop
       DEF Diverges, AtBoundary, Published, Told, Frame
  <2>2. CASE pc' = "except"
    <3>1. x' = "malformed"
      BY <1>0, <1>9, <2>2, BehindIsInLoop DEF Diverges, InLoop
    <3>2. QED
      BY <1>2, <2>1, <2>2, <3>1 DEF InLoop
  <2>3. CASE pc' # "except"
    <3>1. pc' = Behind /\ Found(FALSE)
      BY <1>9, <2>3 DEF Diverges
    <3>2. Told' = IF pc = "gate" THEN Append(emitted, token') ELSE emitted
      BY <1>9, <2>1, <3>1 DEF Diverges, AtBoundary, Published, Behind, Told
    <3>3. ASSUME audited PROVE Agrees'
      <4>1. PICK r \in Records : /\ Longer(r) /\ r.event = "divergence"
                                 /\ r.kind = BoundaryKind
        BY <1>9, <3>3, DivergesTrail
      <4>2. r.kind = "emission" <=> pc = "gate"
        BY <1>9, <4>1 DEF Diverges, AtBoundary, BoundaryKind, Published
      <4>3. /\ Reported(T) \in Nat
            /\ Reported(T') = Reported(T) + (IF pc = "gate" THEN 1 ELSE 0)
        <5>1. T' = Append(T, r)
          BY <4>1 DEF Longer, T
        <5>2. QED
          BY <1>0, <4>1, <4>2, <5>1, ReportedGrows
      <4>4. /\ Cardinality(Forbidden(prompt, emitted)) \in Nat
            /\ Cardinality(Forbidden(prompt, Told')) =
                  Cardinality(Forbidden(prompt, emitted))
                  + (IF pc = "gate" THEN 1 ELSE 0)
        <5>1. CASE pc = "gate"
          <6>1. check(token', prompt \o emitted, Len(emitted)) # {}
            BY <1>0, <3>1, <5>1 DEF Found
          <6>2. QED
            BY <1>0, <3>2, <5>1, <6>1, ForbiddenGrows
        <5>2. CASE pc # "gate"
          <6>1. Cardinality(Forbidden(prompt, emitted)) \in Nat
            BY <1>0, ForbiddenGrows
          <6>2. QED
            BY <3>2, <5>2, <6>1
        <5>3. QED
          BY <5>1, <5>2
      <4>5. Agrees
        BY <1>1, <2>1, <3>3
      <4>6. QED
        BY <2>1, <4>3, <4>4, <4>5 DEF Agrees
    <3>4. pc' \in InLoop
      BY <1>9, <3>1, BehindIsInLoop DEF Diverges
    <3>5. QED
      BY <1>2, <2>1, <3>3, <3>4 DEF InLoop
  <2>4. QED
    BY <2>2, <2>3
<1>10. CASE Commits
  <2>1. /\ pc \in InLoop /\ pc' = "loop" /\ status' = status
        /\ Told' = Told /\ prompt' = prompt /\ SameTrail
    BY <1>10, QuietTrail DEF Commits, Told, InLoop, PCs
  <2>2. QED
    BY <1>1, <1>2, <1>3, <2>1 DEF InLoop
<1>11. CASE Handles
  <2>1. x' = "malformed" /\ pc' = "close" /\ status' = "quarantined"
    BY <1>1, <1>11 DEF Handles
  <2>2. QED
    BY <1>2, <2>1 DEF InLoop
<1>12. CASE Closes \/ Returns
  <2>1. pc' \in {"flush", "idle"} /\ status' = status /\ x' = x
    BY <1>12 DEF Closes, Returns, Frame
  <2>2. QED
    BY <1>1, <1>2, <2>1 DEF InLoop
<1>13. CASE Waits
  <2>1. /\ pc' = pc /\ status' = status /\ x' = x
        /\ Told' = Told /\ prompt' = prompt /\ SameTrail
    BY <1>13, QuietTrail DEF Waits, Told, Frame
  <2>2. QED
    BY <1>1, <1>2, <1>3, <2>1
<1>14. QED
  BY <1>4, <1>5, <1>6, <1>7, <1>8, <1>9, <1>10, <1>11, <1>12, <1>13
     DEF TrailStep

\* A MONITOR run is only quarantined over logits no token can be decoded from,
\* and until then its trail reports each forbidden token it emitted, once per
\* occurrence.
THEOREM ShadowReports == Spec => []ShadowReportsEveryOccurrence
<1>1. Init => ShadowInv
  BY DEF Init, ShadowInv, InLoop
<1>2. TypeOK /\ TypeOK' /\ StartInv /\ ShadowInv /\ [Next]_vars => ShadowInv'
  BY TrailCases, ShadowStep
<1>3. ShadowInv => ShadowReportsEveryOccurrence
  BY DEF ShadowInv, ShadowReportsEveryOccurrence, Told, InLoop, PCs
<1>4. QED
  BY TypeCorrect, TrailInvariance, <1>1, <1>2, <1>3, PTL DEF Spec

-----------------------------------------------------------------------------
\* The boundaries of the steps.

LEMMA BoundariesAre ==
    /\ Len(Boundaries) = 2 * n_layers + 4
    /\ Boundaries[1] = <<"embedding", 0>>
    /\ \A l \in Layers : /\ Boundaries[2 * l] = <<"attention", l>>
                         /\ Boundaries[2 * l + 1] = <<"layer_output", l>>
    /\ Boundaries[2 * n_layers + 2] = <<"final_hidden", 0>>
    /\ Boundaries[2 * n_layers + 3] = <<"logits", 0>>
    /\ Boundaries[2 * n_layers + 4] = <<"emission", 0>>
<1> DEFINE first == <<<<"embedding", 0>>>>
           layered == [i \in 1..(2 * n_layers) |->
              <<IF i % 2 = 1 THEN "attention" ELSE "layer_output", (i + 1) \div 2>>]
           last == <<<<"final_hidden", 0>>, <<"logits", 0>>, <<"emission", 0>>>>
           n == 2 * n_layers
           S == {"embedding", "attention", "layer_output", "final_hidden",
                 "logits", "emission"} \X Int
<1>0. n_layers \in Nat /\ n_layers >= 1 /\ n \in Nat
  BY EngineAssumption
<1>1. first \in Seq(S) /\ Len(first) = 1 /\ first[1] = <<"embedding", 0>>
  OBVIOUS
<1>2. layered \in Seq(S) /\ Len(layered) = n
  <2>1. \A i \in 1..n : layered[i] \in S
    OBVIOUS
  <2>2. QED
    BY <1>0, <2>1
<1>3. \A l \in Layers :
         /\ 2 * l - 1 \in 1..n /\ 2 * l \in 1..n
         /\ layered[2 * l - 1] = <<"attention", l>>
         /\ layered[2 * l] = <<"layer_output", l>>
  <2> SUFFICES ASSUME NEW l \in Layers
               PROVE  /\ 2 * l - 1 \in 1..n /\ 2 * l \in 1..n
                      /\ layered[2 * l - 1] = <<"attention", l>>
                      /\ layered[2 * l] = <<"layer_output", l>>
    OBVIOUS
  <2>1. l \in Nat /\ l >= 1 /\ 2 * l - 1 \in 1..n /\ 2 * l \in 1..n
    BY <1>0 DEF Layers
  <2>2. (2 * l - 1) % 2 = 1 /\ (2 * l) % 2 = 0
        /\ ((2 * l - 1) + 1) \div 2 = l /\ (2 * l + 1) \div 2 = l
    BY <2>1
  <2>3. QED
    BY <2>1, <2>2
<1>4. /\ last \in Seq(S) /\ Len(last) = 3 /\ last[1] = <<"final_hidden", 0>>
      /\ last[2] = <<"logits", 0>> /\ last[3] = <<"emission", 0>>
  OBVIOUS
<1>5. Boundaries = (first \o layered) \o last
  <2>1. Boundaries = first \o layered \o last
    BY DEF Boundaries
  <2>2. QED
    BY <2>1
<1> HIDE DEF first, layered, last, S
<1>6. /\ first \o layered \in Seq(S) /\ Len(first \o layered) = n + 1
      /\ (first \o layered)[1] = first[1]
      /\ \A i \in 1..n : (first \o layered)[i + 1] = layered[i]
  <2>0. first \in Seq(S) /\ layered \in Seq(S)
    BY <1>1, <1>2
  <2>1. /\ first \o layered \in Seq(S)
        /\ Len(first \o layered) = Len(first) + Len(layered)
        /\ \A i \in 1..Len(first) : (first \o layered)[i] = first[i]
        /\ \A i \in 1..Len(layered) : (first \o layered)[Len(first) + i] = layered[i]
    BY <2>0, ConcatTyped
  <2> HIDE DEF n
  <2>2. \A i \in 1..n : 1 + i = i + 1
    BY <1>0
  <2>3. QED
    BY <1>0, <1>1, <1>2, <2>1, <2>2
<1>7. /\ Len(Boundaries) = n + 4
      /\ \A i \in 1..(n + 1) : Boundaries[i] = (first \o layered)[i]
      /\ \A i \in 1..3 : Boundaries[n + 1 + i] = last[i]
  <2> DEFINE head == first \o layered
  <2>0. head \in Seq(S) /\ last \in Seq(S)
    BY <1>4, <1>6
  <2>4. Len(head) = n + 1
    BY <1>6
  <2> HIDE DEF head
  <2>1. /\ Len(head \o last) = Len(head) + Len(last)
        /\ \A i \in 1..Len(head) : (head \o last)[i] = head[i]
        /\ \A i \in 1..Len(last) : (head \o last)[Len(head) + i] = last[i]
    BY <2>0, ConcatTyped
  <2>2. Boundaries = head \o last
    BY <1>5 DEF head
  <2> HIDE DEF n
  <2>3. /\ Len(Boundaries) = n + 4
        /\ \A i \in 1..(n + 1) : Boundaries[i] = head[i]
        /\ \A i \in 1..3 : Boundaries[n + 1 + i] = last[i]
    BY <1>0, <1>4, <2>1, <2>2, <2>4
  <2>5. QED
    BY <2>3 DEF head
<1>8. Boundaries[1] = <<"embedding", 0>>
  BY <1>0, <1>1, <1>6, <1>7
<1>9. ASSUME NEW l \in Layers
      PROVE  /\ Boundaries[2 * l] = <<"attention", l>>
             /\ Boundaries[2 * l + 1] = <<"layer_output", l>>
  <2>1. /\ 2 * l \in 1..(n + 1) /\ 2 * l + 1 \in 1..(n + 1)
        /\ (2 * l - 1) + 1 = 2 * l /\ 2 * l - 1 \in 1..n /\ 2 * l \in 1..n
    BY <1>0, <1>3 DEF Layers
  <2>2. (first \o layered)[2 * l] = layered[2 * l - 1]
    BY <1>6, <2>1
  <2>3. (first \o layered)[2 * l + 1] = layered[2 * l]
    BY <1>6, <2>1
  <2>4. QED
    BY <1>3, <1>7, <2>1, <2>2, <2>3
<1>10. /\ Boundaries[n + 2] = last[1] /\ Boundaries[n + 3] = last[2]
       /\ Boundaries[n + 4] = last[3]
  BY <1>0, <1>7
<1>11. QED
  BY <1>4, <1>7, <1>8, <1>9, <1>10

\* Where the blocks of the steps lie.
LEMMA Places ==
    ASSUME NEW k \in Nat, NEW b \in Nat
    PROVE  /\ Place(k, b) \in Nat /\ Place(k, 0) \in Nat
           /\ Place(k, b) = Place(k, 0) + b
           /\ Place(k, 0) >= 1 /\ Place(0, 0) = 1
           /\ Place(k + 1, 0) = Place(k, Len(Boundaries))
<1> DEFINE m == Len(Boundaries)
<1>1. m \in Nat
  BY BoundariesAre, EngineAssumption
<1> HIDE DEF m
<1>2. k * m \in Nat /\ (k + 1) * m = k * m + m /\ 0 * m = 0
  BY <1>1
<1>3. QED
  BY <1>1, <1>2 DEF Place, m

\* The record is of the b-th boundary of step k.
Inspects(r, k, b) ==
    /\ r.event \in {"state", "divergence", "emission"}
    /\ r.step = k
    /\ <<r.kind, r.layer>> = Boundaries[b]

\* The trail t has a block for each of the first n steps, and
BlocksIn(t, n) ==
    \A k \in 0..(n - 1), b \in 1..Len(Boundaries) :
        /\ Place(k, b) \in 1..Len(t)
        /\ Inspects(t[Place(k, b)], k, b)

\* what else there is in it is session_open, or behind them and of step n.
OthersIn(t, n) ==
    \A i \in 1..Len(t) :
        \/ i = 1 /\ t[i].event = "session_open"
        \/ i > Place(n, 0) /\ t[i].step = n
        \/ \E k \in 0..(n - 1) : i \in Place(k, 1)..Place(k, Len(Boundaries))

\* It ends with the first m boundaries of step n.
StepIn(t, n, m) ==
    /\ Len(t) = Place(n, m)
    /\ \A b \in 1..m : Inspects(t[Place(n, b)], n, b)

\* A record more.
LEMMA BlocksGrow ==
    ASSUME NEW t \in Seq(Records), NEW r \in Records, NEW n \in Nat,
           BlocksIn(t, n)
    PROVE  BlocksIn(Append(t, r), n)
<1>1. /\ Len(t) \in Nat /\ Len(Append(t, r)) = Len(t) + 1
      /\ \A i \in 1..Len(t) : Append(t, r)[i] = t[i] /\ i \in 1..(Len(t) + 1)
  BY AppendTyped
<1>2. QED
  BY <1>1 DEF BlocksIn

LEMMA OthersGrow ==
    ASSUME NEW t \in Seq(Records), NEW r \in Records, NEW n \in Nat,
           OthersIn(t, n), Len(t) >= Place(n, 0), r.step = n
    PROVE  OthersIn(Append(t, r), n)
<1> DEFINE u == Append(t, r)
<1>1. /\ Len(t) \in Nat /\ Len(u) = Len(t) + 1 /\ u[Len(t) + 1] = r
      /\ \A i \in 1..Len(t) : u[i] = t[i]
  BY AppendTyped
<1> HIDE DEF u
<1>2. Place(n, 0) \in Nat
  BY Places
<1>3. ASSUME NEW i \in 1..Len(u)
      PROVE  \/ i = 1 /\ u[i].event = "session_open"
             \/ i > Place(n, 0) /\ u[i].step = n
             \/ \E k \in 0..(n - 1) :
                   i \in Place(k, 1)..Place(k, Len(Boundaries))
  <2>1. CASE i = Len(t) + 1
    BY <1>1, <1>2, <2>1
  <2>2. CASE i # Len(t) + 1
    <3>1. i \in 1..Len(t) /\ u[i] = t[i]
      BY <1>1, <2>2
    <3>2. QED
      BY <3>1 DEF OthersIn
  <2>3. QED
    BY <2>1, <2>2
<1>4. QED
  BY <1>3 DEF OthersIn, u

LEMMA StepGrows ==
    ASSUME NEW t \in Seq(Records), NEW r \in Records, NEW n \in Nat,
           NEW m \in Nat, StepIn(t, n, m), Inspects(r, n, m + 1)
    PROVE  StepIn(Append(t, r), n, m + 1)
<1> DEFINE u == Append(t, r)
<1>1. /\ Len(t) \in Nat /\ Len(u) = Len(t) + 1 /\ u[Len(t) + 1] = r
      /\ \A i \in 1..Len(t) : u[i] = t[i]
  BY AppendTyped
<1> HIDE DEF u
<1>2. /\ \A b \in Nat : Place(n, b) = Place(n, 0) + b
      /\ Place(n, 0) \in Nat /\ Place(n, 0) >= 1
      /\ Len(t) = Place(n, m)
  BY Places DEF StepIn
<1>3. Len(u) = Place(n, m + 1) /\ u[Place(n, m + 1)] = r
  <2>1. m + 1 \in Nat
    OBVIOUS
  <2>2. Place(n, m + 1) = Place(n, 0) + (m + 1) /\ Place(n, m) = Place(n, 0) + m
    BY <1>2, <2>1
  <2>3. Place(n, m + 1) = Len(t) + 1
    BY <1>2, <2>2
  <2>4. QED
    BY <1>1, <2>3
<1>4. ASSUME NEW b \in 1..(m + 1)
      PROVE  Inspects(u[Place(n, b)], n, b)
  <2>1. CASE b = m + 1
    BY <1>3, <2>1
  <2>2. CASE b # m + 1
    <3>1. b \in 1..m /\ Place(n, b) \in 1..Len(t)
      <4>1. b \in Nat /\ 1 <= b /\ b <= m
        BY <2>2
      <4>2. Place(n, b) = Place(n, 0) + b /\ Place(n, m) = Place(n, 0) + m
        BY <1>2, <4>1
      <4>3. /\ Place(n, 0) \in Nat /\ Place(n, 0) >= 1
            /\ Len(t) = Place(n, m) /\ m \in Nat
        BY <1>2
      <4>4. b \in 1..m /\ Place(n, 0) + b \in 1..(Place(n, 0) + m)
        BY <4>1, <4>3
      <4>5. QED
        BY <4>2, <4>3, <4>4
    <3>2. QED
      BY <1>1, <3>1 DEF StepIn
  <2>3. QED
    BY <2>1, <2>2
<1>5. QED
  BY <1>3, <1>4 DEF StepIn, u

\* A step whose boundaries are all there is one of the blocks.
LEMMA BlockCloses ==
    ASSUME NEW t \in Seq(Records), NEW n \in Nat, BlocksIn(t, n), OthersIn(t, n),
           StepIn(t, n, Len(Boundaries))
    PROVE  BlocksIn(t, n + 1) /\ OthersIn(t, n + 1) /\ StepIn(t, n + 1, 0)
<1> DEFINE m == Len(Boundaries)
<1>0. m \in Nat
  BY BoundariesAre, EngineAssumption
<1>1. /\ \A b \in Nat : Place(n, b) = Place(n, 0) + b
      /\ Place(n, 0) \in Nat /\ Place(n, 0) >= 1
      /\ Place(n + 1, 0) = Place(n, m)
      /\ Len(t) = Place(n, m) /\ Len(t) \in Nat
      /\ \A b \in 1..m : Inspects(t[Place(n, b)], n, b)
  BY Places DEF StepIn
<1> HIDE DEF m
<1>2. ASSUME NEW k \in 0..((n + 1) - 1), NEW b \in 1..m
      PROVE  Place(k, b) \in 1..Len(t) /\ Inspects(t[Place(k, b)], k, b)
  <2>1. CASE k = n
    <3>1. Place(n, b) \in 1..Len(t)
      <4>1. b \in Nat /\ 1 <= b /\ b <= m
        BY <1>0
      <4>2. Place(n, b) = Place(n, 0) + b /\ Place(n, m) = Place(n, 0) + m
        BY <1>0, <1>1, <4>1
      <4>3. /\ Place(n, 0) \in Nat /\ Place(n, 0) >= 1
            /\ Len(t) = Place(n, m) /\ m \in Nat
        BY <1>0, <1>1
      <4>4. Place(n, 0) + b \in 1..(Place(n, 0) + m)
        BY <4>1, <4>3
      <4>5. QED
        BY <4>2, <4>3, <4>4
    <3>2. QED
      BY <1>1, <2>1, <3>1
  <2>2. CASE k # n
    <3>1. k \in 0..(n - 1)
      BY <2>2
    <3>2. QED
      BY <3>1 DEF BlocksIn, m
  <2>3. QED
    BY <2>1, <2>2
<1>3. ASSUME NEW i \in 1..Len(t)
      PROVE  \/ i = 1 /\ t[i].event = "session_open"
             \/ \E k \in 0..((n + 1) - 1) : i \in Place(k, 1)..Place(k, m)
  <2>1. CASE i > Place(n, 0) /\ t[i].step = n
    <3>1. i \in Place(n, 1)..Place(n, m) /\ n \in 0..((n + 1) - 1)
      BY <1>0, <1>1, <2>1
    <3>2. QED
      BY <3>1
  <2>2. CASE \E k \in 0..(n - 1) : i \in Place(k, 1)..Place(k, m)
    <3>1. \A k \in 0..(n - 1) : k \in 0..((n + 1) - 1)
      OBVIOUS
    <3>2. QED
      BY <2>2, <3>1
  <2>3. QED
    BY <2>1, <2>2 DEF OthersIn, m
<1>4. BlocksIn(t, n + 1)
  BY <1>2 DEF BlocksIn, m
<1>5. OthersIn(t, n + 1)
  BY <1>3 DEF OthersIn, m
<1>6. StepIn(t, n + 1, 0)
  BY <1>1 DEF StepIn, m
<1>7. QED
  BY <1>4, <1>5, <1>6

\* The boundaries of the running step that are behind generate.
Inspected ==
    CASE pc \in {"loop", "forward", "embedding"} -> 0
      [] pc \in {"layer", "attention"} -> 2 * layer - 1
      [] pc = "layer_output" -> 2 * layer
      [] pc \in {"norm", "final_hidden"} -> 2 * n_layers + 1
      [] pc \in {"head", "logits"} -> 2 * n_layers + 2
      [] pc = "gate" -> 2 * n_layers + 3
      [] pc = "commit" -> 2 * n_layers + 4

BoundaryInv ==
    audited /\ traced =>
        /\ BlocksIn(SessionTrail, step)
        /\ step > 0 \/ pc # "idle" => OthersIn(SessionTrail, step)
        /\ pc # "idle" => Len(SessionTrail) >= Place(step, 0)
        /\ pc \in InLoop => StepIn(SessionTrail, step, Inspected)

\* A boundary that is passed, or let through by MONITOR, is the next one.
LEMMA NextBoundary ==
    ASSUME TypeOK, AtBoundary, pc = "embedding" => layer = 1
    PROVE  /\ Inspected \in Nat
           /\ <<BoundaryKind, IF pc \in {"attention", "layer_output"}
                              THEN layer ELSE 0>> = Boundaries[Inspected + 1]
           /\ pc' = Behind /\ layer' = NextLayer => Inspected' = Inspected + 1
<1>0. /\ layer \in Layers /\ layer \in Nat /\ 1 <= layer /\ layer <= n_layers
      /\ n_layers \in Nat /\ n_layers >= 1
  BY EngineAssumption DEF TypeOK, Layers
<1>1. CASE pc = "embedding"
  <2>1. Inspected = 0 /\ BoundaryKind = "embedding"
    BY <1>1 DEF Inspected, BoundaryKind
  <2>2. pc' = Behind /\ layer' = NextLayer => Inspected' = 1
    BY <1>0, <1>1 DEF Behind, NextLayer, Inspected
  <2>3. QED
    BY <1>1, <2>1, <2>2, BoundariesAre
<1>2. CASE pc = "attention"
  <2>1. Inspected = 2 * layer - 1 /\ BoundaryKind = "attention"
    BY <1>2 DEF Inspected, BoundaryKind
  <2>2. pc' = Behind /\ layer' = NextLayer => Inspected' = 2 * layer
    BY <1>0, <1>2 DEF Behind, NextLayer, Inspected
  <2>3. (2 * layer - 1) + 1 = 2 * layer /\ 2 * layer - 1 \in Nat
    BY <1>0
  <2>4. QED
    BY <1>0, <1>2, <2>1, <2>2, <2>3, BoundariesAre
<1>3. CASE pc = "layer_output"
  <2>1. Inspected = 2 * layer /\ BoundaryKind = "layer_output"
    BY <1>3 DEF Inspected, BoundaryKind
  <2>2. pc' = Behind /\ layer' = NextLayer => Inspected' = 2 * layer + 1
    <3>1. CASE layer < n_layers
      BY <1>0, <1>3, <3>1 DEF Behind, NextLayer, Inspected
    <3>2. CASE layer = n_layers
      BY <1>0, <1>3, <3>2 DEF Behind, NextLayer, Inspected
    <3>3. QED
      BY <1>0, <3>1, <3>2
  <2>3. 2 * layer \in Nat
    BY <1>0
  <2>4. QED
    BY <1>0, <1>3, <2>1, <2>2, <2>3, BoundariesAre
<1>4. CASE pc = "final_hidden"
  <2>1. Inspected = 2 * n_layers + 1 /\ BoundaryKind = "final_hidden"
    BY <1>4 DEF Inspected, BoundaryKind
  <2>2. pc' = Behind /\ layer' = NextLayer => Inspected' = 2 * n_layers + 2
    BY <1>4 DEF Behind, NextLayer, Inspected
  <2>3. 2 * n_layers + 1 \in Nat /\ (2 * n_layers + 1) + 1 = 2 * n_layers + 2
    BY <1>0
  <2>4. QED
    BY <1>4, <2>1, <2>2, <2>3, BoundariesAre
<1>5. CASE pc = "logits"
  <2>1. Inspected = 2 * n_layers + 2 /\ BoundaryKind = "logits"
    BY <1>5 DEF Inspected, BoundaryKind
  <2>2. pc' = Behind /\ layer' = NextLayer => Inspected' = 2 * n_layers + 3
    BY <1>5 DEF Behind, NextLayer, Inspected
  <2>3. 2 * n_layers + 2 \in Nat /\ (2 * n_layers + 2) + 1 = 2 * n_layers + 3
    BY <1>0
  <2>4. QED
    BY <1>5, <2>1, <2>2, <2>3, BoundariesAre
<1>6. CASE pc = "gate"
  <2>1. Inspected = 2 * n_layers + 3 /\ BoundaryKind = "emission"
    BY <1>6 DEF Inspected, BoundaryKind
  <2>2. pc' = Behind /\ layer' = NextLayer => Inspected' = 2 * n_layers + 4
    BY <1>6 DEF Behind, NextLayer, Inspected
  <2>3. 2 * n_layers + 3 \in Nat /\ (2 * n_layers + 3) + 1 = 2 * n_layers + 4
    BY <1>0
  <2>4. QED
    BY <1>6, <2>1, <2>2, <2>3, BoundariesAre
<1>7. QED
  BY <1>1, <1>2, <1>3, <1>4, <1>5, <1>6 DEF AtBoundary, Published

LEMMA BoundaryStep ==
    TypeOK /\ (pc = "embedding" => layer = 1) /\ StartInv /\ BoundaryInv
        /\ TrailStep => BoundaryInv'
<1> SUFFICES ASSUME TypeOK, pc = "embedding" => layer = 1, StartInv, BoundaryInv,
                    TrailStep, audited, traced
             PROVE  BoundaryInv'
  BY DEF BoundaryInv
<1> DEFINE T == SessionTrail
<1>0. T \in Seq(Records) /\ Len(T) \in Nat /\ step \in Nat
      /\ Place(step, 0) \in Nat
  BY TrailFacts, Places DEF TypeOK
<1>1. /\ BlocksIn(T, step)
      /\ step > 0 \/ pc # "idle" => OthersIn(T, step)
      /\ pc # "idle" => Len(T) >= Place(step, 0)
      /\ pc \in InLoop => StepIn(T, step, Inspected)
  BY DEF BoundaryInv
<1> HIDE DEF T
<1>2. BoundaryInv' <=>
        /\ BlocksIn(T', step')
        /\ step' > 0 \/ pc' # "idle" => OthersIn(T', step')
        /\ pc' # "idle" => Len(T') >= Place(step', 0)
        /\ pc' \in InLoop => StepIn(T', step', Inspected')
  BY DEF BoundaryInv, T, InLoop
<1>3. SameTrail => T' = T
  BY DEF SameTrail, T
<1>4. ASSUME NEW r \in Records, Longer(r), pc # "idle", r.step = step
      PROVE  /\ T' = Append(T, r) /\ Len(T') >= Place(step, 0)
             /\ BlocksIn(T', step) /\ OthersIn(T', step)
  <2>1. T' = Append(T, r)
    BY <1>4 DEF Longer, T
  <2>2. BlocksIn(T, step) /\ OthersIn(T, step) /\ Len(T) >= Place(step, 0)
    BY <1>1, <1>4
  <2>3. Len(T') = Len(T) + 1
    BY <1>0, <2>1
  <2>4. Len(T') >= Place(step, 0)
    BY <1>0, <2>2, <2>3
  <2>5. BlocksIn(T', step)
    BY <1>0, <2>1, <2>2, BlocksGrow
  <2>6. OthersIn(T', step)
    BY <1>0, <1>4, <2>1, <2>2, OthersGrow
  <2>7. QED
    BY <2>1, <2>4, <2>5, <2>6
\* A boundary that is recorded and left behind.
<1>5. ASSUME AtBoundary, NEW r \in Records, Longer(r), r.step = step,
             r.event \in {"state", "divergence", "emission"},
             r.kind = BoundaryKind,
             r.layer = IF pc \in {"attention", "layer_output"} THEN layer ELSE 0,
             pc' = Behind, layer' = NextLayer, step' = step
      PROVE  BoundaryInv'
  <2>1. pc \in InLoop /\ pc' \in InLoop /\ pc # "idle"
    BY <1>5, BehindIsInLoop DEF InLoop
  <2>2. /\ T' = Append(T, r) /\ Len(T') >= Place(step, 0)
        /\ BlocksIn(T', step) /\ OthersIn(T', step)
    BY <1>4, <1>5, <2>1
  <2>3. /\ Inspected \in Nat /\ Inspected' = Inspected + 1
        /\ <<r.kind, r.layer>> = Boundaries[Inspected + 1]
    BY <1>5, NextBoundary
  <2>4. Inspects(r, step, Inspected + 1)
    BY <1>5, <2>3 DEF Inspects
  <2>5. StepIn(T', step, Inspected + 1)
    BY <1>0, <1>1, <2>1, <2>2, <2>3, <2>4, StepGrows
  <2>6. QED
    BY <1>2, <1>5, <2>2, <2>3, <2>5
<1>6. CASE Opens
  <2>1. T' = <<SessionRecord("session_open", 0)>> /\ pc' = "loop" /\ step' = 0
    BY <1>6, OpensTrail DEF Opens, T
  <2>2. Len(T') = 1 /\ T'[1].event = "session_open"
    BY <2>1, SessionRecordIsRecord DEF Events
  <2>3. Place(0, 0) = 1 /\ Inspected' = 0
    BY <2>1, Places DEF Inspected
  <2>4. BlocksIn(T', 0)
    BY DEF BlocksIn
  <2>5. OthersIn(T', 0)
    BY <2>2 DEF OthersIn
  <2>6. StepIn(T', 0, 0)
    BY <2>2, <2>3 DEF StepIn
  <2>7. QED
    BY <1>2, <2>1, <2>2, <2>3, <2>4, <2>5, <2>6
<1>7. CASE Leaves
  <2>1. T' = T /\ pc' = "idle" /\ pc' \notin InLoop
    BY <1>3, <1>7, QuietTrail DEF Leaves, InLoop
  <2>2. CASE pc = "idle" /\ step' = 0
    <3>1. BlocksIn(T', 0)
      BY DEF BlocksIn
    <3>2. QED
      BY <1>2, <2>1, <2>2, <3>1
  <2>3. CASE pc # "idle" /\ step' = step
    BY <1>1, <1>2, <2>1, <2>3
  <2>4. QED
    BY <1>7, <2>2, <2>3 DEF Leaves, Frame
<1>8. CASE Computes
  <2>1. /\ T' = T /\ pc \in InLoop /\ pc' \in InLoop /\ step' = step
        /\ Inspected' = Inspected /\ pc # "idle"
    BY <1>3, <1>8, QuietTrail
       DEF Computes, Frame, Inspected, InLoop, PCs, Published
  <2>2. QED
    BY <1>1, <1>2, <2>1
<1>9. CASE Breaks \/ Handles \/ Returns
  <2>1. /\ T' = T /\ pc' \notin InLoop /\ step' = step /\ pc # "idle"
    BY <1>3, <1>9, QuietTrail DEF Breaks, Handles, Returns, Frame, InLoop
  <2>2. QED
    BY <1>1, <1>2, <2>1
<1>10. CASE Passes
  <2>1. PICK r \in Records :
           /\ Longer(r)
           /\ r.event \in {"state", "divergence", "emission"}
           /\ r.kind = BoundaryKind /\ r.step = step
           /\ r.layer = IF pc \in {"attention", "layer_output"}
                        THEN layer ELSE 0
    BY <1>10, PassesTrail
  <2>2. AtBoundary /\ pc' = Behind /\ layer' = NextLayer /\ step' = step
    BY <1>10 DEF Passes, Frame
  <2>3. QED
    BY <1>5, <2>1, <2>2
<1>11. CASE Diverges
  <2>1. PICK r \in Records :
           /\ Longer(r)
           /\ r.event \in {"state", "divergence", "emission"}
           /\ r.kind = BoundaryKind /\ r.step = step
           /\ r.layer = IF pc \in {"attention", "layer_output"}
                        THEN layer ELSE 0
    BY <1>11, DivergesTrail
  <2>2. AtBoundary /\ step' = step /\ pc # "idle"
    BY <1>11 DEF Diverges, Frame, AtBoundary, Published
  <2>3. CASE pc' = Behind /\ layer' = NextLayer
    BY <1>5, <2>1, <2>2, <2>3
  <2>4. CASE pc' = "except"
    <3>1. /\ Len(T') >= Place(step, 0)
          /\ BlocksIn(T', step) /\ OthersIn(T', step)
      BY <1>4, <2>1, <2>2
    <3>2. pc' \notin InLoop
      BY <2>4 DEF InLoop
    <3>3. QED
      BY <1>2, <2>2, <3>1, <3>2
  <2>5. QED
    BY <1>11, <2>3, <2>4 DEF Diverges
<1>12. CASE Commits
  <2>1. /\ T' = T /\ pc = "commit" /\ pc' = "loop" /\ step' = step + 1
        /\ pc \in InLoop /\ pc # "idle"
    BY <1>3, <1>12, QuietTrail DEF Commits, InLoop, PCs
  <2>2. Inspected = Len(Boundaries) /\ Inspected' = 0
    BY <2>1, BoundariesAre DEF Inspected
  <2>3. BlocksIn(T, step + 1) /\ OthersIn(T, step + 1) /\ StepIn(T, step + 1, 0)
    BY <1>0, <1>1, <2>1, <2>2, BlockCloses
  <2>4. Len(T) >= Place(step + 1, 0)
    BY <1>0, <2>3 DEF StepIn
  <2>5. QED
    BY <1>2, <2>1, <2>2, <2>3, <2>4
<1>13. CASE Closes
  <2>1. /\ Longer(SessionRecord("session_close", step))
        /\ pc # "idle" /\ pc' \notin InLoop /\ step' = step
    BY <1>13, ClosesTrail DEF Closes, Frame, InLoop
  <2>2. SessionRecord("session_close", step) \in Records
        /\ SessionRecord("session_close", step).step = step
    BY <1>0, SessionRecordIsRecord DEF Events
  <2>3. /\ Len(T') >= Place(step, 0)
        /\ BlocksIn(T', step) /\ OthersIn(T', step)
    BY <1>4, <2>1, <2>2
  <2>4. QED
    BY <1>2, <2>1, <2>3
<1>14. CASE Waits
  <2>1. T' = T /\ pc' = pc /\ step' = step /\ Inspected' = Inspected
    BY <1>3, <1>14, QuietTrail DEF Waits, Frame, Inspected
  <2>2. QED
    BY <1>1, <1>2, <2>1
<1>15. QED
  BY <1>6, <1>7, <1>8, <1>9, <1>10, <1>11, <1>12, <1>13, <1>14 DEF TrailStep

LEMMA BoundariesInspected ==
    TypeOK /\ StartInv /\ BoundaryInv => EveryBoundaryInspected
<1> SUFFICES ASSUME TypeOK, StartInv, BoundaryInv, audited, traced,
                    NEW k \in 0..(step - 1)
             PROVE  /\ \A i \in 1..Len(SessionTrail) :
                          /\ SessionTrail[i].event
                                \in {"state", "divergence", "emission"}
                          /\ SessionTrail[i].step = k
                          <=> i \in Place(k, 1)..Place(k, Len(Boundaries))
                    /\ \A b \in 1..Len(Boundaries) :
                          /\ Place(k, b) \in 1..Len(SessionTrail)
                          /\ <<SessionTrail[Place(k, b)].kind,
                               SessionTrail[Place(k, b)].layer>> = Boundaries[b]
  BY DEF EveryBoundaryInspected
<1> DEFINE T == SessionTrail
           m == Len(Boundaries)
<1>0. T \in Seq(Records) /\ Len(T) \in Nat /\ step \in Nat /\ k \in Nat
      /\ step > 0 /\ k # step /\ m \in Nat
  BY TrailFacts, BoundariesAre, EngineAssumption DEF TypeOK
<1>1. BlocksIn(T, step) /\ OthersIn(T, step)
  BY <1>0 DEF BoundaryInv
<1> HIDE DEF T, m
\* A place in the block of step j is one of its boundaries.
<1>2. ASSUME NEW j \in 0..(step - 1), NEW i \in Place(j, 1)..Place(j, m)
      PROVE  /\ T[i].event \in {"state", "divergence", "emission"}
             /\ T[i].step = j
  <2>1. j \in Nat /\ Place(j, 0) \in Nat
        /\ Place(j, 1) = Place(j, 0) + 1 /\ Place(j, m) = Place(j, 0) + m
    BY <1>0, Places
  <2>2. i - Place(j, 0) \in 1..m
    BY <1>0, <2>1
  <2>3. Place(j, i - Place(j, 0)) = Place(j, 0) + (i - Place(j, 0))
    <3>1. i - Place(j, 0) \in Nat
      BY <1>0, <2>2
    <3>2. QED
      BY <2>1, <3>1, Places
  <2>4. Place(j, i - Place(j, 0)) = i
    BY <2>1, <2>3
  <2>5. Inspects(T[i], j, i - Place(j, 0))
    BY <1>1, <2>2, <2>4 DEF BlocksIn, m
  <2>6. QED
    BY <2>5 DEF Inspects
<1>3. ASSUME NEW i \in 1..Len(T),
             T[i].event \in {"state", "divergence", "emission"}, T[i].step = k
      PROVE  i \in Place(k, 1)..Place(k, m)
  <2>1. PICK j \in 0..(step - 1) : i \in Place(j, 1)..Place(j, m)
    BY <1>0, <1>1, <1>3 DEF OthersIn, m
  <2>2. T[i].step = j
    BY <1>2, <2>1
  <2>3. QED
    BY <1>3, <2>1, <2>2
<1>4. ASSUME NEW b \in 1..m
      PROVE  /\ Place(k, b) \in 1..Len(T)
             /\ <<T[Place(k, b)].kind, T[Place(k, b)].layer>> = Boundaries[b]
  BY <1>1 DEF BlocksIn, Inspects, m
<1>5. \A i \in 1..Len(T) :
         /\ T[i].event \in {"state", "divergence", "emission"}
         /\ T[i].step = k
         <=> i \in Place(k, 1)..Place(k, m)
  BY <1>2, <1>3
<1>6. QED
  BY <1>4, <1>5 DEF T, m

\* With tracing on, for any number of layers and of steps: the trail has one
\* record for each boundary of each committed step, in the order forward and
\* gate_emission come to them, and no other record of that step.
THEOREM EveryBoundary == Spec => []EveryBoundaryInspected
<1>1. Init => BoundaryInv
  <2> SUFFICES ASSUME Init PROVE BoundaryInv
    OBVIOUS
  <2>1. pc = "idle" /\ step = 0 /\ pc \notin InLoop
    BY DEF Init, InLoop
  <2>2. BlocksIn(SessionTrail, 0)
    BY DEF BlocksIn
  <2>3. QED
    BY <2>1, <2>2 DEF BoundaryInv
<1>2. IInv => TypeOK /\ (pc = "embedding" => layer = 1)
  BY DEF IInv, StepInv, InStep
<1>3. IInv /\ StartInv /\ BoundaryInv /\ [Next]_vars => BoundaryInv'
  BY <1>2, TrailCases, BoundaryStep
<1>4. IInv /\ StartInv /\ BoundaryInv => EveryBoundaryInspected
  BY <1>2, BoundariesInspected
<1>5. QED
  BY Invariance, TrailInvariance, <1>1, <1>3, <1>4, PTL DEF Spec

=============================================================================
