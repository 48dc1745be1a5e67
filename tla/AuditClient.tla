---------------------------- MODULE AuditClient ----------------------------
(***************************************************************************)
(* What an AuditLog (src/membrane/audit.py) promises the threads that call *)
(* it, in a process that is not killed: records are accepted in one order, *)
(* a flush that returns vouches for all that was accepted before it began, *)
(* and an error the writer meets is kept: no flush returns after it.       *)
(*                                                                         *)
(* AuditLog.tla implements this specification; Engine.tla is built on it.  *)
(***************************************************************************)
EXTENDS Integers, Sequences

CONSTANTS
    Records,        \* what append is called with
    Unencodable,    \* those canonical_json refuses
    IOFaults        \* whether the writer may fail on any other

VARIABLES
    accepted,       \* the records append has put on the queue
    failed,         \* _error is set
    acked           \* the most records a returning flush has covered

clientVars == <<accepted, failed, acked>>

Init == accepted = <<>> /\ failed = FALSE /\ acked = 0

\* append goes through.  The writer may have failed since append looked.
Accept(record) ==
    /\ accepted' = Append(accepted, record)
    /\ UNCHANGED <<failed, acked>>

\* The writer meets its first error.
Fail == ~failed /\ failed' = TRUE /\ UNCHANGED <<accepted, acked>>

\* It is met on a record no flush has covered: one canonical_json refuses,
Refuse ==
    /\ \E i \in (acked + 1)..Len(accepted) : accepted[i] \in Unencodable
    /\ Fail

\* or any, if the writer's I/O fails.
Break == IOFaults /\ acked < Len(accepted) /\ Fail

\* A flush returns and vouches for the first n records.
Acknowledge(n) ==
    /\ ~failed
    /\ \A i \in 1..n : accepted[i] \notin Unencodable
    /\ acked' = n
    /\ UNCHANGED <<accepted, failed>>

Next ==
    \/ \E record \in Records : Accept(record)
    \/ Refuse \/ Break
    \/ \E n \in (acked + 1)..Len(accepted) : Acknowledge(n)

Spec == Init /\ [][Next]_clientVars
=============================================================================
