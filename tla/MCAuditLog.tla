---------------------------- MODULE MCAuditLog ----------------------------
(***************************************************************************)
(* Instances of AuditLog for TLC: one producer (the engine's thread, which *)
(* is how the repository uses the log) or two that share the log.          *)
(***************************************************************************)
EXTENDS AuditLog, TLC

CONSTANTS p1, p2, good, bad

OneProducer == {p1}
TwoProducers == {p1, p2}
NoOne == {}
GoodAndBad == {good, bad}
OnlyBad == {bad}
NoRecord == {}
AllFaults == {"open", "write", "fsync"}
LineFaults == {"write", "fsync"}
OpenFault == {"open"}
NoFaults == {}

ProducerSymmetry == Permutations(TwoProducers)
=============================================================================
