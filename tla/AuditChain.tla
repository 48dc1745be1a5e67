---------------------------- MODULE AuditChain ----------------------------
(***************************************************************************)
(* The hash chain of src/membrane/audit.py: what a line of the log holds   *)
(* and when a sequence of lines is one unbroken signed chain.              *)
(*                                                                         *)
(* SHA-256 is modelled as collision free: the digest of a triple is the    *)
(* triple.  Ed25519 is modelled as unforgeable: a signature is the pair of *)
(* the key that made it and the digest it covers.                          *)
(***************************************************************************)
EXTENDS Integers, Sequences

GENESIS_HASH == <<>>

entry_hash(seq, prev, record) == <<seq, prev, record>>

sign(key, digest) == <<key, digest>>

\* The line _write_one builds for a record when the writer's counters are
\* seq and prev.
Entry(key, seq, prev, record) ==
    LET digest == entry_hash(seq, prev, record)
    IN  [seq |-> seq, prev |-> prev, hash |-> digest,
         sig |-> sign(key, digest), record |-> record]

\* The digest the next entry has to link to.
HeadOf(entries) ==
    IF entries = <<>> THEN GENESIS_HASH ELSE entries[Len(entries)].hash

\* The digest entry i has to link to (entries are counted from 1 here).
PrevOf(entries, i) ==
    IF i = 1 THEN GENESIS_HASH ELSE entries[i - 1].hash

\* Every entry is numbered by its place, linked to the one before it, hashed
\* over its own record and signed with the key.
WellChained(entries, key) ==
    \A i \in 1..Len(entries) :
        entries[i] = Entry(key, i - 1, PrevOf(entries, i), entries[i].record)

RecordsOf(entries) == [i \in 1..Len(entries) |-> entries[i].record]
=============================================================================
