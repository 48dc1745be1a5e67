----------------------------- MODULE VerifyLog -----------------------------
(***************************************************************************)
(* read_entries and verify_log of src/membrane/audit.py: the offline       *)
(* verifier that walks a file once, line by line, and stops at the first   *)
(* entry that does not continue the chain.                                 *)
(*                                                                         *)
(* The file is any of Files, compared with Written, the entries the writer *)
(* signed.  What a file may hold besides them is limited by one assumption *)
(* only: nobody but the writer has signed anything with the key.           *)
(***************************************************************************)
EXTENDS AuditChain, FiniteSets

CONSTANTS
    Key,            \* the key pair's identity
    Written,        \* the entries the writer wrote and signed
    Files,          \* the files the verifier may be given
    BLANK,          \* a line that is empty after strip()
    MALFORMED,      \* a line json.loads refuses
    SCALAR,         \* a line that is JSON and not an object
    INCOMPLETE,     \* an object that lacks one of the five fields
    Unencodable,    \* records json.loads accepts and canonical_json refuses
    NotText,        \* JSON values that are no string: a number, null, true
    NoHead          \* expected_head=None

NotEntries == {BLANK, MALFORMED, SCALAR, INCOMPLETE}

IsEntry(line) == line \notin NotEntries

ASSUME LinesAssumption == BLANK \notin {MALFORMED, SCALAR, INCOMPLETE}

\* The writer signs no record canonical_json refuses, and a signature of its is
\* a string of hexadecimal digits.
ASSUME WrittenAssumption ==
    /\ Written = [i \in 1..Len(Written) |-> Written[i]]
    /\ Len(Written) \in Nat
    /\ WellChained(Written, Key)
    /\ \A i \in 1..Len(Written) :
          /\ IsEntry(Written[i])
          /\ Written[i].record \notin Unencodable
          /\ Written[i].sig \notin NotText

\* An entry is the five fields verify_log looks at; what else the object has is
\* left out.
ASSUME FilesAssumption ==
    \A f \in Files :
        /\ Len(f) \in Nat
        /\ f = [i \in 1..Len(f) |-> f[i]]
        /\ \A i \in 1..Len(f) : IsEntry(f[i]) =>
              f[i] = [seq |-> f[i].seq, prev |-> f[i].prev, hash |-> f[i].hash,
                      sig |-> f[i].sig, record |-> f[i].record]

\* Unforgeability: a signature under Key covers a digest the writer signed.
ASSUME SignatureAssumption ==
    \A f \in Files : \A i \in 1..Len(f) :
        IsEntry(f[i]) /\ f[i].sig = sign(Key, f[i].hash)
            => \E j \in 1..Len(Written) : f[i].hash = Written[j].hash

ASSUME GenesisAssumption == NoHead # GENESIS_HASH

VARIABLES
    file,       \* the lines of the file
    expected,   \* the expected_head argument
    line,       \* lines read so far
    index,      \* entries read so far
    prev,       \* the digest the next entry has to link to
    count,      \* entries verified
    outcome     \* "reading", "ok", the failure reported, or the exception
vars == <<file, expected, line, index, prev, count, outcome>>

Failures   == {"missing", "seq", "prev", "hash", "sig", "head"}
Exceptions == {"ValueError", "AttributeError", "TypeError"}

Init ==
    /\ file \in Files
    /\ expected \in {NoHead, HeadOf(Written)}
    /\ line = 0
    /\ index = 0
    /\ prev = GENESIS_HASH
    /\ count = 0
    /\ outcome = "reading"

Reading(this) ==
    /\ outcome = "reading"
    /\ line < Len(file)
    /\ this = file[line + 1]

\* Mutant of ReadBlank: a blank line is numbered.
ReadBlank_numbered ==
    /\ Reading(BLANK)
    /\ line' = line + 1 /\ index' = index + 1
    /\ UNCHANGED <<file, expected, prev, count, outcome>>

\* read_entries skips a blank line without numbering it.
ReadBlank ==
    /\ Reading(BLANK)
    /\ line' = line + 1
    /\ UNCHANGED <<file, expected, index, prev, count, outcome>>

\* verify_log is left by an exception of read_entries or of a check.
Raises(exception) ==
    /\ outcome' = exception
    /\ line' = line + 1
    /\ UNCHANGED <<file, expected, index, prev, count>>

\* The two tests that place an entry in the chain.
Continues(e) == e.seq = index /\ e.prev = prev

\* The two that prove it was signed as it stands.
Recomputes(e) == e.hash = entry_hash(e.seq, e.prev, e.record)
Verifies(e)   == e.sig = sign(Key, e.hash)

\* What the checks cannot take: a link to be reported that is no string and
\* cannot be cut to its first digits, a record canonical_json refuses when the
\* hash is recomputed, a signature that is no string for bytes.fromhex.
CheckRaises(e, exception) ==
    \/ /\ e.seq = index /\ e.prev # prev /\ e.prev \in NotText
       /\ exception = "TypeError"
    \/ /\ Continues(e)
       /\ \/ e.record \in Unencodable /\ exception = "ValueError"
          \/ /\ e.record \notin Unencodable /\ Recomputes(e)
             /\ e.sig \in NotText /\ exception = "TypeError"

\* A line that is not JSON, one that is not an object and has no keys(), and
\* an entry a check raises over.
ReadUnreadable ==
    \/ Reading(MALFORMED) /\ Raises("ValueError")
    \/ Reading(SCALAR) /\ Raises("AttributeError")
    \/ \E e \in {file[i] : i \in 1..Len(file)} \ NotEntries,
          exception \in Exceptions :
          Reading(e) /\ CheckRaises(e, exception) /\ Raises(exception)

\* Mutant of Fails: the links are compared before the numbers.
Fails_swapped(e, reason) ==
    \/ e = INCOMPLETE /\ reason = "missing"
    \/ /\ IsEntry(e)
       /\ \/ e.prev # prev /\ e.prev \notin NotText /\ reason = "prev"
          \/ e.prev = prev /\ e.seq # index /\ reason = "seq"
          \/ /\ Continues(e) /\ e.record \notin Unencodable
             /\ \/ ~Recomputes(e) /\ reason = "hash"
                \/ /\ Recomputes(e) /\ e.sig \notin NotText
                   /\ ~Verifies(e) /\ reason = "sig"

\* The loop body breaks at its first failing check.
Fails(e, reason) ==
    \/ e = INCOMPLETE /\ reason = "missing"
    \/ /\ IsEntry(e)
       /\ \/ e.seq # index /\ reason = "seq"
          \/ /\ e.seq = index /\ e.prev # prev /\ e.prev \notin NotText
             /\ reason = "prev"
          \/ /\ Continues(e) /\ e.record \notin Unencodable
             /\ \/ ~Recomputes(e) /\ reason = "hash"
                \/ /\ Recomputes(e) /\ e.sig \notin NotText
                   /\ ~Verifies(e) /\ reason = "sig"

ReadRejected == \E e \in {file[i] : i \in 1..Len(file)}, reason \in Failures :
    /\ Reading(e)
    /\ Fails(e, reason)
    /\ outcome' = reason
    /\ line' = line + 1
    /\ UNCHANGED <<file, expected, index, prev, count>>

\* Mutant of ReadAccepted: the links are not compared.
ReadAccepted_unlinked == \E e \in {file[i] : i \in 1..Len(file)} \ NotEntries :
    /\ Reading(e)
    /\ Recomputes(e) /\ Verifies(e)
    /\ line' = line + 1 /\ index' = index + 1 /\ count' = count + 1
    /\ prev' = e.hash
    /\ UNCHANGED <<file, expected, outcome>>

ReadAccepted == \E e \in {file[i] : i \in 1..Len(file)} \ NotEntries :
    /\ Reading(e)
    /\ e.record \notin Unencodable
    /\ Continues(e)
    /\ Recomputes(e)
    /\ Verifies(e)
    /\ line' = line + 1
    /\ index' = index + 1
    /\ count' = count + 1
    /\ prev' = e.hash
    /\ UNCHANGED <<file, expected, outcome>>

\* Mutant of EndOfFile: expected_head is not compared.
EndOfFile_headless ==
    /\ outcome = "reading"
    /\ line = Len(file)
    /\ outcome' = "ok"
    /\ UNCHANGED <<file, expected, line, index, prev, count>>

EndOfFile ==
    /\ outcome = "reading"
    /\ line = Len(file)
    /\ outcome' = IF expected # NoHead /\ prev # expected THEN "head" ELSE "ok"
    /\ UNCHANGED <<file, expected, line, index, prev, count>>

Next ==
    \/ ReadBlank \/ ReadUnreadable \/ ReadRejected \/ ReadAccepted
    \/ EndOfFile

Spec == Init /\ [][Next]_vars

-----------------------------------------------------------------------------
\* The number of the entry at line i: read_entries skips the blank lines.
NumberOf(f, i) == Cardinality({j \in 1..i : f[j] # BLANK})

\* The entries in the first n lines of a file are the first the writer wrote.
WritersUpTo(f, n) ==
    \A i \in 1..n : f[i] # BLANK =>
        NumberOf(f, i) <= Len(Written) /\ f[i] = Written[NumberOf(f, i)]

\* What verify_log accepts was written by the writer, in that order and from
\* the first entry on: no edit, reorder, insertion or deletion before the last
\* entry passes, and with the head at hand no truncation either.
AcceptedIsWritten ==
    outcome = "ok" =>
        /\ WritersUpTo(file, Len(file))
        /\ count = NumberOf(file, Len(file))
        /\ expected # NoHead => count = Len(Written)

\* The lines whose entries passed: all that were read but the one that failed.
Passed == IF outcome \in {"reading", "ok", "head"} THEN line ELSE line - 1

\* What an entry has to be to follow the writer's first n, check by check in
\* the order verify_log makes them.
Checks == <<"missing", "seq", "prev", "hash", "sig">>

Follows(check, e, n) ==
    CASE check = "missing" -> IsEntry(e)
      [] check = "seq"     -> e.seq = n
      [] check = "prev"    -> e.prev = PrevOf(Written, n + 1)
      [] check = "hash"    -> e.hash = entry_hash(e.seq, e.prev, e.record)
      [] check = "sig"     -> e.sig = sign(Key, e.hash)

\* The first of the checks that tells e from an entry behind the writer's n.
FirstToTell(check, e, n) ==
    \E k \in 1..Len(Checks) :
        /\ Checks[k] = check
        /\ \A j \in 1..(k - 1) : Follows(Checks[j], e, n)
        /\ ~Follows(check, e, n)

\* verify_log stops at the first entry that is not the writer's next: every
\* entry counted as verified is the writer's, the one it stopped at, by a report
\* or an exception, is not, and what it reports there is the first check that
\* tells.
FirstFailureIsReported ==
    /\ WritersUpTo(file, Passed) /\ NumberOf(file, Passed) = count
    /\ outcome \notin {"reading", "ok", "head"} => ~WritersUpTo(file, line)
    /\ outcome \in Failures \ {"head"} =>
          FirstToTell(outcome, file[line], count)

\* The writer's own log, whole or cut short, is accepted: verify_log raises no
\* alarm over blank lines, and over a truncated log only when it has the head.
UntouchedIsAccepted ==
    WritersUpTo(file, Len(file)) =>
        \/ outcome \in {"reading", "ok"}
        \/ /\ outcome = "head" /\ expected # NoHead
           /\ NumberOf(file, Len(file)) < Len(Written)
=============================================================================
