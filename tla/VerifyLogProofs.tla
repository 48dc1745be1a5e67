-------------------------- MODULE VerifyLogProofs --------------------------
(***************************************************************************)
(* Theorems about VerifyLog.tla, for any log the writer wrote and any file *)
(* whatever somebody made of it, of any length.  They rest on what         *)
(* VerifyLog assumes: digests do not collide, and nobody but the writer    *)
(* has signed anything with the key.                                       *)
(***************************************************************************)
EXTENDS VerifyLog, SeqFacts

-----------------------------------------------------------------------------
\* What the writer wrote.

\* The digest behind the first n entries.
DigestAt(n) == IF n = 0 THEN GENESIS_HASH ELSE Written[n].hash

LEMMA WrittenEntry ==
    ASSUME NEW i \in 1..Len(Written)
    PROVE  /\ IsEntry(Written[i])
           /\ Written[i].seq = i - 1
           /\ Written[i].prev = DigestAt(i - 1)
           /\ Written[i].hash = entry_hash(i - 1, DigestAt(i - 1), Written[i].record)
           /\ Written[i].sig = sign(Key, Written[i].hash)
           /\ Written[i].record \notin Unencodable
           /\ Written[i].sig \notin NotText
           /\ Written[i] = Entry(Key, i - 1, DigestAt(i - 1), Written[i].record)
<1>0. Len(Written) \in Nat /\ i \in Nat /\ i >= 1
  BY WrittenAssumption
<1>1. Written[i] = Entry(Key, i - 1, PrevOf(Written, i), Written[i].record)
  BY WrittenAssumption DEF WellChained
<1>2. PrevOf(Written, i) = DigestAt(i - 1)
  BY <1>0 DEF PrevOf, DigestAt
<1>3. Written[i] = Entry(Key, i - 1, DigestAt(i - 1), Written[i].record)
  BY <1>1, <1>2
<1>4. /\ IsEntry(Written[i]) /\ Written[i].record \notin Unencodable
      /\ Written[i].sig \notin NotText
  BY WrittenAssumption
<1>5. \A q, p, r : LET e == Entry(Key, q, p, r)
                   IN  /\ e.seq = q /\ e.prev = p /\ e.hash = entry_hash(q, p, r)
                       /\ e.sig = sign(Key, e.hash)
  BY DEF Entry
<1>6. QED
  BY <1>3, <1>4, <1>5

\* Its last digest, and that only the whole log has it.
LEMMA HeadDigest ==
    /\ HeadOf(Written) = DigestAt(Len(Written))
    /\ \A n \in 0..Len(Written) :
          DigestAt(n) = DigestAt(Len(Written)) => n = Len(Written)
<1>0. Len(Written) \in Nat
  BY WrittenAssumption
<1>1. HeadOf(Written) = DigestAt(Len(Written))
  <2>1. CASE Len(Written) = 0
    <3>1. Written = [i \in 1..0 |-> Written[i]]
      BY <2>1, WrittenAssumption
    <3>2. Written = <<>>
      BY <3>1
    <3>3. QED
      BY <2>1, <3>2 DEF HeadOf, DigestAt
  <2>2. CASE Len(Written) # 0
    <3>1. Written # <<>>
      BY <2>2
    <3>2. QED
      BY <2>2, <3>1 DEF HeadOf, DigestAt
  <2>3. QED
    BY <2>1, <2>2
<1>2. ASSUME NEW n \in 0..Len(Written), DigestAt(n) = DigestAt(Len(Written))
      PROVE  n = Len(Written)
  <2>1. CASE n = 0
    <3>1. ASSUME Len(Written) # 0 PROVE FALSE
      <4>1. Len(Written) \in 1..Len(Written)
        BY <1>0, <3>1
      <4>2. PICK a, b, c : Written[Len(Written)].hash = <<a, b, c>>
        BY <4>1, WrittenEntry DEF entry_hash
      <4>3. <<>> = <<a, b, c>>
        BY <1>2, <2>1, <3>1, <4>2 DEF DigestAt, GENESIS_HASH
      <4>4. QED
        BY <4>3
    <3>2. QED
      BY <2>1, <3>1
  <2>2. CASE n # 0
    <3>1. n \in 1..Len(Written) /\ Len(Written) \in 1..Len(Written)
          /\ Len(Written) # 0
      BY <1>0, <2>2
    <3>2. Written[n].hash = Written[Len(Written)].hash
      BY <1>2, <2>2, <3>1 DEF DigestAt
    <3>3. entry_hash(n - 1, DigestAt(n - 1), Written[n].record)
            = entry_hash(Len(Written) - 1, DigestAt(Len(Written) - 1),
                         Written[Len(Written)].record)
      BY <3>1, <3>2, WrittenEntry
    <3>4. n - 1 = Len(Written) - 1
      BY <3>3 DEF entry_hash
    <3>5. QED
      BY <1>0, <3>1, <3>4
  <2>3. QED
    BY <2>1, <2>2
<1>3. QED
  BY <1>1, <1>2

-----------------------------------------------------------------------------
\* The numbers of the entries of a file.

EntryLines(f) == {j \in Nat : f[j] # BLANK}

LEMMA NumberIsCount ==
    ASSUME NEW f, NEW n \in Nat
    PROVE  NumberOf(f, n) = CountUpTo(EntryLines(f), n)
<1>1. {j \in 1..n : f[j] # BLANK} = EntryLines(f) \cap (1..n)
  BY DEF EntryLines
<1>2. QED
  BY <1>1 DEF NumberOf, CountUpTo

LEMMA NumberNext ==
    ASSUME NEW f, NEW n \in Nat
    PROVE  /\ NumberOf(f, n) \in Nat
           /\ NumberOf(f, n + 1) =
                 NumberOf(f, n) + (IF f[n + 1] # BLANK THEN 1 ELSE 0)
<1>1. CountUpTo(EntryLines(f), n) \in Nat
  BY CountIsNat
<1>2. CountUpTo(EntryLines(f), n + 1) = CountUpTo(EntryLines(f), n)
        + (IF n + 1 \in EntryLines(f) THEN 1 ELSE 0)
  BY CountNext
<1>3. n + 1 \in Nat /\ (n + 1 \in EntryLines(f) <=> f[n + 1] # BLANK)
  BY DEF EntryLines
<1>4. QED
  BY <1>1, <1>2, <1>3, NumberIsCount

LEMMA NumberZero == ASSUME NEW f PROVE NumberOf(f, 0) = 0
<1>1. 0 \in Nat /\ CountUpTo(EntryLines(f), 0) = 0
  BY CountIsNat
<1>2. QED
  BY <1>1, NumberIsCount

\* One more line holds what the writer wrote if it is blank or the next entry.
LEMMA WritersNext ==
    ASSUME NEW f, NEW n \in Nat
    PROVE  WritersUpTo(f, n + 1) <=>
               /\ WritersUpTo(f, n)
               /\ f[n + 1] # BLANK =>
                     /\ NumberOf(f, n) + 1 <= Len(Written)
                     /\ f[n + 1] = Written[NumberOf(f, n) + 1]
<1>1. \A i \in 1..(n + 1) : i \in 1..n \/ i = n + 1
  OBVIOUS
<1>2. n + 1 \in 1..(n + 1) /\ \A i \in 1..n : i \in 1..(n + 1)
  OBVIOUS
<1>3. f[n + 1] # BLANK => NumberOf(f, n + 1) = NumberOf(f, n) + 1
  BY NumberNext
<1>4. QED
  BY <1>1, <1>2, <1>3 DEF WritersUpTo

LEMMA WritersLess ==
    ASSUME NEW f, NEW n \in Nat, NEW m \in 0..n, WritersUpTo(f, n)
    PROVE  WritersUpTo(f, m)
  BY DEF WritersUpTo

-----------------------------------------------------------------------------
\* The checks in their order: the first that is not passed is the one to tell.
LEMMA InOrder ==
    ASSUME NEW e, NEW n
    PROVE  /\ ~Follows("missing", e, n) => FirstToTell("missing", e, n)
           /\ Follows("missing", e, n) =>
              /\ ~Follows("seq", e, n) => FirstToTell("seq", e, n)
              /\ Follows("seq", e, n) =>
                 /\ ~Follows("prev", e, n) => FirstToTell("prev", e, n)
                 /\ Follows("prev", e, n) =>
                    /\ ~Follows("hash", e, n) => FirstToTell("hash", e, n)
                    /\ Follows("hash", e, n) /\ ~Follows("sig", e, n) =>
                       FirstToTell("sig", e, n)
<1>1. /\ Len(Checks) = 5 /\ Checks[1] = "missing" /\ Checks[2] = "seq"
      /\ Checks[3] = "prev" /\ Checks[4] = "hash" /\ Checks[5] = "sig"
  BY DEF Checks
<1>2. /\ 1..(1 - 1) = {} /\ 1..(2 - 1) = {1} /\ 1..(3 - 1) = {1, 2}
      /\ 1..(4 - 1) = {1, 2, 3} /\ 1..(5 - 1) = {1, 2, 3, 4}
      /\ 1..5 = {1, 2, 3, 4, 5}
  OBVIOUS
<1>3. ASSUME NEW k \in {1, 2, 3, 4, 5}, ~Follows(Checks[k], e, n),
             \A j \in 1..(k - 1) : Follows(Checks[j], e, n)
      PROVE  FirstToTell(Checks[k], e, n)
  BY <1>1, <1>2, <1>3 DEF FirstToTell
<1>4. QED
  BY <1>1, <1>2, <1>3

\* An entry the loop breaks at has passed the checks before, where the digest
\* and the number it is compared with are those behind the writer's first n.
LEMMA FailsInOrder ==
    ASSUME NEW e, NEW reason, NEW n \in Nat,
           index = n, prev = DigestAt(n), Fails(e, reason)
    PROVE  FirstToTell(reason, e, n)
<1>1. PrevOf(Written, n + 1) = prev
  BY DEF PrevOf, DigestAt
<1>2. /\ Follows("missing", e, n) <=> IsEntry(e)
      /\ Follows("seq", e, n) <=> e.seq = index
      /\ Follows("prev", e, n) <=> e.prev = prev
      /\ Follows("hash", e, n) <=> Recomputes(e)
      /\ Follows("sig", e, n) <=> Verifies(e)
  BY <1>1 DEF Follows, Recomputes, Verifies
<1>3. e = INCOMPLETE => ~IsEntry(e)
  BY DEF IsEntry, NotEntries
<1>4. QED
  BY <1>2, <1>3, InOrder DEF Fails, Continues

-----------------------------------------------------------------------------
\* The inductive invariant: the verifier stands behind the writer's first count
\* entries, with the digest the next one has to link to, and has stopped only at
\* a line that is not the writer's next, or at the end.
ReadInv ==
    /\ file \in Files
    /\ expected \in {NoHead, HeadOf(Written)}
    /\ line \in 0..Len(file)
    /\ count \in 0..Len(Written) /\ index = count
    /\ prev = DigestAt(count)
    /\ outcome \in {"reading", "ok", "head"} \/ line >= 1
    /\ WritersUpTo(file, Passed) /\ NumberOf(file, Passed) = count
    /\ outcome \in {"ok", "head"} => line = Len(file)
    /\ outcome = "ok" /\ expected # NoHead => prev = expected
    /\ outcome = "head" => expected # NoHead /\ prev # expected
    /\ outcome \notin {"reading", "ok", "head"} => ~WritersUpTo(file, line)
    /\ outcome \in Failures \ {"head"} => FirstToTell(outcome, file[line], count)

LEMMA ReadInit == Init => ReadInv
<1> SUFFICES ASSUME Init PROVE ReadInv
  OBVIOUS
<1>1. /\ file \in Files /\ expected \in {NoHead, HeadOf(Written)}
      /\ line = 0 /\ index = 0 /\ prev = GENESIS_HASH /\ count = 0
      /\ outcome = "reading"
  BY DEF Init
<1>2. Len(file) \in Nat /\ Len(Written) \in Nat
  BY <1>1, FilesAssumption, WrittenAssumption
<1>3. WritersUpTo(file, 0)
  BY DEF WritersUpTo
<1>4. NumberOf(file, 0) = 0 /\ Passed = 0
  BY <1>1, NumberZero DEF Passed
<1>5. QED
  BY <1>1, <1>2, <1>3, <1>4 DEF ReadInv, DigestAt, Failures

\* The line that is read next, and when it is the writer's.
LEMMA NextLine ==
    ASSUME ReadInv, NEW this, Reading(this)
    PROVE  /\ line \in Nat /\ line + 1 \in 1..Len(file) /\ this = file[line + 1]
           /\ Passed = line /\ count \in Nat
           /\ NumberOf(file, line) = count
           /\ WritersUpTo(file, line + 1) <=>
                 (this # BLANK => count + 1 <= Len(Written)
                                  /\ this = Written[count + 1])
           /\ NumberOf(file, line + 1) = IF this = BLANK THEN count ELSE count + 1
<1>1. /\ outcome = "reading" /\ line < Len(file) /\ this = file[line + 1]
      /\ file \in Files /\ line \in 0..Len(file) /\ count \in 0..Len(Written)
  BY DEF Reading, ReadInv
<1>2. Len(file) \in Nat /\ Len(Written) \in Nat
  BY <1>1, FilesAssumption, WrittenAssumption
<1>3. line \in Nat /\ line + 1 \in 1..Len(file) /\ count \in Nat
  BY <1>1, <1>2
<1>4. Passed = line /\ WritersUpTo(file, line) /\ NumberOf(file, line) = count
  BY <1>1 DEF Passed, ReadInv
<1>5. WritersUpTo(file, line + 1) <=>
         (this # BLANK => count + 1 <= Len(Written) /\ this = Written[count + 1])
  BY <1>1, <1>3, <1>4, WritersNext
<1>6. NumberOf(file, line + 1) = IF this = BLANK THEN count ELSE count + 1
  <2>1. NumberOf(file, line + 1) = count + (IF this # BLANK THEN 1 ELSE 0)
    BY <1>1, <1>3, <1>4, NumberNext
  <2>2. QED
    BY <1>3, <2>1
<1>7. QED
  BY <1>1, <1>3, <1>4, <1>5, <1>6

\* The writer's next entry passes every check.
LEMMA NextPasses ==
    ASSUME ReadInv, count + 1 <= Len(Written)
    PROVE  LET e == Written[count + 1]
           IN  /\ IsEntry(e) /\ Continues(e) /\ e.record \notin Unencodable
               /\ Recomputes(e) /\ Verifies(e) /\ e.sig \notin NotText
<1>1. /\ count + 1 \in 1..Len(Written) /\ (count + 1) - 1 = count
      /\ prev = DigestAt(count) /\ index = count
  BY WrittenAssumption DEF ReadInv
<1>2. QED
  BY <1>1, WrittenEntry DEF Continues, Recomputes, Verifies

\* And nothing else does: what continues the chain and is signed is that entry.
LEMMA OnlyNextPasses ==
    ASSUME ReadInv, NEW i \in 1..Len(file), IsEntry(file[i]), Continues(file[i]),
           Recomputes(file[i]), Verifies(file[i])
    PROVE  count + 1 <= Len(Written) /\ file[i] = Written[count + 1]
<1> DEFINE e == file[i]
<1>1. /\ file \in Files /\ index = count /\ prev = DigestAt(count)
      /\ count \in 0..Len(Written)
  BY DEF ReadInv
<1>2. /\ e.seq = count /\ e.prev = DigestAt(count)
      /\ e.hash = entry_hash(e.seq, e.prev, e.record)
      /\ e.sig = sign(Key, e.hash)
  BY <1>1 DEF Continues, Recomputes, Verifies
<1>3. e = [seq |-> e.seq, prev |-> e.prev, hash |-> e.hash, sig |-> e.sig,
           record |-> e.record]
  BY <1>1, FilesAssumption
<1>4. PICK j \in 1..Len(Written) : e.hash = Written[j].hash
  BY <1>1, <1>2, SignatureAssumption
<1>5. entry_hash(e.seq, e.prev, e.record)
        = entry_hash(j - 1, DigestAt(j - 1), Written[j].record)
  BY <1>2, <1>4, WrittenEntry
<1>6. e.seq = j - 1 /\ e.record = Written[j].record
  BY <1>5 DEF entry_hash
<1>7. j = count + 1 /\ count + 1 <= Len(Written) /\ j - 1 = count
  BY <1>1, <1>2, <1>6, WrittenAssumption
<1>8. Written[j] = Entry(Key, count, DigestAt(count), Written[j].record)
  BY <1>7, WrittenEntry
<1>9. e = Entry(Key, count, DigestAt(count), e.record)
  BY <1>2, <1>3 DEF Entry
<1>10. QED
  BY <1>6, <1>7, <1>8, <1>9

\* A line that stops the verifier is not what the writer wrote next.
LEMMA StoppingLine ==
    ASSUME ReadInv, NEW this, Reading(this), this # BLANK,
           ~WritersUpTo(file, line + 1), line' = line + 1,
           UNCHANGED <<file, expected, index, prev, count>>,
           outcome' \in (Failures \ {"head"}) \cup Exceptions,
           outcome' \in Failures => FirstToTell(outcome', this, count)
    PROVE  ReadInv'
<1>1. /\ line \in Nat /\ line + 1 \in 1..Len(file) /\ Passed = line
      /\ this = file[line + 1]
  BY NextLine
<1>2. /\ file \in Files /\ expected \in {NoHead, HeadOf(Written)}
      /\ count \in 0..Len(Written) /\ index = count /\ prev = DigestAt(count)
      /\ WritersUpTo(file, line) /\ NumberOf(file, line) = count
  BY <1>1 DEF ReadInv
<1>3. outcome' \notin {"reading", "ok", "head"}
  BY DEF Failures, Exceptions
<1>4. Passed' = line /\ line' \in 0..Len(file) /\ line' >= 1
  <2>1. Passed' = (line + 1) - 1
    BY <1>3 DEF Passed
  <2>2. (line + 1) - 1 = line /\ line + 1 \in 0..Len(file) /\ line + 1 >= 1
    BY <1>1
  <2>3. QED
    BY <2>1, <2>2
<1>5. QED
  BY <1>1, <1>2, <1>3, <1>4 DEF ReadInv

\* One that passes is.
LEMMA PassingLine ==
    ASSUME ReadInv, NEW this, Reading(this), WritersUpTo(file, line + 1),
           line' = line + 1, UNCHANGED <<file, expected, outcome>>,
           index' = count', prev' = DigestAt(count'), count' \in 0..Len(Written),
           count' = IF this = BLANK THEN count ELSE count + 1
    PROVE  ReadInv'
<1>1. /\ line \in Nat /\ line + 1 \in 1..Len(file)
      /\ NumberOf(file, line + 1) = IF this = BLANK THEN count ELSE count + 1
      /\ line + 1 \in 0..Len(file)
  BY NextLine
<1>2. outcome = "reading" /\ file \in Files
      /\ expected \in {NoHead, HeadOf(Written)}
  BY DEF Reading, ReadInv
<1>3. Passed' = line + 1
  BY <1>2 DEF Passed
<1>4. QED
  BY <1>1, <1>2, <1>3 DEF ReadInv, Failures

LEMMA ReadStep == ReadInv /\ [Next]_vars => ReadInv'
<1> SUFFICES ASSUME ReadInv, [Next]_vars PROVE ReadInv'
  OBVIOUS
<1>0. /\ file \in Files /\ Len(Written) \in Nat /\ Len(file) \in Nat
      /\ count \in 0..Len(Written) /\ index = count /\ prev = DigestAt(count)
  BY WrittenAssumption, FilesAssumption DEF ReadInv
<1>1. CASE ReadBlank
  <2>1. /\ Reading(BLANK) /\ line' = line + 1
        /\ UNCHANGED <<file, expected, index, prev, count, outcome>>
    BY <1>1 DEF ReadBlank
  <2>2. WritersUpTo(file, line + 1)
    BY <2>1, NextLine
  <2>3. QED
    BY <1>0, <2>1, <2>2, PassingLine
<1>2. CASE ReadUnreadable
  <2>1. CASE \E s \in {MALFORMED, SCALAR}, x \in Exceptions : Reading(s) /\ Raises(x)
    <3>1. PICK s \in {MALFORMED, SCALAR}, x \in Exceptions : Reading(s) /\ Raises(x)
      BY <2>1
    <3>2. s # BLANK /\ ~IsEntry(s)
      BY LinesAssumption DEF IsEntry, NotEntries
    <3>3. ~WritersUpTo(file, line + 1)
      BY <3>1, <3>2, NextLine, NextPasses
    <3>4. QED
      BY <3>1, <3>2, <3>3, StoppingLine DEF Raises, Exceptions, Failures
  <2>2. CASE \E e \in {file[i] : i \in 1..Len(file)} \ NotEntries,
               x \in Exceptions : Reading(e) /\ CheckRaises(e, x) /\ Raises(x)
    <3>1. PICK e \in {file[i] : i \in 1..Len(file)} \ NotEntries, x \in Exceptions :
             Reading(e) /\ CheckRaises(e, x) /\ Raises(x)
      BY <2>2
    <3>2. e # BLANK
      BY DEF NotEntries
    <3>3. ~WritersUpTo(file, line + 1)
      <4> SUFFICES ASSUME WritersUpTo(file, line + 1) PROVE FALSE
        OBVIOUS
      <4>1. count + 1 <= Len(Written) /\ e = Written[count + 1]
        BY <3>1, <3>2, NextLine
      <4>2. /\ Continues(e) /\ e.record \notin Unencodable
            /\ e.sig \notin NotText
        BY <4>1, NextPasses
      <4>3. QED
        BY <3>1, <4>2 DEF CheckRaises, Continues
    <3>4. QED
      BY <3>1, <3>2, <3>3, StoppingLine DEF Raises, Exceptions, Failures
  <2>3. "ValueError" \in Exceptions /\ "AttributeError" \in Exceptions
    BY DEF Exceptions
  <2>4. QED
    BY <1>2, <2>1, <2>2, <2>3 DEF ReadUnreadable
<1>3. CASE ReadRejected
  <2>1. PICK e \in {file[i] : i \in 1..Len(file)}, reason \in Failures :
           /\ Reading(e) /\ Fails(e, reason) /\ outcome' = reason
           /\ line' = line + 1
           /\ UNCHANGED <<file, expected, index, prev, count>>
    BY <1>3 DEF ReadRejected
  <2>2. reason # "head" /\ e # BLANK
    BY <2>1, LinesAssumption DEF Fails, IsEntry, NotEntries
  <2>3. ~WritersUpTo(file, line + 1)
    <3> SUFFICES ASSUME WritersUpTo(file, line + 1) PROVE FALSE
      OBVIOUS
    <3>1. count + 1 <= Len(Written) /\ e = Written[count + 1]
      BY <2>1, <2>2, NextLine
    <3>2. /\ IsEntry(e) /\ Continues(e) /\ e.record \notin Unencodable
          /\ Recomputes(e) /\ Verifies(e)
      BY <3>1, NextPasses
    <3>3. QED
      BY <2>1, <3>2 DEF Fails, Continues, IsEntry, NotEntries
  <2>4. FirstToTell(reason, e, count)
    <3>1. count \in Nat
      BY <1>0
    <3>2. QED
      BY <1>0, <2>1, <3>1, FailsInOrder
  <2>5. QED
    BY <2>1, <2>2, <2>3, <2>4, StoppingLine
<1>4. CASE ReadAccepted
  <2>1. PICK e \in {file[i] : i \in 1..Len(file)} \ NotEntries :
           /\ Reading(e) /\ Continues(e) /\ Recomputes(e) /\ Verifies(e)
           /\ line' = line + 1 /\ index' = index + 1 /\ count' = count + 1
           /\ prev' = e.hash
           /\ UNCHANGED <<file, expected, outcome>>
    BY <1>4 DEF ReadAccepted
  <2>2. e # BLANK /\ IsEntry(e)
    BY DEF IsEntry, NotEntries
  <2>3. line + 1 \in 1..Len(file) /\ e = file[line + 1] /\ count \in Nat
    BY <2>1, NextLine
  <2>4. count + 1 <= Len(Written) /\ e = Written[count + 1]
    BY <2>1, <2>2, <2>3, OnlyNextPasses
  <2>5. WritersUpTo(file, line + 1)
    BY <2>1, <2>4, NextLine
  <2>6. /\ count' \in 0..Len(Written) /\ index' = count'
        /\ prev' = DigestAt(count')
    <3>1. count + 1 \in 0..Len(Written) /\ count + 1 # 0
      BY <1>0, <2>3, <2>4
    <3>2. QED
      BY <1>0, <2>1, <2>4, <3>1 DEF DigestAt
  <2>7. QED
    BY <2>1, <2>2, <2>5, <2>6, PassingLine
<1>5. CASE EndOfFile
  <2>1. /\ outcome = "reading" /\ line = Len(file)
        /\ outcome' = IF expected # NoHead /\ prev # expected THEN "head" ELSE "ok"
        /\ UNCHANGED <<file, expected, line, index, prev, count>>
    BY <1>5 DEF EndOfFile
  <2>2. Passed = line /\ Passed' = line
    BY <2>1 DEF Passed
  <2>3. QED
    BY <2>1, <2>2 DEF ReadInv, Failures
<1>6. CASE UNCHANGED vars
  BY <1>6 DEF vars, ReadInv, Passed
<1>7. QED
  BY <1>1, <1>2, <1>3, <1>4, <1>5, <1>6 DEF Next

LEMMA ReadInvariance == Spec => []ReadInv
  BY ReadInit, ReadStep, PTL DEF Spec

\* Whatever file it is given, verify_log accepts nothing but the writer's
\* entries, from the first on and in their order, and with the head at hand all
\* of them.
THEOREM AcceptsOnlyWritten == Spec => []AcceptedIsWritten
<1>1. ReadInv => AcceptedIsWritten
  <2> SUFFICES ASSUME ReadInv, outcome = "ok"
               PROVE  /\ WritersUpTo(file, Len(file))
                      /\ count = NumberOf(file, Len(file))
                      /\ expected # NoHead => count = Len(Written)
    BY DEF AcceptedIsWritten
  <2>1. /\ line = Len(file) /\ Passed = line /\ count \in 0..Len(Written)
        /\ prev = DigestAt(count)
    BY DEF ReadInv, Passed
  <2>2. WritersUpTo(file, Len(file)) /\ count = NumberOf(file, Len(file))
    BY <2>1 DEF ReadInv
  <2>3. expected # NoHead => DigestAt(count) = DigestAt(Len(Written))
    BY <2>1, HeadDigest DEF ReadInv
  <2>4. QED
    BY <2>1, <2>2, <2>3, HeadDigest
<1>2. QED
  BY ReadInvariance, <1>1, PTL

\* It stops, with a report or an exception, at the first entry that is not the
\* writer's next, and the check it reports is the first of the five, in their
\* order, that tells that entry from one behind the writer's.
THEOREM ReportsFirstFailure == Spec => []FirstFailureIsReported
<1>1. ReadInv => FirstFailureIsReported
  BY DEF ReadInv, FirstFailureIsReported
<1>2. QED
  BY ReadInvariance, <1>1, PTL

\* It raises no alarm, and no exception, over what the writer wrote, unless it
\* was cut short and the head is at hand.
THEOREM AcceptsUntouched == Spec => []UntouchedIsAccepted
<1>1. ReadInv => UntouchedIsAccepted
  <2> SUFFICES ASSUME ReadInv, WritersUpTo(file, Len(file)),
                      outcome \notin {"reading", "ok"}
               PROVE  /\ outcome = "head" /\ expected # NoHead
                      /\ NumberOf(file, Len(file)) < Len(Written)
    BY DEF UntouchedIsAccepted
  <2>1. Len(file) \in Nat /\ Len(Written) \in Nat /\ line \in 0..Len(file)
        /\ count \in 0..Len(Written)
    BY FilesAssumption, WrittenAssumption DEF ReadInv
  <2>2. WritersUpTo(file, line)
    BY <2>1, WritersLess
  <2>3. outcome = "head"
    BY <2>2 DEF ReadInv
  <2>4. /\ expected = HeadOf(Written) /\ expected # NoHead
        /\ prev # expected /\ prev = DigestAt(count)
        /\ line = Len(file) /\ NumberOf(file, Len(file)) = count
    BY <2>3 DEF ReadInv, Passed
  <2>5. count # Len(Written)
    BY <2>4, HeadDigest
  <2>6. QED
    BY <2>1, <2>3, <2>4, <2>5
<1>2. QED
  BY ReadInvariance, <1>1, PTL
=============================================================================
