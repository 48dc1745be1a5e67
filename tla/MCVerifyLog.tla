--------------------------- MODULE MCVerifyLog ----------------------------
(***************************************************************************)
(* Instance of VerifyLog: a log of three entries and every file of up to   *)
(* MaxLines lines over its entries, altered copies of them, and lines that *)
(* are no entries.                                                         *)
(***************************************************************************)
EXTENDS VerifyLog, FiniteSets

CONSTANTS r1, r2, nan, null, foreign, MaxLines

E1 == Entry(Key, 0, GENESIS_HASH, r1)
E2 == Entry(Key, 1, E1.hash, r2)
E3 == Entry(Key, 2, E2.hash, r1)

ThreeEntries == <<E1, E2, E3>>

\* The record edited, and nothing else; the digest recomputed as well, with
\* the old signature or one of another key.
Edited(e, r)  == [e EXCEPT !.record = r]
Rehashed(e, r) == [Edited(e, r) EXCEPT !.hash = entry_hash(e.seq, e.prev, r)]
Resigned(e, r) == [Rehashed(e, r) EXCEPT
                      !.sig = sign(foreign, entry_hash(e.seq, e.prev, r))]

\* An entry moved to another place by its number alone.
Renumbered(e, n) == [e EXCEPT !.seq = n]

\* A link, and a signature, that is no string.
Unlinked(e) == [e EXCEPT !.prev = null]
Unsigned(e) == [e EXCEPT !.sig = null]

Lines == {E1, E2, E3, Edited(E1, r2), Edited(E2, nan), Rehashed(E1, r2),
          Resigned(E1, r2), Renumbered(E3, 1), Unlinked(E2), Unsigned(E2),
          BLANK, MALFORMED, SCALAR, INCOMPLETE}

AllFiles == UNION {[1..n -> Lines] : n \in 0..MaxLines}

NaNRecords == {nan}
Nulls == {null}
=============================================================================
