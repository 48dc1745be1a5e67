---------------------------- MODULE ProbeProofs ----------------------------
(***************************************************************************)
(* Proofs about Probe, for every number of layers, heads and features, any *)
(* length of the prompt and of the output, and every corpus of faults in   *)
(* any order: each column measures exactly the tiers it left on, and what  *)
(* is caught is caught at the layer it was injected into.                  *)
(***************************************************************************)
EXTENDS Probe, TLAPS

Columns == 1..6
AttentionRules == {"attn_nonneg", "attn_max_one", "attn_rows_sum_to_one",
                   "attn_causal_mask"}
MagnitudeRules == {"max_abs", "max_row_norm"}

\* The functions of the membrane when the first n entries of a column are made.
Patched(c, n) ==
    [check |-> IF n = 0 THEN {} ELSE IF c = 2 THEN {"finite"} ELSE IF c = 3 THEN Shape
               ELSE IF c = 6 THEN {"finite"} \cup Shape ELSE {},
     check_attention_weights |->
        IF (c = 4 /\ n >= 1) \/ (c = 6 /\ n >= 2) THEN "stub" ELSE "real",
     check_magnitude |->
        IF (c = 5 /\ n >= 1) \/ (c = 6 /\ n >= 3) THEN "stub" ELSE "real"]

\* A column is patched in order; what restore puts back is what was imported, and
\* it puts back all of it.
Functions == {"check", "check_attention_weights", "check_magnitude"}
Imported == {<<f, Unpatched[f]>> : f \in Functions}

PatchInv ==
    /\ column \in Columns
    /\ pc # "restore" => Len(undo) <= Len(MUTATIONS[column])
    /\ undo \in Seq(Imported)
    /\ DOMAIN patch = Functions /\ patch = [f \in Functions |-> patch[f]]
    /\ \A f \in Functions :
          patch[f] # Unpatched[f] => \E i \in 1..Len(undo) : undo[i][1] = f
    /\ pc \notin {"restore", "verdict", "done"} => patch = Patched(column, Len(undo))
    /\ pc \notin {"disable", "restore", "verdict", "done"} =>
          Len(undo) = Len(MUTATIONS[column])

-----------------------------------------------------------------------------
\* The columns, one by one.
LEMMA Mutations ==
    /\ Len(MUTATIONS) = 6
    /\ Len(MUTATIONS[1]) = 0 /\ Len(MUTATIONS[2]) = 1 /\ Len(MUTATIONS[3]) = 1
    /\ Len(MUTATIONS[4]) = 1 /\ Len(MUTATIONS[5]) = 1 /\ Len(MUTATIONS[6]) = 3
    /\ MUTATIONS[2][1] = [target |-> "check", rules |-> {"finite"}]
    /\ MUTATIONS[3][1] = [target |-> "check", rules |-> Shape]
    /\ MUTATIONS[4][1] = [target |-> "check_attention_weights", rules |-> {}]
    /\ MUTATIONS[5][1] = [target |-> "check_magnitude", rules |-> {}]
    /\ MUTATIONS[6][1] = [target |-> "check", rules |-> {"finite"} \cup Shape]
    /\ MUTATIONS[6][2] = [target |-> "check_attention_weights", rules |-> {}]
    /\ MUTATIONS[6][3] = [target |-> "check_magnitude", rules |-> {}]
BY DEF MUTATIONS, Structural, Function

\* Off says which rules a patched membrane does not apply.
OffIn(p, r) ==
    \/ r \in p.check
    \/ p.check_attention_weights = "stub" /\ r \in AttentionRules
    \/ p.check_magnitude = "stub" /\ r \in MagnitudeRules

LEMMA OffIsPatched ==
    ASSUME NEW c \in Columns, NEW r
    PROVE  r \in Off(c) <=> OffIn(Patched(c, Len(MUTATIONS[c])), r)
<1> DEFINE M == MUTATIONS[c]
           targets == {M[i].target : i \in DOMAIN M}
           rules == UNION {M[i].rules : i \in DOMAIN M}
<1>1. r \in Off(c) <=> \/ r \in rules
                       \/ r \in AttentionRules /\ "check_attention_weights" \in targets
                       \/ r \in MagnitudeRules /\ "check_magnitude" \in targets
      BY DEF Off, AttentionRules, MagnitudeRules
<1>2. CASE c = 1
  <2>1. M = <<>> /\ DOMAIN M = {}
        BY <1>2 DEF MUTATIONS
  <2>2. targets = {} /\ rules = {}
        BY <2>1
  <2> QED BY <1>1, <1>2, <2>2, Mutations DEF OffIn, Patched
<1>3. ASSUME c \in {2, 3, 4, 5} PROVE targets = {M[1].target} /\ rules = M[1].rules
  <2>1. DOMAIN M = {1}
        BY <1>3 DEF MUTATIONS
  <2> QED BY <2>1
<1>4. CASE c \in {2, 3, 4, 5}
      BY <1>1, <1>3, <1>4, Mutations DEF OffIn, Patched
<1>5. CASE c = 6
  <2>1. DOMAIN M = {1, 2, 3}
        BY <1>5 DEF MUTATIONS
  <2>2. targets = {M[1].target, M[2].target, M[3].target}
        BY <2>1
  <2>3. rules = M[1].rules \cup M[2].rules \cup M[3].rules
        BY <2>1
  <2>4. rules = {"finite"} \cup Shape /\ targets = Functions
        BY <1>5, <2>2, <2>3, Mutations DEF Functions
  <2> QED BY <1>1, <1>5, <2>4, Mutations DEF OffIn, Patched, Functions
<1> QED BY <1>2, <1>4, <1>5 DEF Columns

-----------------------------------------------------------------------------
LEMMA PatchInit == Init => PatchInv
<1> SUFFICES ASSUME Init PROVE PatchInv
    OBVIOUS
<1>1. column = 1 /\ undo = <<>> /\ patch = Unpatched /\ pc = "disable"
      BY DEF Init
<1>2. patch = Patched(1, 0) /\ DOMAIN patch = Functions
      BY <1>1 DEF Unpatched, Patched, Functions
<1>3. patch = [f \in Functions |-> patch[f]] /\ Len(undo) = 0
      BY <1>1, <1>2 DEF Unpatched, Functions
<1> QED BY <1>1, <1>2, <1>3, Mutations DEF PatchInv, Columns

\* What one entry of a column makes of the functions.
Entry(p, d) ==
    [p EXCEPT ![d.target] = IF d.target = "check" THEN @ \cup d.rules ELSE "stub"]
Three(checks, attention, magnitude) ==
    [check |-> checks, check_attention_weights |-> attention, check_magnitude |-> magnitude]

LEMMA Entries ==
    ASSUME NEW a, NEW b, NEW m, NEW d
    PROVE  /\ d.target = "check" => Entry(Three(a, b, m), d) = Three(a \cup d.rules, b, m)
           /\ d.target = "check_attention_weights" =>
                 Entry(Three(a, b, m), d) = Three(a, "stub", m)
           /\ d.target = "check_magnitude" => Entry(Three(a, b, m), d) = Three(a, b, "stub")
<1>1. ASSUME d.target = "check" PROVE Entry(Three(a, b, m), d) = Three(a \cup d.rules, b, m)
      BY <1>1 DEF Entry, Three
<1>2. ASSUME d.target = "check_attention_weights"
      PROVE  Entry(Three(a, b, m), d) = Three(a, "stub", m)
      BY <1>2 DEF Entry, Three
<1>3. ASSUME d.target = "check_magnitude" PROVE Entry(Three(a, b, m), d) = Three(a, b, "stub")
      BY <1>3 DEF Entry, Three
<1> QED BY <1>1, <1>2, <1>3

\* One entry more of a column.
LEMMA PatchedNext ==
    ASSUME NEW c \in Columns, NEW n \in Nat, n < Len(MUTATIONS[c]),
           NEW d, d = MUTATIONS[c][n + 1]
    PROVE  /\ d.target \in Functions
           /\ Patched(c, n)[d.target] = Unpatched[d.target]
           /\ Patched(c, n + 1) = Entry(Patched(c, n), d)
<1> DEFINE Goal == /\ d.target \in Functions
                   /\ Patched(c, n)[d.target] = Unpatched[d.target]
                   /\ Patched(c, n + 1) = Entry(Patched(c, n), d)
<1>1. ASSUME NEW S, Patched(c, n) = Three({}, "real", "real"),
             Patched(c, n + 1) = Three(S, "real", "real"),
             d = [target |-> "check", rules |-> S]
      PROVE  Goal
  <2>1. {} \cup S = S /\ d.target = "check" /\ d.rules = S
        BY <1>1
  <2>2. Patched(c, n + 1) = Entry(Patched(c, n), d)
        BY <1>1, <2>1, Entries
  <2> QED BY <1>1, <2>1, <2>2 DEF Functions, Unpatched, Three
<1>2. CASE c = 1
      BY <1>2, Mutations
<1>3. CASE c = 2
  <2>1. n = 0 /\ n + 1 = 1
        BY <1>3, Mutations
  <2>2. d = [target |-> "check", rules |-> {"finite"}]
        BY <1>3, <2>1, Mutations
  <2>3. Patched(c, n) = Three({}, "real", "real") /\ Patched(c, n + 1) = Three({"finite"}, "real", "real")
        BY <1>3, <2>1 DEF Patched, Three
  <2> QED BY <1>1, <2>2, <2>3
<1>4. CASE c = 3
  <2>1. n = 0 /\ n + 1 = 1
        BY <1>4, Mutations
  <2>2. d = [target |-> "check", rules |-> Shape]
        BY <1>4, <2>1, Mutations
  <2>3. Patched(c, n) = Three({}, "real", "real") /\ Patched(c, n + 1) = Three(Shape, "real", "real")
        BY <1>4, <2>1 DEF Patched, Three
  <2> QED BY <1>1, <2>2, <2>3
<1>5. CASE c = 4
  <2>1. n = 0 /\ n + 1 = 1
        BY <1>5, Mutations
  <2>2. d = [target |-> "check_attention_weights", rules |-> {}]
        BY <1>5, <2>1, Mutations
  <2>3. Patched(c, n) = Three({}, "real", "real") /\ Patched(c, n + 1) = Three({}, "stub", "real")
        BY <1>5, <2>1 DEF Patched, Three
  <2>4. Patched(c, n + 1) = Entry(Patched(c, n), d)
        BY <2>2, <2>3, Entries
  <2> QED BY <2>2, <2>3, <2>4 DEF Functions, Unpatched, Three
<1>6. CASE c = 5
  <2>1. n = 0 /\ n + 1 = 1
        BY <1>6, Mutations
  <2>2. d = [target |-> "check_magnitude", rules |-> {}]
        BY <1>6, <2>1, Mutations
  <2>3. Patched(c, n) = Three({}, "real", "real") /\ Patched(c, n + 1) = Three({}, "real", "stub")
        BY <1>6, <2>1 DEF Patched, Three
  <2>4. Patched(c, n + 1) = Entry(Patched(c, n), d)
        BY <2>2, <2>3, Entries
  <2> QED BY <2>2, <2>3, <2>4 DEF Functions, Unpatched, Three
<1>7. CASE c = 6 /\ n = 0
  <2>1. d = [target |-> "check", rules |-> {"finite"} \cup Shape]
        BY <1>7, Mutations
  <2>2. Patched(c, n) = Three({}, "real", "real")
        BY <1>7 DEF Patched, Three
  <2>3. Patched(c, n + 1) = Three({"finite"} \cup Shape, "real", "real")
        BY <1>7 DEF Patched, Three
  <2> QED BY <1>1, <2>1, <2>2, <2>3
<1>8. CASE c = 6 /\ n = 1
  <2>1. n + 1 = 2 /\ d = [target |-> "check_attention_weights", rules |-> {}]
        BY <1>8, Mutations
  <2>2. Patched(c, n) = Three({"finite"} \cup Shape, "real", "real")
        BY <1>8 DEF Patched, Three
  <2>3. Patched(c, n + 1) = Three({"finite"} \cup Shape, "stub", "real")
        BY <1>8, <2>1 DEF Patched, Three
  <2>4. Patched(c, n + 1) = Entry(Patched(c, n), d)
        BY <2>1, <2>2, <2>3, Entries
  <2> QED BY <2>1, <2>2, <2>4 DEF Functions, Unpatched, Three
<1>9. CASE c = 6 /\ n = 2
  <2>1. n + 1 = 3 /\ d = [target |-> "check_magnitude", rules |-> {}]
        BY <1>9, Mutations
  <2>2. Patched(c, n) = Three({"finite"} \cup Shape, "stub", "real")
        BY <1>9 DEF Patched, Three
  <2>3. Patched(c, n + 1) = Three({"finite"} \cup Shape, "stub", "stub")
        BY <1>9, <2>1 DEF Patched, Three
  <2>4. Patched(c, n + 1) = Entry(Patched(c, n), d)
        BY <2>1, <2>2, <2>3, Entries
  <2> QED BY <2>1, <2>2, <2>4 DEF Functions, Unpatched, Three
<1>10. c = 6 => n \in {0, 1, 2}
  <2>1. c = 6 => n < 3
        BY Mutations
  <2> QED BY <2>1
<1> QED BY <1>2, <1>3, <1>4, <1>5, <1>6, <1>7, <1>8, <1>9, <1>10 DEF Columns

LEMMA DisableStep ==
    ASSUME PatchInv, Disable
    PROVE  PatchInv'
<1> DEFINE n == Len(undo)
           d == MUTATIONS[column][n + 1]
<1>1. /\ pc = "disable" /\ pc' = "disable" /\ column' = column
      /\ n < Len(MUTATIONS[column])
      /\ patch' = Entry(patch, d)
      /\ undo' = Append(undo, <<d.target, patch[d.target]>>)
      BY DEF Disable, Entry
<1>2. /\ column \in Columns /\ patch = Patched(column, n) /\ n \in Nat
      /\ undo \in Seq(Imported)
      BY <1>1 DEF PatchInv
<1>3. /\ d.target \in Functions
      /\ patch[d.target] = Unpatched[d.target]
      /\ patch' = Patched(column, n + 1)
      BY <1>1, <1>2, PatchedNext
<1>4. /\ DOMAIN patch' = Functions
      /\ patch' = [f \in Functions |-> patch'[f]]
      BY <1>3 DEF Patched, Functions
<1>5. \A f \in Functions : f # d.target => patch'[f] = patch[f]
      BY <1>1 DEF PatchInv, Entry
<1> DEFINE e == <<d.target, patch[d.target]>>
<1>6. e \in Imported /\ e[1] = d.target
      BY <1>3 DEF Imported
<1> HIDE DEF d, e
<1>7. /\ undo' \in Seq(Imported) /\ Len(undo') = n + 1
      /\ \A i \in 1..n : undo'[i] = undo[i]
      /\ undo'[n + 1] = e
      BY <1>1, <1>2, <1>6 DEF e
<1>9. \A f \in Functions :
         patch'[f] # Unpatched[f] => \E i \in 1..Len(undo') : undo'[i][1] = f
  <2> SUFFICES ASSUME NEW f \in Functions, patch'[f] # Unpatched[f]
               PROVE  \E i \in 1..(n + 1) : undo'[i][1] = f
      BY <1>7
  <2>1. CASE f = d.target
        BY <1>2, <1>6, <1>7, <2>1
  <2>2. CASE f # d.target
    <3>1. PICK i \in 1..n : undo[i][1] = f
          BY <1>5, <2>2 DEF PatchInv
    <3> QED BY <1>2, <1>7, <3>1
  <2> QED BY <2>1, <2>2
<1>10. Len(undo') <= Len(MUTATIONS[column])
  <2>1. Len(MUTATIONS[column]) \in Nat
        BY <1>2, Mutations DEF Columns
  <2> QED BY <1>1, <1>2, <1>7, <2>1
<1> QED BY <1>1, <1>2, <1>3, <1>4, <1>7, <1>9, <1>10 DEF PatchInv

LEMMA RestoreStep ==
    ASSUME PatchInv, Restore
    PROVE  PatchInv'
<1>1. CASE undo # <<>>
  <2>1. /\ pc' = "restore" /\ column' = column
        /\ patch' = [patch EXCEPT ![Head(undo)[1]] = Head(undo)[2]]
        /\ undo' = Tail(undo)
        BY <1>1 DEF Restore
  <2> DEFINE n == Len(undo)
  <2>2. undo \in Seq(Imported) /\ n \in Nat
        BY DEF PatchInv
  <2>3. n >= 1 /\ Head(undo) = undo[1] /\ undo[1] \in Imported
        BY <1>1, <2>2
  <2>4. /\ undo' \in Seq(Imported) /\ Len(undo') = n - 1
        /\ \A i \in 1..(n - 1) : undo'[i] = undo[i + 1]
        BY <1>1, <2>1, <2>2
  <2>5. undo[1][2] = Unpatched[undo[1][1]] /\ undo[1][1] \in Functions
        BY <2>3 DEF Imported
  <2>6. /\ DOMAIN patch' = Functions /\ patch' = [f \in Functions |-> patch'[f]]
        /\ \A f \in Functions :
              patch'[f] = IF f = undo[1][1] THEN Unpatched[f] ELSE patch[f]
        BY <2>1, <2>3, <2>5 DEF PatchInv
  <2>8. \A f \in Functions :
           patch'[f] # Unpatched[f] => \E i \in 1..Len(undo') : undo'[i][1] = f
    <3> SUFFICES ASSUME NEW f \in Functions, patch'[f] # Unpatched[f]
                 PROVE  \E i \in 1..(n - 1) : undo'[i][1] = f
        BY <2>4
    <3>1. f # undo[1][1] /\ patch[f] # Unpatched[f]
          BY <2>6
    <3>2. PICK i \in 1..n : undo[i][1] = f
          BY <3>1 DEF PatchInv
    <3>3. i - 1 \in 1..(n - 1) /\ (i - 1) + 1 = i
          BY <2>2, <3>1, <3>2
    <3> QED BY <2>4, <3>2, <3>3
  <2> QED BY <2>1, <2>4, <2>6, <2>8 DEF PatchInv
<1>2. CASE undo = <<>>
  <2>1. undo' = undo /\ patch' = patch /\ Len(undo) = 0
        BY <1>2 DEF Restore
  <2>2. \A f \in Functions : patch[f] = Unpatched[f]
        BY <2>1 DEF PatchInv
  <2>3. patch = Unpatched
        BY <2>2 DEF PatchInv, Unpatched, Functions
  <2>4. CASE pc' = "disable"
    <3>1. column < Len(MUTATIONS) /\ column' = column + 1
          BY <1>2, <2>4 DEF Restore
    <3>2. column' \in Columns
          BY <3>1, Mutations DEF PatchInv, Columns
    <3>3. patch' = Patched(column', 0)
          BY <2>1, <2>3 DEF Patched, Unpatched
    <3>4. Len(MUTATIONS[column']) \in Nat
          BY <3>2, Mutations DEF Columns
    <3> QED BY <2>1, <2>4, <3>2, <3>3, <3>4 DEF PatchInv
  <2>5. CASE pc' = "verdict" /\ column' = column
    <3>1. Len(MUTATIONS[column]) \in Nat
          BY Mutations DEF PatchInv, Columns
    <3> QED BY <2>1, <2>5, <3>1 DEF PatchInv
  <2> QED BY <1>2, <2>4, <2>5 DEF Restore
<1> QED BY <1>1, <1>2

\* The other steps leave the functions alone.
LEMMA OthersKeepPatch ==
    ASSUME PatchInv, UNCHANGED <<column, patch, undo>>,
           \/ /\ pc \notin {"disable", "restore", "verdict", "done"}
              /\ pc' \notin {"disable", "restore", "verdict", "done"}
           \/ /\ pc = "disable" /\ Len(undo) = Len(MUTATIONS[column])
              /\ pc' \notin {"disable", "restore", "verdict", "done"}
           \/ pc = "verdict" /\ pc' = "done"
           \/ pc' = pc
    PROVE  PatchInv'
BY DEF PatchInv

-----------------------------------------------------------------------------
\* What on_state finds, said with the rules a column switches off.
ActiveViolations(kind, tensor, off) ==
    LET structural == check(kind, tensor) \ off
        values == ((IF kind = "attention" THEN check_attention_weights(tensor) ELSE {})
                   \cup check_magnitude(tensor)) \ off
    IN  IF structural # {} THEN structural ELSE values

LEMMA ViolationsAreActive ==
    ASSUME column \in Columns, patch = Patched(column, Len(MUTATIONS[column])),
           NEW kind, NEW tensor
    PROVE  Violations(kind, tensor) = ActiveViolations(kind, tensor, Off(column))
<1> DEFINE p == patch
<1>1. \A r : r \in Off(column) <=> OffIn(p, r)
      BY OffIsPatched
<1>2. /\ p.check \subseteq {"finite", "rank", "extent", "dtype"}
      /\ p.check_attention_weights \in {"real", "stub"}
      /\ p.check_magnitude \in {"real", "stub"}
      BY DEF Patched, Shape
<1>3. check(kind, tensor) \subseteq {"finite", "rank", "extent", "dtype"}
      BY DEF check
<1>4. check_attention_weights(tensor) \subseteq AttentionRules
      BY DEF check_attention_weights, AttentionRules
<1>5. check_magnitude(tensor) \subseteq MagnitudeRules
      BY DEF check_magnitude, MagnitudeRules
<1>6. check(kind, tensor) \ p.check = check(kind, tensor) \ Off(column)
  <2> SUFFICES ASSUME NEW r \in check(kind, tensor)
               PROVE  r \in p.check <=> r \in Off(column)
      OBVIOUS
  <2>1. r \notin AttentionRules /\ r \notin MagnitudeRules
        BY <1>3 DEF AttentionRules, MagnitudeRules
  <2> QED BY <1>1, <2>1 DEF OffIn
<1>7. ASSUME NEW r \in AttentionRules
      PROVE  r \in Off(column) <=> p.check_attention_weights # "real"
  <2>1. r \notin p.check /\ r \notin MagnitudeRules
        BY <1>2 DEF AttentionRules, MagnitudeRules
  <2> QED BY <1>1, <1>2, <2>1 DEF OffIn
<1>8. ASSUME NEW r \in MagnitudeRules
      PROVE  r \in Off(column) <=> p.check_magnitude # "real"
  <2>1. r \notin p.check /\ r \notin AttentionRules
        BY <1>2 DEF AttentionRules, MagnitudeRules
  <2> QED BY <1>1, <1>2, <2>1 DEF OffIn
<1> DEFINE w == check_attention_weights(tensor)
           m == check_magnitude(tensor)
           a == kind = "attention"
<1>9. (IF p.check_attention_weights = "real" THEN w ELSE {}) = w \ Off(column)
      BY <1>4, <1>7
<1>10. (IF p.check_magnitude = "real" THEN m ELSE {}) = m \ Off(column)
      BY <1>5, <1>8
<1>11. /\ a => (IF a /\ p.check_attention_weights = "real" THEN w ELSE {})
                \cup (IF p.check_magnitude = "real" THEN m ELSE {}) = (w \cup m) \ Off(column)
       /\ ~a => (IF a /\ p.check_attention_weights = "real" THEN w ELSE {})
                \cup (IF p.check_magnitude = "real" THEN m ELSE {}) = ({} \cup m) \ Off(column)
  <2> HIDE DEF w, m, p
  <2> QED BY <1>9, <1>10
<1> QED BY <1>6, <1>11 DEF Violations, ActiveViolations

-----------------------------------------------------------------------------
\* The fault main is at: what it breaks that is still looked at, and whether it
\* leaves a shape no layer takes.
On == Breaks(effect) \ Off(column)
Injected == FaultCorpus[fault][2]
Misshapen == effect \in {"truncated_sequence_axis", "widened_feature_axis", "rank_collapse"}

\* The shape behind the faulty layer.
Bent ==
    CASE effect = "truncated_sequence_axis" -> <<t - 1, d_model>>
      [] effect = "widened_feature_axis" -> <<t, d_model + 1>>
      [] effect = "rank_collapse" -> <<t * d_model>>
      [] OTHER -> <<t, d_model>>

\* What on_state looks at.
Tensors == [shape : Seq(Int), dtype : {"float32", "float64"}, finite : BOOLEAN,
            max_abs : Nat, max_row_norm : Nat]
Described(o, shape, dtype, finite, largest, norm) ==
    /\ o \in Tensors
    /\ o.shape = shape /\ o.dtype = dtype /\ o.finite = finite
    /\ o.max_abs = largest /\ o.max_row_norm = norm

\* No rule that is on tells o from a clean tensor, its shape apart.
Harmless(o) ==
    /\ o \in Tensors
    /\ o.dtype # "float32" => "dtype" \in Off(column)
    /\ ~o.finite => "finite" \in Off(column)
    /\ o.finite /\ o.max_abs > 15 => "max_abs" \in Off(column)
    /\ o.finite /\ o.max_row_norm > 15 => "max_row_norm" \in Off(column)

\* What a hidden state may be once the fault is behind it.
Behind(o) == On = {} /\ Harmless(o) /\ o.shape = Bent

Clean == Hidden(<<t, d_model>>)
WeightsOf(rows, finite) ==
    [shape |-> <<n_heads, rows, offset + rows>>, dtype |-> "float32",
     finite |-> finite, max_abs |-> 10, max_row_norm |-> 10,
     lo |-> 0, hi |-> 10, worst |-> 0, leaked |-> 0]

Passing == {"loop", "embedding", "layer", "attention", "layer_output", "norm",
            "final_hidden", "head", "logits", "gate"}
InLayer == {"layer", "attention", "layer_output"}

PlaceInv ==
    /\ step \in Nat /\ offset \in Nat /\ inspections \in Nat
    /\ pc \in Passing \cup {"disable", "next", "restore", "verdict", "done"}
    /\ fault \in 0..Len(FaultCorpus)
    /\ pc \in Passing => fault # 0
    /\ pc \in InLayer => layer \in 1..n_layers

\* Only what no rule tells apart gets to a second token.
LaterInv == pc \in Passing /\ step > 0 => On = {} /\ ~Misshapen

\* In the first pass every boundary so far has been looked at once.
CountInv ==
    step = 0 => /\ pc \in {"loop", "embedding"} => inspections = 0
                /\ pc \in {"layer", "attention"} => inspections = 2 * layer - 1
                /\ pc = "layer_output" => inspections = 2 * layer

\* Before its layer the fault has changed nothing, behind it no rule that is on
\* tells it.
FlowInv ==
    /\ pc = "embedding" => layer = 1 /\ x = Clean
    /\ pc = "layer" => IF layer <= Injected THEN x = Clean ELSE Behind(x)
    /\ pc \in {"attention", "layer_output"} =>
          /\ layer < Injected => x = Clean
          /\ layer = Injected => x \in CorruptedHidden(Clean)
          /\ layer > Injected => Behind(x)
    /\ pc = "attention" =>
          /\ layer = Injected => weights = CorruptedWeights(WeightsOf(t, TRUE))
          /\ layer # Injected => weights = WeightsOf(x.shape[1], x.finite)
          /\ layer > Injected => effect \notin {"widened_feature_axis", "rank_collapse"}
    /\ pc = "layer_output" /\ layer = Injected /\ effect \in AttentionEffects => On = {}
    /\ pc \in {"norm", "final_hidden", "head"} => Behind(x)
    /\ pc = "logits" => x.shape = <<t, vocab_size>> /\ Harmless(x)
    /\ pc \in {"logits", "gate"} => On = {} /\ ~Misshapen

RunInv == PlaceInv /\ LaterInv /\ CountInv /\ FlowInv

-----------------------------------------------------------------------------
\* What the membrane makes of each tensor that gets to it.
LEMMA Faults ==
    ASSUME fault \in 1..Len(FaultCorpus)
    PROVE  effect \in HiddenEffects \cup AttentionEffects /\ Injected \in 1..n_layers
<1>1. FaultCorpus[fault] \in (HiddenEffects \cup AttentionEffects) \X (1..n_layers)
      BY ProbeAssumption
<1> QED BY <1>1 DEF effect, Injected

LEMMA Tokens ==
    ASSUME step \in Nat
    PROVE  t \in Nat \ {0} /\ (step = 0 => t >= 2) /\ (step > 0 => t = 1)
BY ProbeAssumption DEF t

HiddenKinds == {"embedding", "layer_output", "final_hidden", "logits"}

\* Off the attention a tensor passes if what is wrong with it is switched off.
LEMMA Passes ==
    ASSUME NEW kind \in HiddenKinds, NEW o, NEW off,
           Len(o.shape) # Len(Contract(kind)) => "rank" \in off,
           Len(o.shape) = Len(Contract(kind)) /\ o.shape # Contract(kind) =>
               "extent" \in off,
           o.dtype # "float32" => "dtype" \in off,
           ~o.finite => "finite" \in off,
           o.finite /\ o.max_abs > 15 => "max_abs" \in off,
           o.finite /\ o.max_row_norm > 15 => "max_row_norm" \in off
    PROVE  ActiveViolations(kind, o, off) = {}
<1>1. check(kind, o) \ off = {}
      BY DEF check
<1>2. check_magnitude(o) \ off = {}
      BY DEF check_magnitude
<1>3. kind # "attention"
      BY DEF HiddenKinds
<1> QED BY <1>1, <1>2, <1>3 DEF ActiveViolations

LEMMA CleanPasses ==
    ASSUME NEW kind \in {"embedding", "layer_output", "final_hidden"}, NEW off
    PROVE  ActiveViolations(kind, Clean, off) = {}
<1>1. kind \in HiddenKinds /\ Contract(kind) = <<t, d_model>>
      BY DEF HiddenKinds, Contract
<1>2. /\ Clean.shape = <<t, d_model>> /\ Clean.dtype = "float32" /\ Clean.finite
      /\ Clean.max_abs = 10 /\ Clean.max_row_norm = 10
      BY DEF Clean, Hidden
<1> QED BY <1>1, <1>2, Passes

LEMMA BehindPasses ==
    ASSUME NEW kind \in {"layer_output", "final_hidden"}, NEW o, Behind(o)
    PROVE  ActiveViolations(kind, o, Off(column)) = {}
<1>1. kind \in HiddenKinds /\ Contract(kind) = <<t, d_model>>
      BY DEF HiddenKinds, Contract
<1>2. /\ Len(Bent) # 2 => "rank" \in Off(column)
      /\ Len(Bent) = 2 /\ Bent # <<t, d_model>> => "extent" \in Off(column)
  <2>1. CASE effect = "truncated_sequence_axis" \/ effect = "widened_feature_axis"
        BY <2>1 DEF Bent, Behind, On, Breaks
  <2>2. CASE effect = "rank_collapse"
        BY <2>2 DEF Bent, Behind, On, Breaks
  <2>3. CASE ~Misshapen
        BY <2>3 DEF Bent, Misshapen
  <2> QED BY <2>1, <2>2, <2>3 DEF Misshapen
<1> QED BY <1>1, <1>2, Passes DEF Behind, Harmless

LEMMA LogitsPass ==
    ASSUME NEW o, Harmless(o), o.shape = <<t, vocab_size>>
    PROVE  ActiveViolations("logits", o, Off(column)) = {}
<1>1. "logits" \in HiddenKinds /\ Contract("logits") = <<t, vocab_size>>
      BY DEF HiddenKinds, Contract
<1> QED BY <1>1, Passes DEF Harmless

LEMMA WeightsPass ==
    ASSUME NEW rows, NEW finite \in BOOLEAN, NEW off,
           rows # t => "extent" \in off, ~finite => "finite" \in off
    PROVE  ActiveViolations("attention", WeightsOf(rows, finite), off) = {}
<1> DEFINE w == WeightsOf(rows, finite)
<1>1. /\ w.shape = <<n_heads, rows, offset + rows>> /\ w.dtype = "float32"
      /\ w.finite = finite /\ w.max_abs = 10 /\ w.max_row_norm = 10
      /\ w.lo = 0 /\ w.hi = 10 /\ w.worst = 0 /\ w.leaked = 0
      BY DEF WeightsOf
<1>2. Contract("attention") = <<n_heads, t, offset + t>>
      BY DEF Contract, t_kv
<1> HIDE DEF w
<1>3. check("attention", w) \ off = {}
      BY <1>1, <1>2 DEF check
<1>4. check_attention_weights(w) = {}
      BY <1>1 DEF check_attention_weights
<1>5. check_magnitude(w) = {}
      BY <1>1 DEF check_magnitude
<1> QED BY <1>3, <1>4, <1>5 DEF ActiveViolations, w

\* Corrupted weights break their own rules and no others.
LEMMA FaultyWeights ==
    ASSUME effect \in AttentionEffects, step \in Nat, step = 0 \/ On = {}
    PROVE  ActiveViolations("attention", CorruptedWeights(WeightsOf(t, TRUE)), Off(column))
              = On
<1> DEFINE w == WeightsOf(t, TRUE)
           v == CorruptedWeights(w)
<1>1. /\ w.shape = <<n_heads, t, offset + t>> /\ w.dtype = "float32"
      /\ w.finite = TRUE /\ w.max_abs = 10 /\ w.max_row_norm = 10
      /\ w.lo = 0 /\ w.hi = 10 /\ w.worst = 0 /\ w.leaked = 0
      BY DEF WeightsOf
<1>2. Contract("attention") = <<n_heads, t, offset + t>>
      BY DEF Contract, t_kv
<1>3. DOMAIN w = {"shape", "dtype", "finite", "max_abs", "max_row_norm", "lo", "hi",
                  "worst", "leaked"}
      BY DEF WeightsOf
<1>4. t > 1 <=> step = 0
      BY Tokens
<1> HIDE DEF w
<1>5. CASE effect = "causal_mask_leak"
  <2>1. v = [w EXCEPT !.leaked = IF w.shape[2] > 1 THEN 1 ELSE 0]
        BY <1>5 DEF CorruptedWeights, HiddenEffects
  <2>2. /\ v.shape = w.shape /\ v.dtype = w.dtype /\ v.finite = w.finite
        /\ v.max_abs = 10 /\ v.max_row_norm = 10 /\ v.lo = 0 /\ v.hi = 10
        /\ v.worst = 0 /\ v.leaked = IF t > 1 THEN 1 ELSE 0
        BY <1>1, <1>3, <2>1
  <2> HIDE DEF v
  <2>3. check("attention", v) = {}
        BY <1>1, <1>2, <2>2 DEF check
  <2>4. check_attention_weights(v) = IF step = 0 THEN {"attn_causal_mask"} ELSE {}
        BY <1>1, <1>4, <2>2 DEF check_attention_weights
  <2>5. check_magnitude(v) = {}
        BY <2>2 DEF check_magnitude
  <2>6. Breaks(effect) = {"attn_causal_mask"}
        BY <1>5 DEF Breaks
  <2>7. ActiveViolations("attention", v, Off(column)) = On
        BY <2>3, <2>4, <2>5, <2>6 DEF ActiveViolations, On
  <2> QED BY <2>7 DEF v, w
<1>6. CASE effect = "attention_mass_not_normalized"
  <2>1. v = [w EXCEPT !.hi = 5, !.max_abs = 5, !.max_row_norm = 5, !.worst = 5]
        BY <1>6 DEF CorruptedWeights, HiddenEffects
  <2>2. /\ v.shape = w.shape /\ v.dtype = w.dtype /\ v.finite = w.finite
        /\ v.max_abs = 5 /\ v.max_row_norm = 5 /\ v.lo = 0 /\ v.hi = 5
        /\ v.worst = 5 /\ v.leaked = 0
        BY <1>1, <1>3, <2>1
  <2> HIDE DEF v
  <2>3. check("attention", v) = {}
        BY <1>1, <1>2, <2>2 DEF check
  <2>4. check_attention_weights(v) = {"attn_rows_sum_to_one"}
        BY <1>1, <2>2 DEF check_attention_weights
  <2>5. check_magnitude(v) = {}
        BY <2>2 DEF check_magnitude
  <2>6. Breaks(effect) = {"attn_rows_sum_to_one"}
        BY <1>6 DEF Breaks
  <2>7. ActiveViolations("attention", v, Off(column)) = On
        BY <2>3, <2>4, <2>5, <2>6 DEF ActiveViolations, On
  <2> QED BY <2>7 DEF v, w
<1>7. CASE effect = "negative_attention_weight"
  <2>1. v = [w EXCEPT !.lo = -5, !.worst = 15]
        BY <1>7 DEF CorruptedWeights, HiddenEffects
  <2>2. /\ v.shape = w.shape /\ v.dtype = w.dtype /\ v.finite = w.finite
        /\ v.max_abs = 10 /\ v.max_row_norm = 10 /\ v.lo = -5 /\ v.hi = 10
        /\ v.worst = 15 /\ v.leaked = 0
        BY <1>1, <1>3, <2>1
  <2> HIDE DEF v
  <2>3. check("attention", v) = {}
        BY <1>1, <1>2, <2>2 DEF check
  <2>4. check_attention_weights(v) = {"attn_nonneg", "attn_rows_sum_to_one"}
        BY <1>1, <2>2 DEF check_attention_weights
  <2>5. check_magnitude(v) = {}
        BY <2>2 DEF check_magnitude
  <2>6. Breaks(effect) = {"attn_nonneg", "attn_rows_sum_to_one"}
        BY <1>7 DEF Breaks
  <2>7. ActiveViolations("attention", v, Off(column)) = On
        BY <2>3, <2>4, <2>5, <2>6 DEF ActiveViolations, On
  <2> QED BY <2>7 DEF v, w
<1>8. CASE effect = "attention_weight_above_one"
  <2>1. v = [w EXCEPT !.hi = 40, !.max_abs = 40, !.max_row_norm = 40, !.worst = 30]
        BY <1>8 DEF CorruptedWeights, HiddenEffects
  <2>2. /\ v.shape = w.shape /\ v.dtype = w.dtype /\ v.finite = w.finite
        /\ v.max_abs = 40 /\ v.max_row_norm = 40 /\ v.lo = 0 /\ v.hi = 40
        /\ v.worst = 30 /\ v.leaked = 0
        BY <1>1, <1>3, <2>1
  <2> HIDE DEF v
  <2>3. check("attention", v) = {}
        BY <1>1, <1>2, <2>2 DEF check
  <2>4. check_attention_weights(v) = {"attn_max_one", "attn_rows_sum_to_one"}
        BY <1>1, <2>2 DEF check_attention_weights
  <2>5. check_magnitude(v) = {"max_abs", "max_row_norm"}
        BY <2>2, <1>1 DEF check_magnitude
  <2>6. Breaks(effect) = {"attn_max_one", "attn_rows_sum_to_one", "max_abs", "max_row_norm"}
        BY <1>8 DEF Breaks
  <2>7. ActiveViolations("attention", v, Off(column)) = On
        BY <2>3, <2>4, <2>5, <2>6 DEF ActiveViolations, On
  <2> QED BY <2>7 DEF v, w
<1>9. CASE effect = "nan_in_attention"
  <2>1. v = [w EXCEPT !.finite = FALSE]
        BY <1>9 DEF CorruptedWeights, HiddenEffects
  <2>2. v.shape = w.shape /\ v.dtype = w.dtype /\ v.finite = FALSE
        BY <1>1, <1>3, <2>1
  <2> HIDE DEF v
  <2>3. check("attention", v) = {"finite"}
        BY <1>1, <1>2, <2>2 DEF check
  <2>4. check_attention_weights(v) = {} /\ check_magnitude(v) = {}
        BY <2>2 DEF check_attention_weights, check_magnitude
  <2>5. Breaks(effect) = {"finite"}
        BY <1>9 DEF Breaks
  <2>6. ActiveViolations("attention", v, Off(column)) = On
        BY <2>3, <2>4, <2>5 DEF ActiveViolations, On
  <2> QED BY <2>6 DEF v, w
<1> QED BY <1>5, <1>6, <1>7, <1>8, <1>9 DEF AttentionEffects

ByNorm == /\ effect \in {"widened_feature_axis", "rank_collapse"}
          /\ "max_row_norm" \notin Off(column)

LEMMA CleanShape ==
    ASSUME step \in Nat
    PROVE  /\ Described(Clean, <<t, d_model>>, "float32", TRUE, 10, 10)
           /\ t \in Nat \ {0} /\ d_model \in Nat \ {0}
<1>1. t \in Nat \ {0} /\ d_model \in Nat \ {0}
      BY Tokens, ProbeAssumption
<1>2. <<t, d_model>> \in Seq(Int)
      BY <1>1
<1>3. Clean \in Tensors
      BY <1>2 DEF Clean, Hidden, Tensors
<1>4. /\ Clean.shape = <<t, d_model>> /\ Clean.dtype = "float32" /\ Clean.finite = TRUE
      /\ Clean.max_abs = 10 /\ Clean.max_row_norm = 10
      BY DEF Clean, Hidden
<1> QED BY <1>1, <1>3, <1>4 DEF Described

\* A corrupted hidden state breaks its own rule and no other, but for a row norm
\* that may be beyond the envelope behind a wrong shape.
LEMMA FaultyHidden ==
    ASSUME effect \in HiddenEffects, step \in Nat, Misshapen => step = 0,
           NEW o \in CorruptedHidden(Clean)
    PROVE  LET found == ActiveViolations("layer_output", o, Off(column))
           IN  /\ On # {} => found = On
               /\ On = {} => found = {} \/ (ByNorm /\ found = {"max_row_norm"})
               /\ found = {} => Behind(o)
<1> DEFINE found == ActiveViolations("layer_output", o, Off(column))
           Goal == /\ On # {} => found = On
                   /\ On = {} => found = {} \/ (ByNorm /\ found = {"max_row_norm"})
                   /\ found = {} => Behind(o)
<1>1. /\ Described(Clean, <<t, d_model>>, "float32", TRUE, 10, 10)
      /\ t \in Nat \ {0} /\ d_model \in Nat \ {0}
      BY CleanShape
<1>2. /\ Contract("layer_output") = <<t, d_model>>
      /\ Len(<<t, d_model>>) = 2
      BY DEF Contract
<1>3. CASE effect \in {"nan_in_hidden_state", "inf_in_hidden_state",
                      "negative_inf_in_hidden_state"}
  <2>1. o = [Clean EXCEPT !.finite = FALSE]
        BY <1>3 DEF CorruptedHidden, AttentionEffects
  <2>2. Described(o, <<t, d_model>>, "float32", FALSE, 10, 10)
        BY <1>1, <2>1 DEF Described, Tensors
  <2>3. check("layer_output", o) = {"finite"} /\ check_magnitude(o) = {}
        BY <1>1, <1>2, <2>2 DEF Described, check, check_magnitude
  <2>4. Breaks(effect) = {"finite"} /\ Bent = <<t, d_model>>
        BY <1>3 DEF Breaks, Bent
  <2>5. found = On
        BY <2>3, <2>4 DEF ActiveViolations, On
  <2>6. On = {} => "finite" \in Off(column)
        BY <2>4 DEF On
  <2>7. On = {} => Behind(o)
        BY <1>1, <2>2, <2>4, <2>6 DEF Described, Behind, Harmless
  <2> QED BY <2>5, <2>7
<1>4. CASE effect = "truncated_sequence_axis"
  <2>1. o = [Clean EXCEPT !.shape[1] = @ - 1]
        BY <1>4 DEF CorruptedHidden, AttentionEffects
  <2>2. [<<t, d_model>> EXCEPT ![1] = @ - 1] = <<t - 1, d_model>>
        BY <1>1
  <2>3. <<t - 1, d_model>> \in Seq(Int) /\ <<t - 1, d_model>> # <<t, d_model>>
        BY <1>1
  <2>4. Described(o, <<t - 1, d_model>>, "float32", TRUE, 10, 10)
        BY <1>1, <2>1, <2>2, <2>3 DEF Described, Tensors
  <2>5. check("layer_output", o) = {"extent"} /\ check_magnitude(o) = {}
        BY <1>1, <1>2, <2>3, <2>4 DEF Described, check, check_magnitude
  <2>6. Breaks(effect) = {"extent"} /\ Bent = <<t - 1, d_model>>
        BY <1>4 DEF Breaks, Bent
  <2>7. found = On
        BY <2>5, <2>6 DEF ActiveViolations, On
  <2>8. On = {} => Behind(o)
        BY <1>1, <2>4, <2>6 DEF Described, Behind, Harmless
  <2> QED BY <2>7, <2>8
<1>5. CASE effect = "widened_feature_axis"
  <2>1. PICK n \in {10, 20} :
           o = [Clean EXCEPT !.shape[2] = @ + 1, !.max_row_norm = n]
        BY <1>5 DEF CorruptedHidden, AttentionEffects
  <2>2. [<<t, d_model>> EXCEPT ![2] = @ + 1] = <<t, d_model + 1>>
        BY <1>1
  <2>3. <<t, d_model + 1>> \in Seq(Int) /\ <<t, d_model + 1>> # <<t, d_model>>
        BY <1>1
  <2>4. Described(o, <<t, d_model + 1>>, "float32", TRUE, 10, n)
    <3> DEFINE z == <<t, d_model + 1>>
    <3>1. z = [Clean.shape EXCEPT ![2] = @ + 1] /\ z \in Seq(Int) /\ n \in Nat
          BY <1>1, <2>2, <2>3 DEF Described
    <3>2. Clean \in Tensors /\ Clean.dtype = "float32" /\ Clean.finite = TRUE
          /\ Clean.max_abs = 10
          BY <1>1 DEF Described
    <3> HIDE DEF z
    <3>3. o \in Tensors /\ o.shape = z /\ o.max_row_norm = n
          BY <2>1, <3>1, <3>2 DEF Tensors
    <3>4. o.dtype = "float32" /\ o.finite = TRUE /\ o.max_abs = 10
          BY <2>1, <3>2 DEF Tensors
    <3> QED BY <3>3, <3>4 DEF Described, z
  <2>5. check("layer_output", o) = {"extent"}
        BY <1>1, <1>2, <2>3, <2>4 DEF Described, check
  <2>6. check_magnitude(o) = IF n = 20 THEN {"max_row_norm"} ELSE {}
        BY <1>1, <2>4 DEF Described, check_magnitude
  <2>7. Breaks(effect) = {"extent"} /\ Bent = <<t, d_model + 1>>
        BY <1>5 DEF Breaks, Bent
  <2>8. On # {} => found = On
        BY <2>5, <2>7 DEF ActiveViolations, On
  <2>9. On = {} => found = check_magnitude(o) \ Off(column)
        BY <2>5, <2>7 DEF ActiveViolations, On
  <2>10. On = {} => found = {} \/ (ByNorm /\ found = {"max_row_norm"})
        BY <1>5, <2>6, <2>9 DEF ByNorm
  <2>11. On = {} /\ found = {} /\ n = 20 => "max_row_norm" \in Off(column)
        BY <2>6, <2>9
  <2>12. On = {} /\ found = {} => Behind(o)
        BY <1>1, <2>4, <2>7, <2>11 DEF Described, Behind, Harmless
  <2> QED BY <2>8, <2>10, <2>12
<1>6. CASE effect = "rank_collapse"
  <2>1. PICK n \in {10, 20} :
           o = [Clean EXCEPT !.shape = <<@[1] * @[2]>>, !.max_row_norm = n]
        BY <1>6 DEF CorruptedHidden, AttentionEffects
  <2>2. <<<<t, d_model>>[1] * <<t, d_model>>[2]>> = <<t * d_model>>
        BY <1>1
  <2>3. <<t * d_model>> \in Seq(Int) /\ Len(<<t * d_model>>) = 1
    <3>1. t * d_model \in Int
          BY <1>1
    <3> QED BY <3>1
  <2>4. Described(o, <<t * d_model>>, "float32", TRUE, 10, n)
    <3> DEFINE z == <<t * d_model>>
    <3>1. z = <<Clean.shape[1] * Clean.shape[2]>> /\ z \in Seq(Int) /\ n \in Nat
          BY <1>1, <2>2, <2>3 DEF Described
    <3>2. Clean \in Tensors /\ Clean.dtype = "float32" /\ Clean.finite = TRUE
          /\ Clean.max_abs = 10
          BY <1>1 DEF Described
    <3> HIDE DEF z
    <3>3. o \in Tensors /\ o.shape = z /\ o.max_row_norm = n
          BY <2>1, <3>1, <3>2 DEF Tensors
    <3>4. o.dtype = "float32" /\ o.finite = TRUE /\ o.max_abs = 10
          BY <2>1, <3>2 DEF Tensors
    <3> QED BY <3>3, <3>4 DEF Described, z
  <2>5. check("layer_output", o) = {"rank"}
    <3>1. Len(o.shape) = 1 /\ Len(Contract("layer_output")) = 2
          BY <1>1, <1>2, <2>3, <2>4 DEF Described
    <3> QED BY <3>1 DEF Described, check
  <2>6. check_magnitude(o) = IF n = 20 THEN {"max_row_norm"} ELSE {}
        BY <1>1, <2>4 DEF Described, check_magnitude
  <2>7. Breaks(effect) = {"rank"} /\ Bent = <<t * d_model>>
        BY <1>6 DEF Breaks, Bent
  <2>8. On # {} => found = On
        BY <2>5, <2>7 DEF ActiveViolations, On
  <2>9. On = {} => found = check_magnitude(o) \ Off(column)
        BY <2>5, <2>7 DEF ActiveViolations, On
  <2>10. On = {} => found = {} \/ (ByNorm /\ found = {"max_row_norm"})
        BY <1>6, <2>6, <2>9 DEF ByNorm
  <2>11. On = {} /\ found = {} /\ n = 20 => "max_row_norm" \in Off(column)
        BY <2>6, <2>9
  <2>12. On = {} /\ found = {} => Behind(o)
        BY <1>1, <2>4, <2>7, <2>11 DEF Described, Behind, Harmless
  <2> QED BY <2>8, <2>10, <2>12
<1>7. CASE effect = "dtype_promotion"
  <2>1. o = [Clean EXCEPT !.dtype = "float64"]
        BY <1>7 DEF CorruptedHidden, AttentionEffects
  <2>2. Described(o, <<t, d_model>>, "float64", TRUE, 10, 10)
        BY <1>1, <2>1 DEF Described, Tensors
  <2>3. check("layer_output", o) = {"dtype"} /\ check_magnitude(o) = {}
        BY <1>1, <1>2, <2>2 DEF Described, check, check_magnitude
  <2>4. Breaks(effect) = {"dtype"} /\ Bent = <<t, d_model>>
        BY <1>7 DEF Breaks, Bent
  <2>5. found = On
        BY <2>3, <2>4 DEF ActiveViolations, On
  <2>6. On = {} => "dtype" \in Off(column)
        BY <2>4 DEF On
  <2>7. On = {} => Behind(o)
        BY <1>1, <2>2, <2>4, <2>6 DEF Described, Behind, Harmless
  <2> QED BY <2>5, <2>7
<1>8. CASE effect \in {"magnitude_explosion", "magnitude_explosion_single_element"}
  <2> DEFINE large == 1000
  <2>1. o = [Clean EXCEPT !.max_abs = large, !.max_row_norm = large] /\ large \in Nat
        BY <1>8 DEF CorruptedHidden, AttentionEffects
  <2>2. Described(o, <<t, d_model>>, "float32", TRUE, large, large)
    <3> HIDE DEF large
    <3> QED BY <1>1, <2>1 DEF Described, Tensors
  <2>3. check("layer_output", o) = {}
        BY <1>1, <1>2, <2>2 DEF Described, check
  <2>4. check_magnitude(o) = {"max_abs", "max_row_norm"}
        BY <1>1, <2>2 DEF Described, check_magnitude
  <2>5. Breaks(effect) = {"max_abs", "max_row_norm"} /\ Bent = <<t, d_model>>
        BY <1>8 DEF Breaks, Bent
  <2>6. found = On
        BY <2>3, <2>4, <2>5 DEF ActiveViolations, On
  <2>7. On = {} => "max_abs" \in Off(column) /\ "max_row_norm" \in Off(column)
        BY <2>5 DEF On
  <2>8. On = {} => Behind(o)
        BY <1>1, <2>2, <2>5, <2>7 DEF Described, Behind, Harmless
  <2> QED BY <2>6, <2>8
<1>9. Goal
      BY <1>3, <1>4, <1>5, <1>6, <1>7, <1>8 DEF HiddenEffects
<1> QED BY <1>9

\* Where only weights are corrupted the hidden state is not.
LEMMA FaultyWeightsHidden ==
    ASSUME effect \in AttentionEffects, step \in Nat
    PROVE  /\ \A o \in CorruptedHidden(Clean) : o = Clean
           /\ ~Misshapen
           /\ On = {} => Behind(Clean)
           /\ CorruptedHidden(Clean) = {Clean}
<1>1. CorruptedHidden(Clean) = {Clean}
      BY DEF CorruptedHidden, AttentionEffects
<1>2. ~Misshapen /\ Bent = <<t, d_model>>
      BY DEF Misshapen, Bent, AttentionEffects
<1>3. On = {} => Behind(Clean)
  <2>1. Described(Clean, <<t, d_model>>, "float32", TRUE, 10, 10)
        BY CleanShape
  <2>2. Harmless(Clean) /\ Clean.shape = <<t, d_model>>
        BY <2>1 DEF Described, Harmless
  <2> QED BY <1>2, <2>2 DEF Behind
<1> QED BY <1>1, <1>2, <1>3

\* And the other way round.
LEMMA FaultyHiddenWeights ==
    ASSUME effect \in HiddenEffects, NEW w
    PROVE  CorruptedWeights(w) = w /\ effect \notin AttentionEffects
BY DEF CorruptedWeights, HiddenEffects, AttentionEffects

-----------------------------------------------------------------------------
\* What is found at each boundary.
LEMMA Checked ==
    ASSUME PatchInv, pc \in Passing, NEW kind, NEW tensor
    PROVE  Violations(kind, tensor) = ActiveViolations(kind, tensor, Off(column))
<1>1. column \in Columns
      BY DEF PatchInv
<1>2. patch = Patched(column, Len(undo)) /\ Len(undo) = Len(MUTATIONS[column])
      BY DEF PatchInv, Passing
<1> QED BY <1>1, <1>2, ViolationsAreActive

LEMMA AtFault ==
    ASSUME RunInv, pc \in Passing
    PROVE  /\ effect \in HiddenEffects \cup AttentionEffects /\ Injected \in 1..n_layers
           /\ step \in Nat /\ (step = 0 \/ (On = {} /\ ~Misshapen))
<1>1. step \in Nat /\ fault \in 0..Len(FaultCorpus) /\ fault # 0
      BY DEF RunInv, PlaceInv
<1>2. fault \in 1..Len(FaultCorpus)
  <2>1. Len(FaultCorpus) \in Nat
        BY ProbeAssumption
  <2> QED BY <1>1, <2>1
<1>3. step > 0 => On = {} /\ ~Misshapen
      BY DEF RunInv, LaterInv
<1> QED BY <1>1, <1>2, <1>3, Faults

LEMMA AtEmbedding ==
    ASSUME PatchInv, RunInv, pc = "embedding"
    PROVE  Violations("embedding", x) = {}
<1>1. x = Clean /\ pc \in Passing
      BY DEF RunInv, FlowInv, Passing
<1> QED BY <1>1, Checked, CleanPasses

LEMMA AtAttention ==
    ASSUME PatchInv, RunInv, pc = "attention"
    PROVE  LET found == Violations("attention", weights)
           IN  /\ found # {} => /\ layer = Injected /\ effect \in AttentionEffects
                                /\ found = On
               /\ found = {} /\ layer = Injected /\ effect \in AttentionEffects => On = {}
<1> DEFINE found == Violations("attention", weights)
<1>1. pc \in Passing
      BY DEF Passing
<1>2. found = ActiveViolations("attention", weights, Off(column))
      BY <1>1, Checked
<1>3. /\ effect \in HiddenEffects \cup AttentionEffects /\ Injected \in 1..n_layers
      /\ step \in Nat /\ (step = 0 \/ (On = {} /\ ~Misshapen))
      BY <1>1, AtFault
<1>4. layer \in 1..n_layers
      BY DEF RunInv, PlaceInv, InLayer
<1>5. CASE layer < Injected
  <2>1. weights = WeightsOf(x.shape[1], x.finite) /\ x = Clean
        BY <1>3, <1>4, <1>5 DEF RunInv, FlowInv
  <2>2. x.shape[1] = t /\ x.finite = TRUE
    <3>1. x.shape = <<t, d_model>> /\ x.finite = TRUE
          BY <1>3, <2>1, CleanShape DEF Described
    <3> QED BY <3>1
  <2>3. found = {}
        BY <1>2, <2>1, <2>2, WeightsPass
  <2> QED BY <1>3, <1>4, <1>5, <2>3
<1>6. CASE layer = Injected
  <2>1. weights = CorruptedWeights(WeightsOf(t, TRUE))
        BY <1>6 DEF RunInv, FlowInv
  <2>2. CASE effect \in AttentionEffects
        BY <1>2, <1>3, <1>6, <2>1, <2>2, FaultyWeights
  <2>3. CASE effect \in HiddenEffects
    <3>1. weights = WeightsOf(t, TRUE) /\ effect \notin AttentionEffects
          BY <2>1, <2>3, FaultyHiddenWeights
    <3>2. found = {}
          BY <1>2, <3>1, WeightsPass
    <3> QED BY <3>1, <3>2
  <2> QED BY <1>3, <2>2, <2>3
<1>7. CASE layer > Injected
  <2>1. /\ weights = WeightsOf(x.shape[1], x.finite) /\ Behind(x)
        /\ effect \notin {"widened_feature_axis", "rank_collapse"}
        BY <1>3, <1>4, <1>7 DEF RunInv, FlowInv
  <2>2. x.shape[1] # t => "extent" \in Off(column)
    <3>1. CASE effect = "truncated_sequence_axis"
          BY <2>1, <3>1 DEF Behind, On, Breaks
    <3>2. CASE effect # "truncated_sequence_axis"
      <4>1. Bent = <<t, d_model>>
            BY <2>1, <3>2 DEF Bent
      <4> QED BY <2>1, <4>1 DEF Behind
    <3> QED BY <3>1, <3>2
  <2>3. x.finite \in BOOLEAN /\ (~x.finite => "finite" \in Off(column))
        BY <2>1 DEF Behind, Harmless, Tensors
  <2>4. found = {}
        BY <1>2, <2>1, <2>2, <2>3, WeightsPass
  <2> QED BY <1>3, <1>4, <1>7, <2>4
<1> QED BY <1>3, <1>4, <1>5, <1>6, <1>7

LEMMA AtLayerOutput ==
    ASSUME PatchInv, RunInv, pc = "layer_output",
           NEW found, found = Violations("layer_output", x)
    PROVE  /\ found # {} => /\ layer = Injected /\ effect \notin AttentionEffects
                            /\ step = 0
                            /\ \/ On # {} /\ found = On
                               \/ On = {} /\ ByNorm /\ found = {"max_row_norm"}
           /\ found = {} => /\ layer < Injected => x = Clean
                            /\ layer >= Injected => Behind(x)
<1>1. pc \in Passing
      BY DEF Passing
<1>2. found = ActiveViolations("layer_output", x, Off(column))
      BY <1>1, Checked
<1>3. /\ effect \in HiddenEffects \cup AttentionEffects /\ Injected \in 1..n_layers
      /\ step \in Nat /\ (step = 0 \/ (On = {} /\ ~Misshapen))
      BY <1>1, AtFault
<1>4. layer \in 1..n_layers
      BY DEF RunInv, PlaceInv, InLayer
<1>5. CASE layer < Injected
  <2>1. x = Clean
        BY <1>5 DEF RunInv, FlowInv
  <2>2. found = {}
        BY <1>2, <2>1, CleanPasses
  <2> QED BY <1>3, <1>4, <1>5, <2>1, <2>2
<1>6. CASE layer = Injected /\ effect \in HiddenEffects
  <2>1. x \in CorruptedHidden(Clean)
        BY <1>6 DEF RunInv, FlowInv
  <2>2. /\ On # {} => found = On
        /\ On = {} => found = {} \/ (ByNorm /\ found = {"max_row_norm"})
        /\ found = {} => Behind(x)
        BY <1>2, <1>3, <1>6, <2>1, FaultyHidden
  <2>3. ByNorm => Misshapen
        BY DEF ByNorm, Misshapen
  <2>4. effect \notin AttentionEffects
        BY <1>6, FaultyHiddenWeights
  <2>5. found # {} => /\ step = 0
                      /\ \/ On # {} /\ found = On
                         \/ On = {} /\ ByNorm /\ found = {"max_row_norm"}
        BY <1>3, <2>2, <2>3
  <2> QED BY <1>3, <1>4, <1>6, <2>2, <2>4, <2>5
<1>7. CASE layer = Injected /\ effect \in AttentionEffects
  <2>1. x \in CorruptedHidden(Clean) /\ On = {}
        BY <1>7 DEF RunInv, FlowInv
  <2>2. x = Clean /\ Behind(x)
        BY <1>3, <1>7, <2>1, FaultyWeightsHidden
  <2>3. found = {}
        BY <1>2, <2>2, CleanPasses
  <2> QED BY <2>2, <2>3
<1>8. CASE layer > Injected
  <2>1. Behind(x)
        BY <1>8 DEF RunInv, FlowInv
  <2>2. found = {}
        BY <1>2, <2>1, BehindPasses
  <2> QED BY <1>3, <1>4, <1>8, <2>1, <2>2
<1> QED BY <1>3, <1>4, <1>5, <1>6, <1>7, <1>8

LEMMA AtFinalHidden ==
    ASSUME PatchInv, RunInv, pc = "final_hidden"
    PROVE  Violations("final_hidden", x) = {}
<1>1. Behind(x) /\ pc \in Passing
      BY DEF RunInv, FlowInv, Passing
<1> QED BY <1>1, Checked, BehindPasses

LEMMA AtLogits ==
    ASSUME PatchInv, RunInv, pc = "logits"
    PROVE  Violations("logits", x) = {}
<1>1. Harmless(x) /\ x.shape = <<t, vocab_size>> /\ pc \in Passing
      BY DEF RunInv, FlowInv, Passing
<1> QED BY <1>1, Checked, LogitsPass

-----------------------------------------------------------------------------
\* RunInv, step by step.
LEMMA RunInit == Init => RunInv
<1> SUFFICES ASSUME Init PROVE RunInv
    OBVIOUS
<1>1. pc = "disable" /\ step = 0 /\ offset = 0 /\ inspections = 0 /\ fault = 0
      BY DEF Init
<1>2. Len(FaultCorpus) \in Nat
      BY ProbeAssumption
<1> QED BY <1>1, <1>2 DEF RunInv, PlaceInv, LaterInv, CountInv, FlowInv, Passing, InLayer

\* Out of generate there is nothing to keep.
LEMMA Idle ==
    ASSUME RunInv, pc' \in {"disable", "next", "restore", "verdict", "done"},
           UNCHANGED <<step, offset>>, inspections' \in Nat,
           fault' \in 0..Len(FaultCorpus)
    PROVE  RunInv'
BY DEF RunInv, PlaceInv, LaterInv, CountInv, FlowInv, Passing, InLayer

\* What the steps within a pass leave as it is.
LEMMA Frame ==
    ASSUME UNCHANGED <<column, fault, step, offset>>
    PROVE  /\ effect' = effect /\ On' = On /\ Injected' = Injected
           /\ (Misshapen' <=> Misshapen) /\ t' = t /\ Clean' = Clean /\ Bent' = Bent
           /\ Off(column)' = Off(column)
<1>1. effect' = effect /\ Injected' = Injected /\ t' = t
      BY DEF effect, Injected, t
<1>2. Off(column)' = Off(column)
      BY DEF Off
<1>3. On' = On
      BY <1>1, <1>2 DEF On
<1>4. (Misshapen' <=> Misshapen) /\ Clean' = Clean /\ Bent' = Bent
      BY <1>1 DEF Misshapen, Clean, Hidden, Bent
<1> QED BY <1>1, <1>2, <1>3, <1>4

LEMMA FrameHarmless ==
    ASSUME UNCHANGED <<column, fault, step, offset>>
    PROVE  (Harmless(x)' <=> Harmless(x')) /\ (Behind(x)' <=> Behind(x'))
<1>1. Off(column)' = Off(column) /\ On' = On /\ Bent' = Bent
      BY Frame
<1>2. Harmless(x)' <=> Harmless(x')
      BY <1>1 DEF Harmless
<1> QED BY <1>1, <1>2 DEF Behind

LEMMA ClassifyStep ==
    ASSUME RunInv, Classify
    PROVE  RunInv'
<1>1. /\ pc' = "loop" /\ step' = 0 /\ offset' = 0 /\ inspections' = 0
      /\ fault' = fault + 1 /\ fault < Len(FaultCorpus)
      BY DEF Classify
<1>2. fault' \in 0..Len(FaultCorpus) /\ fault' # 0
  <2>1. Len(FaultCorpus) \in Nat /\ fault \in 0..Len(FaultCorpus)
        BY ProbeAssumption DEF RunInv, PlaceInv
  <2> QED BY <1>1, <2>1
<1> QED BY <1>1, <1>2 DEF RunInv, PlaceInv, LaterInv, CountInv, FlowInv, Passing, InLayer

LEMMA EmbedStep ==
    ASSUME RunInv, Embed
    PROVE  RunInv'
<1>1. /\ pc = "loop" /\ pc' = "embedding" /\ x' = Clean /\ layer' = 1
      /\ UNCHANGED <<column, fault, step, offset, inspections>>
      BY DEF Embed, Local, Clean
<1>2. On' = On /\ (Misshapen' <=> Misshapen) /\ Clean' = Clean
      BY <1>1, Frame
<1>3. PlaceInv'
      BY <1>1 DEF RunInv, PlaceInv, Passing, InLayer
<1>4. LaterInv'
      BY <1>1, <1>2 DEF RunInv, LaterInv, Passing
<1>5. CountInv'
      BY <1>1 DEF RunInv, CountInv
<1>6. FlowInv'
      BY <1>1, <1>2 DEF FlowInv
<1> QED BY <1>3, <1>4, <1>5, <1>6 DEF RunInv

\* A layer computes in float32 and leaves everything else as it came.
LEMMA LayerOut ==
    ASSUME NEW o \in Tensors
    PROVE  LET out == [o EXCEPT !.dtype = "float32"]
           IN  /\ out \in Tensors /\ out.shape = o.shape /\ out.dtype = "float32"
               /\ out.finite = o.finite /\ out.max_abs = o.max_abs
               /\ out.max_row_norm = o.max_row_norm
BY DEF Tensors

LEMMA LayerBehind ==
    ASSUME NEW o, Behind(o)
    PROVE  Behind([o EXCEPT !.dtype = "float32"])
<1> DEFINE out == [o EXCEPT !.dtype = "float32"]
<1>1. o \in Tensors
      BY DEF Behind, Harmless
<1>2. /\ out \in Tensors /\ out.shape = o.shape /\ out.dtype = "float32"
      /\ out.finite = o.finite /\ out.max_abs = o.max_abs
      /\ out.max_row_norm = o.max_row_norm
      BY <1>1, LayerOut
<1> HIDE DEF out
<1>3. Harmless(out)
      BY <1>2 DEF Behind, Harmless
<1>4. Behind(out)
      BY <1>2, <1>3 DEF Behind
<1> QED BY <1>4 DEF out

LEMMA LayerClean ==
    ASSUME step \in Nat
    PROVE  [Clean EXCEPT !.dtype = "float32"] = Clean
<1> DEFINE o == Clean
<1>1. o \in Tensors /\ o.dtype = "float32"
      BY CleanShape DEF Described
<1> HIDE DEF o
<1>2. [o EXCEPT !.dtype = "float32"] = o
      BY <1>1 DEF Tensors
<1> QED BY <1>2 DEF o

LEMMA LayerStep ==
    ASSUME RunInv, LayerRuns
    PROVE  RunInv'
<1> DEFINE out == [x EXCEPT !.dtype = "float32"]
<1>1. /\ pc = "layer" /\ pc' = "attention" /\ Len(x.shape) = 2 /\ x.shape[2] = d_model
      /\ layer = Injected => /\ x' \in CorruptedHidden(out)
                             /\ weights' = CorruptedWeights(Attention)
      /\ layer # Injected => x' = out /\ weights' = Attention
      /\ UNCHANGED <<column, fault, step, offset, layer, inspections>>
      BY DEF LayerRuns, Local, Injected
<1>2. /\ effect' = effect /\ On' = On /\ Injected' = Injected
      /\ (Misshapen' <=> Misshapen) /\ t' = t /\ Clean' = Clean
      /\ (Behind(x)' <=> Behind(x'))
      BY <1>1, Frame, FrameHarmless
<1>3. /\ effect \in HiddenEffects \cup AttentionEffects /\ Injected \in 1..n_layers
      /\ step \in Nat
      BY <1>1, AtFault DEF Passing
<1>4. layer \in 1..n_layers
      BY <1>1 DEF RunInv, PlaceInv, InLayer
<1>5. PlaceInv'
      BY <1>1 DEF RunInv, PlaceInv, Passing, InLayer
<1>6. LaterInv'
      BY <1>1, <1>2 DEF RunInv, LaterInv, Passing
<1>7. CountInv'
      BY <1>1 DEF RunInv, CountInv
<1>8. layer <= Injected => x = Clean /\ out = Clean
      BY <1>1, <1>3, LayerClean DEF RunInv, FlowInv
<1>9. layer > Injected => Behind(x) /\ Behind(out)
  <2> HIDE DEF out
  <2>1. layer > Injected => ~(layer <= Injected)
        BY <1>3, <1>4
  <2>2. layer > Injected => Behind(x)
        BY <1>1, <2>1 DEF RunInv, FlowInv
  <2> QED BY <2>2, LayerBehind DEF out
<1>10. Attention = WeightsOf(x.shape[1], x.finite)
      BY DEF Attention, WeightsOf
<1>11. layer <= Injected => Attention = WeightsOf(t, TRUE)
  <2>1. Clean.shape = <<t, d_model>> /\ Clean.finite = TRUE
        BY <1>3, CleanShape DEF Described
  <2>2. Clean.shape[1] = t
        BY <2>1
  <2> QED BY <1>8, <1>10, <2>1, <2>2
<1>12. layer # Injected => /\ x'.shape = x.shape /\ x'.finite = x.finite
  <2>1. x \in Tensors
    <3>1. CASE layer <= Injected
          BY <1>3, <1>8, <3>1, CleanShape DEF Described
    <3>2. CASE layer > Injected
          BY <1>9, <3>2 DEF Behind, Harmless
    <3> QED BY <1>3, <1>4, <3>1, <3>2
  <2> QED BY <1>1, <2>1, LayerOut
<1>13. layer > Injected => effect \notin {"widened_feature_axis", "rank_collapse"}
  <2> SUFFICES ASSUME layer > Injected,
                      effect \in {"widened_feature_axis", "rank_collapse"}
               PROVE  FALSE
      OBVIOUS
  <2>1. x.shape = Bent
        BY <1>9 DEF Behind
  <2>2. CASE effect = "widened_feature_axis"
    <3>1. x.shape = <<t, d_model + 1>>
          BY <2>1, <2>2 DEF Bent
    <3>2. d_model + 1 # d_model
          BY ProbeAssumption
    <3> QED BY <1>1, <3>1, <3>2
  <2>3. CASE effect = "rank_collapse"
    <3>1. x.shape = <<t * d_model>>
          BY <2>1, <2>3 DEF Bent
    <3> QED BY <1>1, <3>1
  <2> QED BY <2>2, <2>3
<1> HIDE DEF out
<1>14. /\ layer' < Injected' => x' = Clean'
       /\ layer' = Injected' => x' \in CorruptedHidden(Clean)'
       /\ layer' > Injected' => Behind(x)'
  <2>1. CorruptedHidden(Clean)' = CorruptedHidden(Clean)
        BY <1>2 DEF CorruptedHidden
  <2>2. layer < Injected => x' = Clean
        BY <1>1, <1>3, <1>4, <1>8
  <2>3. layer = Injected => x' \in CorruptedHidden(Clean)
        BY <1>1, <1>3, <1>8
  <2>4. layer > Injected => Behind(x')
        BY <1>1, <1>3, <1>4, <1>9
  <2> QED BY <1>1, <1>2, <2>1, <2>2, <2>3, <2>4
<1>15. /\ layer' = Injected' => weights' = CorruptedWeights(WeightsOf(t, TRUE))'
       /\ layer' # Injected' => weights' = WeightsOf(x.shape[1], x.finite)'
  <2>1. CorruptedWeights(WeightsOf(t, TRUE))' = CorruptedWeights(WeightsOf(t, TRUE))
        BY <1>1, <1>2 DEF CorruptedWeights, WeightsOf
  <2>2. WeightsOf(x.shape[1], x.finite)' = WeightsOf(x'.shape[1], x'.finite)
        BY <1>1 DEF WeightsOf
  <2>3. layer = Injected => weights' = CorruptedWeights(WeightsOf(t, TRUE))
        BY <1>1, <1>3, <1>11
  <2>4. layer # Injected => weights' = WeightsOf(x'.shape[1], x'.finite)
        BY <1>1, <1>10, <1>12
  <2> QED BY <1>1, <1>2, <2>1, <2>2, <2>3, <2>4
<1>16. FlowInv'
      BY <1>1, <1>2, <1>13, <1>14, <1>15 DEF FlowInv
<1> QED BY <1>5, <1>6, <1>7, <1>16 DEF RunInv

\* The final norm leaves less beyond the envelope than came in.
LEMMA NormBehind ==
    ASSUME NEW o, Behind(o), NEW m \in {10, IF o.max_abs > 15 THEN 20 ELSE 10}
    PROVE  Behind([o EXCEPT !.dtype = "float32", !.max_abs = m, !.max_row_norm = 10])
<1> DEFINE out == [o EXCEPT !.dtype = "float32", !.max_abs = m, !.max_row_norm = 10]
<1>1. o \in Tensors
      BY DEF Behind, Harmless
<1>2. m \in Nat /\ (m > 15 => o.max_abs > 15)
      OBVIOUS
<1>3. /\ out \in Tensors /\ out.shape = o.shape /\ out.dtype = "float32"
      /\ out.finite = o.finite /\ out.max_abs = m /\ out.max_row_norm = 10
      BY <1>1, <1>2 DEF Tensors
<1> HIDE DEF out
<1>4. Harmless(out)
      BY <1>2, <1>3 DEF Behind, Harmless
<1>5. Behind(out)
      BY <1>3, <1>4 DEF Behind
<1> QED BY <1>5 DEF out

LEMMA NormStep ==
    ASSUME RunInv, FinalNorm
    PROVE  RunInv'
<1>1. /\ pc = "norm" /\ pc' = "final_hidden"
      /\ \E m \in {10, IF x.max_abs > 15 THEN 20 ELSE 10} :
            x' = [x EXCEPT !.dtype = "float32", !.max_abs = m, !.max_row_norm = 10]
      /\ UNCHANGED <<column, fault, step, offset, layer, inspections>>
      BY DEF FinalNorm, Local
<1>2. On' = On /\ (Misshapen' <=> Misshapen) /\ (Behind(x)' <=> Behind(x'))
      BY <1>1, Frame, FrameHarmless
<1>3. Behind(x)
      BY <1>1 DEF RunInv, FlowInv
<1>4. Behind(x')
      BY <1>1, <1>3, NormBehind
<1>5. PlaceInv'
      BY <1>1 DEF RunInv, PlaceInv, Passing, InLayer
<1>6. LaterInv'
      BY <1>1, <1>2 DEF RunInv, LaterInv, Passing
<1>7. CountInv'
      BY <1>1 DEF CountInv
<1>8. FlowInv'
      BY <1>1, <1>2, <1>4 DEF FlowInv
<1> QED BY <1>5, <1>6, <1>7, <1>8 DEF RunInv

\* A wrong shape is never the one the head expects.
LEMMA BentIsWrong ==
    ASSUME step \in Nat, Misshapen
    PROVE  Bent # <<t, d_model>>
<1>1. t \in Nat \ {0} /\ d_model \in Nat \ {0}
      BY CleanShape
<1>2. CASE effect = "truncated_sequence_axis"
  <2>1. Bent = <<t - 1, d_model>> /\ t - 1 # t
        BY <1>1, <1>2 DEF Bent
  <2> QED BY <2>1
<1>3. CASE effect = "widened_feature_axis"
  <2>1. Bent = <<t, d_model + 1>> /\ d_model + 1 # d_model
        BY <1>1, <1>3 DEF Bent
  <2> QED BY <2>1
<1>4. CASE effect = "rank_collapse"
  <2>1. Len(Bent) = 1 /\ Len(<<t, d_model>>) = 2
        BY <1>4 DEF Bent
  <2> QED BY <2>1
<1> QED BY <1>2, <1>3, <1>4 DEF Misshapen

LEMMA HeadStep ==
    ASSUME RunInv, OutputHead
    PROVE  RunInv'
<1>1. /\ pc = "head" /\ pc' = "logits" /\ x.shape = <<t, d_model>>
      /\ x' = [x EXCEPT !.shape[2] = vocab_size]
      /\ UNCHANGED <<column, fault, step, offset, layer, inspections>>
      BY DEF OutputHead, Local
<1>2. /\ On' = On /\ (Misshapen' <=> Misshapen) /\ (Harmless(x)' <=> Harmless(x'))
      /\ t' = t
      BY <1>1, Frame, FrameHarmless
<1>3. Behind(x) /\ step \in Nat
      BY <1>1 DEF RunInv, FlowInv, PlaceInv
<1>4. On = {} /\ ~Misshapen
      BY <1>1, <1>3, BentIsWrong DEF Behind
<1>5. t \in Nat \ {0} /\ vocab_size \in Nat
      BY <1>3, CleanShape, ProbeAssumption
<1> DEFINE z == <<t, vocab_size>>
<1>6. [x.shape EXCEPT ![2] = vocab_size] = z /\ z \in Seq(Int)
      BY <1>1, <1>5
<1> HIDE DEF z
<1>7. x \in Tensors
      BY <1>3 DEF Behind, Harmless
<1>8. /\ x' \in Tensors /\ x'.shape = z /\ x'.dtype = x.dtype /\ x'.finite = x.finite
      /\ x'.max_abs = x.max_abs /\ x'.max_row_norm = x.max_row_norm
      BY <1>1, <1>6, <1>7 DEF Tensors
<1>9. Harmless(x')
      BY <1>3, <1>8 DEF Behind, Harmless
<1>10. PlaceInv'
      BY <1>1 DEF RunInv, PlaceInv, Passing, InLayer
<1>11. LaterInv'
      BY <1>1, <1>2 DEF RunInv, LaterInv, Passing
<1>12. CountInv'
      BY <1>1 DEF CountInv
<1>13. x'.shape = <<t', vocab_size>>
      BY <1>2, <1>8 DEF z
<1>14. FlowInv'
      BY <1>1, <1>2, <1>4, <1>9, <1>13 DEF FlowInv
<1> QED BY <1>10, <1>11, <1>12, <1>14 DEF RunInv

LEMMA GateStep ==
    ASSUME RunInv, Gate
    PROVE  RunInv'
<1>1. /\ pc = "gate" /\ pc' = "loop" /\ step' = step + 1 /\ offset' = t_kv
      /\ UNCHANGED <<column, fault, layer, inspections>>
      BY DEF Gate, Local
<1>2. On = {} /\ ~Misshapen /\ step \in Nat /\ offset \in Nat
      BY <1>1 DEF RunInv, FlowInv, PlaceInv
<1>3. On' = On /\ (Misshapen' <=> Misshapen)
      BY <1>1 DEF On, Misshapen, effect, Off
<1>4. step' \in Nat \ {0} /\ offset' \in Nat
      BY <1>1, <1>2, Tokens DEF t_kv
<1>5. PlaceInv'
      BY <1>1, <1>4 DEF RunInv, PlaceInv, Passing, InLayer
<1>6. LaterInv'
      BY <1>2, <1>3 DEF LaterInv
<1>7. CountInv' /\ FlowInv'
      BY <1>1, <1>4 DEF CountInv, FlowInv
<1> QED BY <1>5, <1>6, <1>7 DEF RunInv

\* A boundary at which nothing is found.
LEMMA PassStep ==
    ASSUME PatchInv, RunInv, PublishState, pc' # "next"
    PROVE  RunInv'
<1>1. /\ UNCHANGED <<column, fault, step, offset, x, weights>>
      /\ inspections' = inspections + 1
      BY DEF PublishState, Publish
<1>2. /\ effect' = effect /\ On' = On /\ Injected' = Injected
      /\ (Misshapen' <=> Misshapen) /\ t' = t /\ Clean' = Clean
      /\ (Behind(x)' <=> Behind(x)) /\ (Harmless(x)' <=> Harmless(x))
      /\ CorruptedHidden(Clean)' = CorruptedHidden(Clean)
  <2>1. CorruptedHidden(Clean)' = CorruptedHidden(Clean)
    <3>1. effect' = effect /\ Clean' = Clean
          BY <1>1, Frame
    <3> QED BY <3>1 DEF CorruptedHidden
  <2>2. (Behind(x)' <=> Behind(x)) /\ (Harmless(x)' <=> Harmless(x))
        BY <1>1, FrameHarmless
  <2> QED BY <1>1, <2>1, <2>2, Frame
<1>3. inspections \in Nat /\ inspections' \in Nat /\ n_layers \in Nat \ {0}
      BY <1>1, ProbeAssumption DEF RunInv, PlaceInv
<1>4. CASE pc = "embedding"
  <2>1. pc' = "layer" /\ layer' = layer
        BY <1>4 DEF PublishState, Publish, Ends
  <2>2. layer = 1 /\ x = Clean /\ Injected \in 1..n_layers
        BY <1>4, AtFault DEF RunInv, FlowInv, Passing
  <2>3. PlaceInv'
        BY <1>1, <1>3, <1>4, <2>1, <2>2 DEF RunInv, PlaceInv, Passing, InLayer
  <2>4. LaterInv'
        BY <1>1, <1>2, <1>4, <2>1 DEF RunInv, LaterInv, Passing
  <2>5. CountInv'
        BY <1>1, <1>4, <2>1, <2>2 DEF RunInv, CountInv
  <2>6. FlowInv'
        BY <1>1, <1>2, <2>1, <2>2 DEF FlowInv
  <2> QED BY <2>3, <2>4, <2>5, <2>6 DEF RunInv
<1>5. CASE pc = "attention"
  <2>1. pc' = "layer_output" /\ layer' = layer /\ Violations("attention", weights) = {}
        BY <1>5 DEF PublishState, Publish, Ends
  <2>2. layer = Injected /\ effect \in AttentionEffects => On = {}
        BY <1>5, <2>1, AtAttention
  <2>3. PlaceInv'
        BY <1>1, <1>3, <1>5, <2>1 DEF RunInv, PlaceInv, Passing, InLayer
  <2>4. LaterInv'
        BY <1>1, <1>2, <1>5, <2>1 DEF RunInv, LaterInv, Passing
  <2>5. CountInv'
    <3>1. layer \in Nat
          BY <1>5 DEF RunInv, PlaceInv, InLayer
    <3> QED BY <1>1, <1>3, <1>5, <2>1, <3>1 DEF RunInv, CountInv
  <2>6. FlowInv'
        BY <1>1, <1>2, <1>5, <2>1, <2>2 DEF RunInv, FlowInv
  <2> QED BY <2>3, <2>4, <2>5, <2>6 DEF RunInv
<1>6. CASE pc = "layer_output"
  <2>1. /\ \/ layer < n_layers /\ pc' = "layer" /\ layer' = layer + 1
           \/ layer = n_layers /\ pc' = "norm" /\ layer' = layer
        /\ Violations("layer_output", x) = {}
        BY <1>6 DEF PublishState, Publish, Ends
  <2>2. (layer < Injected => x = Clean) /\ (layer >= Injected => Behind(x))
        BY <1>6, <2>1, AtLayerOutput
  <2>3. layer \in 1..n_layers /\ Injected \in 1..n_layers
        BY <1>6, AtFault DEF RunInv, PlaceInv, InLayer, Passing
  <2>4. PlaceInv'
        BY <1>1, <1>3, <1>6, <2>1, <2>3 DEF RunInv, PlaceInv, Passing, InLayer
  <2>5. LaterInv'
        BY <1>1, <1>2, <1>6, <2>1 DEF RunInv, LaterInv, Passing
  <2>6. CountInv'
        BY <1>1, <1>3, <1>6, <2>1, <2>3 DEF RunInv, CountInv
  <2>7. CASE pc' = "layer"
    <3>1. layer' = layer + 1
          BY <2>1, <2>7
    <3>2. layer' <= Injected <=> layer < Injected
          BY <2>3, <3>1
    <3>3. layer' <= Injected => x = Clean
          BY <2>2, <3>2
    <3>4. ~(layer' <= Injected) => Behind(x)
          BY <2>2, <2>3, <3>1
    <3>5. FlowInv'
          BY <1>1, <1>2, <2>7, <3>3, <3>4 DEF FlowInv
    <3> QED BY <2>4, <2>5, <2>6, <3>5 DEF RunInv
  <2>8. CASE pc' = "norm"
    <3>1. Behind(x)
          BY <2>1, <2>2, <2>3, <2>8
    <3>2. FlowInv'
          BY <1>1, <1>2, <2>8, <3>1 DEF FlowInv
    <3> QED BY <2>4, <2>5, <2>6, <3>2 DEF RunInv
  <2> QED BY <2>1, <2>7, <2>8
<1>7. CASE pc = "final_hidden"
  <2>1. pc' = "head" /\ layer' = layer /\ Behind(x)
        BY <1>7 DEF PublishState, Publish, Ends, RunInv, FlowInv
  <2>2. PlaceInv'
        BY <1>1, <1>3, <1>7, <2>1 DEF RunInv, PlaceInv, Passing, InLayer
  <2>3. LaterInv'
        BY <1>1, <1>2, <1>7, <2>1 DEF RunInv, LaterInv, Passing
  <2>4. CountInv' /\ FlowInv'
        BY <1>1, <1>2, <2>1 DEF CountInv, FlowInv
  <2> QED BY <2>2, <2>3, <2>4 DEF RunInv
<1>8. CASE pc = "logits"
  <2>1. pc' = "gate" /\ layer' = layer /\ On = {} /\ ~Misshapen
        BY <1>8 DEF PublishState, Publish, Ends, RunInv, FlowInv
  <2>2. PlaceInv'
        BY <1>1, <1>3, <1>8, <2>1 DEF RunInv, PlaceInv, Passing, InLayer
  <2>3. LaterInv'
        BY <1>1, <1>2, <1>8, <2>1 DEF RunInv, LaterInv, Passing
  <2>4. CountInv' /\ FlowInv'
        BY <1>1, <1>2, <2>1 DEF CountInv, FlowInv
  <2> QED BY <2>2, <2>3, <2>4 DEF RunInv
<1> QED BY <1>4, <1>5, <1>6, <1>7, <1>8 DEF PublishState, Publish

-----------------------------------------------------------------------------
\* The two properties, said with the abbreviations above.
Measured(c) ==
    /\ On # {} => c.outcome = "CAUGHT" /\ c.rules = On
    /\ On = {} => \/ c.outcome = IF Misshapen THEN "CRASH" ELSE "SILENT"
                  \/ ByNorm /\ c = [outcome |-> "CAUGHT", rules |-> {"max_row_norm"}]
Early(c) ==
    c.outcome = "CAUGHT" =>
        /\ step = 0
        /\ inspections = 2 * Injected + IF effect \in AttentionEffects THEN 0 ELSE 1

LEMMA Restated ==
    /\ EachTierIsMeasured <=> (pc = "next" => Measured(cell))
    /\ CaughtWhereInjected <=> (pc = "next" => Early(cell))
<1>1. EachTierIsMeasured <=> (pc = "next" => Measured(cell))
      BY DEF EachTierIsMeasured, Measured, On, Misshapen, ByNorm
<1>2. CaughtWhereInjected <=> (pc = "next" => Early(cell))
      BY DEF CaughtWhereInjected, Early, Injected
<1> QED BY <1>1, <1>2

OutcomeInv == pc = "next" => Measured(cell) /\ Early(cell)

\* The budget is used up.
LEMMA SilentStep ==
    ASSUME RunInv, BudgetExhausted
    PROVE  OutcomeInv'
<1>1. /\ pc = "loop" /\ step = max_new_tokens
      /\ cell' = [outcome |-> "SILENT", rules |-> {}]
      /\ UNCHANGED <<column, fault, step, offset>>
      BY DEF BudgetExhausted, Ends, Local
<1>2. On = {} /\ ~Misshapen
  <2>1. step > 0
        BY <1>1, ProbeAssumption
  <2> QED BY <1>1, <2>1 DEF RunInv, LaterInv, Passing
<1>3. On' = On /\ (Misshapen' <=> Misshapen)
      BY <1>1, Frame
<1>4. cell'.outcome = "SILENT"
      BY <1>1
<1>5. Measured(cell)' /\ Early(cell)'
      BY <1>2, <1>3, <1>4 DEF Measured, Early
<1> QED BY <1>5 DEF OutcomeInv

\* A layer, the norm or the head raises.
LEMMA CrashStep ==
    ASSUME RunInv, Crash
    PROVE  OutcomeInv'
<1>1. /\ pc \in {"layer", "norm", "head"}
      /\ pc = "layer" => ~(Len(x.shape) = 2 /\ x.shape[2] = d_model)
      /\ pc = "norm" => x.shape[Len(x.shape)] # d_model
      /\ pc = "head" => x.shape # <<t, d_model>>
      /\ cell' = [outcome |-> "CRASH", rules |-> {}]
      /\ UNCHANGED <<column, fault, step, offset>>
      BY DEF Crash, Ends, Local
<1>2. x.shape # <<t, d_model>>
  <2>1. /\ Len(<<t, d_model>>) = 2 /\ <<t, d_model>>[2] = d_model
        OBVIOUS
  <2> SUFFICES ASSUME x.shape = <<t, d_model>> PROVE FALSE
      OBVIOUS
  <2>2. Len(x.shape) = 2 /\ x.shape[2] = d_model
        BY <2>1
  <2> QED BY <1>1, <2>2
<1>3. step \in Nat
      BY DEF RunInv, PlaceInv
<1>4. Behind(x)
  <2>1. pc = "layer" => x = Clean \/ Behind(x)
        BY DEF RunInv, FlowInv
  <2>2. x # Clean
        BY <1>2, <1>3, CleanShape DEF Described
  <2> QED BY <1>1, <2>1, <2>2 DEF RunInv, FlowInv
<1>5. On = {} /\ Misshapen
  <2>1. Bent # <<t, d_model>>
        BY <1>2, <1>4 DEF Behind
  <2>2. Misshapen
        BY <2>1 DEF Bent, Misshapen
  <2> QED BY <1>4, <2>2 DEF Behind
<1>6. On' = On /\ (Misshapen' <=> Misshapen)
      BY <1>1, Frame
<1>7. cell'.outcome = "CRASH"
      BY <1>1
<1>8. Measured(cell)' /\ Early(cell)'
      BY <1>5, <1>6, <1>7 DEF Measured, Early
<1> QED BY <1>8 DEF OutcomeInv

\* A boundary at which something is found.
LEMMA CaughtStep ==
    ASSUME PatchInv, RunInv, PublishState, pc' = "next"
    PROVE  OutcomeInv'
<1>1. /\ UNCHANGED <<column, fault, step, offset>>
      /\ inspections' = inspections + 1
      BY DEF PublishState, Publish
<1>2. \/ /\ pc \in {"embedding", "layer_output", "final_hidden", "logits"}
         /\ Violations(pc, x) # {}
         /\ cell' = [outcome |-> "CAUGHT", rules |-> Violations(pc, x)]
      \/ /\ pc = "attention" /\ Violations("attention", weights) # {}
         /\ cell' = [outcome |-> "CAUGHT", rules |-> Violations("attention", weights)]
      BY DEF PublishState, Publish, Ends
<1>3. pc \notin {"embedding", "final_hidden", "logits"}
      BY <1>2, AtEmbedding, AtFinalHidden, AtLogits
<1>4. /\ effect' = effect /\ On' = On /\ Injected' = Injected
      /\ (Misshapen' <=> Misshapen) /\ Off(column)' = Off(column)
      BY <1>1, Frame
<1>5. (ByNorm' <=> ByNorm)
      BY <1>4 DEF ByNorm
<1>6. PICK found : /\ found # {} /\ cell' = [outcome |-> "CAUGHT", rules |-> found]
                   /\ \/ pc = "layer_output" /\ found = Violations("layer_output", x)
                      \/ pc = "attention" /\ found = Violations("attention", weights)
      BY <1>2, <1>3
<1>7. cell'.outcome = "CAUGHT" /\ cell'.rules = found
      BY <1>6
<1>8. layer \in 1..n_layers /\ inspections \in Nat /\ n_layers \in Nat \ {0}
      BY <1>6, ProbeAssumption DEF RunInv, PlaceInv, InLayer
<1>9. CASE pc = "attention"
  <2>1. found = Violations("attention", weights)
        BY <1>6, <1>9
  <2>2. layer = Injected /\ effect \in AttentionEffects /\ found = On
        BY <1>6, <1>9, <2>1, AtAttention
  <2>3. step = 0
        BY <1>6, <1>9, <2>2, AtFault DEF Passing
  <2>4. inspections = 2 * layer - 1
        BY <1>9, <2>3 DEF RunInv, CountInv
  <2>5. inspections' = 2 * layer
        BY <1>1, <1>8, <2>4
  <2>6. Measured(cell)'
        BY <1>4, <1>6, <1>7, <2>2 DEF Measured
  <2>7. inspections' = 2 * Injected' + IF effect' \in AttentionEffects THEN 0 ELSE 1
        BY <1>4, <1>8, <2>2, <2>5
  <2>8. Early(cell)'
        BY <1>1, <2>3, <2>7 DEF Early
  <2> QED BY <2>6, <2>8 DEF OutcomeInv
<1>10. CASE pc = "layer_output"
  <2>1. found = Violations("layer_output", x)
        BY <1>6, <1>10
  <2>2. /\ layer = Injected /\ effect \notin AttentionEffects /\ step = 0
        /\ \/ On # {} /\ found = On
           \/ On = {} /\ ByNorm /\ found = {"max_row_norm"}
        BY <1>6, <1>10, <2>1, AtLayerOutput
  <2>3. inspections = 2 * layer
        BY <1>10, <2>2 DEF RunInv, CountInv
  <2>4. Measured(cell)'
    <3>1. CASE On # {}
          BY <1>4, <1>7, <2>2, <3>1 DEF Measured
    <3>2. CASE On = {}
          BY <1>4, <1>5, <1>6, <2>2, <3>2 DEF Measured
    <3> QED BY <3>1, <3>2
  <2>5. inspections' = 2 * Injected' + IF effect' \in AttentionEffects THEN 0 ELSE 1
        BY <1>1, <1>4, <1>8, <2>2, <2>3
  <2>6. Early(cell)'
        BY <1>1, <2>2, <2>5 DEF Early
  <2> QED BY <2>4, <2>6 DEF OutcomeInv
<1> QED BY <1>6, <1>9, <1>10

-----------------------------------------------------------------------------
\* Everything together.
ProbeInv == PatchInv /\ RunInv /\ OutcomeInv

LEMMA ProbeStep ==
    ASSUME ProbeInv, [Next]_vars
    PROVE  ProbeInv'
<1> USE DEF ProbeInv
<1>1. inspections \in Nat /\ fault \in 0..Len(FaultCorpus) /\ Len(FaultCorpus) \in Nat
      BY ProbeAssumption DEF RunInv, PlaceInv
<1>2. CASE Disable
  <2>1. pc' = "disable" /\ UNCHANGED <<step, offset, inspections, fault>>
        BY <1>2 DEF Disable, cellVars
  <2>2. RunInv' /\ OutcomeInv'
        BY <1>1, <2>1, Idle DEF OutcomeInv
  <2> QED BY <1>2, <2>2, DisableStep
<1>3. CASE Classify
  <2>1. /\ pc' = "loop" /\ UNCHANGED <<column, patch, undo>>
        /\ \/ pc = "disable" /\ Len(undo) = Len(MUTATIONS[column])
           \/ pc = "next"
        BY <1>3 DEF Classify
  <2>2. PatchInv'
        BY <2>1, OthersKeepPatch
  <2> QED BY <1>3, <2>1, <2>2, ClassifyStep DEF OutcomeInv
<1>4. CASE Restore
  <2>1. /\ pc' \in {"restore", "disable", "verdict"}
        /\ UNCHANGED <<step, offset, inspections>>
        /\ fault' = fault \/ fault' = 0
        BY <1>4 DEF Restore
  <2>2. RunInv' /\ OutcomeInv'
        BY <1>1, <2>1, Idle DEF OutcomeInv
  <2> QED BY <1>4, <2>2, RestoreStep
<1>5. CASE Verdict
  <2>1. /\ pc = "verdict" /\ pc' = "done"
        /\ UNCHANGED <<column, patch, undo, step, offset, inspections, fault>>
        BY <1>5 DEF Verdict, cellVars
  <2>2. RunInv' /\ OutcomeInv'
        BY <1>1, <2>1, Idle DEF OutcomeInv
  <2> QED BY <2>1, <2>2, OthersKeepPatch
<1>6. CASE BudgetExhausted
  <2>1. /\ pc = "loop" /\ pc' = "next"
        /\ UNCHANGED <<column, patch, undo, step, offset, inspections, fault>>
        BY <1>6 DEF BudgetExhausted, Ends, Local
  <2>2. PatchInv' /\ RunInv'
        BY <1>1, <2>1, OthersKeepPatch, Idle
  <2> QED BY <1>6, <2>2, SilentStep
<1>7. CASE Embed
  <2>1. /\ pc = "loop" /\ pc' = "embedding" /\ UNCHANGED <<column, patch, undo>>
        BY <1>7 DEF Embed, Local
  <2> QED BY <1>7, <2>1, OthersKeepPatch, EmbedStep DEF OutcomeInv
<1>8. CASE Crash
  <2>1. /\ pc \in {"layer", "norm", "head"} /\ pc' = "next"
        /\ UNCHANGED <<column, patch, undo, step, offset, inspections, fault>>
        BY <1>8 DEF Crash, Ends, Local
  <2>2. PatchInv' /\ RunInv'
        BY <1>1, <2>1, OthersKeepPatch, Idle
  <2> QED BY <1>8, <2>2, CrashStep
<1>9. CASE LayerRuns
  <2>1. /\ pc = "layer" /\ pc' = "attention" /\ UNCHANGED <<column, patch, undo>>
        BY <1>9 DEF LayerRuns, Local
  <2> QED BY <1>9, <2>1, OthersKeepPatch, LayerStep DEF OutcomeInv
<1>10. CASE FinalNorm
  <2>1. /\ pc = "norm" /\ pc' = "final_hidden" /\ UNCHANGED <<column, patch, undo>>
        BY <1>10 DEF FinalNorm, Local
  <2> QED BY <1>10, <2>1, OthersKeepPatch, NormStep DEF OutcomeInv
<1>11. CASE OutputHead
  <2>1. /\ pc = "head" /\ pc' = "logits" /\ UNCHANGED <<column, patch, undo>>
        BY <1>11 DEF OutputHead, Local
  <2> QED BY <1>11, <2>1, OthersKeepPatch, HeadStep DEF OutcomeInv
<1>12. CASE Gate
  <2>1. /\ pc = "gate" /\ pc' = "loop" /\ UNCHANGED <<column, patch, undo>>
        BY <1>12 DEF Gate, Local
  <2> QED BY <1>12, <2>1, OthersKeepPatch, GateStep DEF OutcomeInv
<1>13. CASE PublishState
  <2>1. /\ pc \in {"embedding", "attention", "layer_output", "final_hidden", "logits"}
        /\ pc' \in {"next", "layer", "layer_output", "norm", "head", "gate"}
        /\ UNCHANGED <<column, patch, undo, step, offset, fault>>
        /\ inspections' = inspections + 1
        BY <1>13 DEF PublishState, Publish, Ends
  <2>2. PatchInv'
        BY <2>1, OthersKeepPatch
  <2>3. CASE pc' = "next"
    <3>1. RunInv'
          BY <1>1, <2>1, <2>3, Idle
    <3> QED BY <1>13, <2>2, <2>3, <3>1, CaughtStep
  <2>4. CASE pc' # "next"
        BY <1>13, <2>2, <2>4, PassStep DEF OutcomeInv
  <2> QED BY <2>3, <2>4
<1>14. CASE UNCHANGED vars
  <2>1. UNCHANGED <<pc, column, patch, undo, fault, step, offset, layer, x, weights,
                    inspections, cell>>
        BY <1>14 DEF vars, cellVars
  <2>2. PatchInv'
        BY <2>1, OthersKeepPatch
  <2>3. /\ effect' = effect /\ On' = On /\ Injected' = Injected
        /\ (Misshapen' <=> Misshapen) /\ t' = t /\ Clean' = Clean
        /\ Off(column)' = Off(column)
        BY <2>1, Frame
  <2>4. (Behind(x)' <=> Behind(x)) /\ (Harmless(x)' <=> Harmless(x))
        BY <2>1, FrameHarmless
  <2>5. /\ CorruptedHidden(Clean)' = CorruptedHidden(Clean)
        /\ CorruptedWeights(WeightsOf(t, TRUE))' = CorruptedWeights(WeightsOf(t, TRUE))
        /\ WeightsOf(x.shape[1], x.finite)' = WeightsOf(x.shape[1], x.finite)
        BY <2>1, <2>3 DEF CorruptedHidden, CorruptedWeights, WeightsOf
  <2>6. PlaceInv' /\ LaterInv' /\ CountInv'
        BY <2>1, <2>3 DEF RunInv, PlaceInv, LaterInv, CountInv
  <2>7. FlowInv'
        BY <2>1, <2>3, <2>4, <2>5 DEF RunInv, FlowInv
  <2>8. OutcomeInv'
    <3>1. ByNorm' <=> ByNorm
          BY <2>3 DEF ByNorm
    <3>2. Measured(cell)' <=> Measured(cell)
          BY <2>1, <2>3, <3>1 DEF Measured
    <3>3. Early(cell)' <=> Early(cell)
          BY <2>1, <2>3 DEF Early
    <3> QED BY <2>1, <3>2, <3>3 DEF OutcomeInv
  <2> QED BY <2>2, <2>6, <2>7, <2>8 DEF RunInv
<1> QED BY <1>2, <1>3, <1>4, <1>5, <1>6, <1>7, <1>8, <1>9, <1>10, <1>11, <1>12, <1>13,
           <1>14 DEF Next

LEMMA ProbeInvariant == Spec => []ProbeInv
<1>1. Init => ProbeInv
  <2>1. Init => OutcomeInv
        BY DEF Init, OutcomeInv
  <2> QED BY <2>1, PatchInit, RunInit DEF ProbeInv
<1>2. ProbeInv /\ [Next]_vars => ProbeInv'
      BY ProbeStep
<1> QED BY <1>1, <1>2, PTL DEF Spec

\* Whatever the corpus and the model: a fault is caught by exactly the rules it
\* breaks that the column left on, and if there are none it goes through, to a
\* crash where its shape is wrong and to tokens where it is not.
THEOREM TiersMeasured == Spec => []EachTierIsMeasured
<1>1. ProbeInv => EachTierIsMeasured
      BY Restated DEF ProbeInv, OutcomeInv
<1> QED BY <1>1, ProbeInvariant, PTL

\* Whatever tiers are off, what is caught is caught at the boundary the fault was
\* injected into, in the first pass.
THEOREM CaughtEarly == Spec => []CaughtWhereInjected
<1>1. ProbeInv => CaughtWhereInjected
      BY Restated DEF ProbeInv, OutcomeInv
<1> QED BY <1>1, ProbeInvariant, PTL
=============================================================================
