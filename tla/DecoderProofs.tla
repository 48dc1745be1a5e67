--------------------------- MODULE DecoderProofs ---------------------------
(***************************************************************************)
(* Theorems about Decoder.tla, for any number of layers, any capacity and  *)
(* vocabulary, and every way to cut a context into passes.                 *)
(***************************************************************************)
EXTENDS Decoder, TLAPS

\* What the cache of layer l holds of a context.
KeyRows(tokens, l) == [p \in 1..Len(tokens) |-> KeyRow(tokens, l, p)]

\* The current pass has gone through the attention of layer l.
Appended(l) ==
    \/ pc = "layer" /\ l < layer
    \/ pc \in Boundaries \cup {"raised", "done"} /\ l <= layer

\* The counters of a pass.
PassInv ==
    pc # "idle" =>
        /\ chunk # <<>>
        /\ offset = IF cached THEN Len(context) ELSE 0
        /\ offset + Len(chunk) <= Capacity
        /\ cached => /\ frame = begin_step(Len(chunk), offset)
                     /\ snapshot = [l \in Layers |-> offset]

\* Each layer's cache holds the context, and of the current pass as much as it
\* has seen.
CacheInv ==
    /\ DOMAIN caches = Layers
    /\ \A l \in Layers :
          caches[l] = Holding(KeyRows(
              IF cached /\ Appended(l) THEN context \o chunk ELSE context, l))

\* The rows going into a layer and coming out of one.
RowInv ==
    /\ pc = "layer" =>
          x = [i \in 1..Len(chunk) |-> KeyRow(Whole, layer, offset + i)]
    /\ pc \in Boundaries \cup {"done"} =>
          x = [i \in 1..Len(chunk) |-> UpTo(Whole, offset + i)]

\* The mask of the layer that has just run.
MaskInv ==
    pc = "attention" =>
        support = [i \in 1..Len(chunk) |-> Visible(offset, i, offset + Len(chunk))]

Types ==
    /\ pc \in {"idle", "layer", "done", "raised"} \cup Boundaries
    /\ layer \in Layers
    /\ context \in Seq(Tokens) /\ chunk \in Seq(Tokens)
    /\ Len(context) <= Capacity
    /\ cached \in BOOLEAN

IInv ==
    /\ Types
    /\ pc = "done" => layer = n_layers
    /\ PassInv /\ CacheInv /\ RowInv /\ MaskInv

-----------------------------------------------------------------------------
\* The cache operators on a cache that holds the first rows of a longer list.

\* The first n rows of q.
First(q, n) == [i \in 1..n |-> q[i]]

\* What Holding returns.
LEMMA HoldingFacts ==
    ASSUME NEW n \in Nat, NEW q
    PROVE  /\ Holding(First(q, n)).length = n
           /\ Holding(First(q, n)).rows
                = [i \in 1..Capacity |-> IF i \in 1..n THEN q[i] ELSE ZERO]
<1> DEFINE r == First(q, n)
<1> USE DEF First
<1>1. Len(r) = n
  OBVIOUS
<1>2. \A i \in 1..Capacity : (IF i \in 1..Len(r) THEN r[i] ELSE ZERO)
                               = (IF i \in 1..n THEN q[i] ELSE ZERO)
  BY <1>1
<1> HIDE DEF r
<1>3. [i \in 1..Capacity |-> IF i \in 1..Len(r) THEN r[i] ELSE ZERO]
        = [i \in 1..Capacity |-> IF i \in 1..n THEN q[i] ELSE ZERO]
  BY <1>2
<1>4. Holding(r) = Cache([i \in 1..Capacity |-> IF i \in 1..n THEN q[i] ELSE ZERO], n)
  BY <1>1, <1>3 DEF Holding
<1>5. /\ Holding(r).length = n
      /\ Holding(r).rows = [i \in 1..Capacity |-> IF i \in 1..n THEN q[i] ELSE ZERO]
  BY <1>4 DEF Cache
<1> QED BY <1>5 DEF r

\* Appending n rows behind m others gives the cache of all of them.
LEMMA AppendHolds ==
    ASSUME NEW m \in Nat, NEW n \in Nat, NEW q, NEW new
    PROVE  Len(new) = n /\ (\A i \in 1..n : new[i] = q[m + i])
           => append(Holding(First(q, m)), new) = Holding(First(q, m + n))
<1> DEFINE c == Holding(First(q, m))
           d == Holding(First(q, m + n))
<1>2. /\ c.length = m
      /\ c.rows = [i \in 1..Capacity |-> IF i \in 1..m THEN q[i] ELSE ZERO]
  BY HoldingFacts
<1>3. /\ d.length = m + n
      /\ d.rows = [i \in 1..Capacity |-> IF i \in 1..(m + n) THEN q[i] ELSE ZERO]
  <2>1. m + n \in Nat
    OBVIOUS
  <2> QED BY <2>1, HoldingFacts
<1>4. d = Cache(d.rows, d.length)
  BY DEF Holding, Cache
<1> HIDE DEF c, d
<1> SUFFICES ASSUME Len(new) = n, \A i \in 1..n : new[i] = q[m + i]
             PROVE  append(c, new) = d
  BY DEF c, d
<1>1. Len(new) = n
  OBVIOUS
<1>5. \A i \in 1..Capacity :
        (IF i \in (c.length + 1)..(c.length + Len(new)) THEN new[i - c.length] ELSE c.rows[i])
          = d.rows[i]
  <2> SUFFICES ASSUME NEW i \in 1..Capacity
               PROVE  (IF i \in (m + 1)..(m + n) THEN new[i - m] ELSE c.rows[i]) = d.rows[i]
    BY <1>1, <1>2
  <2>1. CASE i \in (m + 1)..(m + n)
    <3>1. i - m \in 1..n /\ m + (i - m) = i /\ i \in 1..(m + n)
      BY <2>1, CapacityAssumption
    <3>2. new[i - m] = q[m + (i - m)]
      BY <3>1
    <3> QED BY <2>1, <3>1, <3>2, <1>3
  <2>2. CASE i \notin (m + 1)..(m + n)
    <3>1. i \in 1..m <=> i \in 1..(m + n)
      BY <2>2, CapacityAssumption
    <3> QED BY <2>2, <3>1, <1>2, <1>3
  <2> QED BY <2>1, <2>2
<1>6. DOMAIN c.rows = 1..Capacity
  BY <1>2
<1>7. append(c, new) = Cache([i \in 1..Capacity |->
          IF i \in (c.length + 1)..(c.length + Len(new)) THEN new[i - c.length]
                                                          ELSE c.rows[i]], m + n)
  BY <1>1, <1>2, <1>6 DEF append
<1>8. [i \in 1..Capacity |->
          IF i \in (c.length + 1)..(c.length + Len(new)) THEN new[i - c.length]
                                                          ELSE c.rows[i]] = d.rows
  BY <1>3, <1>5
<1>9. append(c, new) = d
  BY <1>3, <1>4, <1>7, <1>8
<1> QED BY <1>9

\* Rolling a cache back to its first m rows gives the cache of those.
LEMMA RollbackHolds ==
    ASSUME NEW m \in Nat, NEW n \in Nat, NEW q
    PROVE  /\ CanRollBackTo(Holding(First(q, m + n)), m)
           /\ rollback_to(Holding(First(q, m + n)), m)
                = Holding(First(q, m))
<1> DEFINE c == Holding(First(q, m))
           d == Holding(First(q, m + n))
<1>2. /\ c.length = m
      /\ c.rows = [i \in 1..Capacity |-> IF i \in 1..m THEN q[i] ELSE ZERO]
  BY HoldingFacts
<1>3. /\ d.length = m + n
      /\ d.rows = [i \in 1..Capacity |-> IF i \in 1..(m + n) THEN q[i] ELSE ZERO]
  <2>1. m + n \in Nat
    OBVIOUS
  <2> QED BY <2>1, HoldingFacts
<1>4. c = Cache(c.rows, c.length)
  BY DEF Holding, Cache
<1> HIDE DEF c, d
<1>5. \A i \in 1..Capacity :
        (IF i \in (m + 1)..d.length THEN ZERO ELSE d.rows[i]) = c.rows[i]
  <2> SUFFICES ASSUME NEW i \in 1..Capacity
               PROVE  (IF i \in (m + 1)..(m + n) THEN ZERO ELSE d.rows[i]) = c.rows[i]
    BY <1>3
  <2>1. CASE i \in (m + 1)..(m + n)
    <3>1. i \notin 1..m
      BY <2>1, CapacityAssumption
    <3> QED BY <2>1, <3>1, <1>2
  <2>2. CASE i \notin (m + 1)..(m + n)
    <3>1. i \in 1..m <=> i \in 1..(m + n)
      BY <2>2, CapacityAssumption
    <3> QED BY <2>2, <3>1, <1>2, <1>3
  <2> QED BY <2>1, <2>2
<1>6. DOMAIN d.rows = 1..Capacity
  BY <1>3
<1>7. rollback_to(d, m) = Cache([i \in 1..Capacity |->
          IF i \in (m + 1)..d.length THEN ZERO ELSE d.rows[i]], m)
  BY <1>6 DEF rollback_to
<1>8. [i \in 1..Capacity |-> IF i \in (m + 1)..d.length THEN ZERO ELSE d.rows[i]] = c.rows
  BY <1>2, <1>5
<1>9. rollback_to(d, m) = c
  BY <1>2, <1>4, <1>7, <1>8
<1>10. CanRollBackTo(d, m)
  BY <1>3 DEF CanRollBackTo
<1> QED BY <1>9, <1>10 DEF c, d

\* A cache that held something is a new one again after reset.
LEMMA ResetHolds ==
    ASSUME NEW n \in Nat, NEW q, NEW e
    PROVE  /\ new_cache = Holding(First(e, 0))
           /\ reset(Holding(First(q, n))) = Holding(First(e, 0))
<1> DEFINE c == Holding(First(q, n))
           z == Holding(First(e, 0))
<1>1. /\ z.length = 0
      /\ z.rows = [i \in 1..Capacity |-> IF i \in 1..0 THEN e[i] ELSE ZERO]
  <2>1. 0 \in Nat
    OBVIOUS
  <2> QED BY <2>1, HoldingFacts
<1>2. DOMAIN c.rows = 1..Capacity
  <2>1. c.rows = [i \in 1..Capacity |-> IF i \in 1..n THEN q[i] ELSE ZERO]
    BY HoldingFacts
  <2> QED BY <2>1
<1>3. z = Cache(z.rows, z.length)
  BY DEF Holding, Cache
<1> HIDE DEF c, z
<1>4. z.rows = [i \in 1..Capacity |-> ZERO]
  BY <1>1
<1>5. new_cache = z
  BY <1>1, <1>3, <1>4 DEF new_cache
<1>6. reset(c) = z
  BY <1>1, <1>2, <1>3, <1>4 DEF reset
<1> QED BY <1>5, <1>6 DEF c, z

-----------------------------------------------------------------------------
\* What a row depends on.

\* What the keys at the positions seen depend on.
Attended(tokens, l, seen) == UNION {KeyRow(tokens, l, k) : k \in seen}

\* A row that attends to all rows up to its own depends on all tokens up to its
\* own, whether those rows are embeddings or depend on prefixes already.
LEMMA MixesToPrefix ==
    ASSUME NEW s, NEW l, NEW p \in Nat \ {0}, NEW seen, seen = 1..p
    PROVE  KeyRow(s, l, p) \cup Attended(s, l, seen) = UpTo(s, p)
<1> USE DEF Attended
<1>1. seen = 1..p
  OBVIOUS
<1>2. CASE l = 1
  <2>1. \A k : KeyRow(s, l, k) = {<<k, s[k]>>}
    BY <1>2 DEF KeyRow
  <2>2. \A e : e \in UNION {KeyRow(s, l, k) : k \in seen} <=> \E k \in 1..p : e = <<k, s[k]>>
    BY <1>1, <2>1
  <2>3. \A e : e \in UpTo(s, p) <=> \E k \in 1..p : e = <<k, s[k]>>
    BY DEF UpTo
  <2>4. p \in 1..p
    OBVIOUS
  <2> QED BY <2>1, <2>2, <2>3, <2>4
<1>3. CASE l # 1
  <2>1. \A k : KeyRow(s, l, k) = UpTo(s, k)
    BY <1>3 DEF KeyRow
  <2>2. \A k \in seen : UpTo(s, k) \subseteq UpTo(s, p)
    <3> SUFFICES ASSUME NEW k \in seen PROVE UpTo(s, k) \subseteq UpTo(s, p)
      OBVIOUS
    <3>1. 1..k \subseteq 1..p
      BY <1>1
    <3> QED BY <3>1 DEF UpTo
  <2> QED BY <2>1, <2>2
<1> QED BY <1>2, <1>3

\* Adding tokens behind a context leaves its rows as they are.
LEMMA PrefixRows ==
    ASSUME NEW s \in Seq(Tokens), NEW t \in Seq(Tokens), NEW l, NEW p \in 1..Len(s)
    PROVE  KeyRow(s \o t, l, p) = KeyRow(s, l, p)
<1>1. \A k \in 1..p : (s \o t)[k] = s[k]
  OBVIOUS
<1>2. UpTo(s \o t, p) = UpTo(s, p)
  BY <1>1 DEF UpTo
<1>3. (s \o t)[p] = s[p]
  OBVIOUS
<1> QED BY <1>2, <1>3 DEF KeyRow

-----------------------------------------------------------------------------
\* The steps.

\* Facts the steps share: the lengths are numbers, and a cache that holds a
\* sequence of tokens is as long as that.
LEMMA HeldLength ==
    ASSUME NEW s \in Seq(Tokens), NEW l
    PROVE  Holding(KeyRows(s, l)).length = Len(s)
<1>1. Len(s) \in Nat
  OBVIOUS
<1>2. PICK q : q = [p \in 1..Len(s) |-> KeyRow(s, l, p)]
  OBVIOUS
<1>3. KeyRows(s, l) = First(q, Len(s))
  BY <1>2 DEF KeyRows, First
<1>4. Holding(First(q, Len(s))).length = Len(s)
  BY <1>1, HoldingFacts
<1> QED BY <1>3, <1>4

\* And its rows are the keys of that.
LEMMA HeldRow ==
    ASSUME NEW s \in Seq(Tokens), NEW l, NEW p \in 1..Len(s), p <= Capacity
    PROVE  Holding(KeyRows(s, l)).rows[p] = KeyRow(s, l, p)
<1>1. Len(s) \in Nat /\ p \in 1..Capacity
  BY CapacityAssumption
<1>2. PICK q : q = [k \in 1..Len(s) |-> KeyRow(s, l, k)]
  OBVIOUS
<1>3. KeyRows(s, l) = First(q, Len(s))
  BY <1>2 DEF KeyRows, First
<1>4. Holding(First(q, Len(s))).rows
        = [k \in 1..Capacity |-> IF k \in 1..Len(s) THEN q[k] ELSE ZERO]
  BY <1>1, HoldingFacts
<1>5. q[p] = KeyRow(s, l, p)
  BY <1>2
<1> QED BY <1>1, <1>3, <1>4, <1>5

\* A new cache holds the empty context, and so does one that is reset.
LEMMA NewHolds ==
    ASSUME NEW l, NEW s \in Seq(Tokens)
    PROVE  /\ new_cache = Holding(KeyRows(<<>>, l))
           /\ reset(Holding(KeyRows(s, l))) = Holding(KeyRows(<<>>, l))
<1>1. Len(s) \in Nat
  OBVIOUS
<1>2. PICK q : q = [p \in 1..Len(s) |-> KeyRow(s, l, p)]
  OBVIOUS
<1>3. KeyRows(s, l) = First(q, Len(s))
  BY <1>2 DEF KeyRows, First
<1>4. PICK e : e = [p \in 1..0 |-> KeyRow(<<>>, l, p)]
  OBVIOUS
<1>5. KeyRows(<<>>, l) = First(e, 0)
  BY <1>4 DEF KeyRows, First
<1>6. /\ new_cache = Holding(First(e, 0))
      /\ reset(Holding(First(q, Len(s)))) = Holding(First(e, 0))
  BY <1>1, ResetHolds
<1> QED BY <1>3, <1>5, <1>6

\* A cache that holds a context and the rows of a chunk behind it.
LEMMA ChunkHolds ==
    ASSUME NEW s \in Seq(Tokens), NEW t \in Seq(Tokens), NEW l, NEW rows,
           rows = [i \in 1..Len(t) |-> KeyRow(s \o t, l, Len(s) + i)]
    PROVE  /\ append(Holding(KeyRows(s, l)), rows) = Holding(KeyRows(s \o t, l))
           /\ CanRollBackTo(Holding(KeyRows(s \o t, l)), Len(s))
           /\ rollback_to(Holding(KeyRows(s \o t, l)), Len(s)) = Holding(KeyRows(s, l))
<1>1. Len(s) \in Nat /\ Len(t) \in Nat
  OBVIOUS
<1>2. PICK q : \A p \in 1..(Len(s) + Len(t)) : q[p] = KeyRow(s \o t, l, p)
  <2>1. PICK f : f = [p \in 1..(Len(s) + Len(t)) |-> KeyRow(s \o t, l, p)]
    OBVIOUS
  <2> QED BY <2>1
<1>3. KeyRows(s \o t, l) = First(q, Len(s) + Len(t))
  <2>1. Len(s \o t) = Len(s) + Len(t)
    OBVIOUS
  <2> QED BY <1>2, <2>1 DEF KeyRows, First
<1>4. KeyRows(s, l) = First(q, Len(s))
  <2>1. \A p \in 1..Len(s) : q[p] = KeyRow(s, l, p)
    <3> SUFFICES ASSUME NEW p \in 1..Len(s) PROVE q[p] = KeyRow(s, l, p)
      OBVIOUS
    <3>1. p \in 1..(Len(s) + Len(t))
      BY <1>1
    <3>2. KeyRow(s \o t, l, p) = KeyRow(s, l, p)
      BY PrefixRows
    <3> QED BY <3>1, <3>2, <1>2
  <2> QED BY <2>1 DEF KeyRows, First
<1>5. Len(rows) = Len(t) /\ \A i \in 1..Len(t) : rows[i] = q[Len(s) + i]
  <2>1. \A i \in 1..Len(t) : Len(s) + i \in 1..(Len(s) + Len(t))
    BY <1>1
  <2> QED BY <2>1, <1>1, <1>2
<1>6. append(Holding(First(q, Len(s))), rows)
        = Holding(First(q, Len(s) + Len(t)))
  BY <1>1, <1>5, AppendHolds
<1>7. /\ CanRollBackTo(Holding(First(q, Len(s) + Len(t))), Len(s))
      /\ rollback_to(Holding(First(q, Len(s) + Len(t))), Len(s))
           = Holding(First(q, Len(s)))
  BY <1>1, RollbackHolds
<1> QED BY <1>3, <1>4, <1>6, <1>7

\* And one that holds the context alone.
LEMMA ContextHolds ==
    ASSUME NEW s \in Seq(Tokens), NEW l
    PROVE  /\ CanRollBackTo(Holding(KeyRows(s, l)), Len(s))
           /\ rollback_to(Holding(KeyRows(s, l)), Len(s)) = Holding(KeyRows(s, l))
<1>1. Len(s) \in Nat /\ Len(s) + 0 = Len(s)
  OBVIOUS
<1>2. PICK q : q = [p \in 1..Len(s) |-> KeyRow(s, l, p)]
  OBVIOUS
<1>3. KeyRows(s, l) = First(q, Len(s))
  BY <1>2 DEF KeyRows, First
<1>4. KeyRows(s, l) = First(q, Len(s) + 0)
  BY <1>1, <1>3
<1>5. /\ CanRollBackTo(Holding(First(q, Len(s) + 0)), Len(s))
      /\ rollback_to(Holding(First(q, Len(s) + 0)), Len(s))
           = Holding(First(q, Len(s)))
  BY <1>1, RollbackHolds
<1> QED BY <1>3, <1>4, <1>5

LEMMA Initially == Init => IInv
<1> SUFFICES ASSUME Init PROVE IInv
  OBVIOUS
<1> USE DecoderAssumption, CapacityAssumption DEF Init
<1>1. <<>> \in Seq(Tokens) /\ Len(<<>>) = 0 /\ 1 \in Layers
  BY DEF Layers
<1>2. Types
  BY <1>1 DEF Types
<1>3. CacheInv
  <2>1. \A l \in Layers : ~Appended(l)
    BY DEF Appended, Boundaries
  <2>2. \A l \in Layers : caches[l] = Holding(KeyRows(context, l))
    BY <1>1, NewHolds
  <2> QED BY <2>1, <2>2 DEF CacheInv
<1>4. PassInv /\ RowInv /\ MaskInv
  BY DEF PassInv, RowInv, MaskInv, Boundaries
<1> QED BY <1>2, <1>3, <1>4 DEF IInv

\* A pass of either kind begins.
LEMMA Begins ==
    ASSUME IInv, NEW tokens \in Chunks, Pass(tokens) \/ PassFromScratch(tokens)
    PROVE  IInv'
<1> USE DecoderAssumption, CapacityAssumption
<1>1. /\ pc = "idle" /\ pc' = "layer" /\ layer' = 1 /\ chunk' = tokens
      /\ tokens # <<>> /\ offset' + Len(tokens) <= Capacity
      /\ x' = [i \in 1..Len(tokens) |-> {<<offset' + i, tokens[i]>>}]
      /\ context' = context /\ caches' = caches /\ support' = support
  BY DEF Pass, PassFromScratch, Embeds
<1>2. tokens \in Seq(Tokens) /\ Len(tokens) \in Nat
  BY DEF Chunks
<1>3. context \in Seq(Tokens) /\ Len(context) \in Nat /\ 1 \in Layers
  BY DEF IInv, Types, Layers
<1>4. DOMAIN caches = Layers /\ \A l \in Layers : caches[l] = Holding(KeyRows(context, l))
  BY <1>1 DEF IInv, CacheInv, Appended, Boundaries
<1>5. \A l \in Layers : caches[l].length = Len(context)
  BY <1>3, <1>4, HeldLength
<1>6. /\ offset' = IF cached' THEN Len(context) ELSE 0
      /\ cached' \in BOOLEAN
      /\ cached' => /\ frame' = begin_step(Len(tokens), offset')
                    /\ snapshot' = [l \in Layers |-> offset']
  <2>1. CASE Pass(tokens)
    <3>1. /\ cached' = TRUE /\ offset' = caches[1].length
          /\ frame' = begin_step(Len(tokens), caches[1].length)
          /\ snapshot' = [l \in Layers |-> caches[l].length]
      BY <2>1 DEF Pass, Embeds
    <3>2. [l \in Layers |-> caches[l].length] = [l \in Layers |-> Len(context)]
      BY <1>5
    <3> QED BY <3>1, <3>2, <1>3, <1>5
  <2>2. CASE PassFromScratch(tokens)
    BY <2>2 DEF PassFromScratch, Embeds
  <2> QED BY <2>1, <2>2
<1>7. Types'
  BY <1>1, <1>2, <1>3, <1>6 DEF IInv, Types
<1>8. PassInv'
  BY <1>1, <1>6 DEF PassInv
<1>9. CacheInv'
  <2>1. \A l \in Layers : ~Appended(l)'
    BY <1>1 DEF Appended, Layers, Boundaries
  <2> QED BY <2>1, <1>1, <1>4 DEF CacheInv
<1>10. RowInv'
  <2>1. \A i \in 1..Len(tokens) : x'[i] = KeyRow(Whole', 1, offset' + i)
    <3> SUFFICES ASSUME NEW i \in 1..Len(tokens)
                 PROVE  {<<offset' + i, tokens[i]>>} = KeyRow(Whole', 1, offset' + i)
      BY <1>1
    <3>1. CASE cached'
      <4>1. Whole' = context \o tokens /\ offset' = Len(context)
        BY <3>1, <1>1, <1>6 DEF Whole
      <4>2. (context \o tokens)[Len(context) + i] = tokens[i]
        BY <1>2, <1>3
      <4> QED BY <4>1, <4>2 DEF KeyRow
    <3>2. CASE ~cached'
      <4>1. Whole' = tokens /\ offset' + i = i
        BY <3>2, <1>1, <1>2, <1>6 DEF Whole
      <4> QED BY <4>1 DEF KeyRow
    <3> QED BY <3>1, <3>2
  <2>2. x' = [i \in 1..Len(tokens) |-> KeyRow(Whole', 1, offset' + i)]
    BY <2>1, <1>1
  <2> QED BY <2>2, <1>1 DEF RowInv, Boundaries
<1>11. MaskInv' /\ (pc = "done" => layer = n_layers)'
  BY <1>1 DEF MaskInv
<1> QED BY <1>7, <1>8, <1>9, <1>10, <1>11 DEF IInv

\* A layer runs.  With the caches or without, its keys are those of the whole
\* sequence so far, and query i is the one at position offset + i of it.
LEMMA LayerStep ==
    ASSUME IInv, LayerRuns
    PROVE  IInv'
<1> DEFINE cache == caches[layer]
           grown == append(cache, x)
           start == IF cached THEN cache.length ELSE 0
           keys == IF cached THEN [k \in 1..grown.length |-> grown.rows[k]] ELSE x
           sees == [i \in 1..Len(x) |-> Visible(start, i, Len(keys))]
           n == Len(chunk)
<1>1. /\ pc = "layer" /\ pc' = "attention"
      /\ caches' = IF cached THEN [caches EXCEPT ![layer] = grown] ELSE caches
      /\ support' = sees
      /\ x' = [i \in 1..Len(x) |-> Mixed(x[i], keys, sees[i])]
      /\ layer' = layer /\ context' = context /\ chunk' = chunk
      /\ cached' = cached /\ offset' = offset
      /\ frame' = frame /\ snapshot' = snapshot
  BY DEF LayerRuns, passVars
<1>2. /\ layer \in Layers /\ cached \in BOOLEAN
      /\ context \in Seq(Tokens) /\ chunk \in Seq(Tokens)
      /\ Len(context) \in Nat /\ n \in Nat
  BY DEF IInv, Types
<1>3. /\ offset = IF cached THEN Len(context) ELSE 0
      /\ offset + n <= Capacity
      /\ offset \in Nat
  BY <1>1, <1>2 DEF IInv, PassInv
<1>4. x = [i \in 1..n |-> KeyRow(Whole, layer, offset + i)]
  BY <1>1 DEF IInv, RowInv
<1>5. \A l \in Layers : l >= layer => caches[l] = Holding(KeyRows(context, l))
  <2>1. \A l \in Layers : l >= layer => ~Appended(l)
    BY <1>1, <1>2, DecoderAssumption DEF Appended, Layers, Boundaries
  <2> QED BY <2>1 DEF IInv, CacheInv
<1>6. cache = Holding(KeyRows(context, layer))
  BY <1>2, <1>5, DecoderAssumption DEF Layers
<1>7. Whole \in Seq(Tokens) /\ Len(Whole) = offset + n
  BY <1>2, <1>3 DEF Whole
<1>8. cached => grown = Holding(KeyRows(Whole, layer))
  <2> SUFFICES ASSUME cached PROVE grown = Holding(KeyRows(Whole, layer))
    OBVIOUS
  <2>1. Whole = context \o chunk /\ offset = Len(context)
    BY <1>3 DEF Whole
  <2>2. x = [i \in 1..Len(chunk) |-> KeyRow(context \o chunk, layer, Len(context) + i)]
    BY <1>4, <2>1
  <2>3. append(Holding(KeyRows(context, layer)), x) = Holding(KeyRows(context \o chunk, layer))
    BY <1>2, <2>2, ChunkHolds
  <2> QED BY <1>6, <2>1, <2>3
<1> HIDE DEF cache, grown
<1>9. start = offset
  <2>1. cache.length = Len(context)
    BY <1>2, <1>6, HeldLength
  <2> QED BY <1>2, <1>3, <2>1
<1>10. Len(keys) = offset + n /\ \A k \in 1..(offset + n) : keys[k] = KeyRow(Whole, layer, k)
  <2>1. CASE cached
    <3>1. grown.length = offset + n
      BY <2>1, <1>7, <1>8, HeldLength
    <3>2. \A k \in 1..(offset + n) : grown.rows[k] = KeyRow(Whole, layer, k)
      <4> SUFFICES ASSUME NEW k \in 1..(offset + n)
                   PROVE  grown.rows[k] = KeyRow(Whole, layer, k)
        OBVIOUS
      <4>1. k \in 1..Len(Whole) /\ k <= Capacity
        BY <1>2, <1>3, <1>7, CapacityAssumption
      <4>2. Holding(KeyRows(Whole, layer)).rows[k] = KeyRow(Whole, layer, k)
        BY <4>1, <1>7, HeldRow
      <4> QED BY <2>1, <1>8, <4>2
    <3>3. offset + n \in Nat /\ keys = [k \in 1..(offset + n) |-> grown.rows[k]]
      BY <2>1, <3>1, <1>2, <1>3
    <3> HIDE DEF keys
    <3>4. Len(keys) = offset + n
      BY <3>3
    <3> QED BY <3>2, <3>3, <3>4
  <2>2. CASE ~cached
    <3>1. offset = 0 /\ keys = x
      BY <2>2, <1>3
    <3>2. Len(x) = n
      BY <1>2, <1>4
    <3>3. \A k \in 1..n : x[k] = KeyRow(Whole, layer, k)
      BY <1>2, <1>4, <3>1
    <3>4. offset + n = n
      BY <1>2, <3>1
    <3> HIDE DEF keys, n
    <3> QED BY <3>1, <3>2, <3>3, <3>4
  <2> QED BY <2>1, <2>2
<1> HIDE DEF start, keys
<1>11. Len(x) = n
  BY <1>2, <1>4
<1>12. sees = [i \in 1..n |-> Visible(offset, i, offset + n)]
  BY <1>9, <1>10, <1>11
<1> HIDE DEF sees
<1>13. \A i \in 1..n : Mixed(x[i], keys, sees[i]) = UpTo(Whole, offset + i)
  <2> SUFFICES ASSUME NEW i \in 1..n
               PROVE  Mixed(x[i], keys, sees[i]) = UpTo(Whole, offset + i)
    OBVIOUS
  <2> DEFINE seen == {k \in 1..(offset + n) : k <= offset + i}
  <2>1. sees[i] = seen
    BY <1>12 DEF Visible
  <2>2. x[i] = KeyRow(Whole, layer, offset + i)
    BY <1>4
  <2>3. {keys[k] : k \in seen} = {KeyRow(Whole, layer, k) : k \in seen}
    BY <1>10
  <2>4. offset + i \in Nat \ {0} /\ seen = 1..(offset + i)
    BY <1>2, <1>3
  <2> HIDE DEF seen
  <2>5. KeyRow(Whole, layer, offset + i) \cup Attended(Whole, layer, seen)
          = UpTo(Whole, offset + i)
    BY <2>4, MixesToPrefix
  <2> QED BY <2>1, <2>2, <2>3, <2>5 DEF Mixed, Attended
<1>14. x' = [i \in 1..n |-> UpTo(Whole, offset + i)]
  BY <1>1, <1>11, <1>13
<1>15. Whole' = Whole
  BY <1>1 DEF Whole
<1>16. Types' /\ (pc = "done" => layer = n_layers)' /\ PassInv'
  BY <1>1 DEF IInv, Types, PassInv, Boundaries
<1>17. RowInv' /\ MaskInv'
  BY <1>1, <1>12, <1>14, <1>15 DEF RowInv, MaskInv
<1>18. CacheInv'
  <2> SUFFICES ASSUME NEW l \in Layers
               PROVE  caches'[l] = Holding(KeyRows(
                          IF cached /\ Appended(l)' THEN context \o chunk ELSE context, l))
    <3>1. DOMAIN caches' = DOMAIN caches
      BY <1>1
    <3> QED BY <3>1, <1>1 DEF IInv, CacheInv
  <2>1. Appended(l)' <=> l = layer \/ Appended(l)
    BY <1>1, <1>2, DecoderAssumption DEF Appended, Layers, Boundaries
  <2>2. /\ DOMAIN caches = Layers
        /\ caches[l] = Holding(KeyRows(
               IF cached /\ Appended(l) THEN context \o chunk ELSE context, l))
    BY DEF IInv, CacheInv
  <2>3. CASE cached /\ l = layer
    BY <2>1, <2>2, <2>3, <1>1, <1>8 DEF Whole
  <2>4. CASE ~cached \/ l # layer
    BY <2>1, <2>2, <2>4, <1>1
  <2> QED BY <2>3, <2>4
<1> QED BY <1>16, <1>17, <1>18 DEF IInv

\* The observers let attention pass, or raise; the caches stay as they are.
LEMMA BoundaryStep ==
    ASSUME IInv, PublishAttention \/ Raise
    PROVE  IInv'
<1>1. /\ pc \in Boundaries /\ pc' \in {"layer_output", "raised"}
      /\ pc' = "layer_output" => pc = "attention"
      /\ layer' = layer /\ context' = context /\ chunk' = chunk /\ cached' = cached
      /\ offset' = offset /\ x' = x /\ support' = support /\ caches' = caches
      /\ frame' = frame /\ snapshot' = snapshot
  BY DEF PublishAttention, Raise, passVars, Boundaries
<1>2. Types' /\ PassInv' /\ RowInv' /\ MaskInv' /\ (pc = "done" => layer = n_layers)'
  BY <1>1 DEF IInv, Types, PassInv, RowInv, MaskInv, Whole, Boundaries
<1>3. \A l \in Layers : Appended(l)' <=> Appended(l)
  BY <1>1 DEF Appended, Boundaries
<1>4. CacheInv'
  BY <1>1, <1>3 DEF IInv, CacheInv
<1> QED BY <1>2, <1>4 DEF IInv

\* A layer is left: what comes out of it are the keys of the next one.
LEMMA LayerOutputStep ==
    ASSUME IInv, PublishLayerOutput
    PROVE  IInv'
<1>1. /\ pc = "layer_output"
      /\ \/ layer < n_layers /\ pc' = "layer" /\ layer' = layer + 1
         \/ layer = n_layers /\ pc' = "done" /\ layer' = layer
      /\ context' = context /\ chunk' = chunk /\ cached' = cached
      /\ offset' = offset /\ x' = x /\ support' = support /\ caches' = caches
      /\ frame' = frame /\ snapshot' = snapshot
  BY DEF PublishLayerOutput, passVars
<1>2. layer \in Layers /\ layer' \in Layers
  BY <1>1, DecoderAssumption DEF IInv, Types, Layers
<1>3. Types' /\ PassInv' /\ MaskInv' /\ (pc = "done" => layer = n_layers)'
  BY <1>1, <1>2 DEF IInv, Types, PassInv, MaskInv
<1>4. Whole' = Whole
  BY <1>1 DEF Whole
<1>5. x' = [i \in 1..Len(chunk) |-> UpTo(Whole, offset + i)]
  BY <1>1 DEF IInv, RowInv, Boundaries
<1>6. RowInv'
  <2>1. CASE pc' = "layer"
    <3>1. layer' # 1
      BY <1>1, <1>2, <2>1, DecoderAssumption DEF Layers
    <3>2. \A i : KeyRow(Whole', layer', offset + i) = UpTo(Whole, offset + i)
      BY <1>4, <3>1 DEF KeyRow
    <3>3. x' = [i \in 1..Len(chunk) |-> KeyRow(Whole', layer', offset + i)]
      BY <1>5, <3>2
    <3> QED BY <1>1, <2>1, <3>3 DEF RowInv, Boundaries
  <2>2. CASE pc' = "done"
    BY <1>1, <1>4, <1>5, <2>2 DEF RowInv
  <2> QED BY <1>1, <2>1, <2>2
<1>7. \A l \in Layers : Appended(l)' <=> Appended(l)
  BY <1>1, <1>2, DecoderAssumption DEF Appended, Layers, Boundaries
<1>8. CacheInv'
  BY <1>1, <1>7 DEF IInv, CacheInv
<1> QED BY <1>3, <1>6, <1>8 DEF IInv

\* A pass returns: all the layers have appended the chunk.
LEMMA ReturnStep ==
    ASSUME IInv, Return
    PROVE  IInv'
<1>1. /\ pc = "done" /\ pc' = "idle" /\ layer' = layer /\ layer = n_layers
      /\ context' = IF cached THEN context \o chunk ELSE context
      /\ chunk' = chunk /\ cached' = cached /\ caches' = caches
  BY DEF Return, passVars, IInv
<1>2. /\ context \in Seq(Tokens) /\ chunk \in Seq(Tokens)
      /\ Len(context) <= Capacity /\ cached \in BOOLEAN
      /\ offset + Len(chunk) <= Capacity /\ (cached => offset = Len(context))
  BY <1>1 DEF IInv, Types, PassInv
<1>3. context' \in Seq(Tokens) /\ Len(context') <= Capacity
  <2>1. Len(context \o chunk) = Len(context) + Len(chunk) /\ context \o chunk \in Seq(Tokens)
    BY <1>2
  <2> QED BY <1>1, <1>2, <2>1
<1>4. Types'
  BY <1>1, <1>2, <1>3 DEF IInv, Types
<1>5. PassInv' /\ RowInv' /\ MaskInv' /\ (pc = "done" => layer = n_layers)'
  BY <1>1 DEF PassInv, RowInv, MaskInv, Boundaries
<1>6. \A l \in Layers : Appended(l) /\ ~Appended(l)'
  BY <1>1, DecoderAssumption DEF Appended, Layers, Boundaries
<1>7. CacheInv'
  BY <1>1, <1>6 DEF IInv, CacheInv
<1> QED BY <1>4, <1>5, <1>7 DEF IInv

\* The caller rolls back: every layer, whether it had appended the chunk or
\* not, is back at the context.
LEMMA RollbackStep ==
    ASSUME IInv, Rollback
    PROVE  IInv'
<1>1. /\ pc = "raised" /\ pc' = "idle" /\ layer' = layer /\ context' = context
      /\ chunk' = chunk /\ cached' = cached
      /\ \/ cached /\ caches' = [l \in Layers |-> rollback_to(caches[l], snapshot[l])]
         \/ ~cached /\ caches' = caches
  BY DEF Rollback, passVars
<1>2. context \in Seq(Tokens) /\ chunk \in Seq(Tokens)
  BY DEF IInv, Types
<1>3. Types' /\ PassInv' /\ RowInv' /\ MaskInv' /\ (pc = "done" => layer = n_layers)'
  BY <1>1 DEF IInv, Types, PassInv, RowInv, MaskInv, Boundaries
<1>4. \A l \in Layers : ~Appended(l)'
  BY <1>1 DEF Appended, Boundaries
<1>5. DOMAIN caches' = Layers /\ \A l \in Layers : caches'[l] = Holding(KeyRows(context, l))
  <2>1. CASE ~cached
    BY <1>1, <2>1 DEF IInv, CacheInv
  <2>2. CASE cached
    <3>1. caches' = [l \in Layers |-> rollback_to(caches[l], snapshot[l])]
      BY <1>1, <2>2
    <3>2. \A l \in Layers : snapshot[l] = Len(context)
      BY <1>1, <2>2 DEF IInv, PassInv
    <3>3. \A l \in Layers : rollback_to(caches[l], Len(context)) = Holding(KeyRows(context, l))
      <4> SUFFICES ASSUME NEW l \in Layers
                   PROVE  rollback_to(caches[l], Len(context)) = Holding(KeyRows(context, l))
        OBVIOUS
      <4>1. \/ caches[l] = Holding(KeyRows(context, l))
            \/ caches[l] = Holding(KeyRows(context \o chunk, l))
        BY DEF IInv, CacheInv
      <4>2. rollback_to(Holding(KeyRows(context, l)), Len(context)) = Holding(KeyRows(context, l))
        BY <1>2, ContextHolds
      <4>3. rollback_to(Holding(KeyRows(context \o chunk, l)), Len(context))
              = Holding(KeyRows(context, l))
        BY <1>2, ChunkHolds
      <4> QED BY <4>1, <4>2, <4>3
    <3> QED BY <3>1, <3>2, <3>3
  <2> QED BY <2>1, <2>2
<1>6. CacheInv'
  BY <1>1, <1>4, <1>5 DEF CacheInv
<1> QED BY <1>3, <1>6 DEF IInv

\* A reset drops the context.
LEMMA ResetStep ==
    ASSUME IInv, Reset
    PROVE  IInv'
<1>1. /\ pc' = "idle" /\ layer' = layer /\ context' = <<>>
      /\ chunk' = chunk /\ cached' = cached
      /\ caches' = [l \in Layers |-> reset(caches[l])]
  BY DEF Reset, passVars
<1>2. context \in Seq(Tokens) /\ chunk \in Seq(Tokens) /\ context \o chunk \in Seq(Tokens)
  BY DEF IInv, Types
<1>3. <<>> \in Seq(Tokens) /\ Len(<<>>) <= Capacity
  BY CapacityAssumption
<1>4. Types' /\ PassInv' /\ RowInv' /\ MaskInv' /\ (pc = "done" => layer = n_layers)'
  BY <1>1, <1>3 DEF IInv, Types, PassInv, RowInv, MaskInv, Boundaries
<1>5. \A l \in Layers : ~Appended(l)'
  BY <1>1 DEF Appended, Boundaries
<1>6. \A l \in Layers : caches'[l] = Holding(KeyRows(<<>>, l))
  <2> SUFFICES ASSUME NEW l \in Layers PROVE reset(caches[l]) = Holding(KeyRows(<<>>, l))
    BY <1>1
  <2>1. PICK s \in Seq(Tokens) : caches[l] = Holding(KeyRows(s, l))
    BY <1>2 DEF IInv, CacheInv
  <2>2. reset(Holding(KeyRows(s, l))) = Holding(KeyRows(<<>>, l))
    BY NewHolds
  <2> QED BY <2>1, <2>2
<1>7. CacheInv'
  BY <1>1, <1>5, <1>6 DEF CacheInv
<1> QED BY <1>4, <1>7 DEF IInv

-----------------------------------------------------------------------------
\* What the caches hold, what the rows depend on and what the membrane was told
\* of the pass agree at every point of every pass.  This is the invariant the
\* properties of Decoder.tla rest on: a row is a prefix because the keys before
\* it are, and those are because the caches of all layers were cut back alike.
THEOREM Invariance == Spec => []IInv
<1>1. IInv /\ [Next]_vars => IInv'
  <2> SUFFICES ASSUME IInv, [Next]_vars PROVE IInv'
    OBVIOUS
  <2>1. ASSUME NEW tokens \in Chunks, Pass(tokens) \/ PassFromScratch(tokens) PROVE IInv'
    BY <2>1, Begins
  <2>2. CASE LayerRuns
    BY <2>2, LayerStep
  <2>3. CASE PublishAttention \/ Raise
    BY <2>3, BoundaryStep
  <2>4. CASE PublishLayerOutput
    BY <2>4, LayerOutputStep
  <2>5. CASE Return
    BY <2>5, ReturnStep
  <2>6. CASE Rollback
    BY <2>6, RollbackStep
  <2>7. CASE Reset
    BY <2>7, ResetStep
  <2>8. CASE UNCHANGED vars
    <3>1. IInv' <=> IInv
      BY <2>8 DEF vars, passVars, IInv, Types, PassInv, CacheInv, RowInv, MaskInv,
                  Appended, Whole, Boundaries
    <3> QED BY <3>1
  <2> QED BY <2>1, <2>2, <2>3, <2>4, <2>5, <2>6, <2>7, <2>8 DEF Next
<1> QED BY <1>1, Initially, PTL DEF Spec

\* RowsArePrefixes for every number of layers: CleanRoomTransformer.forward is
\* causal, and gives the same rows whether a context comes token by token, in
\* chunks or at once.
THEOREM RowsCorrect == Spec => []RowsArePrefixes
<1>1. IInv => RowsArePrefixes
  <2> SUFFICES ASSUME IInv, pc \in Boundaries \cup {"done"}
               PROVE  Len(x) = Len(chunk) /\ \A i \in 1..Len(x) : x[i] = UpTo(Whole, offset + i)
    BY DEF RowsArePrefixes
  <2>1. x = [i \in 1..Len(chunk) |-> UpTo(Whole, offset + i)]
    BY DEF IInv, RowInv
  <2>2. Len(chunk) \in Nat
    BY DEF IInv, Types
  <2>3. Len(x) = Len(chunk)
    BY <2>1, <2>2
  <2> QED BY <2>1, <2>3
<1> QED BY <1>1, Invariance, PTL

\* CachesAreTheContext for every number of layers: whatever was begun, raised
\* and rolled back or reset, the caches between passes are those of the context.
THEOREM CachesCorrect == Spec => []CachesAreTheContext
<1>1. IInv => CachesAreTheContext
  <2> SUFFICES ASSUME IInv, pc = "idle"
               PROVE  \A l \in Layers : caches[l] = Holding(KeyRows(context, l))
    BY DEF CachesAreTheContext, KeyRows
  <2>1. \A l \in Layers : ~Appended(l)
    BY DEF Appended, Boundaries
  <2> QED BY <2>1 DEF IInv, CacheInv
<1> QED BY <1>1, Invariance, PTL

\* FrameFitsPass for every number of layers: what begin_step was told of the
\* first cache is true of every layer's, so check_attention_weights looks at
\* exactly the cells the causal mask leaves empty.
THEOREM FrameCorrect == Spec => []FrameFitsPass
<1>1. IInv => FrameFitsPass
  <2> SUFFICES ASSUME IInv, cached, pc = "attention"
               PROVE  /\ frame.t = Len(support)
                      /\ frame.t_kv = caches[layer].length
                      /\ future(frame.offset, frame.t, caches[layer].length)
                           = {c \in (1..frame.t) \X (1..caches[layer].length) :
                                  c[2] \notin support[c[1]]}
    BY DEF FrameFitsPass
  <2> DEFINE n == Len(chunk)
  <2>1. /\ context \in Seq(Tokens) /\ chunk \in Seq(Tokens) /\ n \in Nat
        /\ Len(context) \in Nat /\ layer \in Layers
    BY DEF IInv, Types
  <2>2. /\ offset = Len(context) /\ frame = [t |-> n, t_kv |-> offset + n, offset |-> offset]
    BY DEF IInv, PassInv, begin_step
  <2>3. support = [i \in 1..n |-> Visible(offset, i, offset + n)]
    BY DEF IInv, MaskInv
  <2>4. caches[layer].length = offset + n
    <3>1. Appended(layer)
      BY <2>1, DecoderAssumption DEF Appended, Layers, Boundaries
    <3>2. caches[layer] = Holding(KeyRows(context \o chunk, layer))
      BY <2>1, <3>1 DEF IInv, CacheInv
    <3>3. context \o chunk \in Seq(Tokens) /\ Len(context \o chunk) = offset + n
      BY <2>1, <2>2
    <3> QED BY <3>2, <3>3, HeldLength
  <2>5. Len(support) = n
    BY <2>1, <2>3
  <2>6. future(offset, n, offset + n)
          = {c \in (1..n) \X (1..(offset + n)) : c[2] \notin support[c[1]]}
    <3>1. \A c \in (1..n) \X (1..(offset + n)) :
            c[2] > offset + c[1] <=> c[2] \notin support[c[1]]
      BY <2>1, <2>2, <2>3 DEF Visible
    <3> QED BY <3>1 DEF future
  <2> QED BY <2>2, <2>4, <2>5, <2>6
<1> QED BY <1>1, Invariance, PTL
=============================================================================
