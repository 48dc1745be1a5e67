------------------------------ MODULE KVCache ------------------------------
(***************************************************************************)
(* class KVCache of src/transformer/layers.py: the fixed-capacity key and  *)
(* value cache of one layer, as operators on its state.                    *)
(*                                                                         *)
(* The keys and the values are always written together, at the same rows   *)
(* and from the same activations, so one array stands for both.  Positions *)
(* are counted from 1; a row is whatever the caller computed for it.       *)
(***************************************************************************)
EXTENDS Integers, Sequences

CONSTANTS
    Capacity,   \* rows in the arrays: max_seq_len
    ZERO        \* what np.zeros and the slice assignments of 0.0 leave

ASSUME CapacityAssumption == Capacity \in Nat

Cache(rows, length) == [rows |-> rows, length |-> length]

new_cache == Cache([i \in 1..Capacity |-> ZERO], 0)

\* Mutant of reset: only the length is reset.
reset_length(cache) == Cache(cache.rows, 0)

reset(cache) == Cache([i \in DOMAIN cache.rows |-> ZERO], 0)

\* rollback_to refuses any other length with ValueError.
CanRollBackTo(cache, length) == 0 <= length /\ length <= cache.length

\* Mutant of rollback_to: the abandoned rows keep their contents.
rollback_to_unzeroed(cache, length) == Cache(cache.rows, length)

rollback_to(cache, length) ==
    Cache([i \in DOMAIN cache.rows |->
               IF i \in (length + 1)..cache.length THEN ZERO
                                                   ELSE cache.rows[i]],
          length)

\* append refuses more rows than this with ValueError.
Fits(cache, new) == cache.length + Len(new) <= Capacity

append(cache, new) ==
    Cache([i \in DOMAIN cache.rows |->
               IF i \in (cache.length + 1)..(cache.length + Len(new))
               THEN new[i - cache.length]
               ELSE cache.rows[i]],
          cache.length + Len(new))

\* The cache that holds exactly these rows and has never held another: what a
\* fresh cache becomes when they are appended.
Holding(rows) ==
    Cache([i \in 1..Capacity |-> IF i \in 1..Len(rows) THEN rows[i] ELSE ZERO],
          Len(rows))
=============================================================================
