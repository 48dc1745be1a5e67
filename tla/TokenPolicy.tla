---------------------------- MODULE TokenPolicy ----------------------------
(***************************************************************************)
(* class TokenPolicy of src/membrane/policy.py: the rules a decoded token  *)
(* must pass before it is emitted.                                         *)
(***************************************************************************)
EXTENDS Integers, Sequences, FiniteSets

CONSTANTS
    vocab_size,                 \* ids 0 .. vocab_size - 1 are in range
    forbidden_tokens,           \* the denylist
    max_consecutive_repeats,    \* longest run of one token that is let through
    max_new_tokens              \* the policy's own step budget

ASSUME PolicyAssumption ==
    /\ vocab_size \in Nat
    /\ max_consecutive_repeats \in Int
    /\ max_new_tokens \in Int

\* The run the token would end: itself and the tokens at the end of the history
\* that equal it, back to the first that differs.
run(token, history) ==
    1 + Cardinality({k \in 1..Len(history) :
                        \A i \in k..Len(history) : history[i] = token})

\* Mutant of check: the run is bounded one repeat too late.
check_late(token, history, step) ==
      {r \in {"token_in_range"}  : ~(0 <= token /\ token < vocab_size)}
 \cup {r \in {"token_denylist"}  : token \in forbidden_tokens}
 \cup {r \in {"repetition_loop"} :
          run(token, history) > max_consecutive_repeats + 1}
 \cup {r \in {"step_budget"}     : step >= max_new_tokens}

\* The rules the token breaks, all of them, none hiding another.
check(token, history, step) ==
      {r \in {"token_in_range"}  : ~(0 <= token /\ token < vocab_size)}
 \cup {r \in {"token_denylist"}  : token \in forbidden_tokens}
 \cup {r \in {"repetition_loop"} :
          run(token, history) > max_consecutive_repeats}
 \cup {r \in {"step_budget"}     : step >= max_new_tokens}
=============================================================================
