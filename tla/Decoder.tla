------------------------------ MODULE Decoder ------------------------------
(***************************************************************************)
(* CleanRoomTransformer.forward with its decoder layers, as passes over    *)
(* one growing context: what each row of each tensor depends on.           *)
(*                                                                         *)
(* A row is the set of places it was computed from, a place being a        *)
(* position and the token embedded there.  Norms, projections and the      *)
(* feed-forward work row by row and leave it as it is; attention mixes     *)
(* rows, and through the caches rows of earlier passes.  Positions are     *)
(* counted from 1.                                                         *)
(*                                                                         *)
(* A caller cuts the context into passes as it likes.  An observer may     *)
(* raise at any boundary of a layer; the caller then rolls back, as        *)
(* generate does on a quarantine, or starts over with fresh caches, which  *)
(* is what follows every other exception.                                  *)
(***************************************************************************)
EXTENDS KVCache

CONSTANTS
    n_layers,
    Tokens

ASSUME DecoderAssumption == n_layers \in Nat \ {0} /\ ZERO = {}

Layers == 1..n_layers
Places == (1..Capacity) \X Tokens

VARIABLES
    pc,       \* "idle", the boundary a pass is at, "layer", "done" or "raised"
    layer,    \* the decoder layer forward is at
    context,  \* the tokens of the finished passes
    chunk,    \* the tokens of the current pass
    cached,   \* the pass was given the caches
    offset,   \* what forward takes for the length of the context
    x,        \* the hidden rows
    support,  \* attention weights: for each row the keys it gives mass to
    caches,
    frame,    \* the membrane's _bindings and _offset
    snapshot  \* what _snapshot returned
passVars == <<chunk, cached, offset>>
vars == <<pc, layer, context, chunk, cached, offset, x, support, caches, frame,
          snapshot>>

Boundaries == {"attention", "layer_output"}

TypeOK ==
    /\ pc \in {"idle", "layer", "done", "raised"} \cup Boundaries
    /\ layer \in Layers
    /\ context \in Seq(Tokens) /\ chunk \in Seq(Tokens)
    /\ cached \in BOOLEAN
    /\ offset \in 0..Capacity
    /\ x \in Seq(SUBSET Places)
    /\ support \in Seq(SUBSET (1..Capacity))
    /\ caches \in [Layers -> [rows : [1..Capacity -> SUBSET Places], length : 0..Capacity]]
    /\ frame \in [t : Nat, t_kv : Nat, offset : Nat]
    /\ snapshot \in [Layers -> Nat]

Init ==
    /\ pc = "idle" /\ layer = 1
    /\ context = <<>> /\ chunk = <<>> /\ cached = TRUE /\ offset = 0
    /\ x = <<>> /\ support = <<>>
    /\ caches = [l \in Layers |-> new_cache]
    /\ frame = [t |-> 0, t_kv |-> 0, offset |-> 0]
    /\ snapshot = [l \in Layers |-> 0]

-----------------------------------------------------------------------------
\* Mutant of begin_step: the keys of earlier passes are not declared.
begin_step_local(n_query, from) == [t |-> n_query, t_kv |-> n_query, offset |-> from]

begin_step(n_query, from) ==
    [t |-> n_query, t_kv |-> from + n_query, offset |-> from]

\* A pass begins: the token and position embeddings of the chunk.
Embeds(tokens, from) ==
    /\ tokens # <<>> /\ from + Len(tokens) <= Capacity
    /\ chunk' = tokens /\ offset' = from
    /\ x' = [i \in 1..Len(tokens) |-> {<<from + i, tokens[i]>>}]
    /\ layer' = 1
    /\ pc' = "layer"

\* A pass over the caches, as generate makes it.
Pass(tokens) ==
    /\ pc = "idle"
    /\ Embeds(tokens, caches[1].length)
    /\ cached' = TRUE
    /\ frame' = begin_step(Len(tokens), caches[1].length)
    /\ snapshot' = [l \in Layers |-> caches[l].length]
    /\ UNCHANGED <<context, support, caches>>

\* A pass without caches, as calibrate makes it.
PassFromScratch(tokens) ==
    /\ pc = "idle"
    /\ Embeds(tokens, 0)
    /\ cached' = FALSE
    /\ UNCHANGED <<context, support, caches, frame, snapshot>>

\* Mutant of Visible: the mask counts the queries of this pass only.
Visible_uncached(start, i, n) == {k \in 1..n : k <= i}

\* The causal mask: the keys, out of n, that query i of a layer may attend to
\* whose cache was start rows long.
Visible(start, i, n) == {k \in 1..n : k <= start + i}

\* check_attention_weights: the cells that must hold no mass.
future(q_offset, t_q, t_kv) ==
    {cell \in (1..t_q) \X (1..t_kv) : cell[2] > q_offset + cell[1]}

\* Row i with what attention adds to it from the keys it attends to.
Mixed(row, keys, attended) == row \cup UNION {keys[k] : k \in attended}

\* DecoderLayer.forward.  The layer goes by its own cache, not by the offset.
LayerRuns ==
    LET cache == caches[layer]
        grown == append(cache, x)
        start == IF cached THEN cache.length ELSE 0
        keys  == IF cached THEN [k \in 1..grown.length |-> grown.rows[k]] ELSE x
        sees  == [i \in 1..Len(x) |-> Visible(start, i, Len(keys))]
    IN  /\ pc = "layer"
        /\ cached => Fits(cache, x)
        /\ caches' = IF cached THEN [caches EXCEPT ![layer] = grown] ELSE caches
        /\ support' = sees
        /\ x' = [i \in 1..Len(x) |-> Mixed(x[i], keys, sees[i])]
        /\ pc' = "attention"
        /\ UNCHANGED <<layer, context, passVars, frame, snapshot>>

\* _publish: the observers let the boundary pass.
PublishAttention ==
    /\ pc = "attention"
    /\ pc' = "layer_output"
    /\ UNCHANGED <<layer, context, passVars, x, support, caches, frame, snapshot>>

PublishLayerOutput ==
    /\ pc = "layer_output"
    /\ \/ layer < n_layers /\ pc' = "layer" /\ layer' = layer + 1
       \/ layer = n_layers /\ pc' = "done" /\ UNCHANGED layer
    /\ UNCHANGED <<context, passVars, x, support, caches, frame, snapshot>>

\* An observer raises.
Raise ==
    /\ pc \in Boundaries
    /\ pc' = "raised"
    /\ UNCHANGED <<layer, context, passVars, x, support, caches, frame, snapshot>>

\* Logits come back: the caller's context is longer by the chunk if the caches
\* are.
Return ==
    /\ pc = "done"
    /\ context' = IF cached THEN context \o chunk ELSE context
    /\ pc' = "idle"
    /\ UNCHANGED <<layer, passVars, x, support, caches, frame, snapshot>>

\* Mutant of Rollback: only the layer that raised is rolled back.
Rollback_one_layer ==
    /\ pc = "raised"
    /\ caches' = IF cached /\ CanRollBackTo(caches[layer], snapshot[layer])
                 THEN [caches EXCEPT ![layer] = rollback_to(@, snapshot[layer])]
                 ELSE caches
    /\ pc' = "idle"
    /\ UNCHANGED <<layer, context, passVars, x, support, frame, snapshot>>

\* _rollback; a pass without caches leaves nothing to roll back.
Rollback ==
    /\ pc = "raised"
    /\ \/ /\ cached
          /\ \A l \in Layers : CanRollBackTo(caches[l], snapshot[l])
          /\ caches' = [l \in Layers |-> rollback_to(caches[l], snapshot[l])]
       \/ ~cached /\ UNCHANGED caches
    /\ pc' = "idle"
    /\ UNCHANGED <<layer, context, passVars, x, support, frame, snapshot>>

\* reset, with which generate begins.
Reset ==
    /\ pc \in {"idle", "raised"}
    /\ caches' = [l \in Layers |-> reset(caches[l])]
    /\ context' = <<>>
    /\ pc' = "idle"
    /\ UNCHANGED <<layer, passVars, x, support, frame, snapshot>>

Chunks == UNION {[1..n -> Tokens] : n \in 1..Capacity}

Next ==
    \/ \E tokens \in Chunks : Pass(tokens) \/ PassFromScratch(tokens)
    \/ LayerRuns \/ PublishAttention \/ PublishLayerOutput \/ Raise \/ Return
    \/ Rollback \/ Reset

Spec == Init /\ [][Next]_vars
-----------------------------------------------------------------------------
\* The sequence the current pass works on the end of.
Whole == IF cached THEN context \o chunk ELSE chunk

\* Everything a causal decoder may use at position p, and all of it.
UpTo(tokens, p) == {<<k, tokens[k]>> : k \in 1..p}

\* At every boundary of every layer a row depends on exactly the tokens up to
\* its own position: on no later one (causality), on none of an abandoned pass
\* or an earlier session, and on all of those that went before, however many
\* passes they came in.  Logits are therefore the same whether a context is
\* decoded token by token, in chunks, or in one pass without caches.
RowsArePrefixes ==
    pc \in Boundaries \cup {"done"} =>
        /\ Len(x) = Len(chunk)
        /\ \A i \in 1..Len(x) : x[i] = UpTo(Whole, offset + i)

\* The keys layer l holds of position p: the embedding for the first layer, a
\* prefix for those behind it.
KeyRow(tokens, l, p) == IF l = 1 THEN {<<p, tokens[p]>>} ELSE UpTo(tokens, p)

\* Between passes the caches of all layers are as long as the context and hold
\* its rows and zeros, as if the context had been decoded in one pass over new
\* caches.
CachesAreTheContext ==
    pc = "idle" => \A l \in Layers :
        caches[l] = Holding([p \in 1..Len(context) |-> KeyRow(context, l, p)])

\* What begin_step declared from the first cache's length fits the tensors of
\* every layer, each of which goes by a cache of its own: the extents are those
\* of the contract, and the cells check_attention_weights allows no mass on are
\* those the causal mask leaves empty, so that a correct map is not taken for a
\* leak and no leak for a correct map.
FrameFitsPass ==
    cached /\ pc = "attention" =>
        LET t_kv == caches[layer].length
        IN  /\ frame.t = Len(support)
            /\ frame.t_kv = t_kv
            /\ future(frame.offset, frame.t, t_kv)
                 = {c \in (1..frame.t) \X (1..t_kv) : c[2] \notin support[c[1]]}
=============================================================================
