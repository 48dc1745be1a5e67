----------------------------- MODULE MetalGrid -----------------------------
(***************************************************************************)
(* One dispatch of a kernel of Transformer.metal: the threads of the grid  *)
(* make the accesses MetalKernels gives them, in any interleaving, and     *)
(* wait for each other at threadgroup_barrier only.                        *)
(*                                                                         *)
(* The grid is one threadgroup and memory is sequentially consistent: a    *)
(* kernel without a data race can tell neither from the device's.  Two     *)
(* kernels have one for some dimensions, in the buffers Raced names.       *)
(***************************************************************************)
EXTENDS MetalKernels

CONSTANTS
    Dispatches, \* pairs of dimensions and of the kernels dispatched for them
    MaxThread   \* no grid is larger than 0 .. MaxThread

Threads == 0..MaxThread

\* The dimensions a model can have: the attention heads are even, for the rotation,
\* no key head goes without a query head, the token is one of the vocabulary, the
\* sequence fits the context.
Dims(c) ==
    /\ {c.hidden, c.q_heads, c.kv_heads, c.head_dim, c.vocab, c.context, c.layers,
        c.rows, c.cols, c.count, c.lanes} \subseteq Nat \ {0}
    /\ c.head_dim % 2 = 0
    /\ c.kv_heads <= c.q_heads
    /\ c.token \in Below(c.vocab)
    /\ c.layer \in Below(c.layers)
    /\ c.seq_len \in 1..c.context
    /\ c.token_index \in Below(c.seq_len)

ASSUME DispatchesAssumption == \A d \in Dispatches :
    /\ Dims(d[1])
    /\ LET kernels == Library(d[1]) IN \A name \in d[2] :
          /\ name \in DOMAIN kernels
          /\ DOMAIN kernels[name].program \subseteq Threads

VARIABLES
    config,     \* the dimensions of this dispatch
    kernel,     \* the name of the kernel
    todo,       \* by thread, the steps it has still to take
    passed,     \* by thread, the barriers it has passed
    loaded,     \* by thread, the values it has loaded, in order
    memory      \* the cells of the kernel's buffers
vars == <<config, kernel, todo, passed, loaded, memory>>

CellsOf(k) == UNION {{Cell(b, i) : i \in Below(Size(k.buffers[b]))}
                        : b \in DOMAIN k.buffers}

Init == \E d \in Dispatches : LET kernels == Library(d[1]) IN \E name \in d[2] :
    /\ config = d[1]
    /\ kernel = name
    /\ todo = kernels[name].program
    /\ passed = [t \in DOMAIN kernels[name].program |-> 0]
    /\ loaded = [t \in DOMAIN kernels[name].program |-> <<>>]
    /\ memory = [x \in CellsOf(kernels[name]) |-> Initially(x)]

Grid == DOMAIN todo
At(t, op) == t \in Grid /\ todo[t] # <<>> /\ Head(todo[t]).op = op
Accesses(t) == At(t, "load") \/ At(t, "store")
Step(t) == Head(todo[t])

Does(t, op) ==
    /\ At(t, op)
    /\ todo' = [todo EXCEPT ![t] = Tail(@)]
    /\ UNCHANGED <<config, kernel>>

\* An access outside the buffers is not taken: InBounds says there is none.
DoLoad(t) ==
    /\ Does(t, "load")
    /\ Step(t).cell \in DOMAIN memory
    /\ loaded' = [loaded EXCEPT ![t] = Append(@, memory[Step(t).cell])]
    /\ UNCHANGED <<passed, memory>>

DoStore(t) ==
    /\ Does(t, "store")
    /\ Step(t).cell \in DOMAIN memory
    /\ LET of == Step(t).of
           value == Term(Step(t).f, [i \in 1..Len(of) |-> loaded[t][of[i]]])
       IN  memory' = [memory EXCEPT ![Step(t).cell] = value]
    /\ UNCHANGED <<passed, loaded>>

\* threadgroup_barrier: no thread goes on before all have come to it.
DoBarrier(t) ==
    /\ Does(t, "barrier")
    /\ \A u \in Grid : passed[u] > passed[t] \/ (passed[u] = passed[t] /\ At(u, "barrier"))
    /\ passed' = [passed EXCEPT ![t] = @ + 1]
    /\ UNCHANGED <<loaded, memory>>

Thread(t) == DoLoad(t) \/ DoStore(t) \/ DoBarrier(t)

Next == \E t \in Threads : Thread(t)

Spec == Init /\ [][Next]_vars

\* The device runs every thread of a threadgroup.
FairSpec == Spec /\ \A t \in Threads : WF_vars(Thread(t))

Done == \A t \in Grid : todo[t] = <<>>

-----------------------------------------------------------------------------
\* No thread, those the grid has too many included, reaches behind the end of a
\* buffer: the index arithmetic of the kernels stays within the dimensions.
InBounds == \A t \in Grid : Accesses(t) => Step(t).cell \in DOMAIN memory

\* The buffers in which the threads of a kernel do race: rope_qk rotates a key head
\* once for every query head that shares it, and a second simdgroup of rmsnorm
\* stores in the lanes of the first.
RacedBy(name, c) ==
    IF name = "rope_qk" /\ c.kv_heads < c.q_heads THEN {"k"}
    ELSE IF name = "rmsnorm" /\ c.lanes < c.hidden THEN {"accum"}
    ELSE {}
Raced == RacedBy(kernel, config)

\* No two threads are ever about to access the same cell with one of them
\* storing: each element has one writer, and who reads it is separated from
\* that writer by a barrier or is the writer.  The key heads rope_qk shares and
\* the lanes rmsnorm shares are excepted, and nothing else is.
RaceFree == \A t, u \in Grid :
    t # u /\ Accesses(t) /\ Accesses(u) /\ Step(t).cell = Step(u).cell
        => \/ Step(t).op = "load" /\ Step(u).op = "load"
           \/ Step(t).cell[1] \in Raced

\* Whatever the schedule, a kernel that does not race leaves in every element
\* what its dimensions say it should: the loads are of the right rows, heads,
\* tokens and packed weights, those of a cell that is rewritten come at the right
\* time, and nothing else is touched.
ResultIsReference == Done /\ Raced = {} =>
    LET result == Library(config)[kernel].result
        changed == [x \in {r.cell : r \in result} |->
                       (CHOOSE r \in result : r.cell = x).value]
    IN  memory = changed ++ [x \in DOMAIN memory |-> Initially(x)]

\* Every dispatch ends: no thread waits at a barrier another will not come to.
DispatchEnds == <>Done
=============================================================================
