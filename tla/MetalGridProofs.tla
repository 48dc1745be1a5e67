-------------------------- MODULE MetalGridProofs --------------------------
(***************************************************************************)
(* Safety of MetalGrid for every kernel of MetalKernels, every dimensions  *)
(* a model can have and every grid: any number of threads, heads, tokens,  *)
(* rows and columns, in any interleaving.                                  *)
(*                                                                         *)
(* An outline of a kernel says what each thread does when it runs alone,   *)
(* which cells it accesses and stores to between two barriers, and what    *)
(* the cells hold at each barrier.  A kernel with an outline in which no   *)
(* thread stores to what another accesses between the same barriers is     *)
(* sound.  The first part shows that a dispatch of a sound kernel, under   *)
(* every schedule, takes each thread through its outline; the rest gives   *)
(* each kernel of the library an outline.                                  *)
(*                                                                         *)
(* rope_qk with shared key heads and rmsnorm with more than one simdgroup  *)
(* have none, since they race.  Of them it is shown that their accesses,   *)
(* whatever the threads find in the cells, are in the buffers, and that    *)
(* all they race for is in the one buffer RacedBy names.                   *)
(***************************************************************************)
EXTENDS MetalGrid, SeqFacts

-----------------------------------------------------------------------------
\* Outlines: what the threads of a kernel do, each alone.

\* m with v at x.
Put(m, x, v) == [y \in DOMAIN m |-> IF y = x THEN v ELSE m[y]]

\* What a thread that runs alone knows: the barriers it has passed, what it has
\* loaded, and the cells as it finds them.
State(n, l, m) == [phase |-> n, loaded |-> l, mem |-> m]

\* One step of a thread takes it from a to b.  Its footprint fp says, by phase,
\* which cells it may access (acc), which it may store to (own), and what the
\* cells hold when the phase begins (snap).
Effect(fp, s, a, b) ==
    \/ /\ s.op = "load"
       /\ s.cell \in fp.acc[a.phase]
       /\ b = State(a.phase, Append(a.loaded, a.mem[s.cell]), a.mem)
    \/ /\ s.op = "store"
       /\ s.cell \in fp.own[a.phase]
       /\ LET value == Term(s.f, [i \in 1..Len(s.of) |-> a.loaded[s.of[i]]])
          IN  b = State(a.phase, a.loaded, Put(a.mem, s.cell, value))
    \/ /\ s.op = "barrier"
       /\ a.phase + 1 \in DOMAIN fp.snap
       /\ \A x \in fp.own[a.phase] : fp.snap[a.phase + 1][x] = a.mem[x]
       /\ b = State(a.phase + 1, a.loaded, fp.snap[a.phase + 1])

\* o lists the states from a to b that the steps lead through.
Unfolds(fp, steps, a, b, o) ==
    /\ o[0] = a
    /\ o[Len(steps)] = b
    /\ \A i \in 1..Len(steps) : Effect(fp, steps[i], o[i - 1], o[i])

Runs(fp, steps, a, b) == IsSeq(steps) /\ \E o : Unfolds(fp, steps, a, b, o)

\* The content of the buffers before the dispatch.
Fresh(buffers) == [x \in CellsOf([buffers |-> buffers]) |-> Initially(x)]

Foot(p, t) == [snap |-> p.snap, acc |-> p.acc[t], own |-> p.own[t]]

\* p is a proof that the threads of kernel k do not disturb each other: no
\* thread stores to a cell that another one accesses in the same phase; ...
Apart(k, p) == LET cells == CellsOf(k) IN \A n \in 0..p.last : \A t \in DOMAIN k.program :
    /\ p.own[t][n] \subseteq p.acc[t][n]
    /\ p.acc[t][n] \subseteq cells
    /\ \A u \in DOMAIN k.program \ {t} : p.own[t][n] \cap p.acc[u][n] = {}

\* ... what no thread stores to stays what it is from one phase to the next; ...
Steady(k, p) ==
    /\ p.last \in Nat
    /\ DOMAIN p.snap = 0..p.last
    /\ \A n \in 0..p.last : DOMAIN p.snap[n] = CellsOf(k)
    /\ p.snap[0] = [x \in CellsOf(k) |-> Initially(x)]
    /\ \A n \in 0..p.last : n + 1 \in 0..p.last => \A x \in CellsOf(k) :
          (\A t \in DOMAIN k.program : x \notin p.own[t][n])
              => p.snap[n + 1][x] = p.snap[n][x]

\* ... each thread, alone, comes to the end of its program; ...
Alone(k, p) == \A t \in DOMAIN k.program :
    /\ Runs(Foot(p, t), k.program[t], State(0, <<>>, p.snap[0]), p.end[t])
    /\ p.end[t].phase = p.last

\* ... and what the threads leave is the result.
Results(k, p) ==
    /\ \A x \in CellsOf(k) :
         /\ \A t \in DOMAIN k.program :
               x \in p.own[t][p.last] => p.final[x] = p.end[t].mem[x]
         /\ (\A t \in DOMAIN k.program : x \notin p.own[t][p.last])
               => p.final[x] = p.snap[p.last][x]
         /\ p.final[x] = Initially(x) \/ \E r \in k.result : r.cell = x
    /\ \A r \in k.result : r.cell \in CellsOf(k) /\ r.value = p.final[r.cell]

Outline(k, p) ==
    /\ DOMAIN k.program # {}
    /\ Apart(k, p)
    /\ Steady(k, p)
    /\ Alone(k, p)
    /\ Results(k, p)

Sound(k) == \E p : Outline(k, p)

-----------------------------------------------------------------------------
This == Library(config)[kernel]
Pos(t) == Len(This.program[t]) - Len(todo[t])

InPlace ==
    /\ DOMAIN todo = DOMAIN This.program
    /\ DOMAIN passed = DOMAIN This.program
    /\ DOMAIN loaded = DOMAIN This.program
    /\ DOMAIN memory = CellsOf(This)
    /\ memory = [x \in CellsOf(This) |-> memory[x]]
    /\ \A t \in DOMAIN This.program :
        /\ Pos(t) \in 0..Len(This.program[t])
        /\ todo[t] = SubSeq(This.program[t], Pos(t) + 1, Len(This.program[t]))

\* Every thread is where it would be alone.
Follows(p, o) == \A t \in DOMAIN This.program : LET s == o[t][Pos(t)] IN
    /\ passed[t] = s.phase
    /\ passed[t] \in 0..p.last
    /\ loaded[t] = s.loaded
    /\ DOMAIN s.mem = CellsOf(This)

\* A thread is behind another one by one barrier at most, and then at it.
Lockstep == \A t, u \in DOMAIN This.program :
    passed[u] > passed[t] => passed[u] = passed[t] + 1 /\ At(t, "barrier")

Leading(n) == /\ \E t \in DOMAIN This.program : passed[t] = n
            /\ \A t \in DOMAIN This.program : passed[t] <= n

\* The cells of a thread hold what the thread finds there alone.
Holds(p, o) == \A n \in 0..p.last : Leading(n) =>
    /\ \A t \in DOMAIN This.program : \A x \in p.acc[t][n] :
          memory[x] = IF passed[t] = n THEN o[t][Pos(t)].mem[x] ELSE p.snap[n][x]
    /\ \A x \in CellsOf(This) :
          (\A t \in DOMAIN This.program : x \notin p.own[t][n]) => memory[x] = p.snap[n][x]

Solo(p, o) == \A t \in DOMAIN This.program :
    /\ IsSeq(This.program[t])
    /\ Unfolds(Foot(p, t), This.program[t], State(0, <<>>, p.snap[0]), p.end[t], o[t])

Outlined(p, o) ==
    /\ Outline(This, p)
    /\ Solo(p, o)
    /\ InPlace
    /\ Follows(p, o)
    /\ Lockstep
    /\ Holds(p, o)

InOutline == \E p, o : Outlined(p, o)

\* The threads of a kernel without an outline: the steps load cells of acc and
\* store to cells of own; ...
Reaches(steps, acc, own) ==
    /\ IsSeq(steps)
    /\ \A i \in 1..Len(steps) :
          \/ steps[i].op = "load" /\ steps[i].cell \in acc
          \/ steps[i].op = "store" /\ steps[i].cell \in own
          \/ steps[i].op = "barrier"

\* ... those of every thread are in the buffers, and what one thread stores to and
\* another accesses is in a buffer of raced.
Separate(k, raced, acc, own) == LET cells == CellsOf(k) IN \A t \in DOMAIN k.program :
    /\ Reaches(k.program[t], acc[t], own[t])
    /\ acc[t] \subseteq cells
    /\ own[t] \subseteq cells
    /\ \A u \in DOMAIN k.program \ {t} : \A x \in own[t] :
          x \in acc[u] \cup own[u] => x[1] \in raced
Confined(k, raced) == \E acc, own : Separate(k, raced, acc, own)

InConfines == Raced # {} /\ InPlace /\ Confined(This, Raced)

GridInv == InOutline \/ InConfines

-----------------------------------------------------------------------------
\* A function with the values of f, and behind it those of g, is the overlay.
LEMMA OverlayIs ==
    ASSUME NEW f, NEW g, NEW S, NEW v, S = DOMAIN f \cup DOMAIN g,
           \A x \in DOMAIN f : v[x] = f[x],
           \A x \in DOMAIN g : x \notin DOMAIN f => v[x] = g[x]
    PROVE  Restrict(v, S) = Overlay(f, g)
<1> DEFINE at(x) == IF x \in DOMAIN f THEN f[x] ELSE g[x]
<1>1. Overlay(f, g) = [x \in S |-> at(x)]
  BY Zenon DEF Overlay
<1>2. \A x \in S : v[x] = at(x)
  OBVIOUS
<1> HIDE DEF at
<1> QED BY Zenon, <1>1, <1>2 DEF Restrict

\* Where a thread is, it takes the step its outline takes next.
LEMMA NextStep ==
    ASSUME NEW p, NEW o, Outlined(p, o), NEW t \in DOMAIN This.program, todo[t] # <<>>
    PROVE  /\ Pos(t) \in Nat
           /\ Pos(t) + 1 \in 1..Len(This.program[t])
           /\ Step(t) = This.program[t][Pos(t) + 1]
           /\ Effect(Foot(p, t), Step(t), o[t][Pos(t)], o[t][Pos(t) + 1])
<1>1. IsSeq(This.program[t])
  BY DEF Outlined, Solo
<1>2. /\ Pos(t) \in 0..Len(This.program[t])
      /\ todo[t] = SubSeq(This.program[t], Pos(t) + 1, Len(This.program[t]))
  BY DEF Outlined, InPlace
<1>3. Len(This.program[t]) \in Nat
  BY <1>1, LenIsNat
<1>4. Pos(t) < Len(This.program[t]) /\ Head(todo[t]) = This.program[t][Pos(t) + 1]
  BY <1>1, <1>2, Suffix
<1>5. Pos(t) + 1 \in 1..Len(This.program[t]) /\ (Pos(t) + 1) - 1 = Pos(t) /\ Pos(t) \in Nat
  BY <1>2, <1>3, <1>4, Within
<1>6. Unfolds(Foot(p, t), This.program[t], State(0, <<>>, p.snap[0]), p.end[t], o[t])
  BY DEF Outlined, Solo
<1>7. Effect(Foot(p, t), This.program[t][Pos(t) + 1], o[t][(Pos(t) + 1) - 1], o[t][Pos(t) + 1])
  BY <1>5, <1>6 DEF Unfolds
<1> QED BY <1>4, <1>5, <1>7 DEF Step

\* A thread that has something left to do in its phase is in the last phase any
\* thread is in.
LEMMA AtFront ==
    ASSUME NEW p, NEW o, Outlined(p, o), NEW t \in DOMAIN This.program, Accesses(t)
    PROVE  Leading(passed[t]) /\ passed[t] \in 0..p.last
<1>1. ~At(t, "barrier")
  BY DEF Accesses, At
<1>2. \A u \in DOMAIN This.program : passed[u] \in 0..p.last
  BY DEF Outlined, Follows
<1>3. p.last \in Nat
  BY DEF Outlined, Outline, Steady
<1>4. \A u \in DOMAIN This.program : ~(passed[u] > passed[t])
  BY <1>1 DEF Outlined, Lockstep
<1>5. \A u \in DOMAIN This.program : passed[u] <= passed[t]
  BY <1>2, <1>3, <1>4
<1> QED BY <1>2, <1>5 DEF Leading

\* So it finds in a cell it accesses what it would find alone.
LEMMA Finds ==
    ASSUME NEW p, NEW o, Outlined(p, o), NEW t \in DOMAIN This.program, Accesses(t)
    PROVE  /\ \A x \in p.acc[t][passed[t]] : memory[x] = o[t][Pos(t)].mem[x]
           /\ Step(t).cell \in p.acc[t][passed[t]]
           /\ Step(t).op = "store" => Step(t).cell \in p.own[t][passed[t]]
           /\ Step(t).cell \in DOMAIN memory
<1>1. Leading(passed[t]) /\ passed[t] \in 0..p.last
  BY AtFront
<1>2. \A x \in p.acc[t][passed[t]] : memory[x] = o[t][Pos(t)].mem[x]
  BY <1>1 DEF Outlined, Holds
<1>3. todo[t] # <<>> /\ Step(t).op \in {"load", "store"}
  BY DEF Accesses, At, Step
<1>4. Effect(Foot(p, t), Step(t), o[t][Pos(t)], o[t][Pos(t) + 1])
  BY <1>3, NextStep
<1>5. o[t][Pos(t)].phase = passed[t]
  BY DEF Outlined, Follows
<1>6. p.own[t][passed[t]] \subseteq p.acc[t][passed[t]] /\ p.acc[t][passed[t]] \subseteq CellsOf(This)
  BY <1>1 DEF Outlined, Outline, Apart
<1>7. Step(t).op = "load" => Step(t).cell \in p.acc[t][passed[t]]
  BY <1>4, <1>5 DEF Effect, Foot
<1>8. Step(t).op = "store" => Step(t).cell \in p.own[t][passed[t]]
  BY <1>4, <1>5 DEF Effect, Foot
<1>9. Step(t).cell \in p.acc[t][passed[t]]
  BY <1>3, <1>6, <1>7, <1>8
<1> QED BY <1>2, <1>6, <1>8, <1>9 DEF Outlined, InPlace

\* A step of a thread, as far as all three kinds of it are the same, ...
LEMMA ThreadMoves ==
    ASSUME InPlace, \A u \in DOMAIN This.program : IsSeq(This.program[u]),
           NEW t, NEW op, Does(t, op)
    PROVE  /\ This' = This /\ t \in DOMAIN This.program
           /\ Step(t).op = op /\ todo[t] # <<>>
           /\ Pos(t)' = Pos(t) + 1
           /\ Pos(t) + 1 \in 0..Len(This.program[t])
           /\ \A u \in DOMAIN This.program : u # t => Pos(u)' = Pos(u) /\ todo'[u] = todo[u]
           /\ DOMAIN todo' = DOMAIN This.program
           /\ \A u \in DOMAIN This.program :
                /\ Pos(u)' \in 0..Len(This.program[u])
                /\ todo'[u] = SubSeq(This.program[u], Pos(u)' + 1, Len(This.program[u]))
<1>1. This' = This
  BY DEF Does, This
<1>2. DOMAIN todo = DOMAIN This.program
  BY DEF InPlace
<1>3. t \in DOMAIN This.program /\ Step(t).op = op /\ todo[t] # <<>>
  BY <1>2 DEF Does, At, Grid, Step
<1>4. todo' = [todo EXCEPT ![t] = Tail(@)]
  BY DEF Does
<1>5. DOMAIN todo' = DOMAIN This.program /\ todo'[t] = Tail(todo[t])
  BY <1>2, <1>3, <1>4
<1>6. ASSUME NEW u \in DOMAIN This.program, u # t
      PROVE  Pos(u)' = Pos(u) /\ todo'[u] = todo[u]
  <2>1. todo'[u] = todo[u]
    BY <1>2, <1>4, <1>6
  <2> QED BY <1>1, <2>1 DEF Pos
<1>7. /\ IsSeq(This.program[t])
      /\ Pos(t) \in 0..Len(This.program[t])
      /\ todo[t] = SubSeq(This.program[t], Pos(t) + 1, Len(This.program[t]))
  BY <1>3 DEF InPlace
<1>8. Len(This.program[t]) \in Nat
  BY <1>7, LenIsNat
<1>9. /\ Pos(t) < Len(This.program[t])
      /\ Tail(todo[t]) = SubSeq(This.program[t], (Pos(t) + 1) + 1, Len(This.program[t]))
      /\ Len(Tail(todo[t])) = Len(This.program[t]) - (Pos(t) + 1)
  BY <1>3, <1>7, Suffix
<1>10. Pos(t) + 1 \in 1..Len(This.program[t]) /\ Pos(t) + 1 \in 0..Len(This.program[t])
  BY <1>7, <1>8, <1>9, Within
<1>11. Pos(t)' = Pos(t) + 1
  <2>1. Pos(t)' = Len(This.program[t]) - Len(Tail(todo[t]))
    BY <1>1, <1>5 DEF Pos
  <2>2. \A n \in Nat : \A i \in 1..n : n - (n - i) = i
    OBVIOUS
  <2> QED BY <2>1, <2>2, <1>8, <1>9, <1>10
<1>12. ASSUME NEW u \in DOMAIN This.program
       PROVE  /\ Pos(u)' \in 0..Len(This.program[u])
              /\ todo'[u] = SubSeq(This.program[u], Pos(u)' + 1, Len(This.program[u]))
  <2>1. CASE u = t
    BY <2>1, <1>5, <1>9, <1>10, <1>11
  <2>2. CASE u # t
    BY <2>2, <1>6 DEF InPlace
  <2> QED BY <2>1, <2>2
<1> QED BY <1>1, <1>3, <1>5, <1>6, <1>10, <1>11, <1>12

\* ... and the effect it has in the outline.
LEMMA Advance ==
    ASSUME NEW p, NEW o, Outlined(p, o), NEW t, NEW op, Does(t, op)
    PROVE  /\ This' = This /\ t \in DOMAIN This.program
           /\ Step(t).op = op /\ todo[t] # <<>>
           /\ Pos(t)' = Pos(t) + 1
           /\ Pos(t) + 1 \in 0..Len(This.program[t])
           /\ \A u \in DOMAIN This.program : u # t => Pos(u)' = Pos(u) /\ todo'[u] = todo[u]
           /\ DOMAIN todo' = DOMAIN This.program
           /\ \A u \in DOMAIN This.program :
                /\ Pos(u)' \in 0..Len(This.program[u])
                /\ todo'[u] = SubSeq(This.program[u], Pos(u)' + 1, Len(This.program[u]))
           /\ Effect(Foot(p, t), Step(t), o[t][Pos(t)], o[t][Pos(t) + 1])
<1>1. InPlace /\ \A u \in DOMAIN This.program : IsSeq(This.program[u])
  BY DEF Outlined, Solo
<1>2. t \in DOMAIN This.program /\ todo[t] # <<>>
  BY <1>1, ThreadMoves
<1>3. Effect(Foot(p, t), Step(t), o[t][Pos(t)], o[t][Pos(t) + 1])
  BY <1>2, NextStep
<1> QED BY <1>1, <1>3, ThreadMoves

\* Barriers are still passed together after a step that passes none: the thread
\* that took it was not at one.
LEMMA LockstepKept ==
    ASSUME NEW p, NEW o, Outlined(p, o), NEW t, NEW op, Does(t, op), op # "barrier",
           passed' = passed
    PROVE  Lockstep'
<1>1. /\ This' = This /\ Step(t).op = op
      /\ \A u \in DOMAIN This.program : u # t => todo'[u] = todo[u]
      /\ DOMAIN todo' = DOMAIN This.program /\ DOMAIN todo = DOMAIN This.program
  BY Advance DEF Outlined, InPlace
<1>2. ~At(t, "barrier")
  BY <1>1 DEF At, Step
<1>3. ASSUME NEW v \in DOMAIN This.program, NEW u \in DOMAIN This.program,
             passed[u] > passed[v]
      PROVE  passed[u] = passed[v] + 1 /\ At(v, "barrier")'
  <2>1. passed[u] = passed[v] + 1 /\ At(v, "barrier")
    BY <1>3 DEF Outlined, Lockstep
  <2>2. v # t
    BY <1>2, <2>1
  <2>3. todo'[v] = todo[v] /\ v \in DOMAIN todo'
    BY <1>1, <2>2
  <2> QED BY <2>1, <2>3 DEF At, Grid
<1> QED BY <1>1, <1>3 DEF Lockstep

\* A load finds what the thread would find alone, so it still follows.
LEMMA LoadFollows ==
    ASSUME NEW p, NEW o, Outlined(p, o), NEW t, DoLoad(t)
    PROVE  Outlined(p, o)'
<1> DEFINE a == o[t][Pos(t)]
           b == o[t][Pos(t) + 1]
<1>1. /\ Does(t, "load")
      /\ loaded' = [loaded EXCEPT ![t] = Append(@, memory[Step(t).cell])]
      /\ passed' = passed /\ memory' = memory
  BY DEF DoLoad
<1>2. /\ This' = This /\ t \in DOMAIN This.program
      /\ Step(t).op = "load" /\ todo[t] # <<>>
      /\ Pos(t)' = Pos(t) + 1
      /\ \A u \in DOMAIN This.program : u # t => Pos(u)' = Pos(u)
      /\ DOMAIN todo' = DOMAIN This.program
      /\ \A u \in DOMAIN This.program :
           /\ Pos(u)' \in 0..Len(This.program[u])
           /\ todo'[u] = SubSeq(This.program[u], Pos(u)' + 1, Len(This.program[u]))
      /\ Effect(Foot(p, t), Step(t), a, b)
  BY <1>1, Advance
<1>3. Accesses(t)
  BY <1>1 DEF Does, Accesses
<1>4. b = State(a.phase, Append(a.loaded, a.mem[Step(t).cell]), a.mem)
  BY <1>2 DEF Effect
<1>5. memory[Step(t).cell] = a.mem[Step(t).cell]
  <2>1. t \in DOMAIN This.program
    BY <1>2
  <2>2. /\ \A x \in p.acc[t][passed[t]] : memory[x] = o[t][Pos(t)].mem[x]
        /\ Step(t).cell \in p.acc[t][passed[t]]
    BY <1>3, <2>1, Finds
  <2> QED BY <2>2
<1>6. InPlace'
  BY <1>1, <1>2 DEF Outlined, InPlace
<1>7. Follows(p, o)'
  <2>1. SUFFICES ASSUME NEW u \in DOMAIN This.program
                 PROVE  /\ passed[u] = o[u][Pos(u)'].phase
                        /\ passed[u] \in 0..p.last
                        /\ loaded'[u] = o[u][Pos(u)'].loaded
                        /\ DOMAIN o[u][Pos(u)'].mem = CellsOf(This)
    BY <1>1, <1>2 DEF Follows
  <2>2. /\ passed[u] = o[u][Pos(u)].phase /\ passed[u] \in 0..p.last
        /\ loaded[u] = o[u][Pos(u)].loaded /\ DOMAIN o[u][Pos(u)].mem = CellsOf(This)
    BY DEF Outlined, Follows
  <2>3. DOMAIN loaded = DOMAIN This.program
    BY DEF Outlined, InPlace
  <2>4. CASE u = t
    <3>1. loaded'[t] = Append(loaded[t], memory[Step(t).cell])
      BY <1>1, <1>2, <2>3
    <3>2. b.phase = a.phase /\ b.mem = a.mem
          /\ b.loaded = Append(a.loaded, a.mem[Step(t).cell])
      BY <1>4 DEF State
    <3> HIDE DEF a, b
    <3>3. loaded[t] = a.loaded /\ passed[t] = a.phase /\ DOMAIN a.mem = CellsOf(This)
      BY <2>2, <2>4 DEF a
    <3>4. loaded'[t] = b.loaded /\ passed[t] = b.phase /\ DOMAIN b.mem = CellsOf(This)
      BY <3>1, <3>2, <3>3, <1>5
    <3> QED BY <1>2, <2>2, <2>4, <3>4 DEF b
  <2>5. CASE u # t
    <3>1. loaded'[u] = loaded[u] /\ Pos(u)' = Pos(u)
      BY <1>1, <1>2, <2>3, <2>5
    <3> QED BY <2>2, <3>1
  <2> QED BY <2>4, <2>5
<1>8. Lockstep'
  BY <1>1, LockstepKept
<1>9. Holds(p, o)'
  <2>1. \A u \in DOMAIN This.program : o[u][Pos(u)'].mem = o[u][Pos(u)].mem
    <3>1. b.mem = a.mem
      BY <1>4 DEF State
    <3> HIDE DEF a, b
    <3>2. o[t][Pos(t)'].mem = o[t][Pos(t)].mem
      BY <1>2, <3>1 DEF a, b
    <3> QED BY <1>2, <3>2
  <2>2. \A n : Leading(n)' <=> Leading(n)
    BY <1>1, <1>2 DEF Leading
  <2>3. SUFFICES ASSUME NEW n \in 0..p.last, Leading(n)
                 PROVE  /\ \A u \in DOMAIN This.program : \A x \in p.acc[u][n] :
                             memory[x] = IF passed[u] = n THEN o[u][Pos(u)'].mem[x]
                                         ELSE p.snap[n][x]
                        /\ \A x \in CellsOf(This) :
                             (\A u \in DOMAIN This.program : x \notin p.own[u][n])
                                 => memory[x] = p.snap[n][x]
    BY <1>1, <1>2, <2>2 DEF Holds
  <2>4. /\ \A u \in DOMAIN This.program : \A x \in p.acc[u][n] :
             memory[x] = IF passed[u] = n THEN o[u][Pos(u)].mem[x] ELSE p.snap[n][x]
        /\ \A x \in CellsOf(This) :
             (\A u \in DOMAIN This.program : x \notin p.own[u][n]) => memory[x] = p.snap[n][x]
    BY <2>3 DEF Outlined, Holds
  <2> QED BY <2>1, <2>4
<1>10. Outline(This, p)' /\ Solo(p, o)'
  BY <1>2 DEF Outlined, Solo
<1> QED BY <1>6, <1>7, <1>8, <1>9, <1>10 DEF Outlined

\* A store leaves in the cell what the thread would leave there alone, and no
\* other thread has anything to do with the cell in this phase.
LEMMA StoreFollows ==
    ASSUME NEW p, NEW o, Outlined(p, o), NEW t, DoStore(t)
    PROVE  Outlined(p, o)'
<1> DEFINE a == o[t][Pos(t)]
           b == o[t][Pos(t) + 1]
           value == Term(Step(t).f, [i \in 1..Len(Step(t).of) |-> loaded[t][Step(t).of[i]]])
<1>1. /\ Does(t, "store")
      /\ memory' = [memory EXCEPT ![Step(t).cell] = value]
      /\ passed' = passed /\ loaded' = loaded
  BY DEF DoStore
<1>2. /\ This' = This /\ t \in DOMAIN This.program
      /\ Step(t).op = "store" /\ todo[t] # <<>>
      /\ Pos(t)' = Pos(t) + 1
      /\ \A u \in DOMAIN This.program : u # t => Pos(u)' = Pos(u)
      /\ DOMAIN todo' = DOMAIN This.program
      /\ \A u \in DOMAIN This.program :
           /\ Pos(u)' \in 0..Len(This.program[u])
           /\ todo'[u] = SubSeq(This.program[u], Pos(u)' + 1, Len(This.program[u]))
      /\ Effect(Foot(p, t), Step(t), a, b)
  BY <1>1, Advance
<1>3. Accesses(t)
  BY <1>1 DEF Does, Accesses
<1>4. /\ passed[t] = a.phase /\ loaded[t] = a.loaded /\ DOMAIN a.mem = CellsOf(This)
      /\ DOMAIN memory = CellsOf(This)
  BY <1>2 DEF Outlined, Follows, InPlace
<1>5. b = State(a.phase, a.loaded, Put(a.mem, Step(t).cell, value))
  <2>1. b = State(a.phase, a.loaded, Put(a.mem, Step(t).cell,
               Term(Step(t).f, [i \in 1..Len(Step(t).of) |-> a.loaded[Step(t).of[i]]])))
    BY <1>2 DEF Effect
  <2> QED BY <1>4, <2>1
<1>6. /\ Step(t).cell \in p.own[t][passed[t]]
      /\ Step(t).cell \in DOMAIN memory
      /\ Leading(passed[t]) /\ passed[t] \in 0..p.last
  BY <1>2, <1>3, Finds, AtFront
<1>7. InPlace'
  BY <1>1, <1>2 DEF Outlined, InPlace
<1> HIDE DEF a, b, value
<1>8. b.phase = a.phase /\ b.loaded = a.loaded /\ b.mem = Put(a.mem, Step(t).cell, value)
  BY <1>5 DEF State
<1>9. DOMAIN b.mem = CellsOf(This)
  BY <1>4, <1>8 DEF Put
<1>10. Follows(p, o)'
  <2>1. SUFFICES ASSUME NEW u \in DOMAIN This.program
                 PROVE  /\ passed[u] = o[u][Pos(u)'].phase
                        /\ passed[u] \in 0..p.last
                        /\ loaded[u] = o[u][Pos(u)'].loaded
                        /\ DOMAIN o[u][Pos(u)'].mem = CellsOf(This)
    BY <1>1, <1>2 DEF Follows
  <2>2. /\ passed[u] = o[u][Pos(u)].phase /\ passed[u] \in 0..p.last
        /\ loaded[u] = o[u][Pos(u)].loaded /\ DOMAIN o[u][Pos(u)].mem = CellsOf(This)
    BY DEF Outlined, Follows
  <2>3. CASE u = t
    <3>1. o[t][Pos(t)'] = b
      BY <1>2 DEF b
    <3> QED BY <1>4, <1>8, <1>9, <2>2, <2>3, <3>1
  <2>4. CASE u # t
    BY <1>2, <2>2, <2>4
  <2> QED BY <2>3, <2>4
<1>11. Lockstep'
  BY <1>1, LockstepKept
<1>12. Holds(p, o)'
  <2>1. \A n : Leading(n)' <=> Leading(n)
    BY <1>1, <1>2 DEF Leading
  <2>2. SUFFICES ASSUME NEW n \in 0..p.last, Leading(n)
                 PROVE  /\ \A u \in DOMAIN This.program : \A x \in p.acc[u][n] :
                             memory'[x] = IF passed[u] = n THEN o[u][Pos(u)'].mem[x]
                                          ELSE p.snap[n][x]
                        /\ \A x \in CellsOf(This) :
                             (\A u \in DOMAIN This.program : x \notin p.own[u][n])
                                 => memory'[x] = p.snap[n][x]
    BY <1>1, <1>2, <2>1 DEF Holds
  <2>3. /\ \A u \in DOMAIN This.program : \A x \in p.acc[u][n] :
             memory[x] = IF passed[u] = n THEN o[u][Pos(u)].mem[x] ELSE p.snap[n][x]
        /\ \A x \in CellsOf(This) :
             (\A u \in DOMAIN This.program : x \notin p.own[u][n]) => memory[x] = p.snap[n][x]
    BY <2>2 DEF Outlined, Holds
  <2>4. n = passed[t]
    <3>1. \A u \in DOMAIN This.program : passed[u] \in 0..p.last
      BY DEF Outlined, Follows
    <3>2. p.last \in Nat
      BY DEF Outlined, Outline, Steady
    <3>3. passed[t] <= n
      BY <1>2, <2>2 DEF Leading
    <3>4. n <= passed[t]
      BY <1>6, <2>2 DEF Leading
    <3> QED BY <1>2, <3>1, <3>2, <3>3, <3>4
  <2>5. \A x : x # Step(t).cell => memory'[x] = memory[x]
    BY <1>1
  <2>6. memory'[Step(t).cell] = value
    BY <1>1, <1>6
  <2>7. ASSUME NEW u \in DOMAIN This.program, NEW x \in p.acc[u][n]
        PROVE  memory'[x] = IF passed[u] = n THEN o[u][Pos(u)'].mem[x] ELSE p.snap[n][x]
    <3>1. CASE u = t
      <4>1. o[t][Pos(t)'].mem = Put(a.mem, Step(t).cell, value)
        BY <1>2, <1>8 DEF b
      <4>2. x \in CellsOf(This)
        BY <2>2, <2>7 DEF Outlined, Outline, Apart
      <4>3. memory[x] = a.mem[x]
        BY <2>3, <2>4, <2>7, <3>1 DEF a
      <4>4. memory'[x] = Put(a.mem, Step(t).cell, value)[x]
        BY <1>4, <2>5, <2>6, <4>2, <4>3 DEF Put
      <4> QED BY <2>4, <3>1, <4>1, <4>4
    <3>2. CASE u # t
      <4>1. p.own[t][n] \cap p.acc[u][n] = {}
        BY <1>2, <2>2, <2>7, <3>2 DEF Outlined, Outline, Apart
      <4>2. x # Step(t).cell
        BY <1>6, <2>4, <2>7, <4>1
      <4> QED BY <1>2, <2>3, <2>5, <2>7, <3>2, <4>2
    <3> QED BY <3>1, <3>2
  <2>8. ASSUME NEW x \in CellsOf(This),
               \A u \in DOMAIN This.program : x \notin p.own[u][n]
        PROVE  memory'[x] = p.snap[n][x]
    <3>1. x # Step(t).cell
      BY <1>2, <1>6, <2>4, <2>8
    <3> QED BY <2>3, <2>5, <2>8, <3>1
  <2> QED BY <2>7, <2>8
<1>13. Outline(This, p)' /\ Solo(p, o)'
  BY <1>2 DEF Outlined, Solo
<1> QED BY <1>7, <1>10, <1>11, <1>12, <1>13 DEF Outlined

\* What the cells hold when all threads have come to a barrier is what the next
\* phase begins with.
LEMMA PhaseEnds ==
    ASSUME NEW p, NEW o, Outlined(p, o), NEW n \in 0..p.last, Leading(n),
           \A u \in DOMAIN This.program : passed[u] = n /\ At(u, "barrier")
    PROVE  n + 1 \in 0..p.last /\ \A x \in CellsOf(This) : memory[x] = p.snap[n + 1][x]
<1>1. ASSUME NEW u \in DOMAIN This.program
      PROVE  /\ n + 1 \in DOMAIN p.snap
             /\ \A x \in p.own[u][n] : p.snap[n + 1][x] = o[u][Pos(u)].mem[x]
  <2>1. todo[u] # <<>> /\ Step(u).op = "barrier"
    BY DEF At, Step
  <2>2. Effect(Foot(p, u), Step(u), o[u][Pos(u)], o[u][Pos(u) + 1])
    BY <2>1, NextStep
  <2>3. o[u][Pos(u)].phase = n
    BY DEF Outlined, Follows
  <2> QED BY <2>1, <2>2, <2>3 DEF Effect, Foot
<1>2. n + 1 \in 0..p.last
  BY <1>1 DEF Outlined, Outline, Steady
<1>3. ASSUME NEW x \in CellsOf(This)
      PROVE  memory[x] = p.snap[n + 1][x]
  <2>1. CASE \A u \in DOMAIN This.program : x \notin p.own[u][n]
    <3>1. memory[x] = p.snap[n][x]
      BY <2>1 DEF Outlined, Holds
    <3>2. p.snap[n + 1][x] = p.snap[n][x]
      BY <1>2, <2>1 DEF Outlined, Outline, Steady
    <3> QED BY <3>1, <3>2
  <2>2. CASE \E u \in DOMAIN This.program : x \in p.own[u][n]
    <3>1. PICK u \in DOMAIN This.program : x \in p.own[u][n]
      BY <2>2
    <3>2. x \in p.acc[u][n]
      BY <3>1 DEF Outlined, Outline, Apart
    <3>3. memory[x] = o[u][Pos(u)].mem[x]
      BY <3>2 DEF Outlined, Holds
    <3> QED BY <1>1, <3>1, <3>3
  <2> QED BY <2>1, <2>2
<1> QED BY <1>2, <1>3

\* The first thread to pass a barrier finds all others at it, and the cells as
\* the next phase begins; the others find the cells of theirs as the first.
LEMMA BarrierFollows ==
    ASSUME NEW p, NEW o, Outlined(p, o), NEW t, DoBarrier(t)
    PROVE  Outlined(p, o)'
<1> DEFINE a == o[t][Pos(t)]
           b == o[t][Pos(t) + 1]
           m == passed[t]
<1>1. /\ Does(t, "barrier")
      /\ \A u \in Grid : passed[u] > passed[t] \/ (passed[u] = passed[t] /\ At(u, "barrier"))
      /\ passed' = [passed EXCEPT ![t] = @ + 1]
      /\ loaded' = loaded /\ memory' = memory
  BY DEF DoBarrier
<1>2. /\ This' = This /\ t \in DOMAIN This.program
      /\ Step(t).op = "barrier" /\ todo[t] # <<>>
      /\ Pos(t)' = Pos(t) + 1
      /\ \A u \in DOMAIN This.program : u # t => Pos(u)' = Pos(u) /\ todo'[u] = todo[u]
      /\ DOMAIN todo' = DOMAIN This.program
      /\ \A u \in DOMAIN This.program :
           /\ Pos(u)' \in 0..Len(This.program[u])
           /\ todo'[u] = SubSeq(This.program[u], Pos(u)' + 1, Len(This.program[u]))
      /\ Effect(Foot(p, t), Step(t), a, b)
  BY <1>1, Advance
<1>3. /\ m = a.phase /\ loaded[t] = a.loaded /\ DOMAIN a.mem = CellsOf(This)
      /\ DOMAIN passed = DOMAIN This.program /\ Grid = DOMAIN This.program
  BY <1>2 DEF Outlined, Follows, InPlace, Grid
<1>4. /\ m + 1 \in DOMAIN p.snap
      /\ b = State(m + 1, a.loaded, p.snap[m + 1])
  BY <1>2, <1>3 DEF Effect, Foot
<1>5. /\ p.last \in Nat /\ DOMAIN p.snap = 0..p.last
      /\ DOMAIN p.snap[m + 1] = CellsOf(This)
  BY <1>4 DEF Outlined, Outline, Steady
<1>6. \A u \in DOMAIN This.program : passed[u] \in 0..p.last
  BY DEF Outlined, Follows
<1>7. m \in Nat /\ m + 1 \in 0..p.last /\ m \in 0..p.last
  BY <1>2, <1>4, <1>5, <1>6
<1>8. InPlace'
  BY <1>1, <1>2, <1>3 DEF Outlined, InPlace
<1> HIDE DEF a, b, m
<1>9. b.phase = m + 1 /\ b.loaded = a.loaded /\ b.mem = p.snap[m + 1]
  BY <1>4 DEF State
<1>10. passed'[t] = m + 1 /\ \A u \in DOMAIN This.program : u # t => passed'[u] = passed[u]
  BY <1>1, <1>2, <1>3 DEF m
<1>11. o[t][Pos(t)'] = b
  BY <1>2 DEF b
<1>12. Follows(p, o)'
  <2>1. SUFFICES ASSUME NEW u \in DOMAIN This.program
                 PROVE  /\ passed'[u] = o[u][Pos(u)'].phase
                        /\ passed'[u] \in 0..p.last
                        /\ loaded[u] = o[u][Pos(u)'].loaded
                        /\ DOMAIN o[u][Pos(u)'].mem = CellsOf(This)
    BY <1>1, <1>2 DEF Follows
  <2>2. /\ passed[u] = o[u][Pos(u)].phase /\ passed[u] \in 0..p.last
        /\ loaded[u] = o[u][Pos(u)].loaded /\ DOMAIN o[u][Pos(u)].mem = CellsOf(This)
    BY DEF Outlined, Follows
  <2>3. CASE u = t
    BY <1>3, <1>5, <1>7, <1>9, <1>10, <1>11, <2>3
  <2>4. CASE u # t
    BY <1>2, <1>10, <2>2, <2>4
  <2> QED BY <2>3, <2>4
<1>13. \A u \in DOMAIN This.program :
          \/ passed[u] = m /\ At(u, "barrier")
          \/ passed[u] = m + 1
  <2>1. SUFFICES ASSUME NEW u \in DOMAIN This.program
                 PROVE  (passed[u] = m /\ At(u, "barrier")) \/ passed[u] = m + 1
    OBVIOUS
  <2>2. passed[u] > m \/ (passed[u] = m /\ At(u, "barrier"))
    BY <1>1, <1>3 DEF m
  <2>3. passed[u] > m => passed[u] = m + 1
    BY <1>2 DEF Outlined, Lockstep, m
  <2> QED BY <2>2, <2>3
<1>14. Lockstep'
  <2>1. SUFFICES ASSUME NEW v \in DOMAIN This.program, NEW u \in DOMAIN This.program,
                        passed'[u] > passed'[v]
                 PROVE  passed'[u] = passed'[v] + 1 /\ At(v, "barrier")'
    BY <1>2 DEF Lockstep
  <2>2. (passed'[u] = m \/ passed'[u] = m + 1) /\ (passed'[v] = m \/ passed'[v] = m + 1)
    BY <1>10, <1>13
  <2>3. passed'[u] = m + 1 /\ passed'[v] = m
    BY <1>7, <2>1, <2>2
  <2>4. v # t
    BY <1>7, <1>10, <2>3
  <2>5. At(v, "barrier")
    BY <1>7, <1>10, <1>13, <2>3, <2>4
  <2>6. todo'[v] = todo[v] /\ v \in DOMAIN todo' /\ v \in DOMAIN todo
    BY <1>2, <1>3, <2>4 DEF Grid
  <2> QED BY <2>3, <2>5, <2>6 DEF At, Grid
<1>15. \A u \in DOMAIN This.program : \A x \in p.acc[u][m + 1] :
          memory[x] = IF passed'[u] = m + 1 THEN o[u][Pos(u)'].mem[x] ELSE p.snap[m + 1][x]
  <2>1. CASE \A u \in DOMAIN This.program : passed[u] = m
    <3>1. \A u \in DOMAIN This.program : passed[u] = m /\ At(u, "barrier")
      BY <1>7, <1>13, <2>1
    <3>2. Leading(m)
      BY <1>2, <1>7, <2>1 DEF Leading
    <3>3. \A x \in CellsOf(This) : memory[x] = p.snap[m + 1][x]
      BY <1>7, <3>1, <3>2, PhaseEnds
    <3>4. \A u \in DOMAIN This.program : p.acc[u][m + 1] \subseteq CellsOf(This)
      BY <1>7 DEF Outlined, Outline, Apart
    <3>5. \A u \in DOMAIN This.program : passed'[u] = m + 1 => u = t
      BY <1>7, <1>10, <2>1
    <3>6. o[t][Pos(t)'].mem = p.snap[m + 1]
      BY <1>9, <1>11
    <3> QED BY <3>3, <3>4, <3>5, <3>6
  <2>2. CASE \E u \in DOMAIN This.program : passed[u] # m
    <3>1. Leading(m + 1)
      BY <1>7, <1>13, <2>2 DEF Leading
    <3>2. \A u \in DOMAIN This.program : \A x \in p.acc[u][m + 1] :
            memory[x] = IF passed[u] = m + 1 THEN o[u][Pos(u)].mem[x] ELSE p.snap[m + 1][x]
      BY <1>7, <3>1 DEF Outlined, Holds
    <3>3. ASSUME NEW u \in DOMAIN This.program, NEW x \in p.acc[u][m + 1]
          PROVE  memory[x] = IF passed'[u] = m + 1 THEN o[u][Pos(u)'].mem[x]
                             ELSE p.snap[m + 1][x]
      <4>1. CASE u = t
        <5>1. passed[t] # m + 1
          BY <1>7 DEF m
        <5>2. memory[x] = p.snap[m + 1][x]
          BY <3>2, <3>3, <4>1, <5>1
        <5> QED BY <1>9, <1>10, <1>11, <4>1, <5>2
      <4>2. CASE u # t
        BY <1>2, <1>10, <3>2, <3>3, <4>2
      <4> QED BY <4>1, <4>2
    <3> QED BY <3>3
  <2> QED BY <2>1, <2>2
<1>16. \A x \in CellsOf(This) : (\A u \in DOMAIN This.program : x \notin p.own[u][m + 1])
          => memory[x] = p.snap[m + 1][x]
  <2>1. CASE \A u \in DOMAIN This.program : passed[u] = m
    <3>1. \A u \in DOMAIN This.program : passed[u] = m /\ At(u, "barrier")
      BY <1>7, <1>13, <2>1
    <3>2. Leading(m)
      BY <1>2, <1>7, <2>1 DEF Leading
    <3> QED BY <1>7, <3>1, <3>2, PhaseEnds
  <2>2. CASE \E u \in DOMAIN This.program : passed[u] # m
    <3>1. Leading(m + 1)
      BY <1>7, <1>13, <2>2 DEF Leading
    <3> QED BY <1>7, <3>1 DEF Outlined, Holds
  <2> QED BY <2>1, <2>2
<1>17. Holds(p, o)'
  <2>1. SUFFICES ASSUME NEW n \in 0..p.last, Leading(n)'
                 PROVE  /\ \A u \in DOMAIN This.program : \A x \in p.acc[u][n] :
                             memory[x] = IF passed'[u] = n THEN o[u][Pos(u)'].mem[x]
                                         ELSE p.snap[n][x]
                        /\ \A x \in CellsOf(This) :
                             (\A u \in DOMAIN This.program : x \notin p.own[u][n])
                                 => memory[x] = p.snap[n][x]
    BY <1>1, <1>2 DEF Holds
  <2>2. n = m + 1
    <3>1. /\ \E u \in DOMAIN This.program : passed'[u] = n
          /\ \A u \in DOMAIN This.program : passed'[u] <= n
      BY <1>2, <2>1 DEF Leading
    <3>2. m + 1 <= n
      BY <1>2, <1>10, <3>1
    <3>3. n <= m + 1
      BY <1>7, <1>10, <1>13, <3>1
    <3> QED BY <1>7, <3>2, <3>3
  <2> QED BY <1>15, <1>16, <2>2
<1>18. Outline(This, p)' /\ Solo(p, o)'
  BY <1>2 DEF Outlined, Solo
<1> QED BY <1>8, <1>12, <1>14, <1>17, <1>18 DEF Outlined

\* Every step of a dispatch keeps the invariant: loads, stores and barriers take
\* their thread one step on in its outline, and disturb no other.
LEMMA OutlineStep == InOutline /\ [Next]_vars => InOutline'
<1>1. SUFFICES ASSUME InOutline, [Next]_vars PROVE InOutline'
  OBVIOUS
<1>2. PICK p, o : Outlined(p, o)
  BY <1>1 DEF InOutline
<1>3. SUFFICES Outlined(p, o)'
  BY <1>3 DEF InOutline
<1>4. ASSUME NEW t \in Threads, Thread(t) PROVE Outlined(p, o)'
  BY <1>2, <1>4, LoadFollows, StoreFollows, BarrierFollows DEF Thread
<1>5. CASE UNCHANGED vars
  <2>1. /\ config' = config /\ kernel' = kernel /\ todo' = todo
        /\ passed' = passed /\ loaded' = loaded /\ memory' = memory
    BY <1>5 DEF vars
  <2>2. /\ This' = This /\ Lockstep' <=> Lockstep
        /\ \A t : Pos(t)' = Pos(t)
        /\ \A n : Leading(n)' <=> Leading(n)
    BY <2>1 DEF This, Pos, Lockstep, At, Grid, Leading
  <2>3. InPlace'
    BY <1>2, <2>1, <2>2 DEF Outlined, InPlace
  <2>4. Follows(p, o)' /\ Holds(p, o)'
    BY <1>2, <2>1, <2>2 DEF Outlined, Follows, Holds
  <2> QED BY <1>2, <2>2, <2>3, <2>4 DEF Outlined, Solo
<1> QED BY <1>1, <1>4, <1>5 DEF Next

\* So does every step of a kernel without one: its threads go on through their
\* programs, which are what they were.
LEMMA ConfinesStep == InConfines /\ [Next]_vars => InConfines'
<1>1. SUFFICES ASSUME InConfines, [Next]_vars PROVE InConfines'
  OBVIOUS
<1>2. InPlace /\ Confined(This, Raced) /\ Raced # {}
  BY <1>1 DEF InConfines
<1>3. PICK acc, own : Separate(This, Raced, acc, own)
  BY <1>2 DEF Confined
<1>4. \A u \in DOMAIN This.program : IsSeq(This.program[u])
  BY <1>3 DEF Separate, Reaches
<1>5. CASE UNCHANGED vars
  <2>1. /\ config' = config /\ kernel' = kernel /\ todo' = todo
        /\ passed' = passed /\ loaded' = loaded /\ memory' = memory
    BY <1>5 DEF vars
  <2>2. This' = This /\ Raced' = Raced /\ \A t : Pos(t)' = Pos(t)
    BY <2>1 DEF This, Raced, Pos
  <2>3. InPlace'
    BY <1>2, <2>1, <2>2 DEF InPlace
  <2> QED BY <1>2, <2>2, <2>3 DEF InConfines
<1>6. ASSUME NEW t \in Threads, Thread(t) PROVE InConfines'
  <2>1. PICK op : Does(t, op)
    BY <1>6 DEF Thread, DoLoad, DoStore, DoBarrier
  <2>2. /\ This' = This
        /\ DOMAIN todo' = DOMAIN This.program
        /\ \A u \in DOMAIN This.program :
             /\ Pos(u)' \in 0..Len(This.program[u])
             /\ todo'[u] = SubSeq(This.program[u], Pos(u)' + 1, Len(This.program[u]))
    BY <1>2, <1>4, <2>1, ThreadMoves
  <2>3. Raced' = Raced
    BY <2>1 DEF Does, Raced
  <2>4. /\ DOMAIN passed' = DOMAIN passed
        /\ DOMAIN loaded' = DOMAIN loaded
        /\ DOMAIN memory' = DOMAIN memory
        /\ memory' = [x \in DOMAIN memory' |-> memory'[x]]
    <3>1. CASE DoLoad(t)
      BY <1>2, <3>1 DEF DoLoad, InPlace
    <3>2. CASE DoStore(t)
      BY <3>2 DEF DoStore
    <3>3. CASE DoBarrier(t)
      BY <1>2, <3>3 DEF DoBarrier, InPlace
    <3> QED BY <1>6, <3>1, <3>2, <3>3 DEF Thread
  <2>5. InPlace'
    BY <1>2, <2>2, <2>4 DEF InPlace
  <2> QED BY <1>2, <2>2, <2>3, <2>5 DEF InConfines
<1> QED BY <1>1, <1>5, <1>6 DEF Next

\* So a step of any dispatch keeps the invariant.
LEMMA GridStep == GridInv /\ [Next]_vars => GridInv'
BY OutlineStep, ConfinesStep DEF GridInv

\* A kernel has an outline, or it is confined to the buffers it races in.
Fine(k, raced) == Sound(k) \/ (raced # {} /\ Confined(k, raced))

LibraryFine == \A d \in Dispatches : \A name \in d[2] :
    Fine(Library(d[1])[name], RacedBy(name, d[1]))

\* The threads before their first steps.
Begins(k) ==
    /\ todo = k.program
    /\ passed = [t \in DOMAIN k.program |-> 0]
    /\ loaded = [t \in DOMAIN k.program |-> <<>>]
    /\ memory = [x \in CellsOf(k) |-> Initially(x)]

\* They are at the first places of their programs.
LEMMA BeginsInPlace ==
    ASSUME Begins(This), \A t \in DOMAIN This.program : IsSeq(This.program[t])
    PROVE  InPlace /\ \A t \in DOMAIN This.program : Pos(t) = 0
<1> DEFINE k == This
<1>1. ASSUME NEW t \in DOMAIN k.program
      PROVE  /\ Pos(t) = 0 /\ 0 \in 0..Len(k.program[t])
             /\ todo[t] = SubSeq(k.program[t], 0 + 1, Len(k.program[t]))
  <2>1. PICK S : k.program[t] \in Seq(S)
    BY DEF IsSeq
  <2>2. todo[t] = k.program[t]
    BY DEF Begins
  <2>3. Pos(t) = Len(k.program[t]) - Len(k.program[t])
    BY <2>2 DEF Pos
  <2> HIDE DEF k
  <2>4. Len(k.program[t]) \in Nat /\ k.program[t] = SubSeq(k.program[t], 1, Len(k.program[t]))
    BY <2>1
  <2> QED BY <2>2, <2>3, <2>4
<1>2. InPlace
  BY <1>1 DEF InPlace, Begins
<1> QED BY <1>1, <1>2

\* A dispatch begins where its outline does.
LEMMA OutlineInit == ASSUME Begins(This), Sound(This) PROVE InOutline
<1> DEFINE k == This
<1>5. /\ todo = k.program
      /\ passed = [t \in DOMAIN k.program |-> 0]
      /\ loaded = [t \in DOMAIN k.program |-> <<>>]
      /\ memory = [x \in CellsOf(k) |-> Initially(x)]
  BY DEF Begins
<1>6. PICK p : Outline(k, p)
  BY DEF Sound
<1> HIDE DEF k
<1>7. \A t \in DOMAIN k.program : IsSeq(k.program[t]) /\ \E u :
          Unfolds(Foot(p, t), k.program[t], State(0, <<>>, p.snap[0]), p.end[t], u)
  BY <1>6 DEF Outline, Alone, Runs
<1> DEFINE good(t, u) ==
              Unfolds(Foot(p, t), k.program[t], State(0, <<>>, p.snap[0]), p.end[t], u)
           o == [t \in DOMAIN k.program |-> CHOOSE u : good(t, u)]
<1>8. \A t \in DOMAIN k.program : good(t, o[t])
  <2>1. \A t \in DOMAIN k.program : \E u : good(t, u)
    BY <1>7
  <2> HIDE DEF good
  <2> QED BY <2>1
<1> HIDE DEF o
<1>9. Solo(p, o)
  BY <1>7, <1>8 DEF Solo, k
<1>10. \A t \in DOMAIN k.program : Pos(t) = 0
  BY <1>7, BeginsInPlace DEF k
<1>11. InPlace
  BY <1>7, BeginsInPlace DEF k
<1>12. p.last \in Nat /\ DOMAIN p.snap[0] = CellsOf(k)
       /\ p.snap[0] = [x \in CellsOf(k) |-> Initially(x)]
  BY <1>6 DEF Outline, Steady
<1>13. \A t \in DOMAIN k.program : o[t][0] = State(0, <<>>, p.snap[0])
  BY <1>8 DEF Unfolds
<1>14. Follows(p, o)
  <2>1. SUFFICES ASSUME NEW t \in DOMAIN k.program
                 PROVE  LET s == o[t][Pos(t)] IN
                          /\ passed[t] = s.phase
                          /\ passed[t] \in 0..p.last
                          /\ loaded[t] = s.loaded
                          /\ DOMAIN s.mem = CellsOf(k)
    BY DEF Follows, k
  <2>2. o[t][Pos(t)] = State(0, <<>>, p.snap[0])
    BY <1>10, <1>13
  <2>3. passed[t] = 0 /\ loaded[t] = <<>> /\ 0 \in 0..p.last
    BY <1>5, <1>12
  <2> QED BY <1>12, <2>2, <2>3 DEF State
<1>15. Lockstep
  BY <1>5 DEF Lockstep, k
<1>16. Holds(p, o)
  <2>1. SUFFICES ASSUME NEW n \in 0..p.last, Leading(n)
                 PROVE  /\ \A t \in DOMAIN k.program : \A x \in p.acc[t][n] :
                             memory[x] = IF passed[t] = n THEN o[t][Pos(t)].mem[x]
                                         ELSE p.snap[n][x]
                        /\ \A x \in CellsOf(k) :
                             (\A t \in DOMAIN k.program : x \notin p.own[t][n])
                                 => memory[x] = p.snap[n][x]
    BY DEF Holds, k
  <2>2. n = 0
    BY <1>5, <2>1 DEF Leading, k
  <2>3. \A t \in DOMAIN k.program : p.acc[t][0] \subseteq CellsOf(k)
    BY <1>6, <1>12 DEF Outline, Apart
  <2>4. \A t \in DOMAIN k.program : o[t][Pos(t)].mem = p.snap[0]
    BY <1>10, <1>13 DEF State
  <2>5. memory = p.snap[0]
    BY <1>5, <1>12
  <2> QED BY <1>5, <2>2, <2>4, <2>5
<1> QED BY <1>6, <1>9, <1>11, <1>14, <1>15, <1>16 DEF InOutline, Outlined, k

\* A dispatch of a kernel that is fine begins in the invariant.
LEMMA GridInit == ASSUME LibraryFine PROVE Init => GridInv
<1>1. SUFFICES ASSUME Init PROVE GridInv
  OBVIOUS
<1>2. PICK d \in Dispatches : \E name \in d[2] :
        config = d[1] /\ kernel = name /\ Begins(Library(d[1])[name])
  BY <1>1 DEF Init, Begins
<1>3. PICK name \in d[2] :
        config = d[1] /\ kernel = name /\ Begins(Library(d[1])[name])
  BY <1>2
<1>4. This = Library(d[1])[name] /\ Raced = RacedBy(name, d[1])
  BY <1>3 DEF This, Raced
<1>5. Begins(This) /\ Fine(This, Raced)
  BY <1>3, <1>4 DEF LibraryFine
<1>6. CASE Sound(This)
  BY <1>5, <1>6, OutlineInit DEF GridInv
<1>7. CASE Raced # {} /\ Confined(This, Raced)
  <2>1. \A t \in DOMAIN This.program : IsSeq(This.program[t])
    BY <1>7 DEF Confined, Separate, Reaches
  <2> QED BY <1>5, <1>7, <2>1, BeginsInPlace DEF GridInv, InConfines
<1> QED BY <1>5, <1>6, <1>7 DEF Fine

\* Under the invariant a thread only accesses cells its outline lets it access, and
\* those are cells of the buffers.
LEMMA OutlineBounds == InOutline => InBounds
<1>1. SUFFICES ASSUME InOutline, NEW t \in Grid, Accesses(t) PROVE Step(t).cell \in DOMAIN memory
  BY DEF InBounds
<1>2. PICK p, o : Outlined(p, o)
  BY <1>1 DEF InOutline
<1>3. t \in DOMAIN This.program
  BY <1>2 DEF Outlined, InPlace, Grid
<1> QED BY <1>1, <1>2, <1>3, Finds

\* Threads about to access the buffers are in the same phase, where no outline lets
\* one store to what another may access.
LEMMA OutlineRaces == InOutline => RaceFree
<1>1. SUFFICES ASSUME InOutline, NEW t \in Grid, NEW u \in Grid, t # u, Accesses(t), Accesses(u),
                      Step(t).cell = Step(u).cell
               PROVE  Step(t).op = "load" /\ Step(u).op = "load"
  BY DEF RaceFree
<1>2. PICK p, o : Outlined(p, o)
  BY <1>1 DEF InOutline
<1>3. t \in DOMAIN This.program /\ u \in DOMAIN This.program
  BY <1>2 DEF Outlined, InPlace, Grid
<1>4. /\ Step(t).cell \in p.acc[t][passed[t]] /\ Step(u).cell \in p.acc[u][passed[u]]
      /\ Step(t).op = "store" => Step(t).cell \in p.own[t][passed[t]]
      /\ Step(u).op = "store" => Step(u).cell \in p.own[u][passed[u]]
  BY <1>1, <1>2, <1>3, Finds
<1>5. /\ Leading(passed[t]) /\ passed[t] \in 0..p.last
      /\ Leading(passed[u]) /\ passed[u] \in 0..p.last /\ p.last \in Nat
  BY <1>1, <1>2, <1>3, AtFront DEF Outlined, Outline, Steady
<1>6. passed[t] = passed[u]
  BY <1>3, <1>5 DEF Leading
<1>7. /\ p.own[t][passed[t]] \cap p.acc[u][passed[t]] = {}
      /\ p.own[u][passed[t]] \cap p.acc[t][passed[t]] = {}
  BY <1>1, <1>2, <1>3, <1>5 DEF Outlined, Outline, Apart
<1>8. Step(t).op \in {"load", "store"} /\ Step(u).op \in {"load", "store"}
  BY <1>1 DEF Accesses, At, Step
<1> QED BY <1>1, <1>4, <1>6, <1>7, <1>8

\* Without an outline it takes the step its program has at its place, ...
LEMMA Confines ==
    ASSUME InPlace, NEW acc, NEW own, Separate(This, Raced, acc, own),
           NEW t \in DOMAIN This.program, Accesses(t)
    PROVE  /\ Step(t).op \in {"load", "store"}
           /\ Step(t).op = "load" => Step(t).cell \in acc[t]
           /\ Step(t).op = "store" => Step(t).cell \in own[t]
<1>1. todo[t] # <<>> /\ Step(t).op \in {"load", "store"}
  BY DEF Accesses, At, Step
<1>2. Reaches(This.program[t], acc[t], own[t])
  BY DEF Separate
<1>3. IsSeq(This.program[t]) /\ Len(This.program[t]) \in Nat
  BY <1>2, LenIsNat DEF Reaches
<1>4. /\ Pos(t) \in 0..Len(This.program[t])
      /\ todo[t] = SubSeq(This.program[t], Pos(t) + 1, Len(This.program[t]))
  BY DEF InPlace
<1>5. Pos(t) < Len(This.program[t]) /\ Step(t) = This.program[t][Pos(t) + 1]
  BY <1>1, <1>3, <1>4, Suffix DEF Step
<1>6. Pos(t) + 1 \in 1..Len(This.program[t])
  BY <1>3, <1>4, <1>5, Within
<1> QED BY <1>1, <1>2, <1>5, <1>6 DEF Reaches

\* ... which reaches cells of the buffers ...
LEMMA GridInvBounds == GridInv => InBounds
<1>1. ASSUME InConfines, NEW t \in Grid, Accesses(t) PROVE Step(t).cell \in DOMAIN memory
  <2>1. InPlace /\ t \in DOMAIN This.program /\ DOMAIN memory = CellsOf(This)
    BY <1>1 DEF InConfines, InPlace, Grid
  <2>2. PICK acc, own : Separate(This, Raced, acc, own)
    BY <1>1 DEF InConfines, Confined
  <2>3. acc[t] \subseteq CellsOf(This) /\ own[t] \subseteq CellsOf(This)
    BY <2>1, <2>2 DEF Separate
  <2> QED BY <1>1, <2>1, <2>2, <2>3, Confines
<1> QED BY <1>1, OutlineBounds DEF GridInv, InBounds

\* ... and meets another thread's only in a buffer the kernel races in.
LEMMA GridInvRaces == GridInv => RaceFree
<1>1. ASSUME InConfines, NEW t \in Grid, NEW u \in Grid, t # u, Accesses(t), Accesses(u),
             Step(t).cell = Step(u).cell
      PROVE  \/ Step(t).op = "load" /\ Step(u).op = "load"
             \/ Step(t).cell[1] \in Raced
  <2>1. InPlace /\ t \in DOMAIN This.program /\ u \in DOMAIN This.program
    BY <1>1 DEF InConfines, InPlace, Grid
  <2>2. PICK acc, own : Separate(This, Raced, acc, own)
    BY <1>1 DEF InConfines, Confined
  <2>3. /\ \A x \in own[t] : x \in acc[u] \cup own[u] => x[1] \in Raced
        /\ \A x \in own[u] : x \in acc[t] \cup own[t] => x[1] \in Raced
    BY <1>1, <2>1, <2>2 DEF Separate
  <2>4. /\ Step(t).op \in {"load", "store"} /\ Step(u).op \in {"load", "store"}
        /\ Step(t).op = "load" => Step(t).cell \in acc[t]
        /\ Step(t).op = "store" => Step(t).cell \in own[t]
        /\ Step(u).op = "load" => Step(u).cell \in acc[u]
        /\ Step(u).op = "store" => Step(u).cell \in own[u]
    BY <1>1, <2>1, <2>2, Confines
  <2> QED BY <1>1, <2>3, <2>4
<1> QED BY <1>1, OutlineRaces DEF GridInv, RaceFree

\* When all threads have come to the end of their outlines, the buffers hold what
\* these say they leave, and that is the result.
LEMMA GridInvResult == GridInv => ResultIsReference
<1>1. SUFFICES ASSUME InOutline, Done
               PROVE  LET result == Library(config)[kernel].result
                          changed == [x \in {r.cell : r \in result} |->
                                         (CHOOSE r \in result : r.cell = x).value]
                      IN  memory = changed ++ [x \in DOMAIN memory |-> Initially(x)]
  BY DEF ResultIsReference, GridInv, InConfines
<1>2. PICK p, o : Outlined(p, o)
  BY <1>1 DEF InOutline
<1> DEFINE k == This
           changed == [x \in {r.cell : r \in k.result} |->
                          (CHOOSE r \in k.result : r.cell = x).value]
<1>3. SUFFICES memory = changed ++ [x \in DOMAIN memory |-> Initially(x)]
  BY DEF This
<1> HIDE DEF k
<1>4. p.last \in Nat /\ p.last \in 0..p.last /\ DOMAIN k.program # {}
  BY <1>2 DEF Outlined, Outline, Steady, k
<1>5. ASSUME NEW t \in DOMAIN k.program
      PROVE  o[t][Pos(t)] = p.end[t] /\ passed[t] = p.last
  <2>1. todo[t] = <<>> /\ IsSeq(k.program[t])
    BY <1>1, <1>2 DEF Done, Grid, Outlined, InPlace, Solo, k
  <2>2. Len(k.program[t]) \in Nat
    BY <2>1, LenIsNat
  <2>3. Pos(t) = Len(k.program[t])
    BY <2>1, <2>2 DEF Pos, k
  <2>4. o[t][Pos(t)] = p.end[t]
    BY <1>2, <2>3 DEF Outlined, Solo, Unfolds, k
  <2>5. p.end[t].phase = p.last
    BY <1>2 DEF Outlined, Outline, Alone, k
  <2>6. passed[t] = o[t][Pos(t)].phase
    BY <1>2 DEF Outlined, Follows, k
  <2> QED BY <2>4, <2>5, <2>6
<1>6. Leading(p.last)
  BY <1>4, <1>5 DEF Leading, k
<1>7. DOMAIN memory = CellsOf(k)
  BY <1>2 DEF Outlined, InPlace, k
<1>8. ASSUME NEW x \in CellsOf(k) PROVE memory[x] = p.final[x]
  <2>1. CASE \A t \in DOMAIN k.program : x \notin p.own[t][p.last]
    <3>1. memory[x] = p.snap[p.last][x]
      BY <1>2, <1>4, <1>6, <2>1 DEF Outlined, Holds, k
    <3>2. p.final[x] = p.snap[p.last][x]
      BY <1>2, <2>1 DEF Outlined, Outline, Results, k
    <3> QED BY <3>1, <3>2
  <2>2. CASE \E t \in DOMAIN k.program : x \in p.own[t][p.last]
    <3>1. PICK t \in DOMAIN k.program : x \in p.own[t][p.last]
      BY <2>2
    <3>2. x \in p.acc[t][p.last]
      BY <1>2, <1>4, <3>1 DEF Outlined, Outline, Apart, k
    <3>3. memory[x] = o[t][Pos(t)].mem[x]
      BY <1>2, <1>4, <1>5, <1>6, <3>2 DEF Outlined, Holds, k
    <3>4. p.final[x] = p.end[t].mem[x]
      BY <1>2, <3>1 DEF Outlined, Outline, Results, k
    <3> QED BY <1>5, <3>3, <3>4
  <2> QED BY <2>1, <2>2
<1>9. /\ \A x \in CellsOf(k) : p.final[x] = Initially(x) \/ \E r \in k.result : r.cell = x
      /\ \A r \in k.result : r.cell \in CellsOf(k) /\ r.value = p.final[r.cell]
  BY <1>2 DEF Outlined, Outline, Results, k
<1>10. DOMAIN changed \subseteq CellsOf(k)
  BY <1>9
<1>11. \A x \in DOMAIN changed : changed[x] = p.final[x]
  <2>1. SUFFICES ASSUME NEW x \in {r.cell : r \in k.result}
                 PROVE  (CHOOSE r \in k.result : r.cell = x).value = p.final[x]
    OBVIOUS
  <2>2. \E r \in k.result : r.cell = x
    OBVIOUS
  <2> DEFINE r0 == CHOOSE r \in k.result : r.cell = x
  <2>3. r0 \in k.result /\ r0.cell = x
    BY <2>2
  <2> HIDE DEF r0
  <2>4. r0.value = p.final[x]
    BY <1>9, <2>3
  <2> QED BY <2>4 DEF r0
<1>12. \A x \in CellsOf(k) : x \notin DOMAIN changed => p.final[x] = Initially(x)
  BY <1>9
<1> HIDE DEF changed
<1> DEFINE before == [x \in DOMAIN memory |-> Initially(x)]
<1>13. DOMAIN before = CellsOf(k) /\ \A x \in CellsOf(k) : before[x] = Initially(x)
  BY <1>7
<1>14. memory = [x \in CellsOf(k) |-> memory[x]]
  BY <1>2 DEF Outlined, InPlace, k
<1>15. SUFFICES memory = changed ++ before
  OBVIOUS
<1> HIDE DEF before
<1>16. CellsOf(k) = DOMAIN changed \cup DOMAIN before
  BY <1>10, <1>13
<1>17. /\ \A x \in DOMAIN changed : memory[x] = changed[x]
       /\ \A x \in DOMAIN before : x \notin DOMAIN changed => memory[x] = before[x]
  BY <1>8, <1>10, <1>11, <1>12, <1>13
<1>18. Restrict(memory, CellsOf(k)) = Overlay(changed, before)
  BY Zenon, <1>16, <1>17, OverlayIs
<1> QED BY <1>14, <1>18, Zenon DEF ++, Restrict

-----------------------------------------------------------------------------
\* Runs of one thread.

\* The parts of a state.
LEMMA StateFields ==
    ASSUME NEW n, NEW l, NEW m
    PROVE  State(n, l, m).phase = n /\ State(n, l, m).loaded = l /\ State(n, l, m).mem = m
BY DEF State

\* No steps lead nowhere.
LEMMA RunsNothing == ASSUME NEW fp, NEW a PROVE Runs(fp, <<>>, a, a)
<1>1. Unfolds(fp, <<>>, a, a, [i \in {0} |-> a])
  BY DEF Unfolds
<1> QED BY <1>1, EmptyIsSeq DEF Runs

\* One step is a run.
LEMMA RunsStep ==
    ASSUME NEW fp, NEW s, NEW a, NEW b, Effect(fp, s, a, b)
    PROVE  Runs(fp, <<s>>, a, b)
<1> DEFINE o == [i \in 0..1 |-> IF i = 0 THEN a ELSE b]
<1>1. Len(<<s>>) = 1 /\ <<s>>[1] = s /\ <<s>> \in Seq({s})
  OBVIOUS
<1>2. o[0] = a /\ o[1] = b
  OBVIOUS
<1> HIDE DEF o
<1>3. Unfolds(fp, <<s>>, a, b, o)
  <2>1. ASSUME NEW i \in 1..1 PROVE Effect(fp, <<s>>[i], o[i - 1], o[i])
    <3>1. i = 1 /\ i - 1 = 0
      OBVIOUS
    <3> QED BY <1>1, <1>2, <3>1
  <2> QED BY <1>1, <1>2, <2>1 DEF Unfolds
<1> QED BY <1>1, <1>3 DEF Runs, IsSeq

\* Runs follow each other.
LEMMA RunsThen ==
    ASSUME NEW fp, NEW s, NEW t, NEW a, NEW b, NEW c, Runs(fp, s, a, b), Runs(fp, t, b, c)
    PROVE  Runs(fp, s \o t, a, c)
<1>1. PICK u : Unfolds(fp, s, a, b, u)
  BY DEF Runs
<1>2. PICK v : Unfolds(fp, t, b, c, v)
  BY DEF Runs
<1>3. IsSeq(s) /\ IsSeq(t) /\ Len(s) \in Nat /\ Len(t) \in Nat
  BY LenIsNat DEF Runs
<1>4. /\ IsSeq(s \o t) /\ Len(s \o t) = Len(s) + Len(t)
      /\ \A i \in 1..Len(s) : (s \o t)[i] = s[i]
      /\ \A i \in 1..Len(t) : (s \o t)[Len(s) + i] = t[i]
  BY <1>3, ConcatFacts, ConcatTail
<1> DEFINE o == [i \in 0..(Len(s) + Len(t)) |-> IF i <= Len(s) THEN u[i] ELSE v[i - Len(s)]]
<1>5. /\ \A i \in 0..Len(s) : o[i] = u[i]
      /\ \A i \in 0..Len(t) : o[Len(s) + i] = v[i]
  <2>1. \A i \in 0..Len(s) : o[i] = u[i]
    BY <1>3
  <2>2. u[Len(s)] = v[0]
    BY <1>1, <1>2 DEF Unfolds
  <2>3. ASSUME NEW i \in 0..Len(t) PROVE o[Len(s) + i] = v[i]
    <3>1. CASE i = 0
      BY <1>3, <2>1, <2>2, <3>1
    <3>2. CASE i # 0
      <4>1. Len(s) + i \in 0..(Len(s) + Len(t)) /\ ~(Len(s) + i <= Len(s))
            /\ (Len(s) + i) - Len(s) = i
        BY <1>3, <3>2
      <4> QED BY <4>1
    <3> QED BY <3>1, <3>2
  <2> QED BY <2>1, <2>3
<1> HIDE DEF o
<1>6. o[0] = a /\ o[Len(s \o t)] = c
  BY <1>1, <1>2, <1>3, <1>4, <1>5 DEF Unfolds
<1>7. ASSUME NEW i \in 1..Len(s \o t) PROVE Effect(fp, (s \o t)[i], o[i - 1], o[i])
  <2>1. CASE i \in 1..Len(s)
    <3>1. i - 1 \in 0..Len(s) /\ i \in 0..Len(s)
      BY <1>3, <2>1
    <3>2. Effect(fp, s[i], u[i - 1], u[i])
      BY <1>1, <2>1 DEF Unfolds
    <3> QED BY <1>4, <1>5, <2>1, <3>1, <3>2
  <2>2. CASE i \notin 1..Len(s)
    <3>1. PICK j \in 1..Len(t) : i = Len(s) + j
      <4>1. i - Len(s) \in 1..Len(t) /\ i = Len(s) + (i - Len(s))
        BY <1>3, <1>4, <1>7, <2>2
      <4> QED BY <4>1
    <3>2. j - 1 \in 0..Len(t) /\ j \in 0..Len(t) /\ i - 1 = Len(s) + (j - 1)
      BY <1>3, <3>1
    <3>3. Effect(fp, t[j], v[j - 1], v[j])
      BY <1>2 DEF Unfolds
    <3> QED BY <1>4, <1>5, <3>1, <3>2, <3>3
  <2> QED BY <2>1, <2>2
<1> QED BY <1>4, <1>6, <1>7 DEF Runs, Unfolds

\* Loads in a row.
LEMMA LoadsFacts ==
    ASSUME NEW cells, IsSeq(cells)
    PROVE  /\ IsSeq(Loads(cells)) /\ Len(Loads(cells)) = Len(cells)
           /\ \A i \in 1..Len(cells) : Loads(cells)[i] = Load(cells[i])
<1>1. Len(cells) \in Nat
  BY LenIsNat
<1> DEFINE S == {Load(cells[i]) : i \in 1..Len(cells)}
<1>2. Loads(cells) \in Seq(S) /\ Len(Loads(cells)) = Len(cells)
  BY <1>1 DEF Loads
<1>3. \A i \in 1..Len(cells) : Loads(cells)[i] = Load(cells[i])
  BY DEF Loads
<1> HIDE DEF S
<1> QED BY <1>2, <1>3 DEF IsSeq

\* A thread that loads cells it may access has their values behind those it had.
LEMMA RunsLoads ==
    ASSUME NEW fp, NEW n, NEW l, IsSeq(l), NEW m, NEW cells, IsSeq(cells),
           \A j \in 1..Len(cells) : cells[j] \in fp.acc[n]
    PROVE  Runs(fp, Loads(cells), State(n, l, m), State(n, l \o Seen(m, cells), m))
<1> DEFINE e == Seen(m, cells)
           o == [i \in 0..Len(cells) |-> State(n, Grown(l, e, i), m)]
<1>1. Len(cells) \in Nat /\ IsSeq(Loads(cells)) /\ Len(Loads(cells)) = Len(cells)
      /\ \A i \in 1..Len(cells) : Loads(cells)[i] = Load(cells[i])
  BY LenIsNat, LoadsFacts
<1>2. \A i \in 1..Len(cells) : e[i] = m[cells[i]]
  BY DEF Seen
<1>3. \A i \in 0..Len(cells) : o[i] = State(n, Grown(l, e, i), m)
  OBVIOUS
<1>4. e = [j \in 1..Len(cells) |-> e[j]]
  BY DEF Seen
<1>5. Grown(l, e, Len(cells)) = l \o e
  BY <1>4, Zenon DEF Grown
<1> HIDE DEF e, o
<1>6. o[0] = State(n, l, m)
  <2>1. 0 \in 0..Len(cells) /\ 0 \in Nat
    BY <1>1
  <2>2. Grown(l, e, 0) = l
    BY <2>1, GrownFacts
  <2> QED BY <1>3, <2>1, <2>2
<1>7. o[Len(Loads(cells))] = State(n, l \o e, m)
  <2>1. Len(cells) \in 0..Len(cells)
    BY <1>1
  <2> QED BY <1>1, <1>3, <1>5, <2>1
<1>8. ASSUME NEW i \in 1..Len(Loads(cells))
      PROVE  Effect(fp, Loads(cells)[i], o[i - 1], o[i])
  <2>1. i \in 1..Len(cells) /\ i - 1 \in 0..Len(cells) /\ i \in 0..Len(cells) /\ i - 1 \in Nat
        /\ (i - 1) + 1 = i
    BY <1>1, <1>8
  <2>2. Grown(l, e, i) = Append(Grown(l, e, i - 1), e[i])
    <3>1. PICK k \in Nat : k = i - 1 /\ k + 1 = i
      BY <2>1
    <3>2. Grown(l, e, k + 1) = Append(Grown(l, e, k), e[k + 1])
      BY GrownNext
    <3> QED BY <3>1, <3>2
  <2>3. Loads(cells)[i].op = "load" /\ Loads(cells)[i].cell = cells[i]
    <3>1. Loads(cells)[i] = Load(cells[i])
      BY <1>1, <2>1
    <3> QED BY <3>1 DEF Load
  <2>4. /\ o[i - 1].phase = n /\ o[i - 1].loaded = Grown(l, e, i - 1) /\ o[i - 1].mem = m
    BY <1>3, <2>1, StateFields
  <2>5. o[i] = State(n, Append(Grown(l, e, i - 1), m[cells[i]]), m)
    BY <1>2, <1>3, <2>1, <2>2
  <2>6. cells[i] \in fp.acc[n]
    BY <2>1
  <2> QED BY <2>3, <2>4, <2>5, <2>6 DEF Effect
<1>9. Unfolds(fp, Loads(cells), State(n, l, m), State(n, l \o e, m), o)
  BY <1>6, <1>7, <1>8 DEF Unfolds
<1> QED BY <1>1, <1>9 DEF Runs, e

\* A store of f of the loads numbered in of, which are the values args.
LEMMA RunsStore ==
    ASSUME NEW fp, NEW n, NEW l, NEW m, NEW to, to \in fp.own[n], NEW f, NEW of, NEW args,
           args = [i \in 1..Len(of) |-> l[of[i]]]
    PROVE  Runs(fp, <<Store(to, f, of)>>, State(n, l, m), State(n, l, Put(m, to, Term(f, args))))
<1> DEFINE s == Store(to, f, of)
           a == State(n, l, m)
<1>1. s.op = "store" /\ s.cell = to /\ s.f = f /\ s.of = of
  BY DEF Store
<1>2. a.phase = n /\ a.loaded = l /\ a.mem = m
  BY StateFields
<1> HIDE DEF s, a
<1>3. Effect(fp, s, a, State(n, l, Put(m, to, Term(f, args))))
  BY <1>1, <1>2 DEF Effect
<1> QED BY <1>3, RunsStep DEF s, a

-----------------------------------------------------------------------------
\* A run from a thread that has loaded nothing has loaded as much as there are
\* loads among its steps.
LEMMA RunsCount ==
    ASSUME NEW fp, NEW steps, NEW a, NEW b, Runs(fp, steps, a, b), a.loaded = <<>>
    PROVE  /\ IsSeq(b.loaded)
           /\ Len(b.loaded) = Cardinality({i \in DOMAIN steps : steps[i].op = "load"})
<1> DEFINE L == {i \in DOMAIN steps : steps[i].op = "load"}
<1>1. PICK o : Unfolds(fp, steps, a, b, o)
  BY DEF Runs
<1>2. PICK S : steps \in Seq(S)
  BY DEF Runs, IsSeq
<1>3. Len(steps) \in Nat /\ DOMAIN steps = 1..Len(steps)
  BY <1>2
<1> DEFINE good(i) == IsSeq(o[i].loaded) /\ Len(o[i].loaded) = CountUpTo(L, i)
           G == {i \in 0..Len(steps) : good(i)}
<1>4. 0 \in G
  <2>1. o[0] = a
    BY <1>1 DEF Unfolds
  <2>2. CountUpTo(L, 0) = 0
    BY CountIsNat
  <2> QED BY <1>3, <2>1, <2>2, EmptyIsSeq
<1>5. ASSUME NEW i \in 1..Len(steps), i - 1 \in G PROVE i \in G
  <2>1. PICK k \in Nat : k = i - 1 /\ k + 1 = i
    BY <1>3
  <2>2. good(k)
    BY <1>5, <2>1
  <2>3. CountUpTo(L, i) = CountUpTo(L, k) + (IF i \in L THEN 1 ELSE 0)
        /\ CountUpTo(L, k) \in Nat
    <3>1. CountUpTo(L, k + 1) = CountUpTo(L, k) + (IF k + 1 \in L THEN 1 ELSE 0)
      BY CountNext
    <3>2. CountUpTo(L, k) \in Nat
      BY CountIsNat
    <3> HIDE DEF L
    <3> QED BY <2>1, <3>1, <3>2
  <2>4. Effect(fp, steps[i], o[k], o[i])
    BY <1>1, <2>1 DEF Unfolds
  <2>5. i \in L <=> steps[i].op = "load"
    BY <1>3
  <2>6. CASE steps[i].op = "load"
    <3>1. o[i].loaded = Append(o[k].loaded, o[k].mem[steps[i].cell])
      BY <2>4, <2>6 DEF Effect, State
    <3>2. IsSeq(o[i].loaded) /\ Len(o[i].loaded) = Len(o[k].loaded) + 1
      BY <2>2, <3>1, AppendFacts
    <3>3. Len(o[i].loaded) = CountUpTo(L, i)
      BY <2>2, <2>3, <2>5, <2>6, <3>2
    <3> QED BY <3>2, <3>3
  <2>7. CASE steps[i].op # "load"
    <3>1. o[i].loaded = o[k].loaded
      BY <2>4, <2>7 DEF Effect, State
    <3> QED BY <2>2, <2>3, <2>5, <2>7, <3>1
  <2> HIDE DEF good
  <2> QED BY <2>6, <2>7 DEF good
<1>6. Len(steps) \in G
  <2> HIDE DEF G
  <2>1. \A i \in 0..Len(steps) : i \in G
    BY <1>3, <1>4, <1>5, Induction
  <2> QED BY <1>3, <2>1
<1>7. CountUpTo(L, Len(steps)) = Cardinality(L)
  <2>1. L \cap (1..Len(steps)) = L
    BY <1>3
  <2> QED BY <2>1 DEF CountUpTo
<1>8. o[Len(steps)] = b
  BY <1>1 DEF Unfolds
<1> QED BY <1>6, <1>7, <1>8

\* Compute: behind a run that has loaded l, load the cells and store in `to` what
\* f makes of them.
LEMMA RunsCompute ==
    ASSUME NEW fp, NEW steps, NEW a, a.loaded = <<>>, NEW n, NEW l, NEW m,
           Runs(fp, steps, a, State(n, l, m)), NEW cells, IsSeq(cells),
           \A j \in 1..Len(cells) : cells[j] \in fp.acc[n],
           NEW to, to \in fp.own[n], NEW f
    PROVE  /\ Runs(fp, Compute(steps, cells, to, f), a,
                   State(n, l \o Seen(m, cells), Put(m, to, Term(f, Seen(m, cells)))))
           /\ IsSeq(l \o Seen(m, cells))
<1> DEFINE e == Seen(m, cells)
           k == Cardinality({i \in DOMAIN steps : steps[i].op = "load"})
           of == [i \in 1..Len(cells) |-> k + i]
<1>1. State(n, l, m).loaded = l
  BY StateFields
<1>2. IsSeq(l) /\ Len(l) = k
  BY <1>1, RunsCount
<1>3. Len(cells) \in Nat /\ Len(l) \in Nat
  BY <1>2, LenIsNat
<1>4. e = [j \in 1..Len(cells) |-> e[j]] /\ Grown(l, e, Len(cells)) = l \o e
  <2>1. e = [j \in 1..Len(cells) |-> e[j]]
    BY DEF Seen
  <2> QED BY <2>1, Zenon DEF Grown
<1>5. IsSeq(l \o e) /\ \A i \in 1..Len(cells) : (l \o e)[k + i] = e[i]
  <2> HIDE DEF e
  <2> DEFINE c == Len(cells)
  <2>2. c \in Nat
    BY <1>3
  <2> HIDE DEF c
  <2>3. IsSeq(Grown(l, e, c))
    BY <1>2, <2>2, GrownFacts
  <2>4. \A i \in 1..c : Grown(l, e, c)[Len(l) + i] = e[i]
    BY <1>2, <2>2, GrownFacts
  <2>1. /\ IsSeq(Grown(l, e, Len(cells)))
        /\ \A i \in 1..Len(cells) : Grown(l, e, Len(cells))[Len(l) + i] = e[i]
    BY <2>3, <2>4 DEF c
  <2> QED BY <1>2, <1>4, <2>1
<1>6. e = [i \in 1..Len(of) |-> (l \o e)[of[i]]]
  <2>1. Len(of) = Len(cells)
    BY <1>3
  <2>2. \A i \in 1..Len(cells) : of[i] = k + i
    OBVIOUS
  <2> HIDE DEF of
  <2>3. \A i \in 1..Len(cells) : e[i] = (l \o e)[of[i]]
    BY <1>5, <2>2
  <2> HIDE DEF e
  <2>4. [j \in 1..Len(cells) |-> e[j]] = [i \in 1..Len(cells) |-> (l \o e)[of[i]]]
    BY <2>3, Zenon
  <2> QED BY <1>4, <2>1, <2>4, Zenon
<1>7. Runs(fp, Loads(cells), State(n, l, m), State(n, l \o e, m))
  BY <1>2, RunsLoads
<1> HIDE DEF e, of
<1>8. Runs(fp, <<Store(to, f, of)>>, State(n, l \o e, m), State(n, l \o e, Put(m, to, Term(f, e))))
  BY <1>6, RunsStore
<1>9. Runs(fp, steps \o Loads(cells), a, State(n, l \o e, m))
  BY <1>7, RunsThen
<1>10. Runs(fp, (steps \o Loads(cells)) \o <<Store(to, f, of)>>, a,
            State(n, l \o e, Put(m, to, Term(f, e))))
  BY <1>8, <1>9, RunsThen
<1>11. Compute(steps, cells, to, f) = (steps \o Loads(cells)) \o <<Store(to, f, of)>>
  BY Zenon DEF Compute, of
<1> QED BY <1>5, <1>10, <1>11, Zenon DEF e

-----------------------------------------------------------------------------
\* A kernel without a barrier.

CellsIn(B) == UNION {{Cell(b, i) : i \in Below(Size(B[b]))} : b \in DOMAIN B}
FreshIn(B) == [x \in CellsIn(B) |-> Initially(x)]

\* The cells of a kernel are those of its buffers.
LEMMA CellsOfKernel ==
    ASSUME NEW B, NEW P, NEW R
    PROVE  CellsOf(Kernel(B, P, R)) = CellsIn(B)
<1> DEFINE k == Kernel(B, P, R)
<1>1. k.buffers = B
  BY DEF Kernel
<1> HIDE DEF k
<1>2. CellsOf(k) = CellsIn(k.buffers)
  BY Zenon DEF CellsOf, CellsIn
<1> QED BY <1>1, <1>2 DEF k

\* The parts of a kernel.
LEMMA KernelFields ==
    ASSUME NEW B, NEW P, NEW R
    PROVE  Kernel(B, P, R).program = P /\ Kernel(B, P, R).result = R
BY DEF Kernel

\* The cells of a buffer are among them.
LEMMA InCells ==
    ASSUME NEW B, NEW b \in DOMAIN B, NEW i \in Below(Size(B[b]))
    PROVE  Cell(b, i) \in CellsIn(B)
BY DEF CellsIn

\* A cell is that of one buffer and one place.
LEMMA CellIs == ASSUME NEW a, NEW b, NEW i, NEW j, Cell(a, i) = Cell(b, j) PROVE a = b /\ i = j
BY DEF Cell

\* The footprint of a thread of a kernel without barriers.
Only(m, acc, own) == [snap |-> [n \in {0} |-> m], acc |-> [n \in {0} |-> acc],
                      own |-> [n \in {0} |-> own]]

\* The cells of the one phase.
LEMMA OnlyFields ==
    ASSUME NEW m, NEW acc, NEW own
    PROVE  Only(m, acc, own).acc[0] = acc /\ Only(m, acc, own).own[0] = own
BY DEF Only

\* What makes a kernel without barriers sound, of whose threads only those in A
\* have a program: each stores only to cells that are its own.
Plainly(B, P, R, A, own, acc, l, m) ==
    /\ A \subseteq DOMAIN P
    /\ DOMAIN P # {}
    /\ \A t \in DOMAIN P : t \notin A => P[t] = <<>>
    /\ \A t \in A : own[t] \subseteq acc[t] /\ acc[t] \subseteq CellsIn(B)
    /\ \A t, u \in A : t # u => own[t] \cap acc[u] = {}
    /\ \A t \in A : Runs(Only(FreshIn(B), acc[t], own[t]), P[t],
                         State(0, <<>>, FreshIn(B)), State(0, l[t], m[t]))
    /\ \A r \in R : \E t \in A : r.cell \in own[t] /\ r.value = m[t][r.cell]
    /\ \A t \in A : \A x \in own[t] : \E r \in R : r.cell = x

\* A kernel without barriers, of whose threads only those in A have a program,
\* is sound if no thread stores to a cell another accesses, and what each leaves
\* in the cells it stores to, alone, is the result.
LEMMA PlainSound ==
    ASSUME NEW B, NEW P, NEW R, NEW A, NEW own, NEW acc, NEW l, NEW m,
           Plainly(B, P, R, A, own, acc, l, m)
    PROVE  Sound(Kernel(B, P, R))
<1> DEFINE k == Kernel(B, P, R)
           D == DOMAIN P
           cells == CellsIn(B)
           w == FreshIn(B)
           s == [n \in {0} |-> w]
           ow == [t \in D |-> [n \in {0} |-> IF t \in A THEN own[t] ELSE {}]]
           ac == [t \in D |-> [n \in {0} |-> IF t \in A THEN acc[t] ELSE {}]]
           en == [t \in D |-> IF t \in A THEN State(0, l[t], m[t]) ELSE State(0, <<>>, w)]
           owner(x) == CHOOSE t \in A : x \in own[t]
           fi == [x \in cells |-> IF \E t \in A : x \in own[t] THEN m[owner(x)][x] ELSE Initially(x)]
           p == [last |-> 0, snap |-> s, own |-> ow, acc |-> ac, end |-> en, final |-> fi]
<1>0. /\ A \subseteq DOMAIN P
      /\ DOMAIN P # {}
      /\ \A t \in DOMAIN P : t \notin A => P[t] = <<>>
      /\ \A t \in A : own[t] \subseteq acc[t] /\ acc[t] \subseteq CellsIn(B)
      /\ \A t, u \in A : t # u => own[t] \cap acc[u] = {}
      /\ \A t \in A : Runs(Only(FreshIn(B), acc[t], own[t]), P[t],
                           State(0, <<>>, FreshIn(B)), State(0, l[t], m[t]))
      /\ \A r \in R : \E t \in A : r.cell \in own[t] /\ r.value = m[t][r.cell]
      /\ \A t \in A : \A x \in own[t] : \E r \in R : r.cell = x
  BY DEF Plainly
<1>1. CellsOf(k) = cells /\ k.program = P /\ k.result = R
  BY CellsOfKernel, KernelFields
<1>2. p.last = 0 /\ p.snap = s /\ p.own = ow /\ p.acc = ac /\ p.end = en /\ p.final = fi
  OBVIOUS
<1>3. \A n : n \in 0..0 <=> n = 0
  OBVIOUS
<1>4. s[0] = w /\ DOMAIN s = {0} /\ DOMAIN w = cells /\ \A x \in cells : w[x] = Initially(x)
  BY DEF FreshIn
<1>5. \A t \in D : /\ ow[t][0] = IF t \in A THEN own[t] ELSE {}
                   /\ ac[t][0] = IF t \in A THEN acc[t] ELSE {}
  OBVIOUS
<1>6. \A t \in D : en[t] = IF t \in A THEN State(0, l[t], m[t]) ELSE State(0, <<>>, w)
  OBVIOUS
<1>7. \A t \in D : [snap |-> s, acc |-> ac[t], own |-> ow[t]]
                     = Only(w, IF t \in A THEN acc[t] ELSE {}, IF t \in A THEN own[t] ELSE {})
  BY Zenon DEF Only
<1>8. \A x \in cells : fi[x] = IF \E t \in A : x \in own[t] THEN m[owner(x)][x] ELSE Initially(x)
  OBVIOUS
<1> HIDE DEF k, p, s, ow, ac, en, fi
<1>9. \A t \in A : \A x \in own[t] : owner(x) = t
  <2>1. SUFFICES ASSUME NEW t \in A, NEW x \in own[t] PROVE owner(x) = t
    OBVIOUS
  <2>2. owner(x) \in A /\ x \in own[owner(x)]
    BY <2>1
  <2> HIDE DEF owner
  <2> QED BY <1>0, <2>1, <2>2
<1> HIDE DEF owner
<1>10. Apart(k, p)
  BY <1>0, <1>1, <1>2, <1>3, <1>5 DEF Apart
<1>11. Steady(k, p)
  <2>1. p.last \in Nat /\ DOMAIN p.snap = 0..p.last
    BY <1>2, <1>4
  <2>2. p.snap[0] = [x \in CellsOf(k) |-> Initially(x)] /\ DOMAIN p.snap[0] = CellsOf(k)
    BY <1>1, <1>2, <1>4 DEF FreshIn
  <2> QED BY <1>2, <1>3, <2>1, <2>2 DEF Steady
<1>12. Alone(k, p)
  <2>1. SUFFICES ASSUME NEW t \in D
                 PROVE  /\ Runs(Foot(p, t), P[t], State(0, <<>>, p.snap[0]), p.end[t])
                        /\ p.end[t].phase = p.last
    BY <1>1 DEF Alone
  <2>2. Foot(p, t) = Only(w, IF t \in A THEN acc[t] ELSE {}, IF t \in A THEN own[t] ELSE {})
    BY <1>2, <1>7 DEF Foot
  <2>3. p.snap[0] = w
    BY <1>2, <1>4
  <2>4. CASE t \in A
    BY <1>0, <1>2, <1>6, <2>2, <2>3, <2>4, StateFields
  <2>5. CASE t \notin A
    BY <1>0, <1>2, <1>6, <2>2, <2>3, <2>5, StateFields, RunsNothing
  <2> QED BY <2>4, <2>5
<1>13. Results(k, p)
  <2>1. ASSUME NEW x \in cells, NEW t \in D, x \in p.own[t][p.last]
        PROVE  p.final[x] = p.end[t].mem[x]
    <3>1. t \in A /\ x \in own[t]
      BY <1>2, <1>5, <2>1
    <3>2. p.end[t].mem = m[t]
      BY <1>2, <1>6, <3>1, StateFields
    <3>3. p.final[x] = m[t][x]
      BY <1>2, <1>8, <1>9, <3>1
    <3> QED BY <3>2, <3>3
  <2>2. ASSUME NEW x \in cells, \A t \in D : x \notin p.own[t][p.last]
        PROVE  p.final[x] = Initially(x) /\ p.final[x] = p.snap[p.last][x]
    <3>1. \A t \in A : x \notin own[t]
      BY <1>0, <1>2, <1>5, <2>2
    <3> QED BY <1>2, <1>4, <1>8, <3>1
  <2>3. ASSUME NEW x \in cells PROVE p.final[x] = Initially(x) \/ \E r \in R : r.cell = x
    BY <1>0, <1>2, <1>8
  <2>4. ASSUME NEW r \in R PROVE r.cell \in cells /\ r.value = p.final[r.cell]
    <3>1. PICK t \in A : r.cell \in own[t] /\ r.value = m[t][r.cell]
      BY <1>0
    <3>2. r.cell \in cells
      BY <1>0, <3>1
    <3> QED BY <1>2, <1>8, <1>9, <3>1, <3>2
  <2> QED BY <1>1, <2>1, <2>2, <2>3, <2>4 DEF Results
<1> QED BY <1>0, <1>1, <1>10, <1>11, <1>12, <1>13 DEF Sound, Outline, k

-----------------------------------------------------------------------------
\* Threads that leave results.

\* The values cells hold before the dispatch.
Before(cells) == [j \in 1..Len(cells) |-> Initially(cells[j])]

\* The cells a set of results is about.
Targets(W) == {r.cell : r \in W}
Result(to, value) == [cell |-> to, value |-> value]

\* Alone, with the cells in acc to access and those in own to store to, a thread
\* leaves the results W of its steps and touches nothing else.
Writes(B, acc, own, steps, W) == \E l, m :
    /\ Runs(Only(FreshIn(B), acc, own), steps, State(0, <<>>, FreshIn(B)), State(0, l, m))
    /\ DOMAIN m = CellsIn(B)
    /\ Targets(W) \subseteq CellsIn(B)
    /\ \A r \in W : m[r.cell] = r.value
    /\ \A x \in CellsIn(B) : x \notin Targets(W) => m[x] = Initially(x)

\* Without steps it leaves nothing.
LEMMA WritesNothing == ASSUME NEW B, NEW acc, NEW own PROVE Writes(B, acc, own, <<>>, {})
<1>1. Runs(Only(FreshIn(B), acc, own), <<>>, State(0, <<>>, FreshIn(B)),
           State(0, <<>>, FreshIn(B)))
  BY RunsNothing
<1>2. DOMAIN FreshIn(B) = CellsIn(B) /\ \A x \in CellsIn(B) : FreshIn(B)[x] = Initially(x)
  BY DEF FreshIn
<1> QED BY <1>1, <1>2 DEF Writes, Targets

\* What Put returns.
LEMMA PutFacts ==
    ASSUME NEW m, NEW x \in DOMAIN m, NEW v
    PROVE  /\ DOMAIN Put(m, x, v) = DOMAIN m
           /\ Put(m, x, v)[x] = v
           /\ \A y \in DOMAIN m : y # x => Put(m, x, v)[y] = m[y]
BY DEF Put

\* A result more.
LEMMA TargetsOfMore ==
    ASSUME NEW W, NEW to, NEW v
    PROVE  /\ Targets(W \cup {Result(to, v)}) = Targets(W) \cup {to}
           /\ Result(to, v).cell = to /\ Result(to, v).value = v
           /\ Targets({}) = {}
           /\ Targets({Result(to, v)}) = {to}
BY DEF Targets, Result

\* Loads of cells it has not stored to, and a store of what f makes of them, add
\* that to what it leaves.
LEMMA WritesCompute ==
    ASSUME NEW B, NEW acc, NEW own, NEW steps, NEW W, Writes(B, acc, own, steps, W),
           NEW cells, IsSeq(cells), NEW to, NEW f,
           \A j \in 1..Len(cells) : /\ cells[j] \in acc /\ cells[j] \in CellsIn(B)
                                    /\ cells[j] \notin Targets(W),
           to \in own, to \in CellsIn(B), to \notin Targets(W)
    PROVE  Writes(B, acc, own, Compute(steps, cells, to, f),
                  W \cup {Result(to, Term(f, Before(cells)))})
<1> DEFINE fp == Only(FreshIn(B), acc, own)
           a == State(0, <<>>, FreshIn(B))
           v == Term(f, Before(cells))
           V == W \cup {Result(to, v)}
<1>1. PICK l, m : /\ Runs(fp, steps, a, State(0, l, m))
                  /\ DOMAIN m = CellsIn(B)
                  /\ Targets(W) \subseteq CellsIn(B)
                  /\ \A r \in W : m[r.cell] = r.value
                  /\ \A x \in CellsIn(B) : x \notin Targets(W) => m[x] = Initially(x)
  BY Zenon DEF Writes
<1>2. fp.acc[0] = acc /\ fp.own[0] = own
  BY OnlyFields
<1>3. a.loaded = <<>>
  BY StateFields
<1> HIDE DEF fp, a
<1>4. Runs(fp, Compute(steps, cells, to, f), a,
           State(0, l \o Seen(m, cells), Put(m, to, Term(f, Seen(m, cells)))))
  BY <1>1, <1>2, <1>3, RunsCompute
<1>5. Seen(m, cells) = Before(cells)
  <2>1. \A j \in 1..Len(cells) : m[cells[j]] = Initially(cells[j])
    BY <1>1
  <2> QED BY <2>1, Zenon DEF Seen, Before
<1> DEFINE n == Put(m, to, v)
<1>6. DOMAIN n = CellsIn(B) /\ n[to] = v /\ \A x \in CellsIn(B) : x # to => n[x] = m[x]
  BY <1>1, PutFacts
<1>7. Runs(fp, Compute(steps, cells, to, f), a, State(0, l \o Seen(m, cells), n))
  BY <1>4, <1>5
<1>8. Targets(V) = Targets(W) \cup {to} /\ Result(to, v).cell = to /\ Result(to, v).value = v
  BY TargetsOfMore
<1> HIDE DEF n, v
<1>9. ASSUME NEW r \in V PROVE n[r.cell] = r.value
  <2>1. CASE r \in W
    <3>1. r.cell \in Targets(W)
      BY <2>1 DEF Targets
    <3>2. n[r.cell] = m[r.cell]
      BY <1>1, <1>6, <3>1
    <3> QED BY <1>1, <2>1, <3>2
  <2>2. CASE r \notin W
    BY <1>6, <1>8, <2>2
  <2> QED BY <2>1, <2>2
<1>10. ASSUME NEW x \in CellsIn(B), x \notin Targets(V) PROVE n[x] = Initially(x)
  BY <1>1, <1>6, <1>8, <1>10
<1> HIDE DEF V
<1>11. Writes(B, acc, own, Compute(steps, cells, to, f), V)
  <2>1. Targets(V) \subseteq CellsIn(B)
    BY <1>1, <1>8
  <2> QED BY <1>6, <1>7, <1>9, <1>10, <2>1 DEF Writes, fp, a
<1> QED BY <1>11 DEF V, v

\* The same with a store of a constant.
LEMMA WritesConstant ==
    ASSUME NEW B, NEW acc, NEW own, NEW steps, NEW W, Writes(B, acc, own, steps, W),
           NEW to, NEW f, to \in own, to \in CellsIn(B), to \notin Targets(W)
    PROVE  Writes(B, acc, own, steps \o <<Store(to, f, <<>>)>>,
                  W \cup {Result(to, Term(f, <<>>))})
<1> DEFINE fp == Only(FreshIn(B), acc, own)
           a == State(0, <<>>, FreshIn(B))
           v == Term(f, <<>>)
           V == W \cup {Result(to, v)}
<1>1. PICK l, m : /\ Runs(fp, steps, a, State(0, l, m))
                  /\ DOMAIN m = CellsIn(B)
                  /\ Targets(W) \subseteq CellsIn(B)
                  /\ \A r \in W : m[r.cell] = r.value
                  /\ \A x \in CellsIn(B) : x \notin Targets(W) => m[x] = Initially(x)
  BY Zenon DEF Writes
<1>2. fp.acc[0] = acc /\ fp.own[0] = own
  BY OnlyFields
<1> HIDE DEF fp, a
<1> DEFINE n == Put(m, to, v)
           of == <<>>
<1>3. <<>> = [i \in 1..Len(of) |-> l[of[i]]]
  OBVIOUS
<1> HIDE DEF of
<1>4. Runs(fp, <<Store(to, f, of)>>, State(0, l, m), State(0, l, n))
  BY <1>2, <1>3, RunsStore
<1> HIDE DEF n
<1>5. Runs(fp, steps \o <<Store(to, f, <<>>)>>, a, State(0, l, n))
  BY <1>1, <1>4, RunsThen DEF of
<1>6. DOMAIN n = CellsIn(B) /\ n[to] = v /\ \A x \in CellsIn(B) : x # to => n[x] = m[x]
  BY <1>1, PutFacts DEF n
<1>8. Targets(V) = Targets(W) \cup {to} /\ Result(to, v).cell = to /\ Result(to, v).value = v
  BY TargetsOfMore
<1> HIDE DEF v
<1>9. ASSUME NEW r \in V PROVE n[r.cell] = r.value
  <2>1. CASE r \in W
    <3>1. r.cell \in Targets(W)
      BY <2>1 DEF Targets
    <3> QED BY <1>1, <1>6, <2>1, <3>1
  <2>2. CASE r \notin W
    BY <1>6, <1>8, <2>2
  <2> QED BY <2>1, <2>2
<1>10. ASSUME NEW x \in CellsIn(B), x \notin Targets(V) PROVE n[x] = Initially(x)
  BY <1>1, <1>6, <1>8, <1>10
<1> HIDE DEF V
<1>11. Writes(B, acc, own, steps \o <<Store(to, f, <<>>)>>, V)
  <2>1. Targets(V) \subseteq CellsIn(B)
    BY <1>1, <1>8
  <2> QED BY <1>5, <1>6, <1>9, <1>10, <2>1 DEF Writes, fp, a
<1> QED BY <1>11 DEF V, v

\* Threads with programs P of which each, alone, leaves its results W, and none
\* stores to a cell that another one may access.
Separately(B, P, A, acc, W) ==
    /\ \A t \in A : /\ acc[t] \subseteq CellsIn(B)
                    /\ Targets(W[t]) \subseteq acc[t]
                    /\ Writes(B, acc[t], Targets(W[t]), P[t], W[t])
    /\ \A t, u \in A : t # u => Targets(W[t]) \cap acc[u] = {}

\* R is what they leave together.
Together(R, A, W) == \A r : r \in R <=> \E t \in A : r \in W[t]

\* A kernel of such threads, its others without a program, is sound.
LEMMA WritesSound ==
    ASSUME NEW B, NEW P, NEW R, NEW A, A \subseteq DOMAIN P, DOMAIN P # {},
           NEW acc, NEW W,
           \A t \in DOMAIN P : t \notin A => P[t] = <<>>,
           Separately(B, P, A, acc, W), Together(R, A, W)
    PROVE  Sound(Kernel(B, P, R))
<1> DEFINE leaves(t, s) ==
        /\ Runs(Only(FreshIn(B), acc[t], Targets(W[t])), P[t],
                State(0, <<>>, FreshIn(B)), State(0, s[1], s[2]))
        /\ \A r \in W[t] : s[2][r.cell] = r.value
           s == [t \in A |-> CHOOSE x : leaves(t, x)]
           l == [t \in A |-> s[t][1]]
           m == [t \in A |-> s[t][2]]
           own == [t \in A |-> Targets(W[t])]
<1>1. ASSUME NEW t \in A PROVE leaves(t, s[t])
  <2>0. Writes(B, acc[t], Targets(W[t]), P[t], W[t])
    BY DEF Separately
  <2>1. PICK x, y :
          /\ Runs(Only(FreshIn(B), acc[t], Targets(W[t])), P[t],
                  State(0, <<>>, FreshIn(B)), State(0, x, y))
          /\ DOMAIN y = CellsIn(B)
          /\ Targets(W[t]) \subseteq CellsIn(B)
          /\ \A r \in W[t] : y[r.cell] = r.value
          /\ \A z \in CellsIn(B) : z \notin Targets(W[t]) => y[z] = Initially(z)
    BY <2>0, Zenon DEF Writes
  <2>2. leaves(t, <<x, y>>)
    BY <2>1
  <2> HIDE DEF leaves
  <2>3. leaves(t, CHOOSE z : leaves(t, z))
    BY <2>2
  <2> QED BY <2>3
<1>2. \A t \in A : own[t] = Targets(W[t]) /\ l[t] = s[t][1] /\ m[t] = s[t][2]
  OBVIOUS
<1> HIDE DEF s, l, m, own
<1>3. \A t \in A : Runs(Only(FreshIn(B), acc[t], own[t]), P[t],
                        State(0, <<>>, FreshIn(B)), State(0, l[t], m[t]))
  BY <1>1, <1>2
<1>4. ASSUME NEW r \in R PROVE \E t \in A : r.cell \in own[t] /\ r.value = m[t][r.cell]
  <2>1. PICK t \in A : r \in W[t]
    BY <1>4 DEF Together
  <2>2. r.cell \in own[t]
    BY <1>2, <2>1 DEF Targets
  <2>3. m[t][r.cell] = r.value
    BY <1>1, <1>2, <2>1
  <2> QED BY <2>2, <2>3
<1>5. ASSUME NEW t \in A, NEW x \in own[t] PROVE \E r \in R : r.cell = x
  <2>1. PICK r \in W[t] : r.cell = x
    BY <1>2, <1>5 DEF Targets
  <2> QED BY <2>1 DEF Together
<1>6. \A t \in A : own[t] \subseteq acc[t] /\ acc[t] \subseteq CellsIn(B)
  BY <1>2 DEF Separately
<1>7. \A t, u \in A : t # u => own[t] \cap acc[u] = {}
  BY <1>2 DEF Separately
<1>8. Plainly(B, P, R, A, own, acc, l, m)
  BY <1>3, <1>4, <1>5, <1>6, <1>7, Zenon DEF Plainly
<1> QED BY <1>8, PlainSound

\* Whether a kernel has threads behind those that do something does not matter.
LEMMA GuardedSound ==
    ASSUME NEW B, NEW n \in Nat, NEW P, NEW R, NEW acc, NEW W,
           Separately(B, P, Below(n), acc, W), Together(R, Below(n), W)
    PROVE  Sound(Guarded(B, n, P, R))
<1> DEFINE Q == [tid \in 0..n |-> IF tid >= n THEN <<>> ELSE P[tid]]
<1>1. DOMAIN Q = 0..n /\ 0 \in DOMAIN Q
  OBVIOUS
<1>2. Below(n) \subseteq DOMAIN Q
  BY DEF Below
<1>3. \A t \in Below(n) : Q[t] = P[t]
  BY DEF Below
<1>4. \A t \in DOMAIN Q : t \notin Below(n) => Q[t] = <<>>
  BY DEF Below
<1> HIDE DEF Q
<1>5. Separately(B, Q, Below(n), acc, W)
  BY <1>3 DEF Separately
<1>7. DOMAIN Q # {}
  BY <1>1
<1>6. Sound(Kernel(B, Q, R))
  BY <1>2, <1>4, <1>5, <1>7, WritesSound
<1> QED BY <1>6, Zenon DEF Guarded, Q

\* Each thread in A loads its cells and stores to a cell that is its own.
OneStore(B, P, A, cells, to, f) ==
    /\ \A t \in A : /\ P[t] = Compute(<<>>, cells[t], to[t], f)
                    /\ IsSeq(cells[t])
                    /\ CellSet(cells[t]) \subseteq CellsIn(B)
                    /\ to[t] \in CellsIn(B)
    /\ \A t, u \in A : to[t] = to[u] \/ to[t] \in CellSet(cells[u]) => t = u

\* The results are those of the threads in A.
OneResult(R, A, cells, to, f) ==
    \A r : r \in R <=> \E t \in A : r = Result(to[t], Term(f, Before(cells[t])))

\* Such threads do not disturb each other.
LEMMA OneEach ==
    ASSUME NEW B, NEW P, NEW A, NEW cells, NEW to, NEW f, NEW R,
           OneStore(B, P, A, cells, to, f), OneResult(R, A, cells, to, f)
    PROVE  \E acc, W : Separately(B, P, A, acc, W) /\ Together(R, A, W)
<1> DEFINE acc == [t \in A |-> CellSet(cells[t]) \cup {to[t]}]
           W == [t \in A |-> {Result(to[t], Term(f, Before(cells[t])))}]
<1>0. /\ \A t \in A : /\ P[t] = Compute(<<>>, cells[t], to[t], f)
                      /\ IsSeq(cells[t])
                      /\ CellSet(cells[t]) \subseteq CellsIn(B)
                      /\ to[t] \in CellsIn(B)
      /\ \A t, u \in A : to[t] = to[u] \/ to[t] \in CellSet(cells[u]) => t = u
      /\ \A r : r \in R <=> \E t \in A : r = Result(to[t], Term(f, Before(cells[t])))
  BY DEF OneStore, OneResult
<1>1. \A t \in A : Targets(W[t]) = {to[t]}
  BY TargetsOfMore
<1>2. ASSUME NEW t \in A PROVE Writes(B, acc[t], {to[t]}, P[t], W[t])
  <2> DEFINE a == acc[t]
             x == to[t]
             s == cells[t]
             w == Result(x, Term(f, Before(s)))
  <2>1. \A j \in 1..Len(s) : s[j] \in a /\ s[j] \in CellsIn(B) /\ s[j] \notin Targets({})
    BY <1>0 DEF CellSet, Targets
  <2>2. x \in CellsIn(B) /\ x \notin Targets({})
    BY <1>0 DEF Targets
  <2>3. P[t] = Compute(<<>>, s, x, f) /\ W[t] = {w} /\ IsSeq(s)
    BY <1>0
  <2> HIDE DEF a, x, s, w
  <2>4. Writes(B, a, {x}, <<>>, {})
    BY WritesNothing
  <2>5. Writes(B, a, {x}, Compute(<<>>, s, x, f), {} \cup {w})
    <3>1. x \in {x}
      OBVIOUS
    <3> QED BY <2>1, <2>2, <2>3, <2>4, <3>1, WritesCompute DEF w
  <2>6. {} \cup {w} = {w}
    OBVIOUS
  <2> QED BY <2>3, <2>5, <2>6 DEF a, x
<1>3. \A t \in A : acc[t] \subseteq CellsIn(B) /\ {to[t]} \subseteq acc[t]
  BY <1>0
<1>4. \A t, u \in A : t # u => {to[t]} \cap acc[u] = {}
  BY <1>0
<1>5. \A r : r \in R <=> \E t \in A : r \in W[t]
  BY <1>0
<1> HIDE DEF acc, W
<1>6. Separately(B, P, A, acc, W)
  BY <1>1, <1>2, <1>3, <1>4 DEF Separately
<1>7. Together(R, A, W)
  BY <1>5 DEF Together
<1> QED BY <1>6, <1>7

\* So a kernel of them is sound.
LEMMA OneEachSound ==
    ASSUME NEW B, NEW n \in Nat, NEW P, NEW R, NEW cells, NEW to, NEW f,
           OneStore(B, P, Below(n), cells, to, f), OneResult(R, Below(n), cells, to, f)
    PROVE  Sound(Guarded(B, n, P, R))
BY OneEach, GuardedSound

-----------------------------------------------------------------------------
\* Row-major places.

\* Size multiplies the dimensions one after the other.
LEMMA SizeUnrolls ==
    ASSUME NEW dims, IsSeq(dims)
    PROVE  \E g : /\ g[0] = 1
                  /\ \A n \in 1..Len(dims) : g[n] = g[n - 1] * dims[n]
                  /\ Size(dims) = g[Len(dims)]
<1> DEFINE rec(k, g) == g = [n \in 0..k |-> IF n = 0 THEN 1 ELSE g[n - 1] * dims[n]]
           G == {k \in 0..Len(dims) : \E g : rec(k, g)}
           up == CHOOSE g : rec(Len(dims), g)
<1>1. Len(dims) \in Nat
  BY LenIsNat
<1>2. 0 \in G
  <2>1. rec(0, [n \in 0..0 |-> 1])
    OBVIOUS
  <2> HIDE DEF rec
  <2> QED BY <1>1, <2>1
<1>3. ASSUME NEW i \in 1..Len(dims), i - 1 \in G PROVE i \in G
  <2>1. PICK k \in Nat : k = i - 1 /\ k + 1 = i
    BY <1>1
  <2>2. PICK g : rec(k, g)
    BY <1>3, <2>1
  <2> DEFINE h == [n \in 0..i |-> IF n <= k THEN g[n] ELSE g[k] * dims[i]]
  <2>3. g[0] = 1 /\ \A n \in 1..k : g[n] = g[n - 1] * dims[n]
    BY <2>1, <2>2
  <2>4. \A n \in 0..i : h[n] = IF n = 0 THEN 1 ELSE h[n - 1] * dims[n]
    BY <2>1, <2>3
  <2>5. h = [n \in 0..i |-> h[n]]
    OBVIOUS
  <2> HIDE DEF h
  <2>6. rec(i, h)
    BY <2>4, <2>5
  <2> HIDE DEF rec
  <2> QED BY <2>6
<1>4. \E g : rec(Len(dims), g)
  <2>1. Len(dims) \in 0..Len(dims)
    BY <1>1
  <2> HIDE DEF rec
  <2>2. \A i \in 1..Len(dims) : i - 1 \in G => i \in G
    BY <1>3
  <2> HIDE DEF G
  <2>3. \A i \in 0..Len(dims) : i \in G
    BY <1>1, <1>2, <2>2, Induction
  <2>4. Len(dims) \in G
    BY <2>1, <2>3
  <2> QED BY <2>4 DEF G
<1>5. rec(Len(dims), up)
  <2> HIDE DEF rec
  <2> QED BY <1>4
<1>6. Size(dims) = up[Len(dims)]
  BY DEF Size
<1> HIDE DEF up
<1>7. up[0] = 1 /\ \A n \in 1..Len(dims) : up[n] = up[n - 1] * dims[n]
  BY <1>1, <1>5
<1> QED BY <1>6, <1>7

\* Index goes through the dimensions the same way.
LEMMA IndexUnrolls ==
    ASSUME NEW dims, IsSeq(dims), NEW x
    PROVE  \E g : /\ g[0] = 0
                  /\ \A n \in 1..Len(dims) : g[n] = g[n - 1] * dims[n] + x[n]
                  /\ Index(dims, x) = g[Len(dims)]
<1> DEFINE rec(k, g) == g = [n \in 0..k |-> IF n = 0 THEN 0 ELSE g[n - 1] * dims[n] + x[n]]
           G == {k \in 0..Len(dims) : \E g : rec(k, g)}
           up == CHOOSE g : rec(Len(dims), g)
<1>1. Len(dims) \in Nat
  BY LenIsNat
<1>2. 0 \in G
  <2>1. rec(0, [n \in 0..0 |-> 0])
    OBVIOUS
  <2> HIDE DEF rec
  <2> QED BY <1>1, <2>1
<1>3. ASSUME NEW i \in 1..Len(dims), i - 1 \in G PROVE i \in G
  <2>1. PICK k \in Nat : k = i - 1 /\ k + 1 = i
    BY <1>1
  <2>2. PICK g : rec(k, g)
    BY <1>3, <2>1
  <2> DEFINE h == [n \in 0..i |-> IF n <= k THEN g[n] ELSE g[k] * dims[i] + x[i]]
  <2>3. g[0] = 0 /\ \A n \in 1..k : g[n] = g[n - 1] * dims[n] + x[n]
    BY <2>1, <2>2
  <2>4. \A n \in 0..i : h[n] = IF n = 0 THEN 0 ELSE h[n - 1] * dims[n] + x[n]
    BY <2>1, <2>3
  <2>5. h = [n \in 0..i |-> h[n]]
    OBVIOUS
  <2> HIDE DEF h
  <2>6. rec(i, h)
    BY <2>4, <2>5
  <2> HIDE DEF rec
  <2> QED BY <2>6
<1>4. \E g : rec(Len(dims), g)
  <2>1. Len(dims) \in 0..Len(dims)
    BY <1>1
  <2> HIDE DEF rec
  <2>2. \A i \in 1..Len(dims) : i - 1 \in G => i \in G
    BY <1>3
  <2> HIDE DEF G
  <2>3. \A i \in 0..Len(dims) : i \in G
    BY <1>1, <1>2, <2>2, Induction
  <2>4. Len(dims) \in G
    BY <2>1, <2>3
  <2> QED BY <2>4 DEF G
<1>5. rec(Len(dims), up)
  <2> HIDE DEF rec
  <2> QED BY <1>4
<1>6. Index(dims, x) = up[Len(dims)]
  BY DEF Index
<1> HIDE DEF up
<1>7. up[0] = 0 /\ \A n \in 1..Len(dims) : up[n] = up[n - 1] * dims[n] + x[n]
  BY <1>1, <1>5
<1> QED BY <1>6, <1>7

-----------------------------------------------------------------------------
\* The sizes and the places of elements in one to four dimensions.
LEMMA Size1 == ASSUME NEW a \in Nat PROVE Size(<<a>>) = a
<1> DEFINE d == <<a>>
<1>1. IsSeq(d) /\ Len(d) = 1 /\ d[1] = a
  <2>1. d \in Seq({a})
    OBVIOUS
  <2> QED BY <2>1 DEF IsSeq
<1> HIDE DEF d
<1>2. PICK g : g[0] = 1 /\ (\A n \in 1..Len(d) : g[n] = g[n - 1] * d[n]) /\ Size(d) = g[Len(d)]
  BY <1>1, SizeUnrolls
<1>3. g[1] = 1 * a
  BY <1>1, <1>2
<1>4. Size(d) = a
  BY <1>1, <1>2, <1>3
<1> QED BY <1>4 DEF d

\* In two dimensions, three and four.
LEMMA Size2 == ASSUME NEW a \in Nat, NEW b \in Nat PROVE Size(<<a, b>>) = a * b
<1> DEFINE d == <<a, b>>
<1>1. IsSeq(d) /\ Len(d) = 2 /\ d[1] = a /\ d[2] = b
  <2>1. d \in Seq({a, b})
    OBVIOUS
  <2> QED BY <2>1 DEF IsSeq
<1> HIDE DEF d
<1>2. PICK g : g[0] = 1 /\ (\A n \in 1..Len(d) : g[n] = g[n - 1] * d[n]) /\ Size(d) = g[Len(d)]
  BY <1>1, SizeUnrolls
<1>3. g[1] = 1 * a /\ g[2] = g[1] * b
  BY <1>1, <1>2
<1>4. Size(d) = a * b
  BY <1>1, <1>2, <1>3
<1> QED BY <1>4 DEF d

LEMMA Size3 ==
    ASSUME NEW a \in Nat, NEW b \in Nat, NEW c \in Nat
    PROVE  Size(<<a, b, c>>) = (a * b) * c
<1> DEFINE d == <<a, b, c>>
<1>1. IsSeq(d) /\ Len(d) = 3 /\ d[1] = a /\ d[2] = b /\ d[3] = c
  <2>1. d \in Seq({a, b, c})
    OBVIOUS
  <2> QED BY <2>1 DEF IsSeq
<1> HIDE DEF d
<1>2. PICK g : g[0] = 1 /\ (\A n \in 1..Len(d) : g[n] = g[n - 1] * d[n]) /\ Size(d) = g[Len(d)]
  BY <1>1, SizeUnrolls
<1>3. g[1] = 1 * a /\ g[2] = g[1] * b /\ g[3] = g[2] * c
  BY <1>1, <1>2
<1>4. Size(d) = (a * b) * c
  BY <1>1, <1>2, <1>3
<1> QED BY <1>4 DEF d

LEMMA Size4 ==
    ASSUME NEW a \in Nat, NEW b \in Nat, NEW c \in Nat, NEW e \in Nat
    PROVE  Size(<<a, b, c, e>>) = ((a * b) * c) * e
<1> DEFINE d == <<a, b, c, e>>
<1>1. IsSeq(d) /\ Len(d) = 4 /\ d[1] = a /\ d[2] = b /\ d[3] = c /\ d[4] = e
  <2>1. d \in Seq({a, b, c, e})
    OBVIOUS
  <2> QED BY <2>1 DEF IsSeq
<1> HIDE DEF d
<1>2. PICK g : g[0] = 1 /\ (\A n \in 1..Len(d) : g[n] = g[n - 1] * d[n]) /\ Size(d) = g[Len(d)]
  BY <1>1, SizeUnrolls
<1>3. g[1] = 1 * a /\ g[2] = g[1] * b /\ g[3] = g[2] * c /\ g[4] = g[3] * e
  BY <1>1, <1>2
<1>4. Size(d) = ((a * b) * c) * e
  BY <1>1, <1>2, <1>3
<1> QED BY <1>4 DEF d

\* The same for the places.
LEMMA Index1 == ASSUME NEW a \in Nat, NEW x, x[1] \in Nat PROVE Index(<<a>>, x) = x[1]
<1> DEFINE d == <<a>>
<1>1. IsSeq(d) /\ Len(d) = 1 /\ d[1] = a
  <2>1. d \in Seq({a})
    OBVIOUS
  <2> QED BY <2>1 DEF IsSeq
<1> HIDE DEF d
<1>2. PICK g : /\ g[0] = 0 /\ \A n \in 1..Len(d) : g[n] = g[n - 1] * d[n] + x[n]
               /\ Index(d, x) = g[Len(d)]
  BY <1>1, IndexUnrolls
<1>3. g[1] = 0 * a + x[1]
  BY <1>1, <1>2
<1>4. Index(d, x) = x[1]
  BY <1>1, <1>2, <1>3
<1> QED BY <1>4 DEF d

LEMMA Index2 ==
    ASSUME NEW a \in Nat, NEW b \in Nat, NEW x, x[1] \in Nat, x[2] \in Nat
    PROVE  Index(<<a, b>>, x) = x[1] * b + x[2]
<1> DEFINE d == <<a, b>>
<1>1. IsSeq(d) /\ Len(d) = 2 /\ d[1] = a /\ d[2] = b
  <2>1. d \in Seq({a, b})
    OBVIOUS
  <2> QED BY <2>1 DEF IsSeq
<1> HIDE DEF d
<1>2. PICK g : /\ g[0] = 0 /\ \A n \in 1..Len(d) : g[n] = g[n - 1] * d[n] + x[n]
               /\ Index(d, x) = g[Len(d)]
  BY <1>1, IndexUnrolls
<1>3. g[1] = 0 * a + x[1] /\ g[2] = g[1] * b + x[2]
  BY <1>1, <1>2
<1>4. Index(d, x) = x[1] * b + x[2]
  BY <1>1, <1>2, <1>3
<1> QED BY <1>4 DEF d

LEMMA Index3 ==
    ASSUME NEW a \in Nat, NEW b \in Nat, NEW c \in Nat,
           NEW x, x[1] \in Nat, x[2] \in Nat, x[3] \in Nat
    PROVE  Index(<<a, b, c>>, x) = (x[1] * b + x[2]) * c + x[3]
<1> DEFINE d == <<a, b, c>>
<1>1. IsSeq(d) /\ Len(d) = 3 /\ d[1] = a /\ d[2] = b /\ d[3] = c
  <2>1. d \in Seq({a, b, c})
    OBVIOUS
  <2> QED BY <2>1 DEF IsSeq
<1> HIDE DEF d
<1>2. PICK g : /\ g[0] = 0 /\ \A n \in 1..Len(d) : g[n] = g[n - 1] * d[n] + x[n]
               /\ Index(d, x) = g[Len(d)]
  BY <1>1, IndexUnrolls
<1>3. g[1] = 0 * a + x[1] /\ g[2] = g[1] * b + x[2] /\ g[3] = g[2] * c + x[3]
  BY <1>1, <1>2
<1>4. Index(d, x) = (x[1] * b + x[2]) * c + x[3]
  BY <1>1, <1>2, <1>3
<1> QED BY <1>4 DEF d

LEMMA Index4 ==
    ASSUME NEW a \in Nat, NEW b \in Nat, NEW c \in Nat, NEW e \in Nat,
           NEW x, x[1] \in Nat, x[2] \in Nat, x[3] \in Nat, x[4] \in Nat
    PROVE  Index(<<a, b, c, e>>, x) = ((x[1] * b + x[2]) * c + x[3]) * e + x[4]
<1> DEFINE d == <<a, b, c, e>>
<1>1. IsSeq(d) /\ Len(d) = 4 /\ d[1] = a /\ d[2] = b /\ d[3] = c /\ d[4] = e
  <2>1. d \in Seq({a, b, c, e})
    OBVIOUS
  <2> QED BY <2>1 DEF IsSeq
<1> HIDE DEF d
<1>2. PICK g : /\ g[0] = 0 /\ \A n \in 1..Len(d) : g[n] = g[n - 1] * d[n] + x[n]
               /\ Index(d, x) = g[Len(d)]
  BY <1>1, IndexUnrolls
<1>3. /\ g[1] = 0 * a + x[1] /\ g[2] = g[1] * b + x[2] /\ g[3] = g[2] * c + x[3]
      /\ g[4] = g[3] * e + x[4]
  BY <1>1, <1>2
<1>4. Index(d, x) = ((x[1] * b + x[2]) * c + x[3]) * e + x[4]
  BY <1>1, <1>2, <1>3
<1> QED BY <1>4 DEF d

\* Row-major places stay within the size, and are places of one element each.
LEMMA PlaceFacts ==
    ASSUME NEW H \in Nat, NEW D \in Nat, NEW h \in Below(H), NEW d \in Below(D)
    PROVE  /\ h * D + d \in Below(H * D)
           /\ D # 0 /\ (h * D + d) \div D = h /\ ((h * D + d) % D) = d
<1>1. h \in Nat /\ d \in Nat /\ h + 1 <= H /\ d < D /\ D \in Nat \ {0}
  BY DEF Below
<1>2. (h + 1) * D <= H * D
  BY <1>1
<1>3. (h + 1) * D = h * D + D
  BY <1>1
<1>4. h * D + d \in Below(H * D)
  BY <1>1, <1>2, <1>3 DEF Below
<1>5. (h * D + d) \div D = h /\ ((h * D + d) % D) = d
  BY <1>1
<1> QED BY <1>1, <1>4, <1>5

\* Conversely, a place is in one row, at one column.
LEMMA PlaceSplits ==
    ASSUME NEW H \in Nat, NEW D \in Nat \ {0}, NEW t \in Below(H * D)
    PROVE  /\ t \div D \in Below(H) /\ (t % D) \in Below(D)
           /\ (t \div D) * D + (t % D) = t
<1>1. t \in Nat /\ t < H * D
  BY DEF Below
<1>2. t \div D \in Nat /\ (t % D) \in Below(D) /\ (t \div D) * D + (t % D) = t
  BY <1>1 DEF Below
<1>3. t \div D < H
  BY <1>1
<1> QED BY <1>2, <1>3 DEF Below

-----------------------------------------------------------------------------
\* The elements of a buffer with one to four dimensions: each is a cell, and what
\* In and Makes say of it.
Element(B, b, x, i) ==
    /\ Cell(b, i) \in CellsIn(B)
    /\ In(B, b, x) = Initially(Cell(b, i))
    /\ \A v : Makes(B, b, x, v) = Result(Cell(b, i), v)

\* Whatever has its place within the size is an element.
LEMMA ElementFacts ==
    ASSUME NEW B, NEW b, NEW x, NEW i, b \in DOMAIN B, Index(B[b], x) = i,
           i \in Below(Size(B[b]))
    PROVE  Element(B, b, x, i)
BY InCells DEF Element, In, Makes, Result

\* In one to four dimensions.
LEMMA Element1 ==
    ASSUME NEW B, NEW b \in DOMAIN B, NEW a \in Nat, B[b] = <<a>>, NEW i \in Below(a)
    PROVE  Element(B, b, <<i>>, i)
<1> DEFINE x == <<i>>
<1>1. x[1] = i /\ i \in Nat
  BY DEF Below
<1> HIDE DEF x
<1>2. Index(<<a>>, x) = i /\ Size(<<a>>) = a
  BY <1>1, Index1, Size1
<1>3. Element(B, b, x, i)
  BY <1>2, ElementFacts
<1> QED BY <1>3 DEF x

LEMMA Element2 ==
    ASSUME NEW B, NEW b \in DOMAIN B, NEW a1 \in Nat, NEW a2 \in Nat, B[b] = <<a1, a2>>,
           NEW i1 \in Below(a1), NEW i2 \in Below(a2)
    PROVE  Element(B, b, <<i1, i2>>, i1 * a2 + i2)
<1> DEFINE x == <<i1, i2>>
<1>1. x[1] = i1 /\ x[2] = i2 /\ i1 \in Nat /\ i2 \in Nat
  BY DEF Below
<1> HIDE DEF x
<1>2. Index(<<a1, a2>>, x) = i1 * a2 + i2 /\ Size(<<a1, a2>>) = a1 * a2
  BY <1>1, Index2, Size2
<1>3. i1 * a2 + i2 \in Below(a1 * a2)
  BY PlaceFacts
<1>4. Element(B, b, x, i1 * a2 + i2)
  BY <1>2, <1>3, ElementFacts
<1> QED BY <1>4 DEF x

LEMMA Element3 ==
    ASSUME NEW B, NEW b \in DOMAIN B, NEW a1 \in Nat, NEW a2 \in Nat, NEW a3 \in Nat,
           B[b] = <<a1, a2, a3>>,
           NEW i1 \in Below(a1), NEW i2 \in Below(a2), NEW i3 \in Below(a3)
    PROVE  Element(B, b, <<i1, i2, i3>>, (i1 * a2 + i2) * a3 + i3)
<1> DEFINE x == <<i1, i2, i3>>
<1>1. x[1] = i1 /\ x[2] = i2 /\ x[3] = i3 /\ i1 \in Nat /\ i2 \in Nat /\ i3 \in Nat
  BY DEF Below
<1> HIDE DEF x
<1>2. /\ Index(<<a1, a2, a3>>, x) = (i1 * a2 + i2) * a3 + i3
      /\ Size(<<a1, a2, a3>>) = (a1 * a2) * a3
  BY <1>1, Index3, Size3
<1>3. i1 * a2 + i2 \in Below(a1 * a2) /\ a1 * a2 \in Nat
  BY PlaceFacts
<1>4. (i1 * a2 + i2) * a3 + i3 \in Below((a1 * a2) * a3)
  BY <1>3, PlaceFacts
<1>5. Element(B, b, x, (i1 * a2 + i2) * a3 + i3)
  BY <1>2, <1>4, ElementFacts
<1> QED BY <1>5 DEF x

LEMMA Element4 ==
    ASSUME NEW B, NEW b \in DOMAIN B, NEW a1 \in Nat, NEW a2 \in Nat, NEW a3 \in Nat,
           NEW a4 \in Nat, B[b] = <<a1, a2, a3, a4>>,
           NEW i1 \in Below(a1), NEW i2 \in Below(a2), NEW i3 \in Below(a3),
           NEW i4 \in Below(a4)
    PROVE  Element(B, b, <<i1, i2, i3, i4>>, ((i1 * a2 + i2) * a3 + i3) * a4 + i4)
<1> DEFINE x == <<i1, i2, i3, i4>>
<1>1. /\ x[1] = i1 /\ x[2] = i2 /\ x[3] = i3 /\ x[4] = i4
      /\ i1 \in Nat /\ i2 \in Nat /\ i3 \in Nat /\ i4 \in Nat
  BY DEF Below
<1> HIDE DEF x
<1>2. /\ Index(<<a1, a2, a3, a4>>, x) = ((i1 * a2 + i2) * a3 + i3) * a4 + i4
      /\ Size(<<a1, a2, a3, a4>>) = ((a1 * a2) * a3) * a4
  <2>1. Index(<<a1, a2, a3, a4>>, x) = ((i1 * a2 + i2) * a3 + i3) * a4 + i4
    <3>1. x[1] \in Nat /\ x[2] \in Nat /\ x[3] \in Nat /\ x[4] \in Nat
      BY <1>1
    <3>2. Index(<<a1, a2, a3, a4>>, x) = ((x[1] * a2 + x[2]) * a3 + x[3]) * a4 + x[4]
      BY <3>1, Index4, SMTT(30)
    <3> QED BY <1>1, <3>2
  <2>2. Size(<<a1, a2, a3, a4>>) = ((a1 * a2) * a3) * a4
    BY Size4
  <2> QED BY <2>1, <2>2
<1>3. i1 * a2 + i2 \in Below(a1 * a2) /\ a1 * a2 \in Nat
  BY PlaceFacts
<1>4. (i1 * a2 + i2) * a3 + i3 \in Below((a1 * a2) * a3) /\ (a1 * a2) * a3 \in Nat
  BY <1>3, PlaceFacts
<1>5. ((i1 * a2 + i2) * a3 + i3) * a4 + i4 \in Below(((a1 * a2) * a3) * a4)
  BY <1>4, PlaceFacts
<1>6. Element(B, b, x, ((i1 * a2 + i2) * a3 + i3) * a4 + i4)
  BY <1>2, <1>5, ElementFacts
<1> QED BY <1>6 DEF x

-----------------------------------------------------------------------------
\* Sequences of pairs.

\* t pairs the values that the cells in the pairs s hold before the dispatch.
PairValues(s, t, k) ==
    /\ Pairs(s, k) /\ Len(t) = k
    /\ \A i \in 1..k : t[i] = <<Initially(s[i][1]), Initially(s[i][2])>>

\* Then the flattened t is what the flattened s holds before the dispatch.
LEMMA PairsBefore ==
    ASSUME NEW s, NEW t, NEW k, PairValues(s, t, k)
    PROVE  /\ IsSeq(FlattenSeq(s)) /\ Len(FlattenSeq(s)) = 2 * k
           /\ CellSet(FlattenSeq(s)) = {s[i][1] : i \in 1..k} \cup {s[i][2] : i \in 1..k}
           /\ Before(FlattenSeq(s)) = FlattenSeq(t)
           /\ IsSeq(FlattenSeq(t)) /\ Len(FlattenSeq(t)) = 2 * k
<1>1. k \in Nat \ {0}
  BY DEF Pairs, PairValues
<1>7. /\ Pairs(s, k) /\ Len(t) = k
      /\ \A i \in 1..k : t[i] = <<Initially(s[i][1]), Initially(s[i][2])>>
  BY DEF PairValues
<1> DEFINE u == FlattenSeq(s)
           v == FlattenSeq(t)
<1>2. /\ IsSeq(u) /\ Len(u) = 2 * k
      /\ \A i \in 1..k : u[2 * i - 1] = s[i][1] /\ u[2 * i] = s[i][2]
  BY <1>7, FlatPairs
<1>3. Pairs(t, k) /\ \A i \in 1..k : t[i][1] = Initially(s[i][1]) /\ t[i][2] = Initially(s[i][2])
  BY <1>1, <1>7 DEF Pairs
<1>4. /\ IsSeq(v) /\ Len(v) = 2 * k
      /\ \A i \in 1..k : v[2 * i - 1] = t[i][1] /\ v[2 * i] = t[i][2]
  BY <1>3, FlatPairs
<1> HIDE DEF u, v
<1>5. CellSet(u) = {s[i][1] : i \in 1..k} \cup {s[i][2] : i \in 1..k}
  <2>1. ASSUME NEW j \in 1..(2 * k) PROVE \E i \in 1..k : u[j] = s[i][1] \/ u[j] = s[i][2]
    BY <1>1, <1>2, OddOrEven
  <2>2. ASSUME NEW i \in 1..k
        PROVE  \E j, l \in 1..(2 * k) : u[j] = s[i][1] /\ u[l] = s[i][2]
    <3>1. 2 * i - 1 \in 1..(2 * k) /\ 2 * i \in 1..(2 * k)
      BY <1>1
    <3> QED BY <1>2, <3>1
  <2>3. \A x : x \in CellSet(u) <=> \E j \in 1..(2 * k) : x = u[j]
    BY <1>2 DEF CellSet
  <2>4. \A x : x \in CellSet(u) => \E i \in 1..k : x = s[i][1] \/ x = s[i][2]
    BY <2>1, <2>3
  <2>5. \A i \in 1..k : s[i][1] \in CellSet(u) /\ s[i][2] \in CellSet(u)
    BY <2>2, <2>3
  <2> QED BY <2>4, <2>5
<1>6. Before(u) = v
  <2>1. Before(u) = [j \in 1..(2 * k) |-> Initially(u[j])]
    BY <1>2, Zenon DEF Before
  <2>2. ASSUME NEW j \in 1..(2 * k) PROVE Initially(u[j]) = v[j]
    <3>1. PICK i \in 1..k : j = 2 * i - 1 \/ j = 2 * i
      BY <1>1, OddOrEven
    <3>2. CASE j = 2 * i - 1
      <4>1. u[j] = s[i][1] /\ v[j] = t[i][1]
        BY <1>2, <1>4, <3>2
      <4> QED BY <1>3, <4>1
    <3>3. CASE j = 2 * i
      <4>1. u[j] = s[i][2] /\ v[j] = t[i][2]
        BY <1>2, <1>4, <3>3
      <4> QED BY <1>3, <4>1
    <3> QED BY <3>1, <3>2, <3>3
  <2>3. 2 * k \in Nat
    BY <1>1
  <2> DEFINE e == [j \in 1..(2 * k) |-> Initially(u[j])]
             w == [j \in 1..(2 * k) |-> e[j]]
  <2>4. \A j \in 1..(2 * k) : e[j] = Initially(u[j]) /\ w[j] = e[j]
    OBVIOUS
  <2>6. w = e
    OBVIOUS
  <2>5. IsSeq(w) /\ Len(w) = 2 * k
    <3> HIDE DEF e
    <3> QED BY <2>3, TableIsSeq
  <2> HIDE DEF w, e
  <2>7. \A j \in 1..Len(e) : e[j] = v[j]
    BY <2>2, <2>4, <2>5, <2>6
  <2>8. e = v
    BY <1>4, <2>5, <2>6, <2>7, SameSequence
  <2> QED BY <2>1, <2>8 DEF e
<1> QED BY <1>2, <1>4, <1>5, <1>6 DEF u, v

-----------------------------------------------------------------------------
\* Kernels that fill a buffer.

\* The cells in the sequence s are in S and hold the values t before the dispatch.
Reads(s, t, S) == /\ IsSeq(s) /\ IsSeq(t) /\ Len(t) = Len(s)
                  /\ \A j \in 1..Len(s) : s[j] \in S /\ t[j] = Initially(s[j])

\* In terms of what a thread loads.
LEMMA ReadsFacts ==
    ASSUME NEW s, NEW t, NEW S, Reads(s, t, S)
    PROVE  IsSeq(s) /\ CellSet(s) \subseteq S /\ Before(s) = t
<1>1. IsSeq(s) /\ IsSeq(t) /\ Len(t) = Len(s) /\ Len(s) \in Nat
      /\ \A j \in 1..Len(s) : s[j] \in S /\ t[j] = Initially(s[j])
  BY LenIsNat DEF Reads
<1>2. CellSet(s) \subseteq S
  BY <1>1 DEF CellSet
<1> DEFINE k == Len(s)
           e == [j \in 1..k |-> Initially(s[j])]
           w == [j \in 1..k |-> e[j]]
<1>3. Before(s) = e
  BY Zenon DEF Before
<1>4. k \in Nat /\ w = e /\ \A j \in 1..k : e[j] = Initially(s[j])
  BY <1>1
<1>5. IsSeq(w) /\ Len(w) = k
  <2> HIDE DEF e, k
  <2> QED BY <1>4, TableIsSeq
<1>6. e = t
  <2>1. \A j \in 1..Len(e) : e[j] = t[j]
    BY <1>1, <1>4, <1>5
  <2>2. Len(e) = Len(t) /\ IsSeq(e)
    BY <1>1, <1>4, <1>5
  <2> HIDE DEF e
  <2> QED BY <1>1, <2>1, <2>2, SameSequence
<1> QED BY <1>1, <1>2, <1>3, <1>6

\* Reading nothing, one cell, two cells, and one sequence after another.
LEMMA ReadsNone == ASSUME NEW S PROVE Reads(<<>>, <<>>, S)
BY EmptyIsSeq DEF Reads

LEMMA ReadsOne == ASSUME NEW S, NEW x \in S PROVE Reads(<<x>>, <<Initially(x)>>, S)
<1>1. <<x>> \in Seq({x}) /\ <<Initially(x)>> \in Seq({Initially(x)})
  OBVIOUS
<1>2. \A j \in 1..1 : <<x>>[j] \in S /\ <<Initially(x)>>[j] = Initially(<<x>>[j])
  OBVIOUS
<1>3. IsSeq(<<x>>) /\ IsSeq(<<Initially(x)>>) /\ Len(<<x>>) = 1 /\ Len(<<Initially(x)>>) = 1
  BY <1>1 DEF IsSeq
<1> QED BY <1>2, <1>3 DEF Reads

LEMMA ReadsTwo ==
    ASSUME NEW S, NEW x \in S, NEW y \in S
    PROVE  Reads(<<x, y>>, <<Initially(x), Initially(y)>>, S)
<1>1. \A j \in 1..2 : <<x, y>>[j] \in S /\ <<Initially(x), Initially(y)>>[j] = Initially(<<x, y>>[j])
  OBVIOUS
<1> QED BY <1>1, PairIsSeq DEF Reads

LEMMA ReadsThen ==
    ASSUME NEW S, NEW s, NEW t, Reads(s, t, S), NEW u, NEW v, Reads(u, v, S)
    PROVE  Reads(s \o u, t \o v, S)
<1>1. /\ IsSeq(s) /\ IsSeq(t) /\ Len(t) = Len(s) /\ Len(s) \in Nat
      /\ \A j \in 1..Len(s) : s[j] \in S /\ t[j] = Initially(s[j])
  BY LenIsNat DEF Reads
<1>2. /\ IsSeq(u) /\ IsSeq(v) /\ Len(v) = Len(u) /\ Len(u) \in Nat
      /\ \A j \in 1..Len(u) : u[j] \in S /\ v[j] = Initially(u[j])
  BY LenIsNat DEF Reads
<1>3. /\ IsSeq(s \o u) /\ Len(s \o u) = Len(s) + Len(u)
      /\ \A j \in 1..Len(s) : (s \o u)[j] = s[j]
      /\ \A j \in 1..Len(u) : (s \o u)[Len(s) + j] = u[j]
  BY <1>1, <1>2, ConcatFacts, ConcatTail
<1>4. /\ IsSeq(t \o v) /\ Len(t \o v) = Len(s) + Len(u)
      /\ \A j \in 1..Len(s) : (t \o v)[j] = t[j]
      /\ \A j \in 1..Len(u) : (t \o v)[Len(s) + j] = v[j]
  <2>1. /\ IsSeq(t \o v) /\ Len(t \o v) = Len(t) + Len(v)
        /\ \A j \in 1..Len(t) : (t \o v)[j] = t[j]
        /\ \A j \in 1..Len(v) : (t \o v)[Len(t) + j] = v[j]
    <3>1. \A j \in 1..Len(v) : (t \o v)[Len(t) + j] = v[j]
      BY <1>1, <1>2, ConcatTail
    <3>2. /\ IsSeq(t \o v) /\ Len(t \o v) = Len(t) + Len(v)
          /\ \A j \in 1..Len(t) : (t \o v)[j] = t[j]
      BY <1>1, <1>2, ConcatFacts
    <3> QED BY <3>1, <3>2
  <2> QED BY <1>1, <1>2, <2>1
<1>5. ASSUME NEW j \in 1..Len(s \o u)
      PROVE  (s \o u)[j] \in S /\ (t \o v)[j] = Initially((s \o u)[j])
  <2>1. CASE j \in 1..Len(s)
    BY <1>1, <1>3, <1>4, <2>1
  <2>2. CASE j \notin 1..Len(s)
    <3>1. PICK i \in 1..Len(u) : j = Len(s) + i
      <4>1. j - Len(s) \in 1..Len(u) /\ j = Len(s) + (j - Len(s))
        BY <1>1, <1>2, <1>3, <2>2
      <4> QED BY <4>1
    <3> QED BY <1>2, <1>3, <1>4, <3>1
  <2> QED BY <2>1, <2>2
<1> QED BY <1>3, <1>4, <1>5 DEF Reads

\* A table of cells.
LEMMA ReadsTable ==
    ASSUME NEW S, NEW n \in Nat, NEW e, NEW v,
           \A i \in 1..n : e[i] \in S /\ v[i] = Initially(e[i])
    PROVE  Reads([i \in 1..n |-> e[i]], [i \in 1..n |-> v[i]], S)
<1> DEFINE s == [i \in 1..n |-> e[i]]
           t == [i \in 1..n |-> v[i]]
<1>1. IsSeq(s) /\ Len(s) = n /\ IsSeq(t) /\ Len(t) = n
  BY TableIsSeq
<1>2. \A i \in 1..n : s[i] = e[i] /\ t[i] = v[i]
  OBVIOUS
<1> HIDE DEF s, t
<1>3. Reads(s, t, S)
  BY <1>1, <1>2 DEF Reads
<1> QED BY <1>3 DEF s, t

\* Pairs of cells.
PairsIn(s, S, k) == \A i \in 1..k : s[i][1] \in S /\ s[i][2] \in S

\* Reading pairs of cells.
LEMMA ReadsPairs ==
    ASSUME NEW S, NEW k, NEW s, NEW t, PairValues(s, t, k), PairsIn(s, S, k)
    PROVE  Reads(FlattenSeq(s), FlattenSeq(t), S)
<1> DEFINE u == FlattenSeq(s)
           v == FlattenSeq(t)
<1>1. /\ IsSeq(u) /\ Len(u) = 2 * k
      /\ CellSet(u) = {s[i][1] : i \in 1..k} \cup {s[i][2] : i \in 1..k}
      /\ Before(u) = v
      /\ IsSeq(v) /\ Len(v) = 2 * k
  BY PairsBefore
<1> HIDE DEF u, v
<1>2. CellSet(u) \subseteq S
  BY <1>1 DEF PairsIn
<1>3. \A j \in 1..Len(u) : u[j] \in S
  BY <1>2 DEF CellSet
<1>4. \A j \in 1..Len(u) : v[j] = Initially(u[j])
  BY <1>1 DEF Before
<1>5. Reads(u, v, S)
  BY <1>1, <1>3, <1>4 DEF Reads
<1> QED BY <1>5 DEF u, v

\* s is a table of k pairs of cells in S, and v one of their values.
PairTable(s, v, S, k) ==
    /\ k \in Nat \ {0} /\ Len(s) = k /\ Len(v) = k
    /\ \A i \in 1..k : \E x, y \in S : /\ s[i] = <<x, y>>
                                      /\ v[i] = <<Initially(x), Initially(y)>>

\* The same for pairs given one by one.
LEMMA ReadsPairTable ==
    ASSUME NEW s, NEW v, NEW S, NEW k, PairTable(s, v, S, k)
    PROVE  Reads(FlattenSeq(s), FlattenSeq(v), S)
<1>1. ASSUME NEW i \in 1..k
      PROVE  /\ s[i] = <<s[i][1], s[i][2]>> /\ s[i][1] \in S /\ s[i][2] \in S
             /\ v[i] = <<Initially(s[i][1]), Initially(s[i][2])>>
  <2>1. PICK x, y \in S : s[i] = <<x, y>> /\ v[i] = <<Initially(x), Initially(y)>>
    BY DEF PairTable
  <2>2. s[i][1] = x /\ s[i][2] = y
    BY <2>1
  <2> QED BY <2>1, <2>2
<1>2. PairValues(s, v, k) /\ PairsIn(s, S, k)
  BY <1>1 DEF PairTable, PairValues, PairsIn, Pairs
<1> QED BY <1>2, ReadsPairs

-----------------------------------------------------------------------------
\* The cells of the buffers of a kernel other than out.
Other(B, out) == {x \in CellsIn(B) : x[1] # out}

\* Each thread t < n makes element t of out, by f, of the values vals[t] in cells
\* of other buffers.
Fills(B, P, n, out, f, cells, vals) == \A t \in Below(n) :
    /\ P[t] = Compute(<<>>, cells[t], Cell(out, t), f)
    /\ Reads(cells[t], vals[t], Other(B, out))
    /\ Cell(out, t) \in CellsIn(B)
Filled(R, n, out, f, vals) == \A r : r \in R <=>
    \E t \in Below(n) : r = Result(Cell(out, t), Term(f, vals[t]))

\* Such threads make one store each.
LEMMA FillsOneStore ==
    ASSUME NEW B, NEW n, NEW P, NEW R, NEW out, NEW f, NEW cells, NEW vals,
           Fills(B, P, n, out, f, cells, vals), Filled(R, n, out, f, vals)
    PROVE  \E to : OneStore(B, P, Below(n), cells, to, f) /\ OneResult(R, Below(n), cells, to, f)
<1> DEFINE to == [t \in Below(n) |-> Cell(out, t)]
<1>1. \A t \in Below(n) : /\ IsSeq(cells[t])
                          /\ CellSet(cells[t]) \subseteq Other(B, out)
                          /\ Before(cells[t]) = vals[t]
  BY ReadsFacts DEF Fills
<1>2. \A t \in Below(n) : to[t] = Cell(out, t)
  OBVIOUS
<1> HIDE DEF to
<1>3. \A t, u \in Below(n) : to[t] = to[u] => t = u
  BY <1>2, CellIs
<1>4. \A t, u \in Below(n) : to[t] \notin CellSet(cells[u])
  BY <1>1, <1>2 DEF Other, Cell
<1>5. OneStore(B, P, Below(n), cells, to, f)
  BY <1>1, <1>2, <1>3, <1>4 DEF OneStore, Fills, Other
<1>6. OneResult(R, Below(n), cells, to, f)
  BY <1>1, <1>2 DEF OneResult, Filled
<1> QED BY <1>5, <1>6

\* So the kernel that fills out is sound.
LEMMA FillsSound ==
    ASSUME NEW B, NEW n \in Nat, NEW P, NEW R, NEW out, NEW f, NEW cells, NEW vals,
           Fills(B, P, n, out, f, cells, vals), Filled(R, n, out, f, vals)
    PROVE  Sound(Guarded(B, n, P, R))
BY FillsOneStore, OneEachSound

\* The same for a kernel without a guard.
LEMMA FillsSoundExactly ==
    ASSUME NEW B, NEW n \in Nat \ {0}, NEW P, DOMAIN P = Below(n), NEW R, NEW out, NEW f,
           NEW cells, NEW vals,
           Fills(B, P, n, out, f, cells, vals), Filled(R, n, out, f, vals)
    PROVE  Sound(Kernel(B, P, R))
<1>1. \E acc, W : Separately(B, P, Below(n), acc, W) /\ Together(R, Below(n), W)
  BY FillsOneStore, OneEach
<1>2. 0 \in Below(n)
  BY DEF Below
<1> QED BY <1>1, <1>2, WritesSound

\* Results by row and column are results by thread.
Listed1(R, B, out, n, f, vals) == \A r : r \in R <=>
    \E i \in Below(n) : r = Makes(B, out, <<i>>, Term(f, vals[i]))
Listed2(R, B, out, H, D, f, vals) == \A r : r \in R <=>
    \E h \in Below(H), d \in Below(D) : r = Makes(B, out, <<h, d>>, Term(f, vals[h * D + d]))

\* What is listed by index fills a vector, and what is listed by row and column a
\* matrix.
LEMMA Filled1 ==
    ASSUME NEW B, NEW out \in DOMAIN B, NEW n \in Nat, B[out] = <<n>>, NEW R, NEW f, NEW vals,
           Listed1(R, B, out, n, f, vals)
    PROVE  Filled(R, n, out, f, vals) /\ \A t \in Below(n) : Cell(out, t) \in CellsIn(B)
<1>1. \A i \in Below(n) : Element(B, out, <<i>>, i)
  BY Element1
<1>2. \A i \in Below(n) : /\ Cell(out, i) \in CellsIn(B)
                          /\ \A v : Makes(B, out, <<i>>, v) = Result(Cell(out, i), v)
  BY <1>1, Zenon DEF Element
<1>3. Filled(R, n, out, f, vals)
  <2>1. ASSUME NEW r PROVE r \in R <=> \E t \in Below(n) : r = Result(Cell(out, t), Term(f, vals[t]))
    <3>1. \A i \in Below(n) : Makes(B, out, <<i>>, Term(f, vals[i])) = Result(Cell(out, i), Term(f, vals[i]))
      BY <1>2
    <3>2. r \in R <=> \E i \in Below(n) : r = Makes(B, out, <<i>>, Term(f, vals[i]))
      BY DEF Listed1
    <3> QED BY <3>1, <3>2, Zenon
  <2> QED BY <2>1 DEF Filled
<1> QED BY <1>2, <1>3

LEMMA Filled2 ==
    ASSUME NEW B, NEW out \in DOMAIN B, NEW H \in Nat, NEW D \in Nat \ {0}, B[out] = <<H, D>>,
           NEW R, NEW f, NEW vals, Listed2(R, B, out, H, D, f, vals)
    PROVE  Filled(R, H * D, out, f, vals) /\ \A t \in Below(H * D) : Cell(out, t) \in CellsIn(B)
<1>1. \A h \in Below(H), d \in Below(D) : Element(B, out, <<h, d>>, h * D + d)
  BY Element2
<1>2. \A h \in Below(H), d \in Below(D) :
          /\ Cell(out, h * D + d) \in CellsIn(B)
          /\ \A v : Makes(B, out, <<h, d>>, v) = Result(Cell(out, h * D + d), v)
  BY <1>1, Zenon DEF Element
<1>3. \A h \in Below(H), d \in Below(D) : h * D + d \in Below(H * D)
  BY PlaceFacts
<1>4. \A t \in Below(H * D) : \E h \in Below(H), d \in Below(D) : t = h * D + d
  BY PlaceSplits
<1>5. Filled(R, H * D, out, f, vals)
  <2>1. ASSUME NEW r
        PROVE  r \in R <=> \E t \in Below(H * D) : r = Result(Cell(out, t), Term(f, vals[t]))
    <3>1. \A h \in Below(H), d \in Below(D) : Makes(B, out, <<h, d>>, Term(f, vals[h * D + d]))
              = Result(Cell(out, h * D + d), Term(f, vals[h * D + d]))
      BY <1>2
    <3>3. ASSUME r \in R
          PROVE  \E t \in Below(H * D) : r = Result(Cell(out, t), Term(f, vals[t]))
      <4>1. PICK h \in Below(H), d \in Below(D) :
                r = Makes(B, out, <<h, d>>, Term(f, vals[h * D + d]))
        BY <3>3, Zenon DEF Listed2
      <4>2. r = Result(Cell(out, h * D + d), Term(f, vals[h * D + d]))
        BY <3>1, <4>1, Zenon
      <4> QED BY <1>3, <4>2, Zenon
    <3>4. ASSUME NEW t \in Below(H * D), r = Result(Cell(out, t), Term(f, vals[t]))
          PROVE  r \in R
      <4>1. PICK h \in Below(H), d \in Below(D) : t = h * D + d
        BY <1>4
      <4>2. r = Result(Cell(out, h * D + d), Term(f, vals[h * D + d]))
        BY <3>4, <4>1, Zenon
      <4>3. r = Makes(B, out, <<h, d>>, Term(f, vals[h * D + d]))
        BY <3>1, <4>2, Zenon
      <4> QED BY <4>3, Zenon DEF Listed2
    <3> QED BY <3>3, <3>4, Zenon
  <2> QED BY <2>1 DEF Filled
<1>6. \A t \in Below(H * D) : Cell(out, t) \in CellsIn(B)
  BY <1>2, <1>4
<1> QED BY <1>5, <1>6

-----------------------------------------------------------------------------
\* Kernels that gather.

\* What is assumed of the dimensions.
LEMMA DimsFacts ==
    ASSUME NEW c, Dims(c)
    PROVE  /\ c.hidden \in Nat \ {0} /\ c.q_heads \in Nat \ {0} /\ c.kv_heads \in Nat \ {0}
           /\ c.head_dim \in Nat \ {0} /\ c.vocab \in Nat \ {0} /\ c.context \in Nat \ {0}
           /\ c.layers \in Nat \ {0} /\ c.rows \in Nat \ {0} /\ c.cols \in Nat \ {0}
           /\ c.count \in Nat \ {0} /\ c.lanes \in Nat \ {0}
           /\ (c.head_dim % 2) = 0 /\ c.kv_heads <= c.q_heads
           /\ c.token \in Below(c.vocab) /\ c.layer \in Below(c.layers)
           /\ c.seq_len \in 1..c.context /\ c.token_index \in Below(c.seq_len)
BY DEF Dims

\* A kernel that gathers is sound if no thread loads the element of another.
LEMMA GatherSound ==
    ASSUME NEW B, NEW n \in Nat, NEW out \in DOMAIN B, B[out] = <<n>>, NEW cells, NEW f,
           \A t \in Below(n) : IsSeq(cells[t]) /\ CellSet(cells[t]) \subseteq CellsIn(B),
           \A t, u \in Below(n) : Cell(out, t) \in CellSet(cells[u]) => t = u
    PROVE  Sound(Gather(B, n, out, cells, f))
<1> DEFINE P == [tid \in Below(n) |-> Compute(<<>>, cells[tid], Cell(out, tid), f)]
           inputs(i) == [j \in 1..Len(cells[i]) |-> Initially(cells[i][j])]
           R == {[cell |-> Cell(out, i), value |-> Term(f, inputs(i))] : i \in Below(n)}
           to == [t \in Below(n) |-> Cell(out, t)]
<1>1. Gather(B, n, out, cells, f) = Guarded(B, n, P, R)
  BY DEF Gather
<1>2. \A t \in Below(n) : to[t] = Cell(out, t) /\ P[t] = Compute(<<>>, cells[t], Cell(out, t), f)
  OBVIOUS
<1>3. \A t \in Below(n) : Cell(out, t) \in CellsIn(B)
  <2>1. \A i \in Below(n) : Element(B, out, <<i>>, i)
    BY Element1
  <2> QED BY <2>1, Zenon DEF Element
<1>4. \A i \in Below(n) : inputs(i) = Before(cells[i])
  BY Zenon DEF Before
<1>5. OneResult(R, Below(n), cells, to, f)
  <2> HIDE DEF inputs, to
  <2>1. \A r : r \in R <=> \E i \in Below(n) : r = [cell |-> Cell(out, i), value |-> Term(f, inputs(i))]
    BY Zenon
  <2> HIDE DEF R
  <2>2. \A i \in Below(n) : Result(to[i], Term(f, Before(cells[i])))
                              = [cell |-> Cell(out, i), value |-> Term(f, inputs(i))]
    BY <1>2, <1>4, Zenon DEF Result
  <2> QED BY <2>1, <2>2 DEF OneResult
<1> HIDE DEF P, R, to
<1>6. OneStore(B, P, Below(n), cells, to, f)
  <2>1. \A t, u \in Below(n) : to[t] = to[u] => t = u
    BY <1>2, CellIs
  <2> QED BY <1>2, <1>3, <2>1 DEF OneStore
<1>7. Sound(Guarded(B, n, P, R))
  BY <1>5, <1>6, OneEachSound
<1> QED BY <1>1, <1>7

\* The cells of a vector.
LEMMA WholeFacts ==
    ASSUME NEW b, NEW n \in Nat
    PROVE  /\ IsSeq(Whole(b, n)) /\ Len(Whole(b, n)) = n
           /\ CellSet(Whole(b, n)) = {Cell(b, i) : i \in Below(n)}
<1> DEFINE e == [i \in 1..n |-> Cell(b, i - 1)]
           s == [i \in 1..n |-> e[i]]
<1>1. Whole(b, n) = e /\ s = e
  BY DEF Whole
<1>2. \A i \in 1..n : s[i] = Cell(b, i - 1)
  OBVIOUS
<1>3. IsSeq(s) /\ Len(s) = n
  <2> HIDE DEF e
  <2> QED BY TableIsSeq
<1> HIDE DEF e, s
<1>4. CellSet(s) = {Cell(b, i) : i \in Below(n)}
  <2>1. ASSUME NEW i \in Below(n) PROVE \E j \in 1..n : s[j] = Cell(b, i)
    <3>1. i + 1 \in 1..n /\ (i + 1) - 1 = i
      BY DEF Below
    <3> QED BY <1>2, <3>1
  <2>2. ASSUME NEW j \in 1..n PROVE \E i \in Below(n) : s[j] = Cell(b, i)
    <3>1. j - 1 \in Below(n)
      BY DEF Below
    <3> QED BY <1>2, <3>1
  <2> QED BY <1>3, <2>1, <2>2 DEF CellSet
<1> QED BY <1>1, <1>3, <1>4

-----------------------------------------------------------------------------
\* Norms, elementwise kernels, reductions.

\* Cells of a vector.
LEMMA VectorCell ==
    ASSUME NEW B, NEW b \in DOMAIN B, NEW n \in Nat, B[b] = <<n>>, NEW i \in Below(n)
    PROVE  Cell(b, i) \in CellsIn(B) /\ Cell(b, i)[1] = b
<1>1. Element(B, b, <<i>>, i)
  BY Element1
<1> QED BY <1>1 DEF Element, Cell

\* The norms a thread computes for itself are sound if out is no input that others
\* load.
LEMMA NormSound ==
    ASSUME NEW c, c.hidden \in Nat, NEW weights, IsSeq(weights), NEW out,
           out # "x", \A i \in 1..Len(weights) : weights[i] # out
    PROVE  Sound(Norm(c, weights, out))
<1> DEFINE h == c.hidden
           B == [b \in {"x", out} \cup ToSet(weights) |-> <<h>>]
           row(t) == [i \in 1..Len(weights) |-> Cell(weights[i], t)]
           cells == [tid \in Below(h) |-> Whole("x", h) \o <<Cell("x", tid)>> \o row(tid)]
<1>1. Norm(c, weights, out) = Gather(B, h, out, cells, "norm")
  BY Zenon DEF Norm
<1>2. PICK S : weights \in Seq(S)
  BY DEF IsSeq
<1>3. ToSet(weights) = {weights[i] : i \in 1..Len(weights)} /\ Len(weights) \in Nat
  BY <1>2 DEF ToSet
<1>4. /\ "x" \in DOMAIN B /\ out \in DOMAIN B /\ B["x"] = <<h>> /\ B[out] = <<h>>
      /\ \A i \in 1..Len(weights) : weights[i] \in DOMAIN B /\ B[weights[i]] = <<h>>
  BY <1>3
<1>5. \A t \in Below(h) : cells[t] = Whole("x", h) \o <<Cell("x", t)>> \o row(t)
  OBVIOUS
<1> HIDE DEF B, cells
<1>6. \A t \in Below(h) : /\ Cell("x", t) \in Other(B, out)
                          /\ \A i \in 1..Len(weights) : Cell(weights[i], t) \in Other(B, out)
  BY <1>4, VectorCell DEF Other
<1>7. ASSUME NEW t \in Below(h)
      PROVE  IsSeq(cells[t]) /\ CellSet(cells[t]) \subseteq Other(B, out)
  <2> DEFINE r == [i \in 1..Len(weights) |-> row(t)[i]]
  <2>1. row(t) = r /\ \A i \in 1..Len(weights) : r[i] = Cell(weights[i], t)
    OBVIOUS
  <2>2. IsSeq(r) /\ Len(r) = Len(weights)
    BY <1>3, TableIsSeq
  <2> HIDE DEF r
  <2>3. CellSet(r) \subseteq Other(B, out)
    BY <1>6, <2>1, <2>2 DEF CellSet
  <2>4. IsSeq(Whole("x", h)) /\ CellSet(Whole("x", h)) \subseteq Other(B, out)
    BY <1>6, WholeFacts
  <2>5. IsSeq(<<Cell("x", t)>>) /\ CellSet(<<Cell("x", t)>>) \subseteq Other(B, out)
    <3>1. \A y : IsSeq(<<y>>) /\ CellSet(<<y>>) = {y}
      BY CellSetSmall
    <3> QED BY <1>6, <3>1
  <2>6. /\ IsSeq(Whole("x", h) \o <<Cell("x", t)>>)
        /\ CellSet(Whole("x", h) \o <<Cell("x", t)>>) \subseteq Other(B, out)
    BY <2>4, <2>5, CellSetFacts
  <2>7. /\ IsSeq((Whole("x", h) \o <<Cell("x", t)>>) \o r)
        /\ CellSet((Whole("x", h) \o <<Cell("x", t)>>) \o r) \subseteq Other(B, out)
    BY <2>2, <2>3, <2>6, CellSetFacts
  <2> QED BY <1>5, <2>1, <2>7
<1>8. \A t, u \in Below(h) : Cell(out, t) \notin CellSet(cells[u])
  BY <1>7 DEF Other, Cell
<1>9. \A t \in Below(h) : IsSeq(cells[t]) /\ CellSet(cells[t]) \subseteq CellsIn(B)
  BY <1>7 DEF Other
<1>10. Sound(Gather(B, h, out, cells, "norm"))
  BY <1>4, <1>8, <1>9, GatherSound
<1> QED BY <1>1, <1>10

\* So is the norm that goes over its input twice.
LEMMA SequenceNormSound == ASSUME NEW c, c.hidden \in Nat PROVE Sound(sequence_norm(c))
<1> DEFINE h == c.hidden
           B == [x |-> <<h>>, y |-> <<h>>]
           cells == [tid \in Below(h) |-> Whole("x", h) \o Whole("x", h) \o <<Cell("x", tid)>>]
<1>1. sequence_norm(c) = Gather(B, h, "y", cells, "norm")
  BY Zenon DEF sequence_norm
<1>4. "x" \in DOMAIN B /\ "y" \in DOMAIN B /\ B["x"] = <<h>> /\ B["y"] = <<h>>
  OBVIOUS
<1>5. \A t \in Below(h) : cells[t] = Whole("x", h) \o Whole("x", h) \o <<Cell("x", t)>>
  OBVIOUS
<1> HIDE DEF B, cells
<1>6. \A t \in Below(h) : Cell("x", t) \in Other(B, "y")
  BY <1>4, VectorCell DEF Other
<1>7. ASSUME NEW t \in Below(h)
      PROVE  IsSeq(cells[t]) /\ CellSet(cells[t]) \subseteq Other(B, "y")
  <2>4. IsSeq(Whole("x", h)) /\ CellSet(Whole("x", h)) \subseteq Other(B, "y")
    BY <1>6, WholeFacts
  <2>5. IsSeq(<<Cell("x", t)>>) /\ CellSet(<<Cell("x", t)>>) \subseteq Other(B, "y")
    <3>1. \A y : IsSeq(<<y>>) /\ CellSet(<<y>>) = {y}
      BY CellSetSmall
    <3> QED BY <1>6, <3>1
  <2>6. /\ IsSeq(Whole("x", h) \o Whole("x", h))
        /\ CellSet(Whole("x", h) \o Whole("x", h)) \subseteq Other(B, "y")
    BY <2>4, CellSetFacts
  <2>7. /\ IsSeq((Whole("x", h) \o Whole("x", h)) \o <<Cell("x", t)>>)
        /\ CellSet((Whole("x", h) \o Whole("x", h)) \o <<Cell("x", t)>>) \subseteq Other(B, "y")
    BY <2>5, <2>6, CellSetFacts
  <2> QED BY <1>5, <2>7
<1>8. \A t, u \in Below(h) : Cell("y", t) \notin CellSet(cells[u])
  BY <1>7 DEF Other, Cell
<1>9. \A t \in Below(h) : IsSeq(cells[t]) /\ CellSet(cells[t]) \subseteq CellsIn(B)
  BY <1>7 DEF Other
<1>10. Sound(Gather(B, h, "y", cells, "norm"))
  BY <1>4, <1>8, <1>9, GatherSound
<1> QED BY <1>1, <1>10

\* A row of a table of elementwise kernels, <<f, buffers to load, buffer to store>>.
Row(c, row) ==
    LET cells == [tid \in Below(c.count) |->
                     [i \in 1..Len(row[2]) |-> Cell(row[2][i], tid)]]
    IN  Gather([b \in ToSet(row[2]) \cup {row[3]} |-> <<c.count>>],
               c.count, row[3], cells, row[1])

\* A kernel that works on each element alone is sound, also in place.
LEMMA ElementwiseSound ==
    ASSUME NEW c, c.count \in Nat, NEW row, IsSeq(row[2])
    PROVE  Sound(Row(c, row))
<1> DEFINE n == c.count
           ins == row[2]
           out == row[3]
           f == row[1]
           B == [b \in ToSet(ins) \cup {out} |-> <<n>>]
           cells == [tid \in Below(n) |-> [i \in 1..Len(ins) |-> Cell(ins[i], tid)]]
<1>1. Row(c, row) = Gather(B, n, out, cells, f)
  BY Zenon DEF Row
<1>2. PICK S : ins \in Seq(S)
  BY DEF IsSeq
<1>3. ToSet(ins) = {ins[i] : i \in 1..Len(ins)} /\ Len(ins) \in Nat
  BY <1>2 DEF ToSet
<1>4. /\ out \in DOMAIN B /\ B[out] = <<n>>
      /\ \A i \in 1..Len(ins) : ins[i] \in DOMAIN B /\ B[ins[i]] = <<n>>
  BY <1>3
<1>5. \A t \in Below(n) : cells[t] = [i \in 1..Len(ins) |-> Cell(ins[i], t)]
  OBVIOUS
<1> HIDE DEF B, cells, ins, out, f
<1>7. ASSUME NEW t \in Below(n)
      PROVE  /\ IsSeq(cells[t])
             /\ CellSet(cells[t]) = {Cell(ins[i], t) : i \in 1..Len(ins)}
  <2> DEFINE e == [i \in 1..Len(ins) |-> Cell(ins[i], t)]
             r == [i \in 1..Len(ins) |-> e[i]]
  <2>1. e = r /\ \A i \in 1..Len(ins) : r[i] = Cell(ins[i], t)
    OBVIOUS
  <2>2. IsSeq(r) /\ Len(r) = Len(ins)
    <3> HIDE DEF e
    <3> QED BY <1>3, TableIsSeq
  <2>3. cells[t] = r
    BY <1>5, <2>1
  <2> HIDE DEF r, e
  <2>4. CellSet(r) = {Cell(ins[i], t) : i \in 1..Len(ins)}
    BY <2>1, <2>2 DEF CellSet
  <2> QED BY <2>2, <2>3, <2>4
<1>8. \A t, u \in Below(n) : Cell(out, t) \in CellSet(cells[u]) => t = u
  <2>1. SUFFICES ASSUME NEW t \in Below(n), NEW u \in Below(n), Cell(out, t) \in CellSet(cells[u])
                 PROVE  t = u
    OBVIOUS
  <2>2. PICK i \in 1..Len(ins) : Cell(out, t) = Cell(ins[i], u)
    BY <1>7, <2>1
  <2> QED BY <2>2, CellIs
<1>9. \A t \in Below(n) : IsSeq(cells[t]) /\ CellSet(cells[t]) \subseteq CellsIn(B)
  <2>1. \A t \in Below(n) : \A i \in 1..Len(ins) : Cell(ins[i], t) \in CellsIn(B)
    BY <1>4, VectorCell
  <2>2. SUFFICES ASSUME NEW t \in Below(n)
                 PROVE  IsSeq(cells[t]) /\ CellSet(cells[t]) \subseteq CellsIn(B)
    OBVIOUS
  <2>3. IsSeq(cells[t]) /\ CellSet(cells[t]) = {Cell(ins[i], t) : i \in 1..Len(ins)}
    BY <1>7
  <2>4. {Cell(ins[i], t) : i \in 1..Len(ins)} \subseteq CellsIn(B)
    BY <2>1
  <2> QED BY <2>3, <2>4
<1>10. Sound(Gather(B, n, out, cells, f))
  BY <1>4, <1>8, <1>9, GatherSound
<1> QED BY <1>1, <1>10

\* cache_lookup stays within the caches, for every token of the sequence.
LEMMA CacheLookupSound ==
    ASSUME NEW c, Dims(c)
    PROVE  /\ Sound(CacheLookups(c).cache_lookup)
           /\ Sound(CacheLookups(c).cache_lookup_headed)
<1> DEFINE B == [k_cache |-> CacheDims(c), v_cache |-> CacheDims(c), out |-> <<kv_total(c)>>]
           at(b, tid) == Cell(b, c.token_index * kv_total(c) + tid)
           cells == [tid \in Below(kv_total(c)) |-> <<at("k_cache", tid), at("v_cache", tid)>>]
           n == kv_total(c)
           G == Gather(B, n, "out", cells, "add")
<1>1. CacheLookups(c).cache_lookup = G /\ CacheLookups(c).cache_lookup_headed = G
  BY DEF CacheLookups
<1>2. /\ c.kv_heads \in Nat \ {0} /\ c.head_dim \in Nat \ {0} /\ c.context \in Nat
      /\ c.token_index \in Below(c.context)
  BY DimsFacts DEF Below
<1>3. n = c.kv_heads * c.head_dim /\ n \in Nat
  BY <1>2 DEF kv_total
<1>4. /\ DOMAIN B = {"k_cache", "v_cache", "out"} /\ B["out"] = <<n>>
      /\ B["k_cache"] = <<c.context, c.kv_heads, c.head_dim>>
      /\ B["v_cache"] = <<c.context, c.kv_heads, c.head_dim>>
  BY DEF CacheDims
<1>5. \A t \in Below(n) : cells[t] = <<at("k_cache", t), at("v_cache", t)>>
  OBVIOUS
<1> HIDE DEF B, cells, at, n, G
<1>6. ASSUME NEW t \in Below(n), NEW b \in {"k_cache", "v_cache"}
      PROVE  at(b, t) \in CellsIn(B) /\ at(b, t)[1] = b
  <2>1. t \in Nat /\ t < c.kv_heads * c.head_dim /\ c.token_index < c.context
        /\ c.token_index \in Nat
    BY <1>2, <1>3 DEF Below
  <2>2. PICK m \in Nat : m = c.kv_heads * c.head_dim
    BY <1>2
  <2>3. c.token_index * m + t \in Below(c.context * m)
    BY <1>2, <1>3, <2>2, PlaceFacts
  <2>4. Size(B[b]) = (c.context * c.kv_heads) * c.head_dim
    <3>1. B[b] = <<c.context, c.kv_heads, c.head_dim>>
      BY <1>4
    <3>2. Size(<<c.context, c.kv_heads, c.head_dim>>) = (c.context * c.kv_heads) * c.head_dim
      BY <1>2, Size3
    <3> QED BY <3>1, <3>2
  <2>5. (c.context * c.kv_heads) * c.head_dim = c.context * m
    BY <1>2, <2>2
  <2>6. c.token_index * n + t \in Below(Size(B[b])) /\ b \in DOMAIN B
    BY <1>3, <1>4, <2>2, <2>3, <2>4, <2>5
  <2> QED BY <2>6, InCells DEF at, Cell, n
<1>7. ASSUME NEW t \in Below(n)
      PROVE  IsSeq(cells[t]) /\ CellSet(cells[t]) = {at("k_cache", t), at("v_cache", t)}
  <2>1. PICK x, y : x = at("k_cache", t) /\ y = at("v_cache", t)
    OBVIOUS
  <2>2. cells[t] = <<x, y>>
    BY <1>5, <2>1
  <2>3. IsSeq(<<x, y>>) /\ CellSet(<<x, y>>) = {x, y}
    BY CellSetSmall, Zenon
  <2> QED BY <2>1, <2>2, <2>3
<1>8. \A t, u \in Below(n) : Cell("out", t) \notin CellSet(cells[u])
  BY <1>6, <1>7 DEF Cell
<1>9. \A t \in Below(n) : IsSeq(cells[t]) /\ CellSet(cells[t]) \subseteq CellsIn(B)
  BY <1>6, <1>7
<1>10. Sound(Gather(B, n, "out", cells, "add"))
  BY <1>3, <1>4, <1>8, <1>9, GatherSound
<1> QED BY <1>1, <1>10 DEF G

\* The reductions, by every thread ...
LEMMA EachReducesSound ==
    ASSUME NEW c, c.count \in Nat, NEW f PROVE Sound(EachReduces(c, f))
<1> DEFINE n == c.count
           B == [x |-> <<n>>, out |-> <<n>>]
           cells == [tid \in Below(n) |-> Whole("x", n)]
<1>1. EachReduces(c, f) = Gather(B, n, "out", cells, f)
  BY Zenon DEF EachReduces
<1>4. "x" \in DOMAIN B /\ "out" \in DOMAIN B /\ B["x"] = <<n>> /\ B["out"] = <<n>>
  OBVIOUS
<1>5. \A t \in Below(n) : cells[t] = Whole("x", n)
  OBVIOUS
<1> HIDE DEF B, cells
<1>6. \A t \in Below(n) : Cell("x", t) \in Other(B, "out")
  BY <1>4, VectorCell DEF Other
<1>7. \A t \in Below(n) : IsSeq(cells[t]) /\ CellSet(cells[t]) \subseteq Other(B, "out")
  BY <1>5, <1>6, WholeFacts
<1>8. \A t, u \in Below(n) : Cell("out", t) \notin CellSet(cells[u])
  BY <1>7 DEF Other, Cell
<1>9. \A t \in Below(n) : IsSeq(cells[t]) /\ CellSet(cells[t]) \subseteq CellsIn(B)
  BY <1>7 DEF Other
<1>10. Sound(Gather(B, n, "out", cells, f))
  BY <1>4, <1>8, <1>9, GatherSound
<1> QED BY <1>1, <1>10

\* ... by the first one ...
LEMMA FirstReducesSound ==
    ASSUME NEW c, c.count \in Nat, NEW f PROVE Sound(FirstReduces(c, f))
<1> DEFINE n == c.count
           B == [x |-> <<n>>, out |-> <<1>>]
           cells == [tid \in Below(1) |-> Whole("x", n)]
<1>1. FirstReduces(c, f) = Gather(B, 1, "out", cells, f)
  BY Zenon DEF FirstReduces
<1>4. "x" \in DOMAIN B /\ "out" \in DOMAIN B /\ B["x"] = <<n>> /\ B["out"] = <<1>>
  OBVIOUS
<1>5. \A t \in Below(1) : cells[t] = Whole("x", n)
  OBVIOUS
<1> HIDE DEF B, cells
<1>6. \A t \in Below(n) : Cell("x", t) \in Other(B, "out")
  BY <1>4, VectorCell DEF Other
<1>7. \A t \in Below(1) : IsSeq(cells[t]) /\ CellSet(cells[t]) \subseteq Other(B, "out")
  BY <1>5, <1>6, WholeFacts
<1>8. \A t, u \in Below(1) : Cell("out", t) \notin CellSet(cells[u])
  BY <1>7 DEF Other, Cell
<1>9. \A t \in Below(1) : IsSeq(cells[t]) /\ CellSet(cells[t]) \subseteq CellsIn(B)
  BY <1>7 DEF Other
<1>10. Sound(Gather(B, 1, "out", cells, f))
  BY <1>4, <1>8, <1>9, GatherSound
<1> QED BY <1>1, <1>10

\* ... and of two vectors.
LEMMA DotProductSound == ASSUME NEW c, c.count \in Nat \ {0} PROVE Sound(dot_product(c))
<1> DEFINE n == c.count
           B == [a |-> <<n>>, b |-> <<n>>, out |-> <<1>>]
           v == Whole("a", n)
           w == Whole("b", n)
           s == [i \in 1..n |-> <<v[i], w[i]>>]
           t == [i \in 1..n |-> <<Initially(v[i]), Initially(w[i])>>]
           cells == [tid \in Below(1) |-> FlattenSeq(s)]
<1>1. dot_product(c) = Gather(B, 1, "out", cells, "dot")
  BY Zenon DEF dot_product
<1>4. /\ {"a", "b", "out"} = DOMAIN B
      /\ B["a"] = <<n>> /\ B["b"] = <<n>> /\ B["out"] = <<1>>
  OBVIOUS
<1>5. \A tid \in Below(1) : cells[tid] = FlattenSeq(s)
  OBVIOUS
<1>2. \A i \in 1..n : v[i] = Cell("a", i - 1) /\ w[i] = Cell("b", i - 1) /\ i - 1 \in Below(n)
  BY DEF Whole, Below
<1> HIDE DEF B, cells, v, w
<1>3. /\ PairValues(s, t, n)
      /\ \A i \in 1..n : s[i][1] = v[i] /\ s[i][2] = w[i]
  BY DEF PairValues, Pairs
<1>12. n \in Nat \ {0}
  OBVIOUS
<1> HIDE DEF s, t, n
<1>6. \A i \in Below(n) : Cell("a", i) \in Other(B, "out") /\ Cell("b", i) \in Other(B, "out")
  BY <1>4, <1>12, VectorCell DEF Other
<1>11. IsSeq(FlattenSeq(s)) /\ CellSet(FlattenSeq(s)) \subseteq Other(B, "out")
  <2>1. /\ IsSeq(FlattenSeq(s))
        /\ CellSet(FlattenSeq(s)) = {s[i][1] : i \in 1..n} \cup {s[i][2] : i \in 1..n}
    BY <1>3, PairsBefore
  <2> QED BY <1>2, <1>3, <1>6, <2>1
<1>7. \A tid \in Below(1) : IsSeq(cells[tid]) /\ CellSet(cells[tid]) \subseteq Other(B, "out")
  BY <1>5, <1>11
<1>8. \A tid, u \in Below(1) : Cell("out", tid) \notin CellSet(cells[u])
  BY <1>7 DEF Other, Cell
<1>9. \A tid \in Below(1) : IsSeq(cells[tid]) /\ CellSet(cells[tid]) \subseteq CellsIn(B)
  BY <1>7 DEF Other
<1>10. Sound(Gather(B, 1, "out", cells, "dot"))
  BY <1>4, <1>8, <1>9, GatherSound
<1> QED BY <1>1, <1>10

-----------------------------------------------------------------------------
\* Embeddings, attention scores and values.

\* What an element is, for the cells a thread reads.
LEMMA ReadElement ==
    ASSUME NEW B, NEW b, NEW x, NEW i, NEW out, b # out, Element(B, b, x, i)
    PROVE  Cell(b, i) \in Other(B, out) /\ Initially(Cell(b, i)) = In(B, b, x)
BY DEF Element, Other, Cell

\* embedding loads the row of the token from the table.
LEMMA EmbeddingSound ==
    ASSUME NEW c, Dims(c)
    PROVE  Sound(Embeddings(c).embedding) /\ Sound(Embeddings(c).embedding_batch)
<1> DEFINE B == [table |-> <<c.vocab, c.hidden>>, token |-> <<1>>, out |-> <<c.hidden>>]
           cells == [tid \in Below(c.hidden) |->
                        <<Cell("token", 0), Cell("table", c.token * c.hidden + tid)>>]
           vals == [tid \in Below(c.hidden) |->
                        <<In(B, "token", <<0>>), In(B, "table", <<c.token, tid>>)>>]
           P == [tid \in Below(c.hidden) |-> Compute(<<>>,
                    <<Cell("token", 0), Cell("table", c.token * c.hidden + tid)>>,
                    Cell("out", tid), "copy")]
           R == {Makes(B, "out", <<i>>, Term("copy",
                        <<In(B, "token", <<0>>), In(B, "table", <<c.token, i>>)>>))
                      : i \in Below(c.hidden)}
           k == Guarded(B, c.hidden, P, R)
<1>1. Embeddings(c).embedding = k /\ Embeddings(c).embedding_batch = k
  BY DEF Embeddings
<1>2. /\ c.vocab \in Nat \ {0} /\ c.hidden \in Nat \ {0} /\ c.token \in Below(c.vocab)
      /\ 0 \in Below(1)
  BY DimsFacts DEF Below
<1>3. /\ DOMAIN B = {"table", "token", "out"} /\ B["table"] = <<c.vocab, c.hidden>>
      /\ B["token"] = <<1>> /\ B["out"] = <<c.hidden>>
  OBVIOUS
<1>4. \A t \in Below(c.hidden) :
        /\ P[t] = Compute(<<>>, cells[t], Cell("out", t), "copy")
        /\ cells[t] = <<Cell("token", 0), Cell("table", c.token * c.hidden + t)>>
        /\ vals[t] = <<In(B, "token", <<0>>), In(B, "table", <<c.token, t>>)>>
  OBVIOUS
<1>5. Listed1(R, B, "out", c.hidden, "copy", vals)
  BY Zenon DEF Listed1
<1> HIDE DEF k, B, cells, vals, P, R
<1>6. Element(B, "token", <<0>>, 0)
  BY <1>2, <1>3, Element1
<1>7. ASSUME NEW t \in Below(c.hidden) PROVE Reads(cells[t], vals[t], Other(B, "out"))
  <2>1. Element(B, "table", <<c.token, t>>, c.token * c.hidden + t)
    BY <1>2, <1>3, Element2
  <2>2. PICK x, y : x = Cell("token", 0) /\ y = Cell("table", c.token * c.hidden + t)
    OBVIOUS
  <2>3. /\ x \in Other(B, "out") /\ Initially(x) = In(B, "token", <<0>>)
        /\ y \in Other(B, "out") /\ Initially(y) = In(B, "table", <<c.token, t>>)
    BY <1>6, <2>1, <2>2, ReadElement
  <2>4. Reads(<<x, y>>, <<Initially(x), Initially(y)>>, Other(B, "out"))
    BY <2>3, ReadsTwo
  <2> QED BY <1>4, <2>2, <2>3, <2>4
<1>8. /\ Filled(R, c.hidden, "out", "copy", vals)
      /\ \A t \in Below(c.hidden) : Cell("out", t) \in CellsIn(B)
  BY <1>2, <1>3, <1>5, Filled1
<1>9. Fills(B, P, c.hidden, "out", "copy", cells, vals)
  BY <1>4, <1>7, <1>8 DEF Fills
<1>10. Sound(Guarded(B, c.hidden, P, R))
  BY <1>2, <1>8, <1>9, FillsSound
<1> QED BY <1>1, <1>10 DEF k

\* The reductions of rows have no guard and need none on a grid of as many threads.
LEMMA ReduceRowSound == ASSUME NEW c, Dims(c), NEW f PROVE Sound(ReduceRow(c, f))
<1> DEFINE n == c.rows
           k == c.cols
           B == [x |-> <<c.rows, c.cols>>, out |-> <<c.rows>>]
           cell(row) == [i \in 1..c.cols |-> Cell("x", row * c.cols + i - 1)]
           val(row) == [i \in 1..c.cols |-> In(B, "x", <<row, i - 1>>)]
           cells == [row \in Below(c.rows) |-> cell(row)]
           vals == [row \in Below(c.rows) |-> val(row)]
           P == [row \in Below(c.rows) |-> Compute(<<>>,
                    [i \in 1..c.cols |-> Cell("x", row * c.cols + i - 1)], Cell("out", row), f)]
           R == {Makes(B, "out", <<r>>, Term(f, [i \in 1..c.cols |-> In(B, "x", <<r, i - 1>>)]))
                  : r \in Below(c.rows)}
<1>1. ReduceRow(c, f) = Kernel(B, P, R)
  BY Zenon DEF ReduceRow
<1>2. c.rows \in Nat \ {0} /\ c.cols \in Nat \ {0}
  BY DimsFacts
<1>3. DOMAIN B = {"x", "out"} /\ B["x"] = <<c.rows, c.cols>> /\ B["out"] = <<c.rows>>
  OBVIOUS
<1>4. \A t \in Below(c.rows) : /\ P[t] = Compute(<<>>, cells[t], Cell("out", t), f)
                               /\ cells[t] = cell(t) /\ vals[t] = val(t)
  OBVIOUS
<1>5. Listed1(R, B, "out", c.rows, f, vals)
  BY Zenon DEF Listed1
<1>11. DOMAIN P = Below(c.rows)
  OBVIOUS
<1> HIDE DEF B, cells, vals, P, R
<1>7. ASSUME NEW t \in Below(c.rows) PROVE Reads(cells[t], vals[t], Other(B, "out"))
  <2> DEFINE e == cell(t)
             v == val(t)
  <2>1. ASSUME NEW i \in 1..c.cols PROVE e[i] \in Other(B, "out") /\ v[i] = Initially(e[i])
    <3>1. i - 1 \in Below(c.cols) /\ t * c.cols + i - 1 = t * c.cols + (i - 1)
      BY <1>2 DEF Below
    <3>2. Element(B, "x", <<t, i - 1>>, t * c.cols + (i - 1))
      BY <1>2, <1>3, <3>1, Element2
    <3>3. e[i] = Cell("x", t * c.cols + (i - 1)) /\ v[i] = In(B, "x", <<t, i - 1>>)
      BY <3>1
    <3> HIDE DEF e, v
    <3> QED BY <3>2, <3>3, ReadElement
  <2>2. cell(t) = [i \in 1..c.cols |-> e[i]] /\ val(t) = [i \in 1..c.cols |-> v[i]]
    OBVIOUS
  <2> HIDE DEF e, v
  <2>3. Reads([i \in 1..c.cols |-> e[i]], [i \in 1..c.cols |-> v[i]], Other(B, "out"))
    BY <1>2, <2>1, ReadsTable
  <2> QED BY <1>4, <2>2, <2>3
<1> HIDE DEF cell, val
<1>8. /\ Filled(R, c.rows, "out", f, vals)
      /\ \A t \in Below(c.rows) : Cell("out", t) \in CellsIn(B)
  BY <1>2, <1>3, <1>5, Filled1
<1>9. Fills(B, P, c.rows, "out", f, cells, vals)
  BY <1>4, <1>7, <1>8 DEF Fills
<1>10. Sound(Kernel(B, P, R))
  BY <1>2, <1>8, <1>9, <1>11, FillsSoundExactly
<1> QED BY <1>1, <1>10

\* Head h of the queries shares key head h % kv_heads.
LEMMA SharedHead ==
    ASSUME NEW m \in Nat \ {0}, NEW h \in Nat PROVE (h % m) \in Below(m)
BY DEF Below

\* attention_scores multiplies each query head with the shared key head, for every
\* cached token.
LEMMA ScoresSound == ASSUME NEW c, Dims(c) PROVE Sound(Scores(c))
<1> DEFINE D == c.head_dim
           H == c.q_heads
           L == c.seq_len
           K == c.kv_heads
           B == [q |-> <<c.q_heads, c.head_dim>>, k_cache |-> CacheDims(c),
                 scores |-> <<c.q_heads, c.seq_len>>]
           dot(h, t) == FlattenSeq([i \in 1..c.head_dim |->
                        <<In(B, "q", <<h, i - 1>>),
                          In(B, "k_cache", <<t, h % c.kv_heads, i - 1>>)>>])
           cells == [tid \in Below(H * L) |-> scores_cells(c, tid)]
           vals == [tid \in Below(H * L) |-> dot(tid \div L, tid % L)]
           P == [tid \in Below(c.q_heads * c.seq_len) |->
                       Compute(<<>>, scores_cells(c, tid), Cell("scores", tid), "dot")]
           R == {Makes(B, "scores", <<h, t>>, Term("dot", dot(h, t)))
                   : h \in QHeads(c), t \in TokensBefore(c)}
<1>1. Scores(c) = Guarded(B, H * L, P, R)
  BY DEF Scores
<1>2. /\ D \in Nat \ {0} /\ H \in Nat \ {0} /\ K \in Nat \ {0} /\ c.context \in Nat
      /\ L \in Nat \ {0} /\ \A t \in Below(L) : t \in Below(c.context)
  BY DimsFacts DEF Below
<1>3. /\ DOMAIN B = {"q", "k_cache", "scores"} /\ B["q"] = <<H, D>>
      /\ B["k_cache"] = <<c.context, K, D>> /\ B["scores"] = <<H, L>>
  BY DEF CacheDims
<1>4. \A t \in Below(H * L) : /\ P[t] = Compute(<<>>, cells[t], Cell("scores", t), "dot")
                              /\ cells[t] = scores_cells(c, t)
                              /\ vals[t] = dot(t \div L, t % L)
  OBVIOUS
<1>5. \A r : r \in R <=> \E h \in Below(H), t \in Below(L) :
                            r = Makes(B, "scores", <<h, t>>, Term("dot", dot(h, t)))
  BY DEF QHeads, TokensBefore
<1>6. \A t : scores_cells(c, t) = FlattenSeq([i \in 1..D |->
         <<Cell("q", (t \div L) * D + i - 1),
           Cell("k_cache", kv_offset(c, t % L, (t \div L) % K) + i - 1)>>])
  BY Zenon DEF scores_cells
<1> HIDE DEF B, cells, vals, P, R
<1>7. ASSUME NEW t \in Below(H * L) PROVE Reads(cells[t], vals[t], Other(B, "scores"))
  <2>1. t \div L \in Below(H) /\ (t % L) \in Below(L)
    BY <1>2, PlaceSplits
  <2>2. PICK h \in Below(H) : h = t \div L
    BY <2>1
  <2>3. PICK u \in Below(L) : u = t % L
    BY <2>1
  <2>4. PICK g \in Below(K) : g = (h % K)
    <3>1. h \in Nat
      BY DEF Below
    <3>2. (h % K) \in Below(K)
      BY <1>2, <3>1, SharedHead
    <3> QED BY <3>2
  <2> DEFINE s == [i \in 1..D |-> <<Cell("q", h * D + i - 1), Cell("k_cache", kv_offset(c, u, g) + i - 1)>>]
             v == [i \in 1..D |-> <<In(B, "q", <<h, i - 1>>), In(B, "k_cache", <<u, g, i - 1>>)>>]
  <2>5. cells[t] = FlattenSeq(s) /\ vals[t] = FlattenSeq(v)
    <3>1. cells[t] = FlattenSeq(s)
      BY <1>4, <1>6, <2>2, <2>3, <2>4, Zenon
    <3>2. vals[t] = FlattenSeq(v)
      BY <1>4, <2>2, <2>3, <2>4, Zenon
    <3> QED BY <3>1, <3>2
  <2>6. ASSUME NEW i \in 1..D
        PROVE  /\ Cell("q", h * D + i - 1) \in Other(B, "scores")
               /\ Initially(Cell("q", h * D + i - 1)) = In(B, "q", <<h, i - 1>>)
               /\ Cell("k_cache", kv_offset(c, u, g) + i - 1) \in Other(B, "scores")
               /\ Initially(Cell("k_cache", kv_offset(c, u, g) + i - 1))
                     = In(B, "k_cache", <<u, g, i - 1>>)
    <3>1. i - 1 \in Below(D) /\ h * D + i - 1 = h * D + (i - 1)
      BY <1>2 DEF Below
    <3>2. Element(B, "q", <<h, i - 1>>, h * D + i - 1)
      BY <1>2, <1>3, <3>1, Element2
    <3>3. kv_offset(c, u, g) + i - 1 = (u * K + g) * D + (i - 1)
      BY <1>2 DEF kv_offset, Below
    <3>4. Element(B, "k_cache", <<u, g, i - 1>>, kv_offset(c, u, g) + i - 1)
      BY <1>2, <1>3, <3>1, <3>3, Element3
    <3> QED BY <3>2, <3>4, ReadElement
  <2>7. /\ Len(s) = D /\ Len(v) = D
        /\ \A i \in 1..D : /\ s[i] = <<Cell("q", h * D + i - 1), Cell("k_cache", kv_offset(c, u, g) + i - 1)>>
                           /\ v[i] = <<In(B, "q", <<h, i - 1>>), In(B, "k_cache", <<u, g, i - 1>>)>>
    BY <1>2
  <2> HIDE DEF s, v
  <2>8. PairTable(s, v, Other(B, "scores"), D)
    BY <1>2, <2>6, <2>7 DEF PairTable
  <2> QED BY <2>5, <2>8, ReadsPairTable
<1> HIDE DEF dot
<1>12. \A h \in Below(H), t \in Below(L) : vals[h * L + t] = dot(h, t)
  <2>1. SUFFICES ASSUME NEW h \in Below(H), NEW t \in Below(L)
                 PROVE  vals[h * L + t] = dot(h, t)
    BY Zenon
  <2>2. PICK x : x = h * L + t
    OBVIOUS
  <2>3. x \in Below(H * L) /\ x \div L = h /\ (x % L) = t
    BY <1>2, <2>2, PlaceFacts
  <2>4. vals[x] = dot(x \div L, x % L)
    BY <1>4, <2>3
  <2> QED BY <2>2, <2>3, <2>4, Zenon
<1>8. /\ Filled(R, H * L, "scores", "dot", vals)
      /\ \A t \in Below(H * L) : Cell("scores", t) \in CellsIn(B)
  <2>1. Listed2(R, B, "scores", H, L, "dot", vals)
    <3>1. ASSUME NEW h \in Below(H), NEW t \in Below(L)
          PROVE  Makes(B, "scores", <<h, t>>, Term("dot", vals[h * L + t]))
                    = Makes(B, "scores", <<h, t>>, Term("dot", dot(h, t)))
      BY <1>12
    <3> QED BY <1>5, <3>1 DEF Listed2
  <2> QED BY <1>2, <1>3, <2>1, Filled2
<1>9. Fills(B, P, H * L, "scores", "dot", cells, vals)
  BY <1>4, <1>7, <1>8 DEF Fills
<1>10. Sound(Guarded(B, H * L, P, R))
  <2>1. H * L \in Nat
    BY <1>2
  <2> QED BY <1>8, <1>9, <2>1, FillsSound
<1> QED BY <1>1, <1>10

\* The same against the keys of one token.
LEMMA HeadScoresSound ==
    ASSUME NEW c, Dims(c), NEW tokens \in Nat \ {0} PROVE Sound(HeadScores(c, tokens))
<1> DEFINE D == c.head_dim
           H == c.q_heads
           K == c.kv_heads
           B == [q |-> <<c.q_heads, D>>, k |-> <<c.kv_heads, D>>, out |-> <<c.q_heads, tokens>>]
           cell(tid) == LET head == tid \div tokens IN FlattenSeq([i \in 1..D |->
            <<Cell("q", head * D + i - 1), Cell("k", (head % c.kv_heads) * D + i - 1)>>])
           dot(h) == FlattenSeq([i \in 1..D |->
                     <<In(B, "q", <<h, i - 1>>), In(B, "k", <<h % c.kv_heads, i - 1>>)>>])
           cells == [tid \in Below(H * tokens) |-> cell(tid)]
           vals == [tid \in Below(H * tokens) |-> dot(tid \div tokens)]
           P == [tid \in Below(c.q_heads * tokens) |->
                       Compute(<<>>, cell(tid), Cell("out", tid), "dot")]
           R == {Makes(B, "out", <<h, t>>, Term("dot", dot(h)))
                   : h \in QHeads(c), t \in Below(tokens)}
<1>1. HeadScores(c, tokens) = Guarded(B, H * tokens, P, R)
  BY DEF HeadScores
<1>2. D \in Nat \ {0} /\ H \in Nat \ {0} /\ K \in Nat \ {0}
  BY DimsFacts
<1>3. /\ DOMAIN B = {"q", "k", "out"} /\ B["q"] = <<H, D>>
      /\ B["k"] = <<K, D>> /\ B["out"] = <<H, tokens>>
  OBVIOUS
<1>4. \A t \in Below(H * tokens) : /\ P[t] = Compute(<<>>, cells[t], Cell("out", t), "dot")
                                   /\ cells[t] = cell(t)
                                   /\ vals[t] = dot(t \div tokens)
  OBVIOUS
<1>5. \A r : r \in R <=> \E h \in Below(H), t \in Below(tokens) :
                            r = Makes(B, "out", <<h, t>>, Term("dot", dot(h)))
  BY DEF QHeads
<1> HIDE DEF B, cells, vals, P, R
<1>7. ASSUME NEW t \in Below(H * tokens) PROVE Reads(cells[t], vals[t], Other(B, "out"))
  <2>1. t \div tokens \in Below(H)
    BY <1>2, PlaceSplits
  <2>2. PICK h \in Below(H) : h = t \div tokens
    BY <2>1
  <2>4. PICK g \in Below(K) : g = (h % K)
    <3>1. h \in Nat
      BY DEF Below
    <3>2. (h % K) \in Below(K)
      BY <1>2, <3>1, SharedHead
    <3> QED BY <3>2
  <2> DEFINE s == [i \in 1..D |-> <<Cell("q", h * D + i - 1), Cell("k", g * D + i - 1)>>]
             v == [i \in 1..D |-> <<In(B, "q", <<h, i - 1>>), In(B, "k", <<g, i - 1>>)>>]
  <2>5. cells[t] = FlattenSeq(s) /\ vals[t] = FlattenSeq(v)
    <3>1. cells[t] = FlattenSeq(s)
      BY <1>4, <2>2, <2>4, Zenon
    <3>2. vals[t] = FlattenSeq(v)
      BY <1>4, <2>2, <2>4, Zenon
    <3> QED BY <3>1, <3>2
  <2>6. ASSUME NEW i \in 1..D
        PROVE  /\ Cell("q", h * D + i - 1) \in Other(B, "out")
               /\ Initially(Cell("q", h * D + i - 1)) = In(B, "q", <<h, i - 1>>)
               /\ Cell("k", g * D + i - 1) \in Other(B, "out")
               /\ Initially(Cell("k", g * D + i - 1)) = In(B, "k", <<g, i - 1>>)
    <3>1. i - 1 \in Below(D) /\ h * D + i - 1 = h * D + (i - 1) /\ g * D + i - 1 = g * D + (i - 1)
      BY <1>2 DEF Below
    <3>2. Element(B, "q", <<h, i - 1>>, h * D + i - 1)
      BY <1>2, <1>3, <3>1, Element2
    <3>4. Element(B, "k", <<g, i - 1>>, g * D + i - 1)
      BY <1>2, <1>3, <3>1, Element2
    <3> QED BY <3>2, <3>4, ReadElement
  <2>7. /\ Len(s) = D /\ Len(v) = D
        /\ \A i \in 1..D : /\ s[i] = <<Cell("q", h * D + i - 1), Cell("k", g * D + i - 1)>>
                           /\ v[i] = <<In(B, "q", <<h, i - 1>>), In(B, "k", <<g, i - 1>>)>>
    BY <1>2
  <2> HIDE DEF s, v
  <2>8. PairTable(s, v, Other(B, "out"), D)
    BY <1>2, <2>6, <2>7 DEF PairTable
  <2> QED BY <2>5, <2>8, ReadsPairTable
<1> HIDE DEF dot, cell
<1>12. \A h \in Below(H), t \in Below(tokens) : vals[h * tokens + t] = dot(h)
  <2>1. SUFFICES ASSUME NEW h \in Below(H), NEW t \in Below(tokens)
                 PROVE  vals[h * tokens + t] = dot(h)
    BY Zenon
  <2>2. PICK x : x = h * tokens + t
    OBVIOUS
  <2>3. x \in Below(H * tokens) /\ x \div tokens = h
    BY <1>2, <2>2, PlaceFacts
  <2>4. vals[x] = dot(x \div tokens)
    BY <1>4, <2>3
  <2> QED BY <2>2, <2>3, <2>4, Zenon
<1>8. /\ Filled(R, H * tokens, "out", "dot", vals)
      /\ \A t \in Below(H * tokens) : Cell("out", t) \in CellsIn(B)
  <2>1. Listed2(R, B, "out", H, tokens, "dot", vals)
    <3>1. ASSUME NEW h \in Below(H), NEW t \in Below(tokens)
          PROVE  Makes(B, "out", <<h, t>>, Term("dot", vals[h * tokens + t]))
                    = Makes(B, "out", <<h, t>>, Term("dot", dot(h)))
      BY <1>12
    <3> QED BY <1>5, <3>1 DEF Listed2
  <2> QED BY <1>2, <1>3, <2>1, Filled2
<1>9. Fills(B, P, H * tokens, "out", "dot", cells, vals)
  BY <1>4, <1>7, <1>8 DEF Fills
<1>10. Sound(Guarded(B, H * tokens, P, R))
  <2>1. H * tokens \in Nat
    BY <1>2
  <2> QED BY <1>8, <1>9, <2>1, FillsSound
<1> QED BY <1>1, <1>10

\* attention_value sums over the first n tokens in the cache.
LEMMA ValuesSound ==
    ASSUME NEW c, Dims(c), NEW n \in 1..c.seq_len PROVE Sound(Values(c, n))
<1> DEFINE D == c.head_dim
           H == c.q_heads
           L == c.seq_len
           K == c.kv_heads
           B == [scores |-> <<c.q_heads, c.seq_len>>, v_cache |-> CacheDims(c),
                 out |-> <<c.q_heads, D>>]
           weighted(head, dim) == FlattenSeq([t \in 1..n |->
            <<Cell("scores", head * c.seq_len + t - 1),
              Cell("v_cache", kv_offset(c, t - 1, head % c.kv_heads) + dim)>>])
           sum(h, d) == FlattenSeq([t \in 1..n |->
                        <<In(B, "scores", <<h, t - 1>>),
                          In(B, "v_cache", <<t - 1, h % c.kv_heads, d>>)>>])
           cells == [tid \in Below(H * D) |-> weighted(tid \div D, tid % D)]
           vals == [tid \in Below(H * D) |-> sum(tid \div D, tid % D)]
           P == [tid \in Below(q_total(c)) |->
                       Compute(<<>>, weighted(tid \div D, tid % D), Cell("out", tid), "sum")]
           R == {Makes(B, "out", <<h, d>>, Term("sum", sum(h, d))) : h \in QHeads(c), d \in Below(D)}
<1>1. Values(c, n) = Guarded(B, q_total(c), P, R) /\ q_total(c) = H * D
  BY DEF Values, q_total
<1>2. /\ D \in Nat \ {0} /\ H \in Nat \ {0} /\ K \in Nat \ {0} /\ c.context \in Nat
      /\ L \in Nat \ {0} /\ \A t \in 1..n : t - 1 \in Below(L) /\ t - 1 \in Below(c.context)
      /\ n \in Nat \ {0}
  BY DimsFacts DEF Below
<1>3. /\ DOMAIN B = {"scores", "v_cache", "out"} /\ B["scores"] = <<H, L>>
      /\ B["v_cache"] = <<c.context, K, D>> /\ B["out"] = <<H, D>>
  BY DEF CacheDims
<1>4. \A t \in Below(H * D) : /\ P[t] = Compute(<<>>, cells[t], Cell("out", t), "sum")
                              /\ cells[t] = weighted(t \div D, t % D)
                              /\ vals[t] = sum(t \div D, t % D)
  BY <1>1
<1>5. \A r : r \in R <=> \E h \in Below(H), d \in Below(D) :
                            r = Makes(B, "out", <<h, d>>, Term("sum", sum(h, d)))
  BY DEF QHeads
<1> HIDE DEF B, cells, vals, P, R
<1>7. ASSUME NEW t \in Below(H * D) PROVE Reads(cells[t], vals[t], Other(B, "out"))
  <2>1. t \div D \in Below(H) /\ (t % D) \in Below(D)
    BY <1>2, PlaceSplits
  <2>2. PICK h \in Below(H) : h = t \div D
    BY <2>1
  <2>3. PICK d \in Below(D) : d = t % D
    BY <2>1
  <2>4. PICK g \in Below(K) : g = (h % K)
    <3>1. h \in Nat
      BY DEF Below
    <3>2. (h % K) \in Below(K)
      BY <1>2, <3>1, SharedHead
    <3> QED BY <3>2
  <2> DEFINE s == [i \in 1..n |-> <<Cell("scores", h * L + i - 1), Cell("v_cache", kv_offset(c, i - 1, g) + d)>>]
             v == [i \in 1..n |-> <<In(B, "scores", <<h, i - 1>>), In(B, "v_cache", <<i - 1, g, d>>)>>]
  <2>5. cells[t] = FlattenSeq(s) /\ vals[t] = FlattenSeq(v)
    <3>1. cells[t] = FlattenSeq(s)
      BY <1>4, <2>2, <2>3, <2>4, Zenon
    <3>2. vals[t] = FlattenSeq(v)
      BY <1>4, <2>2, <2>3, <2>4, Zenon
    <3> QED BY <3>1, <3>2
  <2>6. ASSUME NEW i \in 1..n
        PROVE  /\ Cell("scores", h * L + i - 1) \in Other(B, "out")
               /\ Initially(Cell("scores", h * L + i - 1)) = In(B, "scores", <<h, i - 1>>)
               /\ Cell("v_cache", kv_offset(c, i - 1, g) + d) \in Other(B, "out")
               /\ Initially(Cell("v_cache", kv_offset(c, i - 1, g) + d))
                     = In(B, "v_cache", <<i - 1, g, d>>)
    <3>1. i - 1 \in Below(L) /\ i - 1 \in Below(c.context) /\ h * L + i - 1 = h * L + (i - 1)
      BY <1>2 DEF Below
    <3>2. Element(B, "scores", <<h, i - 1>>, h * L + i - 1)
      BY <1>2, <1>3, <3>1, Element2
    <3>3. kv_offset(c, i - 1, g) + d = ((i - 1) * K + g) * D + d
      BY DEF kv_offset
    <3>4. Element(B, "v_cache", <<i - 1, g, d>>, kv_offset(c, i - 1, g) + d)
      BY <1>2, <1>3, <3>1, <3>3, Element3
    <3> QED BY <3>2, <3>4, ReadElement
  <2>7. /\ Len(s) = n /\ Len(v) = n
        /\ \A i \in 1..n : /\ s[i] = <<Cell("scores", h * L + i - 1), Cell("v_cache", kv_offset(c, i - 1, g) + d)>>
                           /\ v[i] = <<In(B, "scores", <<h, i - 1>>), In(B, "v_cache", <<i - 1, g, d>>)>>
    BY <1>2
  <2> HIDE DEF s, v
  <2>8. PairTable(s, v, Other(B, "out"), n)
    BY <1>2, <2>6, <2>7 DEF PairTable
  <2> QED BY <2>5, <2>8, ReadsPairTable
<1> HIDE DEF sum, weighted
<1>12. \A h \in Below(H), d \in Below(D) : vals[h * D + d] = sum(h, d)
  <2>1. SUFFICES ASSUME NEW h \in Below(H), NEW d \in Below(D)
                 PROVE  vals[h * D + d] = sum(h, d)
    BY Zenon
  <2>2. PICK x : x = h * D + d
    OBVIOUS
  <2>3. x \in Below(H * D) /\ x \div D = h /\ (x % D) = d
    BY <1>2, <2>2, PlaceFacts
  <2>4. vals[x] = sum(x \div D, x % D)
    BY <1>4, <2>3
  <2> QED BY <2>2, <2>3, <2>4, Zenon
<1>8. /\ Filled(R, H * D, "out", "sum", vals)
      /\ \A t \in Below(H * D) : Cell("out", t) \in CellsIn(B)
  <2>1. Listed2(R, B, "out", H, D, "sum", vals)
    <3>1. ASSUME NEW h \in Below(H), NEW d \in Below(D)
          PROVE  Makes(B, "out", <<h, d>>, Term("sum", vals[h * D + d]))
                    = Makes(B, "out", <<h, d>>, Term("sum", sum(h, d)))
      BY <1>12
    <3> QED BY <1>5, <3>1 DEF Listed2
  <2> QED BY <1>2, <1>3, <2>1, Filled2
<1>9. Fills(B, P, H * D, "out", "sum", cells, vals)
  BY <1>4, <1>7, <1>8 DEF Fills
<1>10. Sound(Guarded(B, H * D, P, R))
  <2>1. H * D \in Nat
    BY <1>2
  <2> QED BY <1>8, <1>9, <2>1, FillsSound
<1> QED BY <1>1, <1>10

-----------------------------------------------------------------------------
\* Quantised products.

\* Packed or not, column col of row `row` is where a row-major matrix with rows as
\* long as the stride has it.
LEMMA PackedPlace ==
    ASSUME NEW row \in Nat, NEW cols \in Nat, NEW col \in Below(cols)
    PROVE  /\ packed_index(row, col, cols) = row * Stride(4, cols) + col
           /\ row * cols + col = row * Stride(8, cols) + col
           /\ \A bits \in {4, 8} : Stride(bits, cols) \in Nat /\ col \in Below(Stride(bits, cols))
<1>1. col \in Nat /\ col < cols
  BY DEF Below
<1>2. PICK p \in Nat : p = (cols + 1) \div 2
  OBVIOUS
<1>3. Stride(4, cols) = 2 * p
  BY <1>2 DEF Stride
<1>4. PICK q \in Nat : q = col \div 2
  BY <1>1
<1>5. 2 * q + (col % 2) = col
  BY <1>1, <1>4
<1>6. 2 * (row * p + q) = row * (2 * p) + 2 * q
  BY <1>2, <1>4
<1>7. packed_index(row, col, cols) = 2 * (row * p + q) + (col % 2)
  BY <1>2, <1>4, Zenon DEF packed_index
<1>8. packed_index(row, col, cols) = row * Stride(4, cols) + col
  <2>1. (col % 2) \in Nat /\ row * (2 * p) \in Nat
    BY <1>1, <1>2
  <2> QED BY <1>3, <1>4, <1>5, <1>6, <1>7, <2>1
<1>9. Stride(8, cols) = cols
  BY DEF Stride
<1>10. cols <= 2 * p
  BY <1>2
<1>11. \A bits \in {4, 8} : Stride(bits, cols) \in Nat /\ col \in Below(Stride(bits, cols))
  BY <1>1, <1>2, <1>3, <1>9, <1>10 DEF Below
<1> QED BY <1>8, <1>9, <1>11

\* What a thread loads for one row of a quantised matrix, and what it finds.
RowProduct(bits, weight, input, cols, row) ==
    LET at(col) == IF bits = 4 THEN packed_index(row, col, cols) ELSE row * cols + col
    IN  [i \in 1..cols |-> <<Cell(weight, at(i - 1)), Cell(input, i - 1)>>]
RowCells(bits, weight, scale, bias, input, cols, row) ==
    [i \in 1..Len(bias) |-> Cell(bias[i], row)] \o <<Cell(scale, row)>>
        \o FlattenSeq(RowProduct(bits, weight, input, cols, row))
RowFactors(B, weight, input, cols, row) ==
    [i \in 1..cols |-> <<In(B, weight, <<row, i - 1>>), In(B, input, <<i - 1>>)>>]
RowValues(B, weight, scale, bias, input, cols, row) ==
    [i \in 1..Len(bias) |-> In(B, bias[i], <<row>>)] \o <<In(B, scale, <<row>>)>>
        \o FlattenSeq(RowFactors(B, weight, input, cols, row))

\* A thread loads what RowCells lists ...
LEMMA MatvecRowIs ==
    ASSUME NEW steps, NEW bits, NEW weight, NEW scale, NEW bias, NEW input, NEW output,
           NEW cols, NEW row
    PROVE  MatvecRow(steps, bits, weight, scale, bias, input, output, cols, row)
             = Compute(steps, RowCells(bits, weight, scale, bias, input, cols, row),
                       Cell(output, row), "dot")
BY Zenon DEF MatvecRow, RowCells, RowProduct

\* ... and what it makes of it is the result.
LEMMA MatvecResultIs ==
    ASSUME NEW B, NEW weight, NEW scale, NEW bias, NEW input, NEW output, NEW cols, NEW row
    PROVE  MatvecResult(B, weight, scale, bias, input, output, cols, row)
             = Makes(B, output, <<row>>,
                     Term("dot", RowValues(B, weight, scale, bias, input, cols, row)))
BY Zenon DEF MatvecResult, RowValues, RowFactors

\* The buffers of a matrix; the cells of those that are read are in S.
MatrixBuffers(B, S, bits, weight, scale, bias, input, rows, cols) ==
    /\ IsSeq(bias) /\ rows \in Nat /\ cols \in Nat \ {0} /\ bits \in {4, 8}
    /\ {weight, scale, input} \subseteq DOMAIN B
    /\ B[weight] = <<rows, Stride(bits, cols)>>
    /\ B[scale] = <<rows>>
    /\ B[input] = <<cols>>
    /\ \A i \in 1..Len(bias) : bias[i] \in DOMAIN B /\ B[bias[i]] = <<rows>>
    /\ \A x \in CellsIn(B) :
          x[1] \in {weight, scale, input} \cup {bias[i] : i \in 1..Len(bias)} => x \in S

\* An element that may be read.
LEMMA ReadIn ==
    ASSUME NEW B, NEW b, NEW x, NEW i, NEW S, Element(B, b, x, i),
           \A y \in CellsIn(B) : y[1] = b => y \in S
    PROVE  Cell(b, i) \in S /\ In(B, b, x) = Initially(Cell(b, i))
BY DEF Element, Cell

\* Each row of the matrix, packed or not, is read where the dimensions have it.
LEMMA MatvecReads ==
    ASSUME NEW B, NEW S, NEW bits, NEW weight, NEW scale, NEW bias, NEW input, NEW rows, NEW cols,
           MatrixBuffers(B, S, bits, weight, scale, bias, input, rows, cols),
           NEW row \in Below(rows)
    PROVE  Reads(RowCells(bits, weight, scale, bias, input, cols, row),
                 RowValues(B, weight, scale, bias, input, cols, row), S)
<1>1. /\ IsSeq(bias) /\ rows \in Nat /\ cols \in Nat \ {0} /\ bits \in {4, 8}
      /\ weight \in DOMAIN B /\ scale \in DOMAIN B /\ input \in DOMAIN B
      /\ B[weight] = <<rows, Stride(bits, cols)>>
      /\ B[scale] = <<rows>>
      /\ B[input] = <<cols>>
      /\ \A i \in 1..Len(bias) : bias[i] \in DOMAIN B /\ B[bias[i]] = <<rows>>
  BY DEF MatrixBuffers
<1>2. /\ \A y \in CellsIn(B) : y[1] = weight => y \in S
      /\ \A y \in CellsIn(B) : y[1] = scale => y \in S
      /\ \A y \in CellsIn(B) : y[1] = input => y \in S
      /\ \A i \in 1..Len(bias) : \A y \in CellsIn(B) : y[1] = bias[i] => y \in S
  BY DEF MatrixBuffers
<1>3. Len(bias) \in Nat /\ row \in Nat
  BY <1>1, LenIsNat DEF Below
<1> DEFINE e == [i \in 1..Len(bias) |-> Cell(bias[i], row)]
           v == [i \in 1..Len(bias) |-> In(B, bias[i], <<row>>)]
           s == RowProduct(bits, weight, input, cols, row)
           w == RowFactors(B, weight, input, cols, row)
<1>4. Reads(e, v, S)
  <2>1. e = [i \in 1..Len(bias) |-> e[i]] /\ v = [i \in 1..Len(bias) |-> v[i]]
    OBVIOUS
  <2>2. ASSUME NEW i \in 1..Len(bias) PROVE e[i] \in S /\ v[i] = Initially(e[i])
    <3>1. Element(B, bias[i], <<row>>, row)
      BY <1>1, Element1
    <3>2. Cell(bias[i], row) \in S /\ In(B, bias[i], <<row>>) = Initially(Cell(bias[i], row))
      BY <1>2, <3>1, ReadIn
    <3> QED BY <3>2
  <2> HIDE DEF e, v
  <2>3. Reads([i \in 1..Len(bias) |-> e[i]], [i \in 1..Len(bias) |-> v[i]], S)
    BY <1>3, <2>2, ReadsTable
  <2> QED BY <2>1, <2>3
<1>5. Reads(<<Cell(scale, row)>>, <<In(B, scale, <<row>>)>>, S)
  <2>1. Element(B, scale, <<row>>, row)
    BY <1>1, Element1
  <2>2. PICK x : x = Cell(scale, row)
    OBVIOUS
  <2>3. x \in S /\ In(B, scale, <<row>>) = Initially(x)
    BY <1>2, <2>1, <2>2, ReadIn
  <2> QED BY <2>2, <2>3, ReadsOne
<1>6. ASSUME NEW i \in 1..cols
      PROVE  \E x, y \in S : /\ s[i] = <<x, y>>
                             /\ w[i] = <<Initially(x), Initially(y)>>
  <2> DEFINE at(col) == IF bits = 4 THEN packed_index(row, col, cols) ELSE row * cols + col
  <2>1. i - 1 \in Below(cols)
    BY <1>1 DEF Below
  <2>2. at(i - 1) = row * Stride(bits, cols) + (i - 1) /\ Stride(bits, cols) \in Nat
        /\ i - 1 \in Below(Stride(bits, cols))
    <3>1. PICK col \in Below(cols) : col = i - 1
      BY <2>1
    <3>2. /\ packed_index(row, col, cols) = row * Stride(4, cols) + col
          /\ row * cols + col = row * Stride(8, cols) + col
          /\ \A b \in {4, 8} : Stride(b, cols) \in Nat /\ col \in Below(Stride(b, cols))
      BY <1>1, <1>3, PackedPlace
    <3>3. bits = 4 \/ bits = 8
      BY <1>1
    <3>4. at(col) = row * Stride(bits, cols) + col
      BY <3>2, <3>3, Zenon
    <3>5. Stride(bits, cols) \in Nat /\ col \in Below(Stride(bits, cols))
      BY <1>1, <3>2
    <3> QED BY <3>1, <3>4, <3>5, Zenon
  <2>3. /\ s[i] = <<Cell(weight, at(i - 1)), Cell(input, i - 1)>>
        /\ w[i] = <<In(B, weight, <<row, i - 1>>), In(B, input, <<i - 1>>)>>
    BY DEF RowProduct, RowFactors
  <2> HIDE DEF at, s, w
  <2>4. Element(B, weight, <<row, i - 1>>, at(i - 1))
    BY <1>1, <2>1, <2>2, Element2
  <2>5. Element(B, input, <<i - 1>>, i - 1)
    BY <1>1, <2>1, Element1
  <2>6. /\ Cell(weight, at(i - 1)) \in S
        /\ In(B, weight, <<row, i - 1>>) = Initially(Cell(weight, at(i - 1)))
    BY <1>2, <2>4, ReadIn
  <2>7. Cell(input, i - 1) \in S /\ In(B, input, <<i - 1>>) = Initially(Cell(input, i - 1))
    BY <1>2, <2>5, ReadIn
  <2> QED BY <2>3, <2>6, <2>7
<1>7. Len(s) = cols /\ Len(w) = cols
  BY <1>1 DEF RowProduct, RowFactors
<1> HIDE DEF e, v, s, w
<1>8. Reads(FlattenSeq(s), FlattenSeq(w), S)
  <2>1. PairTable(s, w, S, cols)
    BY <1>1, <1>6, <1>7 DEF PairTable
  <2> QED BY <2>1, ReadsPairTable
<1>9. Reads(e \o <<Cell(scale, row)>>, v \o <<In(B, scale, <<row>>)>>, S)
  BY <1>4, <1>5, ReadsThen
<1>10. Reads((e \o <<Cell(scale, row)>>) \o FlattenSeq(s), (v \o <<In(B, scale, <<row>>)>>) \o FlattenSeq(w), S)
  BY <1>8, <1>9, ReadsThen
<1> QED BY <1>10, Zenon DEF RowCells, RowValues, e, v, s, w

\* The quantised products are sound: no nibble of another row is read, at odd lengths
\* neither.
LEMMA MatvecSound ==
    ASSUME NEW c, Dims(c), NEW bits \in {4, 8}, NEW bias, IsSeq(bias),
           \A i \in 1..Len(bias) : bias[i] = "bias"
    PROVE  Sound(Matvec(c, bits, bias))
<1> DEFINE B == [weight |-> <<c.rows, Stride(bits, c.cols)>>, scale |-> <<c.rows>>,
                 bias |-> <<c.rows>>, input |-> <<c.cols>>, output |-> <<c.rows>>]
           P == [row \in Below(c.rows) |->
                    MatvecRow(<<>>, bits, "weight", "scale", bias, "input", "output", c.cols, row)]
           R == {MatvecResult(B, "weight", "scale", bias, "input", "output", c.cols, row)
                    : row \in Below(c.rows)}
           cell(t) == RowCells(bits, "weight", "scale", bias, "input", c.cols, t)
           val(t) == RowValues(B, "weight", "scale", bias, "input", c.cols, t)
           cells == [t \in Below(c.rows) |-> cell(t)]
           vals == [t \in Below(c.rows) |-> val(t)]
           S == Other(B, "output")
<1>1. Matvec(c, bits, bias) = Guarded(B, c.rows, P, R)
  BY DEF Matvec
<1>2. c.rows \in Nat \ {0} /\ c.cols \in Nat \ {0}
  BY DimsFacts
<1>3. /\ DOMAIN B = {"weight", "scale", "bias", "input", "output"}
      /\ B["weight"] = <<c.rows, Stride(bits, c.cols)>> /\ B["scale"] = <<c.rows>>
      /\ B["bias"] = <<c.rows>> /\ B["input"] = <<c.cols>> /\ B["output"] = <<c.rows>>
  OBVIOUS
<1>4. \A t \in Below(c.rows) : /\ P[t] = Compute(<<>>, cells[t], Cell("output", t), "dot")
                               /\ cells[t] = cell(t) /\ vals[t] = val(t)
  <2>1. \A t \in Below(c.rows) : P[t] =
           MatvecRow(<<>>, bits, "weight", "scale", bias, "input", "output", c.cols, t)
    OBVIOUS
  <2>2. \A t \in Below(c.rows) : cells[t] = cell(t) /\ vals[t] = val(t)
    OBVIOUS
  <2> HIDE DEF P, cells, vals
  <2>3. ASSUME NEW t \in Below(c.rows)
        PROVE  P[t] = Compute(<<>>, cell(t), Cell("output", t), "dot")
    BY <2>1, MatvecRowIs, Zenon
  <2> HIDE DEF cell, val
  <2> QED BY <2>2, <2>3
<1>5. Listed1(R, B, "output", c.rows, "dot", vals)
  <2>1. ASSUME NEW t \in Below(c.rows)
        PROVE  MatvecResult(B, "weight", "scale", bias, "input", "output", c.cols, t)
                 = Makes(B, "output", <<t>>, Term("dot", vals[t]))
    <3>1. vals[t] = val(t)
      OBVIOUS
    <3> HIDE DEF B, vals
    <3> QED BY <3>1, MatvecResultIs
  <2> HIDE DEF vals, B
  <2> QED BY <2>1 DEF Listed1
<1> HIDE DEF B, P, R, cells, vals
<1>6. MatrixBuffers(B, S, bits, "weight", "scale", bias, "input", c.rows, c.cols)
  <2>1. \A x \in CellsIn(B) : x[1] \in {"weight", "scale", "input", "bias"} => x \in S
    BY DEF Other
  <2> HIDE DEF S
  <2>2. {bias[i] : i \in 1..Len(bias)} \subseteq {"bias"}
    OBVIOUS
  <2>3. \A x \in CellsIn(B) :
          x[1] \in {"weight", "scale", "input"} \cup {bias[i] : i \in 1..Len(bias)} => x \in S
    BY <2>1, <2>2
  <2>4. \A i \in 1..Len(bias) : bias[i] \in DOMAIN B /\ B[bias[i]] = <<c.rows>>
    BY <1>3
  <2> QED BY <1>2, <1>3, <2>3, <2>4 DEF MatrixBuffers
<1> HIDE DEF S
<1>7. ASSUME NEW t \in Below(c.rows) PROVE Reads(cells[t], vals[t], S)
  <2>1. Reads(cell(t), val(t), S)
    BY <1>6, MatvecReads
  <2> QED BY <1>4, <2>1
<1>8. /\ Filled(R, c.rows, "output", "dot", vals)
      /\ \A t \in Below(c.rows) : Cell("output", t) \in CellsIn(B)
  BY <1>2, <1>3, <1>5, Filled1
<1>9. Fills(B, P, c.rows, "output", "dot", cells, vals)
  <2>1. \A t \in Below(c.rows) : Reads(cells[t], vals[t], Other(B, "output"))
    BY <1>7 DEF S
  <2> QED BY <1>4, <2>1, <1>8 DEF Fills
<1>10. Sound(Guarded(B, c.rows, P, R))
  BY <1>2, <1>8, <1>9, FillsSound
<1> QED BY <1>1, <1>10

-----------------------------------------------------------------------------
\* Threads of three parts: the projections to queries, keys and values.

\* The cells of buffers that are not in outs.
Source(B, outs) == {x \in CellsIn(B) : x[1] \notin outs}

\* Steps s that come from s0, if d, by loads of the cells and a store.
Chained(s0, s, d, cells, to, f) == s = IF d THEN Compute(s0, cells, to, f) ELSE s0

\* What thread t leaves of its first k parts: part p, if it is in d[p], stores to
\* element off + t of o[p].
PartResults(k, t, off, o, f, d, vals) ==
    {Result(Cell(o[p], off + t), Term(f[p], vals[p][t])) : p \in {q \in 1..k : t \in d[q]}}

\* The part p of thread t reads from sources, and writes within the buffer.
PartReads(B, t, p, outs, off, o, d, cells, vals) ==
    t \in d[p] => /\ Reads(cells[p][t], vals[p][t], Source(B, outs))
                  /\ o[p] \in outs
                  /\ Cell(o[p], off + t) \in CellsIn(B)

\* A part more, if the thread is in it, adds its result.
LEMMA PartWrites ==
    ASSUME NEW B, NEW t, NEW k \in 1..3, NEW outs, NEW off \in Nat, NEW o, NEW f, NEW d,
           NEW cells, NEW vals, PartReads(B, t, k, outs, off, o, d, cells, vals),
           \A p, q \in 1..3 : o[p] = o[q] => p = q,
           \A p \in 1..3 : t \in d[p] => o[p] \in outs,
           NEW own, NEW acc, Source(B, outs) \subseteq acc,
           t \in d[k] => Cell(o[k], off + t) \in own,
           NEW s0, NEW s, Chained(s0, s, t \in d[k], cells[k][t], Cell(o[k], off + t), f[k]),
           Writes(B, acc, own, s0, PartResults(k - 1, t, off, o, f, d, vals))
    PROVE  Writes(B, acc, own, s, PartResults(k, t, off, o, f, d, vals))
<1> DEFINE res(p) == Result(Cell(o[p], off + t), Term(f[p], vals[p][t]))
           V == PartResults(k - 1, t, off, o, f, d, vals)
           W == PartResults(k, t, off, o, f, d, vals)
           x == cells[k][t]
           v == vals[k][t]
           to == Cell(o[k], off + t)
<1>0. \A r : /\ r \in V <=> \E p \in 1..(k - 1) : t \in d[p] /\ r = res(p)
             /\ r \in W <=> \E p \in 1..k : t \in d[p] /\ r = res(p)
  <2>1. \A j, r : r \in PartResults(j, t, off, o, f, d, vals)
                     <=> \E p \in {q \in 1..j : t \in d[q]} : r = res(p)
    BY Zenon DEF PartResults
  <2> HIDE DEF res
  <2> QED BY <2>1
<1>1. \A p : p \in 1..k <=> p \in 1..(k - 1) \/ p = k
  OBVIOUS
<1>2. CASE t \notin d[k]
  <2>1. s = s0
    BY <1>2 DEF Chained
  <2>2. V = W
    <3> HIDE DEF V, W, res
    <3>1. \A r : r \in V <=> r \in W
      BY <1>0, <1>1, <1>2
    <3> QED BY <3>1
  <2> QED BY <2>1, <2>2
<1>3. CASE t \in d[k]
  <2>1. s = Compute(s0, x, to, f[k]) /\ to \in own /\ to \in CellsIn(B)
        /\ Reads(x, v, Source(B, outs))
    BY <1>3 DEF Chained, PartReads
  <2>2. IsSeq(x) /\ CellSet(x) \subseteq Source(B, outs) /\ Before(x) = v
    BY <2>1, ReadsFacts
  <2>3. \A y \in Targets(V) : \E p \in 1..(k - 1) : t \in d[p] /\ y = Cell(o[p], off + t)
    <3>1. \A p : res(p).cell = Cell(o[p], off + t)
      BY DEF Result
    <3> HIDE DEF V, W, res
    <3> QED BY <1>0, <3>1 DEF Targets
  <2>4. to \notin Targets(V)
    <3>1. \A p \in 1..(k - 1) : p \in 1..3 /\ p # k
      OBVIOUS
    <3>2. \A p \in 1..(k - 1) : Cell(o[p], off + t) # to
      BY <3>1, CellIs
    <3> HIDE DEF V, to
    <3> QED BY <2>3, <3>2
  <2>5. \A y \in Targets(V) : y \notin Source(B, outs)
    <3>1. \A p \in 1..(k - 1) : t \in d[p] => o[p] \in outs
      OBVIOUS
    <3>2. \A p \in 1..(k - 1) : t \in d[p] => Cell(o[p], off + t) \notin Source(B, outs)
      BY <3>1 DEF Source, Cell
    <3> HIDE DEF V
    <3> QED BY <2>3, <3>2
  <2>6. \A j \in 1..Len(x) : x[j] \in acc /\ x[j] \in CellsIn(B) /\ x[j] \notin Targets(V)
    <3>1. \A j \in 1..Len(x) : x[j] \in Source(B, outs)
      BY <2>2 DEF CellSet
    <3>2. Source(B, outs) \subseteq CellsIn(B)
      BY DEF Source
    <3> HIDE DEF V, x
    <3> QED BY <2>5, <3>1, <3>2
  <2> HIDE DEF V, x, to, v
  <2>7. Writes(B, acc, own, Compute(s0, x, to, f[k]), V \cup {Result(to, Term(f[k], Before(x)))})
    <3>1. Writes(B, acc, own, s0, V)
      BY DEF V
    <3> QED BY <2>1, <2>2, <2>4, <2>6, <3>1, WritesCompute
  <2>8. Result(to, Term(f[k], Before(x))) = res(k)
    BY <2>2 DEF v, to
  <2>9. V \cup {res(k)} = W
    <3> HIDE DEF W, res
    <3>1. \A r : r \in V \/ r = res(k) <=> r \in W
      BY <1>0, <1>1, <1>3
    <3> QED BY <3>1
  <2> QED BY <2>1, <2>7, <2>8, <2>9
<1> QED BY <1>2, <1>3

\* Threads of three parts each, or less.
Threefold(B, P, n, off, o, f, d, cells, vals) == \A t \in Below(n) :
    /\ \E s1, s2 : /\ Chained(<<>>, s1, t \in d[1], cells[1][t], Cell(o[1], off + t), f[1])
                   /\ Chained(s1, s2, t \in d[2], cells[2][t], Cell(o[2], off + t), f[2])
                   /\ Chained(s2, P[t], t \in d[3], cells[3][t], Cell(o[3], off + t), f[3])
    /\ \A p \in 1..3 : PartReads(B, t, p, {o[1], o[2], o[3]}, off, o, d, cells, vals)

ThreefoldResult(R, n, off, o, f, d, vals) == \A r : r \in R <=>
    \E t \in Below(n) : r \in PartResults(3, t, off, o, f, d, vals)

\* A kernel of such threads is sound.
LEMMA ThreefoldSound ==
    ASSUME NEW B, NEW P, NEW R, NEW n \in Nat, NEW off \in Nat, NEW o, NEW f, NEW d, NEW cells,
           NEW vals, \A p, q \in 1..3 : o[p] = o[q] => p = q,
           Threefold(B, P, n, off, o, f, d, cells, vals),
           ThreefoldResult(R, n, off, o, f, d, vals)
    PROVE  Sound(Guarded(B, n, P, R))
<1> DEFINE outs == {o[1], o[2], o[3]}
           S == Source(B, outs)
           part(k, t) == PartResults(k, t, off, o, f, d, vals)
           W == [t \in Below(n) |-> part(3, t)]
           acc == [t \in Below(n) |-> S \cup Targets(part(3, t))]
<1>1. \A t \in Below(n) : W[t] = part(3, t) /\ acc[t] = S \cup Targets(part(3, t))
  OBVIOUS
<1>2. \A p \in 1..3 : p = 1 \/ p = 2 \/ p = 3
  OBVIOUS
<1>3. \A p \in 1..3 : o[p] \in outs
  BY <1>2
<1>4. \A k, t, r : r \in part(k, t) <=> \E p \in 1..k : t \in d[p]
                         /\ r = Result(Cell(o[p], off + t), Term(f[p], vals[p][t]))
  <2>1. \A k, t, r : r \in part(k, t) <=> \E p \in {q \in 1..k : t \in d[q]} :
                         r = Result(Cell(o[p], off + t), Term(f[p], vals[p][t]))
    BY Zenon DEF PartResults
  <2> HIDE DEF part
  <2> QED BY <2>1
<1>5. \A t, x : x \in Targets(part(3, t))
                  <=> \E p \in 1..3 : t \in d[p] /\ x = Cell(o[p], off + t)
  <2>1. \A t, p : Result(Cell(o[p], off + t), Term(f[p], vals[p][t])).cell = Cell(o[p], off + t)
    BY DEF Result
  <2> HIDE DEF part
  <2> QED BY <1>4, <2>1 DEF Targets
<1> HIDE DEF W, acc, part, outs
<1>6. ASSUME NEW t \in Below(n)
      PROVE  /\ acc[t] \subseteq CellsIn(B) /\ Targets(W[t]) \subseteq acc[t]
             /\ Writes(B, acc[t], Targets(W[t]), P[t], W[t])
  <2>1. PICK s1, s2 :
          /\ Chained(<<>>, s1, t \in d[1], cells[1][t], Cell(o[1], off + t), f[1])
          /\ Chained(s1, s2, t \in d[2], cells[2][t], Cell(o[2], off + t), f[2])
          /\ Chained(s2, P[t], t \in d[3], cells[3][t], Cell(o[3], off + t), f[3])
    BY Zenon DEF Threefold
  <2>2. \A p \in 1..3 : PartReads(B, t, p, outs, off, o, d, cells, vals)
    BY Zenon DEF Threefold, outs
  <2> DEFINE own == Targets(part(3, t))
             a == acc[t]
  <2>3. S \subseteq a /\ own \subseteq a /\ \A p \in 1..3 : t \in d[p] => Cell(o[p], off + t) \in own
    BY <1>1, <1>5
  <2>4. a \subseteq CellsIn(B)
    <3>1. \A p \in 1..3 : t \in d[p] => Cell(o[p], off + t) \in CellsIn(B)
      BY <2>2 DEF PartReads
    <3>2. S \subseteq CellsIn(B)
      BY DEF Source
    <3> QED BY <1>1, <1>5, <3>1, <3>2
  <2> HIDE DEF own, a
  <2>5. \A p \in 1..3 : t \in d[p] => o[p] \in outs
    BY <1>3
  <2>6. part(0, t) = {}
    BY <1>4
  <2>7. Writes(B, a, own, <<>>, part(0, t))
    <3>1. Writes(B, a, own, <<>>, {})
      BY WritesNothing
    <3> HIDE DEF part
    <3> QED BY <2>6, <3>1
  <2>8. Writes(B, a, own, s1, part(1, t))
    <3>1. 1 \in 1..3 /\ 1 - 1 = 0
      OBVIOUS
    <3> QED BY <2>1, <2>2, <2>3, <2>5, <2>7, <3>1, PartWrites DEF part
  <2>9. Writes(B, a, own, s2, part(2, t))
    <3>1. 2 \in 1..3 /\ 2 - 1 = 1
      OBVIOUS
    <3> QED BY <2>1, <2>2, <2>3, <2>5, <2>8, <3>1, PartWrites DEF part
  <2>10. Writes(B, a, own, P[t], part(3, t))
    <3>1. 3 \in 1..3 /\ 3 - 1 = 2
      OBVIOUS
    <3> QED BY <2>1, <2>2, <2>3, <2>5, <2>9, <3>1, PartWrites DEF part
  <2>11. W[t] = part(3, t)
    BY <1>1
  <2> QED BY <2>3, <2>4, <2>10, <2>11 DEF a, own
<1>7. ASSUME NEW t \in Below(n), NEW u \in Below(n), t # u
      PROVE  Targets(W[t]) \cap acc[u] = {}
  <2>1. ASSUME NEW x \in Targets(W[t]) PROVE x \notin acc[u]
    <3>1. PICK p \in 1..3 : t \in d[p] /\ x = Cell(o[p], off + t)
      BY <1>1, <1>5, <2>1
    <3>2. x \notin S
      BY <1>3, <3>1 DEF Source, Cell
    <3>3. \A q \in 1..3 : x # Cell(o[q], off + u)
      <4>1. off + t # off + u
        BY <1>7 DEF Below
      <4> QED BY <3>1, <4>1, CellIs
    <3> QED BY <1>1, <1>5, <3>2, <3>3
  <2> QED BY <2>1
<1>8. Separately(B, P, Below(n), acc, W)
  BY <1>6, <1>7 DEF Separately
<1>9. Together(R, Below(n), W)
  BY <1>1 DEF Together, ThreefoldResult, part
<1> QED BY <1>8, <1>9, GuardedSound

\* The same facts for the operator sign.
LEMMA JoinFacts ==
    ASSUME NEW f, NEW g
    PROVE  /\ DOMAIN (f ++ g) = DOMAIN f \cup DOMAIN g
           /\ \A x \in DOMAIN f : (f ++ g)[x] = f[x]
           /\ \A x \in DOMAIN g : x \notin DOMAIN f => (f ++ g)[x] = g[x]
<1> DEFINE h == f ++ g
<1>1. h = Overlay(f, g)
  BY DEF ++
<1> HIDE DEF h
<1>2. PICK e : e = Overlay(f, g)
  OBVIOUS
<1>3. /\ DOMAIN e = DOMAIN f \cup DOMAIN g
      /\ \A x \in DOMAIN f : e[x] = f[x]
      /\ \A x \in DOMAIN g : x \notin DOMAIN f => e[x] = g[x]
  BY <1>2 DEF Overlay
<1>4. h = e
  BY <1>1, <1>2
<1> QED BY <1>3, <1>4 DEF h

\* There are no more key elements than query elements.
LEMMA TotalsFacts ==
    ASSUME NEW c, Dims(c)
    PROVE  /\ q_total(c) \in Nat \ {0} /\ kv_total(c) \in Nat \ {0}
           /\ kv_total(c) <= q_total(c)
<1>1. /\ c.q_heads \in Nat \ {0} /\ c.kv_heads \in Nat \ {0} /\ c.head_dim \in Nat \ {0}
      /\ c.kv_heads <= c.q_heads
  BY DimsFacts
<1>2. c.kv_heads * c.head_dim <= c.q_heads * c.head_dim
  BY <1>1
<1>3. c.kv_heads * c.head_dim \in Nat \ {0} /\ c.q_heads * c.head_dim \in Nat \ {0}
  BY <1>1
<1> QED BY <1>2, <1>3 DEF q_total, kv_total

\* The buffers of qkv_projection.
QkvShapes(c, B, w, s, o, rows) ==
    \A p \in 1..3 : /\ {w[p], s[p], o[p]} \subseteq DOMAIN B
                    /\ B[w[p]] = <<rows[p], Stride(4, c.hidden)>>
                    /\ B[s[p]] = <<rows[p]>>
                    /\ B[o[p]] = <<rows[p]>>

\* The buffers of qkv_projection have the shapes that are assumed of them.
LEMMA QkvShapesHold ==
    ASSUME NEW c
    PROVE  LET rows == [q |-> q_total(c), k |-> kv_total(c), v |-> kv_total(c)]
               W == [q |-> "weight_q", k |-> "weight_k", v |-> "weight_v"]
               S == [q |-> "scale_q", k |-> "scale_k", v |-> "scale_v"]
               O == [q |-> "q_out", k |-> "k_out", v |-> "v_out"]
               parts == {"q", "k", "v"}
               B == [b \in {W[p] : p \in parts} |->
                        <<rows[CHOOSE p \in parts : W[p] = b], Stride(4, c.hidden)>>]
                 ++ [b \in {S[p] : p \in parts} |-> <<rows[CHOOSE p \in parts : S[p] = b]>>]
                 ++ [b \in {O[p] : p \in parts} |-> <<rows[CHOOSE p \in parts : O[p] = b]>>]
                 ++ [input |-> <<c.hidden>>]
           IN  /\ QkvShapes(c, B, <<"weight_q", "weight_k", "weight_v">>,
                            <<"scale_q", "scale_k", "scale_v">>, <<"q_out", "k_out", "v_out">>,
                            <<q_total(c), kv_total(c), kv_total(c)>>)
               /\ "input" \in DOMAIN B /\ B["input"] = <<c.hidden>>
<1> DEFINE rows == [q |-> q_total(c), k |-> kv_total(c), v |-> kv_total(c)]
           W == [q |-> "weight_q", k |-> "weight_k", v |-> "weight_v"]
           S == [q |-> "scale_q", k |-> "scale_k", v |-> "scale_v"]
           O == [q |-> "q_out", k |-> "k_out", v |-> "v_out"]
           parts == {"q", "k", "v"}
           B1 == [b \in {W[p] : p \in parts} |->
                        <<rows[CHOOSE p \in parts : W[p] = b], Stride(4, c.hidden)>>]
           B2 == [b \in {S[p] : p \in parts} |-> <<rows[CHOOSE p \in parts : S[p] = b]>>]
           B3 == [b \in {O[p] : p \in parts} |-> <<rows[CHOOSE p \in parts : O[p] = b]>>]
           B4 == [input |-> <<c.hidden>>]
<1>1. /\ W["q"] = "weight_q" /\ W["k"] = "weight_k" /\ W["v"] = "weight_v"
      /\ S["q"] = "scale_q" /\ S["k"] = "scale_k" /\ S["v"] = "scale_v"
      /\ O["q"] = "q_out" /\ O["k"] = "k_out" /\ O["v"] = "v_out"
      /\ rows["q"] = q_total(c) /\ rows["k"] = kv_total(c) /\ rows["v"] = kv_total(c)
  OBVIOUS
<1>2. DOMAIN B4 = {"input"} /\ B4["input"] = <<c.hidden>>
  OBVIOUS
<1>3. \A p \in parts : p = "q" \/ p = "k" \/ p = "v"
  OBVIOUS
<1> HIDE DEF rows, W, S, O, B4
<1>4. \A p \in parts : /\ (CHOOSE r \in parts : W[r] = W[p]) = p
                       /\ (CHOOSE r \in parts : S[r] = S[p]) = p
                       /\ (CHOOSE r \in parts : O[r] = O[p]) = p
  <2>1. \A p, r \in parts : /\ W[r] = W[p] => r = p
                            /\ S[r] = S[p] => r = p
                            /\ O[r] = O[p] => r = p
    BY <1>1, <1>3
  <2> HIDE DEF parts
  <2> QED BY <2>1
<1>5. \A p \in parts : /\ W[p] \in DOMAIN B1 /\ B1[W[p]] = <<rows[p], Stride(4, c.hidden)>>
                       /\ S[p] \in DOMAIN B2 /\ B2[S[p]] = <<rows[p]>>
                       /\ O[p] \in DOMAIN B3 /\ B3[O[p]] = <<rows[p]>>
  <2>1. \A p \in parts : /\ W[p] \in DOMAIN B1
                         /\ B1[W[p]] = <<rows[CHOOSE r \in parts : W[r] = W[p]], Stride(4, c.hidden)>>
    OBVIOUS
  <2>2. \A p \in parts : /\ S[p] \in DOMAIN B2
                         /\ B2[S[p]] = <<rows[CHOOSE r \in parts : S[r] = S[p]]>>
    OBVIOUS
  <2>3. \A p \in parts : /\ O[p] \in DOMAIN B3
                         /\ B3[O[p]] = <<rows[CHOOSE r \in parts : O[r] = O[p]]>>
    OBVIOUS
  <2> HIDE DEF parts, B1, B2, B3
  <2> QED BY <1>4, <2>1, <2>2, <2>3
<1>6. /\ DOMAIN B1 = {"weight_q", "weight_k", "weight_v"}
      /\ DOMAIN B2 = {"scale_q", "scale_k", "scale_v"}
      /\ DOMAIN B3 = {"q_out", "k_out", "v_out"}
  <2>1. /\ DOMAIN B1 = {W[p] : p \in parts} /\ DOMAIN B2 = {S[p] : p \in parts}
        /\ DOMAIN B3 = {O[p] : p \in parts}
    OBVIOUS
  <2> HIDE DEF B1, B2, B3
  <2> QED BY <1>1, <2>1
<1> HIDE DEF B1, B2, B3
<1> DEFINE B12 == B1 ++ B2
           B123 == B12 ++ B3
           B == B123 ++ B4
<1>7. /\ DOMAIN B12 = DOMAIN B1 \cup DOMAIN B2
      /\ \A x \in DOMAIN B1 : B12[x] = B1[x]
      /\ \A x \in DOMAIN B2 : x \notin DOMAIN B1 => B12[x] = B2[x]
  BY JoinFacts
<1> HIDE DEF B12
<1>8. /\ DOMAIN B123 = DOMAIN B12 \cup DOMAIN B3
      /\ \A x \in DOMAIN B12 : B123[x] = B12[x]
      /\ \A x \in DOMAIN B3 : x \notin DOMAIN B12 => B123[x] = B3[x]
  BY JoinFacts
<1> HIDE DEF B123
<1>9. /\ DOMAIN B = DOMAIN B123 \cup DOMAIN B4
      /\ \A x \in DOMAIN B123 : B[x] = B123[x]
      /\ \A x \in DOMAIN B4 : x \notin DOMAIN B123 => B[x] = B4[x]
  BY JoinFacts
<1> HIDE DEF B
<1>10. "input" \in DOMAIN B /\ B["input"] = <<c.hidden>>
  BY <1>2, <1>6, <1>7, <1>8, <1>9
<1>11. \A p \in parts : /\ {W[p], S[p], O[p]} \subseteq DOMAIN B
                        /\ B[W[p]] = <<rows[p], Stride(4, c.hidden)>>
                        /\ B[S[p]] = <<rows[p]>> /\ B[O[p]] = <<rows[p]>>
  <2>1. SUFFICES ASSUME NEW p \in parts
                 PROVE  /\ {W[p], S[p], O[p]} \subseteq DOMAIN B
                        /\ B[W[p]] = <<rows[p], Stride(4, c.hidden)>>
                        /\ B[S[p]] = <<rows[p]>> /\ B[O[p]] = <<rows[p]>>
    OBVIOUS
  <2>2. W[p] \in DOMAIN B1 /\ S[p] \in DOMAIN B2 /\ O[p] \in DOMAIN B3
    BY <1>5
  <2>3. S[p] \notin DOMAIN B1 /\ O[p] \notin DOMAIN B12
    BY <1>1, <1>3, <1>6, <1>7
  <2>4. B[W[p]] = B1[W[p]] /\ B[S[p]] = B2[S[p]] /\ B[O[p]] = B3[O[p]]
    BY <1>7, <1>8, <1>9, <2>2, <2>3
  <2>5. {W[p], S[p], O[p]} \subseteq DOMAIN B
    BY <1>7, <1>8, <1>9, <2>2
  <2> QED BY <1>5, <2>4, <2>5
<1> DEFINE w == <<"weight_q", "weight_k", "weight_v">>
           s == <<"scale_q", "scale_k", "scale_v">>
           o == <<"q_out", "k_out", "v_out">>
           n == <<q_total(c), kv_total(c), kv_total(c)>>
<1>12. \A i \in 1..3 : \E p \in parts : w[i] = W[p] /\ s[i] = S[p] /\ o[i] = O[p] /\ n[i] = rows[p]
  <2>1. \A i \in 1..3 : i = 1 \/ i = 2 \/ i = 3
    OBVIOUS
  <2>2. /\ w[1] = W["q"] /\ w[2] = W["k"] /\ w[3] = W["v"]
        /\ s[1] = S["q"] /\ s[2] = S["k"] /\ s[3] = S["v"]
        /\ o[1] = O["q"] /\ o[2] = O["k"] /\ o[3] = O["v"]
        /\ n[1] = rows["q"] /\ n[2] = rows["k"] /\ n[3] = rows["v"]
    BY <1>1
  <2> HIDE DEF w, s, o, n
  <2> QED BY <2>1, <2>2
<1> HIDE DEF w, s, o, n, parts
<1>13. QkvShapes(c, B, w, s, o, n)
  <2>1. ASSUME NEW i \in 1..3
        PROVE  /\ {w[i], s[i], o[i]} \subseteq DOMAIN B
               /\ B[w[i]] = <<n[i], Stride(4, c.hidden)>>
               /\ B[s[i]] = <<n[i]>>
               /\ B[o[i]] = <<n[i]>>
    <3>1. PICK p \in parts : w[i] = W[p] /\ s[i] = S[p] /\ o[i] = O[p] /\ n[i] = rows[p]
      BY <1>12
    <3> QED BY <1>11, <3>1
  <2> QED BY <2>1 DEF QkvShapes
<1> QED BY <1>10, <1>13 DEF B, B123, B12, B1, B2, B3, B4, rows, W, S, O, parts, w, s, o, n

\* The buffers of qkv_projection are those of three matrices.
LEMMA QkvMatrices ==
    ASSUME NEW c, Dims(c), NEW B, NEW w, NEW s, NEW o, NEW rows, NEW S,
           QkvShapes(c, B, w, s, o, rows), "input" \in DOMAIN B, B["input"] = <<c.hidden>>,
           NEW p \in 1..3, rows[p] \in Nat,
           \A x \in CellsIn(B) : x[1] \in {w[p], s[p], "input"} => x \in S
    PROVE  MatrixBuffers(B, S, 4, w[p], s[p], <<>>, "input", rows[p], c.hidden)
<1> DEFINE wp == w[p]
           sp == s[p]
           n == rows[p]
           b == <<>>
<1>1. /\ {wp, sp} \subseteq DOMAIN B
      /\ B[wp] = <<n, Stride(4, c.hidden)>>
      /\ B[sp] = <<n>>
      /\ n \in Nat
      /\ \A x \in CellsIn(B) : x[1] \in {wp, sp, "input"} => x \in S
  BY DEF QkvShapes
<1>2. c.hidden \in Nat \ {0}
  BY DimsFacts
<1>3. IsSeq(b) /\ \A i : i \notin 1..Len(b)
  BY EmptyIsSeq
<1> HIDE DEF wp, sp, n, b
<1>4. \A x \in CellsIn(B) :
          x[1] \in {wp, sp, "input"} \cup {b[i] : i \in 1..Len(b)} => x \in S
  BY <1>1, <1>3
<1>5. MatrixBuffers(B, S, 4, wp, sp, b, "input", n, c.hidden)
  BY <1>1, <1>2, <1>3, <1>4 DEF MatrixBuffers
<1> QED BY <1>5 DEF wp, sp, n, b

\* The names, rows, programs and results of qkv_projection, its parts numbered.
QkvNames(w, s, o) ==
    /\ \A p, q \in 1..3 : o[p] = o[q] => p = q
    /\ \A p, q \in 1..3 : w[p] # o[q] /\ s[p] # o[q] /\ "input" # o[q]
QkvPrograms(c, P, n, w, s, o, rows, s1, s2) ==
    \A t \in Below(n) :
        /\ s1[t] = IF t < rows[1]
                   THEN MatvecRow(<<>>, 4, w[1], s[1], <<>>, "input", o[1], c.hidden, t)
                   ELSE <<>>
        /\ s2[t] = IF t < rows[2]
                   THEN MatvecRow(s1[t], 4, w[2], s[2], <<>>, "input", o[2], c.hidden, t)
                   ELSE s1[t]
        /\ P[t] = IF t < rows[3]
                  THEN MatvecRow(s2[t], 4, w[3], s[3], <<>>, "input", o[3], c.hidden, t)
                  ELSE s2[t]
QkvResults(c, B, R, w, s, o, rows) ==
    \A r : r \in R <=> \E p \in 1..3 : \E t \in Below(rows[p]) :
        r = MatvecResult(B, w[p], s[p], <<>>, "input", o[p], c.hidden, t)

\* A kernel over such buffers is sound.
LEMMA QkvSound ==
    ASSUME NEW c, Dims(c), NEW B, NEW w, NEW s, NEW o, NEW rows, NEW P, NEW R,
           NEW n \in Nat, NEW s1, NEW s2,
           QkvShapes(c, B, w, s, o, rows), "input" \in DOMAIN B, B["input"] = <<c.hidden>>,
           \A p \in 1..3 : rows[p] \in Nat /\ rows[p] <= n,
           QkvNames(w, s, o), QkvPrograms(c, P, n, w, s, o, rows, s1, s2),
           QkvResults(c, B, R, w, s, o, rows)
    PROVE  Sound(Guarded(B, n, P, R))
<1> DEFINE cell(p, t) == RowCells(4, w[p], s[p], <<>>, "input", c.hidden, t)
           val(p, t) == RowValues(B, w[p], s[p], <<>>, "input", c.hidden, t)
           d == [p \in 1..3 |-> Below(rows[p])]
           f == [p \in 1..3 |-> "dot"]
           cells == [p \in 1..3 |-> [t \in Below(n) |-> cell(p, t)]]
           vals == [p \in 1..3 |-> [t \in Below(n) |-> val(p, t)]]
           outs == {o[1], o[2], o[3]}
           S == Source(B, outs)
<1>0. /\ \A p, q \in 1..3 : o[p] = o[q] => p = q
      /\ \A p, q \in 1..3 : w[p] # o[q] /\ s[p] # o[q] /\ "input" # o[q]
  BY DEF QkvNames
<1>1. \A p \in 1..3 : p = 1 \/ p = 2 \/ p = 3
  OBVIOUS
<1>2. \A p \in 1..3, t \in Below(n) : /\ cells[p][t] = cell(p, t) /\ vals[p][t] = val(p, t)
                                      /\ f[p] = "dot" /\ d[p] = Below(rows[p])
  OBVIOUS
<1>3. \A p \in 1..3 : d[p] = Below(rows[p]) /\ Below(rows[p]) \subseteq Below(n)
  BY DEF Below
<1>4. \A p \in 1..3, t \in Below(n) : t \in d[p] <=> t < rows[p]
  <2>1. \A t \in Below(n) : t \in Nat
    BY DEF Below
  <2> HIDE DEF d
  <2> QED BY <1>3, <2>1 DEF Below
<1>5. \A p \in 1..3 : o[p] \in outs
  BY <1>1
<1>6. \A p \in 1..3 : w[p] \notin outs /\ s[p] \notin outs /\ "input" \notin outs
  BY <1>0
<1> HIDE DEF d, f, cells, vals, outs
<1>7. ASSUME NEW p \in 1..3, NEW t \in Below(rows[p])
      PROVE  /\ Reads(cell(p, t), val(p, t), S)
             /\ Element(B, o[p], <<t>>, t)
  <2>1. \A x \in CellsIn(B) : x[1] \in {w[p], s[p], "input"} => x \in S
    BY <1>6 DEF Source
  <2> HIDE DEF S
  <2>2. MatrixBuffers(B, S, 4, w[p], s[p], <<>>, "input", rows[p], c.hidden)
    BY <2>1, QkvMatrices
  <2>3. Reads(cell(p, t), val(p, t), S)
    BY <2>2, MatvecReads
  <2>4. o[p] \in DOMAIN B /\ B[o[p]] = <<rows[p]>>
    BY DEF QkvShapes
  <2>5. Element(B, o[p], <<t>>, t)
    BY <2>4, Element1
  <2> QED BY <2>3, <2>5
<1>8. ASSUME NEW p \in 1..3, NEW t \in Below(rows[p])
      PROVE  MatvecResult(B, w[p], s[p], <<>>, "input", o[p], c.hidden, t)
                = Result(Cell(o[p], 0 + t), Term(f[p], vals[p][t]))
  <2>1. t \in Below(n) /\ 0 + t = t
    BY <1>3 DEF Below
  <2>2. MatvecResult(B, w[p], s[p], <<>>, "input", o[p], c.hidden, t)
          = Makes(B, o[p], <<t>>, Term("dot", val(p, t)))
    BY MatvecResultIs
  <2>3. Makes(B, o[p], <<t>>, Term("dot", val(p, t))) = Result(Cell(o[p], t), Term("dot", val(p, t)))
    BY <1>7, Zenon DEF Element
  <2>4. vals[p][t] = val(p, t) /\ f[p] = "dot"
    BY <1>2, <2>1
  <2> QED BY <2>1, <2>2, <2>3, <2>4
<1>9. ASSUME NEW t \in Below(n)
      PROVE  \E x1, x2 : /\ Chained(<<>>, x1, t \in d[1], cells[1][t], Cell(o[1], 0 + t), f[1])
                         /\ Chained(x1, x2, t \in d[2], cells[2][t], Cell(o[2], 0 + t), f[2])
                         /\ Chained(x2, P[t], t \in d[3], cells[3][t], Cell(o[3], 0 + t), f[3])
  <2>1. 0 + t = t
    BY DEF Below
  <2>2. \A p \in 1..3 : \A x : MatvecRow(x, 4, w[p], s[p], <<>>, "input", o[p], c.hidden, t)
                                  = Compute(x, cells[p][t], Cell(o[p], t), f[p])
    <3>1. ASSUME NEW p \in 1..3, NEW x
          PROVE  MatvecRow(x, 4, w[p], s[p], <<>>, "input", o[p], c.hidden, t)
                    = Compute(x, cells[p][t], Cell(o[p], t), f[p])
      <4>1. MatvecRow(x, 4, w[p], s[p], <<>>, "input", o[p], c.hidden, t)
              = Compute(x, cell(p, t), Cell(o[p], t), "dot")
        BY MatvecRowIs, Zenon
      <4> QED BY <1>2, <4>1
    <3> QED BY <3>1
  <2>3. Chained(<<>>, s1[t], t \in d[1], cells[1][t], Cell(o[1], 0 + t), f[1])
    BY <1>4, <2>1, <2>2 DEF Chained, QkvPrograms
  <2>4. Chained(s1[t], s2[t], t \in d[2], cells[2][t], Cell(o[2], 0 + t), f[2])
    BY <1>4, <2>1, <2>2 DEF Chained, QkvPrograms
  <2>5. Chained(s2[t], P[t], t \in d[3], cells[3][t], Cell(o[3], 0 + t), f[3])
    BY <1>4, <2>1, <2>2 DEF Chained, QkvPrograms
  <2> QED BY <2>3, <2>4, <2>5
<1>10. ASSUME NEW t \in Below(n), NEW p \in 1..3
       PROVE  PartReads(B, t, p, outs, 0, o, d, cells, vals)
  <2>1. 0 + t = t
    BY DEF Below
  <2>2. ASSUME t \in d[p]
        PROVE  /\ Reads(cells[p][t], vals[p][t], Source(B, outs))
               /\ o[p] \in outs
               /\ Cell(o[p], 0 + t) \in CellsIn(B)
    <3>1. t \in Below(rows[p])
      BY <1>3, <2>2
    <3>2. Reads(cell(p, t), val(p, t), S) /\ Element(B, o[p], <<t>>, t)
      BY <1>7, <3>1
    <3>3. cells[p][t] = cell(p, t) /\ vals[p][t] = val(p, t)
      BY <1>2
    <3>4. Cell(o[p], 0 + t) \in CellsIn(B)
      BY <2>1, <3>2 DEF Element
    <3> QED BY <1>5, <3>2, <3>3, <3>4
  <2> QED BY <2>2 DEF PartReads
<1>11. Threefold(B, P, n, 0, o, f, d, cells, vals)
  BY <1>9, <1>10 DEF Threefold, outs
<1>12. ThreefoldResult(R, n, 0, o, f, d, vals)
  <2>1. \A t, r : r \in PartResults(3, t, 0, o, f, d, vals) <=>
          \E p \in {q \in 1..3 : t \in d[q]} : r = Result(Cell(o[p], 0 + t), Term(f[p], vals[p][t]))
    BY Zenon DEF PartResults
  <2> DEFINE res(p, t) == Result(Cell(o[p], 0 + t), Term(f[p], vals[p][t]))
  <2>2. \A p \in 1..3 : \A t \in Below(rows[p]) :
          MatvecResult(B, w[p], s[p], <<>>, "input", o[p], c.hidden, t) = res(p, t)
    BY <1>8
  <2> HIDE DEF res
  <2>3. \A r : r \in R <=> \E p \in 1..3 : \E t \in Below(rows[p]) : r = res(p, t)
    <3>1. ASSUME NEW r PROVE r \in R => \E p \in 1..3 : \E t \in Below(rows[p]) : r = res(p, t)
      BY <2>2 DEF QkvResults
    <3>2. ASSUME NEW p \in 1..3, NEW t \in Below(rows[p]) PROVE res(p, t) \in R
      BY <2>2 DEF QkvResults
    <3> QED BY <3>1, <3>2
  <2>4. ASSUME NEW r PROVE r \in R <=> \E t \in Below(n) : r \in PartResults(3, t, 0, o, f, d, vals)
    <3>1. \A t : r \in PartResults(3, t, 0, o, f, d, vals) <=>
              \E p \in 1..3 : t \in Below(rows[p]) /\ r = res(p, t)
      BY <1>3, <2>1 DEF res
    <3> QED BY <1>3, <2>3, <3>1
  <2> QED BY <2>4 DEF ThreefoldResult
<1> QED BY <1>0, <1>11, <1>12, ThreefoldSound

\* qkv_projection is: a thread makes its row of the three outputs as far as they
\* have one.
LEMMA QkvProjectionsSound ==
    ASSUME NEW c, Dims(c)
    PROVE  /\ Sound(QkvProjections(c).qkv_projection)
           /\ Sound(QkvProjections(c).qkv_projection_tiled)
<1> DEFINE rows == [q |-> q_total(c), k |-> kv_total(c), v |-> kv_total(c)]
           W == [q |-> "weight_q", k |-> "weight_k", v |-> "weight_v"]
           S == [q |-> "scale_q", k |-> "scale_k", v |-> "scale_v"]
           O == [q |-> "q_out", k |-> "k_out", v |-> "v_out"]
           parts == {"q", "k", "v"}
           B == [b \in {W[p] : p \in parts} |->
                    <<rows[CHOOSE p \in parts : W[p] = b], Stride(4, c.hidden)>>]
             ++ [b \in {S[p] : p \in parts} |-> <<rows[CHOOSE p \in parts : S[p] = b]>>]
             ++ [b \in {O[p] : p \in parts} |-> <<rows[CHOOSE p \in parts : O[p] = b]>>]
             ++ [input |-> <<c.hidden>>]
           part(steps, p, row) == IF row < rows[p]
               THEN MatvecRow(steps, 4, W[p], S[p], <<>>, "input", O[p], c.hidden, row)
               ELSE steps
           P == [row \in Below(q_total(c)) |->
                       part(part(part(<<>>, "q", row), "k", row), "v", row)]
           R == UNION {{MatvecResult(B, W[p], S[p], <<>>, "input", O[p], c.hidden, row)
                            : row \in Below(rows[p])} : p \in parts}
           k == Guarded(B, q_total(c), P, R)
           w == <<"weight_q", "weight_k", "weight_v">>
           s == <<"scale_q", "scale_k", "scale_v">>
           o == <<"q_out", "k_out", "v_out">>
           m == <<q_total(c), kv_total(c), kv_total(c)>>
           n == q_total(c)
           s1 == [t \in Below(n) |-> part(<<>>, "q", t)]
           s2 == [t \in Below(n) |-> part(s1[t], "k", t)]
<1>1. QkvProjections(c).qkv_projection = k /\ QkvProjections(c).qkv_projection_tiled = k
  BY DEF QkvProjections
<1>2. QkvShapes(c, B, w, s, o, m) /\ "input" \in DOMAIN B /\ B["input"] = <<c.hidden>>
  BY QkvShapesHold, Zenon
<1>3. /\ W["q"] = "weight_q" /\ W["k"] = "weight_k" /\ W["v"] = "weight_v"
      /\ S["q"] = "scale_q" /\ S["k"] = "scale_k" /\ S["v"] = "scale_v"
      /\ O["q"] = "q_out" /\ O["k"] = "k_out" /\ O["v"] = "v_out"
      /\ rows["q"] = n /\ rows["k"] = kv_total(c) /\ rows["v"] = kv_total(c)
  OBVIOUS
<1>4. /\ w[1] = "weight_q" /\ w[2] = "weight_k" /\ w[3] = "weight_v"
      /\ s[1] = "scale_q" /\ s[2] = "scale_k" /\ s[3] = "scale_v"
      /\ o[1] = "q_out" /\ o[2] = "k_out" /\ o[3] = "v_out"
      /\ m[1] = n /\ m[2] = kv_total(c) /\ m[3] = kv_total(c)
  OBVIOUS
<1>5. \A t \in Below(n) : /\ s1[t] = part(<<>>, "q", t)
                          /\ s2[t] = part(s1[t], "k", t)
                          /\ P[t] = part(s2[t], "v", t)
  <2> HIDE DEF part
  <2> QED OBVIOUS
<1>6. \A p \in 1..3 : p = 1 \/ p = 2 \/ p = 3
  OBVIOUS
<1>7. \A r : r \in R <=> \E p \in parts : \E t \in Below(rows[p]) :
              r = MatvecResult(B, W[p], S[p], <<>>, "input", O[p], c.hidden, t)
  <2> HIDE DEF B, W, S, O, rows
  <2> QED OBVIOUS
<1>8. n \in Nat /\ kv_total(c) \in Nat /\ kv_total(c) <= n
  BY TotalsFacts
<1> HIDE DEF B, P, R, w, s, o, m, s1, s2, W, S, O, rows, n
<1>9. \A t \in Below(n) :
        /\ s1[t] = IF t < m[1] THEN MatvecRow(<<>>, 4, w[1], s[1], <<>>, "input", o[1], c.hidden, t) ELSE <<>>
        /\ s2[t] = IF t < m[2] THEN MatvecRow(s1[t], 4, w[2], s[2], <<>>, "input", o[2], c.hidden, t) ELSE s1[t]
        /\ P[t] = IF t < m[3] THEN MatvecRow(s2[t], 4, w[3], s[3], <<>>, "input", o[3], c.hidden, t) ELSE s2[t]
  BY <1>3, <1>4, <1>5
<1>10. \A r : r \in R <=> \E p \in 1..3 : \E t \in Below(m[p]) :
              r = MatvecResult(B, w[p], s[p], <<>>, "input", o[p], c.hidden, t)
  <2> DEFINE row(x, y, z, l, r) == \E t \in Below(l) :
              r = MatvecResult(B, x, y, <<>>, "input", z, c.hidden, t)
  <2>1. \A r : r \in R <=> \E p \in parts : row(W[p], S[p], O[p], rows[p], r)
    BY <1>7
  <2>2. \A r : (\E p \in 1..3 : row(w[p], s[p], o[p], m[p], r))
                 <=> (\E p \in parts : row(W[p], S[p], O[p], rows[p], r))
    <3> HIDE DEF row
    <3>1. \A p \in parts : p = "q" \/ p = "k" \/ p = "v"
      OBVIOUS
    <3>2. "q" \in parts /\ "k" \in parts /\ "v" \in parts /\ 1 \in 1..3 /\ 2 \in 1..3 /\ 3 \in 1..3
      OBVIOUS
    <3> HIDE DEF parts
    <3>3. ASSUME NEW r, NEW p \in parts, row(W[p], S[p], O[p], rows[p], r)
          PROVE  \E i \in 1..3 : row(w[i], s[i], o[i], m[i], r)
      BY <1>3, <1>4, <3>1, <3>2, <3>3
    <3>4. ASSUME NEW r, NEW i \in 1..3, row(w[i], s[i], o[i], m[i], r)
          PROVE  \E p \in parts : row(W[p], S[p], O[p], rows[p], r)
      BY <1>3, <1>4, <1>6, <3>2, <3>4
    <3> QED BY <3>3, <3>4
  <2> QED BY <2>1, <2>2
<1>11. \A p \in 1..3 : m[p] \in Nat /\ m[p] <= n
  BY <1>4, <1>6, <1>8
<1>12. \A p, q \in 1..3 : o[p] = o[q] => p = q
  BY <1>4, <1>6
<1>13. \A p, q \in 1..3 : w[p] # o[q] /\ s[p] # o[q] /\ "input" # o[q]
  <2>1. \A q \in 1..3 : o[q] \in {"q_out", "k_out", "v_out"}
    BY <1>4, <1>6
  <2>2. \A p \in 1..3 : w[p] \notin {"q_out", "k_out", "v_out"} /\ s[p] \notin {"q_out", "k_out", "v_out"}
    BY <1>4, <1>6
  <2> QED BY <2>1, <2>2
<1>14. Sound(Guarded(B, n, P, R))
  <2>1. QkvNames(w, s, o)
    BY <1>12, <1>13, Zenon DEF QkvNames
  <2>2. QkvPrograms(c, P, n, w, s, o, m, s1, s2)
    BY <1>9, Zenon DEF QkvPrograms
  <2>3. QkvResults(c, B, R, w, s, o, m)
    BY <1>10, Zenon DEF QkvResults
  <2> QED BY <1>2, <1>8, <1>11, <2>1, <2>2, <2>3, QkvSound
<1> QED BY <1>1, <1>14 DEF n

-----------------------------------------------------------------------------
\* The caches.

\* Element <<g, d>> behind place of a cache with dimensions dims, in front of
\* which are `before` whole tokens.
CachePlace(c, dims, before, place) ==
    \A B : \A b \in DOMAIN B : B[b] = dims =>
        \A g \in Below(c.kv_heads), d \in Below(c.head_dim) :
            Element(B, b, place \o <<g, d>>, before * kv_total(c) + (g * c.head_dim + d))

\* The key and the value of a token go to its place in the caches and to no other.
LEMMA KvStoreSound ==
    ASSUME NEW c, Dims(c), NEW dims, NEW before \in Nat, NEW place,
           CachePlace(c, dims, before, place)
    PROVE  Sound(KvStore(c, dims, before, place))
<1> DEFINE K == c.kv_heads
           D == c.head_dim
           n == kv_total(c)
           off == before * kv_total(c)
           B == [k |-> <<c.kv_heads, c.head_dim>>, v |-> <<c.kv_heads, c.head_dim>>,
                 k_cache |-> dims, v_cache |-> dims]
           base(tid) == before * kv_total(c) + tid
           P == [tid \in Below(kv_total(c)) |->
            Compute(Compute(<<>>, <<Cell("k", tid)>>, Cell("k_cache", base(tid)), "copy"),
                    <<Cell("v", tid)>>, Cell("v_cache", base(tid)), "copy")]
           kept(b, cache) == {Makes(B, cache, place \o <<g, d>>,
                                 Term("copy", <<In(B, b, <<g, d>>)>>))
                             : g \in Below(c.kv_heads), d \in Below(c.head_dim)}
           R == kept("k", "k_cache") \cup kept("v", "v_cache")
           i == <<"k", "v", "none">>
           o == <<"k_cache", "v_cache", "none">>
           f == <<"copy", "copy", "copy">>
           d3 == <<Below(n), Below(n), {}>>
           cells == [p \in 1..3 |-> [t \in Below(n) |-> <<Cell(i[p], t)>>]]
           vals == [p \in 1..3 |-> [t \in Below(n) |-> <<Initially(Cell(i[p], t))>>]]
           outs == {o[1], o[2], o[3]}
<1>1. KvStore(c, dims, before, place) = Guarded(B, n, P, R)
  BY DEF KvStore
<1>2. K \in Nat \ {0} /\ D \in Nat \ {0} /\ n = K * D /\ n \in Nat /\ off \in Nat
  BY DimsFacts, TotalsFacts DEF kv_total
<1>3. /\ DOMAIN B = {"k", "v", "k_cache", "v_cache"} /\ B["k"] = <<K, D>> /\ B["v"] = <<K, D>>
      /\ B["k_cache"] = dims /\ B["v_cache"] = dims
  OBVIOUS
<1>4. \A t \in Below(n) : P[t] =
            Compute(Compute(<<>>, <<Cell("k", t)>>, Cell("k_cache", off + t), "copy"),
                    <<Cell("v", t)>>, Cell("v_cache", off + t), "copy")
  OBVIOUS
<1>5. \A p \in 1..3 : p = 1 \/ p = 2 \/ p = 3
  OBVIOUS
<1>6. /\ i[1] = "k" /\ i[2] = "v" /\ o[1] = "k_cache" /\ o[2] = "v_cache" /\ o[3] = "none"
      /\ f[1] = "copy" /\ f[2] = "copy"
      /\ d3[1] = Below(n) /\ d3[2] = Below(n) /\ d3[3] = {}
  OBVIOUS
<1>7. \A p \in 1..3 : \A t \in Below(n) : cells[p][t] = <<Cell(i[p], t)>>
                                          /\ vals[p][t] = <<Initially(Cell(i[p], t))>>
  <2> HIDE DEF i
  <2> QED OBVIOUS
<1>8. \A b, cache, r : r \in kept(b, cache) <=> \E g \in Below(K), d \in Below(D) :
          r = Makes(B, cache, place \o <<g, d>>, Term("copy", <<In(B, b, <<g, d>>)>>))
  <2> HIDE DEF B
  <2> QED OBVIOUS
<1>9. outs = {"k_cache", "v_cache", "none"}
  BY <1>6
<1> HIDE DEF K, D, n, off, B, P, i, o, f, d3, cells, vals, outs, kept
<1>10. \A t \in Below(n) : Element(B, "k", <<t \div D, t % D>>, t)
                           /\ Element(B, "v", <<t \div D, t % D>>, t)
  <2>1. SUFFICES ASSUME NEW t \in Below(n), NEW b \in {"k", "v"}
                 PROVE  Element(B, b, <<t \div D, t % D>>, t)
    OBVIOUS
  <2>2. PICK h \in Below(K) : h = t \div D
    BY <1>2, PlaceSplits
  <2>3. PICK e \in Below(D) : e = (t % D)
    BY <1>2, PlaceSplits
  <2>4. h * D + e = t
    BY <1>2, <2>2, <2>3, PlaceSplits
  <2>5. Element(B, b, <<h, e>>, h * D + e)
    BY <1>2, <1>3, Element2
  <2> QED BY <2>2, <2>3, <2>4, <2>5
<1>11. \A b \in {"k", "v"}, t \in Below(n) : Cell(b, t) \in Source(B, outs)
  BY <1>9, <1>10 DEF Element, Source, Cell
<1>12. \A g \in Below(K), e \in Below(D), cache \in {"k_cache", "v_cache"} :
          Element(B, cache, place \o <<g, e>>, off + (g * D + e))
  BY <1>3, Zenon DEF CachePlace, K, D, off
<1>20. \A t \in Below(n) : \E g \in Below(K), e \in Below(D) : t = g * D + e
  <2>1. SUFFICES ASSUME NEW t \in Below(n) PROVE \E g \in Below(K), e \in Below(D) : t = g * D + e
    OBVIOUS
  <2>2. PICK h \in Below(K) : h = t \div D
    BY <1>2, PlaceSplits
  <2>3. PICK e \in Below(D) : e = (t % D)
    BY <1>2, PlaceSplits
  <2>4. t = h * D + e
    BY <1>2, <2>2, <2>3, PlaceSplits
  <2> QED BY <2>4
<1>13. \A cache \in {"k_cache", "v_cache"}, t \in Below(n) : Cell(cache, off + t) \in CellsIn(B)
  <2>1. SUFFICES ASSUME NEW cache \in {"k_cache", "v_cache"}, NEW t \in Below(n)
                 PROVE  Cell(cache, off + t) \in CellsIn(B)
    OBVIOUS
  <2>2. PICK h \in Below(K), e \in Below(D) : t = h * D + e
    BY <1>20
  <2> QED BY <1>12, <2>2, Zenon DEF Element
<1>14. ASSUME NEW t \in Below(n), NEW p \in 1..3
       PROVE  PartReads(B, t, p, outs, off, o, d3, cells, vals)
  <2>1. CASE p = 3
    BY <1>6, <2>1 DEF PartReads
  <2>2. CASE p \in {1, 2}
    <3>1. i[p] \in {"k", "v"} /\ o[p] \in {"k_cache", "v_cache"} /\ o[p] \in outs
      BY <1>6, <1>9, <2>2
    <3>2. PICK x : x = Cell(i[p], t)
      OBVIOUS
    <3>3. Reads(<<x>>, <<Initially(x)>>, Source(B, outs))
      BY <1>11, <3>1, <3>2, ReadsOne
    <3>4. Reads(cells[p][t], vals[p][t], Source(B, outs))
      BY <1>7, <3>2, <3>3
    <3>5. Cell(o[p], off + t) \in CellsIn(B)
      BY <1>13, <3>1
    <3> QED BY <3>1, <3>4, <3>5 DEF PartReads
  <2> QED BY <1>5, <2>1, <2>2
<1>15. ASSUME NEW t \in Below(n)
       PROVE  \E x1, x2 : /\ Chained(<<>>, x1, t \in d3[1], cells[1][t], Cell(o[1], off + t), f[1])
                          /\ Chained(x1, x2, t \in d3[2], cells[2][t], Cell(o[2], off + t), f[2])
                          /\ Chained(x2, P[t], t \in d3[3], cells[3][t], Cell(o[3], off + t), f[3])
  <2> DEFINE x1 == Compute(<<>>, <<Cell("k", t)>>, Cell("k_cache", off + t), "copy")
  <2>1. cells[1][t] = <<Cell("k", t)>> /\ cells[2][t] = <<Cell("v", t)>>
    BY <1>6, <1>7
  <2>2. P[t] = Compute(x1, <<Cell("v", t)>>, Cell("v_cache", off + t), "copy")
    BY <1>4
  <2>3. Chained(<<>>, x1, t \in d3[1], cells[1][t], Cell(o[1], off + t), f[1])
    BY <1>6, <2>1 DEF Chained
  <2> HIDE DEF x1
  <2>4. Chained(x1, P[t], t \in d3[2], cells[2][t], Cell(o[2], off + t), f[2])
    BY <1>6, <2>1, <2>2 DEF Chained
  <2>5. Chained(P[t], P[t], t \in d3[3], cells[3][t], Cell(o[3], off + t), f[3])
    BY <1>6 DEF Chained
  <2> QED BY <2>3, <2>4, <2>5
<1>16. Threefold(B, P, n, off, o, f, d3, cells, vals)
  BY <1>14, <1>15 DEF Threefold, outs
<1>17. ThreefoldResult(R, n, off, o, f, d3, vals)
  <2> DEFINE res(p, t) == Result(Cell(o[p], off + t), Term(f[p], vals[p][t]))
  <2>1. \A t, r : r \in PartResults(3, t, off, o, f, d3, vals) <=>
          \E p \in {q \in 1..3 : t \in d3[q]} : r = res(p, t)
    BY Zenon DEF PartResults
  <2>2. ASSUME NEW p \in {1, 2}, NEW g \in Below(K), NEW e \in Below(D)
        PROVE  Makes(B, o[p], place \o <<g, e>>, Term("copy", <<In(B, i[p], <<g, e>>)>>))
                  = res(p, g * D + e)
    <3>1. i[p] \in {"k", "v"} /\ o[p] \in {"k_cache", "v_cache"} /\ p \in 1..3 /\ f[p] = "copy"
      BY <1>6
    <3>2. PICK t \in Below(n) : t = g * D + e
      BY <1>2, PlaceFacts
    <3>3. Element(B, i[p], <<g, e>>, t)
      BY <1>2, <1>3, <3>1, <3>2, Element2
    <3>4. In(B, i[p], <<g, e>>) = Initially(Cell(i[p], t))
      BY <3>3, Zenon DEF Element
    <3>5. vals[p][t] = <<Initially(Cell(i[p], t))>>
      BY <1>7, <3>1
    <3>6. Element(B, o[p], place \o <<g, e>>, off + t)
      BY <1>12, <3>1, <3>2, Zenon
    <3>7. Makes(B, o[p], place \o <<g, e>>, Term("copy", vals[p][t])) = res(p, t)
      BY <3>1, <3>6, Zenon DEF Element
    <3> QED BY <3>2, <3>4, <3>5, <3>7, Zenon
  <2> HIDE DEF res
  <2>3. \A r : r \in R <=> \E p \in {1, 2}, g \in Below(K), e \in Below(D) :
          r = Makes(B, o[p], place \o <<g, e>>, Term("copy", <<In(B, i[p], <<g, e>>)>>))
    <3> DEFINE has(b, cache, r) == \E g \in Below(K), e \in Below(D) :
            r = Makes(B, cache, place \o <<g, e>>, Term("copy", <<In(B, b, <<g, e>>)>>))
    <3>1. \A r : r \in R <=> has("k", "k_cache", r) \/ has("v", "v_cache", r)
      <4>1. \A b, cache, r : r \in kept(b, cache) <=> has(b, cache, r)
        BY <1>8, Zenon
      <4> HIDE DEF has
      <4> QED BY <4>1 DEF R
    <3>2. \A p \in {1, 2} : p = 1 \/ p = 2
      OBVIOUS
    <3>3. \A r : r \in R <=> \E p \in {1, 2} : has(i[p], o[p], r)
      <4> HIDE DEF has
      <4> QED BY <1>6, <3>1, <3>2
    <3> QED BY <3>3, Zenon
  <2>4. \A g \in Below(K), e \in Below(D) : g * D + e \in Below(n)
    BY <1>2, PlaceFacts
  <2>6. ASSUME NEW r PROVE r \in R <=> \E t \in Below(n) : r \in PartResults(3, t, off, o, f, d3, vals)
    <3>1. \A t : r \in PartResults(3, t, off, o, f, d3, vals) <=>
              \E p \in {1, 2} : t \in Below(n) /\ r = res(p, t)
      BY <1>5, <1>6, <2>1
    <3>2. ASSUME r \in R PROVE \E t \in Below(n) : \E p \in {1, 2} : r = res(p, t)
      <4>1. PICK p \in {1, 2}, g \in Below(K), e \in Below(D) :
              r = Makes(B, o[p], place \o <<g, e>>, Term("copy", <<In(B, i[p], <<g, e>>)>>))
        BY <2>3, <3>2, Zenon
      <4>2. r = res(p, g * D + e)
        BY <2>2, <4>1, Zenon
      <4> QED BY <2>4, <4>2, Zenon
    <3>3. ASSUME NEW t \in Below(n), NEW p \in {1, 2} PROVE res(p, t) \in R
      <4>1. PICK g \in Below(K), e \in Below(D) : t = g * D + e
        BY <1>20
      <4> QED BY <2>2, <2>3, <4>1
    <3> QED BY <3>1, <3>2, <3>3
  <2> QED BY <2>6 DEF ThreefoldResult
<1>18. \A p, q \in 1..3 : o[p] = o[q] => p = q
  BY <1>5, <1>6
<1>19. Sound(Guarded(B, n, P, R))
  BY <1>2, <1>16, <1>17, <1>18, ThreefoldSound
<1> QED BY <1>1, <1>19

\* So they do in the caches of one layer and in those of all.
LEMMA KvStoresSound ==
    ASSUME NEW c, Dims(c)
    PROVE  Sound(KvStores(c).kv_store) /\ Sound(KvStores(c).kv_store_layer)
<1> DEFINE K == c.kv_heads
           D == c.head_dim
           L == c.context
           N == c.layers
           l == c.layer
           s == c.token_index
<1>1. /\ K \in Nat /\ D \in Nat /\ L \in Nat /\ N \in Nat /\ l \in Below(N) /\ s \in Below(L)
      /\ l \in Nat /\ s \in Nat
  BY DimsFacts DEF Below
<1>2. kv_total(c) = K * D
  BY DEF kv_total
<1>3. KvStores(c).kv_store = KvStore(c, CacheDims(c), s, <<s>>)
      /\ KvStores(c).kv_store_layer = KvStore(c, <<N>> \o CacheDims(c), l * L + s, <<l, s>>)
  BY DEF KvStores
<1>4. CacheDims(c) = <<L, K, D>> /\ <<N>> \o CacheDims(c) = <<N, L, K, D>>
  BY LayerDims DEF CacheDims
<1> HIDE DEF K, D, L, N, l, s
<1>5. CachePlace(c, <<L, K, D>>, s, <<s>>)
  <2>1. SUFFICES ASSUME NEW B, NEW b \in DOMAIN B, B[b] = <<L, K, D>>,
                        NEW g \in Below(K), NEW d \in Below(D)
                 PROVE  Element(B, b, <<s>> \o <<g, d>>, s * (K * D) + (g * D + d))
    BY <1>2 DEF CachePlace, K, D
  <2>2. Element(B, b, <<s, g, d>>, (s * K + g) * D + d)
    BY <1>1, <2>1, Element3
  <2>3. (s * K + g) * D + d = s * (K * D) + (g * D + d)
    <3>1. g \in Nat /\ d \in Nat
      BY DEF Below
    <3> QED BY <1>1, <3>1
  <2>4. <<s>> \o <<g, d>> = <<s, g, d>>
    BY Places3
  <2> QED BY <2>2, <2>3, <2>4
<1>6. CachePlace(c, <<N, L, K, D>>, l * L + s, <<l, s>>)
  <2>1. SUFFICES ASSUME NEW B, NEW b \in DOMAIN B, B[b] = <<N, L, K, D>>,
                        NEW g \in Below(K), NEW d \in Below(D)
                 PROVE  Element(B, b, <<l, s>> \o <<g, d>>, (l * L + s) * (K * D) + (g * D + d))
    BY <1>2 DEF CachePlace, K, D
  <2>2. Element(B, b, <<l, s, g, d>>, ((l * L + s) * K + g) * D + d)
    BY <1>1, <2>1, Element4
  <2>3. ((l * L + s) * K + g) * D + d = (l * L + s) * (K * D) + (g * D + d)
    <3>1. g \in Nat /\ d \in Nat
      BY DEF Below
    <3>2. PICK x \in Nat : x = l * L + s
      BY <1>1
    <3>3. (x * K + g) * D + d = x * (K * D) + (g * D + d)
      BY <1>1, <3>1
    <3> QED BY <3>2, <3>3
  <2>4. <<l, s>> \o <<g, d>> = <<l, s, g, d>>
    BY Places4
  <2> QED BY <2>2, <2>3, <2>4
<1>7. l * L + s \in Nat
  BY <1>1
<1>8. Sound(KvStore(c, <<L, K, D>>, s, <<s>>)) /\ Sound(KvStore(c, <<N, L, K, D>>, l * L + s, <<l, s>>))
  BY <1>1, <1>5, <1>6, <1>7, KvStoreSound
<1> QED BY <1>3, <1>4, <1>8

-----------------------------------------------------------------------------
\* Copies of queries, keys and values.

\* Element d of head h, counted round the elements of a heads.
LEMMA SharedPlace ==
    ASSUME NEW a \in Nat \ {0}, NEW D \in Nat \ {0}, NEW h \in Nat, NEW d \in Below(D)
    PROVE  ((h * D + d) % (a * D)) = (h % a) * D + d
<1>1. PICK r \in Below(a) : r = (h % a)
  BY SharedHead
<1>2. PICK q \in Nat : q = h \div a
  OBVIOUS
<1>3. h = a * q + r
  BY <1>1, <1>2 DEF Below
<1>4. PICK N \in Nat : N = a * D
  OBVIOUS
<1>5. PICK y : y = r * D + d
  OBVIOUS
<1>6. y \in Below(N)
  BY <1>4, <1>5, PlaceFacts
<1>7. h * D + d = N * q + y
  <2>1. r \in Nat /\ d \in Nat
    BY DEF Below
  <2>2. (a * q + r) * D + d = (a * D) * q + (r * D + d)
    BY <2>1
  <2> QED BY <1>3, <1>4, <1>5, <2>2
<1>8. ((N * q + y) % N) = y
  <2>1. y \in Nat /\ y < N /\ N \in Nat \ {0}
    BY <1>6 DEF Below
  <2> QED BY <2>1
<1> QED BY <1>1, <1>4, <1>5, <1>7, <1>8

\* The parts of QkvCopies: what is copied, from how many heads, to how many.
CopyShapes(B, i, o, a, m, D) ==
    \A p \in 1..3 : /\ {i[p], o[p]} \subseteq DOMAIN B
                    /\ B[i[p]] = <<a[p], D>> /\ B[o[p]] = <<m[p], D>>
                    /\ a[p] \in Nat \ {0} /\ m[p] \in Nat
CopyNames(i, o) == /\ \A p, q \in 1..3 : o[p] = o[q] => p = q
                   /\ \A p, q \in 1..3 : i[p] # o[q]
CopyPrograms(P, n, i, o, a, m, D) == \A t \in Below(n) : \E s1, s2 :
    /\ Chained(<<>>, s1, t < m[1] * D, <<Cell(i[1], t % (a[1] * D))>>, Cell(o[1], t), "copy")
    /\ Chained(s1, s2, t < m[2] * D, <<Cell(i[2], t % (a[2] * D))>>, Cell(o[2], t), "copy")
    /\ Chained(s2, P[t], t < m[3] * D, <<Cell(i[3], t % (a[3] * D))>>, Cell(o[3], t), "copy")
CopyResults(B, R, i, o, a, m, D) == \A r : r \in R <=>
    \E p \in 1..3 : \E h \in Below(m[p]), d \in Below(D) :
        r = Makes(B, o[p], <<h, d>>, Term("copy", <<In(B, i[p], <<h % a[p], d>>)>>))

\* A kernel of such copies is sound.
LEMMA CopiesSound ==
    ASSUME NEW B, NEW P, NEW R, NEW i, NEW o, NEW a, NEW m, NEW D \in Nat \ {0}, NEW n \in Nat,
           CopyShapes(B, i, o, a, m, D), CopyNames(i, o), CopyPrograms(P, n, i, o, a, m, D),
           CopyResults(B, R, i, o, a, m, D),
           \A p \in 1..3 : m[p] * D <= n
    PROVE  Sound(Guarded(B, n, P, R))
<1> DEFINE cell(p, t) == Cell(i[p], t % (a[p] * D))
           d3 == [p \in 1..3 |-> Below(m[p] * D)]
           f == [p \in 1..3 |-> "copy"]
           cells == [p \in 1..3 |-> [t \in Below(n) |-> <<cell(p, t)>>]]
           vals == [p \in 1..3 |-> [t \in Below(n) |-> <<Initially(cell(p, t))>>]]
           outs == {o[1], o[2], o[3]}
<1>0. \A p, q \in 1..3 : (o[p] = o[q] => p = q) /\ i[p] # o[q]
  BY DEF CopyNames
<1>1. \A p \in 1..3 : p = 1 \/ p = 2 \/ p = 3
  OBVIOUS
<1>2. \A p \in 1..3 : d3[p] = Below(m[p] * D) /\ f[p] = "copy"
  OBVIOUS
<1>3. \A p \in 1..3 : \A t \in Below(n) : /\ cells[p][t] = <<cell(p, t)>>
                                          /\ vals[p][t] = <<Initially(cell(p, t))>>
  <2> HIDE DEF cell
  <2> QED OBVIOUS
<1>4. \A p \in 1..3 : o[p] \in outs /\ i[p] \notin outs
  BY <1>0, <1>1
<1>5. \A p \in 1..3 : Below(m[p] * D) \subseteq Below(n)
  <2>1. \A p \in 1..3 : m[p] * D \in Nat
    BY DEF CopyShapes
  <2> QED BY <2>1 DEF Below
<1>6. \A p \in 1..3, t \in Below(n) : 0 + t = t /\ (t \in d3[p] <=> t < m[p] * D)
  <2>1. \A t \in Below(n) : t \in Nat
    BY DEF Below
  <2>2. \A p \in 1..3 : m[p] * D \in Nat
    BY DEF CopyShapes
  <2> QED BY <1>2, <2>1, <2>2 DEF Below
<1> HIDE DEF d3, f, cells, vals, outs
<1>7. ASSUME NEW p \in 1..3, NEW h \in Below(m[p]), NEW d \in Below(D)
      PROVE  /\ Element(B, o[p], <<h, d>>, h * D + d)
             /\ Element(B, i[p], <<h % a[p], d>>, (h * D + d) % (a[p] * D))
             /\ h * D + d \in Below(m[p] * D)
  <2>1. /\ i[p] \in DOMAIN B /\ o[p] \in DOMAIN B /\ B[i[p]] = <<a[p], D>> /\ B[o[p]] = <<m[p], D>>
        /\ a[p] \in Nat \ {0} /\ m[p] \in Nat /\ a[p] \in Nat /\ D \in Nat
    BY DEF CopyShapes
  <2>2. Element(B, o[p], <<h, d>>, h * D + d) /\ h * D + d \in Below(m[p] * D)
    BY <2>1, Element2, PlaceFacts
  <2>3. h \in Nat
    BY DEF Below
  <2>4. PICK g \in Below(a[p]) : g = (h % a[p])
    BY <2>1, <2>3, SharedHead
  <2>5. Element(B, i[p], <<g, d>>, g * D + d)
    BY <2>1, Element2
  <2>6. ((h * D + d) % (a[p] * D)) = g * D + d
    BY <2>1, <2>3, <2>4, SharedPlace
  <2> QED BY <2>2, <2>4, <2>5, <2>6
<1>8. \A p \in 1..3 : \A t \in Below(m[p] * D) : \E h \in Below(m[p]), d \in Below(D) : t = h * D + d
  <2>1. SUFFICES ASSUME NEW p \in 1..3, NEW t \in Below(m[p] * D)
                 PROVE  \E h \in Below(m[p]), d \in Below(D) : t = h * D + d
    OBVIOUS
  <2>2. m[p] \in Nat
    BY DEF CopyShapes
  <2>3. PICK h \in Below(m[p]) : h = t \div D
    BY <2>2, PlaceSplits
  <2>4. PICK d \in Below(D) : d = (t % D)
    BY <2>2, PlaceSplits
  <2>5. t = h * D + d
    BY <2>2, <2>3, <2>4, PlaceSplits
  <2> QED BY <2>5
<1>9. ASSUME NEW t \in Below(n), NEW p \in 1..3
      PROVE  PartReads(B, t, p, outs, 0, o, d3, cells, vals)
  <2>1. ASSUME t \in d3[p]
        PROVE  /\ Reads(cells[p][t], vals[p][t], Source(B, outs))
               /\ o[p] \in outs
               /\ Cell(o[p], 0 + t) \in CellsIn(B)
    <3>1. PICK h \in Below(m[p]), d \in Below(D) : t = h * D + d
      BY <1>2, <1>8, <2>1
    <3>2. Element(B, o[p], <<h, d>>, t) /\ Element(B, i[p], <<h % a[p], d>>, t % (a[p] * D))
      BY <1>7, <3>1
    <3>3. PICK x : x = cell(p, t)
      OBVIOUS
    <3>4. x \in Source(B, outs)
      BY <1>4, <3>2, <3>3 DEF Element, Source, Cell
    <3>5. Reads(<<x>>, <<Initially(x)>>, Source(B, outs))
      BY <3>4, ReadsOne
    <3>6. cells[p][t] = <<x>> /\ vals[p][t] = <<Initially(x)>>
      BY <1>3, <3>3
    <3>7. Cell(o[p], 0 + t) \in CellsIn(B)
      BY <1>6, <3>2 DEF Element
    <3> QED BY <1>4, <3>5, <3>6, <3>7
  <2> QED BY <2>1 DEF PartReads
<1>10. ASSUME NEW t \in Below(n)
       PROVE  \E x1, x2 : /\ Chained(<<>>, x1, t \in d3[1], cells[1][t], Cell(o[1], 0 + t), f[1])
                          /\ Chained(x1, x2, t \in d3[2], cells[2][t], Cell(o[2], 0 + t), f[2])
                          /\ Chained(x2, P[t], t \in d3[3], cells[3][t], Cell(o[3], 0 + t), f[3])
  <2>1. PICK s1, s2 :
         /\ Chained(<<>>, s1, t < m[1] * D, <<cell(1, t)>>, Cell(o[1], t), "copy")
         /\ Chained(s1, s2, t < m[2] * D, <<cell(2, t)>>, Cell(o[2], t), "copy")
         /\ Chained(s2, P[t], t < m[3] * D, <<cell(3, t)>>, Cell(o[3], t), "copy")
    BY Zenon DEF CopyPrograms
  <2>2. 1 \in 1..3 /\ 2 \in 1..3 /\ 3 \in 1..3
    OBVIOUS
  <2>3. /\ cells[1][t] = <<cell(1, t)>> /\ cells[2][t] = <<cell(2, t)>>
        /\ cells[3][t] = <<cell(3, t)>> /\ 0 + t = t
        /\ f[1] = "copy" /\ f[2] = "copy" /\ f[3] = "copy"
        /\ t \in d3[1] <=> t < m[1] * D
    BY <1>2, <1>3, <1>6, <2>2
  <2>4. (t \in d3[2] <=> t < m[2] * D) /\ (t \in d3[3] <=> t < m[3] * D)
    BY <1>6, <2>2
  <2>5. t \in d3[1] <=> t < m[1] * D
    BY <1>6, <2>2
  <2> HIDE DEF cell
  <2>6. /\ Chained(<<>>, s1, t \in d3[1], cells[1][t], Cell(o[1], 0 + t), f[1])
        /\ Chained(s1, s2, t \in d3[2], cells[2][t], Cell(o[2], 0 + t), f[2])
        /\ Chained(s2, P[t], t \in d3[3], cells[3][t], Cell(o[3], 0 + t), f[3])
    BY <2>1, <2>3, <2>4, <2>5 DEF Chained
  <2> QED BY <2>6
<1>11. Threefold(B, P, n, 0, o, f, d3, cells, vals)
  BY <1>9, <1>10 DEF Threefold, outs
<1>12. ThreefoldResult(R, n, 0, o, f, d3, vals)
  <2> DEFINE res(p, t) == Result(Cell(o[p], 0 + t), Term(f[p], vals[p][t]))
  <2>1. \A t, r : r \in PartResults(3, t, 0, o, f, d3, vals) <=>
          \E p \in {q \in 1..3 : t \in d3[q]} : r = res(p, t)
    BY Zenon DEF PartResults
  <2>2. ASSUME NEW p \in 1..3, NEW h \in Below(m[p]), NEW d \in Below(D)
        PROVE  Makes(B, o[p], <<h, d>>, Term("copy", <<In(B, i[p], <<h % a[p], d>>)>>))
                  = res(p, h * D + d)
    <3>1. PICK t \in Below(n) : t = h * D + d
      BY <1>5, <1>7
    <3>2. Element(B, o[p], <<h, d>>, t) /\ Element(B, i[p], <<h % a[p], d>>, t % (a[p] * D))
      BY <1>7, <3>1
    <3>3. In(B, i[p], <<h % a[p], d>>) = Initially(cell(p, t))
      BY <3>2, Zenon DEF Element
    <3>4. vals[p][t] = <<Initially(cell(p, t))>> /\ 0 + t = t /\ f[p] = "copy"
      BY <1>2, <1>3, <1>6
    <3>5. Makes(B, o[p], <<h, d>>, Term("copy", vals[p][t])) = res(p, t)
      <4>1. \A v : Makes(B, o[p], <<h, d>>, v) = Result(Cell(o[p], t), v)
        BY <3>2, Zenon DEF Element
      <4> QED BY <3>4, <4>1
    <3> QED BY <3>1, <3>3, <3>4, <3>5, Zenon
  <2> HIDE DEF res
  <2>3. ASSUME NEW r PROVE r \in R <=> \E t \in Below(n) : r \in PartResults(3, t, 0, o, f, d3, vals)
    <3>1. \A t : r \in PartResults(3, t, 0, o, f, d3, vals) <=>
              \E p \in 1..3 : t \in Below(m[p] * D) /\ r = res(p, t)
      BY <1>2, <2>1
    <3>2. ASSUME r \in R PROVE \E t \in Below(n) : r \in PartResults(3, t, 0, o, f, d3, vals)
      <4>1. PICK p \in 1..3 : \E h \in Below(m[p]), d \in Below(D) :
               r = Makes(B, o[p], <<h, d>>, Term("copy", <<In(B, i[p], <<h % a[p], d>>)>>))
        BY <3>2, Zenon DEF CopyResults
      <4>2. PICK h \in Below(m[p]), d \in Below(D) :
               r = Makes(B, o[p], <<h, d>>, Term("copy", <<In(B, i[p], <<h % a[p], d>>)>>))
        BY <4>1, Zenon
      <4>3. r = res(p, h * D + d)
        BY <2>2, <4>2, Zenon
      <4>4. h * D + d \in Below(m[p] * D) /\ h * D + d \in Below(n)
        BY <1>5, <1>7
      <4> QED BY <3>1, <4>3, <4>4, Zenon
    <3>3. ASSUME NEW t, NEW p \in 1..3, t \in Below(m[p] * D), r = res(p, t) PROVE r \in R
      <4>1. PICK h \in Below(m[p]), d \in Below(D) : t = h * D + d
        BY <1>8, <3>3
      <4>2. r = Makes(B, o[p], <<h, d>>, Term("copy", <<In(B, i[p], <<h % a[p], d>>)>>))
        BY <2>2, <3>3, <4>1, Zenon
      <4> QED BY <4>2, Zenon DEF CopyResults
    <3> QED BY <3>1, <3>2, <3>3
  <2> QED BY <2>3 DEF ThreefoldResult
<1>13. Sound(Guarded(B, n, P, R))
  BY <1>0, <1>11, <1>12, ThreefoldSound
<1> QED BY <1>13

\* mixed_qkv and qkv_gqa are: every key head is copied as often as there is room for.
LEMMA QkvCopiesSound ==
    ASSUME NEW c, Dims(c), NEW heads \in {c.q_heads, c.kv_heads}
    PROVE  Sound(QkvCopies(c, heads))
<1> DEFINE D == c.head_dim
           B == [q_in |-> <<c.q_heads, D>>, k_in |-> <<c.kv_heads, D>>,
              v_in |-> <<c.kv_heads, D>>, q_out |-> <<c.q_heads, D>>,
              k_out |-> <<heads, D>>, v_out |-> <<heads, D>>]
           copy(steps, from, j, to, tid) == Compute(steps, <<Cell(from, j)>>, Cell(to, tid), "copy")
           shared(steps, from, to, tid) ==
              IF tid < heads * D THEN copy(steps, from, tid % kv_total(c), to, tid) ELSE steps
           P == [tid \in Below(q_total(c)) |->
                       shared(shared(copy(<<>>, "q_in", tid, "q_out", tid),
                                     "k_in", "k_out", tid), "v_in", "v_out", tid)]
           copies(from, n, to, m) == {Makes(B, to, <<h, d>>,
                Term("copy", <<In(B, from, <<h % n, d>>)>>))
                   : h \in Below(m), d \in Below(D)}
           R == copies("q_in", c.q_heads, "q_out", c.q_heads)
                   \cup copies("k_in", c.kv_heads, "k_out", heads)
                   \cup copies("v_in", c.kv_heads, "v_out", heads)
           i == <<"q_in", "k_in", "v_in">>
           o == <<"q_out", "k_out", "v_out">>
           a == <<c.q_heads, c.kv_heads, c.kv_heads>>
           m == <<c.q_heads, heads, heads>>
           n == q_total(c)
<1>1. QkvCopies(c, heads) = Guarded(B, n, P, R)
  BY DEF QkvCopies
<1>2. /\ c.q_heads \in Nat \ {0} /\ c.kv_heads \in Nat \ {0} /\ D \in Nat \ {0}
      /\ heads \in Nat /\ heads <= c.q_heads
      /\ n = c.q_heads * D /\ kv_total(c) = c.kv_heads * D
  BY DimsFacts DEF q_total, kv_total
<1>3. /\ DOMAIN B = {"q_in", "k_in", "v_in", "q_out", "k_out", "v_out"}
      /\ B["q_in"] = <<c.q_heads, D>> /\ B["k_in"] = <<c.kv_heads, D>>
      /\ B["v_in"] = <<c.kv_heads, D>> /\ B["q_out"] = <<c.q_heads, D>>
      /\ B["k_out"] = <<heads, D>> /\ B["v_out"] = <<heads, D>>
  OBVIOUS
<1>4. \A t \in Below(n) : P[t] = shared(shared(copy(<<>>, "q_in", t, "q_out", t),
                                               "k_in", "k_out", t), "v_in", "v_out", t)
  <2> HIDE DEF shared, copy
  <2> QED OBVIOUS
<1>5. \A p \in 1..3 : p = 1 \/ p = 2 \/ p = 3
  OBVIOUS
<1>6. /\ i[1] = "q_in" /\ i[2] = "k_in" /\ i[3] = "v_in"
      /\ o[1] = "q_out" /\ o[2] = "k_out" /\ o[3] = "v_out"
      /\ a[1] = c.q_heads /\ a[2] = c.kv_heads /\ a[3] = c.kv_heads
      /\ m[1] = c.q_heads /\ m[2] = heads /\ m[3] = heads
  OBVIOUS
<1> DEFINE has(from, k, to, l, r) == \E h \in Below(l), d \in Below(D) :
        r = Makes(B, to, <<h, d>>, Term("copy", <<In(B, from, <<h % k, d>>)>>))
<1>7. \A from, k, to, l, r : r \in copies(from, k, to, l) <=> has(from, k, to, l, r)
  <2> HIDE DEF B, D
  <2> QED OBVIOUS
<1>8. \A r : r \in R <=> \/ has("q_in", c.q_heads, "q_out", c.q_heads, r)
                         \/ has("k_in", c.kv_heads, "k_out", heads, r)
                         \/ has("v_in", c.kv_heads, "v_out", heads, r)
  <2> HIDE DEF copies, has
  <2> QED BY <1>7
<1> HIDE DEF D, B, P, R, i, o, a, m, n, copies
<1>9. CopyShapes(B, i, o, a, m, D)
  BY <1>2, <1>3, <1>5, <1>6 DEF CopyShapes
<1>10. CopyNames(i, o)
  BY <1>5, <1>6 DEF CopyNames
<1>11. CopyPrograms(P, n, i, o, a, m, D)
  <2>1. ASSUME NEW t \in Below(n)
        PROVE  \E s1, s2 :
          /\ Chained(<<>>, s1, t < m[1] * D, <<Cell(i[1], t % (a[1] * D))>>, Cell(o[1], t), "copy")
          /\ Chained(s1, s2, t < m[2] * D, <<Cell(i[2], t % (a[2] * D))>>, Cell(o[2], t), "copy")
          /\ Chained(s2, P[t], t < m[3] * D, <<Cell(i[3], t % (a[3] * D))>>, Cell(o[3], t), "copy")
    <3> DEFINE s1 == copy(<<>>, "q_in", t, "q_out", t)
               s2 == shared(s1, "k_in", "k_out", t)
    <3>1. P[t] = shared(s2, "v_in", "v_out", t)
      BY <1>4
    <3>2. t < m[1] * D /\ (t % (a[1] * D)) = t
      <4>1. n \in Nat /\ t \in Nat /\ t < n
        BY <1>2 DEF Below
      <4>2. (t % n) = t
        BY <4>1
      <4> QED BY <1>2, <1>6, <4>1, <4>2
    <3>3. Chained(<<>>, s1, t < m[1] * D, <<Cell(i[1], t % (a[1] * D))>>, Cell(o[1], t), "copy")
      BY <1>6, <3>2 DEF Chained
    <3> HIDE DEF s1
    <3>4. Chained(s1, s2, t < m[2] * D, <<Cell(i[2], t % (a[2] * D))>>, Cell(o[2], t), "copy")
      BY <1>2, <1>6 DEF Chained
    <3> HIDE DEF s2
    <3>5. Chained(s2, P[t], t < m[3] * D, <<Cell(i[3], t % (a[3] * D))>>, Cell(o[3], t), "copy")
      BY <1>2, <1>6, <3>1 DEF Chained
    <3> QED BY <3>3, <3>4, <3>5
  <2> QED BY <2>1, Zenon DEF CopyPrograms
<1>12. CopyResults(B, R, i, o, a, m, D)
  <2>1. \A r : r \in R <=> \E p \in 1..3 : has(i[p], a[p], o[p], m[p], r)
    <3> HIDE DEF has
    <3>1. 1 \in 1..3 /\ 2 \in 1..3 /\ 3 \in 1..3
      OBVIOUS
    <3> QED BY <1>5, <1>6, <1>8, <3>1
  <2> QED BY <2>1, Zenon DEF CopyResults
<1>13. \A p \in 1..3 : m[p] * D <= n
  <2>1. heads * D <= c.q_heads * D
    BY <1>2
  <2> QED BY <1>2, <1>5, <1>6, <2>1
<1>14. n \in Nat
  BY <1>2
<1>15. Sound(Guarded(B, n, P, R))
  BY <1>2, <1>9, <1>10, <1>11, <1>12, <1>13, <1>14, CopiesSound
<1> QED BY <1>1, <1>15

-----------------------------------------------------------------------------
\* Moves between qkv and q, k and v.

\* Thread t copies cell from[t] to cell to[t].
Moves(B, P, n, from, to) ==
    /\ \A t \in Below(n) : /\ P[t] = Compute(<<>>, <<from[t]>>, to[t], "copy")
                           /\ from[t] \in CellsIn(B) /\ to[t] \in CellsIn(B)
    /\ \A t, u \in Below(n) : (to[t] = to[u] => t = u) /\ to[t] # from[u]
MoveResults(R, n, from, to) == \A r : r \in R <=>
    \E t \in Below(n) : r = Result(to[t], Term("copy", <<Initially(from[t])>>))

\* A thread that moves an element makes one store.
LEMMA MovesOne ==
    ASSUME NEW B, NEW P, NEW R, NEW n, NEW from, NEW to,
           Moves(B, P, n, from, to), MoveResults(R, n, from, to)
    PROVE  \E cells : /\ OneStore(B, P, Below(n), cells, to, "copy")
                      /\ OneResult(R, Below(n), cells, to, "copy")
<1> DEFINE cells == [t \in Below(n) |-> <<from[t]>>]
<1>1. \A t \in Below(n) : cells[t] = <<from[t]>>
  OBVIOUS
<1> HIDE DEF cells
<1>2. \A t \in Below(n) : /\ IsSeq(cells[t]) /\ CellSet(cells[t]) = {from[t]}
                          /\ Before(cells[t]) = <<Initially(from[t])>>
  <2>1. SUFFICES ASSUME NEW t \in Below(n)
                 PROVE  /\ IsSeq(cells[t]) /\ CellSet(cells[t]) = {from[t]}
                        /\ Before(cells[t]) = <<Initially(from[t])>>
    OBVIOUS
  <2>2. PICK x : x = from[t]
    OBVIOUS
  <2>3. x \in {x}
    OBVIOUS
  <2>4. Reads(<<x>>, <<Initially(x)>>, {x})
    BY <2>3, ReadsOne
  <2>5. Before(<<x>>) = <<Initially(x)>> /\ IsSeq(<<x>>)
    BY <2>4, ReadsFacts
  <2>6. CellSet(<<x>>) = {x}
    BY CellSetSmall
  <2> QED BY <1>1, <2>2, <2>5, <2>6
<1>3. OneStore(B, P, Below(n), cells, to, "copy")
  <2>1. ASSUME NEW t \in Below(n)
        PROVE  /\ P[t] = Compute(<<>>, cells[t], to[t], "copy")
               /\ IsSeq(cells[t]) /\ CellSet(cells[t]) \subseteq CellsIn(B) /\ to[t] \in CellsIn(B)
    <3>1. /\ P[t] = Compute(<<>>, <<from[t]>>, to[t], "copy")
          /\ from[t] \in CellsIn(B) /\ to[t] \in CellsIn(B)
      BY DEF Moves
    <3> QED BY <1>1, <1>2, <3>1
  <2>2. \A t, u \in Below(n) : (to[t] = to[u] => t = u) /\ to[t] # from[u]
    BY DEF Moves
  <2>3. \A u \in Below(n) : CellSet(cells[u]) = {from[u]}
    BY <1>2
  <2> QED BY <2>1, <2>2, <2>3 DEF OneStore
<1>4. OneResult(R, Below(n), cells, to, "copy")
  BY <1>2 DEF MoveResults, OneResult
<1> QED BY <1>3, <1>4

\* So a kernel of them is sound.
LEMMA MovesSound ==
    ASSUME NEW B, NEW P, NEW R, NEW n \in Nat, NEW from, NEW to,
           Moves(B, P, n, from, to), MoveResults(R, n, from, to)
    PROVE  Sound(Guarded(B, n, P, R))
BY MovesOne, OneEachSound

\* The same for a kernel without a guard.
LEMMA MovesSoundExactly ==
    ASSUME NEW B, NEW P, NEW R, NEW n \in Nat \ {0}, DOMAIN P = Below(n), NEW from, NEW to,
           Moves(B, P, n, from, to), MoveResults(R, n, from, to)
    PROVE  Sound(Kernel(B, P, R))
<1>1. \E acc, W : Separately(B, P, Below(n), acc, W) /\ Together(R, Below(n), W)
  BY MovesOne, OneEach
<1>2. 0 \in Below(n)
  BY DEF Below
<1> QED BY <1>1, <1>2, WritesSound

\* Where the elements of the vector qkv belong.
LEMMA QkvPlaces ==
    ASSUME NEW c, Dims(c)
    PROVE  /\ qkv_total(c) \in Nat \ {0}
           /\ \A t \in Below(qkv_total(c)) : \E p \in Places(c) : t = p[2] + p[3]
           /\ \A p \in Places(c) :
                 /\ p[2] + p[3] \in Below(qkv_total(c))
                 /\ qkv_place(c, p[2] + p[3]) = Cell(p[1], p[3])
                 /\ Element(QkvBuffers(c), p[1], <<p[3]>>, p[3])
                 /\ Element(QkvBuffers(c), "qkv", <<p[2] + p[3]>>, p[2] + p[3])
                 /\ p[1] # "qkv"
           /\ \A p, q \in Places(c) : p[1] = q[1] => p[2] = q[2]
<1> DEFINE n == q_total(c)
           m == kv_total(c)
           B == QkvBuffers(c)
           T == qkv_total(c)
<1>1. n \in Nat \ {0} /\ m \in Nat \ {0} /\ T = n + 2 * m
  BY TotalsFacts DEF qkv_total
<1>2. /\ DOMAIN B = {"qkv", "q", "k", "v"} /\ B["qkv"] = <<T>> /\ B["q"] = <<n>>
      /\ B["k"] = <<m>> /\ B["v"] = <<m>>
  BY DEF QkvBuffers, qkv_total
<1>3. \A p : p \in Places(c) <=> \/ \E i \in Below(n) : p = <<"q", 0, i>>
                                 \/ \E i \in Below(m) : p = <<"k", n, i>>
                                 \/ \E i \in Below(m) : p = <<"v", n + m, i>>
  BY DEF Places
<1>4. \A t : qkv_place(c, t) = IF t < n THEN Cell("q", t)
                               ELSE IF t < n + m THEN Cell("k", t - n) ELSE Cell("v", t - n - m)
  BY DEF qkv_place
<1> HIDE DEF n, m, B, T
<1>5. \A p \in Places(c) : \/ p[1] = "q" /\ p[2] = 0 /\ p[3] \in Below(n)
                           \/ p[1] = "k" /\ p[2] = n /\ p[3] \in Below(m)
                           \/ p[1] = "v" /\ p[2] = n + m /\ p[3] \in Below(m)
  BY <1>3
<1>6. ASSUME NEW t \in Below(T) PROVE \E p \in Places(c) : t = p[2] + p[3]
  <2>1. t \in Nat /\ t < n + 2 * m
    BY <1>1 DEF Below
  <2>2. CASE t < n
    <3>1. t \in Below(n) /\ t = 0 + t
      BY <1>1, <2>1, <2>2 DEF Below
    <3>2. <<"q", 0, t>> \in Places(c)
      BY <1>3, <3>1
    <3> QED BY <3>1, <3>2
  <2>3. CASE t >= n /\ t < n + m
    <3>1. PICK i \in Below(m) : i = t - n
      BY <1>1, <2>1, <2>3 DEF Below
    <3>2. <<"k", n, i>> \in Places(c) /\ t = n + i
      BY <1>1, <1>3, <2>1, <3>1
    <3> QED BY <3>2
  <2>4. CASE t >= n + m
    <3>1. PICK i \in Below(m) : i = t - n - m
      BY <1>1, <2>1, <2>4 DEF Below
    <3>2. <<"v", n + m, i>> \in Places(c) /\ t = (n + m) + i
      BY <1>1, <1>3, <2>1, <3>1
    <3> QED BY <3>2
  <2> QED BY <1>1, <2>1, <2>2, <2>3, <2>4
<1>7. ASSUME NEW p \in Places(c)
      PROVE  /\ p[2] + p[3] \in Below(T)
             /\ qkv_place(c, p[2] + p[3]) = Cell(p[1], p[3])
             /\ p[1] \in DOMAIN B /\ p[1] # "qkv"
             /\ \E a \in Nat : B[p[1]] = <<a>> /\ p[3] \in Below(a)
  <2>1. CASE p[1] = "q" /\ p[2] = 0 /\ p[3] \in Below(n)
    <3>1. 0 + p[3] = p[3] /\ p[3] < n /\ p[3] \in Below(T)
      BY <1>1, <2>1 DEF Below
    <3> QED BY <1>1, <1>2, <1>4, <2>1, <3>1
  <2>2. CASE p[1] = "k" /\ p[2] = n /\ p[3] \in Below(m)
    <3>1. /\ (n + p[3]) - n = p[3] /\ ~(n + p[3] < n) /\ n + p[3] < n + m /\ n + p[3] \in Below(T)
      BY <1>1, <2>2 DEF Below
    <3> QED BY <1>1, <1>2, <1>4, <2>2, <3>1
  <2>3. CASE p[1] = "v" /\ p[2] = n + m /\ p[3] \in Below(m)
    <3>1. /\ ((n + m) + p[3]) - n - m = p[3] /\ ~((n + m) + p[3] < n)
          /\ ~((n + m) + p[3] < n + m) /\ (n + m) + p[3] \in Below(T)
      BY <1>1, <2>3 DEF Below
    <3> QED BY <1>1, <1>2, <1>4, <2>3, <3>1
  <2> QED BY <1>5, <2>1, <2>2, <2>3
<1>8. ASSUME NEW p \in Places(c)
      PROVE  /\ Element(B, p[1], <<p[3]>>, p[3])
             /\ Element(B, "qkv", <<p[2] + p[3]>>, p[2] + p[3])
  <2>1. PICK a \in Nat : B[p[1]] = <<a>> /\ p[3] \in Below(a)
    BY <1>7
  <2>2. p[1] \in DOMAIN B /\ p[2] + p[3] \in Below(T)
    BY <1>7
  <2>3. T \in Nat /\ "qkv" \in DOMAIN B /\ B["qkv"] = <<T>>
    BY <1>1, <1>2
  <2> QED BY <2>1, <2>2, <2>3, Element1
<1>9. \A p, q \in Places(c) : p[1] = q[1] => p[2] = q[2]
  BY <1>5
<1>10. T \in Nat \ {0}
  BY <1>1
<1> QED BY <1>6, <1>7, <1>8, <1>9, <1>10 DEF B, T

\* The parts of a kernel that guards its thread number.
LEMMA GuardedFields ==
    ASSUME NEW B, NEW n, NEW P, NEW R
    PROVE  /\ Guarded(B, n, P, R).buffers = B /\ Guarded(B, n, P, R).result = R
           /\ Guarded(B, n, P, R).program = [tid \in 0..n |-> IF tid >= n THEN <<>> ELSE P[tid]]
BY DEF Guarded, Kernel

\* qkv_split takes every element to its place in q, k or v ...
LEMMA SplitSound == ASSUME NEW c, Dims(c) PROVE Sound(Split(c))
<1> DEFINE B == QkvBuffers(c)
           T == qkv_total(c)
           P == [tid \in Below(qkv_total(c)) |->
                       Compute(<<>>, <<Cell("qkv", tid)>>, qkv_place(c, tid), "copy")]
           R == {Makes(B, p[1], <<p[3]>>, Term("copy", <<In(B, "qkv", <<p[2] + p[3]>>)>>))
                   : p \in Places(c)}
           from == [t \in Below(T) |-> Cell("qkv", t)]
           to == [t \in Below(T) |-> qkv_place(c, t)]
<1>1. Split(c) = Guarded(B, T, P, R)
  BY Zenon DEF Split
<1>2. \A t \in Below(T) : /\ P[t] = Compute(<<>>, <<from[t]>>, to[t], "copy")
                          /\ from[t] = Cell("qkv", t) /\ to[t] = qkv_place(c, t)
  OBVIOUS
<1>3. \A r : r \in R <=> \E p \in Places(c) :
          r = Makes(B, p[1], <<p[3]>>, Term("copy", <<In(B, "qkv", <<p[2] + p[3]>>)>>))
  <2> HIDE DEF B
  <2> QED BY Zenon
<1>4. /\ T \in Nat \ {0}
      /\ \A t \in Below(T) : \E p \in Places(c) : t = p[2] + p[3]
      /\ \A p \in Places(c) : /\ p[2] + p[3] \in Below(T)
                              /\ qkv_place(c, p[2] + p[3]) = Cell(p[1], p[3])
                              /\ Element(B, p[1], <<p[3]>>, p[3])
                              /\ Element(B, "qkv", <<p[2] + p[3]>>, p[2] + p[3])
                              /\ p[1] # "qkv"
      /\ \A p, q \in Places(c) : p[1] = q[1] => p[2] = q[2]
  BY QkvPlaces
<1> HIDE DEF B, T, P, R, from, to
<1>5. \A p \in Places(c) : /\ from[p[2] + p[3]] = Cell("qkv", p[2] + p[3])
                           /\ to[p[2] + p[3]] = Cell(p[1], p[3])
  BY <1>2, <1>4
<1>6. \A t, u \in Below(T) : (to[t] = to[u] => t = u) /\ to[t] # from[u]
  <2>1. SUFFICES ASSUME NEW t \in Below(T), NEW u \in Below(T)
                 PROVE  (to[t] = to[u] => t = u) /\ to[t] # from[u]
    OBVIOUS
  <2>2. PICK p \in Places(c) : t = p[2] + p[3]
    BY <1>4
  <2>3. PICK q \in Places(c) : u = q[2] + q[3]
    BY <1>4
  <2>4. /\ to[t] = Cell(p[1], p[3]) /\ to[u] = Cell(q[1], q[3]) /\ p[1] # "qkv"
        /\ from[u] = Cell("qkv", u)
    BY <1>2, <1>4, <1>5, <2>2, <2>3
  <2>5. ASSUME to[t] = to[u] PROVE t = u
    <3>3. Cell(p[1], p[3]) = Cell(q[1], q[3])
      BY <2>4, <2>5
    <3>1. p[1] = q[1] /\ p[3] = q[3]
      BY <3>3 DEF Cell
    <3>2. p[2] = q[2]
      BY <1>4, <3>1
    <3> QED BY <2>2, <2>3, <3>1, <3>2
  <2> QED BY <2>4, <2>5, CellIs
<1>7. \A t \in Below(T) : from[t] \in CellsIn(B) /\ to[t] \in CellsIn(B)
  BY <1>4, <1>5 DEF Element
<1>8. Moves(B, P, T, from, to)
  BY <1>2, <1>6, <1>7 DEF Moves
<1>9. \A p \in Places(c) :
        Makes(B, p[1], <<p[3]>>, Term("copy", <<In(B, "qkv", <<p[2] + p[3]>>)>>))
          = Result(to[p[2] + p[3]], Term("copy", <<Initially(from[p[2] + p[3]])>>))
  <2>1. SUFFICES ASSUME NEW p \in Places(c), NEW t, t = p[2] + p[3]
                 PROVE Makes(B, p[1], <<p[3]>>, Term("copy", <<In(B, "qkv", <<t>>)>>))
                         = Result(to[t], Term("copy", <<Initially(from[t])>>))
    OBVIOUS
  <2>2. Element(B, p[1], <<p[3]>>, p[3]) /\ Element(B, "qkv", <<t>>, t)
    BY <1>4, <2>1
  <2>3. In(B, "qkv", <<t>>) = Initially(from[t]) /\ to[t] = Cell(p[1], p[3])
    BY <1>5, <2>1, <2>2, Zenon DEF Element
  <2> QED BY <2>2, <2>3, Zenon DEF Element
<1>10. MoveResults(R, T, from, to)
  <2>1. ASSUME NEW r PROVE r \in R <=> \E t \in Below(T) : r = Result(to[t], Term("copy", <<Initially(from[t])>>))
    <3>1. ASSUME r \in R PROVE \E t \in Below(T) : r = Result(to[t], Term("copy", <<Initially(from[t])>>))
      <4>1. PICK p \in Places(c) :
              r = Makes(B, p[1], <<p[3]>>, Term("copy", <<In(B, "qkv", <<p[2] + p[3]>>)>>))
        BY <1>3, <3>1, Zenon
      <4>2. r = Result(to[p[2] + p[3]], Term("copy", <<Initially(from[p[2] + p[3]])>>))
        BY <1>9, <4>1, Zenon
      <4> QED BY <1>4, <4>2, Zenon
    <3>2. ASSUME NEW t \in Below(T), r = Result(to[t], Term("copy", <<Initially(from[t])>>))
          PROVE  r \in R
      <4>1. PICK p \in Places(c) : t = p[2] + p[3]
        BY <1>4
      <4>2. r = Makes(B, p[1], <<p[3]>>, Term("copy", <<In(B, "qkv", <<p[2] + p[3]>>)>>))
        BY <1>9, <3>2, <4>1, Zenon
      <4> QED BY <1>3, <4>2, Zenon
    <3> QED BY <3>1, <3>2
  <2> QED BY <2>1 DEF MoveResults
<1>11. Sound(Guarded(B, T, P, R))
  BY <1>4, <1>8, <1>10, MovesSound
<1> QED BY <1>1, <1>11

\* ... and qkv_concat takes it back, with a guard and without.
LEMMA ConcatSound == ASSUME NEW c, Dims(c) PROVE Sound(Concat(c)) /\ Sound(qkv_head_lift(c))
<1> DEFINE B == QkvBuffers(c)
           T == qkv_total(c)
           P == [tid \in Below(qkv_total(c)) |->
                       Compute(<<>>, <<qkv_place(c, tid)>>, Cell("qkv", tid), "copy")]
           R == {Makes(B, "qkv", <<p[2] + p[3]>>, Term("copy", <<In(B, p[1], <<p[3]>>)>>))
                   : p \in Places(c)}
           from == [t \in Below(T) |-> qkv_place(c, t)]
           to == [t \in Below(T) |-> Cell("qkv", t)]
           k == Concat(c)
           Q == [tid \in Below(T) |-> k.program[tid]]
<1>1. k = Guarded(B, T, P, R)
  BY Zenon DEF Concat
<1>2. \A t \in Below(T) : /\ P[t] = Compute(<<>>, <<from[t]>>, to[t], "copy")
                          /\ from[t] = qkv_place(c, t) /\ to[t] = Cell("qkv", t)
  OBVIOUS
<1>3. \A r : r \in R <=> \E p \in Places(c) :
          r = Makes(B, "qkv", <<p[2] + p[3]>>, Term("copy", <<In(B, p[1], <<p[3]>>)>>))
  <2> HIDE DEF B
  <2> QED BY Zenon
<1>4. /\ T \in Nat \ {0}
      /\ \A t \in Below(T) : \E p \in Places(c) : t = p[2] + p[3]
      /\ \A p \in Places(c) : /\ p[2] + p[3] \in Below(T)
                              /\ qkv_place(c, p[2] + p[3]) = Cell(p[1], p[3])
                              /\ Element(B, p[1], <<p[3]>>, p[3])
                              /\ Element(B, "qkv", <<p[2] + p[3]>>, p[2] + p[3])
                              /\ p[1] # "qkv"
      /\ \A p, q \in Places(c) : p[1] = q[1] => p[2] = q[2]
  BY QkvPlaces
<1>12. DOMAIN Q = Below(T)
  OBVIOUS
<1>15. /\ k.buffers = B /\ k.result = R
       /\ k.program = [tid \in 0..T |-> IF tid >= T THEN <<>> ELSE P[tid]]
  <2> HIDE DEF k, B, T, P, R
  <2> QED BY <1>1, GuardedFields
<1>13. \A t \in Below(T) : Q[t] = P[t]
  <2> HIDE DEF k, P
  <2>2. \A t \in Below(T) : Q[t] = k.program[t]
    OBVIOUS
  <2> HIDE DEF Q
  <2>3. \A t \in Below(T) : t \in 0..T /\ ~(t >= T)
    BY <1>4 DEF Below
  <2> QED BY <1>15, <2>2, <2>3
<1>14. qkv_head_lift(c) = Kernel(B, Q, R)
  <2> HIDE DEF B, R
  <2> QED BY <1>15, Zenon DEF qkv_head_lift, k, Q
<1> HIDE DEF B, T, P, R, from, to, k, Q
<1>5. \A p \in Places(c) : /\ to[p[2] + p[3]] = Cell("qkv", p[2] + p[3])
                           /\ from[p[2] + p[3]] = Cell(p[1], p[3])
  BY <1>2, <1>4
<1>6. \A t, u \in Below(T) : (to[t] = to[u] => t = u) /\ to[t] # from[u]
  <2>1. SUFFICES ASSUME NEW t \in Below(T), NEW u \in Below(T)
                 PROVE  (to[t] = to[u] => t = u) /\ to[t] # from[u]
    OBVIOUS
  <2>3. PICK q \in Places(c) : u = q[2] + q[3]
    BY <1>4
  <2>4. /\ to[t] = Cell("qkv", t) /\ to[u] = Cell("qkv", u) /\ q[1] # "qkv"
        /\ from[u] = Cell(q[1], q[3])
    BY <1>2, <1>4, <1>5, <2>3
  <2> QED BY <2>4, CellIs
<1>7. \A t \in Below(T) : from[t] \in CellsIn(B) /\ to[t] \in CellsIn(B)
  BY <1>4, <1>5 DEF Element
<1>8. Moves(B, P, T, from, to) /\ Moves(B, Q, T, from, to)
  BY <1>2, <1>6, <1>7, <1>13 DEF Moves
<1>9. \A p \in Places(c) :
        Makes(B, "qkv", <<p[2] + p[3]>>, Term("copy", <<In(B, p[1], <<p[3]>>)>>))
          = Result(to[p[2] + p[3]], Term("copy", <<Initially(from[p[2] + p[3]])>>))
  <2>1. SUFFICES ASSUME NEW p \in Places(c), NEW t, t = p[2] + p[3]
                 PROVE Makes(B, "qkv", <<t>>, Term("copy", <<In(B, p[1], <<p[3]>>)>>))
                         = Result(to[t], Term("copy", <<Initially(from[t])>>))
    OBVIOUS
  <2>2. Element(B, p[1], <<p[3]>>, p[3]) /\ Element(B, "qkv", <<t>>, t)
    BY <1>4, <2>1
  <2>3. In(B, p[1], <<p[3]>>) = Initially(from[t]) /\ to[t] = Cell("qkv", t)
    BY <1>5, <2>1, <2>2, Zenon DEF Element
  <2> QED BY <2>2, <2>3, Zenon DEF Element
<1>10. MoveResults(R, T, from, to)
  <2>1. ASSUME NEW r PROVE r \in R <=> \E t \in Below(T) : r = Result(to[t], Term("copy", <<Initially(from[t])>>))
    <3>1. ASSUME r \in R PROVE \E t \in Below(T) : r = Result(to[t], Term("copy", <<Initially(from[t])>>))
      <4>1. PICK p \in Places(c) :
              r = Makes(B, "qkv", <<p[2] + p[3]>>, Term("copy", <<In(B, p[1], <<p[3]>>)>>))
        BY <1>3, <3>1, Zenon
      <4>2. r = Result(to[p[2] + p[3]], Term("copy", <<Initially(from[p[2] + p[3]])>>))
        BY <1>9, <4>1, Zenon
      <4> QED BY <1>4, <4>2, Zenon
    <3>2. ASSUME NEW t \in Below(T), r = Result(to[t], Term("copy", <<Initially(from[t])>>))
          PROVE  r \in R
      <4>1. PICK p \in Places(c) : t = p[2] + p[3]
        BY <1>4
      <4>2. r = Makes(B, "qkv", <<p[2] + p[3]>>, Term("copy", <<In(B, p[1], <<p[3]>>)>>))
        BY <1>9, <3>2, <4>1, Zenon
      <4> QED BY <1>3, <4>2, Zenon
    <3> QED BY <3>1, <3>2
  <2> QED BY <2>1 DEF MoveResults
<1>11. Sound(Guarded(B, T, P, R)) /\ Sound(Kernel(B, Q, R))
  BY <1>4, <1>8, <1>10, <1>12, MovesSound, MovesSoundExactly
<1> QED BY <1>1, <1>11, <1>14 DEF k

-----------------------------------------------------------------------------
\* Masks, and a kernel with two results.

\* causal_mask stores behind the current token only.
LEMMA MaskSound == ASSUME NEW c, Dims(c) PROVE Sound(Mask(c))
<1> DEFINE H == c.q_heads
           L == c.seq_len
           k == c.token_index
           n == H * L
           B == [scores |-> <<c.q_heads, c.seq_len>>]
           P == [tid \in Below(c.q_heads * c.seq_len) |->
            IF (tid % c.seq_len) > c.token_index
            THEN <<Store(Cell("scores", tid), "-inf", <<>>)>> ELSE <<>>]
           R == {Makes(B, "scores", <<h, t>>, Term("-inf", <<>>))
                   : h \in QHeads(c), t \in {u \in TokensBefore(c) : u > c.token_index}}
           res(t) == Result(Cell("scores", t), Term("-inf", <<>>))
           W == [t \in Below(n) |-> IF (t % L) > k THEN {res(t)} ELSE {}]
           acc == [t \in Below(n) |-> {Cell("scores", t)}]
<1>1. Mask(c) = Guarded(B, n, P, R)
  BY DEF Mask
<1>2. H \in Nat \ {0} /\ L \in Nat \ {0} /\ k \in Nat /\ n \in Nat
  BY DimsFacts DEF Below
<1>3. "scores" \in DOMAIN B /\ B["scores"] = <<H, L>>
  OBVIOUS
<1>4. \A t \in Below(n) :
         /\ P[t] = IF (t % L) > k THEN <<Store(Cell("scores", t), "-inf", <<>>)>> ELSE <<>>
         /\ W[t] = IF (t % L) > k THEN {res(t)} ELSE {}
         /\ acc[t] = {Cell("scores", t)}
  OBVIOUS
<1>5. \A r : r \in R <=> \E h \in Below(H), t \in {u \in Below(L) : u > k} :
                            r = Makes(B, "scores", <<h, t>>, Term("-inf", <<>>))
  <2> HIDE DEF B
  <2> QED BY DEF QHeads, TokensBefore
<1> HIDE DEF H, L, k, n, B, P, R, W, acc
<1>6. \A h \in Below(H), u \in Below(L) :
         /\ Element(B, "scores", <<h, u>>, h * L + u)
         /\ h * L + u \in Below(n)
         /\ ((h * L + u) % L) = u
  <2>1. ASSUME NEW h \in Below(H), NEW u \in Below(L)
        PROVE  /\ Element(B, "scores", <<h, u>>, h * L + u)
               /\ h * L + u \in Below(n)
               /\ ((h * L + u) % L) = u
    <3>1. Element(B, "scores", <<h, u>>, h * L + u)
      BY <1>2, <1>3, Element2
    <3>2. h * L + u \in Below(H * L) /\ ((h * L + u) % L) = u
      BY <1>2, PlaceFacts
    <3> QED BY <3>1, <3>2 DEF n
  <2> QED BY <2>1
<1>7. ASSUME NEW t \in Below(n)
      PROVE  \E h \in Below(H), u \in Below(L) : t = h * L + u /\ u = (t % L)
  <2>1. PICK h \in Below(H) : h = t \div L
    BY <1>2, PlaceSplits DEF n
  <2>2. PICK u \in Below(L) : u = (t % L)
    BY <1>2, PlaceSplits DEF n
  <2>3. t = h * L + u
    BY <1>2, <2>1, <2>2, PlaceSplits DEF n
  <2> QED BY <2>2, <2>3
<1>8. \A t \in Below(n) : Cell("scores", t) \in CellsIn(B)
  BY <1>6, <1>7, Zenon DEF Element
<1>9. \A t \in Below(n) : Targets(W[t]) = IF (t % L) > k THEN {Cell("scores", t)} ELSE {}
  <2>1. ASSUME NEW t \in Below(n)
        PROVE  Targets(W[t]) = IF (t % L) > k THEN {Cell("scores", t)} ELSE {}
    <3>1. W[t] = IF (t % L) > k THEN {res(t)} ELSE {}
      BY <1>4
    <3>2. Targets({res(t)}) = {Cell("scores", t)} /\ Targets({}) = {}
      BY TargetsOfMore
    <3> HIDE DEF res
    <3> QED BY <3>1, <3>2
  <2> QED BY <2>1
<1>10. ASSUME NEW t \in Below(n)
       PROVE  Writes(B, acc[t], Targets(W[t]), P[t], W[t])
  <2> DEFINE x == Cell("scores", t)
             own == Targets(W[t])
             a == acc[t]
  <2>1. Writes(B, a, own, <<>>, {})
    BY WritesNothing
  <2>2. CASE ~((t % L) > k)
    BY <1>4, <2>1, <2>2
  <2>3. CASE (t % L) > k
    <3>1. x \in own /\ x \in CellsIn(B) /\ x \notin Targets({})
      BY <1>8, <1>9, <2>3, TargetsOfMore
    <3> HIDE DEF x, own, a
    <3>2. Writes(B, a, own, <<>> \o <<Store(x, "-inf", <<>>)>>,
                 {} \cup {Result(x, Term("-inf", <<>>))})
      BY <2>1, <3>1, WritesConstant
    <3>3. <<>> \o <<Store(x, "-inf", <<>>)>> = P[t]
      BY <1>4, <2>3, EmptyThen DEF x
    <3>4. {} \cup {Result(x, Term("-inf", <<>>))} = W[t]
      BY <1>4, <2>3 DEF x
    <3> QED BY <3>2, <3>3, <3>4 DEF own, a
  <2> QED BY <2>2, <2>3
<1>11. Separately(B, P, Below(n), acc, W)
  <2>1. \A t, u \in Below(n) : t # u => Targets(W[t]) \cap acc[u] = {}
    <3>1. \A t, u \in Below(n) : t # u => Cell("scores", t) # Cell("scores", u)
      BY DEF Cell
    <3>2. SUFFICES ASSUME NEW t \in Below(n), NEW u \in Below(n), t # u
                   PROVE  Targets(W[t]) \cap acc[u] = {}
      OBVIOUS
    <3>3. Targets(W[t]) \subseteq {Cell("scores", t)} /\ acc[u] = {Cell("scores", u)}
      BY <1>4, <1>9
    <3>4. Cell("scores", t) # Cell("scores", u)
      BY <3>1, <3>2
    <3> QED BY <3>3, <3>4
  <2>2. \A t \in Below(n) : acc[t] \subseteq CellsIn(B) /\ Targets(W[t]) \subseteq acc[t]
    BY <1>4, <1>8, <1>9
  <2> QED BY <1>10, <2>1, <2>2 DEF Separately
<1>12. Together(R, Below(n), W)
  <2>1. \A h \in Below(H), u \in Below(L) :
          Makes(B, "scores", <<h, u>>, Term("-inf", <<>>)) = res(h * L + u)
    BY <1>6, Zenon DEF Element
  <2> HIDE DEF res
  <2>2. ASSUME NEW r PROVE r \in R <=> \E t \in Below(n) : r \in W[t]
    <3>1. ASSUME r \in R PROVE \E t \in Below(n) : r \in W[t]
      <4>1. PICK h \in Below(H), u \in {v \in Below(L) : v > k} :
               r = Makes(B, "scores", <<h, u>>, Term("-inf", <<>>))
        BY <1>5, <3>1, Zenon
      <4>2. PICK t : t = h * L + u
        OBVIOUS
      <4>3. t \in Below(n) /\ (t % L) = u /\ u > k /\ r = res(t)
        BY <1>6, <2>1, <4>1, <4>2
      <4> QED BY <1>4, <4>3
    <3>2. ASSUME NEW t \in Below(n), r \in W[t] PROVE r \in R
      <4>1. (t % L) > k /\ r = res(t)
        BY <1>4, <3>2
      <4>2. PICK h \in Below(H), u \in Below(L) : t = h * L + u /\ u = (t % L)
        BY <1>7
      <4>3. r = Makes(B, "scores", <<h, u>>, Term("-inf", <<>>)) /\ u > k
        BY <2>1, <4>1, <4>2
      <4> QED BY <1>5, <4>3
    <3> QED BY <3>1, <3>2
  <2> QED BY <2>2 DEF Together
<1>13. Sound(Guarded(B, n, P, R))
  BY <1>2, <1>11, <1>12, GuardedSound
<1> QED BY <1>1, <1>13

\* split_residual_state copies a buffer and clears another.
LEMMA SplitResidualSound == ASSUME NEW c, Dims(c) PROVE Sound(split_residual_state(c))
<1> DEFINE n == c.count
           B == [x |-> <<c.count>>, residual |-> <<c.count>>, normalized |-> <<c.count>>]
           P == [tid \in Below(c.count) |->
                       Compute(<<>>, <<Cell("x", tid)>>, Cell("residual", tid), "copy")
                           \o <<Store(Cell("normalized", tid), "zero", <<>>)>>]
           R == UNION
                {{Makes(B, "residual", <<i>>, Term("copy", <<In(B, "x", <<i>>)>>)),
                  Makes(B, "normalized", <<i>>, Term("zero", <<>>))} : i \in Below(c.count)}
           r1(t) == Result(Cell("residual", t), Term("copy", <<Initially(Cell("x", t))>>))
           r2(t) == Result(Cell("normalized", t), Term("zero", <<>>))
           W == [t \in Below(n) |-> {r1(t)} \cup {r2(t)}]
           acc == [t \in Below(n) |-> {Cell("x", t), Cell("residual", t), Cell("normalized", t)}]
<1>1. split_residual_state(c) = Guarded(B, n, P, R)
  BY Zenon DEF split_residual_state
<1>2. n \in Nat
  BY DimsFacts
<1>3. /\ DOMAIN B = {"x", "residual", "normalized"}
      /\ B["x"] = <<n>> /\ B["residual"] = <<n>> /\ B["normalized"] = <<n>>
  OBVIOUS
<1>4. \A t \in Below(n) :
         /\ P[t] = Compute(<<>>, <<Cell("x", t)>>, Cell("residual", t), "copy")
                           \o <<Store(Cell("normalized", t), "zero", <<>>)>>
         /\ W[t] = {r1(t)} \cup {r2(t)}
         /\ acc[t] = {Cell("x", t), Cell("residual", t), Cell("normalized", t)}
  <2> HIDE DEF r1, r2
  <2> QED OBVIOUS
<1>5. \A r : r \in R <=> \E i \in Below(n) :
         \/ r = Makes(B, "residual", <<i>>, Term("copy", <<In(B, "x", <<i>>)>>))
         \/ r = Makes(B, "normalized", <<i>>, Term("zero", <<>>))
  <2> DEFINE both(i) == {Makes(B, "residual", <<i>>, Term("copy", <<In(B, "x", <<i>>)>>)),
                  Makes(B, "normalized", <<i>>, Term("zero", <<>>))}
  <2>1. R = UNION {both(i) : i \in Below(n)}
    OBVIOUS
  <2>2. \A i : \A r : r \in both(i) <=>
         \/ r = Makes(B, "residual", <<i>>, Term("copy", <<In(B, "x", <<i>>)>>))
         \/ r = Makes(B, "normalized", <<i>>, Term("zero", <<>>))
    <3> HIDE DEF B
    <3> QED OBVIOUS
  <2> HIDE DEF both, B, R, n
  <2>3. \A r : r \in R <=> \E i \in Below(n) : r \in both(i)
    BY <2>1
  <2> QED BY <2>2, <2>3
<1> HIDE DEF n, B, P, R, W, acc
<1>6. \A t \in Below(n) : /\ Element(B, "x", <<t>>, t) /\ Element(B, "residual", <<t>>, t)
                          /\ Element(B, "normalized", <<t>>, t)
  BY <1>2, <1>3, Element1
<1>7. \A t \in Below(n) : /\ Cell("x", t) \in CellsIn(B) /\ Cell("residual", t) \in CellsIn(B)
                          /\ Cell("normalized", t) \in CellsIn(B)
  BY <1>6 DEF Element
<1>8. ASSUME NEW t \in Below(n)
      PROVE  /\ Targets(W[t]) = {Cell("residual", t), Cell("normalized", t)}
             /\ Writes(B, acc[t], Targets(W[t]), P[t], W[t])
  <2> DEFINE own == Targets(W[t])
             a == acc[t]
             x == Cell("x", t)
             y == Cell("residual", t)
             z == Cell("normalized", t)
  <2>1. own = {y, z} /\ Targets({r1(t)}) = {y} /\ Targets({}) = {}
    <3> DEFINE v == Term("copy", <<Initially(Cell("x", t))>>)
               w == Term("zero", <<>>)
    <3>1. r1(t) = Result(y, v) /\ r2(t) = Result(z, w)
      OBVIOUS
    <3>2. own = Targets({r1(t)} \cup {r2(t)})
      BY <1>4
    <3> HIDE DEF y, z, v, w, r1, r2, own
    <3>3. Targets({r1(t)} \cup {Result(z, w)}) = Targets({r1(t)}) \cup {z}
      BY TargetsOfMore
    <3>4. Targets({r1(t)}) = {y} /\ Targets({}) = {}
      BY <3>1, TargetsOfMore
    <3> QED BY <3>1, <3>2, <3>3, <3>4
  <2>2. x # y /\ x # z /\ y # z
    BY CellIs
  <2>3. x \in CellsIn(B) /\ y \in CellsIn(B) /\ z \in CellsIn(B) /\ x \in a
    BY <1>4, <1>7
  <2> HIDE DEF own, a, x, y, z
  <2>4. Writes(B, a, own, <<>>, {})
    BY WritesNothing
  <2>5. Reads(<<x>>, <<Initially(x)>>, {x})
    BY ReadsOne
  <2>6. IsSeq(<<x>>) /\ CellSet(<<x>>) = {x} /\ Before(<<x>>) = <<Initially(x)>>
    BY <2>5, CellSetSmall, ReadsFacts
  <2>7. \A j \in 1..Len(<<x>>) : /\ <<x>>[j] \in a /\ <<x>>[j] \in CellsIn(B)
                                 /\ <<x>>[j] \notin Targets({})
    <3>1. \A j \in 1..Len(<<x>>) : <<x>>[j] = x
      OBVIOUS
    <3> QED BY <2>1, <2>3, <3>1
  <2>8. Writes(B, a, own, Compute(<<>>, <<x>>, y, "copy"), {} \cup {Result(y, Term("copy", Before(<<x>>)))})
    <3>1. y \in own /\ y \notin Targets({})
      BY <2>1
    <3> DEFINE s == <<x>>
    <3>2. IsSeq(s) /\ \A j \in 1..Len(s) : s[j] \in a /\ s[j] \in CellsIn(B) /\ s[j] \notin Targets({})
      BY <2>6, <2>7
    <3> HIDE DEF s
    <3>3. Writes(B, a, own, Compute(<<>>, s, y, "copy"), {} \cup {Result(y, Term("copy", Before(s)))})
      BY <2>3, <2>4, <3>1, <3>2, WritesCompute
    <3> QED BY <3>3 DEF s
  <2>9. {} \cup {Result(y, Term("copy", Before(<<x>>)))} = {r1(t)}
    BY <2>6 DEF x, y
  <2>10. Writes(B, a, own, Compute(<<>>, <<x>>, y, "copy"), {r1(t)})
    BY <2>8, <2>9, Zenon
  <2>11. Writes(B, a, own, Compute(<<>>, <<x>>, y, "copy") \o <<Store(z, "zero", <<>>)>>,
               {r1(t)} \cup {Result(z, Term("zero", <<>>))})
    <3>1. z \in own /\ z \notin Targets({r1(t)})
      BY <2>1, <2>2
    <3> DEFINE s == Compute(<<>>, <<x>>, y, "copy")
               V == {r1(t)}
    <3> HIDE DEF s, V
    <3>2. Writes(B, a, own, s, V) /\ z \notin Targets(V)
      BY <2>10, <3>1 DEF s, V
    <3>3. Writes(B, a, own, s \o <<Store(z, "zero", <<>>)>>, V \cup {Result(z, Term("zero", <<>>))})
      BY <2>3, <3>1, <3>2, WritesConstant
    <3> QED BY <3>3 DEF s, V
  <2> QED BY <1>4, <2>1, <2>11 DEF own, a, x, y, z
<1>9. Separately(B, P, Below(n), acc, W)
  <2>1. \A t, u \in Below(n) : t # u => Targets(W[t]) \cap acc[u] = {}
    <3>1. SUFFICES ASSUME NEW t \in Below(n), NEW u \in Below(n), t # u
                   PROVE  Targets(W[t]) \cap acc[u] = {}
      OBVIOUS
    <3>2. \A v \in {"residual", "normalized"}, w \in {"x", "residual", "normalized"} :
             Cell(v, t) # Cell(w, u)
      BY <3>1 DEF Cell
    <3>3. \A x \in Targets(W[t]) : \E v \in {"residual", "normalized"} : x = Cell(v, t)
      BY <1>8
    <3>4. \A x \in acc[u] : \E w \in {"x", "residual", "normalized"} : x = Cell(w, u)
      BY <1>4
    <3>5. ASSUME NEW x \in Targets(W[t]), x \in acc[u] PROVE FALSE
      <4>1. PICK v \in {"residual", "normalized"} : x = Cell(v, t)
        BY <3>3
      <4>2. PICK w \in {"x", "residual", "normalized"} : x = Cell(w, u)
        BY <3>4, <3>5
      <4>3. Cell(v, t) # Cell(w, u)
        BY <3>2
      <4> QED BY <4>1, <4>2, <4>3
    <3> QED BY <3>5
  <2>2. \A t \in Below(n) : acc[t] \subseteq CellsIn(B) /\ Targets(W[t]) \subseteq acc[t]
    BY <1>4, <1>7, <1>8
  <2> QED BY <1>8, <2>1, <2>2 DEF Separately
<1>10. Together(R, Below(n), W)
  <2>1. ASSUME NEW i \in Below(n)
        PROVE  /\ Makes(B, "residual", <<i>>, Term("copy", <<In(B, "x", <<i>>)>>)) = r1(i)
               /\ Makes(B, "normalized", <<i>>, Term("zero", <<>>)) = r2(i)
    <3>1. In(B, "x", <<i>>) = Initially(Cell("x", i))
      BY <1>6 DEF Element
    <3>2. \A v : /\ Makes(B, "residual", <<i>>, v) = Result(Cell("residual", i), v)
                 /\ Makes(B, "normalized", <<i>>, v) = Result(Cell("normalized", i), v)
      BY <1>6 DEF Element
    <3> QED BY <3>1, <3>2, Zenon
  <2> HIDE DEF r1, r2
  <2>2. \A t \in Below(n) : \A r : r \in W[t] <=> r = r1(t) \/ r = r2(t)
    BY <1>4
  <2>3. ASSUME NEW r PROVE r \in R <=> \E t \in Below(n) : r \in W[t]
    <3>1. ASSUME r \in R PROVE \E t \in Below(n) : r \in W[t]
      <4>1. PICK i \in Below(n) :
              \/ r = Makes(B, "residual", <<i>>, Term("copy", <<In(B, "x", <<i>>)>>))
              \/ r = Makes(B, "normalized", <<i>>, Term("zero", <<>>))
        BY <1>5, <3>1, Zenon
      <4>2. r = r1(i) \/ r = r2(i)
        BY <2>1, <4>1, Zenon
      <4> QED BY <2>2, <4>2
    <3>2. ASSUME NEW t \in Below(n), r \in W[t] PROVE r \in R
      <4>1. r = r1(t) \/ r = r2(t)
        BY <2>2, <3>2
      <4>2. \/ r = Makes(B, "residual", <<t>>, Term("copy", <<In(B, "x", <<t>>)>>))
            \/ r = Makes(B, "normalized", <<t>>, Term("zero", <<>>))
        BY <2>1, <4>1, Zenon
      <4> QED BY <1>5, <4>2, Zenon
    <3> QED BY <3>1, <3>2
  <2> QED BY <2>3 DEF Together
<1>11. Sound(Guarded(B, n, P, R))
  BY <1>2, <1>9, <1>10, GuardedSound
<1> QED BY <1>1, <1>11

-----------------------------------------------------------------------------
\* Loops of a thread: softmax.

\* n is m after the first k stores of w to the cells pos.
Swept(m, pos, w, k, n) ==
    /\ DOMAIN n = DOMAIN m
    /\ \A i \in 1..k : n[pos[i]] = w[i]
    /\ \A x \in DOMAIN m : (\A i \in 1..k : x # pos[i]) => n[x] = m[x]

\* Step i of a loop, from any memory that the steps before may leave, takes the
\* loads from l[i - 1] to l[i] and makes one store more.
Iterates(fp, s, n, l, m, pos, w) == \A i \in 1..n : \A c : Swept(m, pos, w, i - 1, c) =>
    \E d : Swept(m, pos, w, i, d) /\ Runs(fp, s[i], State(0, l[i - 1], c), State(0, l[i], d))

\* Before the first turn nothing is swept.
LEMMA SweptNothing == ASSUME NEW m, NEW pos, NEW w PROVE Swept(m, pos, w, 0, m)
BY DEF Swept

\* g[i] is the loop up to step i.
LEMMA LoopRuns ==
    ASSUME NEW n \in Nat, NEW fp, NEW a, NEW g, NEW s, NEW l, NEW m, NEW pos, NEW w,
           Runs(fp, g[0], a, State(0, l[0], m)), \A i \in 1..n : g[i] = g[i - 1] \o s[i],
           Iterates(fp, s, n, l, m, pos, w)
    PROVE  \E d : Swept(m, pos, w, n, d) /\ Runs(fp, g[n], a, State(0, l[n], d))
<1> DEFINE good(i) == \E d : Swept(m, pos, w, i, d) /\ Runs(fp, g[i], a, State(0, l[i], d))
           G == {i \in 0..n : good(i)}
<1>1. 0 \in G
  BY SweptNothing
<1>2. ASSUME NEW i \in 1..n, i - 1 \in G PROVE i \in G
  <2>1. PICK j : j = i - 1
    OBVIOUS
  <2>2. PICK c : Swept(m, pos, w, j, c) /\ Runs(fp, g[j], a, State(0, l[j], c))
    BY <1>2, <2>1
  <2>3. PICK d : /\ Swept(m, pos, w, i, d)
                 /\ Runs(fp, s[i], State(0, l[j], c), State(0, l[i], d))
    BY <2>1, <2>2 DEF Iterates
  <2>4. Runs(fp, g[j] \o s[i], a, State(0, l[i], d))
    BY <2>2, <2>3, RunsThen
  <2>5. g[i] = g[j] \o s[i]
    BY <2>1
  <2>6. good(i)
    BY <2>3, <2>4, <2>5
  <2> QED BY <2>6
<1>3. n \in G
  <2> HIDE DEF G
  <2>1. \A i \in 1..n : i - 1 \in G => i \in G
    BY <1>2
  <2>2. \A i \in 0..n : i \in G
    BY <1>1, <2>1, Induction
  <2> QED BY <2>2
<1> QED BY <1>3

\* s is a sequence of n elements.
Lists(s, n) == s = [i \in 1..n |-> s[i]]

\* A loop of no steps.
LEMMA NoLoop == ASSUME NEW s, Lists(s, 0) PROVE FlattenSeq(s) = <<>>
<1>1. Len(s) = 0 /\ s = <<>>
  BY DEF Lists
<1> QED BY <1>1 DEF FlattenSeq

\* FlattenSeq gives the steps of a loop.
LEMMA FlatLoopRuns ==
    ASSUME NEW n \in Nat, NEW fp, NEW s, Lists(s, n), NEW l, NEW m, NEW pos, NEW w,
           Iterates(fp, s, n, l, m, pos, w)
    PROVE  \E d : /\ Swept(m, pos, w, n, d)
                  /\ Runs(fp, FlattenSeq(s), State(0, l[0], m), State(0, l[n], d))
<1>1. CASE n = 0
  <2>1. FlattenSeq(s) = <<>>
    BY <1>1, NoLoop
  <2>2. Runs(fp, FlattenSeq(s), State(0, l[0], m), State(0, l[0], m))
    BY <2>1, RunsNothing
  <2> QED BY <1>1, <2>2, SweptNothing
<1>2. CASE n # 0
  <2>1. Len(s) = n /\ n \in Nat \ {0}
    BY <1>2 DEF Lists
  <2>2. PICK g : /\ g[1] = s[1]
                 /\ \A i \in 2..n : g[i] = g[i - 1] \o s[i]
                 /\ FlattenSeq(s) = g[n]
    BY <2>1, FlattenUnrolls
  <2>3. IsSeq(s[1])
    <3>1. PICK i \in 1..n : i = 1 /\ i - 1 = 0
      BY <1>2
    <3>2. Swept(m, pos, w, i - 1, m)
      BY <3>1, SweptNothing
    <3>3. \E d : Runs(fp, s[i], State(0, l[i - 1], m), State(0, l[i], d))
      BY <3>2 DEF Iterates
    <3> QED BY <3>1, <3>3 DEF Runs
  <2>4. <<>> \o s[1] = s[1]
    BY <2>3, EmptyConcat
  <2> DEFINE h == [i \in 0..n |-> IF i = 0 THEN <<>> ELSE g[i]]
  <2>5. h[0] = <<>> /\ h[n] = g[n]
    BY <1>2
  <2>6. \A i \in 1..n : h[i] = h[i - 1] \o s[i]
    <3>1. \A i \in 1..n : h[i] = g[i] /\ (i = 1 \/ (i \in 2..n /\ h[i - 1] = g[i - 1]))
      OBVIOUS
    <3>2. h[1 - 1] = <<>>
      BY <2>5
    <3> HIDE DEF h
    <3> QED BY <2>2, <2>4, <3>1, <3>2
  <2> HIDE DEF h
  <2>7. Runs(fp, h[0], State(0, l[0], m), State(0, l[0], m))
    BY <2>5, RunsNothing
  <2>8. \E d : Swept(m, pos, w, n, d) /\ Runs(fp, h[n], State(0, l[0], m), State(0, l[n], d))
    BY <2>6, <2>7, LoopRuns
  <2> QED BY <2>2, <2>5, <2>8
<1> QED BY <1>1, <1>2

-----------------------------------------------------------------------------
\* Of the loads l and then n of e, of numbers the loads l and then load k of e.
Numbers(of, l, e, n, k) ==
    l \o <<e[k]>> = [i \in 1..Len(of) |-> Grown(l, e, n)[of[i]]]

\* Upto, and one load behind those it numbers.
LEMMA UptoArguments ==
    ASSUME NEW l, IsSeq(l), NEW e, NEW n \in Nat, NEW k \in 1..n,
           NEW of, of = Upto(Len(l)) \o <<Len(l) + k>>
    PROVE  Numbers(of, l, e, n, k)
<1> DEFINE N == Len(l)
           u == Upto(N)
           v == <<N + k>>
           L == Grown(l, e, n)
           x == <<e[k]>>
           z == [i \in 1..Len(of) |-> L[of[i]]]
<1>1. N \in Nat
  BY LenIsNat
<1>2. IsSeq(u) /\ Len(u) = N /\ \A i \in 1..N : u[i] = i
  <2>1. u \in Seq(Nat) /\ Len(u) = N /\ \A i \in 1..N : u[i] = i
    BY <1>1 DEF Upto
  <2> QED BY <2>1 DEF IsSeq
<1>3. IsSeq(v) /\ Len(v) = 1 /\ v[1] = N + k
  <2>1. v \in Seq({N + k}) /\ Len(v) = 1 /\ v[1] = N + k
    OBVIOUS
  <2> QED BY <2>1 DEF IsSeq
<1>4. IsSeq(x) /\ Len(x) = 1 /\ x[1] = e[k]
  <2>1. x \in Seq({e[k]}) /\ Len(x) = 1 /\ x[1] = e[k]
    OBVIOUS
  <2> QED BY <2>1 DEF IsSeq
<1>5. (\A i \in 1..N : L[i] = l[i]) /\ L[N + k] = e[k]
  BY GrownFacts
<1>10. z = [i \in 1..Len(of) |-> L[of[i]]]
  OBVIOUS
<1>9. of = u \o v
  OBVIOUS
<1> HIDE DEF N, u, v, x, L, z
<1>6. Len(of) = N + 1 /\ (\A i \in 1..N : of[i] = i) /\ of[N + 1] = N + k
  <2>1. Len(of) = Len(u) + Len(v) /\ (\A i \in 1..Len(u) : of[i] = u[i])
    <3>1. Len(u \o v) = Len(u) + Len(v) /\ \A i \in 1..Len(u) : (u \o v)[i] = u[i]
      BY <1>2, <1>3, ConcatFacts
    <3> QED BY <1>9, <3>1
  <2>2. \A i \in 1..Len(v) : of[Len(u) + i] = v[i]
    <3>1. \A i \in 1..Len(v) : (u \o v)[Len(u) + i] = v[i]
      BY <1>2, <1>3, ConcatTail
    <3> QED BY <1>9, <3>1
  <2> QED BY <1>1, <1>2, <1>3, <2>1, <2>2
<1>7. IsSeq(z) /\ Len(z) = N + 1 /\ \A i \in 1..(N + 1) : z[i] = L[of[i]]
  <2> DEFINE y == [i \in 1..(N + 1) |-> L[of[i]]]
             w == [i \in 1..(N + 1) |-> y[i]]
  <2>1. N + 1 \in Nat
    BY <1>1
  <2>2. \A i \in 1..(N + 1) : y[i] = L[of[i]]
    OBVIOUS
  <2>3. w = y /\ y = z
    BY <1>6, <1>10
  <2> HIDE DEF y
  <2>4. IsSeq(w) /\ Len(w) = N + 1
    BY <2>1, TableIsSeq
  <2> HIDE DEF w
  <2> QED BY <2>2, <2>3, <2>4
<1>8. l \o x = z
  <2>1. Len(z) = Len(l) + Len(x)
    BY <1>1, <1>4, <1>7 DEF N
  <2>2. \A i \in 1..Len(l) : z[i] = l[i]
    BY <1>1, <1>5, <1>6, <1>7 DEF N
  <2>3. \A i \in 1..Len(x) : z[Len(l) + i] = x[i]
    <3>1. z[N + 1] = x[1]
      BY <1>1, <1>4, <1>5, <1>6, <1>7
    <3>2. \A i \in 1..Len(x) : i = 1
      BY <1>4
    <3> QED BY <3>1, <3>2 DEF N
  <2>4. IsSeq(x) /\ IsSeq(z)
    BY <1>4, <1>7
  <2>5. IsSeq(l)
    OBVIOUS
  <2> QED BY <2>1, <2>2, <2>3, <2>4, <2>5, JoinIs, SMTT(60)
<1> QED BY <1>8, <1>10 DEF x, L, Numbers

\* The places of a loop are different cells of m that the thread may store to.
Sites(fp, m, pos, n) ==
    /\ \A i \in 1..n : pos[i] \in fp.acc[0] /\ pos[i] \in fp.own[0] /\ pos[i] \in DOMAIN m
    /\ \A i, j \in 1..n : pos[i] = pos[j] => i = j

\* One store more.
LEMMA SweptNext ==
    ASSUME NEW n \in Nat, NEW fp, NEW m, NEW pos, Sites(fp, m, pos, n), NEW w,
           NEW i \in 1..n, NEW c, Swept(m, pos, w, i - 1, c)
    PROVE  Swept(m, pos, w, i, Put(c, pos[i], w[i]))
<1> DEFINE d == Put(c, pos[i], w[i])
<1>1. PICK h \in Nat : h = i - 1 /\ i = h + 1
  OBVIOUS
<1>2. /\ DOMAIN c = DOMAIN m
      /\ \A j \in 1..h : c[pos[j]] = w[j]
      /\ \A x \in DOMAIN m : (\A j \in 1..h : x # pos[j]) => c[x] = m[x]
  BY <1>1 DEF Swept
<1>3. /\ DOMAIN d = DOMAIN c /\ d[pos[i]] = w[i]
      /\ \A y \in DOMAIN c : y # pos[i] => d[y] = c[y]
  BY <1>2, PutFacts DEF Sites
<1> HIDE DEF d
<1>4. ASSUME NEW j \in 1..i PROVE d[pos[j]] = w[j]
  <2>1. CASE j = i
    BY <1>3, <2>1
  <2>2. CASE j # i
    <3>1. j \in 1..h /\ j \in 1..n
      BY <1>1, <2>2
    <3>2. pos[j] # pos[i] /\ pos[j] \in DOMAIN c
      BY <1>2, <2>2, <3>1 DEF Sites
    <3> QED BY <1>2, <1>3, <3>1, <3>2
  <2> QED BY <2>1, <2>2
<1>5. ASSUME NEW x \in DOMAIN m, \A j \in 1..i : x # pos[j] PROVE d[x] = m[x]
  <2>1. x # pos[i] /\ \A j \in 1..h : x # pos[j]
    BY <1>1, <1>5
  <2> QED BY <1>2, <1>3, <2>1
<1> QED BY <1>2, <1>3, <1>4, <1>5 DEF Swept, d

\* The content of the places before the loop.
Held(m, pos, n, e) == \A i \in 1..n : m[pos[i]] = e[i]

\* Step i loads its place and stores what f makes of the loads l and of that.
Rewrites(s, n, pos, f, l, e, w) == \A i \in 1..n :
    /\ s[i] = <<Load(pos[i]), Store(pos[i], f, Upto(Len(l)) \o <<Len(l) + i>>)>>
    /\ w[i] = Term(f, l \o <<e[i]>>)

\* A loop that loads each site and stores to it what f makes of that and of what was
\* loaded before.
LEMMA RewritesIterates ==
    ASSUME NEW n \in Nat, NEW fp, NEW m, NEW pos, Sites(fp, m, pos, n), NEW e, NEW f,
           Held(m, pos, n, e), NEW l, IsSeq(l), NEW s, NEW w, Rewrites(s, n, pos, f, l, e, w),
           NEW loads, \A i \in 0..n : loads[i] = Grown(l, e, i)
    PROVE  Iterates(fp, s, n, loads, m, pos, w)
<1>1. ASSUME NEW i \in 1..n, NEW c, Swept(m, pos, w, i - 1, c)
      PROVE  \E d : /\ Swept(m, pos, w, i, d)
                    /\ Runs(fp, s[i], State(0, loads[i - 1], c), State(0, loads[i], d))
  <2> DEFINE x == pos[i]
             d == Put(c, x, w[i])
             of == Upto(Len(l)) \o <<Len(l) + i>>
             a == State(0, loads[i - 1], c)
             b == State(0, loads[i], c)
  <2>1. PICK h \in Nat : h = i - 1 /\ i = h + 1
    OBVIOUS
  <2>2. x \in fp.acc[0] /\ x \in fp.own[0] /\ x \in DOMAIN m
    BY DEF Sites
  <2>3. c[x] = e[i]
    <3>1. ASSUME NEW j \in 1..h PROVE x # pos[j]
      <4>1. j \in 1..n /\ j # i
        BY <2>1
      <4> QED BY <4>1 DEF Sites
    <3>2. c[x] = m[x]
      BY <1>1, <2>1, <2>2, <3>1 DEF Swept
    <3> QED BY <3>2 DEF Held
  <2>4. loads[i] = Append(loads[i - 1], e[i])
    <3>1. loads[i] = Grown(l, e, h + 1) /\ loads[i - 1] = Grown(l, e, h)
      BY <2>1
    <3> QED BY <2>1, <3>1, GrownNext
  <2>5. Swept(m, pos, w, i, d)
    BY <1>1, SweptNext
  <2>6. a.phase = 0 /\ a.loaded = loads[i - 1] /\ a.mem = c
    BY StateFields
  <2>7. Load(x).op = "load" /\ Load(x).cell = x
    BY DEF Load
  <2>8. Runs(fp, <<Load(x)>>, a, b)
    <3> HIDE DEF x, a
    <3>1. b = State(a.phase, Append(a.loaded, a.mem[Load(x).cell]), a.mem)
      BY <2>3, <2>4, <2>6, <2>7
    <3> HIDE DEF b
    <3>2. Effect(fp, Load(x), a, b)
      BY <2>2, <2>6, <2>7, <3>1 DEF Effect
    <3> QED BY <3>2, RunsStep
  <2>9. l \o <<e[i]>> = [j \in 1..Len(of) |-> loads[i][of[j]]]
    <3>1. i \in 1..i /\ i \in Nat /\ loads[i] = Grown(l, e, i)
      OBVIOUS
    <3>2. of = Upto(Len(l)) \o <<Len(l) + i>>
      OBVIOUS
    <3> HIDE DEF of
    <3>3. Numbers(of, l, e, i, i)
      BY <3>1, <3>2, UptoArguments
    <3> QED BY <3>1, <3>3, Zenon DEF Numbers
  <2>10. Runs(fp, <<Store(x, f, of)>>, b, State(0, loads[i], d))
    <3> DEFINE args == l \o <<e[i]>>
    <3>1. args = [j \in 1..Len(of) |-> loads[i][of[j]]]
      BY <2>9
    <3>2. w[i] = Term(f, args)
      BY DEF Rewrites
    <3> HIDE DEF args, of, x
    <3>3. Runs(fp, <<Store(x, f, of)>>, State(0, loads[i], c),
               State(0, loads[i], Put(c, x, Term(f, args))))
      BY <2>2, <3>1, RunsStore
    <3> QED BY <3>2, <3>3
  <2>11. s[i] = <<Load(x)>> \o <<Store(x, f, of)>>
    <3>1. s[i] = <<Load(x), Store(x, f, of)>>
      BY Zenon DEF Rewrites
    <3> HIDE DEF x, of
    <3> QED BY <3>1, Places2
  <2> HIDE DEF a, b, d, x, of
  <2>12. Runs(fp, s[i], a, State(0, loads[i], d))
    BY <2>8, <2>10, <2>11, RunsThen
  <2> QED BY <2>5, <2>12 DEF a
<1> QED BY <1>1 DEF Iterates

\* Step i stores a constant in its place.
Clears(s, n, pos, f, w) == \A i \in 1..n :
    /\ s[i] = <<Store(pos[i], f, <<>>)>>
    /\ w[i] = Term(f, <<>>)

\* A loop that stores a constant to each site.
LEMMA ClearsIterates ==
    ASSUME NEW n \in Nat, NEW fp, NEW m, NEW pos, Sites(fp, m, pos, n), NEW f,
           NEW s, NEW w, Clears(s, n, pos, f, w),
           NEW l, NEW loads, \A i \in 0..n : loads[i] = l
    PROVE  Iterates(fp, s, n, loads, m, pos, w)
<1>1. ASSUME NEW i \in 1..n, NEW c, Swept(m, pos, w, i - 1, c)
      PROVE  \E d : /\ Swept(m, pos, w, i, d)
                    /\ Runs(fp, s[i], State(0, loads[i - 1], c), State(0, loads[i], d))
  <2> DEFINE x == pos[i]
             d == Put(c, x, w[i])
             of == <<>>
             args == <<>>
  <2>1. loads[i] = l /\ loads[i - 1] = l
    OBVIOUS
  <2>2. x \in fp.own[0]
    BY DEF Sites
  <2>3. Swept(m, pos, w, i, d)
    BY <1>1, SweptNext
  <2>4. args = [j \in 1..Len(of) |-> l[of[j]]]
    OBVIOUS
  <2>5. s[i] = <<Store(x, f, of)>> /\ w[i] = Term(f, args)
    BY Zenon DEF Clears
  <2> HIDE DEF x, of, args
  <2>6. Runs(fp, <<Store(x, f, of)>>, State(0, l, c), State(0, l, Put(c, x, Term(f, args))))
    BY <2>2, <2>4, RunsStore
  <2> QED BY <2>1, <2>3, <2>5, <2>6
<1> QED BY <1>1 DEF Iterates

\* Two sets of different cells, p and r, no cell in both.
Aside(p, n, r, k) == \A i \in 1..n : \A j \in 1..k : p[i] # r[j]

\* What the three passes leave.
Passed(m, p, n, w, r, k, z, d) ==
    /\ DOMAIN d = DOMAIN m
    /\ \A i \in 1..n : d[p[i]] = w[i]
    /\ \A j \in 1..k : d[r[j]] = z[j]
    /\ \A x \in DOMAIN m : (\A i \in 1..n : x # p[i]) /\ (\A j \in 1..k : x # r[j]) => d[x] = m[x]

\* The first pass, of loads only, which are v.
FirstPass(fp, m, p, n, v) ==
    /\ IsSeq(p) /\ Len(p) = n
    /\ v = Seen(m, p)

\* The passes, one after the other, leave what they are to leave.
LEMMA PassesRun ==
    ASSUME NEW fp, NEW m, NEW n \in Nat, NEW p, Sites(fp, m, p, n),
           NEW k \in Nat, NEW r, Sites(fp, m, r, k), Aside(p, n, r, k),
           NEW v, FirstPass(fp, m, p, n, v),
           NEW f, NEW s, NEW e, Lists(s, n), Rewrites(s, n, p, f, v, v, e),
           NEW g, NEW t, NEW z, Lists(t, k), Clears(t, k, r, g, z),
           NEW h, NEW u, NEW w, Lists(u, n), Rewrites(u, n, p, h, v \o v, e, w)
    PROVE  \E l, d : /\ Passed(m, p, n, w, r, k, z, d)
                     /\ Runs(fp, Loads(p) \o FlattenSeq(s) \o FlattenSeq(t) \o FlattenSeq(u),
                             State(0, <<>>, m), State(0, l, d))
<1> DEFINE a == State(0, <<>>, m)
           l1 == [i \in 0..n |-> Grown(v, v, i)]
           l2 == [i \in 0..k |-> v \o v]
           l3 == [i \in 0..n |-> Grown(v \o v, e, i)]
<1>1. /\ IsSeq(p) /\ Len(p) = n /\ v = Seen(m, p) /\ IsSeq(v) /\ Len(v) = n
      /\ \A i \in 1..n : v[i] = m[p[i]]
      /\ Grown(v, v, n) = v \o v
  <2>1. IsSeq(p) /\ Len(p) = n /\ v = Seen(m, p)
    BY DEF FirstPass
  <2>2. /\ IsSeq(Seen(m, p)) /\ Len(Seen(m, p)) = Len(p)
        /\ \A i \in 1..Len(p) : Seen(m, p)[i] = m[p[i]]
    BY <2>1, SeenFacts
  <2>3. Grown(v, Seen(m, p), Len(p)) = v \o Seen(m, p)
    BY SeenAll
  <2> QED BY <2>1, <2>2, <2>3
<1>2. IsSeq(v \o v)
  BY <1>1, ConcatFacts
<1>3. l1[0] = v /\ l1[n] = v \o v /\ \A i \in 0..n : l1[i] = Grown(v, v, i)
  BY <1>1, GrownFacts
<1>4. l2[0] = v \o v /\ l2[k] = v \o v /\ \A i \in 0..k : l2[i] = v \o v
  OBVIOUS
<1>5. l3[0] = v \o v /\ \A i \in 0..n : l3[i] = Grown(v \o v, e, i)
  <2>1. 0 \in 0..n /\ 0 \in Nat
    OBVIOUS
  <2>2. \A i \in 0..n : l3[i] = Grown(v \o v, e, i)
    OBVIOUS
  <2>3. Grown(v \o v, e, 0) = v \o v
    BY <1>2, GrownFacts
  <2> HIDE DEF l3
  <2> QED BY <2>1, <2>2, <2>3
<1> HIDE DEF l1, l2, l3
<1>6. Runs(fp, Loads(p), a, State(0, l1[0], m))
  <2>1. \A j \in 1..Len(p) : p[j] \in fp.acc[0]
    BY <1>1 DEF Sites
  <2>2. Runs(fp, Loads(p), a, State(0, <<>> \o Seen(m, p), m))
    BY <1>1, <2>1, EmptyIsSeq, RunsLoads
  <2>3. <<>> \o Seen(m, p) = l1[0]
    BY <1>1, <1>3, EmptyConcat
  <2> QED BY <2>2, <2>3
<1>7. PICK b : Swept(m, p, e, n, b) /\ Runs(fp, FlattenSeq(s), State(0, l1[0], m), State(0, l1[n], b))
  <2>1. Held(m, p, n, v)
    BY <1>1 DEF Held
  <2>2. Iterates(fp, s, n, l1, m, p, e)
    BY <1>1, <1>3, <2>1, RewritesIterates
  <2> QED BY <2>2, FlatLoopRuns
<1>8. Sites(fp, b, r, k)
  BY <1>7 DEF Sites, Swept
<1>9. PICK c : Swept(b, r, z, k, c) /\ Runs(fp, FlattenSeq(t), State(0, l2[0], b), State(0, l2[k], c))
  <2>1. Iterates(fp, t, k, l2, b, r, z)
    BY <1>4, <1>8, ClearsIterates
  <2> QED BY <2>1, FlatLoopRuns
<1>10. Sites(fp, c, p, n)
  BY <1>7, <1>9 DEF Sites, Swept
<1>11. Held(c, p, n, e)
  <2>1. ASSUME NEW i \in 1..n PROVE c[p[i]] = e[i]
    <3>1. b[p[i]] = e[i]
      BY <1>7 DEF Swept
    <3>2. p[i] \in DOMAIN b /\ \A j \in 1..k : p[i] # r[j]
      BY <1>7 DEF Sites, Aside, Swept
    <3>3. c[p[i]] = b[p[i]]
      BY <1>9, <3>2 DEF Swept
    <3> QED BY <3>1, <3>3
  <2> QED BY <2>1 DEF Held
<1>12. PICK d : Swept(c, p, w, n, d) /\ Runs(fp, FlattenSeq(u), State(0, l3[0], c), State(0, l3[n], d))
  <2>1. Iterates(fp, u, n, l3, c, p, w)
    BY <1>2, <1>5, <1>10, <1>11, RewritesIterates
  <2> QED BY <2>1, FlatLoopRuns
<1> HIDE DEF a
<1>13. Runs(fp, Loads(p) \o FlattenSeq(s), a, State(0, l1[n], b))
  BY <1>6, <1>7, RunsThen
<1>14. Runs(fp, Loads(p) \o FlattenSeq(s) \o FlattenSeq(t), a, State(0, l2[k], c))
  BY <1>3, <1>4, <1>9, <1>13, RunsThen
<1>15. Runs(fp, Loads(p) \o FlattenSeq(s) \o FlattenSeq(t) \o FlattenSeq(u), a, State(0, l3[n], d))
  BY <1>4, <1>5, <1>12, <1>14, RunsThen
<1>16. Passed(m, p, n, w, r, k, z, d)
  <2>1. DOMAIN b = DOMAIN m /\ DOMAIN c = DOMAIN m /\ DOMAIN d = DOMAIN m
    BY <1>7, <1>9, <1>12 DEF Swept
  <2>2. \A i \in 1..n : d[p[i]] = w[i]
    BY <1>12 DEF Swept
  <2>3. ASSUME NEW j \in 1..k PROVE d[r[j]] = z[j]
    <3>1. c[r[j]] = z[j]
      BY <1>9 DEF Swept
    <3>2. r[j] \in DOMAIN c /\ \A i \in 1..n : r[j] # p[i]
      BY <2>1 DEF Sites, Aside
    <3> QED BY <1>12, <3>1, <3>2 DEF Swept
  <2>4. ASSUME NEW x \in DOMAIN m, \A i \in 1..n : x # p[i], \A j \in 1..k : x # r[j]
        PROVE  d[x] = m[x]
    <3>1. b[x] = m[x]
      BY <1>7, <2>4 DEF Swept
    <3>2. c[x] = b[x]
      BY <1>9, <2>1, <2>4 DEF Swept
    <3>3. d[x] = c[x]
      BY <1>12, <2>1, <2>4 DEF Swept
    <3> QED BY <3>1, <3>2, <3>3
  <2> QED BY <2>1, <2>2, <2>3, <2>4 DEF Passed
<1> QED BY <1>15, <1>16 DEF a

\* Element t of row `row` of the scores, and what its thread makes of it.
RowCell(width, row, t) == Cell("scores", row * width + t - 1)
RowFound(width, n, row) == [j \in 1..n |-> Initially(RowCell(width, row, j))]
Exponential(v, t) == Term("exp", v \o <<v[t]>>)
Weighted(v, n, t) == IF t <= n THEN Term("scaled", v \o v \o <<Exponential(v, t)>>)
                               ELSE Term("zero", <<>>)
Weights(width, n, row) ==
    {Result(RowCell(width, row, t), Weighted(RowFound(width, n, row), n, t)) : t \in 1..width}
RowCellSet(width, row) == {RowCell(width, row, t) : t \in 1..width}

\* The cells of a row are elements of the buffer ...
LEMMA RowCellFacts ==
    ASSUME NEW rows \in Nat, NEW width \in Nat \ {0}, NEW row \in Below(rows), NEW t \in 1..width,
           NEW B, "scores" \in DOMAIN B, B["scores"] = <<rows, width>>
    PROVE  Element(B, "scores", <<row, t - 1>>, row * width + t - 1)
<1>1. PICK d \in Below(width) : d = t - 1 /\ t = d + 1
  BY DEF Below
<1>2. Element(B, "scores", <<row, d>>, row * width + d)
  BY Element2
<1>3. row * width + t - 1 = row * width + d
  <2>1. row \in Nat /\ row * width \in Nat
    BY DEF Below
  <2> QED BY <1>1, <2>1
<1> QED BY <1>1, <1>2, <1>3

\* ... each of one row and one place in it.
LEMMA RowCellIs ==
    ASSUME NEW rows \in Nat, NEW width \in Nat \ {0}, NEW row \in Below(rows), NEW t \in 1..width,
           NEW other \in Below(rows), NEW u \in 1..width,
           RowCell(width, row, t) = RowCell(width, other, u)
    PROVE  row = other /\ t = u
<1>1. PICK d \in Below(width) : d = t - 1 /\ t = d + 1
  BY DEF Below
<1>2. PICK e \in Below(width) : e = u - 1 /\ u = e + 1
  BY DEF Below
<1>3. row \in Nat /\ other \in Nat /\ row * width \in Nat /\ other * width \in Nat
  BY DEF Below
<1>4. row * width + t - 1 = row * width + d /\ other * width + u - 1 = other * width + e
  BY <1>1, <1>2, <1>3
<1>5. row * width + d = other * width + e
  BY <1>4, CellIs DEF RowCell
<1>6. /\ (row * width + d) \div width = row /\ ((row * width + d) % width) = d
      /\ (other * width + e) \div width = other /\ ((other * width + e) % width) = e
  BY PlaceFacts
<1> QED BY <1>1, <1>2, <1>5, <1>6

\* The thread of a row, alone, leaves the weights of the row.
LEMMA SoftmaxRow ==
    ASSUME NEW rows \in Nat, NEW width \in Nat \ {0}, NEW n \in 1..width, NEW row \in Below(rows),
           NEW B, "scores" \in DOMAIN B, B["scores"] = <<rows, width>>
    PROVE  /\ RowCellSet(width, row) \subseteq CellsIn(B)
           /\ Targets(Weights(width, n, row)) = RowCellSet(width, row)
           /\ Writes(B, RowCellSet(width, row), RowCellSet(width, row),
                     softmax_thread(width, n, row), Weights(width, n, row))
<1> DEFINE acc == RowCellSet(width, row)
           fp == Only(FreshIn(B), acc, acc)
           m == FreshIn(B)
           k == width - n
           x(t) == RowCell(width, row, t)
           p == [t \in 1..n |-> x(t)]
           r == [t \in 1..k |-> x(n + t)]
           v == RowFound(width, n, row)
           e == [t \in 1..n |-> Exponential(v, t)]
           z == [t \in 1..k |-> Term("zero", <<>>)]
           w == [t \in 1..n |-> Weighted(v, n, t)]
           s1 == [t \in 1..n |-> <<Load(x(t)), Store(x(t), "exp", Upto(n) \o <<n + t>>)>>]
           s2 == [t \in 1..k |-> <<Store(x(n + t), "zero", <<>>)>>]
           s3 == [t \in 1..n |-> <<Load(x(t)),
                                   Store(x(t), "scaled", Upto(2 * n) \o <<2 * n + t>>)>>]
<1>1. softmax_thread(width, n, row) =
        Loads(p) \o FlattenSeq(s1) \o FlattenSeq(s2) \o FlattenSeq(s3)
  BY Zenon DEF softmax_thread, RowCell
<1>2. k \in Nat /\ n \in Nat /\ (\A t \in 1..n : t \in 1..width) /\ (\A t \in 1..k : n + t \in 1..width)
  OBVIOUS
<1>3. /\ \A t \in 1..n : p[t] = x(t) /\ e[t] = Exponential(v, t) /\ w[t] = Weighted(v, n, t)
      /\ \A t \in 1..k : r[t] = x(n + t) /\ z[t] = Term("zero", <<>>)
                         /\ s2[t] = <<Store(x(n + t), "zero", <<>>)>>
  <2> HIDE DEF v
  <2> QED OBVIOUS
<1>4. /\ \A t \in 1..n : s1[t] = <<Load(x(t)), Store(x(t), "exp", Upto(n) \o <<n + t>>)>>
      /\ \A t \in 1..n : s3[t] = <<Load(x(t)),
                                   Store(x(t), "scaled", Upto(2 * n) \o <<2 * n + t>>)>>
  <2> HIDE DEF x
  <2> QED BY Zenon
<1>5. Lists(s1, n) /\ Lists(s2, k) /\ Lists(s3, n)
  <2>2. Lists(s1, n)
    BY Zenon DEF Lists
  <2>3. Lists(s2, k)
    BY Zenon DEF Lists
  <2>4. Lists(s3, n)
    BY Zenon DEF Lists
  <2> QED BY <2>2, <2>3, <2>4
<1>6. ASSUME NEW t \in 1..width
      PROVE  /\ x(t) \in acc /\ x(t) \in CellsIn(B)
             /\ \A u \in 1..width : x(t) = x(u) => t = u
  <2>1. Element(B, "scores", <<row, t - 1>>, row * width + t - 1)
    BY RowCellFacts
  <2>2. x(t) \in CellsIn(B)
    BY <2>1 DEF Element, RowCell
  <2>3. \A u \in 1..width : x(t) = x(u) => t = u
    BY RowCellIs
  <2> QED BY <2>2, <2>3 DEF RowCellSet
<1>7. acc = {x(t) : t \in 1..width} /\ acc \subseteq CellsIn(B)
  BY <1>6 DEF RowCellSet
<1>8. DOMAIN m = CellsIn(B) /\ \A y \in CellsIn(B) : m[y] = Initially(y)
  BY DEF FreshIn
<1>9. fp.acc[0] = acc /\ fp.own[0] = acc
  BY OnlyFields
<1>10. IsSeq(v) /\ Len(v) = n /\ v = Seen(m, p) /\ IsSeq(p) /\ Len(p) = n
  <2>1. \A t \in 1..n : m[p[t]] = Initially(x(t))
    BY <1>2, <1>3, <1>6, <1>8
  <2>2. p = [t \in 1..n |-> p[t]] /\ Len(p) = n
    OBVIOUS
  <2>3. Seen(m, p) = [t \in 1..n |-> m[p[t]]]
    BY <2>2 DEF Seen
  <2>4. v = [t \in 1..n |-> Initially(x(t))]
    BY DEF RowFound
  <2>5. v = Seen(m, p)
    BY <2>1, <2>3, <2>4
  <2> HIDE DEF p
  <2>6. IsSeq([t \in 1..n |-> p[t]]) /\ Len([t \in 1..n |-> p[t]]) = n
    BY <1>2, TableIsSeq
  <2>7. IsSeq(p)
    BY <2>2, <2>6
  <2> QED BY <2>2, <2>5, <2>7, SeenFacts
<1> HIDE DEF acc, fp, m, k, x, p, r, v, e, z, w, s1, s2, s3
<1>11. Len(v \o v) = 2 * n
  <2>1. Len(v \o v) = Len(v) + Len(v)
    BY <1>10, ConcatFacts
  <2> QED BY <1>2, <1>10, <2>1
<1>12. Sites(fp, m, p, n) /\ Sites(fp, m, r, k)
  <2>1. Sites(fp, m, p, n)
    BY <1>2, <1>3, <1>6, <1>8, <1>9 DEF Sites
  <2>2. \A i, j \in 1..k : x(n + i) = x(n + j) => i = j
    BY <1>2, <1>6
  <2>3. \A i \in 1..k : r[i] = x(n + i) /\ n + i \in 1..width
    BY <1>2, <1>3
  <2>4. \A i \in 1..k : r[i] \in acc /\ r[i] \in CellsIn(B)
    BY <1>6, <2>3
  <2>5. \A i \in 1..k : r[i] \in fp.acc[0] /\ r[i] \in fp.own[0] /\ r[i] \in DOMAIN m
    BY <1>8, <1>9, <2>4
  <2>6. \A i, j \in 1..k : r[i] = r[j] => i = j
    BY <2>2, <2>3
  <2>7. Sites(fp, m, r, k)
    BY <2>5, <2>6 DEF Sites
  <2> QED BY <2>1, <2>7
<1>13. Aside(p, n, r, k)
  <2>1. ASSUME NEW i \in 1..n, NEW j \in 1..k PROVE p[i] # r[j]
    <3>1. i \in 1..width /\ n + j \in 1..width /\ i # n + j
      BY <1>2
    <3>2. x(i) # x(n + j)
      BY <1>6, <3>1
    <3> QED BY <1>3, <3>2
  <2> QED BY <2>1 DEF Aside
<1>14. FirstPass(fp, m, p, n, v)
  BY <1>10 DEF FirstPass
<1>15. Rewrites(s1, n, p, "exp", v, v, e)
  <2>1. ASSUME NEW i \in 1..n
        PROVE  /\ s1[i] = <<Load(p[i]), Store(p[i], "exp", Upto(Len(v)) \o <<Len(v) + i>>)>>
               /\ e[i] = Term("exp", v \o <<v[i]>>)
    BY <1>3, <1>4, <1>10, Zenon DEF Exponential
  <2> QED BY <2>1, Zenon DEF Rewrites
<1>16. Clears(s2, k, r, "zero", z)
  <2>1. ASSUME NEW i \in 1..k
        PROVE  s2[i] = <<Store(r[i], "zero", <<>>)>> /\ z[i] = Term("zero", <<>>)
    BY <1>3, Zenon
  <2> QED BY <2>1, Zenon DEF Clears
<1>17. Rewrites(s3, n, p, "scaled", v \o v, e, w)
  <2> DEFINE N == Len(v \o v)
  <2>1. ASSUME NEW i \in 1..n
        PROVE  /\ s3[i] = <<Load(p[i]), Store(p[i], "scaled", Upto(N) \o <<N + i>>)>>
               /\ w[i] = Term("scaled", (v \o v) \o <<e[i]>>)
    <3>1. i <= n
      OBVIOUS
    <3>2. w[i] = Term("scaled", (v \o v) \o <<e[i]>>)
      BY <1>3, <3>1, Zenon DEF Weighted
    <3>3. N = 2 * n
      BY <1>11
    <3> HIDE DEF N
    <3>4. s3[i] = <<Load(p[i]), Store(p[i], "scaled", Upto(N) \o <<N + i>>)>>
      BY <1>3, <1>4, <3>3, Zenon
    <3> QED BY <3>2, <3>4
  <2> QED BY <2>1, Zenon DEF Rewrites
<1>18. PICK l, d : /\ Passed(m, p, n, w, r, k, z, d)
                   /\ Runs(fp, Loads(p) \o FlattenSeq(s1) \o FlattenSeq(s2) \o FlattenSeq(s3),
                           State(0, <<>>, m), State(0, l, d))
  BY <1>2, <1>5, <1>12, <1>13, <1>14, <1>15, <1>16, <1>17, PassesRun
<1> DEFINE W == Weights(width, n, row)
<1>19. \A y : y \in W <=> \E t \in 1..width : y = Result(x(t), Weighted(v, n, t))
  BY Zenon DEF Weights, x, v
<1> HIDE DEF W
<1>20. \A t : Result(x(t), Weighted(v, n, t)).cell = x(t)
              /\ Result(x(t), Weighted(v, n, t)).value = Weighted(v, n, t)
  BY TargetsOfMore
<1>21. Targets(W) = acc
  BY <1>7, <1>19, <1>20 DEF Targets
<1>22. ASSUME NEW t \in 1..width PROVE d[x(t)] = Weighted(v, n, t)
  <2>1. CASE t <= n
    <3>1. t \in 1..n
      BY <2>1
    <3> QED BY <1>3, <1>18, <3>1 DEF Passed
  <2>2. CASE ~(t <= n)
    <3>1. PICK j \in 1..k : t = n + j
      <4>1. t - n \in 1..k /\ t = n + (t - n)
        BY <1>2, <2>2 DEF k
      <4> QED BY <4>1
    <3>2. d[r[j]] = z[j]
      BY <1>18 DEF Passed
    <3> QED BY <1>3, <2>2, <3>1, <3>2 DEF Weighted
  <2> QED BY <2>1, <2>2
<1>23. ASSUME NEW y \in CellsIn(B), y \notin acc PROVE d[y] = Initially(y)
  <2>1. (\A i \in 1..n : y # p[i]) /\ (\A j \in 1..k : y # r[j])
    BY <1>2, <1>3, <1>6, <1>23
  <2>2. d[y] = m[y]
    BY <1>8, <1>18, <2>1 DEF Passed
  <2> QED BY <1>8, <2>2
<1>24. DOMAIN d = CellsIn(B)
  BY <1>8, <1>18 DEF Passed
<1>25. \A y \in W : d[y.cell] = y.value
  BY <1>19, <1>20, <1>22
<1>26. Writes(B, acc, acc, softmax_thread(width, n, row), W)
  <2>1. Runs(Only(FreshIn(B), acc, acc), softmax_thread(width, n, row),
             State(0, <<>>, FreshIn(B)), State(0, l, d))
    BY <1>1, <1>18 DEF fp, m
  <2> QED BY <1>7, <1>21, <1>23, <1>24, <1>25, <2>1 DEF Writes
<1> QED BY <1>7, <1>21, <1>26 DEF acc, W

\* A softmax over the first n elements of each row is sound: the maximum and the
\* exponentials are of what the row held, the scaling of all the exponentials.
LEMMA SoftmaxSound ==
    ASSUME NEW rows \in Nat, NEW width \in Nat \ {0}, NEW n \in 1..width
    PROVE  Sound(Softmax(rows, width, n))
<1> DEFINE B == [scores |-> <<rows, width>>]
           P == [row \in Below(rows) |-> softmax_thread(width, n, row)]
           row_of(r) == [t \in 1..n |-> In(B, "scores", <<r, t - 1>>)]
           weight(r, t) == Term("scaled", row_of(r) \o row_of(r)
                              \o <<Term("exp", row_of(r) \o <<row_of(r)[t]>>)>>)
           final(r, t) == IF t <= n THEN weight(r, t) ELSE Term("zero", <<>>)
           R == {Makes(B, "scores", <<r, t - 1>>, IF t <= n THEN weight(r, t)
                                                  ELSE Term("zero", <<>>))
                   : r \in Below(rows), t \in 1..width}
           W == [r \in Below(rows) |-> Weights(width, n, r)]
           acc == [r \in Below(rows) |-> RowCellSet(width, r)]
<1>1. Softmax(rows, width, n) = Guarded(B, rows, P, R)
  BY DEF Softmax
<1>2. "scores" \in DOMAIN B /\ B["scores"] = <<rows, width>>
  OBVIOUS
<1>3. \A r \in Below(rows) : /\ P[r] = softmax_thread(width, n, r)
                             /\ W[r] = Weights(width, n, r) /\ acc[r] = RowCellSet(width, r)
  OBVIOUS
<1>4. \A y : y \in R <=> \E r \in Below(rows), t \in 1..width :
                            y = Makes(B, "scores", <<r, t - 1>>, final(r, t))
  <2> HIDE DEF B, weight
  <2> QED OBVIOUS
<1> HIDE DEF B, P, R, W, acc
<1>5. ASSUME NEW r \in Below(rows), NEW t \in 1..width
      PROVE  Element(B, "scores", <<r, t - 1>>, r * width + t - 1)
  BY <1>2, RowCellFacts
<1>6. ASSUME NEW r \in Below(rows) PROVE row_of(r) = RowFound(width, n, r)
  <2>1. \A t \in 1..n : In(B, "scores", <<r, t - 1>>) = Initially(RowCell(width, r, t))
    <3>1. \A t \in 1..n : t \in 1..width
      OBVIOUS
    <3> QED BY <1>5, <3>1 DEF Element, RowCell
  <2> QED BY <2>1, Zenon DEF RowFound
<1>7. ASSUME NEW r \in Below(rows), NEW t \in 1..width
      PROVE  Makes(B, "scores", <<r, t - 1>>, final(r, t))
                = Result(RowCell(width, r, t), Weighted(RowFound(width, n, r), n, t))
  <2>1. final(r, t) = Weighted(RowFound(width, n, r), n, t)
    <3>1. weight(r, t) = Term("scaled", RowFound(width, n, r) \o RowFound(width, n, r)
                                \o <<Exponential(RowFound(width, n, r), t)>>)
      BY <1>6, Zenon DEF Exponential
    <3> HIDE DEF weight
    <3> QED BY <3>1 DEF Weighted
  <2> HIDE DEF final
  <2> QED BY <1>5, <2>1, Zenon DEF Element, RowCell
<1>8. Separately(B, P, Below(rows), acc, W)
  <2>1. \A r \in Below(rows) : /\ acc[r] \subseteq CellsIn(B) /\ Targets(W[r]) \subseteq acc[r]
                               /\ Writes(B, acc[r], Targets(W[r]), P[r], W[r])
    BY <1>2, <1>3, SoftmaxRow
  <2>2. ASSUME NEW r \in Below(rows), NEW o \in Below(rows), r # o
        PROVE  Targets(W[r]) \cap acc[o] = {}
    <3>1. Targets(W[r]) = RowCellSet(width, r) /\ acc[o] = RowCellSet(width, o)
      BY <1>2, <1>3, SoftmaxRow
    <3>2. \A t, u \in 1..width : RowCell(width, r, t) # RowCell(width, o, u)
      BY <2>2, RowCellIs
    <3> QED BY <3>1, <3>2 DEF RowCellSet
  <2> QED BY <2>1, <2>2 DEF Separately
<1>9. Together(R, Below(rows), W)
  <2> HIDE DEF final
  <2>1. \A r \in Below(rows) : \A y : y \in W[r] <=> \E t \in 1..width :
          y = Result(RowCell(width, r, t), Weighted(RowFound(width, n, r), n, t))
    BY <1>3, Zenon DEF Weights
  <2>2. ASSUME NEW y PROVE y \in R <=> \E r \in Below(rows) : y \in W[r]
    <3>1. ASSUME y \in R PROVE \E r \in Below(rows) : y \in W[r]
      <4>1. PICK r \in Below(rows), t \in 1..width :
               y = Makes(B, "scores", <<r, t - 1>>, final(r, t))
        BY <1>4, <3>1, Zenon
      <4>2. y = Result(RowCell(width, r, t), Weighted(RowFound(width, n, r), n, t))
        BY <1>7, <4>1, Zenon
      <4> QED BY <2>1, <4>2, Zenon
    <3>2. ASSUME NEW r \in Below(rows), y \in W[r] PROVE y \in R
      <4>1. PICK t \in 1..width :
               y = Result(RowCell(width, r, t), Weighted(RowFound(width, n, r), n, t))
        BY <2>1, <3>2, Zenon
      <4>2. y = Makes(B, "scores", <<r, t - 1>>, final(r, t))
        BY <1>7, <4>1, Zenon
      <4> QED BY <1>4, <4>2, Zenon
    <3> QED BY <3>1, <3>2
  <2> QED BY <2>2 DEF Together
<1>10. Sound(Guarded(B, rows, P, R))
  BY <1>8, <1>9, GuardedSound
<1> QED BY <1>1, <1>10

-----------------------------------------------------------------------------
\* What rmsnorm_safe appends to its steps for element n.
SafeStep(h, n) ==
    <<Load(Cell("x", n - 1)), Load(Cell("gain", n - 1)),
      Store(Cell("y", n - 1), "norm",
            Upto(h) \o <<h + 2 * (n - 1) + 1, h + 2 * (n - 1) + 2>>)>>
SafeBuffers(c) == [x |-> <<c.hidden>>, gain |-> <<c.hidden>>, y |-> <<c.hidden>>]
SafeResult(c) ==
    {Makes(SafeBuffers(c), "y", <<i>>, Term("norm",
         [j \in 1..c.hidden |-> In(SafeBuffers(c), "x", <<j - 1>>)]
            \o <<In(SafeBuffers(c), "x", <<i>>), In(SafeBuffers(c), "gain", <<i>>)>>))
        : i \in Below(c.hidden)}

\* rmsnorm_safe goes from one element to the next.
LEMMA SafeUnrolls ==
    ASSUME NEW c, c.hidden \in Nat
    PROVE  \E g : /\ g[0] = Loads(Whole("x", c.hidden))
                  /\ \A n \in 1..c.hidden : g[n] = g[n - 1] \o SafeStep(c.hidden, n)
                  /\ rmsnorm_safe(c) = Guarded(SafeBuffers(c), 1,
                                               [tid \in Below(1) |-> g[c.hidden]], SafeResult(c))
<1> DEFINE h == c.hidden
           base == Loads(Whole("x", h))
           step(n) == <<Load(Cell("x", n - 1)), Load(Cell("gain", n - 1)),
                        Store(Cell("y", n - 1), "norm",
                              Upto(h) \o <<h + 2 * (n - 1) + 1, h + 2 * (n - 1) + 2>>)>>
           rec(k, g) == g = [n \in 0..k |-> IF n = 0 THEN base ELSE g[n - 1] \o step(n)]
           G == {k \in 0..h : \E g : rec(k, g)}
           up == CHOOSE g : rec(h, g)
<1>1. rmsnorm_safe(c) = Guarded(SafeBuffers(c), 1, [tid \in Below(1) |-> up[c.hidden]],
                                SafeResult(c))
  BY Zenon DEF rmsnorm_safe, SafeBuffers, SafeResult
<1>2. \A n : step(n) = SafeStep(h, n)
  BY Zenon DEF SafeStep
<1> HIDE DEF base, step
<1>3. 0 \in G
  <2>1. rec(0, [n \in 0..0 |-> base])
    OBVIOUS
  <2> HIDE DEF rec
  <2> QED BY <2>1
<1>4. \A k \in Nat : \A g : rec(k, g) => \A n \in 0..k : g[n] = IF n = 0 THEN base
                                                             ELSE g[n - 1] \o step(n)
  BY Zenon
<1>5. ASSUME NEW i \in 1..h, i - 1 \in G PROVE i \in G
  <2>1. PICK k \in Nat : k = i - 1 /\ k + 1 = i
    OBVIOUS
  <2>2. PICK g : rec(k, g)
    BY <1>5, <2>1
  <2> DEFINE f == [n \in 0..i |-> IF n <= k THEN g[n] ELSE g[k] \o step(i)]
  <2>3. \A n \in 0..k : g[n] = IF n = 0 THEN base ELSE g[n - 1] \o step(n)
    BY <1>4, <2>1, <2>2
  <2> HIDE DEF rec
  <2>4. \A n \in 0..i : f[n] = IF n = 0 THEN base ELSE f[n - 1] \o step(n)
    BY <2>1, <2>3
  <2>5. f = [n \in 0..i |-> f[n]]
    OBVIOUS
  <2> HIDE DEF f
  <2>6. rec(i, f)
    BY <2>4, <2>5 DEF rec
  <2> QED BY <2>6
<1> HIDE DEF rec
<1>6. \E g : rec(h, g)
  <2>1. \A i \in 1..h : i - 1 \in G => i \in G
    BY <1>5
  <2> HIDE DEF G
  <2>2. \A i \in 0..h : i \in G
    BY <1>3, <2>1, Induction
  <2>3. h \in G
    BY <2>2
  <2> QED BY <2>3 DEF G
<1>7. rec(h, up)
  BY <1>6
<1> HIDE DEF up
<1>8. \A n \in 0..h : up[n] = IF n = 0 THEN base ELSE up[n - 1] \o step(n)
  BY <1>4, <1>7
<1>9. up[0] = base /\ \A n \in 1..h : up[n] = up[n - 1] \o SafeStep(h, n)
  <2>1. up[0] = base
    BY <1>8
  <2>2. ASSUME NEW n \in 1..h PROVE up[n] = up[n - 1] \o SafeStep(h, n)
    <3>1. n \in 0..h /\ n # 0
      OBVIOUS
    <3>2. up[n] = up[n - 1] \o step(n)
      BY <1>8, <3>1
    <3> QED BY <1>2, <3>2, Zenon
  <2> QED BY <2>1, <2>2
<1> QED BY <1>1, <1>9 DEF base

-----------------------------------------------------------------------------
\* rmsnorm_safe.

\* One load.
LEMMA RunsLoad ==
    ASSUME NEW fp, NEW x, x \in fp.acc[0], NEW l, NEW m
    PROVE  Runs(fp, <<Load(x)>>, State(0, l, m), State(0, Append(l, m[x]), m))
<1> DEFINE a == State(0, l, m)
<1>1. a.phase = 0 /\ a.loaded = l /\ a.mem = m
  BY StateFields
<1>2. Load(x).op = "load" /\ Load(x).cell = x
  BY DEF Load
<1> HIDE DEF a
<1>3. Effect(fp, Load(x), a, State(0, Append(l, m[x]), m))
  BY <1>1, <1>2 DEF Effect
<1> QED BY <1>3, RunsStep DEF a

\* Of the loads l and then n of e, of numbers the loads l and then loads j and k of e.
NumbersTwo(of, l, e, n, j, k) ==
    l \o <<e[j], e[k]>> = [i \in 1..Len(of) |-> Grown(l, e, n)[of[i]]]

\* Upto, and two loads behind those it numbers.
LEMMA UptoTwo ==
    ASSUME NEW l, IsSeq(l), NEW e, NEW n \in Nat, NEW j \in 1..n, NEW k \in 1..n,
           NEW of, of = Upto(Len(l)) \o <<Len(l) + j, Len(l) + k>>
    PROVE  NumbersTwo(of, l, e, n, j, k)
<1> DEFINE N == Len(l)
           u == Upto(N)
           v == <<N + j, N + k>>
           L == Grown(l, e, n)
           x == <<e[j], e[k]>>
           z == [i \in 1..Len(of) |-> L[of[i]]]
<1>1. N \in Nat
  BY LenIsNat
<1>2. IsSeq(u) /\ Len(u) = N /\ \A i \in 1..N : u[i] = i
  <2>1. u \in Seq(Nat) /\ Len(u) = N /\ \A i \in 1..N : u[i] = i
    BY <1>1 DEF Upto
  <2> QED BY <2>1 DEF IsSeq
<1>3. IsSeq(v) /\ Len(v) = 2 /\ v[1] = N + j /\ v[2] = N + k
  BY PairIsSeq
<1>4. IsSeq(x) /\ Len(x) = 2 /\ x[1] = e[j] /\ x[2] = e[k]
  BY PairIsSeq
<1>5. (\A i \in 1..N : L[i] = l[i]) /\ L[N + j] = e[j] /\ L[N + k] = e[k]
  BY GrownFacts
<1>10. z = [i \in 1..Len(of) |-> L[of[i]]]
  OBVIOUS
<1>9. of = u \o v
  OBVIOUS
<1> HIDE DEF N, u, v, x, L, z
<1>11. IsSeq(u) /\ IsSeq(v) /\ IsSeq(x)
  BY <1>2, <1>3, <1>4
<1>6. Len(of) = N + 2 /\ (\A i \in 1..N : of[i] = i) /\ of[N + 1] = N + j /\ of[N + 2] = N + k
  <2>1. Len(of) = Len(u) + Len(v) /\ (\A i \in 1..Len(u) : of[i] = u[i])
    BY <1>11, <1>9, ConcatFacts
  <2>2. \A i \in 1..Len(v) : of[Len(u) + i] = v[i]
    <3>1. \A i \in 1..Len(v) : (u \o v)[Len(u) + i] = v[i]
      BY <1>11, ConcatTail
    <3> QED BY <1>9, <3>1
  <2>3. of[N + 1] = v[1] /\ of[N + 2] = v[2]
    <3>1. Len(u) = N /\ 1 \in 1..Len(v) /\ 2 \in 1..Len(v)
      BY <1>2, <1>3
    <3> QED BY <2>2, <3>1
  <2> QED BY <1>1, <1>2, <1>3, <2>1, <2>3
<1>7. IsSeq(z) /\ Len(z) = N + 2 /\ \A i \in 1..(N + 2) : z[i] = L[of[i]]
  <2> DEFINE y == [i \in 1..(N + 2) |-> L[of[i]]]
             w == [i \in 1..(N + 2) |-> y[i]]
  <2>1. N + 2 \in Nat
    BY <1>1
  <2>2. \A i \in 1..(N + 2) : y[i] = L[of[i]]
    OBVIOUS
  <2>3. w = y /\ y = z
    BY <1>6, <1>10
  <2> HIDE DEF y
  <2>4. IsSeq(w) /\ Len(w) = N + 2
    BY <2>1, TableIsSeq
  <2> HIDE DEF w
  <2> QED BY <2>2, <2>3, <2>4
<1>8. l \o x = z
  <2>1. Len(z) = Len(l) + Len(x)
    BY <1>1, <1>4, <1>7 DEF N
  <2>2. \A i \in 1..Len(l) : z[i] = l[i]
    BY <1>1, <1>5, <1>6, <1>7 DEF N
  <2>3. \A i \in 1..Len(x) : z[Len(l) + i] = x[i]
    <3>1. z[N + 1] = x[1] /\ z[N + 2] = x[2]
      <4>1. N + 1 \in 1..(N + 2) /\ N + 2 \in 1..(N + 2)
        BY <1>1
      <4>2. z[N + 1] = L[of[N + 1]] /\ z[N + 2] = L[of[N + 2]]
        BY <1>7, <4>1
      <4> QED BY <1>4, <1>5, <1>6, <4>2
    <3>2. \A i \in 1..Len(x) : i = 1 \/ i = 2
      BY <1>4
    <3> QED BY <3>1, <3>2 DEF N
  <2>4. IsSeq(x) /\ IsSeq(z)
    BY <1>4, <1>7
  <2>5. IsSeq(l)
    OBVIOUS
  <2> QED BY <2>1, <2>2, <2>3, <2>4, <2>5, JoinIs, SMTT(60)
<1> QED BY <1>8, <1>10 DEF x, L, NumbersTwo

-----------------------------------------------------------------------------
\* The loads behind the first pass, two for each element, and the loads and
\* stores of the second.
SafeLoads(h) == [j \in 1..(2 * h) |-> IF (j % 2) = 1 THEN Initially(Cell("x", (j - 1) \div 2))
                                      ELSE Initially(Cell("gain", (j - 1) \div 2))]
SafeValue(v, n) == Term("norm", v \o <<Initially(Cell("x", n - 1)), Initially(Cell("gain", n - 1))>>)

\* The loads of turn i.
LEMMA SafeLoadsFacts ==
    ASSUME NEW h \in Nat, NEW i \in 1..h
    PROVE  /\ SafeLoads(h)[2 * i - 1] = Initially(Cell("x", i - 1))
           /\ SafeLoads(h)[2 * i] = Initially(Cell("gain", i - 1))
           /\ 2 * i - 1 \in 1..(2 * h) /\ 2 * i \in 1..(2 * h)
<1>1. /\ 2 * i - 1 \in 1..(2 * h) /\ 2 * i \in 1..(2 * h)
      /\ ((2 * i - 1) % 2) = 1 /\ ((2 * i) % 2) = 0
      /\ ((2 * i - 1) - 1) \div 2 = i - 1 /\ (2 * i - 1) \div 2 = i - 1
  OBVIOUS
<1> QED BY <1>1 DEF SafeLoads

\* What the second pass needs of the memory m.
SafeMemory(fp, m, h) == \A i \in 1..h :
    /\ Cell("x", i - 1) \in fp.acc[0] /\ Cell("gain", i - 1) \in fp.acc[0]
    /\ Cell("x", i - 1) \in DOMAIN m /\ Cell("gain", i - 1) \in DOMAIN m
    /\ m[Cell("x", i - 1)] = Initially(Cell("x", i - 1))
    /\ m[Cell("gain", i - 1)] = Initially(Cell("gain", i - 1))

\* A turn of the loop normalises an element.
LEMMA SafeIterates ==
    ASSUME NEW h \in Nat, NEW fp, NEW m, SafeMemory(fp, m, h),
           NEW pos, Sites(fp, m, pos, h), \A i \in 1..h : pos[i] = Cell("y", i - 1),
           NEW v, IsSeq(v), Len(v) = h,
           NEW s, \A i \in 1..h : s[i] = SafeStep(h, i),
           NEW w, \A i \in 1..h : w[i] = SafeValue(v, i),
           NEW loads, \A i \in 0..h : loads[i] = Grown(v, SafeLoads(h), 2 * i)
    PROVE  Iterates(fp, s, h, loads, m, pos, w)
<1>1. ASSUME NEW i \in 1..h, NEW c, Swept(m, pos, w, i - 1, c)
      PROVE  \E d : /\ Swept(m, pos, w, i, d)
                    /\ Runs(fp, s[i], State(0, loads[i - 1], c), State(0, loads[i], d))
  <2> DEFINE x == Cell("x", i - 1)
             g == Cell("gain", i - 1)
             y == pos[i]
             d == Put(c, y, w[i])
             e == SafeLoads(h)
             n == 2 * (i - 1)
             of == Upto(h) \o <<h + n + 1, h + n + 2>>
  <2>1. PICK j \in Nat : j = i - 1 /\ i = j + 1
    OBVIOUS
  <2>2. y \in fp.own[0] /\ x \in fp.acc[0] /\ g \in fp.acc[0]
    BY DEF Sites, SafeMemory
  <2>3. c[x] = Initially(x) /\ c[g] = Initially(g)
    <3>1. x \in DOMAIN m /\ g \in DOMAIN m /\ m[x] = Initially(x) /\ m[g] = Initially(g)
      BY DEF SafeMemory
    <3>2. ASSUME NEW k \in 1..j PROVE x # pos[k] /\ g # pos[k]
      <4>1. k \in 1..h
        BY <2>1
      <4>2. pos[k] = Cell("y", k - 1)
        BY <4>1
      <4> QED BY <4>2, CellIs
    <3>3. \A q \in DOMAIN m : (\A k \in 1..j : q # pos[k]) => c[q] = m[q]
      BY <1>1, <2>1 DEF Swept
    <3> HIDE DEF x, g
    <3> QED BY <3>1, <3>2, <3>3
  <2>4. /\ e[n + 1] = Initially(x) /\ e[n + 2] = Initially(g)
        /\ n \in Nat /\ n + 1 \in 1..(2 * i) /\ n + 2 \in 1..(2 * i) /\ n + 2 = 2 * i
    <3>1. n \in Nat /\ n + 1 = 2 * i - 1 /\ n + 2 = 2 * i
      OBVIOUS
    <3> QED BY <3>1, SafeLoadsFacts
  <2>5. loads[i - 1] = Grown(v, e, n) /\ loads[i] = Grown(v, e, n + 2)
    <3>1. i - 1 \in 0..h /\ i \in 0..h
      OBVIOUS
    <3> QED BY <2>4, <3>1
  <2> HIDE DEF e, n
  <2>6. /\ Grown(v, e, n + 1) = Append(Grown(v, e, n), e[n + 1])
        /\ Grown(v, e, n + 2) = Append(Grown(v, e, n + 1), e[n + 2])
    <3>1. n + 1 \in Nat /\ (n + 1) + 1 = n + 2
      BY <2>4
    <3>2. Grown(v, e, (n + 1) + 1) = Append(Grown(v, e, n + 1), e[(n + 1) + 1])
      BY <3>1, GrownNext
    <3> QED BY <2>4, <3>1, <3>2, GrownNext
  <2>7. Swept(m, pos, w, i, d)
    BY <1>1, SweptNext
  <2>8. Runs(fp, <<Load(x)>>, State(0, loads[i - 1], c), State(0, Grown(v, e, n + 1), c))
    <3>1. Grown(v, e, n + 1) = Append(loads[i - 1], c[x])
      BY <2>3, <2>4, <2>5, <2>6
    <3> HIDE DEF x
    <3> QED BY <2>2, <3>1, RunsLoad
  <2>9. Runs(fp, <<Load(g)>>, State(0, Grown(v, e, n + 1), c), State(0, loads[i], c))
    <3>1. loads[i] = Append(Grown(v, e, n + 1), c[g])
      BY <2>3, <2>4, <2>5, <2>6
    <3> HIDE DEF g
    <3> QED BY <2>2, <3>1, RunsLoad
  <2> DEFINE args == v \o <<Initially(x), Initially(g)>>
  <2>10. args = [k \in 1..Len(of) |-> loads[i][of[k]]]
    <3>1. of = Upto(Len(v)) \o <<Len(v) + (n + 1), Len(v) + (n + 2)>>
      <4>1. Len(v) = h /\ h + n + 1 = h + (n + 1) /\ h + n + 2 = h + (n + 2)
        BY <2>4
      <4> QED BY <4>1
    <3>2. n + 2 \in Nat /\ n + 1 \in 1..(n + 2) /\ n + 2 \in 1..(n + 2)
      BY <2>4
    <3> HIDE DEF of
    <3>3. NumbersTwo(of, v, e, n + 2, n + 1, n + 2)
      BY <3>1, <3>2, UptoTwo
    <3>4. args = v \o <<e[n + 1], e[n + 2]>>
      BY <2>4
    <3> HIDE DEF args
    <3> QED BY <2>5, <3>3, <3>4, Zenon DEF NumbersTwo
  <2>11. w[i] = Term("norm", args)
    BY DEF SafeValue
  <2> HIDE DEF args
  <2>12. s[i] = <<Load(x)>> \o (<<Load(g)>> \o <<Store(y, "norm", of)>>)
    <3>1. s[i] = <<Load(x), Load(g), Store(y, "norm", of)>>
      <4>1. s[i] = SafeStep(h, i)
        OBVIOUS
      <4>2. y = Cell("y", i - 1)
        OBVIOUS
      <4>3. SafeStep(h, i) = <<Load(x), Load(g), Store(Cell("y", i - 1), "norm", of)>>
        BY Zenon DEF SafeStep, n
      <4> HIDE DEF y
      <4> QED BY <4>1, <4>2, <4>3, Zenon
    <3> HIDE DEF x, g, y, of
    <3> QED BY <3>1, Places2, Places3
  <2> HIDE DEF x, g, y, of, d
  <2>13. Runs(fp, <<Store(y, "norm", of)>>, State(0, loads[i], c), State(0, loads[i], d))
    <3>1. d = Put(c, y, Term("norm", args))
      BY <2>11 DEF d
    <3> QED BY <2>2, <2>10, <3>1, RunsStore
  <2>14. Runs(fp, <<Load(g)>> \o <<Store(y, "norm", of)>>,
              State(0, Grown(v, e, n + 1), c), State(0, loads[i], d))
    BY <2>9, <2>13, RunsThen
  <2>15. Runs(fp, s[i], State(0, loads[i - 1], c), State(0, loads[i], d))
    BY <2>8, <2>12, <2>14, RunsThen
  <2> QED BY <2>7, <2>15
<1> QED BY <1>1 DEF Iterates

\* What rmsnorm_safe leaves: every element of y.
SafeLeaves(h, v) == {Result(Cell("y", i - 1), SafeValue(v, i)) : i \in 1..h}
SafeOwn(h) == {Cell("y", i - 1) : i \in 1..h}

\* The thread loads x, and normalises its elements one after the other.
LEMMA SafeThread ==
    ASSUME NEW B, NEW h \in Nat, DOMAIN B = {"x", "gain", "y"},
           B["x"] = <<h>>, B["gain"] = <<h>>, B["y"] = <<h>>,
           NEW g, g[0] = Loads(Whole("x", h)), \A n \in 1..h : g[n] = g[n - 1] \o SafeStep(h, n),
           NEW v, v = [j \in 1..h |-> Initially(Cell("x", j - 1))]
    PROVE  /\ Targets(SafeLeaves(h, v)) = SafeOwn(h) /\ SafeOwn(h) \subseteq CellsIn(B)
           /\ Writes(B, CellsIn(B), SafeOwn(h), g[h], SafeLeaves(h, v))
<1> DEFINE acc == CellsIn(B)
           own == SafeOwn(h)
           fp == Only(FreshIn(B), acc, own)
           m == FreshIn(B)
           p == Whole("x", h)
           pos == [i \in 1..h |-> Cell("y", i - 1)]
           s == [i \in 1..h |-> SafeStep(h, i)]
           w == [i \in 1..h |-> SafeValue(v, i)]
           l == [i \in 0..h |-> Grown(v, SafeLoads(h), 2 * i)]
           W == SafeLeaves(h, v)
<1>1. \A i \in 1..h : pos[i] = Cell("y", i - 1) /\ s[i] = SafeStep(h, i) /\ w[i] = SafeValue(v, i)
  OBVIOUS
<1>2. \A i \in 0..h : l[i] = Grown(v, SafeLoads(h), 2 * i)
  OBVIOUS
<1>3. ASSUME NEW i \in 1..h
      PROVE  Cell("x", i - 1) \in acc /\ Cell("gain", i - 1) \in acc /\ Cell("y", i - 1) \in acc
  <2>1. i - 1 \in Below(h)
    BY DEF Below
  <2>2. Cell("x", i - 1) \in CellsIn(B)
    BY <2>1, VectorCell
  <2>3. Cell("gain", i - 1) \in CellsIn(B)
    BY <2>1, VectorCell
  <2>4. Cell("y", i - 1) \in CellsIn(B)
    BY <2>1, VectorCell
  <2> QED BY <2>2, <2>3, <2>4
<1>4. DOMAIN m = CellsIn(B) /\ \A y \in CellsIn(B) : m[y] = Initially(y)
  BY DEF FreshIn
<1>5. fp.acc[0] = acc /\ fp.own[0] = own
  BY OnlyFields
<1>6. \A y : y \in own <=> \E i \in 1..h : y = Cell("y", i - 1)
  BY DEF SafeOwn
<1>7. \A y : y \in W <=> \E i \in 1..h : y = Result(Cell("y", i - 1), SafeValue(v, i))
  BY Zenon DEF SafeLeaves
<1>8. IsSeq(p) /\ Len(p) = h /\ \A i \in 1..h : p[i] = Cell("x", i - 1)
  <2>1. \A i \in 1..h : p[i] = Cell("x", i - 1)
    BY DEF Whole
  <2> QED BY <2>1, WholeFacts
<1>9. v = Seen(m, p) /\ IsSeq(v) /\ Len(v) = h
  <2>1. \A j \in 1..h : m[p[j]] = Initially(Cell("x", j - 1))
    BY <1>3, <1>4, <1>8
  <2>2. Seen(m, p) = [j \in 1..h |-> m[p[j]]]
    BY <1>8 DEF Seen
  <2>3. v = Seen(m, p)
    BY <2>1, <2>2
  <2> HIDE DEF p, m
  <2>4. IsSeq(Seen(m, p)) /\ Len(Seen(m, p)) = h
    BY <1>8, SeenFacts
  <2> QED BY <2>3, <2>4
<1> HIDE DEF acc, own, fp, m, p, pos, s, w, l, W
<1>10. SafeMemory(fp, m, h)
  BY <1>3, <1>4, <1>5 DEF SafeMemory, acc
<1>11. Sites(fp, m, pos, h)
  <2>1. \A i, j \in 1..h : Cell("y", i - 1) = Cell("y", j - 1) => i = j
    <3>1. \A i, j \in 1..h : i - 1 = j - 1 => i = j
      OBVIOUS
    <3> QED BY <3>1, CellIs
  <2>2. ASSUME NEW i \in 1..h
        PROVE  pos[i] \in fp.acc[0] /\ pos[i] \in fp.own[0] /\ pos[i] \in DOMAIN m
    <3>1. pos[i] = Cell("y", i - 1)
      BY <1>1
    <3>2. Cell("y", i - 1) \in own /\ Cell("y", i - 1) \in acc
      BY <1>3, <1>6
    <3> QED BY <1>4, <1>5, <3>1, <3>2 DEF acc
  <2>3. \A i, j \in 1..h : pos[i] = pos[j] => i = j
    <3>1. SUFFICES ASSUME NEW i \in 1..h, NEW j \in 1..h, pos[i] = pos[j] PROVE i = j
      OBVIOUS
    <3>2. pos[i] = Cell("y", i - 1) /\ pos[j] = Cell("y", j - 1)
      BY <1>1
    <3>3. Cell("y", i - 1) = Cell("y", j - 1)
      BY <3>1, <3>2
    <3> QED BY <2>1, <3>3
  <2> QED BY <2>2, <2>3 DEF Sites
<1>12. Iterates(fp, s, h, l, m, pos, w)
  BY <1>1, <1>2, <1>9, <1>10, <1>11, SafeIterates
<1>13. l[0] = v
  <2>1. l[0] = Grown(v, SafeLoads(h), 0)
    <3>1. 0 \in 0..h /\ 2 * 0 = 0
      OBVIOUS
    <3> QED BY <1>2, <3>1
  <2> QED BY <1>9, <2>1, GrownFacts
<1>14. Runs(fp, g[0], State(0, <<>>, m), State(0, l[0], m))
  <2>1. \A j \in 1..Len(p) : p[j] \in fp.acc[0]
    BY <1>3, <1>5, <1>8
  <2>2. Runs(fp, Loads(p), State(0, <<>>, m), State(0, <<>> \o Seen(m, p), m))
    BY <1>8, <2>1, EmptyIsSeq, RunsLoads
  <2>3. <<>> \o Seen(m, p) = l[0]
    BY <1>9, <1>13, EmptyConcat
  <2> QED BY <2>2, <2>3 DEF p
<1>15. PICK d : Swept(m, pos, w, h, d) /\ Runs(fp, g[h], State(0, <<>>, m), State(0, l[h], d))
  <2>1. \A i \in 1..h : g[i] = g[i - 1] \o s[i]
    BY <1>1
  <2> QED BY <1>12, <1>14, <2>1, LoopRuns
<1>16. \A i : Result(Cell("y", i - 1), SafeValue(v, i)).cell = Cell("y", i - 1)
              /\ Result(Cell("y", i - 1), SafeValue(v, i)).value = SafeValue(v, i)
  BY TargetsOfMore
<1>17. Targets(W) = own
  <2>1. ASSUME NEW y \in own PROVE y \in Targets(W)
    <3>1. PICK i \in 1..h : y = Cell("y", i - 1)
      BY <1>6
    <3>2. Result(Cell("y", i - 1), SafeValue(v, i)) \in W
      BY <1>7
    <3> QED BY <1>16, <3>1, <3>2 DEF Targets
  <2>2. ASSUME NEW y \in W PROVE y.cell \in own
    <3>1. PICK i \in 1..h : y = Result(Cell("y", i - 1), SafeValue(v, i))
      BY <1>7
    <3> QED BY <1>6, <1>16, <3>1
  <2> QED BY <2>1, <2>2 DEF Targets
<1>18. own \subseteq CellsIn(B)
  BY <1>3, <1>6 DEF acc
<1>19. /\ DOMAIN d = CellsIn(B)
       /\ \A y \in CellsIn(B) : y \notin own => d[y] = Initially(y)
       /\ \A y \in W : d[y.cell] = y.value
  <2>1. DOMAIN d = CellsIn(B)
    BY <1>4, <1>15 DEF Swept
  <2>2. \A i \in 1..h : d[Cell("y", i - 1)] = SafeValue(v, i)
    BY <1>1, <1>15 DEF Swept
  <2>3. \A y \in CellsIn(B) : y \notin own => d[y] = Initially(y)
    BY <1>1, <1>4, <1>6, <1>15 DEF Swept
  <2> QED BY <1>7, <1>16, <2>1, <2>2, <2>3
<1>20. Writes(B, CellsIn(B), own, g[h], W)
  <2>1. Runs(Only(FreshIn(B), CellsIn(B), own), g[h],
             State(0, <<>>, FreshIn(B)), State(0, l[h], d))
    BY <1>15 DEF fp, m, acc
  <2> QED BY <1>17, <1>18, <1>19, <2>1 DEF Writes
<1> QED BY <1>17, <1>18, <1>20 DEF own, W

\* rmsnorm_safe is sound: it never reads an element of y.
LEMMA SafeNormSound == ASSUME NEW c, Dims(c) PROVE Sound(rmsnorm_safe(c))
<1> DEFINE h == c.hidden
           B == SafeBuffers(c)
           R == SafeResult(c)
           v == [j \in 1..h |-> Initially(Cell("x", j - 1))]
<1>0. h \in Nat
  BY DimsFacts
<1>1. PICK g : /\ g[0] = Loads(Whole("x", h))
               /\ \A n \in 1..h : g[n] = g[n - 1] \o SafeStep(h, n)
               /\ rmsnorm_safe(c) = Guarded(B, 1, [tid \in Below(1) |-> g[h]], R)
  BY <1>0, SafeUnrolls
<1> DEFINE P == [tid \in Below(1) |-> g[h]]
           acc == [tid \in Below(1) |-> CellsIn(B)]
           W == [tid \in Below(1) |-> SafeLeaves(h, v)]
<1>2. DOMAIN B = {"x", "gain", "y"} /\ B["x"] = <<h>> /\ B["gain"] = <<h>> /\ B["y"] = <<h>>
  BY DEF SafeBuffers
<1>3. \A t \in Below(1) : P[t] = g[h] /\ acc[t] = CellsIn(B) /\ W[t] = SafeLeaves(h, v)
  OBVIOUS
<1>4. \A y : y \in R <=> \E i \in Below(h) : y = Makes(B, "y", <<i>>, Term("norm",
                [j \in 1..h |-> In(B, "x", <<j - 1>>)] \o <<In(B, "x", <<i>>), In(B, "gain", <<i>>)>>))
  BY Zenon DEF SafeResult
<1>9. v = [j \in 1..h |-> Initially(Cell("x", j - 1))]
  OBVIOUS
<1> HIDE DEF h, B, R, v, P, acc, W
<1>5. /\ Targets(SafeLeaves(h, v)) = SafeOwn(h) /\ SafeOwn(h) \subseteq CellsIn(B)
      /\ Writes(B, CellsIn(B), SafeOwn(h), g[h], SafeLeaves(h, v))
  BY <1>0, <1>1, <1>2, <1>9, SafeThread
<1>6. Separately(B, P, Below(1), acc, W)
  <2>1. \A t, u \in Below(1) : t = u
    BY DEF Below
  <2> QED BY <1>3, <1>5, <2>1 DEF Separately
<1>7. Together(R, Below(1), W)
  <2>1. ASSUME NEW i \in Below(h)
        PROVE  Makes(B, "y", <<i>>, Term("norm",
                 [j \in 1..h |-> In(B, "x", <<j - 1>>)] \o <<In(B, "x", <<i>>), In(B, "gain", <<i>>)>>))
                 = Result(Cell("y", i), SafeValue(v, i + 1))
    <3>1. \A k \in Below(h) : /\ Element(B, "x", <<k>>, k) /\ Element(B, "gain", <<k>>, k)
                              /\ Element(B, "y", <<k>>, k)
      BY <1>0, <1>2, Element1
    <3>2. \A k \in Below(h) : /\ In(B, "x", <<k>>) = Initially(Cell("x", k))
                              /\ In(B, "gain", <<k>>) = Initially(Cell("gain", k))
      BY <3>1, Zenon DEF Element
    <3>3. [j \in 1..h |-> In(B, "x", <<j - 1>>)] = v
      <4>1. \A j \in 1..h : In(B, "x", <<j - 1>>) = Initially(Cell("x", j - 1))
        <5>1. \A j \in 1..h : j - 1 \in Below(h)
          BY <1>0 DEF Below
        <5> QED BY <3>2, <5>1, Zenon
      <4> QED BY <1>9, <4>1, Zenon
    <3> DEFINE val == Term("norm", v \o <<In(B, "x", <<i>>), In(B, "gain", <<i>>)>>)
    <3>4. (i + 1) - 1 = i
      BY <1>0 DEF Below
    <3>5. val = SafeValue(v, i + 1)
      BY <3>2, <3>4, Zenon DEF SafeValue
    <3>6. Makes(B, "y", <<i>>, val) = Result(Cell("y", i), val)
      BY <3>1, Zenon DEF Element
    <3> QED BY <3>3, <3>5, <3>6, Zenon
  <2>2. \A i \in Below(h) : i + 1 \in 1..h /\ (i + 1) - 1 = i
    BY <1>0 DEF Below
  <2>3. \A i \in 1..h : i - 1 \in Below(h) /\ (i - 1) + 1 = i
    BY <1>0 DEF Below
  <2>4. \A y : y \in SafeLeaves(h, v)
                 <=> \E i \in 1..h : y = Result(Cell("y", i - 1), SafeValue(v, i))
    BY Zenon DEF SafeLeaves
  <2>5. ASSUME NEW y PROVE y \in R <=> y \in SafeLeaves(h, v)
    <3>1. ASSUME y \in R PROVE y \in SafeLeaves(h, v)
      <4>1. PICK i \in Below(h) : y = Result(Cell("y", i), SafeValue(v, i + 1))
        BY <1>4, <2>1, <3>1, Zenon
      <4>2. PICK j \in 1..h : j = i + 1 /\ j - 1 = i
        BY <2>2
      <4> QED BY <2>4, <4>1, <4>2
    <3>2. ASSUME y \in SafeLeaves(h, v) PROVE y \in R
      <4>1. PICK i \in 1..h : y = Result(Cell("y", i - 1), SafeValue(v, i))
        BY <2>4, <3>2, Zenon
      <4>2. PICK j \in Below(h) : j = i - 1 /\ j + 1 = i
        BY <2>3
      <4>3. y = Result(Cell("y", j), SafeValue(v, j + 1))
        BY <4>1, <4>2
      <4> QED BY <1>4, <2>1, <4>3, Zenon
    <3> QED BY <3>1, <3>2
  <2>6. 0 \in Below(1)
    BY DEF Below
  <2> QED BY <1>3, <2>5, <2>6 DEF Together
<1>8. Sound(Guarded(B, 1, P, R))
  BY <1>6, <1>7, GuardedSound
<1> QED BY <1>1, <1>8 DEF P

-----------------------------------------------------------------------------
\* Rotations.

\* Two stores of what f and g make of the same loads.
LEMMA RunsStores ==
    ASSUME NEW fp, NEW l, NEW m, NEW x, x \in fp.own[0], NEW y, y \in fp.own[0],
           NEW f, NEW g, NEW of, NEW args, args = [i \in 1..Len(of) |-> l[of[i]]]
    PROVE  Runs(fp, <<Store(x, f, of), Store(y, g, of)>>, State(0, l, m),
                State(0, l, Put(Put(m, x, Term(f, args)), y, Term(g, args))))
<1> DEFINE n == Put(m, x, Term(f, args))
<1>1. Runs(fp, <<Store(x, f, of)>>, State(0, l, m), State(0, l, n))
  BY RunsStore
<1>2. Runs(fp, <<Store(y, g, of)>>, State(0, l, n), State(0, l, Put(n, y, Term(g, args))))
  BY RunsStore
<1> DEFINE s == Store(x, f, of)
           t == Store(y, g, of)
<1> HIDE DEF n, s, t
<1>3. Runs(fp, <<s>> \o <<t>>, State(0, l, m), State(0, l, Put(n, y, Term(g, args))))
  BY <1>1, <1>2, RunsThen DEF s, t
<1>4. <<s>> \o <<t>> = <<s, t>>
  BY Places2
<1> QED BY <1>3, <1>4 DEF n, s, t

\* A thread of rope_qk rotates the pair at e of q and then that of k.
RotatedSteps(w, x, y, z) ==
    Loads(<<w, x>>) \o <<Store(w, "cos", <<1, 2>>), Store(x, "sin", <<1, 2>>)>>
       \o Loads(<<y, z>>) \o <<Store(y, "cos", <<3, 4>>), Store(z, "sin", <<3, 4>>)>>
Turned(f, x, y) == Term(f, <<Initially(x), Initially(y)>>)
RotatedResults(w, x, y, z) ==
    {Result(w, Turned("cos", w, x)), Result(x, Turned("sin", w, x)),
     Result(y, Turned("cos", y, z)), Result(z, Turned("sin", y, z))}
Different(w, x, y, z) == w # x /\ w # y /\ w # z /\ x # y /\ x # z /\ y # z

\* Loads of two cells.
LEMMA RunsTwoLoads ==
    ASSUME NEW fp, NEW l, IsSeq(l), NEW m, NEW x, x \in fp.acc[0], NEW y, y \in fp.acc[0]
    PROVE  Runs(fp, Loads(<<x, y>>), State(0, l, m), State(0, l \o <<m[x], m[y]>>, m))
<1> DEFINE s == <<x, y>>
<1>1. IsSeq(s) /\ Len(s) = 2 /\ s[1] = x /\ s[2] = y
  BY PairIsSeq
<1>2. \A j \in 1..Len(s) : j = 1 \/ j = 2
  BY <1>1
<1>3. Seen(m, s) = <<m[x], m[y]>>
  <2>1. Seen(m, s) = [j \in 1..2 |-> m[s[j]]]
    BY <1>1 DEF Seen
  <2>2. <<m[x], m[y]>> = [j \in 1..2 |-> m[s[j]]]
    OBVIOUS
  <2> QED BY <2>1, <2>2
<1> HIDE DEF s
<1>4. \A j \in 1..Len(s) : s[j] \in fp.acc[0]
  BY <1>1, <1>2
<1>5. IsSeq(s)
  BY <1>1
<1>6. Runs(fp, Loads(s), State(0, l, m), State(0, l \o Seen(m, s), m))
  BY <1>4, <1>5, RunsLoads
<1> QED BY <1>3, <1>6 DEF s

\* Its cells are there, with the content they had before the dispatch.
Untouched(fp, m, w, x, y, z) ==
    /\ {w, x, y, z} \subseteq fp.acc[0] /\ {w, x, y, z} \subseteq fp.own[0]
    /\ {w, x, y, z} \subseteq DOMAIN m
    /\ \A c \in {w, x, y, z} : m[c] = Initially(c)

\* What the rotation makes of the memory m.
Rotated(m, w, x, y, z, d) ==
    /\ DOMAIN d = DOMAIN m
    /\ \A r \in RotatedResults(w, x, y, z) : d[r.cell] = r.value
    /\ \A c \in DOMAIN m : c \notin {w, x, y, z} => d[c] = m[c]

\* A thread rotates both pairs.
LEMMA RotatedRun ==
    ASSUME NEW fp, NEW m, NEW w, NEW x, NEW y, NEW z, Different(w, x, y, z),
           Untouched(fp, m, w, x, y, z)
    PROVE  \E l, d : /\ Runs(fp, RotatedSteps(w, x, y, z), State(0, <<>>, m), State(0, l, d))
                     /\ Rotated(m, w, x, y, z, d)
<1> DEFINE i1 == Initially(w)
           i2 == Initially(x)
           i3 == Initially(y)
           i4 == Initially(z)
           p == <<i1, i2>>
           q == <<i3, i4>>
           l == <<i1, i2, i3, i4>>
           of1 == <<1, 2>>
           of2 == <<3, 4>>
           n1 == Put(m, w, Term("cos", p))
           n2 == Put(n1, x, Term("sin", p))
           n3 == Put(n2, y, Term("cos", q))
           n4 == Put(n3, z, Term("sin", q))
<1>0. /\ {w, x, y, z} \subseteq fp.acc[0] /\ {w, x, y, z} \subseteq fp.own[0]
      /\ {w, x, y, z} \subseteq DOMAIN m
      /\ \A c \in {w, x, y, z} : m[c] = Initially(c)
  BY DEF Untouched
<1>1. p = [i \in 1..Len(of1) |-> p[of1[i]]]
  OBVIOUS
<1>2. q = [i \in 1..Len(of2) |-> l[of2[i]]]
  OBVIOUS
<1>3. p \o q = l
  BY Places4
<1>4. IsSeq(p) /\ IsSeq(q)
  BY PairIsSeq
<1>5. m[w] = i1 /\ m[x] = i2 /\ m[y] = i3 /\ m[z] = i4
  BY <1>0
<1> HIDE DEF i1, i2, i3, i4
<1>6. <<>> \o p = p /\ p = <<m[w], m[x]>>
  BY <1>4, <1>5, EmptyConcat
<1>7. w \in DOMAIN m /\ x \in DOMAIN m /\ y \in DOMAIN m /\ z \in DOMAIN m
      /\ w # x /\ w # y /\ w # z /\ x # y /\ x # z /\ y # z
  BY <1>0 DEF Different
<1>8. /\ DOMAIN n1 = DOMAIN m /\ n1[w] = Term("cos", p) /\ \A c \in DOMAIN m : c # w => n1[c] = m[c]
  BY <1>7, PutFacts
<1> HIDE DEF n1
<1>9. /\ DOMAIN n2 = DOMAIN m /\ n2[x] = Term("sin", p) /\ \A c \in DOMAIN m : c # x => n2[c] = n1[c]
  <2>1. x \in DOMAIN n1
    BY <1>7, <1>8
  <2> QED BY <1>8, <2>1, PutFacts
<1> HIDE DEF n2
<1>10. /\ DOMAIN n3 = DOMAIN m /\ n3[y] = Term("cos", q) /\ \A c \in DOMAIN m : c # y => n3[c] = n2[c]
  <2>1. y \in DOMAIN n2
    BY <1>7, <1>9
  <2> QED BY <1>9, <2>1, PutFacts
<1> HIDE DEF n3
<1>11. /\ DOMAIN n4 = DOMAIN m /\ n4[z] = Term("sin", q) /\ \A c \in DOMAIN m : c # z => n4[c] = n3[c]
  <2>1. z \in DOMAIN n3
    BY <1>7, <1>10
  <2> QED BY <1>10, <2>1, PutFacts
<1> HIDE DEF n4
<1>12. q = <<n2[y], n2[z]>>
  <2>1. n2[y] = m[y] /\ n2[z] = m[z]
    BY <1>7, <1>8, <1>9
  <2> QED BY <1>5, <2>1
<1>13. /\ n4[w] = Term("cos", p) /\ n4[x] = Term("sin", p)
       /\ n4[y] = Term("cos", q) /\ n4[z] = Term("sin", q)
  BY <1>7, <1>8, <1>9, <1>10, <1>11
<1>14. \A c \in DOMAIN m : c \notin {w, x, y, z} => n4[c] = m[c]
  BY <1>8, <1>9, <1>10, <1>11
<1> HIDE DEF p, q, l, of1, of2
<1>15. Runs(fp, Loads(<<w, x>>), State(0, <<>>, m), State(0, p, m))
  <2>1. Runs(fp, Loads(<<w, x>>), State(0, <<>>, m), State(0, <<>> \o <<m[w], m[x]>>, m))
    BY <1>0, EmptyIsSeq, RunsTwoLoads
  <2> QED BY <1>6, <2>1
<1>16. Runs(fp, <<Store(w, "cos", of1), Store(x, "sin", of1)>>, State(0, p, m), State(0, p, n2))
  BY <1>0, <1>1, RunsStores DEF n1, n2
<1>17. Runs(fp, Loads(<<y, z>>), State(0, p, n2), State(0, l, n2))
  <2>1. Runs(fp, Loads(<<y, z>>), State(0, p, n2), State(0, p \o <<n2[y], n2[z]>>, n2))
    BY <1>0, <1>4, RunsTwoLoads
  <2> QED BY <1>3, <1>12, <2>1
<1>18. Runs(fp, <<Store(y, "cos", of2), Store(z, "sin", of2)>>, State(0, l, n2), State(0, l, n4))
  BY <1>0, <1>2, RunsStores DEF n3, n4
<1>19. Runs(fp, RotatedSteps(w, x, y, z), State(0, <<>>, m), State(0, l, n4))
  <2> DEFINE s1 == Loads(<<w, x>>)
             s2 == <<Store(w, "cos", of1), Store(x, "sin", of1)>>
             s3 == Loads(<<y, z>>)
             s4 == <<Store(y, "cos", of2), Store(z, "sin", of2)>>
  <2>1. RotatedSteps(w, x, y, z) = s1 \o s2 \o s3 \o s4
    BY Zenon DEF RotatedSteps, of1, of2
  <2> HIDE DEF s1, s2, s3, s4
  <2>2. Runs(fp, s1 \o s2, State(0, <<>>, m), State(0, p, n2))
    BY <1>15, <1>16, RunsThen DEF s1, s2
  <2>3. Runs(fp, s1 \o s2 \o s3, State(0, <<>>, m), State(0, l, n2))
    BY <1>17, <2>2, RunsThen DEF s3
  <2>4. Runs(fp, s1 \o s2 \o s3 \o s4, State(0, <<>>, m), State(0, l, n4))
    BY <1>18, <2>3, RunsThen DEF s4
  <2> QED BY <2>1, <2>4
<1>20. ASSUME NEW r \in RotatedResults(w, x, y, z) PROVE n4[r.cell] = r.value
  <2>1. Turned("cos", w, x) = Term("cos", p) /\ Turned("sin", w, x) = Term("sin", p)
        /\ Turned("cos", y, z) = Term("cos", q) /\ Turned("sin", y, z) = Term("sin", q)
    BY DEF Turned, p, q, i1, i2, i3, i4
  <2>2. \/ r = Result(w, Term("cos", p)) \/ r = Result(x, Term("sin", p))
        \/ r = Result(y, Term("cos", q)) \/ r = Result(z, Term("sin", q))
    BY <2>1, Zenon DEF RotatedResults
  <2>3. \A c, v : Result(c, v).cell = c /\ Result(c, v).value = v
    BY TargetsOfMore
  <2> QED BY <1>13, <2>2, <2>3
<1>21. Rotated(m, w, x, y, z, n4)
  BY <1>11, <1>14, <1>20 DEF Rotated
<1> QED BY <1>19, <1>21

\* So it leaves both rotated.
LEMMA RotatedWrites ==
    ASSUME NEW B, NEW w, NEW x, NEW y, NEW z, Different(w, x, y, z),
           {w, x, y, z} \subseteq CellsIn(B)
    PROVE  /\ Targets(RotatedResults(w, x, y, z)) = {w, x, y, z}
           /\ Writes(B, {w, x, y, z}, {w, x, y, z}, RotatedSteps(w, x, y, z),
                     RotatedResults(w, x, y, z))
<1> DEFINE a == {w, x, y, z}
           m == FreshIn(B)
           fp == Only(m, a, a)
           W == RotatedResults(w, x, y, z)
<1>1. fp.acc[0] = a /\ fp.own[0] = a
  BY OnlyFields
<1>2. DOMAIN m = CellsIn(B) /\ \A c \in CellsIn(B) : m[c] = Initially(c)
  BY DEF FreshIn
<1>3. Targets(W) = a
  <2> DEFINE v1 == Turned("cos", w, x)
             v2 == Turned("sin", w, x)
             v3 == Turned("cos", y, z)
             v4 == Turned("sin", y, z)
  <2>1. W = {Result(w, v1), Result(x, v2), Result(y, v3), Result(z, v4)}
    BY Zenon DEF RotatedResults
  <2>2. \A c, v : Result(c, v).cell = c
    BY TargetsOfMore
  <2> HIDE DEF W, v1, v2, v3, v4
  <2>3. \A c : c \in Targets(W) <=> \E r \in W : c = r.cell
    BY DEF Targets
  <2>4. \A c : c \in Targets(W) <=> c = w \/ c = x \/ c = y \/ c = z
    BY <2>1, <2>2, <2>3
  <2> QED BY <2>4
<1> HIDE DEF fp, m, W
<1>4. PICK l, d : /\ Runs(fp, RotatedSteps(w, x, y, z), State(0, <<>>, m), State(0, l, d))
                  /\ DOMAIN d = DOMAIN m
                  /\ \A r \in W : d[r.cell] = r.value
                  /\ \A c \in DOMAIN m : c \notin a => d[c] = m[c]
  <2>1. Untouched(fp, m, w, x, y, z)
    BY <1>1, <1>2 DEF Untouched
  <2>2. PICK l, d : /\ Runs(fp, RotatedSteps(w, x, y, z), State(0, <<>>, m), State(0, l, d))
                    /\ Rotated(m, w, x, y, z, d)
    BY <2>1, RotatedRun
  <2>3. /\ DOMAIN d = DOMAIN m
        /\ \A r \in W : d[r.cell] = r.value
        /\ \A c \in DOMAIN m : c \notin a => d[c] = m[c]
    BY <2>2, Zenon DEF Rotated, W
  <2> QED BY <2>2, <2>3
<1> HIDE DEF a
<1>5. Writes(B, a, a, RotatedSteps(w, x, y, z), W)
  <2>1. Runs(Only(FreshIn(B), a, a), RotatedSteps(w, x, y, z),
             State(0, <<>>, FreshIn(B)), State(0, l, d))
    BY <1>4 DEF fp, m
  <2>2. Targets(W) \subseteq CellsIn(B)
    BY <1>3 DEF a
  <2> QED BY <1>2, <1>3, <1>4, <2>1, <2>2 DEF Writes
<1> QED BY <1>3, <1>5 DEF a, W

\* An even place in a matrix with rows of an even length is that of a pair in one row.
LEMMA PairPlace ==
    ASSUME NEW H \in Nat, NEW D \in Nat \ {0}, (D % 2) = 0, NEW t \in Below(H * D), (t % 2) = 0
    PROVE  /\ t \div D \in Below(H) /\ (t % D) \in Below(D) /\ ((t % D) % 2) = 0
           /\ (t % D) + 1 \in Below(D)
           /\ t = (t \div D) * D + (t % D)
           /\ 2 * ((t \div 2) % (D \div 2)) = (t % D)
           /\ t + 1 \in Below(H * D)
<1>1. PICK e \in Nat : e = D \div 2 /\ D = 2 * e /\ e # 0
  OBVIOUS
<1>2. PICK h \in Below(H) : h = t \div D
  BY PlaceSplits
<1>3. PICK d \in Below(D) : d = (t % D)
  BY PlaceSplits
<1>4. t = h * D + d
  BY <1>2, <1>3, PlaceSplits
<1>5. h \in Nat /\ d \in Nat /\ h * e \in Nat /\ d < D /\ h < H
  BY <1>1 DEF Below
<1>6. h * D = 2 * (h * e)
  BY <1>1, <1>5
<1>7. PICK g \in Nat : g = d \div 2 /\ d = 2 * g
  <2>1. PICK k \in Nat : t = 2 * k
    BY DEF Below
  <2>2. t = 2 * (h * e) + d
    BY <1>4, <1>6
  <2>3. PICK m \in Nat : m = h * e
    BY <1>5
  <2>4. d = 2 * (k - m) /\ k - m \in Nat
    BY <1>5, <2>1, <2>2, <2>3
  <2>5. PICK g \in Nat : g = k - m
    BY <2>4
  <2>6. d = 2 * g
    BY <2>4, <2>5
  <2> QED BY <2>6
<1>8. g < e /\ t = 2 * (h * e + g) /\ t \div 2 = h * e + g
  <2>1. t = 2 * (h * e) + 2 * g
    BY <1>4, <1>6, <1>7
  <2> QED BY <1>1, <1>5, <1>7, <2>1
<1>9. ((h * e + g) % e) = g
  <2>1. h \in Below(h + 1) /\ g \in Below(e) /\ h + 1 \in Nat
    BY <1>5, <1>8 DEF Below
  <2> QED BY <2>1, PlaceFacts
<1>10. d + 1 \in Below(D) /\ (d % 2) = 0
  BY <1>1, <1>5, <1>7 DEF Below
<1>11. t + 1 \in Below(H * D)
  <2>1. h * D + (d + 1) \in Below(H * D)
    BY <1>10, PlaceFacts
  <2>2. h * D + (d + 1) = t + 1
    <3>1. h * D \in Nat
      BY <1>5, <1>6
    <3> QED BY <1>4, <1>5, <3>1
  <2> QED BY <2>1, <2>2
<1>12. 2 * ((t \div 2) % (D \div 2)) = d
  BY <1>1, <1>7, <1>8, <1>9
<1> QED BY <1>2, <1>3, <1>4, <1>10, <1>11, <1>12

\* The pairs at t of q and k.
RopeSteps(t) == RotatedSteps(Cell("q", t), Cell("q", t + 1), Cell("k", t), Cell("k", t + 1))
RopeResults(t) == RotatedResults(Cell("q", t), Cell("q", t + 1), Cell("k", t), Cell("k", t + 1))
RopeCells(t) == {Cell("q", t), Cell("q", t + 1), Cell("k", t), Cell("k", t + 1)}

\* If no query heads share a key head, thread t rotates the pairs at t.
LEMMA RopeThread ==
    ASSUME NEW c, Dims(c), c.q_heads = c.kv_heads, NEW t \in Below(q_total(c))
    PROVE  rope_qk_thread(c, t) = IF (t % 2) = 1 THEN <<>> ELSE RopeSteps(t)
<1> DEFINE D == c.head_dim
           H == c.q_heads
           h == t \div D
           p == (t \div 2) % (D \div 2)
           q0 == h * D + 2 * p
           k0 == (h % c.kv_heads) * D + 2 * p
<1>1. rope_qk_thread(c, t) = IF (t % 2) = 1 THEN <<>> ELSE
        RotatedSteps(Cell("q", q0 + 0), Cell("q", q0 + 1), Cell("k", k0 + 0), Cell("k", k0 + 1))
  BY Zenon DEF rope_qk_thread, RotatedSteps
<1>2. H \in Nat \ {0} /\ D \in Nat \ {0} /\ (D % 2) = 0 /\ c.kv_heads = H
  BY DimsFacts
<1>3. t \in Below(H * D) /\ t \in Nat
  BY <1>2 DEF q_total, Below
<1>4. CASE (t % 2) = 1
  BY <1>1, <1>4
<1>5. CASE (t % 2) # 1
  <2>1. (t % 2) = 0
    BY <1>3, <1>5
  <2> HIDE DEF D, H
  <2>2. h \in Below(H) /\ t = h * D + (t % D) /\ 2 * p = (t % D)
    BY <1>2, <1>3, <2>1, PairPlace
  <2>3. h % H = h
    BY <1>2, <2>2 DEF Below
  <2> HIDE DEF h, p
  <2>4. q0 = t /\ k0 = t
    BY <1>2, <2>2, <2>3
  <2> HIDE DEF q0, k0
  <2>5. q0 + 0 = t /\ k0 + 0 = t /\ q0 + 1 = t + 1 /\ k0 + 1 = t + 1
    BY <1>3, <2>4
  <2> QED BY <1>1, <1>5, <2>5, Zenon DEF RopeSteps
<1> QED BY <1>4, <1>5

\* rope_qk is sound then.
LEMMA RopeSound == ASSUME NEW c, Dims(c), c.q_heads = c.kv_heads PROVE Sound(rope_qk(c))
<1> DEFINE D == c.head_dim
           H == c.q_heads
           n == q_total(c)
           B == [q |-> <<c.q_heads, c.head_dim>>, k |-> <<c.kv_heads, c.head_dim>>]
           P == [tid \in Below(q_total(c)) |-> rope_qk_thread(c, tid)]
           pair(b, h, d) == <<In(B, b, <<h, d>>), In(B, b, <<h, d + 1>>)>>
           both(b, h, d) == {Makes(B, b, <<h, d>>, Term("cos", pair(b, h, d))),
                             Makes(B, b, <<h, d + 1>>, Term("sin", pair(b, h, d)))}
           rotated(b, heads) ==
               UNION {both(b, h, d) : h \in Below(heads), d \in {e \in Below(c.head_dim) : e % 2 = 0}}
           R == rotated("q", c.q_heads) \cup rotated("k", c.kv_heads)
           W == [t \in Below(n) |-> IF (t % 2) = 1 THEN {} ELSE RopeResults(t)]
           acc == [t \in Below(n) |-> IF (t % 2) = 1 THEN {} ELSE RopeCells(t)]
<1>1. rope_qk(c) = Guarded(B, n, P, R)
  BY DEF rope_qk
<1>2. H \in Nat \ {0} /\ D \in Nat \ {0} /\ (D % 2) = 0 /\ c.kv_heads = H /\ n = H * D /\ n \in Nat
  BY DimsFacts DEF q_total
<1>3. "q" \in DOMAIN B /\ "k" \in DOMAIN B /\ B["q"] = <<H, D>> /\ B["k"] = <<H, D>>
  BY <1>2
<1>4. \A t \in Below(n) : /\ P[t] = IF (t % 2) = 1 THEN <<>> ELSE RopeSteps(t)
                          /\ W[t] = IF (t % 2) = 1 THEN {} ELSE RopeResults(t)
                          /\ acc[t] = IF (t % 2) = 1 THEN {} ELSE RopeCells(t)
  BY RopeThread
<1>5. \A b : rotated(b, H) =
        UNION {both(b, h, d) : h \in Below(H), d \in {e \in Below(D) : (e % 2) = 0}}
  <2> HIDE DEF both
  <2> QED OBVIOUS
<1> HIDE DEF D, H, n, B, P, W, acc
<1>6. \A y : y \in R <=> \E b \in {"q", "k"}, h \in Below(H), d \in Below(D) :
                            (d % 2) = 0 /\ y \in both(b, h, d)
  <2> HIDE DEF both, rotated
  <2>1. ASSUME NEW b PROVE \A y : y \in rotated(b, H) <=> \E h \in Below(H), d \in Below(D) :
                            (d % 2) = 0 /\ y \in both(b, h, d)
    BY <1>5
  <2>2. \A y : y \in R <=> y \in rotated("q", H) \/ y \in rotated("k", H)
    BY <1>2 DEF H
  <2> QED BY <2>1, <2>2
<1> HIDE DEF R
<1>7. ASSUME NEW b \in {"q", "k"}, NEW t \in Below(n), NEW h \in Below(H), NEW d \in Below(D),
             t = h * D + d, d + 1 \in Below(D)
      PROVE  \A y : y \in both(b, h, d) <=>
               \/ y = Result(Cell(b, t), Turned("cos", Cell(b, t), Cell(b, t + 1)))
               \/ y = Result(Cell(b, t + 1), Turned("sin", Cell(b, t), Cell(b, t + 1)))
  <2>1. Element(B, b, <<h, d>>, t)
    BY <1>2, <1>3, <1>7, Element2
  <2>2. Element(B, b, <<h, d + 1>>, t + 1)
    <3>1. Element(B, b, <<h, d + 1>>, h * D + (d + 1))
      BY <1>2, <1>3, <1>7, Element2
    <3>2. h * D + (d + 1) = t + 1
      <4>1. h \in Nat /\ h * D \in Nat /\ d \in Nat
        BY <1>2 DEF Below
      <4> QED BY <1>7, <4>1
    <3> QED BY <3>1, <3>2
  <2>3. \A f : Term(f, pair(b, h, d)) = Turned(f, Cell(b, t), Cell(b, t + 1))
    BY <2>1, <2>2, Zenon DEF Element, Turned
  <2>4. \A v : /\ Makes(B, b, <<h, d>>, v) = Result(Cell(b, t), v)
               /\ Makes(B, b, <<h, d + 1>>, v) = Result(Cell(b, t + 1), v)
    BY <2>1, <2>2, Zenon DEF Element
  <2>5. \A y : y \in both(b, h, d) <=>
               \/ y = Makes(B, b, <<h, d>>, Term("cos", pair(b, h, d)))
               \/ y = Makes(B, b, <<h, d + 1>>, Term("sin", pair(b, h, d)))
    <3> HIDE DEF pair
    <3> QED OBVIOUS
  <2> QED BY <2>3, <2>4, <2>5, Zenon
<1> HIDE DEF both
<1>8. ASSUME NEW t \in Below(n), (t % 2) # 1
      PROVE  /\ t \in Nat /\ t + 1 \in Below(n) /\ (t % 2) = 0
             /\ \E h \in Below(H), d \in Below(D) :
                   t = h * D + d /\ (d % 2) = 0 /\ d + 1 \in Below(D)
  <2>1. t \in Nat /\ (t % 2) = 0
    BY <1>8 DEF Below
  <2>2. t \in Below(H * D)
    BY <1>2
  <2>3. PICK h \in Below(H) : h = t \div D
    BY <1>2, <2>1, <2>2, PairPlace
  <2>4. PICK d \in Below(D) : d = (t % D)
    BY <1>2, <2>1, <2>2, PairPlace
  <2>5. /\ ((t % D) % 2) = 0 /\ (t % D) + 1 \in Below(D)
        /\ t = (t \div D) * D + (t % D) /\ t + 1 \in Below(H * D)
    <3>1. H \in Nat /\ D \in Nat \ {0} /\ (D % 2) = 0 /\ (t % 2) = 0
      BY <1>2, <2>1
    <3> QED BY <2>2, <3>1, PairPlace, Zenon
  <2>7. (d % 2) = 0 /\ d + 1 \in Below(D) /\ t = h * D + d
    BY <2>3, <2>4, <2>5, Zenon
  <2>6. t + 1 \in Below(n)
    BY <1>2, <2>5
  <2> QED BY <2>1, <2>6, <2>7
<1>9. ASSUME NEW t \in Below(n), (t % 2) # 1
      PROVE  /\ Different(Cell("q", t), Cell("q", t + 1), Cell("k", t), Cell("k", t + 1))
             /\ RopeCells(t) \subseteq CellsIn(B)
  <2>1. \A b \in {"q", "k"}, i \in Below(n) : Cell(b, i) \in CellsIn(B)
    <3>1. ASSUME NEW b \in {"q", "k"}, NEW i \in Below(n) PROVE Cell(b, i) \in CellsIn(B)
      <4>1. PICK h \in Below(H) : h = i \div D
        BY <1>2, PlaceSplits
      <4>2. PICK d \in Below(D) : d = (i % D)
        BY <1>2, PlaceSplits
      <4>3. i = h * D + d
        BY <1>2, <4>1, <4>2, PlaceSplits
      <4>4. Element(B, b, <<h, d>>, h * D + d)
        BY <1>2, <1>3, Element2
      <4> QED BY <4>3, <4>4 DEF Element
    <3> QED BY <3>1
  <2>2. t \in Nat /\ t + 1 \in Below(n)
    BY <1>8, <1>9
  <2>3. t # t + 1
    BY <2>2
  <2>4. Different(Cell("q", t), Cell("q", t + 1), Cell("k", t), Cell("k", t + 1))
    BY <2>3 DEF Different, Cell
  <2>5. RopeCells(t) \subseteq CellsIn(B)
    BY <2>1, <2>2 DEF RopeCells
  <2> QED BY <2>4, <2>5
<1>10. ASSUME NEW t \in Below(n)
       PROVE  /\ acc[t] \subseteq CellsIn(B) /\ Targets(W[t]) = acc[t]
              /\ Writes(B, acc[t], Targets(W[t]), P[t], W[t])
  <2>1. CASE (t % 2) = 1
    <3>1. acc[t] = {} /\ W[t] = {} /\ P[t] = <<>> /\ Targets({}) = {}
      BY <1>4, <2>1, TargetsOfMore
    <3> QED BY <3>1, WritesNothing
  <2>2. CASE (t % 2) # 1
    <3>1. acc[t] = RopeCells(t) /\ W[t] = RopeResults(t) /\ P[t] = RopeSteps(t)
      BY <1>4, <2>2
    <3>2. /\ Targets(RopeResults(t)) = RopeCells(t)
          /\ Writes(B, RopeCells(t), RopeCells(t), RopeSteps(t), RopeResults(t))
      BY <1>9, <2>2, RotatedWrites DEF RopeCells, RopeResults, RopeSteps
    <3> QED BY <1>9, <2>2, <3>1, <3>2
  <2> QED BY <2>1, <2>2
<1>11. Separately(B, P, Below(n), acc, W)
  <2>1. ASSUME NEW t \in Below(n), NEW u \in Below(n), t # u PROVE acc[t] \cap acc[u] = {}
    <3>1. CASE (t % 2) = 1 \/ (u % 2) = 1
      BY <1>4, <3>1
    <3>2. CASE (t % 2) # 1 /\ (u % 2) # 1
      <4>1. t \in Nat /\ u \in Nat /\ (t % 2) = 0 /\ (u % 2) = 0
        BY <1>8, <3>2
      <4>2. t + 1 # u /\ t # u + 1 /\ t + 1 # u + 1
        BY <2>1, <4>1
      <4>3. \A x : x \in acc[t] <=> \E b \in {"q", "k"}, i \in {t, t + 1} : x = Cell(b, i)
        BY <1>4, <3>2 DEF RopeCells
      <4>4. \A x : x \in acc[u] <=> \E b \in {"q", "k"}, i \in {u, u + 1} : x = Cell(b, i)
        BY <1>4, <3>2 DEF RopeCells
      <4>5. ASSUME NEW x, x \in acc[t], x \in acc[u] PROVE FALSE
        <5>1. PICK b \in {"q", "k"}, i \in {t, t + 1} : x = Cell(b, i)
          BY <4>3, <4>5
        <5>2. PICK a \in {"q", "k"}, j \in {u, u + 1} : x = Cell(a, j)
          BY <4>4, <4>5
        <5>3. Cell(b, i) = Cell(a, j)
          BY <5>1, <5>2
        <5>4. i = j
          BY <5>3, CellIs
        <5> QED BY <2>1, <4>2, <5>4
      <4> QED BY <4>5
    <3> QED BY <3>1, <3>2
  <2> QED BY <1>10, <2>1 DEF Separately
<1>12. Together(R, Below(n), W)
  <2>1. ASSUME NEW t, NEW y
        PROVE  y \in RopeResults(t) <=> \E b \in {"q", "k"} :
               \/ y = Result(Cell(b, t), Turned("cos", Cell(b, t), Cell(b, t + 1)))
               \/ y = Result(Cell(b, t + 1), Turned("sin", Cell(b, t), Cell(b, t + 1)))
    BY DEF RopeResults, RotatedResults
  <2>2. ASSUME NEW y PROVE y \in R <=> \E t \in Below(n) : y \in W[t]
    <3>1. ASSUME y \in R PROVE \E t \in Below(n) : y \in W[t]
      <4>1. PICK b \in {"q", "k"}, h \in Below(H), d \in Below(D) :
               (d % 2) = 0 /\ y \in both(b, h, d)
        BY <1>6, <3>1, Zenon
      <4>2. PICK t : t = h * D + d
        OBVIOUS
      <4>3. t \in Below(n)
        BY <1>2, <4>2, PlaceFacts
      <4>4. (t % 2) # 1 /\ d + 1 \in Below(D)
        <5>1. PICK e \in Nat : D = 2 * e
          BY <1>2
        <5>2. h \in Nat /\ d \in Nat /\ h * e \in Nat /\ d < D
          BY <1>2, <5>1 DEF Below
        <5>3. PICK g \in Nat : d = 2 * g
          BY <4>1, <5>2
        <5>4. t = 2 * (h * e) + 2 * g
          BY <4>2, <5>1, <5>2, <5>3
        <5>5. (t % 2) # 1
          BY <5>2, <5>3, <5>4
        <5> QED BY <5>1, <5>2, <5>3, <5>5 DEF Below
      <4>5. \/ y = Result(Cell(b, t), Turned("cos", Cell(b, t), Cell(b, t + 1)))
            \/ y = Result(Cell(b, t + 1), Turned("sin", Cell(b, t), Cell(b, t + 1)))
        <5>1. \A v : v \in both(b, h, d) <=>
               \/ v = Result(Cell(b, t), Turned("cos", Cell(b, t), Cell(b, t + 1)))
               \/ v = Result(Cell(b, t + 1), Turned("sin", Cell(b, t), Cell(b, t + 1)))
          BY <1>7, <4>2, <4>3, <4>4
        <5> QED BY <4>1, <5>1, Zenon
      <4>6. y \in RopeResults(t)
        BY <2>1, <4>5, Zenon
      <4> QED BY <1>4, <4>3, <4>4, <4>6
    <3>2. ASSUME NEW t \in Below(n), y \in W[t] PROVE y \in R
      <4>1. (t % 2) # 1 /\ y \in RopeResults(t)
        BY <1>4, <3>2
      <4>2. PICK h \in Below(H), d \in Below(D) :
               t = h * D + d /\ (d % 2) = 0 /\ d + 1 \in Below(D)
        BY <1>8, <4>1
      <4>3. PICK b \in {"q", "k"} :
               \/ y = Result(Cell(b, t), Turned("cos", Cell(b, t), Cell(b, t + 1)))
               \/ y = Result(Cell(b, t + 1), Turned("sin", Cell(b, t), Cell(b, t + 1)))
        BY <2>1, <4>1, Zenon
      <4>4. y \in both(b, h, d)
        BY <1>7, <4>2, <4>3, Zenon
      <4> QED BY <1>6, <4>2, <4>4, Zenon
    <3> QED BY <3>1, <3>2
  <2> QED BY <2>2 DEF Together
<1>13. Sound(Guarded(B, n, P, R))
  BY <1>2, <1>11, <1>12, GuardedSound
<1> QED BY <1>1, <1>13

-----------------------------------------------------------------------------
\* rmsnorm, with its barrier.

\* A barrier takes a thread to the next phase, if it leaves its cells as they are
\* when that begins.
LEMMA RunsBarrier ==
    ASSUME NEW fp, NEW n, n + 1 \in DOMAIN fp.snap, NEW l, NEW m,
           \A x \in fp.own[n] : fp.snap[n + 1][x] = m[x]
    PROVE  Runs(fp, <<Barrier>>, State(n, l, m), State(n + 1, l, fp.snap[n + 1]))
<1>1. Barrier.op = "barrier"
  BY DEF Barrier
<1>2. Effect(fp, Barrier, State(n, l, m), State(n + 1, l, fp.snap[n + 1]))
  <2> DEFINE a == State(n, l, m)
  <2>1. a.phase = n /\ a.loaded = l /\ a.mem = m
    BY StateFields
  <2> HIDE DEF a
  <2>2. /\ a.phase + 1 \in DOMAIN fp.snap
        /\ \A x \in fp.own[a.phase] : fp.snap[a.phase + 1][x] = a.mem[x]
    BY <2>1
  <2>3. State(n + 1, l, fp.snap[n + 1]) = State(a.phase + 1, a.loaded, fp.snap[a.phase + 1])
    BY <2>1
  <2>4. Effect(fp, Barrier, a, State(n + 1, l, fp.snap[n + 1]))
    BY <1>1, <2>2, <2>3, Zenon DEF Effect
  <2> QED BY <2>4 DEF a
<1> QED BY <1>2, RunsStep

\* The buffers of rmsnorm; the cell of x of thread t, if it has one; the values the
\* lanes hold and the buffers at the barrier.
RmsBuffers(c) == [x |-> <<c.hidden>>, gain |-> <<c.hidden>>, y |-> <<c.hidden>>,
                  accum |-> <<c.lanes>>]
LaneX(c, t) == IF t < c.hidden THEN <<Cell("x", t)>> ELSE <<>>
LaneSquares(c, t) == Term("squares", Before(LaneX(c, t)))
Synced(c) == [z \in CellsIn(RmsBuffers(c)) |->
                 IF z[1] = "accum" THEN LaneSquares(c, z[2]) ELSE Initially(z)]

\* What thread t loads past the barrier; the cells it may access and those it may
\* store to, in each phase; and where it ends.
LaneReads(c, t) == Whole("accum", c.lanes)
    \o (IF t < c.hidden THEN <<Cell("x", t), Cell("gain", t)>> ELSE <<>>)
LaneAcc(c, t) == [n \in 0..1 |->
    IF n = 0 THEN CellSet(LaneX(c, t)) \cup {Cell("accum", t)}
    ELSE CellSet(LaneReads(c, t)) \cup (IF t < c.hidden THEN {Cell("y", t)} ELSE {})]
LaneOwn(c, t) == [n \in 0..1 |->
    IF n = 0 THEN {Cell("accum", t)} ELSE IF t < c.hidden THEN {Cell("y", t)} ELSE {}]
LaneSnap(c) == [n \in 0..1 |-> IF n = 0 THEN FreshIn(RmsBuffers(c)) ELSE Synced(c)]
LaneFoot(c, t) == [snap |-> LaneSnap(c), acc |-> LaneAcc(c, t), own |-> LaneOwn(c, t)]
LaneNorm(c, t) == Term("norm", Seen(Synced(c), LaneReads(c, t)))
LaneEnd(c, t) ==
    State(1, (<<>> \o Seen(FreshIn(RmsBuffers(c)), LaneX(c, t))) \o Seen(Synced(c), LaneReads(c, t)),
          IF t < c.hidden THEN Put(Synced(c), Cell("y", t), LaneNorm(c, t)) ELSE Synced(c))

\* The cells of rmsnorm.
LEMMA LaneCells ==
    ASSUME NEW c, Dims(c), NEW z
    PROVE  z \in CellsIn(RmsBuffers(c)) <=>
             \/ \E b \in {"x", "gain", "y"}, i \in Below(c.hidden) : z = Cell(b, i)
             \/ \E i \in Below(c.lanes) : z = Cell("accum", i)
<1> DEFINE B == RmsBuffers(c)
<1>1. c.hidden \in Nat /\ c.lanes \in Nat
  BY DimsFacts
<1>2. /\ DOMAIN B = {"x", "gain", "y", "accum"} /\ B["accum"] = <<c.lanes>>
      /\ \A b \in {"x", "gain", "y"} : B[b] = <<c.hidden>>
  BY DEF RmsBuffers
<1> HIDE DEF B
<1>3. /\ Size(B["accum"]) = c.lanes
      /\ \A b \in {"x", "gain", "y"} : Size(B[b]) = c.hidden
  BY <1>1, <1>2, Size1
<1>4. z \in CellsIn(B) <=> \E b \in DOMAIN B : \E i \in Below(Size(B[b])) : z = Cell(b, i)
  <2> DEFINE of(b) == {Cell(b, i) : i \in Below(Size(B[b]))}
  <2>1. CellsIn(B) = UNION {of(b) : b \in DOMAIN B}
    BY Zenon DEF CellsIn
  <2>2. \A b : z \in of(b) <=> \E i \in Below(Size(B[b])) : z = Cell(b, i)
    OBVIOUS
  <2> HIDE DEF of
  <2>3. z \in CellsIn(B) <=> \E b \in DOMAIN B : z \in of(b)
    BY <2>1
  <2> QED BY <2>2, <2>3, Zenon
<1>5. ASSUME z \in CellsIn(B)
      PROVE  \/ \E b \in {"x", "gain", "y"}, i \in Below(c.hidden) : z = Cell(b, i)
             \/ \E i \in Below(c.lanes) : z = Cell("accum", i)
  <2>1. PICK b \in DOMAIN B : \E i \in Below(Size(B[b])) : z = Cell(b, i)
    BY <1>4, <1>5
  <2>2. CASE b = "accum"
    BY <1>3, <2>1, <2>2
  <2>3. CASE b # "accum"
    BY <1>2, <1>3, <2>1, <2>3
  <2> QED BY <2>2, <2>3
<1>6. ASSUME NEW b \in {"x", "gain", "y"}, NEW i \in Below(c.hidden), z = Cell(b, i)
      PROVE  z \in CellsIn(B)
  <2>1. b \in DOMAIN B /\ i \in Below(Size(B[b]))
    BY <1>2, <1>3, <1>6
  <2> QED BY <1>4, <1>6, <2>1, Zenon
<1>7. ASSUME NEW i \in Below(c.lanes), z = Cell("accum", i)
      PROVE  z \in CellsIn(B)
  <2>1. "accum" \in DOMAIN B /\ i \in Below(Size(B["accum"]))
    BY <1>2, <1>3, <1>7
  <2>2. PICK b : b = "accum"
    OBVIOUS
  <2>3. b \in DOMAIN B /\ i \in Below(Size(B[b])) /\ z = Cell(b, i)
    BY <1>7, <2>1, <2>2
  <2> QED BY <1>4, <2>3, Zenon
<1> QED BY <1>5, <1>6, <1>7 DEF B

\* What a thread reaches of them.
LEMMA LaneFacts ==
    ASSUME NEW c, Dims(c), c.hidden <= c.lanes, NEW t \in Below(c.lanes)
    PROVE  /\ IsSeq(LaneX(c, t)) /\ IsSeq(LaneReads(c, t))
           /\ CellSet(LaneX(c, t)) = (IF t < c.hidden THEN {Cell("x", t)} ELSE {})
           /\ CellSet(LaneReads(c, t)) = {Cell("accum", i) : i \in Below(c.lanes)}
                \cup (IF t < c.hidden THEN {Cell("x", t), Cell("gain", t)} ELSE {})
           /\ t < c.hidden => t \in Below(c.hidden)
           /\ Cell("accum", t) \in CellsIn(RmsBuffers(c))
           /\ \A i \in Below(c.lanes) : Cell("accum", i) \in CellsIn(RmsBuffers(c))
           /\ t < c.hidden => \A b \in {"x", "gain", "y"} : Cell(b, t) \in CellsIn(RmsBuffers(c))
<1>1. c.hidden \in Nat /\ c.lanes \in Nat
  BY DimsFacts
<1>2. t < c.hidden => t \in Below(c.hidden)
  BY <1>1 DEF Below
<1>3. IsSeq(LaneX(c, t)) /\ CellSet(LaneX(c, t)) = (IF t < c.hidden THEN {Cell("x", t)} ELSE {})
  <2>1. IsSeq(<<>>)
    BY ReadsNone, ReadsFacts
  <2> QED BY <2>1, CellSetSmall DEF LaneX
<1>4. IsSeq(Whole("accum", c.lanes))
      /\ CellSet(Whole("accum", c.lanes)) = {Cell("accum", i) : i \in Below(c.lanes)}
  BY <1>1, WholeFacts
<1>5. /\ IsSeq(LaneReads(c, t))
      /\ CellSet(LaneReads(c, t)) = {Cell("accum", i) : i \in Below(c.lanes)}
                \cup (IF t < c.hidden THEN {Cell("x", t), Cell("gain", t)} ELSE {})
  <2> DEFINE w == IF t < c.hidden THEN <<Cell("x", t), Cell("gain", t)>> ELSE <<>>
             S == {Cell("accum", i) : i \in Below(c.lanes)}
             T == IF t < c.hidden THEN {Cell("x", t), Cell("gain", t)} ELSE {}
  <2>1. IsSeq(w) /\ CellSet(w) = T
    <3>1. IsSeq(<<>>)
      BY ReadsNone, ReadsFacts
    <3> QED BY <3>1, CellSetSmall
  <2> HIDE DEF w, S, T
  <2>2. IsSeq(Whole("accum", c.lanes) \o w) /\ CellSet(Whole("accum", c.lanes) \o w) = S \cup T
    BY <1>4, <2>1, CellSetFacts DEF S
  <2> QED BY <2>2, Zenon DEF LaneReads, w, S, T
<1>6. \A i \in Below(c.lanes) : Cell("accum", i) \in CellsIn(RmsBuffers(c))
  BY LaneCells
<1>7. t < c.hidden => \A b \in {"x", "gain", "y"} : Cell(b, t) \in CellsIn(RmsBuffers(c))
  BY <1>2, LaneCells
<1> QED BY <1>2, <1>3, <1>5, <1>6, <1>7

\* The buffers as they are at the barrier.
LEMMA SyncedFacts ==
    ASSUME NEW c, Dims(c)
    PROVE  /\ DOMAIN Synced(c) = CellsIn(RmsBuffers(c))
           /\ \A i \in Below(c.lanes) : Synced(c)[Cell("accum", i)] = LaneSquares(c, i)
           /\ \A z \in CellsIn(RmsBuffers(c)) :
                (\A i \in Below(c.lanes) : z # Cell("accum", i)) => Synced(c)[z] = Initially(z)
<1>1. ASSUME NEW i \in Below(c.lanes) PROVE Synced(c)[Cell("accum", i)] = LaneSquares(c, i)
  <2>1. Cell("accum", i) \in CellsIn(RmsBuffers(c))
    BY LaneCells
  <2>2. Cell("accum", i)[1] = "accum" /\ Cell("accum", i)[2] = i
    BY DEF Cell
  <2> QED BY <2>1, <2>2 DEF Synced
<1>2. ASSUME NEW z \in CellsIn(RmsBuffers(c)), \A i \in Below(c.lanes) : z # Cell("accum", i)
      PROVE  Synced(c)[z] = Initially(z)
  <2>1. PICK b \in {"x", "gain", "y"}, i \in Below(c.hidden) : z = Cell(b, i)
    BY <1>2, LaneCells
  <2>2. z[1] # "accum"
    BY <2>1 DEF Cell
  <2> QED BY <2>2 DEF Synced
<1> QED BY <1>1, <1>2 DEF Synced

\* If a simdgroup has a lane for each element of x, there is one simdgroup, and a
\* thread goes over its own element only.
LEMMA OneSimdgroup ==
    ASSUME NEW c, Dims(c), c.hidden <= c.lanes
    PROVE  /\ rms_grid(c) = c.lanes
           /\ \A t \in Below(c.lanes) : strided(c, t) = LaneX(c, t) /\ (t % c.lanes) = t
<1> DEFINE h == c.hidden
           L == c.lanes
<1>1. h \in Nat \ {0} /\ L \in Nat \ {0} /\ h <= L
  BY DimsFacts
<1>2. ASSUME NEW e \in Below(L)
      PROVE  /\ e \div L = 0 /\ (e % L) = e
             /\ (L + e) \div L = 1
  <2> HIDE DEF L
  <2>1. 0 \in Below(2) /\ 1 \in Below(2) /\ 2 \in Nat /\ e \in Nat
    <3>1. 0 \in 0..(2 - 1) /\ 1 \in 0..(2 - 1)
      OBVIOUS
    <3>2. e \in 0..(L - 1)
      BY DEF Below
    <3> QED BY <3>1, <3>2 DEF Below
  <2>2. /\ (0 * L + e) \div L = 0 /\ ((0 * L + e) % L) = e
        /\ (1 * L + e) \div L = 1
    <3>1. ASSUME NEW g \in Below(2)
          PROVE  (g * L + e) \div L = g /\ ((g * L + e) % L) = e
      <4>1. L \in Nat /\ 2 \in Nat
        BY <1>1
      <4> QED BY <4>1, PlaceFacts
    <3>2. PICK z, w : z = 0 /\ w = 1
      OBVIOUS
    <3>3. /\ (z * L + e) \div L = z /\ ((z * L + e) % L) = e
          /\ (w * L + e) \div L = w
      BY <2>1, <3>1, <3>2
    <3> QED BY <3>2, <3>3
  <2>3. 0 * L + e = e /\ 1 * L + e = L + e
    BY <1>1, <2>1
  <2> QED BY <2>2, <2>3
<1>3. rms_grid(c) = L
  <2>1. rms_grid(c) = ((h + L - 1) \div L) * L
    BY DEF rms_grid
  <2> HIDE DEF h, L
  <2>2. PICK e \in Below(L) : e = h - 1
    BY <1>1 DEF Below
  <2>3. h + L - 1 = L + e
    BY <1>1, <2>2
  <2>4. (h + L - 1) \div L = 1
    BY <1>2, <2>3
  <2> QED BY <1>1, <2>1, <2>4
<1>4. ASSUME NEW t \in Below(L) PROVE strided(c, t) = LaneX(c, t)
  <2> DEFINE n == IF t < h THEN (h - t - 1) \div L + 1 ELSE 0
             e == [j \in 1..n |-> Cell("x", t + (j - 1) * L)]
             s == [j \in 1..n |-> e[j]]
  <2>1. strided(c, t) = e /\ s = e
    BY DEF strided
  <2>2. \A j \in 1..n : s[j] = Cell("x", t + (j - 1) * L)
    OBVIOUS
  <2>3. t \in Nat
    BY <1>1 DEF Below
  <2>4. n = IF t < h THEN 1 ELSE 0
    <3>1. CASE t < h
      <4> HIDE DEF h, L
      <4>1. PICK d \in Below(L) : d = h - t - 1
        BY <1>1, <2>3, <3>1 DEF Below
      <4>2. (h - t - 1) \div L = 0
        BY <1>2, <4>1
      <4> QED BY <3>1, <4>2
    <3>2. CASE ~(t < h)
      BY <3>2
    <3> QED BY <3>1, <3>2
  <2>5. IsSeq(s) /\ Len(s) = n
    <3> HIDE DEF e, n
    <3>1. n \in Nat
      BY <2>4
    <3> QED BY <3>1, TableIsSeq
  <2> HIDE DEF e, s, n
  <2>6. s = LaneX(c, t)
    <3>1. CASE t < h
      <4>1. LaneX(c, t) = <<Cell("x", t)>> /\ n = 1
        BY <2>4, <3>1 DEF LaneX
      <4>2. s[1] = Cell("x", t)
        <5>1. 1 \in 1..n /\ t + (1 - 1) * L = t
          BY <1>1, <2>3, <4>1
        <5>2. s[1] = Cell("x", t + (1 - 1) * L)
          BY <2>2, <5>1
        <5> QED BY <5>1, <5>2
      <4>3. PICK x : x = Cell("x", t)
        OBVIOUS
      <4>4. IsSeq(<<x>>) /\ Len(<<x>>) = 1 /\ <<x>>[1] = x
        BY CellSetSmall
      <4>5. s = <<x>>
        <5>1. \A i \in 1..1 : i = 1
          OBVIOUS
        <5>2. \A i \in 1..1 : s[i] = <<x>>[i]
          BY <4>2, <4>3, <4>4, <5>1
        <5>3. Len(s) = 1
          BY <2>5, <4>1
        <5> HIDE <4>3
        <5> QED BY <2>5, <4>4, <5>2, <5>3, SameSequence
      <4> QED BY <4>1, <4>3, <4>5
    <3>2. CASE ~(t < h)
      <4>1. LaneX(c, t) = <<>> /\ n = 0
        BY <2>4, <3>2 DEF LaneX
      <4>2. s = <<>>
        BY <2>5, <4>1, EmptyIsSeq, SameSequence
      <4> QED BY <4>1, <4>2
    <3> QED BY <3>1, <3>2
  <2> QED BY <2>1, <2>6
<1> QED BY <1>2, <1>3, <1>4

\* Alone, a thread comes to its end.
LEMMA LaneRuns ==
    ASSUME NEW c, Dims(c), c.hidden <= c.lanes, NEW t \in Below(c.lanes)
    PROVE  Runs(LaneFoot(c, t), rmsnorm_thread(c, t),
                State(0, <<>>, FreshIn(RmsBuffers(c))), LaneEnd(c, t))
<1> DEFINE fp == LaneFoot(c, t)
           w == FreshIn(RmsBuffers(c))
           a == State(0, <<>>, w)
           s == Synced(c)
           xs == LaneX(c, t)
           to == Cell("accum", t)
           l == <<>> \o Seen(w, xs)
           m == Put(w, to, Term("squares", Seen(w, xs)))
           steps == squares_of(c, t) \o <<Barrier>>
           all == Whole("accum", c.lanes)
           rest == <<Cell("x", t), Cell("gain", t)>>
           reads == LaneReads(c, t)
<1>1. /\ fp.snap[1] = s /\ 0 + 1 \in DOMAIN fp.snap /\ fp.own[0] = {to}
      /\ fp.acc[0] = CellSet(xs) \cup {to}
      /\ fp.acc[1] = CellSet(reads) \cup (IF t < c.hidden THEN {Cell("y", t)} ELSE {})
      /\ fp.own[1] = IF t < c.hidden THEN {Cell("y", t)} ELSE {}
  BY DEF LaneFoot, LaneSnap, LaneAcc, LaneOwn
<1>2. IsSeq(xs) /\ IsSeq(reads) /\ to \in CellsIn(RmsBuffers(c)) /\ IsSeq(<<>>)
  BY LaneFacts, ReadsNone, ReadsFacts
<1>3. squares_of(c, t) = Compute(<<>>, xs, to, "squares")
  <2>1. strided(c, t) = xs /\ (t % c.lanes) = t
    BY OneSimdgroup
  <2> QED BY <2>1 DEF squares_of
<1>4. reads = all \o (IF t < c.hidden THEN rest ELSE <<>>)
  BY Zenon DEF LaneReads
<1>5. rmsnorm_thread(c, t) = IF t < c.hidden THEN Compute(steps, all \o rest, Cell("y", t), "norm")
                             ELSE steps \o Loads(all)
  BY Zenon DEF rmsnorm_thread, normalise
<1>6. LaneEnd(c, t) = State(1, l \o Seen(s, reads),
          IF t < c.hidden THEN Put(s, Cell("y", t), Term("norm", Seen(s, reads))) ELSE s)
  BY Zenon DEF LaneEnd, LaneNorm
<1>7. s[to] = Term("squares", Before(xs))
  BY SyncedFacts DEF LaneSquares
<1>8. Seen(w, xs) = Before(xs) /\ DOMAIN w = CellsIn(RmsBuffers(c))
  <2>1. \A z \in CellsIn(RmsBuffers(c)) : w[z] = Initially(z)
    BY DEF FreshIn
  <2>2. CellSet(xs) \subseteq CellsIn(RmsBuffers(c))
    BY LaneFacts
  <2>3. \A j \in 1..Len(xs) : w[xs[j]] = Initially(xs[j])
    BY <2>1, <2>2 DEF CellSet
  <2> HIDE DEF xs, w
  <2>4. Seen(w, xs) = Before(xs)
    BY <2>3, Zenon DEF Seen, Before
  <2> QED BY <2>4 DEF w, FreshIn
<1>9. a.loaded = <<>>
  BY StateFields
<1> HIDE DEF fp, w, s, xs, to, reads
<1>10. /\ Runs(fp, squares_of(c, t), a, State(0, l, m)) /\ IsSeq(l)
  <2>1. \A j \in 1..Len(xs) : xs[j] \in fp.acc[0]
    BY <1>1 DEF CellSet
  <2>2. to \in fp.own[0]
    BY <1>1
  <2>3. Runs(fp, <<>>, a, State(0, <<>>, w))
    BY RunsNothing
  <2> HIDE DEF a
  <2> QED BY <1>2, <1>3, <1>9, <2>1, <2>2, <2>3, RunsCompute
<1>11. m[to] = s[to]
  BY <1>2, <1>7, <1>8, PutFacts
<1> HIDE DEF a, l, m
<1>12. Runs(fp, steps, a, State(1, l, s))
  <2>1. \A x \in fp.own[0] : fp.snap[0 + 1][x] = m[x]
    BY <1>1, <1>11
  <2>2. Runs(fp, <<Barrier>>, State(0, l, m), State(0 + 1, l, fp.snap[0 + 1]))
    BY <1>1, <2>1, RunsBarrier
  <2>3. Runs(fp, <<Barrier>>, State(0, l, m), State(1, l, s))
    BY <1>1, <2>2
  <2> QED BY <1>10, <2>3, RunsThen
<1> HIDE DEF steps
<1>13. \A j \in 1..Len(reads) : reads[j] \in fp.acc[1]
  BY <1>1 DEF CellSet
<1>14. CASE t < c.hidden
  <2>1. reads = all \o rest
    BY <1>4, <1>14
  <2>2. Cell("y", t) \in fp.own[1]
    BY <1>1, <1>14
  <2>3. Runs(fp, Compute(steps, reads, Cell("y", t), "norm"), a,
             State(1, l \o Seen(s, reads), Put(s, Cell("y", t), Term("norm", Seen(s, reads)))))
    BY <1>2, <1>9, <1>12, <1>13, <2>2, RunsCompute
  <2> QED BY <1>5, <1>6, <1>14, <2>1, <2>3 DEF fp, a, w
<1>15. CASE ~(t < c.hidden)
  <2>1. IsSeq(all)
    BY DimsFacts, WholeFacts
  <2>2. reads = all
    <3>1. all \o <<>> = all
      BY <2>1 DEF IsSeq
    <3> QED BY <1>4, <1>15, <3>1
  <2>3. Runs(fp, Loads(reads), State(1, l, s), State(1, l \o Seen(s, reads), s))
    BY <1>2, <1>10, <1>13, RunsLoads
  <2>4. Runs(fp, steps \o Loads(reads), a, State(1, l \o Seen(s, reads), s))
    BY <1>12, <2>3, RunsThen
  <2> QED BY <1>5, <1>6, <1>15, <2>2, <2>4 DEF fp, a, w
<1> QED BY <1>14, <1>15

\* The values in the lanes.
AllSquares(c) == [i \in 1..c.lanes |-> LaneSquares(c, i - 1)]

\* A thread with an element makes of it what the lanes hold and it itself say.
LEMMA LaneNormIs ==
    ASSUME NEW c, Dims(c), c.hidden <= c.lanes, NEW t \in Below(c.hidden)
    PROVE  LaneNorm(c, t) = Term("norm", AllSquares(c)
              \o <<Initially(Cell("x", t)), Initially(Cell("gain", t))>>)
<1> DEFINE s == Synced(c)
           all == Whole("accum", c.lanes)
           rest == <<Cell("x", t), Cell("gain", t)>>
<1>1. c.hidden \in Nat /\ c.lanes \in Nat /\ t < c.hidden /\ t \in Below(c.lanes)
  BY DimsFacts DEF Below
<1>2. LaneReads(c, t) = all \o rest
  BY <1>1, Zenon DEF LaneReads
<1>3. IsSeq(all) /\ Len(all) = c.lanes /\ \A i \in 1..c.lanes : all[i] = Cell("accum", i - 1)
  BY <1>1, WholeFacts DEF Whole
<1>4. IsSeq(rest)
  BY CellSetSmall
<1>5. Seen(s, all) = AllSquares(c)
  <2>1. ASSUME NEW i \in 1..c.lanes PROVE s[all[i]] = LaneSquares(c, i - 1)
    <3>1. PICK j \in Below(c.lanes) : j = i - 1
      BY <1>1 DEF Below
    <3>2. s[Cell("accum", j)] = LaneSquares(c, j)
      BY SyncedFacts
    <3> QED BY <1>3, <3>1, <3>2
  <2> HIDE DEF s, all
  <2> QED BY <1>3, <2>1, Zenon DEF Seen, AllSquares
<1>6. Seen(s, rest) = <<Initially(Cell("x", t)), Initially(Cell("gain", t))>>
  <2>1. ASSUME NEW b \in {"x", "gain"} PROVE s[Cell(b, t)] = Initially(Cell(b, t))
    <3>1. Cell(b, t) \in CellsIn(RmsBuffers(c))
      BY LaneCells
    <3>2. \A i \in Below(c.lanes) : Cell(b, t) # Cell("accum", i)
      BY DEF Cell
    <3> QED BY <3>1, <3>2, SyncedFacts
  <2>2. s[Cell("x", t)] = Initially(Cell("x", t)) /\ s[Cell("gain", t)] = Initially(Cell("gain", t))
    BY <2>1
  <2> HIDE DEF s
  <2>3. PICK p, q : p = Cell("x", t) /\ q = Cell("gain", t)
    OBVIOUS
  <2>4. Seen(s, <<p, q>>) = <<s[p], s[q]>>
    BY DEF Seen
  <2> QED BY <2>2, <2>3, <2>4
<1> HIDE DEF s, all, rest
<1>7. Seen(s, all \o rest) = AllSquares(c) \o <<Initially(Cell("x", t)), Initially(Cell("gain", t))>>
  <2>1. IsSeq(all) /\ IsSeq(rest)
    BY <1>3, <1>4
  <2>2. Seen(s, all \o rest) = Seen(s, all) \o Seen(s, rest)
    BY <2>1, SeenThen
  <2> QED BY <1>5, <1>6, <2>2, Zenon
<1> QED BY <1>2, <1>7, Zenon DEF LaneNorm, s

\* The results of rmsnorm are what the lanes hold and what their threads make.
LEMMA RmsResult ==
    ASSUME NEW c, Dims(c), c.hidden <= c.lanes, NEW r
    PROVE  r \in rmsnorm(c).result <=>
             \/ \E t \in Below(c.lanes) : r = Result(Cell("accum", t), LaneSquares(c, t))
             \/ \E t \in Below(c.hidden) : r = Result(Cell("y", t), LaneNorm(c, t))
<1> DEFINE B == [x |-> <<c.hidden>>, gain |-> <<c.hidden>>, y |-> <<c.hidden>>,
                 accum |-> <<c.lanes>>]
           program == [tid \in Below(rms_grid(c)) |-> rmsnorm_thread(c, tid)]
           squares == [i \in 1..c.lanes |-> Term("squares",
                          [j \in 1..Len(strided(c, i - 1)) |->
                              Initially(strided(c, i - 1)[j])])]
           R1 == {Makes(B, "accum", <<i - 1>>, squares[i]) : i \in 1..c.lanes}
           R2 == {Makes(B, "y", <<i>>, Term("norm",
                     squares \o <<In(B, "x", <<i>>), In(B, "gain", <<i>>)>>))
                     : i \in Below(c.hidden)}
<1>1. rmsnorm(c).result = R1 \cup R2
  <2>1. rmsnorm(c) = Kernel(B, program, R1 \cup R2)
    BY Zenon DEF rmsnorm
  <2> HIDE DEF B, program, R1, R2
  <2> QED BY <2>1, KernelFields
<1>2. c.hidden \in Nat /\ c.lanes \in Nat /\ c.hidden <= c.lanes
  BY DimsFacts
<1>3. /\ \A b \in {"x", "gain", "y"} : b \in DOMAIN B /\ B[b] = <<c.hidden>>
      /\ "accum" \in DOMAIN B /\ B["accum"] = <<c.lanes>>
  OBVIOUS
<1>4. \A i \in 1..c.lanes : squares[i] = Term("squares", Before(strided(c, i - 1)))
  BY Zenon DEF Before
<1>5. \A v : v \in R1 <=> \E i \in 1..c.lanes : v = Makes(B, "accum", <<i - 1>>, squares[i])
  BY Zenon
<1>6. \A v : v \in R2 <=> \E i \in Below(c.hidden) : v = Makes(B, "y", <<i>>, Term("norm",
                     squares \o <<In(B, "x", <<i>>), In(B, "gain", <<i>>)>>))
  BY Zenon
<1>7. squares = [i \in 1..c.lanes |-> squares[i]]
  OBVIOUS
<1> HIDE DEF B, squares, R1, R2
<1>8. ASSUME NEW b \in {"x", "gain", "y"}, NEW i \in Below(c.hidden)
      PROVE  In(B, b, <<i>>) = Initially(Cell(b, i))
             /\ \A v : Makes(B, b, <<i>>, v) = Result(Cell(b, i), v)
  <2>1. Element(B, b, <<i>>, i)
    BY <1>2, <1>3, Element1
  <2> QED BY <2>1, Zenon DEF Element
<1>9. ASSUME NEW i \in Below(c.lanes), NEW v
      PROVE  Makes(B, "accum", <<i>>, v) = Result(Cell("accum", i), v)
  <2>1. Element(B, "accum", <<i>>, i)
    BY <1>2, <1>3, Element1
  <2> QED BY <2>1, Zenon DEF Element
<1>10. ASSUME NEW i \in 1..c.lanes, NEW j, j = i - 1
       PROVE  j \in Below(c.lanes) /\ squares[i] = LaneSquares(c, j)
  <2>1. j \in Below(c.lanes)
    BY <1>2, <1>10 DEF Below
  <2>2. squares[i] = Term("squares", Before(strided(c, j)))
    BY <1>4, <1>10
  <2>3. strided(c, j) = LaneX(c, j)
    BY <1>2, <2>1, OneSimdgroup
  <2> QED BY <2>1, <2>2, <2>3 DEF LaneSquares
<1>11. squares = AllSquares(c)
  <2>1. \A i \in 1..c.lanes : squares[i] = LaneSquares(c, i - 1)
    BY <1>10
  <2> QED BY <1>7, <2>1, Zenon DEF AllSquares
<1>12. r \in R1 <=> \E t \in Below(c.lanes) : r = Result(Cell("accum", t), LaneSquares(c, t))
  <2>1. ASSUME r \in R1
        PROVE  \E t \in Below(c.lanes) : r = Result(Cell("accum", t), LaneSquares(c, t))
    <3>1. PICK i \in 1..c.lanes : r = Makes(B, "accum", <<i - 1>>, squares[i])
      BY <1>5, <2>1
    <3>2. PICK j : j = i - 1
      OBVIOUS
    <3>3. j \in Below(c.lanes) /\ squares[i] = LaneSquares(c, j)
      BY <1>10, <3>2
    <3>4. r = Makes(B, "accum", <<j>>, LaneSquares(c, j))
      BY <3>1, <3>2, <3>3
    <3> QED BY <1>9, <3>3, <3>4
  <2>2. ASSUME NEW t \in Below(c.lanes), r = Result(Cell("accum", t), LaneSquares(c, t))
        PROVE  r \in R1
    <3>1. PICK i \in 1..c.lanes : t = i - 1
      <4>1. t + 1 \in 1..c.lanes /\ t = (t + 1) - 1
        BY <1>2 DEF Below
      <4> QED BY <4>1
    <3>2. squares[i] = LaneSquares(c, t)
      BY <1>10, <3>1
    <3>3. r = Makes(B, "accum", <<t>>, squares[i])
      BY <1>9, <2>2, <3>2
    <3> QED BY <1>5, <3>1, <3>3
  <2> QED BY <2>1, <2>2
<1>13. r \in R2 <=> \E t \in Below(c.hidden) : r = Result(Cell("y", t), LaneNorm(c, t))
  <2>1. ASSUME NEW t \in Below(c.hidden)
        PROVE  Makes(B, "y", <<t>>, Term("norm", squares \o <<In(B, "x", <<t>>), In(B, "gain", <<t>>)>>))
                 = Result(Cell("y", t), LaneNorm(c, t))
    <3>1. In(B, "x", <<t>>) = Initially(Cell("x", t)) /\ In(B, "gain", <<t>>) = Initially(Cell("gain", t))
      BY <1>8
    <3>2. \A v : Makes(B, "y", <<t>>, v) = Result(Cell("y", t), v)
      BY <1>8
    <3>3. LaneNorm(c, t) = Term("norm", squares \o <<In(B, "x", <<t>>), In(B, "gain", <<t>>)>>)
      BY <1>11, <3>1, LaneNormIs
    <3> QED BY <3>2, <3>3
  <2> QED BY <1>6, <2>1
<1> QED BY <1>1, <1>12, <1>13

\* The threads of rmsnorm do not disturb each other, on either side of the barrier.
LEMMA LanesApart ==
    ASSUME NEW c, Dims(c), c.hidden <= c.lanes, NEW n \in 0..1, NEW t \in Below(c.lanes)
    PROVE  /\ LaneOwn(c, t)[n] \subseteq LaneAcc(c, t)[n]
           /\ LaneAcc(c, t)[n] \subseteq CellsIn(RmsBuffers(c))
           /\ \A u \in Below(c.lanes) : u # t => LaneOwn(c, t)[n] \cap LaneAcc(c, u)[n] = {}
<1>1. ASSUME NEW u \in Below(c.lanes)
      PROVE  /\ LaneOwn(c, u)[0] = {Cell("accum", u)}
             /\ LaneOwn(c, u)[1] = IF u < c.hidden THEN {Cell("y", u)} ELSE {}
             /\ LaneAcc(c, u)[0] = CellSet(LaneX(c, u)) \cup {Cell("accum", u)}
             /\ LaneAcc(c, u)[1] = CellSet(LaneReads(c, u))
                                     \cup (IF u < c.hidden THEN {Cell("y", u)} ELSE {})
  BY DEF LaneOwn, LaneAcc
<1>2. ASSUME NEW u \in Below(c.lanes), NEW z
      PROVE  /\ z \in CellSet(LaneX(c, u)) <=> u < c.hidden /\ z = Cell("x", u)
             /\ z \in CellSet(LaneReads(c, u)) <=>
                  \/ \E i \in Below(c.lanes) : z = Cell("accum", i)
                  \/ u < c.hidden /\ (z = Cell("x", u) \/ z = Cell("gain", u))
  BY LaneFacts
<1>3. /\ \A i \in Below(c.lanes) : Cell("accum", i) \in CellsIn(RmsBuffers(c))
      /\ t < c.hidden => \A b \in {"x", "gain", "y"} : Cell(b, t) \in CellsIn(RmsBuffers(c))
  BY LaneFacts
<1>4. CASE n = 0
  <2>1. LaneOwn(c, t)[n] = {Cell("accum", t)}
    BY <1>1, <1>4
  <2>2. \A u \in Below(c.lanes) : \A z : z \in LaneAcc(c, u)[n] <=>
            z = Cell("accum", u) \/ (u < c.hidden /\ z = Cell("x", u))
    <3>1. ASSUME NEW u \in Below(c.lanes), NEW z
          PROVE  z \in LaneAcc(c, u)[n] <=> z = Cell("accum", u) \/ (u < c.hidden /\ z = Cell("x", u))
      <4>1. LaneAcc(c, u)[n] = CellSet(LaneX(c, u)) \cup {Cell("accum", u)}
        BY <1>1, <1>4
      <4>2. z \in CellSet(LaneX(c, u)) <=> u < c.hidden /\ z = Cell("x", u)
        BY <1>2
      <4> QED BY <4>1, <4>2, Zenon
    <3> QED BY <3>1
  <2>3. LaneAcc(c, t)[n] \subseteq CellsIn(RmsBuffers(c))
    BY <1>3, <2>2
  <2>4. ASSUME NEW u \in Below(c.lanes), u # t PROVE Cell("accum", t) \notin LaneAcc(c, u)[n]
    <3>1. Cell("accum", t) # Cell("accum", u) /\ Cell("accum", t) # Cell("x", u)
      BY <2>4 DEF Cell
    <3> QED BY <2>2, <3>1
  <2> QED BY <2>1, <2>2, <2>3, <2>4
<1>5. CASE n = 1
  <2>1. LaneOwn(c, t)[n] = IF t < c.hidden THEN {Cell("y", t)} ELSE {}
    BY <1>1, <1>5
  <2>2. \A u \in Below(c.lanes) : \A z : z \in LaneAcc(c, u)[n] <=>
            \/ \E i \in Below(c.lanes) : z = Cell("accum", i)
            \/ u < c.hidden /\ (z = Cell("x", u) \/ z = Cell("gain", u) \/ z = Cell("y", u))
    <3>1. ASSUME NEW u \in Below(c.lanes), NEW z
          PROVE  z \in LaneAcc(c, u)[n] <=>
                   \/ \E i \in Below(c.lanes) : z = Cell("accum", i)
                   \/ u < c.hidden /\ (z = Cell("x", u) \/ z = Cell("gain", u) \/ z = Cell("y", u))
      <4>1. LaneAcc(c, u)[n] = CellSet(LaneReads(c, u))
                                 \cup (IF u < c.hidden THEN {Cell("y", u)} ELSE {})
        BY <1>1, <1>5
      <4>2. z \in CellSet(LaneReads(c, u)) <=>
                  \/ \E i \in Below(c.lanes) : z = Cell("accum", i)
                  \/ u < c.hidden /\ (z = Cell("x", u) \/ z = Cell("gain", u))
        BY <1>2
      <4>3. CASE u < c.hidden
        BY <4>1, <4>2, <4>3, Zenon
      <4>4. CASE ~(u < c.hidden)
        BY <4>1, <4>2, <4>4, Zenon
      <4> QED BY <4>3, <4>4
    <3> QED BY <3>1
  <2>3. LaneAcc(c, t)[n] \subseteq CellsIn(RmsBuffers(c))
    BY <1>3, <2>2
  <2>4. ASSUME NEW u \in Below(c.lanes), u # t PROVE Cell("y", t) \notin LaneAcc(c, u)[n]
    <3>1. /\ Cell("y", t) # Cell("x", u) /\ Cell("y", t) # Cell("gain", u)
          /\ Cell("y", t) # Cell("y", u)
          /\ \A i \in Below(c.lanes) : Cell("y", t) # Cell("accum", i)
      BY <2>4 DEF Cell
    <3> QED BY <2>2, <3>1
  <2>5. LaneOwn(c, t)[n] \subseteq LaneAcc(c, t)[n]
    BY <2>1, <2>2
  <2> QED BY <2>1, <2>3, <2>4, <2>5
<1> QED BY <1>4, <1>5

\* What rmsnorm leaves.
RmsFinal(c) == [z \in CellsIn(RmsBuffers(c)) |->
                   IF z[1] = "y" THEN LaneNorm(c, z[2]) ELSE Synced(c)[z]]

\* It is what the threads make in y, and what is there at the barrier elsewhere.
LEMMA RmsFinalFacts ==
    ASSUME NEW c, Dims(c), c.hidden <= c.lanes
    PROVE  /\ \A t \in Below(c.hidden) : RmsFinal(c)[Cell("y", t)] = LaneNorm(c, t)
           /\ \A z \in CellsIn(RmsBuffers(c)) :
                (\A t \in Below(c.hidden) : z # Cell("y", t)) => RmsFinal(c)[z] = Synced(c)[z]
<1>1. ASSUME NEW t \in Below(c.hidden) PROVE RmsFinal(c)[Cell("y", t)] = LaneNorm(c, t)
  <2>1. Cell("y", t) \in CellsIn(RmsBuffers(c))
    BY LaneCells
  <2>2. Cell("y", t)[1] = "y" /\ Cell("y", t)[2] = t
    BY DEF Cell
  <2> QED BY <2>1, <2>2 DEF RmsFinal
<1>2. ASSUME NEW z \in CellsIn(RmsBuffers(c)), \A t \in Below(c.hidden) : z # Cell("y", t)
      PROVE  RmsFinal(c)[z] = Synced(c)[z]
  <2>1. z[1] # "y"
    <3>1. CASE \E b \in {"x", "gain", "y"}, i \in Below(c.hidden) : z = Cell(b, i)
      <4>1. PICK b \in {"x", "gain", "y"}, i \in Below(c.hidden) : z = Cell(b, i)
        BY <3>1
      <4>2. b # "y"
        BY <1>2, <4>1
      <4> QED BY <4>1, <4>2 DEF Cell
    <3>2. CASE \E i \in Below(c.lanes) : z = Cell("accum", i)
      BY <3>2 DEF Cell
    <3> QED BY <3>1, <3>2, LaneCells
  <2> QED BY <2>1 DEF RmsFinal
<1> QED BY <1>1, <1>2

\* A proof outline for rmsnorm.
RmsOutline(c) ==
    [last |-> 1, snap |-> LaneSnap(c),
     acc |-> [t \in Below(c.lanes) |-> LaneAcc(c, t)],
     own |-> [t \in Below(c.lanes) |-> LaneOwn(c, t)],
     end |-> [t \in Below(c.lanes) |-> LaneEnd(c, t)],
     final |-> RmsFinal(c)]

\* What it says of a thread.
LEMMA RmsOutlineFacts ==
    ASSUME NEW c
    PROVE  LET p == RmsOutline(c) IN
           /\ p.last = 1 /\ p.snap = LaneSnap(c) /\ p.final = RmsFinal(c)
           /\ \A t \in Below(c.lanes) :
                /\ p.acc[t] = LaneAcc(c, t) /\ p.own[t] = LaneOwn(c, t) /\ p.end[t] = LaneEnd(c, t)
                /\ Foot(p, t) = LaneFoot(c, t)
           /\ DOMAIN LaneSnap(c) = 0..1
           /\ LaneSnap(c)[0] = FreshIn(RmsBuffers(c)) /\ LaneSnap(c)[1] = Synced(c)
<1> DEFINE p == RmsOutline(c)
<1>1. /\ p.last = 1 /\ p.snap = LaneSnap(c) /\ p.final = RmsFinal(c)
      /\ \A t \in Below(c.lanes) :
           /\ p.acc[t] = LaneAcc(c, t) /\ p.own[t] = LaneOwn(c, t) /\ p.end[t] = LaneEnd(c, t)
  BY DEF RmsOutline
<1>2. DOMAIN LaneSnap(c) = 0..1
      /\ LaneSnap(c)[0] = FreshIn(RmsBuffers(c)) /\ LaneSnap(c)[1] = Synced(c)
  BY DEF LaneSnap
<1> HIDE DEF p
<1>3. \A t \in Below(c.lanes) : Foot(p, t) = LaneFoot(c, t)
  BY <1>1, Zenon DEF Foot, LaneFoot
<1> QED BY <1>1, <1>2, <1>3 DEF p

\* rmsnorm is sound: the barrier separates the lanes' stores from their loads.
LEMMA RmsnormSound ==
    ASSUME NEW c, Dims(c), c.hidden <= c.lanes PROVE Sound(rmsnorm(c))
<1> DEFINE B == RmsBuffers(c)
           A == Below(c.lanes)
           k == rmsnorm(c)
           p == RmsOutline(c)
<1>1. CellsOf(k) = CellsIn(B) /\ k.program = [t \in A |-> rmsnorm_thread(c, t)]
  <2> DEFINE Q == [x |-> <<c.hidden>>, gain |-> <<c.hidden>>, y |-> <<c.hidden>>,
                   accum |-> <<c.lanes>>]
             program == [tid \in Below(rms_grid(c)) |-> rmsnorm_thread(c, tid)]
             squares == [i \in 1..c.lanes |-> Term("squares",
                            [j \in 1..Len(strided(c, i - 1)) |->
                                Initially(strided(c, i - 1)[j])])]
             R1 == {Makes(Q, "accum", <<i - 1>>, squares[i]) : i \in 1..c.lanes}
             R2 == {Makes(Q, "y", <<i>>, Term("norm",
                       squares \o <<In(Q, "x", <<i>>), In(Q, "gain", <<i>>)>>))
                       : i \in Below(c.hidden)}
  <2>1. k = Kernel(Q, program, R1 \cup R2)
    BY Zenon DEF rmsnorm
  <2>2. Q = B
    BY DEF RmsBuffers
  <2> HIDE DEF Q, R1, R2, k
  <2>3. CellsOf(k) = CellsIn(B) /\ k.program = program
    BY <2>1, <2>2, CellsOfKernel, KernelFields
  <2>4. rms_grid(c) = c.lanes
    BY OneSimdgroup
  <2> QED BY <2>3, <2>4
<1>2. DOMAIN k.program = A /\ \A t \in A : k.program[t] = rmsnorm_thread(c, t)
  BY <1>1
<1>3. c.lanes \in Nat /\ c.hidden \in Nat /\ c.hidden <= c.lanes /\ 0 \in A
      /\ \A t \in Below(c.hidden) : t \in A /\ t < c.hidden
  BY DimsFacts DEF Below
<1>4. /\ p.last = 1 /\ p.snap = LaneSnap(c) /\ p.final = RmsFinal(c)
      /\ \A t \in A :
           /\ p.acc[t] = LaneAcc(c, t) /\ p.own[t] = LaneOwn(c, t) /\ p.end[t] = LaneEnd(c, t)
           /\ Foot(p, t) = LaneFoot(c, t)
      /\ DOMAIN LaneSnap(c) = 0..1
      /\ LaneSnap(c)[0] = FreshIn(B) /\ LaneSnap(c)[1] = Synced(c)
  BY RmsOutlineFacts
<1>5. \A t \in A : /\ LaneOwn(c, t)[0] = {Cell("accum", t)}
                   /\ LaneOwn(c, t)[1] = IF t < c.hidden THEN {Cell("y", t)} ELSE {}
  BY DEF LaneOwn
<1>6. FreshIn(B) = [x \in CellsIn(B) |-> Initially(x)]
  BY Zenon DEF FreshIn
<1>7. DOMAIN Synced(c) = CellsIn(B) /\ DOMAIN FreshIn(B) = CellsIn(B)
      /\ \A x \in CellsIn(B) : FreshIn(B)[x] = Initially(x)
  BY SyncedFacts DEF FreshIn
<1>8. \A r : r \in k.result <=>
             \/ \E t \in A : r = Result(Cell("accum", t), LaneSquares(c, t))
             \/ \E t \in Below(c.hidden) : r = Result(Cell("y", t), LaneNorm(c, t))
  BY RmsResult
<1> HIDE DEF B, A, k, p
<1>9. Apart(k, p)
  <2>1. ASSUME NEW n \in 0..1, NEW t \in A
        PROVE  /\ p.own[t][n] \subseteq p.acc[t][n]
               /\ p.acc[t][n] \subseteq CellsIn(B)
               /\ \A u \in A \ {t} : p.own[t][n] \cap p.acc[u][n] = {}
    BY <1>4, LanesApart DEF A, B
  <2>2. p.last = 1 /\ CellsOf(k) = CellsIn(B) /\ DOMAIN k.program = A
    BY <1>1, <1>2, <1>4
  <2> QED BY <2>1, <2>2 DEF Apart
<1>10. Steady(k, p)
  <2>1. \A n \in 0..1 : DOMAIN p.snap[n] = CellsOf(k)
    <3>1. \A n \in 0..1 : n = 0 \/ n = 1
      OBVIOUS
    <3> QED BY <1>1, <1>4, <1>7, <3>1
  <2>2. ASSUME NEW n \in 0..1, n + 1 \in 0..1, NEW x \in CellsIn(B),
               \A t \in A : x \notin p.own[t][n]
        PROVE  p.snap[n + 1][x] = p.snap[n][x]
    <3>1. n = 0
      BY <2>2
    <3>2. \A t \in A : x # Cell("accum", t)
      BY <1>4, <1>5, <2>2, <3>1
    <3>3. Synced(c)[x] = Initially(x)
      BY <3>2, SyncedFacts DEF A, B
    <3> QED BY <1>4, <1>7, <3>1, <3>3
  <2>3. p.last \in Nat /\ DOMAIN p.snap = 0..p.last
    BY <1>4
  <2>4. p.snap[0] = [x \in CellsOf(k) |-> Initially(x)]
    BY <1>1, <1>4, <1>6
  <2>5. p.last = 1 /\ CellsOf(k) = CellsIn(B) /\ DOMAIN k.program = A
    BY <1>1, <1>2, <1>4
  <2>6. \A n \in 0..p.last : n + 1 \in 0..p.last => \A x \in CellsOf(k) :
          (\A t \in DOMAIN k.program : x \notin p.own[t][n])
              => p.snap[n + 1][x] = p.snap[n][x]
    BY <2>2, <2>5
  <2> QED BY <2>1, <2>3, <2>4, <2>5, <2>6 DEF Steady
<1>11. Alone(k, p)
  <2>1. ASSUME NEW t \in A
        PROVE  /\ Runs(Foot(p, t), k.program[t], State(0, <<>>, p.snap[0]), p.end[t])
               /\ p.end[t].phase = p.last
    <3>1. Runs(LaneFoot(c, t), rmsnorm_thread(c, t), State(0, <<>>, FreshIn(B)), LaneEnd(c, t))
      BY LaneRuns DEF A, B
    <3>2. LaneEnd(c, t).phase = 1
      BY StateFields DEF LaneEnd
    <3> QED BY <1>2, <1>4, <3>1, <3>2
  <2> QED BY <1>2, <2>1, Zenon DEF Alone
<1>12. \A t \in A : p.end[t].mem =
          IF t < c.hidden THEN Put(Synced(c), Cell("y", t), LaneNorm(c, t)) ELSE Synced(c)
  BY <1>4, StateFields DEF LaneEnd
<1>13. /\ \A t \in Below(c.hidden) : p.final[Cell("y", t)] = LaneNorm(c, t)
       /\ \A z \in CellsIn(B) :
            (\A t \in Below(c.hidden) : z # Cell("y", t)) => p.final[z] = Synced(c)[z]
  BY <1>4, RmsFinalFacts DEF B
<1>14. \A t \in Below(c.hidden) : Cell("y", t) \in CellsIn(B)
  BY LaneCells DEF B
<1>15. \A t \in A : Cell("accum", t) \in CellsIn(B)
  BY LaneCells DEF B, A
<1>16. Results(k, p)
  <2>1. ASSUME NEW x \in CellsIn(B), NEW t \in A, x \in p.own[t][p.last]
        PROVE  p.final[x] = p.end[t].mem[x]
    <3>1. t < c.hidden /\ x = Cell("y", t)
      BY <1>4, <1>5, <2>1
    <3>2. t \in Below(c.hidden)
      BY <1>3, <3>1 DEF A, Below
    <3>3. Put(Synced(c), Cell("y", t), LaneNorm(c, t))[Cell("y", t)] = LaneNorm(c, t)
      BY <1>7, <1>14, <3>2, PutFacts
    <3> QED BY <1>12, <1>13, <3>1, <3>2, <3>3
  <2>2. ASSUME NEW x \in CellsIn(B), \A t \in A : x \notin p.own[t][p.last]
        PROVE  p.final[x] = p.snap[p.last][x]
    <3>1. \A t \in Below(c.hidden) : x # Cell("y", t)
      BY <1>3, <1>4, <1>5, <2>2
    <3> QED BY <1>4, <1>13, <3>1
  <2>3. ASSUME NEW x \in CellsIn(B)
        PROVE  p.final[x] = Initially(x) \/ \E r \in k.result : r.cell = x
    <3>1. CASE \E t \in Below(c.hidden) : x = Cell("y", t)
      <4>1. PICK t \in Below(c.hidden) : x = Cell("y", t)
        BY <3>1
      <4>2. Result(Cell("y", t), LaneNorm(c, t)) \in k.result
        BY <1>8
      <4> QED BY <4>1, <4>2, TargetsOfMore
    <3>2. CASE \E t \in A : x = Cell("accum", t)
      <4>1. PICK t \in A : x = Cell("accum", t)
        BY <3>2
      <4>2. Result(Cell("accum", t), LaneSquares(c, t)) \in k.result
        BY <1>8
      <4> QED BY <4>1, <4>2, TargetsOfMore
    <3>3. CASE /\ \A t \in Below(c.hidden) : x # Cell("y", t)
               /\ \A t \in A : x # Cell("accum", t)
      <4>1. Synced(c)[x] = Initially(x)
        BY <3>3, SyncedFacts DEF A, B
      <4> QED BY <1>13, <3>3, <4>1
    <3> QED BY <3>1, <3>2, <3>3
  <2>4. ASSUME NEW r \in k.result PROVE r.cell \in CellsIn(B) /\ r.value = p.final[r.cell]
    <3>1. CASE \E t \in A : r = Result(Cell("accum", t), LaneSquares(c, t))
      <4>1. PICK t \in A : r = Result(Cell("accum", t), LaneSquares(c, t))
        BY <3>1
      <4>2. r.cell = Cell("accum", t) /\ r.value = LaneSquares(c, t)
        BY <4>1, TargetsOfMore
      <4>3. \A u \in Below(c.hidden) : Cell("accum", t) # Cell("y", u)
        BY DEF Cell
      <4>4. p.final[Cell("accum", t)] = Synced(c)[Cell("accum", t)]
        BY <1>13, <1>15, <4>3
      <4>5. Synced(c)[Cell("accum", t)] = LaneSquares(c, t)
        BY SyncedFacts DEF A
      <4> QED BY <1>15, <4>2, <4>4, <4>5
    <3>2. CASE \E t \in Below(c.hidden) : r = Result(Cell("y", t), LaneNorm(c, t))
      <4>1. PICK t \in Below(c.hidden) : r = Result(Cell("y", t), LaneNorm(c, t))
        BY <3>2
      <4>2. r.cell = Cell("y", t) /\ r.value = LaneNorm(c, t)
        BY <4>1, TargetsOfMore
      <4> QED BY <1>13, <1>14, <4>2
    <3> QED BY <1>8, <3>1, <3>2
  <2> QED BY <1>1, <1>2, <2>1, <2>2, <2>3, <2>4, Zenon DEF Results
<1>17. DOMAIN k.program # {}
  BY <1>2, <1>3
<1>18. Outline(k, p)
  BY <1>9, <1>10, <1>11, <1>16, <1>17 DEF Outline
<1> QED BY <1>18 DEF Sound, k

-----------------------------------------------------------------------------
\* The two kernels that race, for the dimensions for which they do.

\* What steps reach, by how they are put together.
LEMMA ReachesThen ==
    ASSUME NEW acc, NEW own, NEW s, NEW t, Reaches(s, acc, own), Reaches(t, acc, own)
    PROVE  Reaches(s \o t, acc, own)
<1> DEFINE fits(x) == \/ x.op = "load" /\ x.cell \in acc
                      \/ x.op = "store" /\ x.cell \in own
                      \/ x.op = "barrier"
           u == s \o t
<1>1. /\ IsSeq(s) /\ \A i \in 1..Len(s) : fits(s[i])
      /\ IsSeq(t) /\ \A i \in 1..Len(t) : fits(t[i])
  BY DEF Reaches
<1>2. Len(s) \in Nat /\ Len(t) \in Nat
  BY <1>1, LenIsNat
<1>3. /\ IsSeq(u) /\ Len(u) = Len(s) + Len(t)
      /\ \A i \in 1..Len(s) : u[i] = s[i]
      /\ \A i \in 1..Len(t) : u[Len(s) + i] = t[i]
  BY <1>1, ConcatFacts, ConcatTail
<1>4. ASSUME NEW i \in 1..Len(u) PROVE fits(u[i])
  <2> HIDE DEF fits, u
  <2>1. CASE i \in 1..Len(s)
    BY <1>1, <1>3, <2>1
  <2>2. CASE i \notin 1..Len(s)
    <3>1. PICK j \in 1..Len(t) : i = Len(s) + j
      <4>1. i - Len(s) \in 1..Len(t) /\ i = Len(s) + (i - Len(s))
        BY <1>2, <1>3, <2>2
      <4> QED BY <4>1
    <3> QED BY <1>1, <1>3, <3>1
  <2> QED BY <2>1, <2>2
<1> QED BY <1>3, <1>4 DEF Reaches

\* Loads of cells, a single step, no step.
LEMMA ReachesLoads ==
    ASSUME NEW acc, NEW own, NEW cells, IsSeq(cells), CellSet(cells) \subseteq acc
    PROVE  Reaches(Loads(cells), acc, own)
<1>1. /\ IsSeq(Loads(cells)) /\ Len(Loads(cells)) = Len(cells)
      /\ \A i \in 1..Len(cells) : Loads(cells)[i] = Load(cells[i])
  BY LoadsFacts
<1>2. \A i \in 1..Len(cells) : Load(cells[i]).op = "load" /\ Load(cells[i]).cell = cells[i]
  BY DEF Load
<1>3. \A i \in 1..Len(cells) : cells[i] \in acc
  BY DEF CellSet
<1> QED BY <1>1, <1>2, <1>3 DEF Reaches

LEMMA ReachesOne ==
    ASSUME NEW acc, NEW own
    PROVE  /\ Reaches(<<>>, acc, own)
           /\ Reaches(<<Barrier>>, acc, own)
           /\ \A to \in own : \A f, of : Reaches(<<Store(to, f, of)>>, acc, own)
<1>1. ASSUME NEW s, \/ s.op = "store" /\ s.cell \in own
                    \/ s.op = "barrier"
      PROVE  Reaches(<<s>>, acc, own)
  <2>1. IsSeq(<<s>>)
    BY CellSetSmall
  <2>2. \A i \in 1..Len(<<s>>) : <<s>>[i] = s
    OBVIOUS
  <2> QED BY <1>1, <2>1, <2>2 DEF Reaches
<1>2. \A to, f, of : Store(to, f, of).op = "store" /\ Store(to, f, of).cell = to
  BY DEF Store
<1>3. Barrier.op = "barrier"
  BY DEF Barrier
<1>4. Reaches(<<>>, acc, own)
  BY EmptyIsSeq DEF Reaches
<1> QED BY <1>1, <1>2, <1>3, <1>4

\* Steps, the loads of cells and a store.
LEMMA ReachesCompute ==
    ASSUME NEW acc, NEW own, NEW steps, Reaches(steps, acc, own),
           NEW cells, IsSeq(cells), CellSet(cells) \subseteq acc, NEW to \in own, NEW f
    PROVE  Reaches(Compute(steps, cells, to, f), acc, own)
<1>1. PICK of : Compute(steps, cells, to, f) = steps \o Loads(cells) \o <<Store(to, f, of)>>
  BY DEF Compute
<1>2. Reaches(steps \o Loads(cells), acc, own)
  BY ReachesLoads, ReachesThen
<1>3. Reaches(<<Store(to, f, of)>>, acc, own)
  BY ReachesOne
<1> QED BY <1>1, <1>2, <1>3, ReachesThen

\* Two stores.
LEMMA ReachesStores ==
    ASSUME NEW acc, NEW own, NEW x \in own, NEW y \in own, NEW f, NEW g, NEW of
    PROVE  Reaches(<<Store(x, f, of), Store(y, g, of)>>, acc, own)
<1>1. PICK s, t : s = Store(x, f, of) /\ t = Store(y, g, of)
  OBVIOUS
<1>2. s.op = "store" /\ s.cell \in own /\ t.op = "store" /\ t.cell \in own
  BY <1>1 DEF Store
<1>3. IsSeq(<<s, t>>) /\ Len(<<s, t>>) = 2
  BY PairIsSeq
<1>4. \A i \in 1..2 : <<s, t>>[i] = s \/ <<s, t>>[i] = t
  OBVIOUS
<1>5. Reaches(<<s, t>>, acc, own)
  BY <1>2, <1>3, <1>4 DEF Reaches
<1> QED BY <1>1, <1>5

\* An even thread of rope_qk has a pair of q of its own, and one in k.
LEMMA RopePlaces ==
    ASSUME NEW c, Dims(c), NEW t \in Below(q_total(c)), (t % 2) = 0
    PROVE  /\ t + 1 \in Below(q_total(c))
           /\ \E i : /\ i \in Below(kv_total(c)) /\ i + 1 \in Below(kv_total(c))
                     /\ rope_qk_thread(c, t) = RotatedSteps(Cell("q", t), Cell("q", t + 1),
                                                            Cell("k", i), Cell("k", i + 1))
<1> DEFINE D == c.head_dim
           H == c.q_heads
           G == c.kv_heads
           h == t \div D
           p == (t \div 2) % (D \div 2)
           q0 == h * D + 2 * p
           k0 == (h % G) * D + 2 * p
<1>1. (t % 2) # 1 => rope_qk_thread(c, t) =
        RotatedSteps(Cell("q", q0 + 0), Cell("q", q0 + 1), Cell("k", k0 + 0), Cell("k", k0 + 1))
  BY Zenon DEF rope_qk_thread, RotatedSteps
<1>2. H \in Nat \ {0} /\ G \in Nat \ {0} /\ D \in Nat \ {0} /\ (D % 2) = 0
  BY DimsFacts
<1>3. q_total(c) = H * D /\ kv_total(c) = G * D /\ t \in Below(H * D) /\ t \in Nat
  BY <1>2 DEF q_total, kv_total, Below
<1>4. (t % 2) # 1
  OBVIOUS
<1> HIDE DEF D, H, G
<1>5. PICK d : d = t % D
  OBVIOUS
<1>6. /\ h \in Below(H) /\ t = h * D + d /\ 2 * p = d
      /\ d \in Below(D) /\ d + 1 \in Below(D) /\ t + 1 \in Below(H * D)
  BY <1>2, <1>3, <1>5, PairPlace
<1>7. PICK g \in Below(G) : g = h % G
  BY <1>2, <1>6 DEF Below
<1>8. g * D + d \in Below(G * D) /\ g * D + (d + 1) \in Below(G * D)
  BY <1>2, <1>6, <1>7, PlaceFacts
<1> HIDE DEF h, p
<1>9. q0 = t /\ k0 = g * D + d
  BY <1>6, <1>7
<1>10. PICK i : i = k0
  OBVIOUS
<1>11. i \in Below(G * D) /\ i + 1 \in Below(G * D)
  <2>1. g \in Nat /\ d \in Nat /\ g * D \in Nat
    BY <1>2, <1>6, <1>7 DEF Below
  <2>2. i + 1 = g * D + (d + 1)
    BY <1>9, <1>10, <2>1
  <2> QED BY <1>8, <1>9, <1>10, <2>2
<1> HIDE DEF q0, k0
<1>12. q0 + 0 = t /\ q0 + 1 = t + 1 /\ k0 + 0 = i /\ k0 + 1 = i + 1
  <2>1. i \in Nat
    BY <1>11 DEF Below
  <2> QED BY <1>3, <1>9, <1>10, <2>1
<1>13. rope_qk_thread(c, t) = RotatedSteps(Cell("q", t), Cell("q", t + 1),
                                           Cell("k", i), Cell("k", i + 1))
  BY <1>1, <1>4, <1>12, Zenon
<1> QED BY <1>3, <1>6, <1>11, <1>13

\* What the steps of a rotation reach.
LEMMA ReachesRotated ==
    ASSUME NEW S, NEW w \in S, NEW x \in S, NEW y \in S, NEW z \in S
    PROVE  Reaches(RotatedSteps(w, x, y, z), S, S)
<1> DEFINE of1 == <<1, 2>>
           of2 == <<3, 4>>
           s1 == Loads(<<w, x>>)
           s2 == <<Store(w, "cos", of1), Store(x, "sin", of1)>>
           s3 == Loads(<<y, z>>)
           s4 == <<Store(y, "cos", of2), Store(z, "sin", of2)>>
<1>1. RotatedSteps(w, x, y, z) = s1 \o s2 \o s3 \o s4
  BY Zenon DEF RotatedSteps
<1>2. Reaches(s1, S, S) /\ Reaches(s3, S, S)
  <2>1. ASSUME NEW u \in S, NEW v \in S PROVE Reaches(Loads(<<u, v>>), S, S)
    <3>1. IsSeq(<<u, v>>) /\ CellSet(<<u, v>>) = {u, v}
      BY CellSetSmall
    <3>2. CellSet(<<u, v>>) \subseteq S
      BY <3>1
    <3> QED BY <3>1, <3>2, ReachesLoads
  <2> QED BY <2>1
<1>3. Reaches(s2, S, S) /\ Reaches(s4, S, S)
  BY ReachesStores
<1> HIDE DEF s1, s2, s3, s4
<1> QED BY <1>1, <1>2, <1>3, ReachesThen

\* rope_qk, whether or not query heads share a key head, races for keys only.
LEMMA RopeConfined == ASSUME NEW c, Dims(c) PROVE Confined(rope_qk(c), {"k"})
<1> DEFINE n == q_total(c)
           m == kv_total(c)
           B == [q |-> <<c.q_heads, c.head_dim>>, k |-> <<c.kv_heads, c.head_dim>>]
           P == [tid \in Below(n) |-> rope_qk_thread(c, tid)]
           Q == [tid \in 0..n |-> IF tid >= n THEN <<>> ELSE P[tid]]
           k == rope_qk(c)
           keys == {Cell("k", i) : i \in Below(m)}
           pair(t) == {Cell("q", t), Cell("q", t + 1)}
           works(t) == t \in Below(n) /\ (t % 2) = 0
           mine == [t \in 0..n |-> IF works(t) THEN pair(t) \cup keys ELSE {}]
<1>1. k.program = Q /\ k.buffers = B
  BY DEF rope_qk, Guarded, Kernel
<1>2. n \in Nat /\ n = c.q_heads * c.head_dim /\ m = c.kv_heads * c.head_dim
  BY DimsFacts DEF q_total, kv_total
<1>3. k.program = Q /\ CellsOf(k) = CellsIn(B)
  <2> HIDE DEF k, B
  <2>1. CellsOf(k) = CellsIn(k.buffers)
    BY Zenon DEF CellsOf, CellsIn
  <2> QED BY <1>1, <2>1
<1>4. DOMAIN Q = 0..n /\ \A t \in 0..n : Q[t] = IF t \in Below(n) THEN rope_qk_thread(c, t) ELSE <<>>
  BY <1>2 DEF Below
<1>5. \A t \in 0..n : mine[t] = IF works(t) THEN pair(t) \cup keys ELSE {}
  OBVIOUS
<1>6. keys \subseteq CellsIn(B) /\ \A i \in Below(n) : Cell("q", i) \in CellsIn(B)
  <2>1. "q" \in DOMAIN B /\ "k" \in DOMAIN B
        /\ B["q"] = <<c.q_heads, c.head_dim>> /\ B["k"] = <<c.kv_heads, c.head_dim>>
    OBVIOUS
  <2> HIDE DEF B, n, m
  <2>2. Size(B["q"]) = n /\ Size(B["k"]) = m
    BY <1>2, <2>1, DimsFacts, Size2
  <2>3. \A i \in Below(m) : Cell("k", i) \in CellsIn(B)
    BY <2>1, <2>2, InCells
  <2> QED BY <2>1, <2>2, <2>3, InCells
<1> HIDE DEF n, m, B, P, Q, k, mine, keys
<1>7. ASSUME NEW t \in 0..n PROVE Reaches(Q[t], mine[t], mine[t])
  <2>1. CASE works(t)
    <3>1. t \in Below(q_total(c)) /\ (t % 2) = 0
      BY <2>1 DEF n
    <3>2. PICK i : /\ i \in Below(kv_total(c)) /\ i + 1 \in Below(kv_total(c))
                   /\ rope_qk_thread(c, t) = RotatedSteps(Cell("q", t), Cell("q", t + 1),
                                                          Cell("k", i), Cell("k", i + 1))
      BY <3>1, RopePlaces
    <3>3. Cell("k", i) \in keys /\ Cell("k", i + 1) \in keys
      BY <3>2 DEF keys, m
    <3>4. mine[t] = pair(t) \cup keys
      BY <1>5, <2>1
    <3>5. {Cell("q", t), Cell("q", t + 1), Cell("k", i), Cell("k", i + 1)} \subseteq mine[t]
      BY <3>3, <3>4
    <3> QED BY <1>4, <2>1, <3>2, <3>5, ReachesRotated
  <2>2. CASE ~works(t)
    <3>1. Q[t] = <<>>
      <4>1. CASE t \in Below(n)
        <5>1. (t % 2) = 1
          BY <1>2, <2>2, <4>1
        <5>2. rope_qk_thread(c, t) = <<>>
          BY <5>1, Zenon DEF rope_qk_thread
        <5> QED BY <1>4, <4>1, <5>2
      <4>2. CASE t \notin Below(n)
        BY <1>4, <4>2
      <4> QED BY <4>1, <4>2
    <3> QED BY <3>1, ReachesOne
  <2> QED BY <2>1, <2>2
<1>8. ASSUME NEW t \in 0..n PROVE mine[t] \subseteq CellsIn(B)
  <2>1. CASE works(t)
    <3>1. t \in Below(n) /\ t + 1 \in Below(n)
      BY <2>1, RopePlaces DEF n
    <3> QED BY <1>5, <1>6, <2>1, <3>1
  <2>2. CASE ~works(t)
    BY <1>5, <2>2
  <2> QED BY <2>1, <2>2
<1>9. ASSUME NEW t \in 0..n, NEW u \in 0..n, u # t, NEW x \in mine[t], x \in mine[u]
      PROVE  x[1] \in {"k"}
  <2>1. works(t) /\ works(u) /\ (x \in pair(t) \/ x \in keys) /\ (x \in pair(u) \/ x \in keys)
    BY <1>5, <1>9
  <2>2. CASE x \in keys
    BY <2>2 DEF keys, Cell
  <2>3. CASE x \notin keys
    <3>1. PICK i \in {t, t + 1} : x = Cell("q", i)
      BY <2>1, <2>3
    <3>2. PICK j \in {u, u + 1} : x = Cell("q", j)
      BY <2>1, <2>3
    <3>3. i = j
      BY <3>1, <3>2, CellIs
    <3> QED BY <1>2, <1>9, <2>1, <3>1, <3>2, <3>3
  <2> QED BY <2>2, <2>3
<1>10. Separate(k, {"k"}, mine, mine)
  BY <1>3, <1>4, <1>7, <1>8, <1>9 DEF Separate
<1> QED BY <1>10 DEF Confined, k

\* rope_qk with heads that do not share, or confined.
LEMMA RopeFine == ASSUME NEW c, Dims(c) PROVE Fine(rope_qk(c), RacedBy("rope_qk", c))
<1>1. c.q_heads \in Nat /\ c.kv_heads \in Nat /\ c.kv_heads <= c.q_heads
  BY DimsFacts
<1>2. CASE c.kv_heads < c.q_heads
  <2>1. RacedBy("rope_qk", c) = {"k"}
    BY <1>2 DEF RacedBy
  <2> QED BY <2>1, RopeConfined DEF Fine
<1>3. CASE ~(c.kv_heads < c.q_heads)
  <2>1. c.q_heads = c.kv_heads
    BY <1>1, <1>3
  <2> QED BY <2>1, RopeSound DEF Fine
<1> QED BY <1>2, <1>3

\* The elements a thread of rmsnorm goes over, however many lie behind its own, are
\* in the row.
LEMMA Strides ==
    ASSUME NEW c, Dims(c), NEW t \in Nat
    PROVE  /\ IsSeq(strided(c, t))
           /\ CellSet(strided(c, t)) \subseteq {Cell("x", i) : i \in Below(c.hidden)}
           /\ (t % c.lanes) \in Below(c.lanes)
<1> DEFINE h == c.hidden
           L == c.lanes
           q == (h - t - 1) \div L
           n == IF t < h THEN q + 1 ELSE 0
           e == [j \in 1..n |-> Cell("x", t + (j - 1) * L)]
           s == [j \in 1..n |-> e[j]]
<1>1. h \in Nat /\ L \in Nat \ {0}
  BY DimsFacts
<1>2. strided(c, t) = e /\ s = e
  BY DEF strided
<1>3. \A j \in 1..n : s[j] = Cell("x", t + (j - 1) * L)
  OBVIOUS
<1>4. (t % c.lanes) \in Below(c.lanes)
  BY <1>1 DEF Below
<1> HIDE DEF h, L
<1>5. ASSUME t < h PROVE q \in Nat /\ q * L <= h - t - 1
  <2>1. PICK d \in Nat : d = h - t - 1
    BY <1>1, <1>5
  <2>2. d \div L \in Nat /\ (d \div L) * L + (d % L) = d /\ (d % L) \in Nat
    BY <1>1, <2>1
  <2> QED BY <1>1, <2>1, <2>2
<1>6. n \in Nat
  BY <1>5
<1> HIDE DEF q
<1>7. ASSUME NEW j \in 1..n PROVE t + (j - 1) * L \in Below(h)
  <2>1. t < h /\ q \in Nat /\ j - 1 \in 0..q
    BY <1>5, <1>7
  <2>2. PICK i \in Nat, r \in Nat : i = j - 1 /\ q = i + r
    <3>1. j - 1 \in Nat /\ q - (j - 1) \in Nat /\ q = (j - 1) + (q - (j - 1))
      BY <2>1
    <3> QED BY <3>1
  <2>3. i * L \in Nat /\ r * L \in Nat /\ q * L = i * L + r * L
    BY <1>1, <2>2
  <2>4. q * L <= h - t - 1
    BY <1>5, <2>1
  <2>5. t + i * L \in Below(h)
    <3>1. PICK x \in Nat, y \in Nat : x = i * L /\ y = r * L /\ q * L = x + y
      BY <2>3
    <3>2. t + x \in Nat /\ t + x <= h - 1
      BY <1>1, <2>1, <2>4, <3>1
    <3> QED BY <1>1, <3>1, <3>2 DEF Below
  <2> QED BY <2>2, <2>5
<1>8. IsSeq(s) /\ Len(s) = n
  <2> HIDE DEF e, n
  <2> QED BY <1>6, TableIsSeq
<1> HIDE DEF e, s, n
<1>9. CellSet(s) \subseteq {Cell("x", i) : i \in Below(h)}
  BY <1>3, <1>7, <1>8 DEF CellSet
<1> QED BY <1>2, <1>4, <1>8, <1>9 DEF h

\* rmsnorm, however many simdgroups it takes, races for the lanes only.
LEMMA RmsnormConfined == ASSUME NEW c, Dims(c) PROVE Confined(rmsnorm(c), {"accum"})
<1> DEFINE B == RmsBuffers(c)
           T == Below(rms_grid(c))
           k == rmsnorm(c)
           xs == {Cell("x", i) : i \in Below(c.hidden)}
           lanes == {Cell("accum", i) : i \in Below(c.lanes)}
           row(b, t) == IF t < c.hidden THEN {Cell(b, t)} ELSE {}
           acc == [t \in T |-> xs \cup lanes \cup row("gain", t)]
           own == [t \in T |-> lanes \cup row("y", t)]
<1>1. k.program = [t \in T |-> rmsnorm_thread(c, t)] /\ k.buffers = B
  BY DEF rmsnorm, Kernel, RmsBuffers
<1>2. c.hidden \in Nat /\ c.lanes \in Nat
  BY DimsFacts
<1>3. CellsOf(k) = CellsIn(B)
  <2> HIDE DEF k, B
  <2>1. CellsOf(k) = CellsIn(k.buffers)
    BY Zenon DEF CellsOf, CellsIn
  <2> QED BY <1>1, <2>1
<1>4. DOMAIN k.program = T /\ \A t \in T : k.program[t] = rmsnorm_thread(c, t)
  BY <1>1
<1>5. \A t \in T : /\ acc[t] = xs \cup lanes \cup row("gain", t)
                   /\ own[t] = lanes \cup row("y", t)
  OBVIOUS
<1>6. \A t \in T : t \in Nat /\ (t < c.hidden => t \in Below(c.hidden))
  BY <1>2 DEF Below
<1> HIDE DEF T, k, acc, own
<1>7. ASSUME NEW t \in T PROVE acc[t] \subseteq CellsIn(B) /\ own[t] \subseteq CellsIn(B)
  <2>1. xs \cup lanes \subseteq CellsIn(B)
    BY LaneCells
  <2>2. row("gain", t) \cup row("y", t) \subseteq CellsIn(B)
    BY <1>6, LaneCells
  <2> QED BY <1>5, <2>1, <2>2
<1> HIDE DEF B
<1>8. ASSUME NEW t \in T PROVE Reaches(rmsnorm_thread(c, t), acc[t], own[t])
  <2> DEFINE steps == squares_of(c, t) \o <<Barrier>>
             all == Whole("accum", c.lanes)
             rest == <<Cell("x", t), Cell("gain", t)>>
  <2>1. t \in Nat /\ xs \subseteq acc[t] /\ lanes \subseteq acc[t] /\ lanes \subseteq own[t]
    BY <1>5, <1>6
  <2>2. /\ IsSeq(strided(c, t)) /\ CellSet(strided(c, t)) \subseteq acc[t]
        /\ Cell("accum", t % c.lanes) \in own[t]
    BY <2>1, Strides
  <2>3. Reaches(steps, acc[t], own[t])
    <3>1. Reaches(squares_of(c, t), acc[t], own[t])
      BY <2>2, ReachesOne, ReachesCompute DEF squares_of
    <3> QED BY <3>1, ReachesOne, ReachesThen
  <2>4. IsSeq(all) /\ CellSet(all) \subseteq acc[t]
    BY <1>2, <2>1, WholeFacts
  <2>5. rmsnorm_thread(c, t) = IF t < c.hidden THEN Compute(steps, all \o rest, Cell("y", t), "norm")
                               ELSE steps \o Loads(all)
    BY Zenon DEF rmsnorm_thread, normalise
  <2> HIDE DEF steps, all
  <2>6. CASE t < c.hidden
    <3>1. /\ IsSeq(rest) /\ CellSet(rest) = {Cell("x", t), Cell("gain", t)}
      BY CellSetSmall
    <3>2. CellSet(rest) \subseteq acc[t] /\ Cell("y", t) \in own[t]
      BY <1>5, <1>6, <2>6, <3>1
    <3> HIDE DEF rest
    <3>3. IsSeq(all \o rest) /\ CellSet(all \o rest) \subseteq acc[t]
      <4>1. IsSeq(all \o rest) /\ CellSet(all \o rest) = CellSet(all) \cup CellSet(rest)
        BY <2>4, <3>1, CellSetFacts
      <4> QED BY <2>4, <3>2, <4>1
    <3> QED BY <2>3, <2>5, <2>6, <3>2, <3>3, ReachesCompute
  <2>7. CASE ~(t < c.hidden)
    <3>1. Reaches(Loads(all), acc[t], own[t])
      BY <2>4, ReachesLoads
    <3> QED BY <2>3, <2>5, <2>7, <3>1, ReachesThen
  <2> QED BY <2>6, <2>7
<1>9. ASSUME NEW t \in T, NEW u \in T, u # t, NEW x \in own[t], x \in acc[u] \cup own[u]
      PROVE  x[1] \in {"accum"}
  <2>1. CASE x \in lanes
    BY <2>1 DEF Cell
  <2>2. CASE x \notin lanes
    <3>1. x = Cell("y", t)
      BY <1>5, <1>9, <2>2
    <3>2. \A b, i : x = Cell(b, i) => b = "y" /\ i = t
      BY <3>1, CellIs
    <3>3. x \notin xs \cup lanes \cup row("gain", u) \cup row("y", u)
      BY <1>9, <3>2
    <3> QED BY <1>5, <1>9, <3>3
  <2> QED BY <2>1, <2>2
<1>10. Separate(k, {"accum"}, acc, own)
  BY <1>3, <1>4, <1>7, <1>8, <1>9 DEF Separate
<1> QED BY <1>10 DEF Confined, k

\* rmsnorm with one simdgroup, or confined.
LEMMA RmsnormFine == ASSUME NEW c, Dims(c) PROVE Fine(rmsnorm(c), RacedBy("rmsnorm", c))
<1>1. c.hidden \in Nat /\ c.lanes \in Nat
  BY DimsFacts
<1>2. CASE c.lanes < c.hidden
  <2>1. RacedBy("rmsnorm", c) = {"accum"}
    BY <1>2 DEF RacedBy
  <2> QED BY <2>1, RmsnormConfined DEF Fine
<1>3. CASE ~(c.lanes < c.hidden)
  <2>1. c.hidden <= c.lanes
    BY <1>1, <1>3
  <2> QED BY <2>1, RmsnormSound DEF Fine
<1> QED BY <1>2, <1>3

-----------------------------------------------------------------------------
\* The library, and the theorems.

\* A table all kernels of which are sound, and one all rows of which are rows of
\* an elementwise kernel.
AllSound(f) == \A x \in DOMAIN f : Sound(f[x])
AllRows(f) == \A x \in DOMAIN f : IsSeq(f[x][2])

\* Both hold of two tables joined.
LEMMA JoinSound == ASSUME NEW f, NEW g, AllSound(f), AllSound(g) PROVE AllSound(f ++ g)
<1> DEFINE h == f ++ g
<1>1. /\ DOMAIN h = DOMAIN f \cup DOMAIN g
      /\ \A x \in DOMAIN f : h[x] = f[x]
      /\ \A x \in DOMAIN g : x \notin DOMAIN f => h[x] = g[x]
  BY JoinFacts, Zenon
<1> HIDE DEF h
<1>2. AllSound(h)
  BY <1>1 DEF AllSound
<1> QED BY <1>2 DEF h

\* So does that all kernels of a table are fine.
AllFine(f, c) == \A x \in DOMAIN f : Fine(f[x], RacedBy(x, c))

LEMMA JoinFine ==
    ASSUME NEW c, NEW f, NEW g, AllFine(f, c), AllFine(g, c) PROVE AllFine(f ++ g, c)
<1> DEFINE h == f ++ g
<1>1. /\ DOMAIN h = DOMAIN f \cup DOMAIN g
      /\ \A x \in DOMAIN f : h[x] = f[x]
      /\ \A x \in DOMAIN g : x \notin DOMAIN f => h[x] = g[x]
  BY JoinFacts, Zenon
<1> HIDE DEF h
<1>2. AllFine(h, c)
  BY <1>1 DEF AllFine
<1> QED BY <1>2 DEF h

LEMMA JoinRows == ASSUME NEW f, NEW g, AllRows(f), AllRows(g) PROVE AllRows(f ++ g)
<1> DEFINE h == f ++ g
<1>1. /\ DOMAIN h = DOMAIN f \cup DOMAIN g
      /\ \A x \in DOMAIN f : h[x] = f[x]
      /\ \A x \in DOMAIN g : x \notin DOMAIN f => h[x] = g[x]
  BY JoinFacts, Zenon
<1> HIDE DEF h
<1>2. AllRows(h)
  BY <1>1 DEF AllRows
<1> QED BY <1>2 DEF h

\* The elementwise kernels.
LEMMA RowsSound ==
    ASSUME NEW c, c.count \in Nat, NEW table, AllRows(table)
    PROVE  AllSound(Elementwise(c, table))
<1>1. Elementwise(c, table) = [name \in DOMAIN table |-> Row(c, table[name])]
  BY Zenon DEF Elementwise, Row
<1>2. ASSUME NEW x \in DOMAIN table PROVE Sound(Row(c, table[x]))
  BY <1>2, ElementwiseSound DEF AllRows
<1> QED BY <1>1, <1>2 DEF AllSound

\* The tables of them.
LEMMA TablesAreRows ==
    /\ AllRows(Residuals) /\ AllRows(Gates) /\ AllRows(Activations)
    /\ AllRows(ResidualProjections) /\ AllRows(Streams) /\ AllRows(Batches)
    /\ AllRows(BufferOps) /\ AllRows(VectorOps) /\ AllRows(smoothed_output)
    /\ AllRows(memory_copy_stride)
<1>1. IsSeq(<<>>) /\ (\A x : IsSeq(<<x>>)) /\ (\A x, y : IsSeq(<<x, y>>))
  BY EmptyIsSeq, CellSetSmall
<1>2. AllRows(Residuals)
  BY <1>1 DEF AllRows, Residuals
<1>3. AllRows(Gates)
  BY <1>1 DEF AllRows, Gates
<1>4. AllRows(Activations)
  BY <1>1 DEF AllRows, Activations
<1>5. AllRows(ResidualProjections)
  BY <1>1 DEF AllRows, ResidualProjections
<1>6. AllRows(Streams)
  BY <1>1 DEF AllRows, Streams
<1>7. AllRows(Batches)
  BY <1>1 DEF AllRows, Batches
<1>8. AllRows(BufferOps)
  BY <1>1 DEF AllRows, BufferOps
<1>9. AllRows(VectorOps)
  BY <1>1 DEF AllRows, VectorOps
<1>10. AllRows(smoothed_output)
  BY <1>1 DEF AllRows, smoothed_output
<1>11. AllRows(memory_copy_stride)
  BY <1>1 DEF AllRows, memory_copy_stride
<1> QED BY <1>2, <1>3, <1>4, <1>5, <1>6, <1>7, <1>8, <1>9, <1>10, <1>11

\* The kernels of norms.
LEMMA NormsSound ==
    ASSUME NEW c, Dims(c)
    PROVE  /\ AllSound(FinalNorms(c)) /\ AllSound(LayerNorms(c))
           /\ Sound(rmsnorm_vec4(c)) /\ Sound(segment_norm(c)) /\ Sound(sequence_norm(c))
<1>1. c.hidden \in Nat
  BY DimsFacts
<1>2. Sound(Norm(c, <<"gain">>, "y"))
  <2>1. PICK w : w = <<"gain">>
    OBVIOUS
  <2>2. IsSeq(w)
    BY <2>1, CellSetSmall
  <2>3. \A i \in 1..Len(w) : w[i] # "y"
    BY <2>1
  <2> QED BY <2>3, <1>1, <2>1, <2>2, NormSound
<1>3. Sound(Norm(c, <<"gain", "bias">>, "y"))
  <2>1. PICK w : w = <<"gain", "bias">>
    OBVIOUS
  <2>2. IsSeq(w)
    BY <2>1, CellSetSmall
  <2>3. \A i \in 1..Len(w) : w[i] # "y"
    BY <2>1
  <2> QED BY <2>3, <1>1, <2>1, <2>2, NormSound
<1>4. Sound(Norm(c, <<"gain", "bias", "y">>, "out"))
  <2>1. PICK w : w = <<"gain", "bias", "y">>
    OBVIOUS
  <2>2. IsSeq(w)
    <3>1. w \in Seq({"gain", "bias", "y"})
      BY <2>1
    <3> QED BY <3>1 DEF IsSeq
  <2>3. \A i \in 1..Len(w) : w[i] # "out"
    BY <2>1
  <2> QED BY <1>1, <2>1, <2>2, <2>3, NormSound
<1>5. AllSound(FinalNorms(c))
  BY <1>2 DEF AllSound, FinalNorms
<1>6. AllSound(LayerNorms(c))
  BY <1>3, <1>4 DEF AllSound, LayerNorms
<1>7. Sound(rmsnorm_vec4(c)) /\ Sound(segment_norm(c))
  BY <1>2 DEF rmsnorm_vec4, segment_norm
<1> QED BY <1>1, <1>5, <1>6, <1>7, SequenceNormSound

\* The kernels of matrices.
LEMMA MatvecsSound ==
    ASSUME NEW c, Dims(c)
    PROVE  /\ AllSound(QuantizedMatvecs(c)) /\ AllSound(Logits(c)) /\ AllSound(Projections(c))
           /\ AllSound(Heads(c)) /\ Sound(attn_projection_grad(c))
<1>1. \A bits \in {4, 8} : Sound(Matvec(c, bits, <<>>)) /\ Sound(Matvec(c, bits, <<"bias">>))
  <2>1. ASSUME NEW bits \in {4, 8} PROVE Sound(Matvec(c, bits, <<>>))
    <3>1. PICK w : w = <<>>
      OBVIOUS
    <3>2. IsSeq(w) /\ \A i \in 1..Len(w) : w[i] = "bias"
      BY <3>1, EmptyIsSeq
    <3> QED BY <3>1, <3>2, MatvecSound
  <2>2. ASSUME NEW bits \in {4, 8} PROVE Sound(Matvec(c, bits, <<"bias">>))
    <3>1. PICK w : w = <<"bias">>
      OBVIOUS
    <3>2. IsSeq(w)
      BY <3>1, CellSetSmall
    <3>3. \A i \in 1..Len(w) : w[i] = "bias"
      BY <3>1
    <3> QED BY <3>3, <3>1, <3>2, MatvecSound
  <2> QED BY <2>1, <2>2
<1>2. /\ Sound(Matvec(c, 4, <<>>)) /\ Sound(Matvec(c, 4, <<"bias">>))
      /\ Sound(Matvec(c, 8, <<>>)) /\ Sound(Matvec(c, 8, <<"bias">>))
  BY <1>1
<1>3. AllSound(QuantizedMatvecs(c))
  BY <1>2 DEF AllSound, QuantizedMatvecs
<1>4. AllSound(Logits(c))
  BY <1>2 DEF AllSound, Logits
<1>5. AllSound(Projections(c))
  BY <1>2 DEF AllSound, Projections
<1>6. AllSound(Heads(c))
  BY <1>2 DEF AllSound, Heads
<1>7. Sound(attn_projection_grad(c))
  BY <1>2 DEF attn_projection_grad
<1> QED BY <1>3, <1>4, <1>5, <1>6, <1>7

\* The kernels of attention and its caches.
LEMMA AttentionSound ==
    ASSUME NEW c, Dims(c)
    PROVE  /\ AllSound(AttentionScores(c)) /\ AllSound(Softmaxes(c))
           /\ AllSound(AttentionValues(c)) /\ AllSound(KvStores(c)) /\ AllSound(CacheLookups(c))
           /\ Sound(computed_score_invariants(c)) /\ Sound(parallel_score_block(c))
           /\ Sound(cross_attention_debug(c)) /\ Sound(causal_mask(c))
           /\ Sound(attention_diag_mask(c)) /\ Sound(masked_softmax(c))
           /\ Sound(masked_attention_value(c)) /\ Sound(attention_update_values(c))
<1>1. /\ c.q_heads \in Nat /\ c.rows \in Nat /\ c.cols \in Nat \ {0}
      /\ c.seq_len \in Nat \ {0} /\ c.token_index + 1 \in 1..c.seq_len
      /\ c.seq_len \in 1..c.seq_len /\ c.cols \in 1..c.cols
  BY DimsFacts DEF Below
<1>2. AllSound(AttentionScores(c)) /\ Sound(computed_score_invariants(c))
  BY ScoresSound DEF AllSound, AttentionScores, computed_score_invariants
<1>3. Sound(parallel_score_block(c)) /\ Sound(cross_attention_debug(c))
  <2>1. 1 \in Nat \ {0}
    OBVIOUS
  <2> QED BY <1>1, <2>1, HeadScoresSound DEF parallel_score_block, cross_attention_debug
<1>4. AllSound(Softmaxes(c)) /\ Sound(masked_softmax(c))
  BY <1>1, SoftmaxSound DEF AllSound, Softmaxes, masked_softmax
<1>5. AllSound(AttentionValues(c))
  BY <1>1, ValuesSound DEF AllSound, AttentionValues
<1>6. Sound(masked_attention_value(c)) /\ Sound(attention_update_values(c))
  BY <1>1, ValuesSound DEF masked_attention_value, attention_update_values
<1>7. Sound(causal_mask(c)) /\ Sound(attention_diag_mask(c))
  BY MaskSound DEF causal_mask, attention_diag_mask
<1>8. AllSound(KvStores(c))
  <2>1. DOMAIN KvStores(c) = {"kv_store", "kv_store_layer"}
    BY DEF KvStores
  <2> QED BY <2>1, KvStoresSound DEF AllSound
<1>9. AllSound(CacheLookups(c))
  <2>1. DOMAIN CacheLookups(c) = {"cache_lookup", "cache_lookup_headed"}
    BY DEF CacheLookups
  <2> QED BY <2>1, CacheLookupSound DEF AllSound
<1> QED BY <1>2, <1>3, <1>4, <1>5, <1>6, <1>7, <1>8, <1>9

\* The kernels that lay out queries, keys and values.
LEMMA LayoutsSound ==
    ASSUME NEW c, Dims(c)
    PROVE  /\ AllSound(QkvProjections(c)) /\ AllSound(SplitConcat(c)) /\ AllSound(Reorders(c))
           /\ AllSound(HeadSplits(c)) /\ Sound(qkv_head_lift(c)) /\ Sound(mixed_qkv(c))
           /\ Sound(qkv_gqa(c))
<1>1. AllSound(QkvProjections(c))
  <2>1. DOMAIN QkvProjections(c) = {"qkv_projection", "qkv_projection_tiled"}
    BY DEF QkvProjections
  <2> QED BY <2>1, QkvProjectionsSound DEF AllSound
<1>2. AllSound(SplitConcat(c)) /\ AllSound(Reorders(c)) /\ AllSound(HeadSplits(c))
  BY SplitSound, ConcatSound DEF AllSound, SplitConcat, Reorders, HeadSplits
<1>3. Sound(mixed_qkv(c)) /\ Sound(qkv_gqa(c))
  BY QkvCopiesSound DEF mixed_qkv, qkv_gqa
<1> QED BY <1>1, <1>2, <1>3, ConcatSound

\* The reductions.
LEMMA ReductionsSound ==
    ASSUME NEW c, Dims(c)
    PROVE  /\ AllSound(Reductions(c)) /\ AllSound(RowReductions(c))
           /\ Sound(mixed_precision_reduce(c)) /\ Sound(accumulation_block(c))
           /\ Sound(dot_product(c)) /\ Sound(split_residual_state(c)) /\ Sound(rmsnorm_safe(c))
           /\ AllSound(Embeddings(c))
<1>1. c.count \in Nat /\ c.count \in Nat \ {0}
  BY DimsFacts
<1>2. AllSound(Reductions(c))
  BY <1>1, FirstReducesSound DEF AllSound, Reductions
<1>3. AllSound(RowReductions(c))
  BY ReduceRowSound DEF AllSound, RowReductions
<1>4. Sound(mixed_precision_reduce(c)) /\ Sound(accumulation_block(c))
  BY <1>1, EachReducesSound DEF mixed_precision_reduce, accumulation_block
<1>5. AllSound(Embeddings(c))
  <2>1. DOMAIN Embeddings(c) = {"embedding", "embedding_batch"}
    BY DEF Embeddings
  <2> QED BY <2>1, EmbeddingSound DEF AllSound
<1> QED BY <1>1, <1>2, <1>3, <1>4, <1>5, DotProductSound, SplitResidualSound, SafeNormSound

\* Every kernel of the library is sound, for every dimensions it may be used with,
\* but for the two that race for some.
LEMMA LibraryIsFine == ASSUME NEW c, Dims(c) PROVE AllFine(Library(c), c)
<1> DEFINE table == Residuals ++ Gates ++ Activations ++ ResidualProjections
                        ++ Streams ++ Batches ++ BufferOps ++ VectorOps
                        ++ smoothed_output ++ memory_copy_stride
           single == [rmsnorm_safe |-> rmsnorm_safe(c), rmsnorm_vec4 |-> rmsnorm_vec4(c),
        segment_norm |-> segment_norm(c), sequence_norm |-> sequence_norm(c),
        attn_projection_grad |-> attn_projection_grad(c),
        computed_score_invariants |-> computed_score_invariants(c),
        causal_mask |-> causal_mask(c), attention_diag_mask |-> attention_diag_mask(c),
        masked_softmax |-> masked_softmax(c),
        masked_attention_value |-> masked_attention_value(c),
        attention_update_values |-> attention_update_values(c),
        parallel_score_block |-> parallel_score_block(c),
        cross_attention_debug |-> cross_attention_debug(c), dot_product |-> dot_product(c),
        qkv_head_lift |-> qkv_head_lift(c), mixed_qkv |-> mixed_qkv(c), qkv_gqa |-> qkv_gqa(c),
        split_residual_state |-> split_residual_state(c),
        mixed_precision_reduce |-> mixed_precision_reduce(c),
        accumulation_block |-> accumulation_block(c),
        rope_qk |-> rope_qk(c), rmsnorm |-> rmsnorm(c)]
           elements == Elementwise(c, table)
<1>1. AllSound(elements)
  <2>1. AllRows(table)
    BY TablesAreRows, JoinRows
  <2>2. c.count \in Nat
    BY DimsFacts
  <2> HIDE DEF table
  <2> QED BY <2>1, <2>2, RowsSound
<1>2. ASSUME NEW f, AllSound(f) PROVE AllFine(f, c)
  BY <1>2 DEF AllSound, AllFine, Fine
<1>3. AllFine(single, c)
  <2>1. \A k, raced : Sound(k) => Fine(k, raced)
    BY DEF Fine
  <2>2. Fine(rope_qk(c), RacedBy("rope_qk", c)) /\ Fine(rmsnorm(c), RacedBy("rmsnorm", c))
    BY RopeFine, RmsnormFine
  <2>3. ASSUME NEW x \in DOMAIN single \ {"rope_qk", "rmsnorm"} PROVE Sound(single[x])
    BY NormsSound, MatvecsSound, AttentionSound, LayoutsSound, ReductionsSound
  <2>4. single["rope_qk"] = rope_qk(c) /\ single["rmsnorm"] = rmsnorm(c)
    OBVIOUS
  <2> HIDE DEF single
  <2> QED BY <2>1, <2>2, <2>3, <2>4 DEF AllFine
<1>4. Library(c) =
    Embeddings(c) ++ FinalNorms(c) ++ LayerNorms(c)
    ++ QuantizedMatvecs(c) ++ Logits(c) ++ Projections(c) ++ Heads(c)
    ++ QkvProjections(c) ++ AttentionScores(c) ++ Softmaxes(c) ++ AttentionValues(c)
    ++ KvStores(c) ++ CacheLookups(c) ++ SplitConcat(c) ++ Reorders(c) ++ HeadSplits(c)
    ++ elements ++ Reductions(c) ++ RowReductions(c) ++ single
  BY Zenon DEF Library
<1> HIDE DEF table, single, elements
<1> DEFINE one == Embeddings(c) ++ FinalNorms(c) ++ LayerNorms(c)
    ++ QuantizedMatvecs(c) ++ Logits(c) ++ Projections(c) ++ Heads(c)
           two == one ++ QkvProjections(c) ++ AttentionScores(c) ++ Softmaxes(c)
    ++ AttentionValues(c) ++ KvStores(c) ++ CacheLookups(c) ++ SplitConcat(c)
    ++ Reorders(c) ++ HeadSplits(c)
           three == two ++ elements ++ Reductions(c) ++ RowReductions(c)
<1>5. AllSound(one)
  BY ReductionsSound, NormsSound, MatvecsSound, JoinSound
<1> HIDE DEF one
<1>6. AllSound(two)
  BY <1>5, LayoutsSound, AttentionSound, JoinSound
<1> HIDE DEF two
<1>7. AllSound(three)
  BY <1>1, <1>6, ReductionsSound, JoinSound
<1> HIDE DEF three
<1>8. AllFine(three ++ single, c)
  BY <1>2, <1>3, <1>7, JoinFine
<1> QED BY <1>4, <1>8 DEF three, two, one

\* So each kernel that is dispatched is fine.
LEMMA DispatchedFine == LibraryFine
<1>1. ASSUME NEW d \in Dispatches, NEW name \in d[2]
      PROVE  Fine(Library(d[1])[name], RacedBy(name, d[1]))
  <2>1. Dims(d[1]) /\ name \in DOMAIN Library(d[1])
    BY DispatchesAssumption
  <2>2. AllFine(Library(d[1]), d[1])
    BY <2>1, LibraryIsFine
  <2> QED BY <2>1, <2>2 DEF AllFine
<1> QED BY <1>1 DEF LibraryFine

-----------------------------------------------------------------------------
\* Every state of a dispatch of a kernel that does not race is one its threads could
\* reach each alone: there is an outline, all threads are where it takes them, at
\* most one barrier apart, and the cells of a thread hold what it finds there alone.
\* The threads of a kernel that races are at a place of their programs, which reach
\* no cell outside the buffers and meet in the raced buffer only.
THEOREM GridInvariant == Spec => []GridInv
<1>1. Init => GridInv
  BY DispatchedFine, GridInit
<1>2. GridInv /\ [Next]_vars => GridInv'
  BY GridStep
<1> QED BY <1>1, <1>2, PTL DEF Spec

\* No thread of any kernel of Transformer.metal that is modelled reaches behind the
\* end of a buffer, whatever the dimensions of the model, those for which a kernel
\* races included.
THEOREM ThreadsInBounds == Spec => []InBounds
<1>1. GridInv => InBounds
  BY GridInvBounds
<1> QED BY <1>1, GridInvariant, PTL

\* No two threads of one of them race for a cell, whatever the dimensions, but for
\* the key buffer of rope_qk when query heads share a key head, and for the lanes of
\* rmsnorm when a row does not fit a simdgroup: those two kernels race for nothing
\* else, and no other kernel races at all.
THEOREM ThreadsDoNotRace == Spec => []RaceFree
<1>1. GridInv => RaceFree
  BY GridInvRaces
<1> QED BY <1>1, GridInvariant, PTL

\* Whatever the schedule, each that does not race leaves in every element what rows,
\* heads, tokens and dimensions say it should, and touches nothing else.
THEOREM GridMakesReference == Spec => []ResultIsReference
<1>1. GridInv => ResultIsReference
  BY GridInvResult
<1> QED BY <1>1, GridInvariant, PTL
=============================================================================
