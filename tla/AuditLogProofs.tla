--------------------------- MODULE AuditLogProofs ---------------------------
(***************************************************************************)
(* Safety of AuditLog for every number of producers, records and appends,  *)
(* with every combination of faults, kills and options.                    *)
(*                                                                         *)
(* The properties are about the file, but none of them is inductive: why a *)
(* line is right depends on the item in the writer's hand, that on the     *)
(* queue, and what a flush may conclude on the count of unfinished tasks.  *)
(* The inductive invariant below says what each of these holds, counted in *)
(* the records accepted and taken so far.                                  *)
(***************************************************************************)
EXTENDS AuditLog, SeqFacts

\* The file and the buffer are sequences, of lines that have no type.
LinesOK == IsSeq(file) /\ IsSeq(buffer)

\* The writer's item is the last record it took.
HandInv ==
    /\ taken <= Len(accepted)
    /\ wpc \in Busy => taken >= 1 /\ item = accepted[taken]

\* unfinished_tasks counts the queue and the item in the writer's hand.
CountInv ==
    /\ wpc \in Busy => unfinished = Len(queue) + 1
    /\ wpc \notin Busy => unfinished = Len(queue)

SentinelFree(n) == \A j \in 1..n : queue[j] # SENTINEL

\* As long as there is a writer, the queue up to its first sentinel holds the
\* records accepted after the ones taken, in order.
FifoInv ==
    wpc # "exited" => \A i \in 1..Len(queue) : SentinelFree(i) =>
        /\ taken + i <= Len(accepted)
        /\ queue[i] = accepted[taken + i]

NoSentinel == SentinelFree(Len(queue))
SentinelLast ==
    /\ queue # <<>>
    /\ queue[Len(queue)] = SENTINEL
    /\ SentinelFree(Len(queue) - 1)

\* No accepted record is anywhere else, as long as the writer can still come
\* to it: with no sentinel in the queue, with one at its end, and when the
\* writer is gone and the queue is empty.
AllQueuedInv ==
    log = "open" =>
        /\ wpc # "exited" /\ NoSentinel => Len(accepted) = taken + Len(queue)
        /\ wpc # "exited" /\ SentinelLast
              => Len(accepted) = taken + Len(queue) - 1
        /\ wpc = "exited" /\ queue = <<>> => Len(accepted) = taken

\* Until the writer meets an error, every record it took is one line, and with
\* fsync_each every line but the last is synced.
WrittenInv ==
    log = "open" /\ ~Failed =>
        /\ wpc \in {"encode", "write"} => Len(file) + 1 = taken
        /\ wpc \notin {"encode", "write"} => Len(file) = taken
        /\ \A i \in 1..Len(file) : file[i].record = accepted[i]
        /\ FsyncEach /\ wpc = "fsync" => synced + 1 = Len(file)
        /\ FsyncEach /\ wpc # "fsync" => synced = Len(file)

\* The disk never failed to take a line.
DiskSound == (log = "open" /\ ~Failed) \/ Faults \cap {"write", "fsync"} = {}

\* Then _seq and _head are those of the file, less the line being written.
ChainInv ==
    DiskSound =>
        /\ buffer = <<>>
        /\ WellChained(file, Key)
        /\ log = "open" /\ wpc \notin {"fsync", "advance"} =>
              seq = Len(file) /\ head = HeadOf(file)
        /\ log = "open" /\ wpc \in {"fsync", "advance"} =>
              /\ Len(file) = seq + 1
              /\ file[Len(file)] = Line

\* The first n records accepted are safe in the file.
OnFile(n) ==
    /\ n <= Len(file)
    /\ n <= Len(accepted)
    /\ \A i \in 1..n : file[i].record = accepted[i]
    /\ FsyncEach => n <= synced

TargetInv == \A p \in Producers : target[p] <= Len(accepted)

\* A flush that got past queue.join with no error set may return normally.
JoinedInv ==
    \A p \in Producers :
        pc[p] \in {"flush_error", "close_error"} /\ ~error => OnFile(target[p])

AckedInv == (PowerLoss => FsyncEach) => OnFile(acked)

\* A dead log has nothing in memory, and only an open one is written.
DownInv ==
    /\ synced <= Len(file)
    /\ log # "open" =>
          /\ queue = <<>> /\ wpc = "start" /\ taken = 0 /\ ~error /\ ~closed
          /\ unfinished = 0 /\ buffer = <<>>
          /\ seq = 0 /\ head = GENESIS_HASH
          /\ \A p \in Producers : pc[p] = "idle" /\ target[p] = 0

IInv ==
    /\ TypeOK /\ LinesOK
    /\ HandInv /\ CountInv /\ FifoInv /\ AllQueuedInv
    /\ WrittenInv /\ ChainInv
    /\ TargetInv /\ JoinedInv /\ AckedInv /\ DownInv

-----------------------------------------------------------------------------
USE ClosersAssumption, UnencodableAssumption, SentinelAssumption,
    OptionsAssumption

\* Every action, by name.
LEMMA NextCases ==
    ASSUME Next
    PROVE  \/ \E p \in Producers :
                 \/ AppendCall(p) \/ FlushCall(p) \/ CloseCall(p)
                 \/ AppendCheckError(p) \/ AppendPut(p) \/ FlushJoin(p)
                 \/ FlushReturn(p) \/ CloseJoin(p) \/ CloseFlushed(p)
                 \/ CloseMark(p) \/ ClosePut(p) \/ CloseReturn(p)
           \/ Open \/ Get \/ GetSentinel \/ Encode \/ Write \/ Fsync
           \/ Advance \/ RecordError \/ TaskDone
           \/ OpenFails \/ WriteFails \/ FsyncFails
           \/ Kill \/ Reopen
BY DEF Next, Call, Produce, Drain, DrainFails

LEMMA InitIInv == Init => IInv
<1> SUFFICES ASSUME Init PROVE IInv
    OBVIOUS
<1> USE DEF Init
<1>1. TypeOK
  <2>1. error \in BOOLEAN /\ closed \in BOOLEAN
    OBVIOUS
  <2>2. accepted \in Seq(Records) /\ queue \in Seq(Records \cup {SENTINEL})
    OBVIOUS
  <2>3. QED
    BY <2>1, <2>2 DEF TypeOK, WriterPC, ProducerPC, Busy
<1>2. LinesOK
  BY EmptyIsSeq DEF LinesOK
<1>3. HandInv /\ CountInv /\ FifoInv /\ AllQueuedInv
  BY DEF HandInv, CountInv, FifoInv, AllQueuedInv, SentinelLast, Busy
<1>4. WrittenInv
  BY DEF WrittenInv
<1>40. ChainInv
  BY DEF ChainInv, WellChained, HeadOf
<1>5. TargetInv /\ JoinedInv /\ AckedInv /\ DownInv
  BY DEF TargetInv, JoinedInv, AckedInv, DownInv, OnFile
<1>6. QED
  BY <1>1, <1>2, <1>3, <1>4, <1>40, <1>5 DEF IInv

-----------------------------------------------------------------------------
\* A step keeps the types of the queue and of the threads' control state.
LEMMA TypeStep == TypeOK /\ HandInv /\ CountInv /\ LinesOK /\ Next => TypeOK'
<1> SUFFICES ASSUME TypeOK, HandInv, CountInv, LinesOK, Next PROVE TypeOK'
    OBVIOUS
<1> USE DEF TypeOK, WriterPC, ProducerPC, Busy, ProducerSide, queueVars,
            chainVars, writerVars, diskVars, callVars
<1>1. ASSUME NEW p \in Producers, AppendCall(p) PROVE TypeOK'
  BY <1>1 DEF AppendCall, At
<1>2. ASSUME NEW p \in Producers, FlushCall(p) PROVE TypeOK'
  BY <1>2 DEF FlushCall, At
<1>3. ASSUME NEW p \in Producers, CloseCall(p) PROVE TypeOK'
  BY <1>3 DEF CloseCall, At
<1>4. ASSUME NEW p \in Producers, AppendCheckError(p) PROVE TypeOK'
  BY <1>4 DEF AppendCheckError, At
<1>5. ASSUME NEW p \in Producers, AppendPut(p) PROVE TypeOK'
  BY <1>5 DEF AppendPut, At, put
<1>6. ASSUME NEW p \in Producers, FlushJoin(p) \/ CloseJoin(p) PROVE TypeOK'
  BY <1>6 DEF FlushJoin, CloseJoin, Joined, At
<1>7. ASSUME NEW p \in Producers, FlushReturn(p) \/ CloseFlushed(p)
      PROVE TypeOK'
  <2>1. acked' \in Nat
    <3>1. CASE error
      BY <1>7, <3>1 DEF FlushReturn, CloseFlushed, FlushOutcome
    <3>2. CASE ~error
      BY <1>7, <3>2 DEF FlushReturn, CloseFlushed, FlushOutcome
    <3>3. QED
      BY <3>1, <3>2
  <2>2. pc' = [pc EXCEPT ![p] = pc'[p]]
        /\ pc'[p] \in {"idle", "close_mark"}
    BY <1>7 DEF FlushReturn, CloseFlushed, FlushOutcome, At
  <2>3. QED
    BY <1>7, <2>1, <2>2 DEF FlushReturn, CloseFlushed, FlushOutcome
<1>8. ASSUME NEW p \in Producers, CloseMark(p) \/ CloseReturn(p) PROVE TypeOK'
  BY <1>8 DEF CloseMark, CloseReturn, At
<1>9. ASSUME NEW p \in Producers, ClosePut(p) PROVE TypeOK'
  BY <1>9 DEF ClosePut, At, put
<1>10. CASE Get
  BY <1>10 DEF Get, Goes
<1>11. CASE GetSentinel
  BY <1>11 DEF GetSentinel, Goes, CountInv
<1>12. CASE Open \/ OpenFails \/ Encode
  BY <1>12 DEF Open, OpenFails, Encode, Goes
<1>13. CASE Write \/ WriteFails \/ Advance
  BY <1>13 DEF Write, WriteFails, Advance, Goes
<1>14. CASE Fsync
  BY <1>14, LenIsNat DEF Fsync, Goes, LinesOK
<1>15. CASE FsyncFails \/ RecordError
  BY <1>15 DEF FsyncFails, RecordError, Goes
<1>16. CASE TaskDone
  BY <1>16 DEF TaskDone, Goes, CountInv
<1>17. CASE Kill
  <2>1. error' \in BOOLEAN /\ closed' \in BOOLEAN
    BY <1>17 DEF Kill
  <2>2. QED
    BY <1>17, <2>1 DEF Kill
<1>18. CASE Reopen
  BY <1>18 DEF Reopen
<1>19. QED
  BY NextCases, <1>1, <1>2, <1>3, <1>4, <1>5, <1>6, <1>7, <1>8, <1>9, <1>10,
     <1>11, <1>12, <1>13, <1>14, <1>15, <1>16, <1>17, <1>18

-----------------------------------------------------------------------------
\* The calls that only move a producer on.
Moves(p) ==
    \/ AppendCall(p) \/ AppendCheckError(p) \/ FlushCall(p) \/ CloseCall(p)
    \/ FlushJoin(p) \/ CloseJoin(p) \/ FlushReturn(p) \/ CloseFlushed(p)
    \/ CloseMark(p) \/ CloseReturn(p)

LEMMA MovesFrame ==
    ASSUME NEW p \in Producers, Moves(p)
    PROVE  /\ UNCHANGED <<log, queue, unfinished, seq, head, error, wpc, item,
                          taken, buffer, file, synced, accepted>>
           /\ log = "open"
BY DEF Moves, AppendCall, AppendCheckError, FlushCall, CloseCall, FlushJoin,
       CloseJoin, Joined, FlushReturn, CloseFlushed, FlushOutcome, CloseMark,
       CloseReturn, At, queueVars, chainVars, writerVars, diskVars

\* Every step moves a producer, puts, is one of the writer's, or ends a life.
LEMMA StepCases ==
    ASSUME Next
    PROVE  \/ \E p \in Producers : Moves(p) \/ AppendPut(p) \/ ClosePut(p)
           \/ Drain \/ DrainFails \/ Kill \/ Reopen
BY DEF Next, Call, Produce, Moves

LEMMA HandStep == TypeOK /\ CountInv /\ HandInv /\ FifoInv /\ DownInv /\ Next => HandInv'
<1> SUFFICES ASSUME TypeOK, CountInv, HandInv, FifoInv, DownInv, Next
             PROVE  HandInv'
    OBVIOUS
<1> USE DEF TypeOK, HandInv, Busy, ProducerSide, queueVars, chainVars,
            writerVars, diskVars, callVars
<1>1. ASSUME NEW p \in Producers, Moves(p) PROVE HandInv'
  BY <1>1, MovesFrame
<1>2. ASSUME NEW p \in Producers, AppendPut(p) PROVE HandInv'
  BY <1>2 DEF AppendPut, At, put
<1>3. ASSUME NEW p \in Producers, ClosePut(p) PROVE HandInv'
  BY <1>3 DEF ClosePut, At, put
<1>4. CASE Get
  <2>1. SentinelFree(1)
    BY <1>4 DEF Get, SentinelFree
  <2>2. queue[1] = accepted[taken + 1] /\ taken + 1 <= Len(accepted)
    BY <1>4, <2>1 DEF Get, Goes, FifoInv
  <2>3. QED
    BY <1>4, <2>2 DEF Get, Goes
<1>5. CASE GetSentinel \/ Open \/ OpenFails \/ TaskDone
  BY <1>5 DEF GetSentinel, Open, OpenFails, TaskDone, Goes
<1>6. CASE Encode \/ Write \/ WriteFails \/ Fsync \/ FsyncFails
  BY <1>6 DEF Encode, Write, WriteFails, Fsync, FsyncFails, Goes
<1>7. CASE Advance \/ RecordError
  BY <1>7 DEF Advance, RecordError, Goes
<1>8. CASE Kill \/ Reopen
  BY <1>8 DEF Kill, Reopen, DownInv
<1>9. QED
  BY StepCases, <1>1, <1>2, <1>3, <1>4, <1>5, <1>6, <1>7, <1>8
     DEF Drain, DrainFails

LEMMA CountStep == TypeOK /\ CountInv /\ DownInv /\ Next => CountInv'
<1> SUFFICES ASSUME TypeOK, CountInv, DownInv, Next PROVE CountInv'
    OBVIOUS
<1> USE DEF TypeOK, CountInv, Busy, ProducerSide, queueVars, chainVars,
            writerVars, diskVars, callVars
<1>1. ASSUME NEW p \in Producers, Moves(p) PROVE CountInv'
  BY <1>1, MovesFrame
<1>2. ASSUME NEW p \in Producers, AppendPut(p) PROVE CountInv'
  BY <1>2 DEF AppendPut, At, put
<1>3. ASSUME NEW p \in Producers, ClosePut(p) PROVE CountInv'
  BY <1>3 DEF ClosePut, At, put
<1>4. CASE Get
  BY <1>4 DEF Get, Goes
<1>5. CASE GetSentinel
  BY <1>5 DEF GetSentinel, Goes
<1>6. CASE Open \/ OpenFails \/ TaskDone
  BY <1>6 DEF Open, OpenFails, TaskDone, Goes
<1>7. CASE Encode \/ Write \/ WriteFails \/ Fsync \/ FsyncFails
  BY <1>7 DEF Encode, Write, WriteFails, Fsync, FsyncFails, Goes
<1>8. CASE Advance \/ RecordError
  BY <1>8 DEF Advance, RecordError, Goes
<1>9. CASE Kill \/ Reopen
  BY <1>9 DEF Kill, Reopen, DownInv
<1>10. QED
  BY StepCases, <1>1, <1>2, <1>3, <1>4, <1>5, <1>6, <1>7, <1>8, <1>9
     DEF Drain, DrainFails

LEMMA FifoStep ==
    TypeOK /\ CountInv /\ FifoInv /\ AllQueuedInv /\ DownInv /\ Next => FifoInv'
<1> SUFFICES ASSUME TypeOK, CountInv, FifoInv, AllQueuedInv, DownInv, Next
             PROVE  FifoInv'
    OBVIOUS
<1> USE DEF TypeOK, FifoInv, SentinelFree, ProducerSide, queueVars, chainVars,
            writerVars, diskVars, callVars
<1>1. ASSUME NEW p \in Producers, Moves(p) PROVE FifoInv'
  BY <1>1, MovesFrame
<1>2. ASSUME NEW p \in Producers, AppendPut(p) PROVE FifoInv'
  <2> SUFFICES ASSUME wpc # "exited", NEW i \in 1..Len(queue'),
                      SentinelFree(i)'
               PROVE  /\ taken' + i <= Len(accepted')
                      /\ queue'[i] = accepted'[taken' + i]
    BY <1>2 DEF AppendPut, writerVars
  <2>1. /\ queue' = Append(queue, arg[p]) /\ arg[p] \in Records
        /\ accepted' = Append(accepted, arg[p])
        /\ taken' = taken /\ log = "open"
    BY <1>2 DEF AppendPut, At, put
  <2>2. \A j \in 1..Len(queue) : queue'[j] = queue[j]
    BY <2>1
  <2>3. CASE i \in 1..Len(queue)
    <3>1. SentinelFree(i)
      BY <2>2, <2>3
    <3>2. taken + i <= Len(accepted) /\ queue[i] = accepted[taken + i]
      BY <3>1, <2>3
    <3>3. QED
      BY <3>2, <2>1, <2>2, <2>3
  <2>4. CASE i = Len(queue) + 1
    <3>1. SentinelFree(Len(queue))
      BY <2>2, <2>4
    <3>2. Len(accepted) = taken + Len(queue)
      BY <3>1, <2>1 DEF AllQueuedInv, NoSentinel
    <3>3. QED
      BY <3>2, <2>1, <2>4
  <2>5. i \in 1..Len(queue) \/ i = Len(queue) + 1
    <3>1. Len(queue') = Len(queue) + 1 /\ Len(queue) \in Nat
      BY <2>1
    <3>2. QED
      BY <3>1
  <2>6. QED
    BY <2>3, <2>4, <2>5
<1>3. ASSUME NEW p \in Producers, ClosePut(p) PROVE FifoInv'
  <2> SUFFICES ASSUME wpc # "exited", NEW i \in 1..Len(queue'),
                      SentinelFree(i)'
               PROVE  /\ taken' + i <= Len(accepted')
                      /\ queue'[i] = accepted'[taken' + i]
    BY <1>3 DEF ClosePut, writerVars
  <2>1. /\ queue' = Append(queue, SENTINEL)
        /\ taken' = taken /\ accepted' = accepted
    BY <1>3 DEF ClosePut, put
  <2>2. /\ Len(queue') = Len(queue) + 1 /\ Len(queue) \in Nat
        /\ queue'[Len(queue) + 1] = SENTINEL
        /\ \A j \in 1..Len(queue) : queue'[j] = queue[j]
    BY <2>1
  <2>3. i \in 1..Len(queue)
    BY <2>2
  <2>4. SentinelFree(i)
    BY <2>2, <2>3
  <2>5. QED
    BY <2>1, <2>2, <2>3, <2>4
<1>4. CASE Get
  <2> SUFFICES ASSUME NEW i \in 1..Len(queue'), SentinelFree(i)'
               PROVE  /\ taken' + i <= Len(accepted')
                      /\ queue'[i] = accepted'[taken' + i]
    OBVIOUS
  <2>1. /\ queue # <<>> /\ queue[1] # SENTINEL /\ queue' = Tail(queue)
        /\ taken' = taken + 1 /\ accepted' = accepted /\ wpc # "exited"
    BY <1>4 DEF Get, Goes
  <2>2. /\ Len(queue') = Len(queue) - 1
        /\ \A j \in 1..Len(queue') : queue'[j] = queue[j + 1]
    BY <2>1
  <2>3. SentinelFree(i + 1)
    <3>1. SUFFICES ASSUME NEW j \in 1..(i + 1) PROVE queue[j] # SENTINEL
      OBVIOUS
    <3>2. CASE j = 1
      BY <2>1, <3>2
    <3>3. CASE j # 1
      <4>1. j - 1 \in 1..i /\ j - 1 \in 1..Len(queue')
        BY <3>3
      <4>2. queue'[j - 1] # SENTINEL
        BY <4>1
      <4>3. QED
        BY <4>1, <4>2, <2>2
    <3>4. QED
      BY <3>2, <3>3
  <2>4. i + 1 \in 1..Len(queue)
    BY <2>2
  <2>5. taken + (i + 1) <= Len(accepted) /\ queue[i + 1] = accepted[taken + (i + 1)]
    BY <2>1, <2>3, <2>4
  <2>6. QED
    BY <2>1, <2>2, <2>5
<1>5. CASE GetSentinel
  BY <1>5 DEF GetSentinel, Goes
<1>6. CASE Open \/ OpenFails \/ TaskDone
  BY <1>6 DEF Open, OpenFails, TaskDone, Goes
<1>7. CASE Encode \/ Write \/ WriteFails \/ Fsync \/ FsyncFails
  BY <1>7 DEF Encode, Write, WriteFails, Fsync, FsyncFails, Goes
<1>8. CASE Advance \/ RecordError
  BY <1>8 DEF Advance, RecordError, Goes
<1>9. CASE Kill \/ Reopen
  BY <1>9 DEF Kill, Reopen, DownInv
<1>10. QED
  BY StepCases, <1>1, <1>2, <1>3, <1>4, <1>5, <1>6, <1>7, <1>8, <1>9
     DEF Drain, DrainFails

LEMMA AllQueuedStep ==
    TypeOK /\ AllQueuedInv /\ DownInv /\ Next => AllQueuedInv'
<1> SUFFICES ASSUME TypeOK, AllQueuedInv, DownInv, Next
             PROVE  AllQueuedInv'
    OBVIOUS
<1> USE DEF TypeOK, ProducerSide, queueVars, chainVars, writerVars, diskVars,
            callVars
<1>1. ASSUME NEW p \in Producers, Moves(p) PROVE AllQueuedInv'
  BY <1>1, MovesFrame DEF AllQueuedInv, NoSentinel, SentinelLast, SentinelFree
<1>2. ASSUME NEW p \in Producers, AppendPut(p) PROVE AllQueuedInv'
  <2>1. /\ queue' = Append(queue, arg[p]) /\ arg[p] \in Records
        /\ accepted' = Append(accepted, arg[p])
        /\ taken' = taken /\ log = "open" /\ wpc' = wpc
    BY <1>2 DEF AppendPut, At, put
  <2>2. /\ Len(queue') = Len(queue) + 1 /\ Len(accepted') = Len(accepted) + 1
        /\ \A j \in 1..Len(queue) : queue'[j] = queue[j]
        /\ queue'[Len(queue')] # SENTINEL
    BY <2>1
  <2>3. NoSentinel' => NoSentinel
    BY <2>2 DEF NoSentinel, SentinelFree
  <2>4. ~SentinelLast'
    BY <2>2 DEF SentinelLast
  <2>5. queue' # <<>>
    BY <2>1
  <2>6. NoSentinel' /\ wpc' # "exited" => Len(accepted') = taken' + Len(queue')
    BY <2>1, <2>2, <2>3 DEF AllQueuedInv
  <2>7. QED
    BY <2>4, <2>5, <2>6 DEF AllQueuedInv
<1>3. ASSUME NEW p \in Producers, ClosePut(p) PROVE AllQueuedInv'
  <2>1. /\ queue' = Append(queue, SENTINEL) /\ accepted' = accepted
        /\ taken' = taken /\ log = "open" /\ wpc' = wpc
    BY <1>3 DEF ClosePut, At, put
  <2>2. /\ Len(queue') = Len(queue) + 1
        /\ \A j \in 1..Len(queue) : queue'[j] = queue[j]
        /\ queue'[Len(queue')] = SENTINEL
    BY <2>1
  <2>3. SentinelLast' => NoSentinel
    BY <2>2 DEF SentinelLast, NoSentinel, SentinelFree
  <2>4. ~NoSentinel' /\ queue' # <<>>
    BY <2>1, <2>2 DEF NoSentinel, SentinelFree
  <2>5. QED
    BY <2>1, <2>2, <2>3, <2>4 DEF AllQueuedInv
<1>4. CASE Get
  <2>1. /\ queue # <<>> /\ queue[1] # SENTINEL /\ queue' = Tail(queue)
        /\ taken' = taken + 1 /\ accepted' = accepted
        /\ wpc # "exited" /\ wpc' # "exited" /\ log = "open"
    BY <1>4 DEF Get, Goes
  <2>2. /\ Len(queue') = Len(queue) - 1
        /\ \A j \in 2..Len(queue) : queue[j] = queue'[j - 1]
        /\ queue' # <<>> => queue'[Len(queue')] = queue[Len(queue)]
    BY <2>1
  <2>3. ASSUME NEW n \in 0..Len(queue'), SentinelFree(n)'
        PROVE  SentinelFree(n + 1)
    <3>1. SUFFICES ASSUME NEW j \in 1..(n + 1) PROVE queue[j] # SENTINEL
      BY DEF SentinelFree
    <3>2. CASE j = 1
      BY <2>1, <3>2
    <3>3. CASE j # 1
      <4>1. j - 1 \in 1..n /\ j \in 2..Len(queue)
        BY <3>3, <2>2
      <4>2. queue'[j - 1] # SENTINEL
        BY <4>1, <2>3 DEF SentinelFree
      <4>3. QED
        BY <4>1, <4>2, <2>2
    <3>4. QED
      BY <3>2, <3>3
  <2>4. Len(queue') \in 0..Len(queue')
    BY <2>1, <2>2
  <2>5. NoSentinel' => NoSentinel
    BY <2>2, <2>3, <2>4 DEF NoSentinel
  <2>6. SentinelLast' => SentinelLast
    <3>1. queue' # <<>> => Len(queue') - 1 \in 0..Len(queue')
      BY <2>1, <2>2
    <3>2. QED
      BY <3>1, <2>1, <2>2, <2>3 DEF SentinelLast
  <2>7. QED
    BY <2>1, <2>2, <2>5, <2>6 DEF AllQueuedInv
<1>5. CASE GetSentinel
  <2>1. /\ queue # <<>> /\ queue[1] = SENTINEL /\ queue' = Tail(queue)
        /\ wpc # "exited" /\ wpc' = "exited" /\ log = "open"
        /\ taken' = taken /\ accepted' = accepted
    BY <1>5 DEF GetSentinel, Goes
  <2>5. Len(queue') = Len(queue) - 1
    BY <2>1
  <2>6. queue' = <<>> => Len(queue') = 0
    OBVIOUS
  <2>7. Len(queue) \in Nat
    OBVIOUS
  <2>2. queue' = <<>> => Len(queue) = 1
    BY <2>5, <2>6, <2>7
  <2>4. queue' = <<>> => SentinelLast
    <3>1. Len(queue) = 1 => SentinelFree(Len(queue) - 1)
      BY DEF SentinelFree
    <3>2. QED
      BY <2>1, <2>2, <3>1 DEF SentinelLast
  <2>3. QED
    BY <2>1, <2>2, <2>4 DEF AllQueuedInv
<1>6. CASE OpenFails
  <2>1. queue = <<>> => NoSentinel /\ Len(queue) = 0
    BY DEF NoSentinel, SentinelFree
  <2>2. QED
    BY <1>6, <2>1 DEF OpenFails, Goes, AllQueuedInv
<1>7. ASSUME \/ Open \/ Encode \/ Write \/ WriteFails \/ Fsync \/ FsyncFails
             \/ Advance \/ RecordError \/ TaskDone
      PROVE  AllQueuedInv'
  <2>1. /\ log = "open" /\ UNCHANGED <<queue, taken, accepted>>
        /\ wpc # "exited"
    BY <1>7 DEF Open, TaskDone, Encode, Write, WriteFails, Fsync, FsyncFails,
                Advance, RecordError, Goes
  <2>2. QED
    BY <2>1 DEF AllQueuedInv, NoSentinel, SentinelLast, SentinelFree
<1>8. CASE Kill
  BY <1>8 DEF Kill, AllQueuedInv
<1>9. CASE Reopen
  BY <1>9 DEF Reopen, DownInv, AllQueuedInv, SentinelLast
<1>10. QED
  BY StepCases, <1>1, <1>2, <1>3, <1>4, <1>5, <1>6, <1>7, <1>8, <1>9
     DEF Drain, DrainFails

-----------------------------------------------------------------------------
\* Lines are only added behind those that are there, except by a kill.
LEMMA FileGrows ==
    ASSUME LinesOK, Next, ~Kill
    PROVE  /\ IsSeq(file') /\ IsSeq(buffer')
           /\ Len(file) <= Len(file')
           /\ \A i \in 1..Len(file) : file'[i] = file[i]
<1> USE DEF LinesOK, ProducerSide, queueVars, chainVars, writerVars, diskVars,
            callVars
<1>1. ASSUME UNCHANGED <<file, buffer>>
      PROVE  /\ IsSeq(file') /\ IsSeq(buffer')
             /\ Len(file) <= Len(file')
             /\ \A i \in 1..Len(file) : file'[i] = file[i]
  BY <1>1, LenIsNat
<1>2. ASSUME NEW p \in Producers, Moves(p) \/ AppendPut(p) \/ ClosePut(p)
      PROVE  UNCHANGED <<file, buffer>>
  BY <1>2, MovesFrame DEF AppendPut, ClosePut
<1>3. ASSUME \/ Open \/ OpenFails \/ Get \/ Encode \/ Fsync \/ FsyncFails
             \/ Advance \/ RecordError \/ TaskDone \/ Reopen
      PROVE  UNCHANGED <<file, buffer>>
  BY <1>3 DEF Open, OpenFails, Get, Encode, Fsync, FsyncFails, Advance,
              RecordError, TaskDone, Reopen
<1>4. CASE GetSentinel
  <2>1. file' = file \/ file' = file \o buffer
    BY <1>4 DEF GetSentinel
  <2>2. buffer' = <<>>
    BY <1>4 DEF GetSentinel
  <2>3. /\ Len(file) \in Nat /\ Len(buffer) \in Nat
        /\ IsSeq(file \o buffer)
        /\ Len(file \o buffer) = Len(file) + Len(buffer)
        /\ \A i \in 1..Len(file) : (file \o buffer)[i] = file[i]
    BY ConcatFacts, LenIsNat
  <2>4. CASE file' = file
    BY <2>2, <2>3, <2>4, EmptyIsSeq
  <2>5. CASE file' = file \o buffer
    BY <2>2, <2>3, <2>5, EmptyIsSeq
  <2>6. QED
    BY <2>1, <2>4, <2>5
<1>5. CASE Write
  <2>1. file' = Append(file \o buffer, Line) /\ buffer' = <<>>
    BY <1>5 DEF Write
  <2>2. /\ Len(file) \in Nat /\ Len(buffer) \in Nat
        /\ IsSeq(file \o buffer)
        /\ Len(file \o buffer) = Len(file) + Len(buffer)
        /\ \A i \in 1..Len(file) : (file \o buffer)[i] = file[i]
    BY ConcatFacts, LenIsNat
  <2>3. /\ IsSeq(file')
        /\ Len(file') = Len(file) + Len(buffer) + 1
        /\ \A i \in 1..Len(file \o buffer) : file'[i] = (file \o buffer)[i]
    BY <2>1, <2>2, AppendFacts
  <2>4. QED
    BY <2>1, <2>2, <2>3, EmptyIsSeq
<1>6. CASE WriteFails
  <2>1. file' = file /\ IsSeq(buffer')
    BY <1>6, AppendFacts DEF WriteFails
  <2>2. QED
    BY <2>1, LenIsNat
<1>7. QED
  BY StepCases, <1>1, <1>2, <1>3, <1>4, <1>5, <1>6 DEF Drain, DrainFails

\* A kill leaves a prefix of the file, and all of it that was synced.
LEMMA KillKeeps ==
    ASSUME LinesOK, TypeOK, DownInv, Kill
    PROVE  /\ IsSeq(file') /\ IsSeq(buffer')
           /\ Len(file') <= Len(file) /\ synced <= Len(file')
           /\ \A i \in 1..Len(file') : file'[i] = file[i]
           /\ ~PowerLoss => Len(file') = Len(file)
<1>1. PICK k \in 0..Len(file) :
         /\ k = Len(file) \/ (PowerLoss /\ k >= synced)
         /\ file' = SubSeq(file, 1, k)
  BY DEF Kill
<1>2. /\ IsSeq(file') /\ Len(file') = k
      /\ \A i \in 1..k : file'[i] = file[i]
  BY <1>1, PrefixFacts DEF LinesOK
<1>3. Len(file) \in Nat
  BY LenIsNat DEF LinesOK
<1>4. synced <= k
  BY <1>1, <1>3 DEF DownInv, TypeOK
<1>5. IsSeq(buffer')
  BY EmptyIsSeq DEF Kill
<1>6. QED
  BY <1>1, <1>2, <1>3, <1>4, <1>5

LEMMA LinesStep == LinesOK /\ TypeOK /\ DownInv /\ Next => LinesOK'
BY FileGrows, KillKeeps DEF LinesOK

\* What Write does to the file while nothing waits in the buffer.
LEMMA WriteAdds ==
    ASSUME LinesOK, buffer = <<>>, Write
    PROVE  /\ IsSeq(file) /\ Len(file) \in Nat /\ Len(file') = Len(file) + 1
           /\ \A i \in 1..Len(file) : file'[i] = file[i]
           /\ file'[Len(file) + 1] = Line
<1>1. file \o buffer = file /\ Len(file) \in Nat
  BY ConcatFacts, LenIsNat DEF LinesOK
<1>2. file' = Append(file, Line)
  BY <1>1 DEF Write
<1>3. QED
  BY <1>1, <1>2, AppendFacts DEF LinesOK

LEMMA WrittenStep ==
    TypeOK /\ LinesOK /\ HandInv /\ WrittenInv /\ ChainInv /\ DownInv /\ Next
        => WrittenInv'
<1> SUFFICES ASSUME TypeOK, LinesOK, HandInv, WrittenInv, ChainInv, DownInv,
                    Next
             PROVE  WrittenInv'
    OBVIOUS
<1> USE DEF TypeOK, ProducerSide, queueVars, chainVars, writerVars, diskVars,
            callVars
<1>0. Len(file) \in Nat
  BY LenIsNat DEF LinesOK
<1>1. ASSUME NEW p \in Producers, Moves(p) PROVE WrittenInv'
  BY <1>1, MovesFrame DEF WrittenInv, Failed
<1>2. ASSUME NEW p \in Producers, AppendPut(p) PROVE WrittenInv'
  <2>1. /\ accepted' = Append(accepted, arg[p])
        /\ log = "open"
        /\ UNCHANGED <<log, wpc, error, taken, file, synced>>
    BY <1>2 DEF AppendPut, At
  <2>2. \A i \in 1..Len(accepted) : accepted'[i] = accepted[i]
    BY <2>1
  <2>3. ~Failed => Len(file) <= Len(accepted)
    BY <1>0, <2>1 DEF WrittenInv, HandInv
  <2>4. QED
    BY <1>0, <2>1, <2>2, <2>3 DEF WrittenInv, Failed
<1>3. ASSUME NEW p \in Producers, ClosePut(p) PROVE WrittenInv'
  BY <1>3 DEF ClosePut, At, WrittenInv, Failed
<1>4. CASE Get
  BY <1>4, <1>0 DEF Get, Goes, WrittenInv, Failed
<1>5. CASE GetSentinel
  <2>1. ~Failed => buffer = <<>>
    BY <1>5 DEF GetSentinel, Goes, ChainInv, DiskSound
  <2>2. ~Failed => file \o buffer = file
    BY <2>1, ConcatFacts DEF LinesOK
  <2>3. ~Failed => file' = file
    BY <2>2, <1>5 DEF GetSentinel
  <2>4. QED
    BY <1>5, <2>3 DEF GetSentinel, Goes, WrittenInv, Failed
<1>6. CASE Open \/ OpenFails \/ TaskDone \/ Encode \/ Advance
  BY <1>6 DEF Open, OpenFails, TaskDone, Encode, Advance, Goes, WrittenInv,
              Failed
<1>7. CASE Write
  <2>1. ~Failed => buffer = <<>>
    BY <1>7 DEF Write, Goes, ChainInv, DiskSound
  <2>2. ~Failed => /\ Len(file') = Len(file) + 1
                   /\ \A i \in 1..Len(file) : file'[i] = file[i]
                   /\ file'[Len(file) + 1] = Line
    BY <2>1, <1>7, WriteAdds
  <2>3. ~Failed => Len(file) + 1 = taken /\ Line.record = accepted[taken]
    BY <1>7 DEF Write, Goes, WrittenInv, HandInv, Busy, Line, Entry
  <2>4. ~Failed => \A i \in 1..Len(file') : file'[i].record = accepted[i]
    BY <1>0, <1>7, <2>2, <2>3 DEF WrittenInv, Write, Goes
  <2>5. Failed' <=> error
    BY <1>7 DEF Write, Goes, Failed
  <2>6. Failed <=> error
    BY <1>7 DEF Write, Goes, Failed
  <2>7. CASE ~error
    <3>1. /\ wpc' \in {"fsync", "advance"}
          /\ FsyncEach <=> wpc' = "fsync"
          /\ wpc = "write" /\ log = "open"
          /\ UNCHANGED <<log, taken, accepted, synced>>
      BY <1>7 DEF Write, Goes
    <3>2. FsyncEach => synced + 1 = Len(file')
      BY <2>2, <2>6, <2>7, <3>1 DEF WrittenInv
    <3>3. Len(file') = taken
      BY <2>2, <2>3, <2>6, <2>7
    <3>4. QED
      BY <2>4, <2>6, <2>7, <3>1, <3>2, <3>3 DEF WrittenInv
  <2>8. QED
    BY <2>5, <2>7 DEF WrittenInv
<1>8. CASE WriteFails \/ FsyncFails \/ RecordError
  BY <1>8 DEF WriteFails, FsyncFails, RecordError, Goes, WrittenInv, Failed
<1>9. CASE Fsync
  BY <1>9 DEF Fsync, Goes, WrittenInv, Failed
<1>10. CASE Kill
  BY <1>10 DEF Kill, WrittenInv
<1>11. CASE Reopen
  <2>1. log' = "open" => file = <<>> /\ Len(file) = 0
    BY <1>11 DEF Reopen
  <2>2. /\ wpc = "start" /\ taken = 0 /\ synced <= Len(file)
        /\ UNCHANGED <<wpc, taken, synced, file>>
    BY <1>11 DEF Reopen, DownInv
  <2>3. log' = "open" => synced = 0
    BY <2>1, <2>2
  <2>4. QED
    BY <2>1, <2>2, <2>3 DEF WrittenInv
<1>12. QED
  BY StepCases, <1>1, <1>2, <1>3, <1>4, <1>5, <1>6, <1>7, <1>8, <1>9, <1>10,
     <1>11 DEF Drain, DrainFails

-----------------------------------------------------------------------------
\* An unchanged or shortened chain is a chain.
LEMMA ChainPrefix ==
    ASSUME NEW f, NEW g, NEW key, Len(f) \in Nat, Len(g) \in Nat,
           Len(g) <= Len(f), \A i \in 1..Len(g) : g[i] = f[i],
           WellChained(f, key)
    PROVE  WellChained(g, key)
<1> SUFFICES ASSUME NEW i \in 1..Len(g)
             PROVE  g[i] = Entry(key, i - 1, PrevOf(g, i), g[i].record)
    BY DEF WellChained
<1>1. i \in 1..Len(f) /\ f[i] = Entry(key, i - 1, PrevOf(f, i), f[i].record)
  BY DEF WellChained
<1>2. PrevOf(g, i) = PrevOf(f, i)
  <2>1. i # 1 => i - 1 \in 1..Len(g)
    OBVIOUS
  <2>2. QED
    BY <2>1 DEF PrevOf
<1>3. QED
  BY <1>1, <1>2

\* A chain grows by the entry that numbers and links itself to its end.
LEMMA ChainGrows ==
    ASSUME NEW f, NEW g, NEW key, NEW r, IsSeq(f), Len(f) \in Nat,
           WellChained(f, key),
           Len(g) = Len(f) + 1, \A i \in 1..Len(f) : g[i] = f[i],
           g[Len(f) + 1] = Entry(key, Len(f), HeadOf(f), r)
    PROVE  WellChained(g, key)
<1> SUFFICES ASSUME NEW i \in 1..Len(g)
             PROVE  g[i] = Entry(key, i - 1, PrevOf(g, i), g[i].record)
    BY DEF WellChained
<1>1. CASE i \in 1..Len(f)
  <2>1. f[i] = Entry(key, i - 1, PrevOf(f, i), f[i].record)
    BY <1>1 DEF WellChained
  <2>2. PrevOf(g, i) = PrevOf(f, i)
    <3>1. i # 1 => i - 1 \in 1..Len(f)
      BY <1>1
    <3>2. QED
      BY <3>1 DEF PrevOf
  <2>3. QED
    BY <1>1, <2>1, <2>2
<1>2. CASE i = Len(f) + 1
  <2>1. PrevOf(g, i) = HeadOf(f)
    <3>1. CASE i = 1
      <4>1. Len(f) = 0
        BY <1>2, <3>1
      <4>2. f = <<>>
        BY <4>1 DEF IsSeq
      <4>3. QED
        BY <3>1, <4>2 DEF PrevOf, HeadOf
    <3>2. CASE i # 1
      <4>1. Len(f) \in 1..Len(f) /\ i - 1 = Len(f) /\ f # <<>>
        BY <1>2, <3>2
      <4>2. QED
        BY <3>2, <4>1 DEF PrevOf, HeadOf
    <3>3. QED
      BY <3>1, <3>2
  <2>2. g[i] = Entry(key, i - 1, HeadOf(f), r) /\ g[i].record = r
    BY <1>2 DEF Entry
  <2>3. QED
    BY <2>1, <2>2
<1>3. QED
  BY <1>1, <1>2

\* A writer that met an error stays failed until the process dies.
LEMMA FailedStays == TypeOK /\ log = "open" /\ Failed /\ Next /\ log' = "open" => Failed'
<1> SUFFICES ASSUME TypeOK, log = "open", Failed, Next, log' = "open"
             PROVE  Failed'
    OBVIOUS
<1> USE DEF Failed, ProducerSide, queueVars, chainVars, writerVars, diskVars,
            callVars
<1>1. ASSUME NEW p \in Producers, Moves(p) \/ AppendPut(p) \/ ClosePut(p)
      PROVE  Failed'
  BY <1>1, MovesFrame DEF AppendPut, ClosePut
<1>2. CASE Open \/ OpenFails \/ Get \/ GetSentinel \/ Encode \/ TaskDone
  BY <1>2 DEF Open, OpenFails, Get, GetSentinel, Encode, TaskDone, Goes
<1>3. CASE Write \/ WriteFails \/ Fsync \/ FsyncFails \/ Advance
  BY <1>3 DEF Write, WriteFails, Fsync, FsyncFails, Advance, Goes
<1>4. CASE RecordError
  BY <1>4 DEF RecordError
<1>5. CASE Kill \/ Reopen
  BY <1>5 DEF Kill, Reopen
<1>6. QED
  BY StepCases, <1>1, <1>2, <1>3, <1>4, <1>5 DEF Drain, DrainFails

LEMMA ChainStep ==
    TypeOK /\ LinesOK /\ ChainInv /\ DownInv /\ Next => ChainInv'
<1> SUFFICES ASSUME TypeOK, LinesOK, ChainInv, DownInv, Next, DiskSound'
             PROVE  ChainInv'
    BY DEF ChainInv
<1> USE DEF ProducerSide, queueVars, chainVars, writerVars, diskVars, callVars
<1>0. Len(file) \in Nat
  BY LenIsNat DEF LinesOK
<1>1. log = "open" /\ log' = "open" => DiskSound
  BY FailedStays DEF DiskSound
<1>2. ASSUME NEW p \in Producers, Moves(p) \/ AppendPut(p) \/ ClosePut(p)
      PROVE  ChainInv'
  <2>1. /\ UNCHANGED <<log, seq, head, wpc, item, buffer, file>>
        /\ log = "open"
    BY <1>2, MovesFrame DEF AppendPut, ClosePut, At
  <2>2. QED
    BY <1>1, <2>1 DEF ChainInv, Line
<1>3. ASSUME \/ Get \/ Open \/ OpenFails \/ TaskDone \/ Encode \/ Fsync
             \/ RecordError
      PROVE  ChainInv'
  <2>1. /\ UNCHANGED <<log, seq, head, buffer, file>>
        /\ log = "open"
    BY <1>3 DEF Get, Open, OpenFails, TaskDone, Encode, Fsync, RecordError,
                Goes
  <2>2. \/ wpc \notin {"fsync", "advance"} /\ wpc' \notin {"fsync", "advance"}
        \/ /\ wpc \in {"fsync", "advance"} /\ wpc' \in {"fsync", "advance"}
           /\ UNCHANGED item
    BY <1>3 DEF Get, Open, OpenFails, TaskDone, Encode, Fsync, RecordError,
                Goes
  <2>3. QED
    BY <1>1, <2>1, <2>2 DEF ChainInv, Line
<1>4. CASE GetSentinel
  <2>1. /\ UNCHANGED <<log, seq, head>> /\ log = "open" /\ buffer' = <<>>
        /\ wpc = "get" /\ wpc' = "exited"
    BY <1>4 DEF GetSentinel, Goes
  <2>2. buffer = <<>>
    BY <1>1, <2>1 DEF ChainInv
  <2>3. file' = file
    BY <1>4, <2>2, ConcatFacts DEF GetSentinel, LinesOK
  <2>4. QED
    BY <1>1, <2>1, <2>3 DEF ChainInv
<1>5. CASE Write
  <2>1. /\ UNCHANGED <<log, seq, head, item>> /\ log = "open"
        /\ buffer' = <<>>
        /\ wpc = "write" /\ wpc' \in {"fsync", "advance"}
    BY <1>5 DEF Write, Goes
  <2>2. /\ buffer = <<>> /\ WellChained(file, Key)
        /\ seq = Len(file) /\ head = HeadOf(file)
    BY <1>1, <2>1 DEF ChainInv
  <2>3. /\ IsSeq(file) /\ Len(file') = Len(file) + 1
        /\ \A i \in 1..Len(file) : file'[i] = file[i]
        /\ file'[Len(file) + 1] = Line
    BY <1>5, <2>2, WriteAdds
  <2>4. Line = Entry(Key, Len(file), HeadOf(file), item) /\ Line' = Line
    BY <2>1, <2>2 DEF Line
  <2>5. WellChained(file', Key)
    BY <1>0, <2>2, <2>3, <2>4, ChainGrows
  <2>6. QED
    BY <1>0, <2>1, <2>2, <2>3, <2>4, <2>5 DEF ChainInv
<1>6. CASE WriteFails \/ FsyncFails
  <2>1. ~DiskSound'
    BY <1>6 DEF WriteFails, FsyncFails, Goes, DiskSound, Failed
  <2>2. QED
    BY <2>1
<1>7. CASE Advance
  <2>1. /\ UNCHANGED <<log, item, buffer, file>> /\ log = "open"
        /\ wpc = "advance" /\ wpc' = "task_done"
        /\ seq' = seq + 1 /\ head' = Line.hash
    BY <1>7 DEF Advance, Goes
  <2>2. /\ buffer = <<>> /\ WellChained(file, Key)
        /\ Len(file) = seq + 1 /\ file[Len(file)] = Line
    BY <1>1, <2>1 DEF ChainInv
  <2>3. HeadOf(file) = Line.hash
    <3>1. file # <<>>
      BY <2>2 DEF TypeOK
    <3>2. QED
      BY <2>2, <3>1 DEF HeadOf
  <2>4. QED
    BY <2>1, <2>2, <2>3 DEF ChainInv
<1>8. CASE Kill
  <2>1. log = "open" /\ log' = "down" /\ buffer' = <<>>
    BY <1>8 DEF Kill
  <2>2. DiskSound
    BY <2>1 DEF DiskSound
  <2>3. WellChained(file, Key)
    BY <2>2 DEF ChainInv
  <2>4. WellChained(file', Key)
    BY <1>0, <1>8, <2>3, KillKeeps, LenIsNat, ChainPrefix
  <2>5. QED
    BY <2>1, <2>4 DEF ChainInv
<1>9. CASE Reopen
  <2>1. /\ UNCHANGED <<file, buffer, seq, head, wpc>>
        /\ log = "down" /\ buffer = <<>> /\ seq = 0 /\ head = GENESIS_HASH
        /\ wpc = "start"
    BY <1>9 DEF Reopen, DownInv
  <2>2. CASE file = <<>>
    <3>1. Len(file) = 0 /\ HeadOf(file) = GENESIS_HASH
      BY <2>2 DEF HeadOf
    <3>2. WellChained(file, Key)
      BY <3>1 DEF WellChained
    <3>3. QED
      BY <2>1, <3>1, <3>2 DEF ChainInv
  <2>3. CASE file # <<>>
    <3>1. log' = "refused"
      BY <1>9, <2>3 DEF Reopen
    <3>2. DiskSound
      BY <3>1 DEF DiskSound
    <3>3. QED
      BY <2>1, <3>1, <3>2 DEF ChainInv
  <2>4. QED
    BY <2>2, <2>3
<1>10. QED
  BY StepCases, <1>2, <1>3, <1>4, <1>5, <1>6, <1>7, <1>8, <1>9
     DEF Drain, DrainFails

-----------------------------------------------------------------------------
LEMMA TargetStep == TypeOK /\ TargetInv /\ DownInv /\ Next => TargetInv'
<1> SUFFICES ASSUME TypeOK, TargetInv, DownInv, Next PROVE TargetInv'
    OBVIOUS
<1> USE DEF TypeOK, TargetInv, ProducerSide, queueVars, chainVars, writerVars,
            diskVars, callVars
<1>1. ASSUME NEW p \in Producers, FlushCall(p) \/ CloseCall(p)
      PROVE  TargetInv'
  BY <1>1 DEF FlushCall, CloseCall
<1>2. ASSUME NEW p \in Producers, AppendPut(p) PROVE TargetInv'
  BY <1>2 DEF AppendPut
<1>3. ASSUME NEW p \in Producers,
             \/ AppendCall(p) \/ AppendCheckError(p) \/ FlushJoin(p)
             \/ CloseJoin(p) \/ FlushReturn(p) \/ CloseFlushed(p)
             \/ CloseMark(p) \/ ClosePut(p) \/ CloseReturn(p)
      PROVE  TargetInv'
  BY <1>3 DEF AppendCall, AppendCheckError, FlushJoin, CloseJoin, Joined,
              FlushReturn, CloseFlushed, FlushOutcome, CloseMark, ClosePut,
              CloseReturn
<1>4. ASSUME Drain \/ DrainFails PROVE TargetInv'
  BY <1>4 DEF Drain, DrainFails, Open, OpenFails, Get, GetSentinel, Encode,
              Write, WriteFails, Fsync, FsyncFails, Advance, RecordError,
              TaskDone
<1>5. CASE Kill
  BY <1>5 DEF Kill
<1>6. CASE Reopen
  BY <1>6 DEF Reopen, DownInv
<1>7. QED
  BY NextCases, <1>1, <1>2, <1>3, <1>4, <1>5, <1>6 DEF Drain, DrainFails

-----------------------------------------------------------------------------
\* What a life of the log only adds to.
LEMMA AcceptedGrows ==
    ASSUME TypeOK, Next, log' = log
    PROVE  /\ Len(accepted) <= Len(accepted')
           /\ \A i \in 1..Len(accepted) : accepted'[i] = accepted[i]
<1> USE DEF TypeOK, ProducerSide
<1>1. ASSUME NEW p \in Producers, AppendPut(p)
      PROVE  accepted' = Append(accepted, arg[p]) /\ arg[p] \in Records
  BY <1>1 DEF AppendPut, At
<1>2. ASSUME NEW p \in Producers, Moves(p) \/ ClosePut(p)
      PROVE  accepted' = accepted
  BY <1>2, MovesFrame DEF ClosePut
<1>3. ASSUME Drain \/ DrainFails \/ Kill \/ Reopen
      PROVE  accepted' = accepted
  BY <1>3 DEF Drain, DrainFails, Open, OpenFails, Get, GetSentinel, Encode,
              Write, WriteFails, Fsync, FsyncFails, Advance, RecordError,
              TaskDone, Kill, Reopen
<1>4. QED
  BY StepCases, <1>1, <1>2, <1>3

LEMMA SyncedGrows ==
    ASSUME TypeOK, LinesOK, DownInv, Next
    PROVE  synced <= synced' /\ (log' = log => synced' <= Len(file'))
<1> USE DEF TypeOK, ProducerSide, queueVars, chainVars, writerVars, diskVars,
            callVars
<1>1. CASE Fsync
  BY <1>1, LenIsNat DEF Fsync, DownInv, LinesOK
<1>2. ASSUME NEW p \in Producers, Moves(p) \/ AppendPut(p) \/ ClosePut(p)
      PROVE  synced' = synced
  BY <1>2, MovesFrame DEF AppendPut, ClosePut
<1>3. ASSUME Drain \/ DrainFails \/ Kill \/ Reopen, ~Fsync
      PROVE  synced' = synced
  BY <1>3 DEF Drain, DrainFails, Open, OpenFails, Get, GetSentinel, Encode,
              Write, WriteFails, FsyncFails, Advance, RecordError,
              TaskDone, Kill, Reopen
<1>4. log' = log => ~Kill
  BY DEF Kill
<1>5. IsSeq(file) /\ Len(file) \in Nat
  BY LenIsNat DEF LinesOK
<1>6. ASSUME synced' = synced, log' = log
      PROVE  synced' <= Len(file')
  <2>1. IsSeq(file') /\ Len(file) <= Len(file')
    BY <1>4, <1>6, FileGrows
  <2>2. Len(file') \in Nat
    BY <2>1, LenIsNat
  <2>3. QED
    BY <1>5, <1>6, <2>1, <2>2 DEF DownInv
<1>7. QED
  BY StepCases, <1>1, <1>2, <1>3, <1>6

LEMMA OnFileStays ==
    ASSUME TypeOK, TypeOK', LinesOK, DownInv, Next, log' = log,
           NEW n \in Nat, OnFile(n)
    PROVE  OnFile(n)'
<1>1. ~Kill
  BY DEF Kill
<1>2. /\ Len(file) \in Nat /\ Len(file') \in Nat
      /\ Len(file) <= Len(file')
      /\ \A i \in 1..Len(file) : file'[i] = file[i]
  BY <1>1, FileGrows, LenIsNat DEF LinesOK
<1>3. synced \in Nat /\ synced' \in Nat /\ accepted \in Seq(Records)
      /\ accepted' \in Seq(Records)
  BY DEF TypeOK
<1>4. /\ Len(accepted) <= Len(accepted') /\ synced <= synced'
      /\ \A i \in 1..Len(accepted) : accepted'[i] = accepted[i]
  BY AcceptedGrows, SyncedGrows
<1>5. /\ n <= Len(file) /\ n <= Len(accepted) /\ (FsyncEach => n <= synced)
      /\ \A i \in 1..n : file[i].record = accepted[i]
  BY DEF OnFile
<1>6. n <= Len(file') /\ n <= Len(accepted')
  BY <1>2, <1>3, <1>4, <1>5
<1>7. FsyncEach => n <= synced'
  BY <1>3, <1>4, <1>5
<1>8. \A i \in 1..n : file'[i].record = accepted'[i]
  BY <1>2, <1>3, <1>4, <1>5
<1>9. QED
  BY <1>6, <1>7, <1>8 DEF OnFile

\* What queue.join and a clear _error tell together: everything accepted so
\* far has been written.
LEMMA DrainedIsOnFile ==
    ASSUME TypeOK, LinesOK, CountInv, AllQueuedInv, WrittenInv,
           log = "open", unfinished = 0, ~error,
           NEW n \in Nat, n <= Len(accepted)
    PROVE  OnFile(n)
<1>1. wpc \notin Busy /\ Len(queue) = 0
  BY DEF TypeOK, CountInv
<1>2. queue = <<>>
  BY <1>1 DEF TypeOK
<1>3. Len(accepted) = taken
  <2>1. NoSentinel
    BY <1>1 DEF NoSentinel, SentinelFree
  <2>2. QED
    BY <1>1, <1>2, <2>1 DEF AllQueuedInv, TypeOK
<1>4. ~Failed
  BY <1>1 DEF Failed, Busy
<1>5. /\ Len(file) = taken
      /\ \A i \in 1..Len(file) : file[i].record = accepted[i]
      /\ FsyncEach => synced = Len(file)
  BY <1>1, <1>4 DEF WrittenInv, Busy
<1>6. QED
  BY <1>3, <1>5 DEF OnFile, TypeOK

LEMMA JoinedStep ==
    TypeOK /\ TypeOK' /\ LinesOK /\ CountInv /\ AllQueuedInv /\ WrittenInv
       /\ TargetInv /\ JoinedInv /\ DownInv /\ Next => JoinedInv'
<1> SUFFICES ASSUME TypeOK, TypeOK', LinesOK, CountInv, AllQueuedInv, WrittenInv,
                    TargetInv, JoinedInv, DownInv, Next,
                    NEW q \in Producers,
                    pc'[q] \in {"flush_error", "close_error"}, ~error'
             PROVE  OnFile(target[q])'
    BY DEF JoinedInv
<1> USE DEF ProducerSide, queueVars, chainVars, writerVars, diskVars, callVars
<1>0. target[q] \in Nat /\ target[q] <= Len(accepted) /\ pc \in [Producers -> ProducerPC]
  BY DEF TypeOK, TargetInv
<1>1. ASSUME log' = log, UNCHANGED <<pc, target>>, ~error
      PROVE  OnFile(target[q])'
  BY <1>0, <1>1, OnFileStays DEF JoinedInv
<1>2. ASSUME Drain \/ DrainFails PROVE OnFile(target[q])'
  <2>1. log' = log /\ UNCHANGED <<pc, target>>
    BY <1>2 DEF Drain, DrainFails, Open, OpenFails, Get, GetSentinel, Encode,
                Write, WriteFails, Fsync, FsyncFails, Advance, RecordError,
                TaskDone, Goes
  <2>2. ~error
    BY <1>2 DEF Drain, DrainFails, Open, OpenFails, Get, GetSentinel, Encode,
                Write, WriteFails, Fsync, FsyncFails, Advance, RecordError,
                TaskDone, Goes
  <2>3. QED
    BY <1>1, <2>1, <2>2
<1>3. ASSUME NEW p \in Producers, FlushJoin(p) \/ CloseJoin(p)
      PROVE  OnFile(target[q])'
  <2>1. /\ log' = log /\ log = "open" /\ unfinished = 0
        /\ UNCHANGED <<error, target>>
    BY <1>3 DEF FlushJoin, CloseJoin, Joined, At
  <2>2. OnFile(target[q])
    BY <1>0, <2>1, DrainedIsOnFile
  <2>3. QED
    BY <1>0, <2>1, <2>2, OnFileStays
<1>4. ASSUME NEW p \in Producers,
             \/ AppendCall(p) \/ AppendCheckError(p) \/ AppendPut(p)
             \/ FlushCall(p) \/ CloseCall(p) \/ FlushReturn(p)
             \/ CloseFlushed(p) \/ CloseMark(p) \/ ClosePut(p)
             \/ CloseReturn(p)
      PROVE  OnFile(target[q])'
  <2>1. log' = log /\ UNCHANGED error
    BY <1>4 DEF AppendCall, AppendCheckError, AppendPut, FlushCall, CloseCall,
                FlushReturn, CloseFlushed, FlushOutcome, CloseMark, ClosePut,
                CloseReturn
  <2>2. \E b \in {"idle", "append_error", "append_put", "flush_join",
                  "close_join", "close_mark", "close_put", "close_wait"} :
            pc' = [pc EXCEPT ![p] = b]
    BY <1>4 DEF AppendCall, AppendCheckError, AppendPut, FlushCall, CloseCall,
                FlushReturn, CloseFlushed, FlushOutcome, CloseMark, ClosePut,
                CloseReturn, At
  <2>3. q # p /\ pc[q] = pc'[q]
    BY <1>0, <2>2
  <2>4. target'[q] = target[q]
    BY <1>4, <2>3 DEF AppendCall, AppendCheckError, AppendPut, FlushCall,
                CloseCall, FlushReturn, CloseFlushed, FlushOutcome, CloseMark,
                ClosePut, CloseReturn, TypeOK
  <2>5. QED
    BY <1>0, <2>1, <2>3, <2>4, OnFileStays DEF JoinedInv
<1>5. CASE Kill
  BY <1>5 DEF Kill
<1>6. CASE Reopen
  BY <1>6 DEF Reopen, DownInv
<1>7. QED
  BY NextCases, <1>2, <1>3, <1>4, <1>5, <1>6 DEF Drain, DrainFails

LEMMA AckedStep ==
    TypeOK /\ TypeOK' /\ LinesOK /\ JoinedInv /\ AckedInv /\ DownInv /\ Next
        => AckedInv'
<1> SUFFICES ASSUME TypeOK, TypeOK', LinesOK, JoinedInv, AckedInv, DownInv,
                    Next, PowerLoss => FsyncEach
             PROVE  OnFile(acked)'
    BY DEF AckedInv
<1> USE DEF ProducerSide, callVars
<1>0. OnFile(acked) /\ acked \in Nat
  BY DEF AckedInv, TypeOK
<1>1. ASSUME NEW n \in Nat, OnFile(n), acked' = n, log' = log
      PROVE  OnFile(acked)'
  <2>1. OnFile(n)'
    BY <1>1, OnFileStays
  <2>2. QED
    BY <1>1, <2>1 DEF OnFile
<1>2. ASSUME NEW p \in Producers, FlushReturn(p) \/ CloseFlushed(p)
      PROVE  OnFile(acked)'
  <2>1. /\ log' = log
        /\ pc[p] \in {"flush_error", "close_error"}
    BY <1>2 DEF FlushReturn, CloseFlushed, FlushOutcome, At
  <2>2. CASE acked' = acked
    BY <1>0, <1>1, <2>1, <2>2
  <2>3. CASE acked' # acked
    <3>1. ~error /\ acked' = target[p]
      BY <1>2, <2>3 DEF FlushReturn, CloseFlushed, FlushOutcome
    <3>2. OnFile(target[p]) /\ target[p] \in Nat
      BY <2>1, <3>1 DEF JoinedInv, TypeOK
    <3>3. QED
      BY <1>1, <2>1, <3>1, <3>2
  <2>4. QED
    BY <2>2, <2>3
<1>3. ASSUME NEW p \in Producers,
             \/ AppendCall(p) \/ AppendCheckError(p) \/ AppendPut(p)
             \/ FlushCall(p) \/ CloseCall(p) \/ FlushJoin(p) \/ CloseJoin(p)
             \/ CloseMark(p) \/ ClosePut(p) \/ CloseReturn(p)
      PROVE  log' = log /\ acked' = acked
  BY <1>3 DEF AppendCall, AppendCheckError, AppendPut, FlushCall, CloseCall,
              FlushJoin, CloseJoin, Joined, CloseMark, ClosePut, CloseReturn
<1>4. ASSUME Drain \/ DrainFails PROVE log' = log /\ acked' = acked
  BY <1>4 DEF Drain, DrainFails, Open, OpenFails, Get, GetSentinel, Encode,
              Write, WriteFails, Fsync, FsyncFails, Advance, RecordError,
              TaskDone
<1>5. CASE Kill
  <2>1. acked' = acked /\ accepted' = accepted /\ synced' = synced
    BY <1>5 DEF Kill
  <2>2. /\ Len(file') <= Len(file) /\ synced <= Len(file')
        /\ \A i \in 1..Len(file') : file'[i] = file[i]
        /\ ~PowerLoss => Len(file') = Len(file)
        /\ Len(file') \in Nat /\ Len(file) \in Nat
    BY <1>5, KillKeeps, LenIsNat DEF LinesOK
  <2>3. acked <= Len(file')
    <3>1. CASE PowerLoss
      <4>1. acked <= synced /\ synced \in Nat
        BY <1>0, <3>1 DEF OnFile, TypeOK
      <4>2. QED
        BY <1>0, <2>2, <4>1
    <3>2. CASE ~PowerLoss
      BY <1>0, <2>2, <3>2 DEF OnFile
    <3>3. QED
      BY <3>1, <3>2
  <2>4. QED
    BY <1>0, <2>1, <2>2, <2>3 DEF OnFile
<1>6. CASE Reopen
  <2>1. acked' = acked /\ file' = file /\ synced' = synced
    BY <1>6 DEF Reopen, diskVars
  <2>2. CASE file = <<>>
    <3>1. Len(file) = 0 /\ accepted' = <<>>
      BY <1>6, <2>2 DEF Reopen
    <3>2. acked = 0
      BY <1>0, <3>1 DEF OnFile
    <3>3. QED
      BY <2>1, <3>1, <3>2 DEF OnFile, TypeOK
  <2>3. CASE file # <<>>
    <3>1. accepted' = accepted
      BY <1>6, <2>3 DEF Reopen
    <3>2. QED
      BY <1>0, <2>1, <3>1 DEF OnFile
  <2>4. QED
    BY <2>2, <2>3
<1>7. QED
  BY NextCases, <1>0, <1>1, <1>2, <1>3, <1>4, <1>5, <1>6 DEF Drain, DrainFails

LEMMA DownStep == TypeOK /\ LinesOK /\ DownInv /\ Next => DownInv'
<1> SUFFICES ASSUME TypeOK, LinesOK, DownInv, Next PROVE DownInv'
    OBVIOUS
<1>1. ASSUME log = "open", log' = "open" PROVE DownInv'
  BY <1>1, SyncedGrows DEF DownInv
<1>2. CASE Kill
  <2>1. synced' <= Len(file')
    BY <1>2, KillKeeps DEF Kill
  <2>2. /\ queue' = <<>> /\ wpc' = "start" /\ taken' = 0 /\ ~error' /\ ~closed'
        /\ unfinished' = 0 /\ buffer' = <<>>
        /\ seq' = 0 /\ head' = GENESIS_HASH
    BY <1>2 DEF Kill
  <2>3. \A p \in Producers : pc'[p] = "idle" /\ target'[p] = 0
    BY <1>2 DEF Kill
  <2>4. QED
    BY <2>1, <2>2, <2>3 DEF DownInv
<1>3. CASE Reopen
  BY <1>3 DEF Reopen, DownInv, queueVars, chainVars, writerVars, diskVars,
              callVars
<1>4. ASSUME NEW p \in Producers, Moves(p) \/ AppendPut(p) \/ ClosePut(p)
      PROVE  log = "open" /\ log' = "open"
  BY <1>4, MovesFrame DEF AppendPut, ClosePut, At
<1>5. ASSUME Drain \/ DrainFails PROVE log = "open" /\ log' = "open"
  BY <1>5 DEF Drain, DrainFails, Open, OpenFails, Get, GetSentinel, Encode,
              Write, WriteFails, Fsync, FsyncFails, Advance, RecordError,
              TaskDone, Goes, ProducerSide
<1>6. QED
  BY StepCases, <1>1, <1>2, <1>3, <1>4, <1>5

-----------------------------------------------------------------------------
\* A stuttering step changes nothing the invariant speaks of.
LEMMA Stutter == IInv /\ UNCHANGED vars => IInv'
BY DEF IInv, vars, TypeOK, LinesOK, HandInv, CountInv, FifoInv, SentinelFree,
       AllQueuedInv, NoSentinel, SentinelLast, WrittenInv, Failed, ChainInv,
       DiskSound, Line, TargetInv, JoinedInv, OnFile, AckedInv, DownInv,
       WellChained, Entry, PrevOf, HeadOf, Busy

\* Every reachable state of the log satisfies the inductive invariant.
THEOREM Invariance == Spec => []IInv
<1>1. IInv /\ [Next]_vars => IInv'
  <2> SUFFICES ASSUME IInv, Next PROVE IInv'
      BY Stutter
  <2>1. TypeOK' /\ LinesOK'
    BY TypeStep, LinesStep DEF IInv
  <2>2. HandInv' /\ CountInv' /\ FifoInv' /\ AllQueuedInv'
    BY HandStep, CountStep, FifoStep, AllQueuedStep DEF IInv
  <2>3. WrittenInv' /\ ChainInv'
    BY WrittenStep, ChainStep DEF IInv
  <2>4. TargetInv' /\ JoinedInv' /\ AckedInv' /\ DownInv'
    BY <2>1, TargetStep, JoinedStep, AckedStep, DownStep DEF IInv
  <2>5. QED
    BY <2>1, <2>2, <2>3, <2>4 DEF IInv
<1>2. QED
  BY InitIInv, <1>1, PTL DEF Spec

\* The variables keep their types.
THEOREM TypeCorrect == Spec => []TypeOK
<1>1. IInv => TypeOK
  BY DEF IInv
<1>2. QED
  BY Invariance, <1>1, PTL

\* A flush that returned normally covered its records: each is in the file, in
\* its place, and a kill does not take it away, nor a power loss when
\* fsync_each is set.  For any number of threads, any faults, any records.
THEOREM FlushDurability == Spec => []FlushedIsDurable
<1>1. IInv => FlushedIsDurable
  BY DEF IInv, AckedInv, OnFile, FlushedIsDurable
<1>2. QED
  BY Invariance, <1>1, PTL

\* The file verifies as long as no I/O call of the writer has failed, and with
\* no I/O fault at all through kills, errors and restarts.
THEOREM ChainIntegrity == Spec => []ChainIntact
<1>1. IInv => ChainIntact
  BY DEF IInv, ChainInv, DiskSound, ChainIntact
<1>2. QED
  BY Invariance, <1>1, PTL

\* After a flush that raised nothing the file holds what was accepted and no
\* more, and the head property names its last line: the value generate returns
\* as audit_head is the one verify_log needs.
THEOREM HeadExact == Spec => []HeadExactWhenDrained
<1>1. IInv => HeadExactWhenDrained
  <2> SUFFICES ASSUME IInv, log = "open", unfinished = 0, ~error
               PROVE  /\ head = HeadOf(file) /\ seq = Len(file)
                      /\ RecordsOf(file) = accepted
      BY DEF HeadExactWhenDrained
  <2>1. wpc \notin Busy
    BY DEF IInv, CountInv, TypeOK
  <2>2. DiskSound
    BY <2>1 DEF DiskSound, Failed, Busy
  <2>3. head = HeadOf(file) /\ seq = Len(file)
    BY <2>1, <2>2 DEF IInv, ChainInv, Busy
  <2>4. accepted \in Seq(Records) /\ Len(accepted) \in Nat
    BY DEF IInv, TypeOK
  <2>5. OnFile(Len(accepted))
    BY <2>4, DrainedIsOnFile DEF IInv
  <2>6. Len(file) = Len(accepted)
    <3>1. Len(queue) = 0 /\ queue = <<>>
      BY <2>1 DEF IInv, CountInv, TypeOK
    <3>2. NoSentinel /\ ~Failed
      BY <2>1, <3>1 DEF NoSentinel, SentinelFree, Failed, Busy
    <3>3. Len(accepted) = taken
      BY <3>1, <3>2 DEF IInv, AllQueuedInv, TypeOK
    <3>4. QED
      BY <2>1, <3>2, <3>3 DEF IInv, WrittenInv, Busy
  <2>7. RecordsOf(file) = [i \in 1..Len(accepted) |-> accepted[i]]
    BY <2>5, <2>6 DEF OnFile, RecordsOf
  <2>8. QED
    BY <2>3, <2>4, <2>7
<1>2. QED
  BY Invariance, <1>1, PTL

\* No step rewrites a line of the file: reopening a dead log never truncates
\* it, and only a power loss can take unsynced lines from its end.
THEOREM NeverRewritten == Spec => AppendOnly
<1>1. IInv /\ [Next]_vars =>
        [(PowerLoss => log' # "down") =>
            /\ Len(file) <= Len(file')
            /\ \A i \in 1..Len(file) : file'[i] = file[i]]_vars
  <2> SUFFICES ASSUME IInv, Next, PowerLoss => log' # "down"
               PROVE  /\ Len(file) <= Len(file')
                      /\ \A i \in 1..Len(file) : file'[i] = file[i]
      OBVIOUS
  <2>1. CASE ~Kill
    BY <2>1, FileGrows DEF IInv
  <2>2. CASE Kill
    <3>1. log' # log /\ log' = "down"
      BY <2>2 DEF Kill
    <3>2. Len(file') = Len(file) /\ \A i \in 1..Len(file') : file'[i] = file[i]
      BY <2>2, <3>1, KillKeeps DEF IInv
    <3>3. Len(file) \in Nat
      BY LenIsNat DEF IInv, LinesOK
    <3>4. QED
      BY <3>2, <3>3
  <2>3. QED
    BY <2>1, <2>2
<1>2. QED
  BY Invariance, <1>1, PTL DEF Spec, AppendOnly

-----------------------------------------------------------------------------
(***************************************************************************)
(* What the callers rely on: nothing is lost, repeated or reordered on the *)
(* way to the file, a head that is handed out is the head of a line on     *)
(* file, close leaves nothing behind, and the log implements AuditClient.  *)
(* Each part below adds one invariant to IInv.                             *)
(***************************************************************************)

\* The positions of the queue that hold records, and how many there are.
Places(items) == {j \in Nat : items[j] # SENTINEL}

LEMMA RecordsInIsCount ==
    ASSUME NEW items, NEW n \in Nat
    PROVE  RecordsIn(items, n) = CountUpTo(Places(items), n)
<1>1. {j \in 1..n : items[j] # SENTINEL} = Places(items) \cap (1..n)
  BY DEF Places
<1>2. QED
  BY <1>1 DEF RecordsIn, CountUpTo

\* The count is 0 at first and grows by one with every record.
LEMMA RecordsInFacts ==
    ASSUME NEW items, NEW n \in Nat
    PROVE  /\ RecordsIn(items, n) \in Nat
           /\ RecordsIn(items, 0) = 0
           /\ RecordsIn(items, n + 1) = RecordsIn(items, n)
                  + (IF items[n + 1] # SENTINEL THEN 1 ELSE 0)
           /\ \A m \in 0..n : RecordsIn(items, m) <= RecordsIn(items, n)
<1>1. \A k \in Nat : RecordsIn(items, k) = CountUpTo(Places(items), k)
  BY RecordsInIsCount
<1>2. CountUpTo(Places(items), n) \in Nat /\ CountUpTo(Places(items), 0) = 0
  BY CountIsNat
<1>3. CountUpTo(Places(items), n + 1) = CountUpTo(Places(items), n)
          + (IF n + 1 \in Places(items) THEN 1 ELSE 0)
  BY CountNext
<1>4. n + 1 \in Places(items) <=> items[n + 1] # SENTINEL
  BY DEF Places
<1>5. \A m \in 0..n : CountUpTo(Places(items), m) <= CountUpTo(Places(items), n)
  BY CountGrows
<1>6. n + 1 \in Nat /\ \A m \in 0..n : m \in Nat
  OBVIOUS
<1>7. QED
  BY <1>1, <1>2, <1>3, <1>4, <1>5, <1>6

\* It looks at nothing behind position n.
LEMMA RecordsInSame ==
    ASSUME NEW items, NEW others, NEW n \in Nat,
           \A j \in 1..n : items[j] = others[j]
    PROVE  RecordsIn(items, n) = RecordsIn(others, n)
<1>1. \A j \in 1..n : j \in Places(items) <=> j \in Places(others)
  BY DEF Places
<1>2. CountUpTo(Places(items), n) = CountUpTo(Places(others), n)
  BY <1>1, CountSame
<1>3. QED
  BY <1>2, RecordsInIsCount

\* A record taken from the head of the queue is one less everywhere.
LEMMA RecordsInTail ==
    ASSUME NEW items, NEW others, NEW n \in Nat,
           \A j \in 1..n : others[j] = items[j + 1]
    PROVE  RecordsIn(items, n + 1) = RecordsIn(others, n)
                  + (IF items[1] # SENTINEL THEN 1 ELSE 0)
<1>1. \A j \in 1..n : j \in Places(others) <=> j + 1 \in Places(items)
  BY DEF Places
<1>2. CountUpTo(Places(items), n + 1) = CountUpTo(Places(others), n)
          + (IF 1 \in Places(items) THEN 1 ELSE 0)
  BY <1>1, CountShift
<1>3. 1 \in Places(items) <=> items[1] # SENTINEL
  BY DEF Places
<1>4. QED
  BY <1>2, <1>3, RecordsInIsCount

-----------------------------------------------------------------------------
\* What append accepted and the writer has not taken is in the queue, in order,
\* wherever the sentinel of a close stands among it.
QueueInv ==
    log = "open" =>
        /\ Len(accepted) = taken + RecordsIn(queue, Len(queue))
        /\ \A i \in 1..Len(queue) : queue[i] # SENTINEL =>
              queue[i] = accepted[taken + RecordsIn(queue, i)]

LEMMA InitQueueInv == Init => QueueInv
<1>1. Init => Len(accepted) = 0 /\ Len(queue) = 0 /\ taken = 0
  BY DEF Init
<1>2. RecordsIn(queue, 0) = 0
  BY RecordsInFacts
<1>3. QED
  BY <1>1, <1>2 DEF QueueInv

LEMMA QueueStep == TypeOK /\ QueueInv /\ DownInv /\ Next => QueueInv'
<1> SUFFICES ASSUME TypeOK, QueueInv, DownInv, Next PROVE QueueInv'
    OBVIOUS
<1> USE DEF ProducerSide, queueVars, chainVars, writerVars, diskVars, callVars
<1>0. /\ Len(queue) \in Nat /\ Len(accepted) \in Nat /\ taken \in Nat
      /\ queue \in Seq(Records \cup {SENTINEL}) /\ accepted \in Seq(Records)
      /\ RecordsIn(queue, Len(queue)) \in Nat /\ RecordsIn(queue, 0) = 0
  BY RecordsInFacts DEF TypeOK
<1>1. ASSUME UNCHANGED <<log, queue, accepted, taken>> PROVE QueueInv'
  BY <1>1 DEF QueueInv
<1>2. ASSUME NEW p \in Producers, AppendPut(p) PROVE QueueInv'
  <2> DEFINE n == Len(queue)
  <2>1. /\ queue' = Append(queue, arg[p]) /\ arg[p] \in Records
        /\ accepted' = Append(accepted, arg[p])
        /\ taken' = taken /\ log = "open" /\ log' = log
    BY <1>2 DEF AppendPut, At, put, TypeOK
  <2>2. /\ Len(queue') = n + 1 /\ Len(accepted') = Len(accepted) + 1
        /\ \A j \in 1..n : queue'[j] = queue[j]
        /\ \A j \in 1..Len(accepted) : accepted'[j] = accepted[j]
        /\ queue'[n + 1] = arg[p] /\ accepted'[Len(accepted) + 1] = arg[p]
        /\ arg[p] # SENTINEL
    BY <1>0, <2>1
  <2>3. \A i \in 0..n : RecordsIn(queue', i) = RecordsIn(queue, i)
    <3>1. SUFFICES ASSUME NEW i \in 0..n
                   PROVE  RecordsIn(queue', i) = RecordsIn(queue, i)
      OBVIOUS
    <3>2. i \in Nat /\ \A j \in 1..i : queue'[j] = queue[j]
      BY <1>0, <2>2
    <3>3. QED
      BY <3>2, RecordsInSame
  <2>4. RecordsIn(queue', n + 1) = RecordsIn(queue, n) + 1
    <3>1. RecordsIn(queue', n + 1) = RecordsIn(queue', n) + 1
      BY <1>0, <2>2, RecordsInFacts
    <3>2. QED
      BY <1>0, <2>3, <3>1
  <2>5. Len(accepted) = taken + RecordsIn(queue, n)
    BY <2>1 DEF QueueInv
  <2>6. ASSUME NEW i \in 1..Len(queue'), queue'[i] # SENTINEL
        PROVE  queue'[i] = accepted'[taken + RecordsIn(queue', i)]
    <3>1. CASE i = n + 1
      BY <1>0, <2>2, <2>4, <2>5, <3>1
    <3>2. CASE i # n + 1
      <4>1. i \in 1..n /\ i \in 0..n /\ i - 1 \in Nat /\ (i - 1) + 1 = i
        BY <1>0, <2>2, <3>2
      <4>2. queue[i] # SENTINEL /\ queue'[i] = queue[i]
        BY <2>2, <2>6, <4>1
      <4>3. queue[i] = accepted[taken + RecordsIn(queue, i)]
        BY <2>1, <4>1, <4>2 DEF QueueInv
      <4>4. RecordsIn(queue, i) \in 1..RecordsIn(queue, n)
        <5>1. RecordsIn(queue, i) = RecordsIn(queue, i - 1) + 1
          BY <4>1, <4>2, RecordsInFacts
        <5>2. RecordsIn(queue, i - 1) \in Nat
          BY <4>1, RecordsInFacts
        <5>3. RecordsIn(queue, i) <= RecordsIn(queue, n)
          BY <1>0, <4>1, RecordsInFacts
        <5>4. QED
          BY <1>0, <5>1, <5>2, <5>3
      <4>5. taken + RecordsIn(queue, i) \in 1..Len(accepted)
        BY <1>0, <2>5, <4>4
      <4>6. accepted'[taken + RecordsIn(queue, i)] =
                accepted[taken + RecordsIn(queue, i)]
        BY <2>2, <4>5
      <4>7. QED
        BY <2>3, <4>1, <4>2, <4>3, <4>6
    <3>3. QED
      BY <3>1, <3>2
  <2>7. Len(accepted') = taken' + RecordsIn(queue', Len(queue'))
    BY <1>0, <2>1, <2>2, <2>4, <2>5
  <2>8. QED
    BY <2>1, <2>6, <2>7 DEF QueueInv
<1>3. ASSUME NEW p \in Producers, ClosePut(p) PROVE QueueInv'
  <2> DEFINE n == Len(queue)
  <2>1. /\ queue' = Append(queue, SENTINEL) /\ accepted' = accepted
        /\ taken' = taken /\ log = "open" /\ log' = log
    BY <1>3 DEF ClosePut, At, put
  <2>2. /\ Len(queue') = n + 1
        /\ \A j \in 1..n : queue'[j] = queue[j]
        /\ queue'[n + 1] = SENTINEL
    BY <1>0, <2>1
  <2>3. \A i \in 0..n : RecordsIn(queue', i) = RecordsIn(queue, i)
    <3>1. SUFFICES ASSUME NEW i \in 0..n
                   PROVE  RecordsIn(queue', i) = RecordsIn(queue, i)
      OBVIOUS
    <3>2. i \in Nat /\ \A j \in 1..i : queue'[j] = queue[j]
      BY <1>0, <2>2
    <3>3. QED
      BY <3>2, RecordsInSame
  <2>4. RecordsIn(queue', n + 1) = RecordsIn(queue, n)
    <3>1. RecordsIn(queue', n + 1) = RecordsIn(queue', n) + 0
      BY <1>0, <2>2, RecordsInFacts
    <3>2. QED
      BY <1>0, <2>3, <3>1
  <2>5. ASSUME NEW i \in 1..Len(queue'), queue'[i] # SENTINEL
        PROVE  queue'[i] = accepted'[taken + RecordsIn(queue', i)]
    <3>1. i \in 1..n /\ i \in 0..n
      BY <1>0, <2>2, <2>5
    <3>2. QED
      BY <2>1, <2>2, <2>3, <2>5, <3>1 DEF QueueInv
  <2>6. QED
    BY <2>1, <2>2, <2>4, <2>5 DEF QueueInv
<1>4. ASSUME NEW d \in {0, 1}, log = "open", log' = log, queue # <<>>,
             d = IF queue[1] # SENTINEL THEN 1 ELSE 0,
             queue' = Tail(queue), accepted' = accepted, taken' = taken + d
      PROVE  QueueInv'
  <2> DEFINE n == Len(queue')
  <2>1. /\ n \in Nat /\ Len(queue) = n + 1
        /\ \A j \in 1..n : queue'[j] = queue[j + 1]
    BY <1>0, <1>4
  <2>2. \A i \in 0..n : RecordsIn(queue, i + 1) = RecordsIn(queue', i) + d
    <3>1. SUFFICES ASSUME NEW i \in 0..n
                   PROVE  RecordsIn(queue, i + 1) = RecordsIn(queue', i) + d
      OBVIOUS
    <3>2. i \in Nat /\ \A j \in 1..i : queue'[j] = queue[j + 1]
      BY <2>1
    <3>3. RecordsIn(queue, i + 1) = RecordsIn(queue', i)
                  + (IF queue[1] # SENTINEL THEN 1 ELSE 0)
      BY <3>2, RecordsInTail
    <3>4. QED
      BY <1>4, <3>3
  <2>3. \A i \in 0..n : RecordsIn(queue', i) \in Nat
    BY <2>1, RecordsInFacts
  <2>4. Len(accepted) = taken' + RecordsIn(queue', n)
    <3>1. Len(accepted) = taken + RecordsIn(queue, n + 1)
      BY <1>4, <2>1 DEF QueueInv
    <3>2. QED
      BY <1>0, <1>4, <2>1, <2>2, <2>3, <3>1
  <2>5. ASSUME NEW i \in 1..n, queue'[i] # SENTINEL
        PROVE  queue'[i] = accepted[taken' + RecordsIn(queue', i)]
    <3>1. i + 1 \in 1..Len(queue) /\ queue'[i] = queue[i + 1]
      BY <2>1
    <3>2. queue[i + 1] = accepted[taken + RecordsIn(queue, i + 1)]
      BY <1>4, <2>5, <3>1 DEF QueueInv
    <3>3. taken + RecordsIn(queue, i + 1) = taken' + RecordsIn(queue', i)
      BY <1>0, <1>4, <2>1, <2>2, <2>3
    <3>4. QED
      BY <3>1, <3>2, <3>3
  <2>6. QED
    BY <1>4, <2>4, <2>5 DEF QueueInv
<1>5. CASE Get
  BY <1>0, <1>4, <1>5 DEF Get, Goes
<1>6. CASE GetSentinel
  BY <1>0, <1>4, <1>6 DEF GetSentinel, Goes
<1>7. ASSUME NEW p \in Producers, Moves(p) PROVE QueueInv'
  BY <1>1, <1>7, MovesFrame
<1>8. ASSUME \/ Open \/ OpenFails \/ Encode \/ Write \/ WriteFails \/ Fsync
             \/ FsyncFails \/ Advance \/ RecordError \/ TaskDone
      PROVE  QueueInv'
  BY <1>1, <1>8 DEF Open, OpenFails, Encode, Write, WriteFails, Fsync,
                    FsyncFails, Advance, RecordError, TaskDone
<1>9. CASE Kill
  BY <1>9 DEF Kill, QueueInv
<1>10. CASE Reopen
  <2>1. log' = "open" => accepted' = <<>> /\ queue' = <<>> /\ taken' = 0
    BY <1>10 DEF Reopen, DownInv
  <2>2. RecordsIn(queue', 0) = 0
    BY RecordsInFacts
  <2>3. QED
    BY <2>1, <2>2 DEF QueueInv
<1>11. QED
  BY StepCases, <1>2, <1>3, <1>5, <1>6, <1>7, <1>8, <1>9, <1>10
     DEF Drain, DrainFails

\* Every reachable state of the log satisfies it.
LEMMA QueueInvariance == Spec => []QueueInv
<1>1. IInv /\ QueueInv /\ [Next]_vars => QueueInv'
  <2>1. QueueInv /\ UNCHANGED vars => QueueInv'
    BY DEF QueueInv, vars
  <2>2. QED
    BY <2>1, QueueStep DEF IInv
<1>2. QED
  BY Invariance, InitQueueInv, <1>1, PTL DEF Spec

\* For any number of threads, with every fault and kill: as long as the writer
\* has met no error, the file, the record in its hand and the records of the
\* queue are, in order, what append accepted.
THEOREM NoRecordLost == Spec => []NothingLost
<1>1. IInv /\ QueueInv => NothingLost
  <2> SUFFICES ASSUME IInv, QueueInv, log = "open", ~Failed
               PROVE  LET handed == RecordsOf(file) \o InHand
                      IN  /\ Len(accepted) =
                                Len(handed) + RecordsIn(queue, Len(queue))
                          /\ \A i \in 1..Len(handed) : accepted[i] = handed[i]
                          /\ \A i \in 1..Len(queue) : queue[i] # SENTINEL =>
                                queue[i] =
                                  accepted[Len(handed) + RecordsIn(queue, i)]
      BY DEF NothingLost
  <2> DEFINE handed == RecordsOf(file) \o InHand
  <2>1. /\ Len(file) \in Nat /\ taken \in Nat /\ Len(accepted) \in Nat
        /\ wpc \in {"encode", "write"} =>
              Len(file) + 1 = taken /\ item = accepted[taken]
        /\ wpc \notin {"encode", "write"} => Len(file) = taken
        /\ \A i \in 1..Len(file) : file[i].record = accepted[i]
    BY LenIsNat DEF IInv, TypeOK, LinesOK, HandInv, WrittenInv, Busy
  <2>2. /\ IsSeq(RecordsOf(file)) /\ Len(RecordsOf(file)) = Len(file)
        /\ \A i \in 1..Len(file) : RecordsOf(file)[i] = accepted[i]
    <3>1. RecordsOf(file) = [i \in 1..Len(file) |-> accepted[i]]
      BY <2>1 DEF RecordsOf
    <3>2. \A i \in 1..Len(file) : accepted[i] \in Records
      BY <2>1 DEF IInv, TypeOK, HandInv
    <3>3. RecordsOf(file) \in Seq(Records) /\ Len(RecordsOf(file)) = Len(file)
      BY <2>1, <3>1, <3>2
    <3>4. QED
      BY <3>1, <3>3 DEF IsSeq
  <2>3. Len(handed) = taken /\ \A i \in 1..Len(handed) : accepted[i] = handed[i]
    <3>1. CASE wpc \in {"encode", "write"}
      <4>1. handed = Append(RecordsOf(file), item)
        <5>1. PICK S : RecordsOf(file) \in Seq(S)
          BY <2>2 DEF IsSeq
        <5>2. PICK T : T = S \cup {item}
          OBVIOUS
        <5>3. RecordsOf(file) \in Seq(T) /\ item \in T
          BY <5>1, <5>2
        <5>4. QED
          BY <3>1, <5>3 DEF InHand
      <4>2. /\ Len(handed) = Len(file) + 1 /\ handed[Len(file) + 1] = item
            /\ \A i \in 1..Len(file) : handed[i] = accepted[i]
        BY <2>2, <4>1, AppendFacts
      <4>3. QED
        BY <2>1, <3>1, <4>2
    <3>2. CASE wpc \notin {"encode", "write"}
      <4>1. handed = RecordsOf(file)
        BY <2>2, <3>2, EmptyIsSeq, ConcatFacts DEF InHand
      <4>2. QED
        BY <2>1, <2>2, <3>2, <4>1
    <3>3. QED
      BY <3>1, <3>2
  <2> HIDE DEF handed
  <2>4. QED
    BY <2>3 DEF QueueInv, handed
<1>2. QED
  BY Invariance, QueueInvariance, <1>1, PTL

-----------------------------------------------------------------------------
\* The head is that of a line on file; the writer's next head is that of the
\* line it has just written, whatever I/O failed before.
HeadInv ==
    log = "open" =>
        /\ head = GENESIS_HASH \/ \E i \in 1..Len(file) : file[i].hash = head
        /\ wpc \in {"fsync", "advance"} =>
              Len(file) >= 1 /\ file[Len(file)] = Line

LEMMA HeadStep == IInv /\ HeadInv /\ Next => HeadInv'
<1> SUFFICES ASSUME IInv, HeadInv, Next PROVE HeadInv'
    OBVIOUS
<1> USE DEF ProducerSide, queueVars, chainVars, writerVars, diskVars, callVars
<1>0. LinesOK /\ TypeOK /\ DownInv /\ Len(file) \in Nat
  BY LenIsNat DEF IInv, LinesOK
<1>1. ASSUME ~Kill, log' = log, head' = head
      PROVE  log' = "open" =>
                head' = GENESIS_HASH \/ \E i \in 1..Len(file') : file'[i].hash = head'
  <2>1. /\ Len(file) <= Len(file') /\ Len(file') \in Nat
        /\ \A i \in 1..Len(file) : file'[i] = file[i]
    BY <1>0, <1>1, FileGrows, LenIsNat
  <2>2. ASSUME log = "open", head # GENESIS_HASH
        PROVE  \E i \in 1..Len(file') : file'[i].hash = head'
    <3>1. PICK i \in 1..Len(file) : file[i].hash = head
      BY <2>2 DEF HeadInv
    <3>2. i \in 1..Len(file') /\ file'[i].hash = head'
      BY <1>0, <1>1, <2>1, <3>1
    <3>3. QED
      BY <3>2
  <2>3. QED
    BY <1>1, <2>2
<1>2. ASSUME ~Kill, log' = log, head' = head, wpc' \notin {"fsync", "advance"}
      PROVE  HeadInv'
  BY <1>1, <1>2 DEF HeadInv
<1>3. ASSUME ~Kill, UNCHANGED <<log, head, seq, item, file, wpc>> PROVE HeadInv'
  BY <1>3 DEF HeadInv, Line
<1>4. ASSUME NEW p \in Producers, Moves(p) \/ AppendPut(p) \/ ClosePut(p)
      PROVE  HeadInv'
  BY <1>3, <1>4, MovesFrame DEF AppendPut, ClosePut, At, Kill
<1>5. ASSUME \/ Open \/ OpenFails \/ Get \/ GetSentinel \/ WriteFails
             \/ FsyncFails \/ RecordError \/ TaskDone
      PROVE  HeadInv'
  BY <1>2, <1>5 DEF Open, OpenFails, Get, GetSentinel, WriteFails, FsyncFails,
                    RecordError, TaskDone, Goes, Kill
<1>6. CASE Encode
  BY <1>2, <1>6 DEF Encode, Goes, Kill
<1>7. CASE Write
  <2>1. ~Kill /\ UNCHANGED <<log, head, seq, item>>
    BY <1>7 DEF Write, Kill, Goes
  <2>2. /\ IsSeq(file \o buffer) /\ Len(file \o buffer) \in Nat
        /\ file' = Append(file \o buffer, Line)
    BY <1>0, <1>7, ConcatFacts, LenIsNat DEF Write, LinesOK
  <2>3. Len(file') >= 1 /\ file'[Len(file')] = Line
    BY <2>2, AppendFacts
  <2>4. Line' = Line
    BY <2>1 DEF Line
  <2>5. QED
    BY <1>1, <2>1, <2>3, <2>4 DEF HeadInv
<1>8. CASE Fsync
  <2>1. ~Kill /\ UNCHANGED <<log, head, seq, item, file>> /\ wpc = "fsync"
    BY <1>8 DEF Fsync, Kill, Goes
  <2>2. Line' = Line
    BY <2>1 DEF Line
  <2>3. QED
    BY <2>1, <2>2 DEF HeadInv
<1>9. CASE Advance
  <2>1. /\ UNCHANGED <<log, file>> /\ log = "open"
        /\ wpc = "advance" /\ wpc' = "task_done" /\ head' = Line.hash
    BY <1>9 DEF Advance, Goes
  <2>2. Len(file) \in 1..Len(file) /\ file[Len(file)].hash = head'
    BY <1>0, <2>1 DEF HeadInv
  <2>3. QED
    BY <2>1, <2>2 DEF HeadInv
<1>10. CASE Kill
  BY <1>10 DEF Kill, HeadInv
<1>11. CASE Reopen
  BY <1>11 DEF Reopen, HeadInv, DownInv, IInv
<1>12. QED
  BY StepCases, <1>4, <1>5, <1>6, <1>7, <1>8, <1>9, <1>10, <1>11
     DEF Drain, DrainFails

\* Whatever the writer's I/O did, a head that is handed out is the head of a
\* line that is in the file.
THEOREM HeadOnFile == Spec => []HeadIsOnFile
<1>1. Init => HeadInv
  BY DEF Init, HeadInv
<1>2. IInv /\ HeadInv /\ [Next]_vars => HeadInv'
  <2>1. HeadInv /\ UNCHANGED vars => HeadInv'
    BY DEF HeadInv, Line, vars
  <2>2. QED
    BY <2>1, HeadStep
<1>3. HeadInv => HeadIsOnFile
  BY DEF HeadInv, HeadIsOnFile
<1>4. QED
  BY Invariance, <1>1, <1>2, <1>3, PTL DEF Spec

-----------------------------------------------------------------------------
\* With one thread that appends and closes, once its close has found the queue
\* drained no record is accepted any more.
OneThread == \A p, q \in Producers : p = q

SoloInv ==
    /\ closed => Len(accepted) = taken
    /\ \A p \in Producers :
        /\ pc[p] \in {"close_error", "close_mark", "close_put"}
              => Len(accepted) = taken
        /\ closed => pc[p] \notin {"append_error", "append_put", "close_join",
                                   "close_error", "close_mark"}

LEMMA SoloStep ==
    ASSUME OneThread, IInv, QueueInv, SoloInv, Next
    PROVE  SoloInv'
<1> USE DEF ProducerSide, queueVars, chainVars, writerVars, diskVars, callVars
<1>0. /\ TypeOK /\ CountInv /\ FifoInv /\ DownInv
      /\ pc \in [Producers -> ProducerPC] /\ taken \in Nat
      /\ accepted \in Seq(Records) /\ Len(accepted) \in Nat
      /\ queue \in Seq(Records \cup {SENTINEL}) /\ Len(queue) \in Nat
  BY DEF IInv, TypeOK
<1>1. ASSUME UNCHANGED <<pc, closed, accepted, taken>> PROVE SoloInv'
  BY <1>1 DEF SoloInv
<1>2. ASSUME NEW p \in Producers, NEW b, pc' = [pc EXCEPT ![p] = b]
      PROVE  pc'[p] = b /\ \A q \in Producers : q = p
  BY <1>0, <1>2 DEF OneThread
<1>3. ASSUME NEW p \in Producers, AppendCall(p) PROVE SoloInv'
  <2>1. pc' = [pc EXCEPT ![p] = "append_error"] /\ ~closed /\ ~closed'
    BY <1>3 DEF AppendCall, At
  <2>2. pc'[p] = "append_error" /\ \A q \in Producers : q = p
    BY <1>2, <2>1
  <2>3. QED
    BY <2>1, <2>2 DEF SoloInv
<1>4. ASSUME NEW p \in Producers, AppendCheckError(p) PROVE SoloInv'
  <2>1. /\ pc'[p] \in {"idle", "append_put"} /\ ~closed /\ ~closed'
        /\ \A q \in Producers : q = p
    <3>1. pc[p] = "append_error" /\ closed' = closed
      BY <1>4 DEF AppendCheckError, At
    <3>2. ~closed
      BY <3>1 DEF SoloInv
    <3>3. pc' = [pc EXCEPT ![p] = IF error THEN "idle" ELSE "append_put"]
      BY <1>4 DEF AppendCheckError, At
    <3>4. QED
      BY <1>2, <3>1, <3>2, <3>3
  <2>2. QED
    BY <2>1 DEF SoloInv
<1>5. ASSUME NEW p \in Producers, AppendPut(p) PROVE SoloInv'
  <2>1. pc[p] = "append_put" /\ closed' = closed /\ pc' = [pc EXCEPT ![p] = "idle"]
    BY <1>5 DEF AppendPut, At
  <2>2. ~closed /\ ~closed'
    BY <2>1 DEF SoloInv
  <2>3. pc'[p] = "idle" /\ \A q \in Producers : q = p
    BY <1>2, <2>1
  <2>4. QED
    BY <2>2, <2>3 DEF SoloInv
<1>6. ASSUME NEW p \in Producers, FlushCall(p) \/ FlushJoin(p) \/ FlushReturn(p)
             \/ CloseReturn(p)
      PROVE  SoloInv'
  <2>1. /\ UNCHANGED <<closed, accepted, taken>>
        /\ \E b \in {"flush_join", "flush_error", "idle"} :
              pc' = [pc EXCEPT ![p] = b]
    BY <1>6 DEF FlushCall, FlushJoin, Joined, FlushReturn, FlushOutcome,
                CloseReturn, At
  <2>2. pc'[p] \in {"flush_join", "flush_error", "idle"}
        /\ \A q \in Producers : q = p
    BY <1>2, <2>1
  <2>3. QED
    BY <2>1, <2>2 DEF SoloInv
<1>7. ASSUME NEW p \in Producers, CloseCall(p) PROVE SoloInv'
  <2>1. pc'[p] = "close_join" /\ ~closed /\ ~closed'
        /\ \A q \in Producers : q = p
    BY <1>2, <1>7 DEF CloseCall, At
  <2>2. QED
    BY <2>1 DEF SoloInv
<1>8. ASSUME NEW p \in Producers, CloseJoin(p) PROVE SoloInv'
  <2>1. /\ unfinished = 0 /\ log = "open" /\ pc[p] = "close_join"
        /\ UNCHANGED <<closed, accepted, taken>>
        /\ pc' = [pc EXCEPT ![p] = "close_error"]
    BY <1>8 DEF CloseJoin, Joined, At
  <2>2. pc'[p] = "close_error" /\ \A q \in Producers : q = p
    BY <1>2, <2>1
  <2>3. Len(queue) = 0
    BY <1>0, <2>1 DEF CountInv
  <2>4. Len(accepted) = taken
    BY <1>0, <2>1, <2>3, RecordsInFacts DEF QueueInv
  <2>5. ~closed
    BY <2>1 DEF SoloInv
  <2>6. QED
    BY <2>1, <2>2, <2>4, <2>5 DEF SoloInv
<1>9. ASSUME NEW p \in Producers, CloseFlushed(p) PROVE SoloInv'
  <2>1. /\ pc[p] = "close_error" /\ UNCHANGED <<closed, accepted, taken>>
        /\ pc' = [pc EXCEPT ![p] = IF error THEN "idle" ELSE "close_mark"]
    BY <1>9 DEF CloseFlushed, FlushOutcome, At
  <2>2. pc'[p] \in {"idle", "close_mark"} /\ \A q \in Producers : q = p
    BY <1>2, <2>1
  <2>3. ~closed /\ Len(accepted) = taken
    BY <2>1 DEF SoloInv
  <2>4. QED
    BY <2>1, <2>2, <2>3 DEF SoloInv
<1>10. ASSUME NEW p \in Producers, CloseMark(p) \/ ClosePut(p) PROVE SoloInv'
  <2>1. /\ pc[p] \in {"close_mark", "close_put"} /\ UNCHANGED <<accepted, taken>>
        /\ \E b \in {"close_put", "close_wait"} : pc' = [pc EXCEPT ![p] = b]
    BY <1>10 DEF CloseMark, ClosePut, At
  <2>2. pc'[p] \in {"close_put", "close_wait"} /\ \A q \in Producers : q = p
    BY <1>2, <2>1
  <2>3. Len(accepted) = taken
    BY <2>1 DEF SoloInv
  <2>4. QED
    BY <2>1, <2>2, <2>3 DEF SoloInv
<1>11. CASE Get
  <2>1. /\ queue # <<>> /\ queue[1] # SENTINEL /\ wpc = "get"
        /\ UNCHANGED <<pc, closed, accepted>>
    BY <1>11 DEF Get, Goes
  <2>2. SentinelFree(1) /\ 1 \in 1..Len(queue)
    BY <1>0, <2>1 DEF SentinelFree
  <2>3. taken + 1 <= Len(accepted)
    BY <1>0, <2>1, <2>2 DEF FifoInv
  <2>4. Len(accepted) # taken
    BY <1>0, <2>3
  <2>5. QED
    BY <2>1, <2>4 DEF SoloInv
<1>12. ASSUME \/ Open \/ OpenFails \/ GetSentinel \/ Encode \/ Write
              \/ WriteFails \/ Fsync \/ FsyncFails \/ Advance \/ RecordError
              \/ TaskDone
       PROVE  SoloInv'
  BY <1>1, <1>12 DEF Open, OpenFails, GetSentinel, Encode, Write, WriteFails,
                     Fsync, FsyncFails, Advance, RecordError, TaskDone
<1>13. CASE Kill
  BY <1>13 DEF Kill, SoloInv
<1>14. CASE Reopen
  BY <1>0, <1>14 DEF Reopen, DownInv, SoloInv
<1>15. QED
  BY NextCases, <1>3, <1>4, <1>5, <1>6, <1>7, <1>8, <1>9, <1>10, <1>11, <1>12,
     <1>13, <1>14

\* With one thread that appends and closes, as the repository uses the log, a
\* writer that stopped at the sentinel without an error has left nothing behind.
THEOREM CloseComplete == ASSUME OneThread PROVE Spec => []ClosedIsComplete
<1>1. Init => SoloInv
  BY DEF Init, SoloInv
<1>2. IInv /\ QueueInv /\ SoloInv /\ [Next]_vars => SoloInv'
  <2>1. SoloInv /\ UNCHANGED vars => SoloInv'
    BY DEF SoloInv, vars
  <2>2. QED
    BY <2>1, SoloStep
<1>3. IInv /\ SoloInv => ClosedIsComplete
  <2> SUFFICES ASSUME IInv, SoloInv, closed, wpc = "exited", ~error
               PROVE  RecordsOf(file) = accepted
      BY DEF ClosedIsComplete
  <2>1. log = "open" /\ ~Failed
    BY DEF IInv, DownInv, Failed
  <2>2. Len(file) = taken /\ \A i \in 1..Len(file) : file[i].record = accepted[i]
    BY <2>1 DEF IInv, WrittenInv
  <2>3. Len(accepted) = taken
    BY DEF SoloInv
  <2>4. RecordsOf(file) = [i \in 1..Len(accepted) |-> accepted[i]]
    BY <2>2, <2>3 DEF RecordsOf
  <2>5. accepted \in Seq(Records)
    BY DEF IInv, TypeOK
  <2>6. QED
    BY <2>4, <2>5
<1>4. QED
  BY Invariance, QueueInvariance, <1>1, <1>2, <1>3, PTL DEF Spec

-----------------------------------------------------------------------------
\* The records the writer is done with, and those it has tried to encode.
Settled == IF wpc \in Busy THEN taken - 1 ELSE taken
Encoded == IF wpc \in {"encode", "error"} THEN taken - 1 ELSE taken

\* A flush vouches only for records the writer is done with; an error has a
\* cause; and until one is recorded every record tried could be encoded.
VouchedInv ==
    /\ acked <= Settled
    /\ \A p \in Producers :
          pc[p] \in {"flush_error", "close_error"} => target[p] <= Settled

IOFaulty == Faults \cap {"write", "fsync"} # {}
BlameInv == wpc = "error" => item \in Unencodable \/ IOFaulty
CleanInv == ~error => \A i \in 1..Encoded : accepted[i] \notin Unencodable

ClientInv == log = "open" /\ VouchedInv /\ BlameInv /\ CleanInv

LEMMA InitClientInv == Init => ClientInv
BY DEF Init, ClientInv, VouchedInv, BlameInv, CleanInv, Settled, Encoded, Busy

LEMMA VouchedStep ==
    ASSUME IInv, QueueInv, log = "open", VouchedInv, Next, ~Kill
    PROVE  VouchedInv'
<1> USE DEF ProducerSide, queueVars, chainVars, writerVars, diskVars, callVars
<1>0. /\ TypeOK /\ CountInv /\ TargetInv /\ HandInv
      /\ pc \in [Producers -> ProducerPC] /\ target \in [Producers -> Nat]
      /\ taken \in Nat /\ acked \in Nat
      /\ Len(queue) \in Nat /\ Len(accepted) \in Nat
  BY DEF IInv, TypeOK
<1>1. ASSUME UNCHANGED <<pc, target, acked>>, Settled' = Settled
      PROVE  VouchedInv'
  BY <1>1 DEF VouchedInv
<1>2. ASSUME UNCHANGED <<wpc, taken>> PROVE Settled' = Settled
  BY <1>2 DEF Settled
<1>3. ASSUME NEW p \in Producers, FlushJoin(p) \/ CloseJoin(p)
      PROVE  VouchedInv'
  <2>1. unfinished = 0 /\ UNCHANGED <<wpc, taken, target, acked>>
    BY <1>3 DEF FlushJoin, CloseJoin, Joined
  <2>2. wpc \notin Busy /\ Len(queue) = 0
    BY <1>0, <2>1 DEF CountInv
  <2>3. Len(accepted) = taken
    BY <1>0, <2>2, RecordsInFacts DEF QueueInv
  <2>4. Settled' = taken /\ Settled = taken
    BY <2>1, <2>2 DEF Settled
  <2>5. \A q \in Producers : target[q] <= taken
    BY <1>0, <2>3 DEF TargetInv
  <2>6. QED
    BY <2>1, <2>4, <2>5 DEF VouchedInv
<1>4. ASSUME NEW p \in Producers, FlushReturn(p) \/ CloseFlushed(p)
      PROVE  VouchedInv'
  <2>1. /\ pc[p] \in {"flush_error", "close_error"}
        /\ UNCHANGED <<wpc, taken, target>>
        /\ acked' = acked \/ acked' = target[p]
        /\ \E b \in {"idle", "close_mark"} : pc' = [pc EXCEPT ![p] = b]
    BY <1>4 DEF FlushReturn, CloseFlushed, FlushOutcome, At
  <2>2. \A q \in Producers :
           pc'[q] \in {"flush_error", "close_error"} => pc'[q] = pc[q]
    BY <1>0, <2>1
  <2>3. Settled' = Settled
    BY <1>2, <2>1
  <2>4. QED
    BY <2>1, <2>2, <2>3 DEF VouchedInv
<1>5. ASSUME NEW p \in Producers,
             \/ AppendCall(p) \/ AppendCheckError(p) \/ AppendPut(p)
             \/ FlushCall(p) \/ CloseCall(p) \/ CloseMark(p) \/ ClosePut(p)
             \/ CloseReturn(p)
      PROVE  VouchedInv'
  <2>1. UNCHANGED <<wpc, taken, acked>>
    BY <1>5 DEF AppendCall, AppendCheckError, AppendPut, FlushCall, CloseCall,
                CloseMark, ClosePut, CloseReturn
  <2>2. \E b \in {"idle", "append_error", "append_put", "flush_join",
                  "close_join", "close_put", "close_wait"} :
            pc' = [pc EXCEPT ![p] = b]
    BY <1>5 DEF AppendCall, AppendCheckError, AppendPut, FlushCall, CloseCall,
                CloseMark, ClosePut, CloseReturn, At
  <2>3. \A q \in Producers :
           pc'[q] \in {"flush_error", "close_error"} => q # p /\ pc'[q] = pc[q]
    BY <1>0, <2>2
  <2>4. \A q \in Producers : q # p => target'[q] = target[q]
    BY <1>0, <1>5 DEF AppendCall, AppendCheckError, AppendPut, FlushCall,
                CloseCall, CloseMark, ClosePut, CloseReturn
  <2>5. Settled' = Settled
    BY <1>2, <2>1
  <2>6. QED
    BY <2>1, <2>3, <2>4, <2>5 DEF VouchedInv
<1>6. CASE Get
  <2>1. /\ UNCHANGED <<pc, target, acked>> /\ wpc = "get" /\ wpc' = "encode"
        /\ taken' = taken + 1
    BY <1>6 DEF Get, Goes
  <2>2. QED
    BY <1>0, <1>1, <2>1 DEF Settled, Busy
<1>7. CASE TaskDone
  <2>1. /\ UNCHANGED <<pc, target, acked, taken>>
        /\ wpc = "task_done" /\ wpc' = "get"
    BY <1>7 DEF TaskDone, Goes
  <2>2. Settled = taken - 1 /\ Settled' = taken
    BY <2>1 DEF Settled, Busy
  <2>3. QED
    BY <1>0, <2>1, <2>2 DEF VouchedInv
<1>8. ASSUME \/ Open \/ OpenFails \/ GetSentinel \/ Encode \/ Write
             \/ WriteFails \/ Fsync \/ FsyncFails \/ Advance \/ RecordError
      PROVE  VouchedInv'
  <2>1. /\ UNCHANGED <<pc, target, acked, taken>>
        /\ wpc \in Busy <=> wpc' \in Busy
    BY <1>8 DEF Open, OpenFails, GetSentinel, Encode, Write, WriteFails, Fsync,
                FsyncFails, Advance, RecordError, Goes, Busy
  <2>2. QED
    BY <1>1, <2>1 DEF Settled
<1>9. CASE Reopen
  BY <1>9 DEF Reopen
<1>10. QED
  BY NextCases, <1>3, <1>4, <1>5, <1>6, <1>7, <1>8, <1>9

LEMMA ErrorStep ==
    ASSUME IInv, log = "open", BlameInv, CleanInv, Next, ~Kill
    PROVE  BlameInv' /\ CleanInv'
<1> USE DEF ProducerSide, queueVars, chainVars, writerVars, diskVars, callVars
<1>0. /\ HandInv /\ taken \in Nat /\ Len(accepted) \in Nat
      /\ accepted \in Seq(Records)
  BY DEF IInv, TypeOK
<1>1. ASSUME UNCHANGED <<wpc, item, error, accepted, taken>>
      PROVE  BlameInv' /\ CleanInv'
  BY <1>1 DEF BlameInv, CleanInv, Encoded
<1>2. ASSUME NEW p \in Producers, AppendPut(p) PROVE BlameInv' /\ CleanInv'
  <2>1. /\ UNCHANGED <<wpc, item, error, taken>>
        /\ accepted' = Append(accepted, arg[p])
    BY <1>2 DEF AppendPut
  <2>2. \A i \in 1..Encoded : accepted'[i] = accepted[i]
    BY <1>0, <2>1 DEF Encoded, HandInv
  <2>3. QED
    BY <2>1, <2>2 DEF BlameInv, CleanInv, Encoded
<1>3. ASSUME NEW p \in Producers, Moves(p) \/ ClosePut(p)
      PROVE  BlameInv' /\ CleanInv'
  BY <1>1, <1>3, MovesFrame DEF ClosePut
<1>4. CASE Encode
  <2>1. /\ UNCHANGED <<item, error, accepted, taken>> /\ wpc = "encode"
        /\ wpc' = IF item \in Unencodable THEN "error" ELSE "write"
    BY <1>4 DEF Encode, Goes
  <2>2. item = accepted[taken] /\ taken >= 1
    BY <1>0, <2>1 DEF HandInv, Busy
  <2>3. CASE item \in Unencodable
    BY <2>1, <2>3 DEF BlameInv, CleanInv, Encoded
  <2>4. CASE item \notin Unencodable
    <3>1. Encoded = taken - 1 /\ Encoded' = taken
      BY <2>1, <2>4 DEF Encoded
    <3>2. \A i \in 1..taken : i \in 1..(taken - 1) \/ i = taken
      BY <1>0
    <3>3. QED
      BY <2>1, <2>2, <2>4, <3>1, <3>2 DEF BlameInv, CleanInv
  <2>5. QED
    BY <2>3, <2>4
<1>5. CASE Get
  <2>1. /\ UNCHANGED <<error, accepted>> /\ wpc = "get" /\ wpc' = "encode"
        /\ taken' = taken + 1
    BY <1>5 DEF Get, Goes
  <2>2. Encoded = taken /\ Encoded' = taken
    BY <1>0, <2>1 DEF Encoded
  <2>3. QED
    BY <2>1, <2>2 DEF BlameInv, CleanInv
<1>6. ASSUME WriteFails \/ FsyncFails PROVE BlameInv' /\ CleanInv'
  <2>1. /\ UNCHANGED <<error, accepted, taken>> /\ wpc \in {"write", "fsync"}
        /\ wpc' = "error" /\ IOFaulty
    BY <1>6 DEF WriteFails, FsyncFails, Goes, IOFaulty
  <2>2. Encoded = taken /\ Encoded' = taken - 1
    BY <2>1 DEF Encoded
  <2>3. QED
    BY <1>0, <2>1, <2>2 DEF BlameInv, CleanInv
<1>7. CASE RecordError
  <2>1. error' /\ wpc' = "task_done"
    BY <1>7 DEF RecordError, Goes
  <2>2. QED
    BY <2>1 DEF BlameInv, CleanInv
<1>8. ASSUME \/ Open \/ OpenFails \/ GetSentinel \/ Write \/ Fsync \/ Advance
             \/ TaskDone
      PROVE  BlameInv' /\ CleanInv'
  <2>1. /\ UNCHANGED <<error, accepted, taken>>
        /\ wpc \notin {"encode", "error"} /\ wpc' \notin {"encode", "error"}
    BY <1>8 DEF Open, OpenFails, GetSentinel, Write, Fsync, Advance, TaskDone,
                Goes
  <2>2. QED
    BY <2>1 DEF BlameInv, CleanInv, Encoded
<1>9. CASE Reopen
  BY <1>9 DEF Reopen
<1>10. QED
  BY StepCases, <1>2, <1>3, <1>4, <1>5, <1>6, <1>7, <1>8, <1>9
     DEF Drain, DrainFails

\* Every step of the log is a step of the client's view, or changes nothing in
\* it: a put accepts, the first recorded error refuses or breaks, a flush that
\* returns acknowledges.
LEMMA StepRefines ==
    ASSUME IInv, ClientInv, [Next]_vars, ~Kill
    PROVE  [Client!Next]_(Client!clientVars)
<1> USE DEF ProducerSide, queueVars, chainVars, writerVars, diskVars, callVars
<1>0. /\ TypeOK /\ HandInv /\ TargetInv /\ taken \in Nat /\ acked \in Nat
      /\ Len(accepted) \in Nat /\ target \in [Producers -> Nat]
  BY DEF IInv, TypeOK
<1>1. ASSUME UNCHANGED <<accepted, error, acked>>
      PROVE  [Client!Next]_(Client!clientVars)
  BY <1>1 DEF Client!clientVars
<1>2. ASSUME NEW p \in Producers, AppendPut(p) PROVE Client!Next
  <2>1. arg[p] \in Records
    BY <1>0, <1>2 DEF AppendPut, At, TypeOK
  <2>2. Client!Accept(arg[p])
    BY <1>2 DEF AppendPut, Client!Accept
  <2>3. QED
    BY <2>1, <2>2 DEF Client!Next
<1>3. ASSUME NEW p \in Producers, FlushReturn(p) \/ CloseFlushed(p)
      PROVE  [Client!Next]_(Client!clientVars)
  <2>1. UNCHANGED <<accepted, error>> /\ pc[p] \in {"flush_error", "close_error"}
    BY <1>3 DEF FlushReturn, CloseFlushed, FlushOutcome, At
  <2>2. CASE acked' = acked
    BY <1>1, <2>1, <2>2
  <2>3. CASE acked' # acked
    <3>1. ~error /\ acked' = target[p] /\ target[p] > acked
      BY <1>3, <2>3 DEF FlushReturn, CloseFlushed, FlushOutcome
    <3>2. target[p] \in (acked + 1)..Len(accepted)
      BY <1>0, <3>1 DEF TargetInv
    <3>3. target[p] <= Encoded
      <4>1. target[p] <= Settled
        BY <2>1 DEF ClientInv, VouchedInv
      <4>2. QED
        BY <1>0, <4>1 DEF Settled, Encoded, Busy
    <3>4. \A i \in 1..target[p] : accepted[i] \notin Unencodable
      BY <1>0, <3>1, <3>3 DEF ClientInv, CleanInv, Encoded
    <3>5. Client!Acknowledge(target[p])
      BY <2>1, <3>1, <3>4 DEF Client!Acknowledge
    <3>6. QED
      BY <3>2, <3>5 DEF Client!Next
  <2>4. QED
    BY <2>2, <2>3
<1>4. CASE RecordError
  <2>1. /\ UNCHANGED <<accepted, acked>> /\ error' = TRUE /\ wpc = "error"
    BY <1>4 DEF RecordError, Goes
  <2>2. CASE error
    BY <1>0, <1>1, <2>1, <2>2 DEF TypeOK
  <2>3. CASE ~error
    <3>1. Client!Fail
      BY <2>1, <2>3 DEF Client!Fail
    <3>2. taken \in (acked + 1)..Len(accepted) /\ item = accepted[taken]
      BY <1>0, <2>1 DEF HandInv, ClientInv, VouchedInv, Settled, Busy
    <3>3. CASE item \in Unencodable
      BY <3>1, <3>2, <3>3 DEF Client!Refuse, Client!Next
    <3>4. CASE IOFaulty
      <4>1. acked < Len(accepted)
        BY <1>0, <3>2
      <4>2. QED
        BY <3>1, <3>4, <4>1 DEF IOFaulty, Client!Break, Client!Next
    <3>5. QED
      BY <2>1, <3>3, <3>4 DEF ClientInv, BlameInv
  <2>4. QED
    BY <2>2, <2>3
<1>5. ASSUME NEW p \in Producers,
             \/ AppendCall(p) \/ AppendCheckError(p) \/ FlushCall(p)
             \/ CloseCall(p) \/ FlushJoin(p) \/ CloseJoin(p) \/ CloseMark(p)
             \/ ClosePut(p) \/ CloseReturn(p)
      PROVE  UNCHANGED <<accepted, error, acked>>
  BY <1>5 DEF AppendCall, AppendCheckError, FlushCall, CloseCall, FlushJoin,
              CloseJoin, Joined, CloseMark, ClosePut, CloseReturn
<1>6. ASSUME \/ Open \/ OpenFails \/ Get \/ GetSentinel \/ Encode \/ Write
             \/ WriteFails \/ Fsync \/ FsyncFails \/ Advance \/ TaskDone
      PROVE  UNCHANGED <<accepted, error, acked>>
  BY <1>6 DEF Open, OpenFails, Get, GetSentinel, Encode, Write, WriteFails,
              Fsync, FsyncFails, Advance, TaskDone
<1>7. CASE Reopen
  BY <1>7 DEF Reopen, ClientInv
<1>8. CASE UNCHANGED vars
  BY <1>1, <1>8 DEF vars
<1>9. QED
  BY NextCases, <1>1, <1>2, <1>3, <1>4, <1>5, <1>6, <1>7, <1>8

\* In a process that is not killed, for any number of threads and any faults,
\* the log does what AuditClient promises its callers.
THEOREM ClientRefinement == ASSUME ~Crashes PROVE Spec => ImplementsClient
<1>1. Init => Client!Init
  BY DEF Init, Client!Init
<1>2. ~Kill
  BY DEF Kill
<1>3. IInv /\ QueueInv /\ ClientInv /\ [Next]_vars => ClientInv'
  <2>1. ClientInv /\ UNCHANGED vars => ClientInv'
    BY DEF ClientInv, VouchedInv, BlameInv, CleanInv, Settled, Encoded, vars
  <2>2. ASSUME IInv, QueueInv, ClientInv, Next PROVE ClientInv'
    <3>1. log' = "open"
      BY <1>2, <2>2, StepCases, MovesFrame
         DEF ClientInv, AppendPut, ClosePut, At, Drain, DrainFails, Open,
             OpenFails, Get, GetSentinel, Encode, Write, WriteFails, Fsync,
             FsyncFails, Advance, RecordError, TaskDone, ProducerSide, Reopen
    <3>2. QED
      BY <1>2, <2>2, <3>1, VouchedStep, ErrorStep DEF ClientInv
  <2>3. QED
    BY <2>1, <2>2
<1>4. IInv /\ ClientInv /\ [Next]_vars => [Client!Next]_(Client!clientVars)
  BY <1>2, StepRefines
<1>5. QED
  BY Invariance, QueueInvariance, InitClientInv, <1>1, <1>3, <1>4, PTL
     DEF Spec, ImplementsClient, Client!Spec

=============================================================================
