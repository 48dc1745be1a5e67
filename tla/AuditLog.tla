----------------------------- MODULE AuditLog -----------------------------
(***************************************************************************)
(* class AuditLog of src/membrane/audit.py: producer threads that call     *)
(* append, flush and close, the queue.Queue between them and the writer,   *)
(* and the daemon thread that drains the queue into a hash-chained file.   *)
(*                                                                         *)
(* Every read of _closed or _error is a step of its own, because other     *)
(* threads run between it and what the caller does next.  The file is what *)
(* the operating system holds: at every state it is also what a killed     *)
(* process leaves behind.                                                  *)
(***************************************************************************)
EXTENDS AuditChain, FiniteSets

CONSTANTS
    Producers,      \* threads that call append and flush
    Closers,        \* those of them that may call close
    Records,        \* the records append is called with
    Unencodable,    \* those canonical_json refuses (a NaN or an infinity)
    Key,            \* the signing key
    SENTINEL,       \* the queue item that stops the writer
    Nothing,        \* what the writer holds between two items
    FsyncEach,      \* the fsync_each option
    Faults,         \* the I/O calls of the writer that may fail
    Crashes,        \* whether the process may be killed
    PowerLoss,      \* whether a kill may take unsynced file contents with it
    MaxAppends      \* bound on the records accepted in one life of the log

ASSUME ClosersAssumption     == Closers \subseteq Producers
ASSUME UnencodableAssumption == Unencodable \subseteq Records
ASSUME SentinelAssumption    == SENTINEL \notin Records /\ Nothing \notin Records
ASSUME OptionsAssumption     == /\ FsyncEach \in BOOLEAN
                                /\ Crashes \in BOOLEAN
                                /\ PowerLoss \in BOOLEAN
                                /\ MaxAppends \in Nat
                                /\ Faults \subseteq {"open", "write", "fsync"}

VARIABLES
    log,        \* "open", "down" after a kill, "refused" by the next __post_init__
    queue,      \* the items of queue.Queue
    unfinished, \* its unfinished_tasks: puts minus task_dones
    seq,        \* _seq
    head,       \* _head
    error,      \* _error is not None
    closed,     \* _closed
    wpc,        \* where the writer is in _drain and _write_one
    item,       \* the record the writer took from the queue
    buffer,     \* lines a failed flush left in the writer's file buffer
    file,       \* the lines of the file
    synced,     \* how many of them an fsync has covered
    pc,         \* where each producer is in append, flush or close
    arg,        \* the record of its append call
    accepted,   \* history: the records put on the queue, in order
    taken,      \* history: how many of them the writer has taken
    target,     \* history: how many were accepted when its flush began
    acked       \* history: the most records a normally returning flush covered

queueVars  == <<queue, unfinished>>
chainVars  == <<seq, head>>
writerVars == <<wpc, item, taken>>
diskVars   == <<buffer, file, synced>>
callVars   == <<pc, arg, target>>
vars == <<log, queue, unfinished, seq, head, error, closed, wpc, item, buffer,
          file, synced, pc, arg, accepted, taken, target, acked>>

WriterPC   == {"start", "get", "encode", "write", "fsync", "advance", "error",
               "task_done", "exited"}
ProducerPC == {"idle", "append_error", "append_put", "flush_join",
               "flush_error", "close_join", "close_error", "close_mark",
               "close_put", "close_wait"}

\* The writer holds a record whose task_done is still to come.
Busy == {"encode", "write", "fsync", "advance", "error", "task_done"}

TypeOK ==
    /\ log \in {"open", "down", "refused"}
    /\ queue \in Seq(Records \cup {SENTINEL})
    /\ unfinished \in Nat
    /\ seq \in Nat
    /\ error \in BOOLEAN
    /\ closed \in BOOLEAN
    /\ wpc \in WriterPC
    /\ item \in Records \cup {Nothing}
    /\ wpc \in Busy => item \in Records
    /\ synced \in Nat
    /\ pc \in [Producers -> ProducerPC]
    /\ arg \in [Producers -> Records \cup {Nothing}]
    /\ \A p \in Producers :
          pc[p] \in {"append_error", "append_put"} => arg[p] \in Records
    /\ accepted \in Seq(Records)
    /\ taken \in Nat
    /\ target \in [Producers -> Nat]
    /\ acked \in Nat

-----------------------------------------------------------------------------
\* __post_init__ on an empty file.
Init ==
    /\ log = "open"
    /\ queue = <<>>
    /\ unfinished = 0
    /\ seq = 0
    /\ head = GENESIS_HASH
    /\ error = FALSE
    /\ closed = FALSE
    /\ wpc = "start"
    /\ item = Nothing
    /\ buffer = <<>>
    /\ file = <<>>
    /\ synced = 0
    /\ pc = [p \in Producers |-> "idle"]
    /\ arg = [p \in Producers |-> Nothing]
    /\ accepted = <<>>
    /\ taken = 0
    /\ target = [p \in Producers |-> 0]
    /\ acked = 0

-----------------------------------------------------------------------------
\* Producer side.  At(p, a, b): producer p goes from a to b.
At(p, a, b) ==
    /\ log = "open"
    /\ pc[p] = a
    /\ pc' = [pc EXCEPT ![p] = b]

\* Mutants of put: the item is not counted; the queue is last in, first out.
put_uncounted(x) == queue' = Append(queue, x) /\ UNCHANGED unfinished
put_lifo(x) == queue' = <<x>> \o queue /\ unfinished' = unfinished + 1

put(x) ==
    /\ queue' = Append(queue, x)
    /\ unfinished' = unfinished + 1

\* Records on their way into the queue, so that MaxAppends bounds accepted.
Arriving == {p \in Producers : pc[p] \in {"append_error", "append_put"}}

\* append: the _closed test.  A closed log raises and the call is over.
AppendCall(p) == \E r \in Records :
    /\ ~closed
    /\ Len(accepted) + Cardinality(Arriving) < MaxAppends
    /\ At(p, "idle", "append_error")
    /\ arg' = [arg EXCEPT ![p] = r]
    /\ UNCHANGED <<log, queueVars, chainVars, error, closed, writerVars,
                   diskVars, accepted, target, acked>>

\* append: the _error test.  A failed writer raises and the call is over.
AppendCheckError(p) ==
    /\ At(p, "append_error", IF error THEN "idle" ELSE "append_put")
    /\ UNCHANGED <<log, queueVars, chainVars, error, closed, writerVars,
                   diskVars, arg, accepted, target, acked>>

AppendPut(p) ==
    /\ At(p, "append_put", "idle")
    /\ put(arg[p])
    /\ accepted' = Append(accepted, arg[p])
    /\ UNCHANGED <<log, chainVars, error, closed, writerVars, diskVars, arg,
                   target, acked>>

FlushCall(p) ==
    /\ At(p, "idle", "flush_join")
    /\ target' = [target EXCEPT ![p] = Len(accepted)]
    /\ UNCHANGED <<log, queueVars, chainVars, error, closed, writerVars,
                   diskVars, arg, accepted, acked>>

\* Mutant of Joined: flush does not wait for the queue.
Joined_early(p, a, b) ==
    /\ At(p, a, b)
    /\ UNCHANGED <<log, queueVars, chainVars, error, closed, writerVars,
                   diskVars, arg, accepted, target, acked>>

\* queue.join returns once every put has had its task_done.
Joined(p, a, b) ==
    /\ unfinished = 0
    /\ At(p, a, b)
    /\ UNCHANGED <<log, queueVars, chainVars, error, closed, writerVars,
                   diskVars, arg, accepted, target, acked>>

FlushJoin(p) == Joined(p, "flush_join", "flush_error")

\* Mutant of FlushOutcome: the error is only looked at by append.
FlushOutcome_unchecked(p, a, onSuccess) ==
    /\ At(p, a, onSuccess)
    /\ acked' = IF target[p] > acked THEN target[p] ELSE acked
    /\ UNCHANGED <<log, queueVars, chainVars, error, closed, writerVars,
                   diskVars, arg, accepted, target>>

\* The _error test that ends flush: it raises, or the call returns normally
\* and has told its caller that what it had accepted is in the file.
FlushOutcome(p, a, onSuccess) ==
    /\ At(p, a, IF error THEN "idle" ELSE onSuccess)
    /\ acked' = IF ~error /\ target[p] > acked THEN target[p] ELSE acked
    /\ UNCHANGED <<log, queueVars, chainVars, error, closed, writerVars,
                   diskVars, arg, accepted, target>>

FlushReturn(p) == FlushOutcome(p, "flush_error", "idle")

\* close: nothing to do on a closed log, otherwise it begins with a flush.
CloseCall(p) ==
    /\ p \in Closers
    /\ ~closed
    /\ At(p, "idle", "close_join")
    /\ target' = [target EXCEPT ![p] = Len(accepted)]
    /\ UNCHANGED <<log, queueVars, chainVars, error, closed, writerVars,
                   diskVars, arg, accepted, acked>>

CloseJoin(p) == Joined(p, "close_join", "close_error")

\* A flush that raises leaves close at once: _closed is not set and no
\* sentinel is put.
CloseFlushed(p) == FlushOutcome(p, "close_error", "close_mark")

CloseMark(p) ==
    /\ At(p, "close_mark", "close_put")
    /\ closed' = TRUE
    /\ UNCHANGED <<log, queueVars, chainVars, error, writerVars, diskVars,
                   arg, accepted, target, acked>>

ClosePut(p) ==
    /\ At(p, "close_put", "close_wait")
    /\ put(SENTINEL)
    /\ UNCHANGED <<log, chainVars, error, closed, writerVars, diskVars, arg,
                   accepted, target, acked>>

\* thread.join(timeout=5.0) returns whether or not the writer has stopped.
CloseReturn(p) ==
    /\ At(p, "close_wait", "idle")
    /\ UNCHANGED <<log, queueVars, chainVars, error, closed, writerVars,
                   diskVars, arg, accepted, target, acked>>

Produce(p) ==
    \/ AppendCheckError(p) \/ AppendPut(p)
    \/ FlushJoin(p) \/ FlushReturn(p)
    \/ CloseJoin(p) \/ CloseFlushed(p) \/ CloseMark(p) \/ ClosePut(p)
    \/ CloseReturn(p)

Call(p) == AppendCall(p) \/ FlushCall(p) \/ CloseCall(p)

-----------------------------------------------------------------------------
\* Writer side.  Goes(a, b): the writer goes from a to b.
Goes(a, b) ==
    /\ log = "open"
    /\ wpc = a
    /\ wpc' = b

ProducerSide == <<log, closed, pc, arg, accepted, target, acked>>

\* open(self.path, "a") at the head of _drain.  It is outside the try: when it
\* fails the thread is gone and nothing has been recorded in _error.
Open ==
    /\ Goes("start", "get")
    /\ UNCHANGED <<ProducerSide, queueVars, chainVars, error, item, taken,
                   diskVars>>

OpenFails ==
    /\ "open" \in Faults
    /\ Goes("start", "exited")
    /\ UNCHANGED <<ProducerSide, queueVars, chainVars, error, item, taken,
                   diskVars>>

Get ==
    /\ queue # <<>>
    /\ Head(queue) # SENTINEL
    /\ Goes("get", "encode")
    /\ item' = Head(queue)
    /\ queue' = Tail(queue)
    /\ taken' = taken + 1
    /\ UNCHANGED <<ProducerSide, unfinished, chainVars, error, diskVars>>

\* The sentinel: task_done, return, and the with block closes the file, which
\* writes what a failed flush had left in the buffer if the disk now lets it.
GetSentinel ==
    /\ queue # <<>>
    /\ Head(queue) = SENTINEL
    /\ Goes("get", "exited")
    /\ queue' = Tail(queue)
    /\ unfinished' = unfinished - 1
    /\ buffer' = <<>>
    /\ file' \in {file \o buffer} \cup (IF "write" \in Faults THEN {file} ELSE {})
    /\ UNCHANGED <<ProducerSide, chainVars, error, item, taken, synced>>

\* entry_hash, sign and canonical_json: a record with a NaN or an infinity
\* raises before anything is written.
Encode ==
    /\ Goes("encode", IF item \in Unencodable THEN "error" ELSE "write")
    /\ UNCHANGED <<ProducerSide, queueVars, chainVars, error, item, taken,
                   diskVars>>

Line == Entry(Key, seq, head, item)

\* Mutant of Write: no handle.flush, the line stays in the buffer.
Write_unflushed ==
    /\ Goes("write", IF FsyncEach THEN "fsync" ELSE "advance")
    /\ buffer' = Append(buffer, Line)
    /\ UNCHANGED <<ProducerSide, queueVars, chainVars, error, item, taken,
                   file, synced>>

\* handle.write and handle.flush: the line goes out behind whatever an earlier
\* flush left in the buffer.
Write ==
    /\ Goes("write", IF FsyncEach THEN "fsync" ELSE "advance")
    /\ file' = Append(file \o buffer, Line)
    /\ buffer' = <<>>
    /\ UNCHANGED <<ProducerSide, queueVars, chainVars, error, item, taken,
                   synced>>

\* handle.flush raises: the line stays in the buffer for the next flush.
WriteFails ==
    /\ "write" \in Faults
    /\ Goes("write", "error")
    /\ buffer' = Append(buffer, Line)
    /\ UNCHANGED <<ProducerSide, queueVars, chainVars, error, item, taken,
                   file, synced>>

\* Mutant of Fsync: the handle is never synced.
Fsync_skipped ==
    /\ Goes("fsync", "advance")
    /\ UNCHANGED <<ProducerSide, queueVars, chainVars, error, item, taken,
                   diskVars>>

Fsync ==
    /\ Goes("fsync", "advance")
    /\ synced' = Len(file)
    /\ UNCHANGED <<ProducerSide, queueVars, chainVars, error, item, taken,
                   buffer, file>>

FsyncFails ==
    /\ "fsync" \in Faults
    /\ Goes("fsync", "error")
    /\ UNCHANGED <<ProducerSide, queueVars, chainVars, error, item, taken,
                   diskVars>>

\* Mutant of Advance: _head is not moved on.
Advance_unlinked ==
    /\ Goes("advance", "task_done")
    /\ seq' = seq + 1
    /\ UNCHANGED <<ProducerSide, queueVars, head, error, item, taken, diskVars>>

Advance ==
    /\ Goes("advance", "task_done")
    /\ seq' = seq + 1
    /\ head' = Line.hash
    /\ UNCHANGED <<ProducerSide, queueVars, error, item, taken, diskVars>>

\* Mutants of RecordError: the error is not kept; task_done is outside finally.
RecordError_swallowed ==
    /\ Goes("error", "task_done")
    /\ UNCHANGED <<ProducerSide, queueVars, chainVars, error, item, taken,
                   diskVars>>
RecordError_unfinished ==
    /\ Goes("error", "get")
    /\ error' = TRUE
    /\ UNCHANGED <<ProducerSide, queueVars, chainVars, item, taken, diskVars>>

\* except BaseException: the first error is kept.
RecordError ==
    /\ Goes("error", "task_done")
    /\ error' = TRUE
    /\ UNCHANGED <<ProducerSide, queueVars, chainVars, item, taken, diskVars>>

\* finally: task_done, whatever became of the record.
TaskDone ==
    /\ Goes("task_done", "get")
    /\ item' = Nothing
    /\ unfinished' = unfinished - 1
    /\ UNCHANGED <<ProducerSide, queue, chainVars, error, taken, diskVars>>

Drain ==
    \/ Open \/ Get \/ GetSentinel \/ Encode \/ Write \/ Fsync \/ Advance
    \/ RecordError \/ TaskDone

DrainFails == OpenFails \/ WriteFails \/ FsyncFails

-----------------------------------------------------------------------------
\* The process is killed and everything in its memory is gone.  A power loss
\* also takes a tail of the lines no fsync has covered.
Kill ==
    /\ Crashes
    /\ log = "open"
    /\ log' = "down"
    /\ \E k \in 0..Len(file) :
          /\ k = Len(file) \/ (PowerLoss /\ k >= synced)
          /\ file' = SubSeq(file, 1, k)
    /\ queue' = <<>> /\ unfinished' = 0
    /\ seq' = 0 /\ head' = GENESIS_HASH
    /\ error' = FALSE /\ closed' = FALSE
    /\ wpc' = "start" /\ item' = Nothing /\ taken' = 0 /\ buffer' = <<>>
    /\ pc' = [p \in Producers |-> "idle"]
    /\ arg' = [p \in Producers |-> Nothing]
    /\ target' = [p \in Producers |-> 0]
    /\ UNCHANGED <<synced, accepted, acked>>

\* Mutant of Reopen: a file that is there is opened for rewriting.
Reopen_rewriting ==
    /\ log = "down"
    /\ log' = "open"
    /\ file' = <<>> /\ accepted' = <<>>
    /\ UNCHANGED <<queueVars, chainVars, error, closed, writerVars, buffer,
                   synced, callVars, acked>>

\* __post_init__ on the path of a dead log: a non-empty file is refused with
\* FileExistsError, an empty one is taken as new.
Reopen ==
    /\ log = "down"
    /\ log' = IF file = <<>> THEN "open" ELSE "refused"
    /\ accepted' = IF file = <<>> THEN <<>> ELSE accepted
    /\ UNCHANGED <<queueVars, chainVars, error, closed, writerVars, diskVars,
                   callVars, acked>>

Next ==
    \/ \E p \in Producers : Call(p) \/ Produce(p)
    \/ Drain
    \/ DrainFails
    \/ Kill \/ Reopen

Spec == Init /\ [][Next]_vars

\* The writer thread and a thread inside a call are scheduled for ever; nobody
\* has to make a call, and no fault or kill has to happen.
FairSpec ==
    /\ Spec
    /\ WF_vars(Drain)
    /\ \A p \in Producers : WF_vars(Produce(p))

-----------------------------------------------------------------------------
\* The writer has met an error it is about to record or has recorded.
Failed == error \/ wpc = "error"

\* The record the writer has taken and not yet written.
InHand == IF wpc \in {"encode", "write"} THEN <<item>> ELSE <<>>

\* How many of the first n items of the queue are records.
RecordsIn(items, n) == Cardinality({j \in 1..n : items[j] # SENTINEL})

\* As long as the writer has met no error, the file, the record in the writer's
\* hand and the records of the queue are, in this order, exactly what append
\* accepted: the asynchronous hand-over of append, _drain and _write_one loses,
\* repeats and reorders nothing.
NothingLost ==
    log = "open" /\ ~Failed =>
        LET handed == RecordsOf(file) \o InHand
        IN  /\ Len(accepted) = Len(handed) + RecordsIn(queue, Len(queue))
            /\ \A i \in 1..Len(handed) : accepted[i] = handed[i]
            /\ \A i \in 1..Len(queue) : queue[i] # SENTINEL =>
                  queue[i] = accepted[Len(handed) + RecordsIn(queue, i)]

\* What the writer has put in the file verifies: as long as it has met no I/O
\* error the file is one unbroken chain under the signing key, and a record
\* canonical_json refused does not break it.  With no I/O fault at all this
\* holds over every kill, error and restart.
ChainIntact ==
    \/ log = "open" /\ ~Failed
    \/ Faults \cap {"write", "fsync"} = {}
    => WellChained(file, Key)

\* A flush that returned normally covered its records: they are in the file, in
\* order, and stay there when the process is killed and, with fsync_each, when
\* the machine is.
FlushedIsDurable ==
    (PowerLoss => FsyncEach) =>
        /\ acked <= Len(file)
        /\ \A i \in 1..acked : file[i].record = accepted[i]

\* Once the queue is drained and no error is set, the file holds exactly the
\* records append accepted, in their order, and head names its last line: this
\* is what generate returns as audit_head and verify_log is given as
\* expected_head.
HeadExactWhenDrained ==
    log = "open" /\ unfinished = 0 /\ ~error =>
        /\ head = HeadOf(file) /\ seq = Len(file)
        /\ RecordsOf(file) = accepted

\* A head is never handed out for a line that is not in the file, whatever the
\* writer's I/O did.
HeadIsOnFile ==
    log = "open" =>
        head = GENESIS_HASH \/ \E i \in 1..Len(file) : file[i].hash = head

\* A writer that stopped at the sentinel left nothing behind: what append had
\* accepted when the log was closed is what the file holds.
ClosedIsComplete ==
    closed /\ wpc = "exited" /\ ~error => RecordsOf(file) = accepted

\* No step rewrites the file: lines are only ever added behind the ones that
\* are there, an ordinary kill takes none of them, and a path that is opened
\* again keeps them all.
AppendOnly ==
    [][(PowerLoss => log' # "down") =>
          /\ Len(file) <= Len(file')
          /\ \A i \in 1..Len(file) : file'[i] = file[i]]_vars

\* A thread that waits in flush or close gets an answer, if the process lives.
FlushReturns ==
    \A p \in Producers :
        pc[p] \in {"flush_join", "close_join"} ~> pc[p] = "idle" \/ log # "open"

\* Every accepted record is written in the end or its loss is on record in
\* _error, where the next append or flush raises it.
AcceptedIsSettled ==
    \A n \in 1..MaxAppends :
        Len(accepted) >= n ~> Len(file) >= n \/ error \/ log # "open"

\* The log, seen by its callers, does what AuditClient says: in particular an
\* error is met on a record no flush has vouched for, and no flush returns
\* normally after it or over a record that could not be encoded.
Client == INSTANCE AuditClient
              WITH failed <- error,
                   IOFaults <- Faults \cap {"write", "fsync"} # {}

ImplementsClient == Client!Spec

=============================================================================
