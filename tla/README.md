# clean-room-transformer: a TLA+ verification project

The repository is a small transformer runtime that treats its own activations
as untrusted. A model publishes every tensor that crosses a boundary; an
*integrity membrane* inspects it and raises when a contract is broken; the
*engine* rolls the step back and stops; an *audit log* on a thread of its own
writes a hash-chained, signed record of what happened, which an *offline
verifier* can check later. Beside it stand a library of Metal compute kernels
and two Haskell modules.

Scripts save and load checkpoints of a model and probe the membrane with
injected faults.

The modules here model the parts of that whose correctness depends on order,
interleaving, failure or index arithmetic. Source paths below are relative to
`src/`.

## 1. Inventory

| Component | State | Operations | What makes it correct |
|---|---|---|---|
| Audit log, `src/membrane/audit.py` 98-215 | the queue and its unfinished count, `_seq`, `_head`, `_error`, `_closed`, the writer thread, the file and its buffer | `append`, `flush`, `close` on any thread; `_drain` and `_write_one` on the writer thread; `__post_init__` | nothing accepted is lost, repeated or reordered; the file is one signed chain; a flush that returns vouches for what came before it; an error is never swallowed; no caller waits for ever; a file is never rewritten |
| Offline verifier, `audit.py` 218-301 | the running hash, the count, the failures | `read_entries`, `verify_log` | it accepts what the writer wrote and nothing else; the failure it names is the first |
| Engine, `src/runtime/engine.py` | the KV caches, the emitted tokens, the pending tokens, step and status | `generate`, `_snapshot`, `_rollback`, `reset` | a quarantined step leaves no residue; the caches are the history; the context is used up and not overrun; `generate` ends; the trail tells what happened |
| Membrane, `src/membrane/interceptor.py` | step, offset, bindings, report | `begin_step`, `on_state`, `gate_emission`, `_handle` | every boundary is inspected before execution goes on; ENFORCE stops, MONITOR only reports |
| Invariants, `invariants.py` | none | structural, mathematical and statistical checks | each yields its violations |
| Calibration, `calibration.py` | the collector's envelope, the profile | `calibrate`, `for_path`, `as_record`, `from_record` | no input of the corpus is flagged, every drift is, at any layer; a profile only ever guards the model it was fitted on |
| Identity of a model, `config.py`, `determinism.py`, `model.py` 22-79 | config, parameters | `schema_hash`, `generator_for`, `fingerprint`, `weight_fingerprint` | equal fingerprints mean equal parameters |
| Checkpoints, `scripts/load_checkpoint.py` | the checkpoint file, the loaded model | `save_checkpoint`, `load_checkpoint`, `build_engine` | what is saved can be loaded, and what loads with its hashes confirmed is what was saved |
| Mutation probe, `scripts/mutation_probe.py` | the patched functions of the membrane, the table of outcomes | patching and restoring, `classify`, `main` | each column measures the tiers it disabled |
| Policy, `policy.py` | none | `check` | range, denylist, repetition and budget |
| KV cache, `src/transformer/layers.py` 50-104 | keys, values, length | `reset`, `append`, `rollback_to` | a rolled-back cache is the one before the step, byte for byte |
| Transformer core, `model.py`, `layers.py`, `shapes.py` | weights (constant) | `forward` | each layer appends once and publishes before the next runs; a row depends on the tokens up to its own and on all of them, however the context was cut into passes |
| Metal kernels, `src/metal-transformer/Transformer.metal` | device buffers, one threadgroup array | 135 kernels | in bounds, free of races, each element the right one |
| Metal host, Haskell, demo, benchmark, report, container | | | not modelled, see section 8 |

How they interact. `generate` calls `forward` with the membrane as observer;
`forward` appends to each layer's cache and calls `on_state` between layers; an
exception from there is the only way a violation stops a step. The membrane and
the engine call `audit.append` from the middle of that; the writer thread runs
beside all of it, and its error comes back in some later `append` or `flush`.
A profile is fitted by running the model with the collector as observer, and the
membrane is built with it: there it is compared with the model's schema hash and
weight fingerprint. A checkpoint carries both hashes from one process to the
next.

What is hard: the writer runs concurrently with its callers and may fail, die
or be killed between any two steps; a step may be abandoned when some layers
have appended and others have not; exceptions other than `QuarantineError`
leave `generate` where they will; a context arrives in passes of any length over
caches each layer keeps for itself; files live on between processes and may be
torn or edited; functions are replaced at run time and must be put back; the GPU
runs the threads of a grid in any
order. `PROJECT.json` lists each such place under `hazards`, at its line.

## 2. Plan

In this order, most important first:

1. `AuditLog` (with `AuditChain`, and `AuditClient` as its abstract
   specification) and its proofs. *Done.*
2. `VerifyLog`, the other end of the chain, and its proofs. *Done.*
3. `KVCache`, `TokenPolicy`, and `Engine`, which composes them with the membrane
   and with an audit log that behaves as `AuditClient` says; its proofs. *Done.*
4. `MetalKernels` and `MetalGrid`; their proofs. *Done.*
5. `Calibration`. *Done.*
6. `Decoder`: the causal mask and the caches as a model of what each row depends
   on, so that incremental decoding is compared with one pass; its proofs.
   *Done.*
7. `TransformerModel` and `Checkpoint`, which composes them with `Calibration`:
   identity of models across processes; their proofs. *Done.*
8. `Probe`: the membrane's rules one by one over the fault corpus; its proofs.
   *Done.*
9. Proofs beyond those of each component's first properties: that `AuditLog`
   without kills implements `AuditClient`, and that nothing is lost on the way;
   the audit-trail properties of `Engine`; that a kernel whose threads do not
   share a written cell gives the same result under every schedule, and that
   every kernel of the library is of that kind, on all dimensions but those for
   which two of them race. *Done.*
10. `DenseDex` of the Haskell transforms against a reference on small indices.
    Left.

## 3. Modules

| Module | Models | |
|---|---|---|
| `AuditChain` | entries, hashes and signatures | A hash is the value it hashes, a signature the pair of key and hash: equal only for equal contents. |
| `AuditLog` | `class AuditLog` | Each read of `_closed` or `_error` and each call on the queue is a step, because other threads run in between. The writer's write, flush, fsync, advance and `task_done` are steps, each I/O step with a failing twin. `file` is what the operating system has, so it is also what a kill leaves; `synced` is what a power loss leaves. |
| `AuditClient` | what callers of a log may rely on | The abstract specification `AuditLog` implements (`ImplementsClient`) and `Engine` is built on. |
| `VerifyLog` | `read_entries`, `verify_log` | One action per fate of a line, the five checks in the code's order. |
| `KVCache` | `class KVCache` | Operators on a cache. Keys and values are written together, so one array stands for both; a row is the position and the token it comes from. |
| `TokenPolicy` | `TokenPolicy.check` | The set of rules a token breaks. |
| `Engine` | `generate`, `forward`, the membrane | One action per boundary and per statement that can raise. What a tensor is, of the kinds the checks tell apart, is chosen at each boundary. |
| `MetalKernels` | the kernels | For each kernel the loads and stores of each thread, by the index arithmetic of the code, and beside them the result by row, head, token and dimension. Arithmetic is symbolic. |
| `MetalGrid` | a dispatch | The threads take their accesses in any interleaving; `threadgroup_barrier` is the only synchronisation. |
| `Decoder` | `forward` through its layers, `begin_step`, the causality rule's cells | A row is the set of the positions and tokens it was computed from. The caller cuts the context into passes as it likes, with or without caches, and any observer may raise. Built on `KVCache`. |
| `TransformerModel` | `ModelConfig`, the parameters, the fingerprints | A parameter is its name, its layer and what its generator draws for a seed and a name, unless written over. |
| `Calibration` | `calibrate`, `CalibrationProfile`, `check_magnitude` | A tensor is its largest magnitude and its largest row norm. It has no specification of its own: `Checkpoint` runs its actions on the model a process has loaded. |
| `Checkpoint` | `load_checkpoint.py`, the refusals of `IntegrityMembrane.__init__` | Processes one after another: one saves, an editor changes a value, takes one out or puts another hash in, another loads, calibrates, mounts, or ships its profile to a third. |
| `Probe` | `mutation_probe.py`, the fault corpus of `tests/conftest.py`, each rule of the three tiers | A tensor is its shape, dtype, finiteness and the measures the rules take. One action per boundary, with the patched functions as part of the state. |
| `MC*` | instances for TLC | |
| `EngineProofs` | theorems on `Engine`: caches and emissions, then the audit trail and the report | The second part uses the invariant of the first. |
| `MetalGridProofs` | theorems on `MetalGrid`, for every kernel of `MetalKernels` | What a schedule can do to threads that keep apart, then that the threads of each kernel do. |
| `AuditLogProofs`, `VerifyLogProofs`, `DecoderProofs`, `CheckpointProofs`, `ProbeProofs` | theorems on the module they are named after | `AuditLogProofs` has the refinement of `AuditClient`, `CheckpointProofs` the theorems on `Calibration`. |
| `SeqFacts` | lemmas on sequences and on counting in them | |

The names are the source's where TLA+ allows. Variables correspond one to one:
in `AuditLog` `queue`, `unfinished`, `seq`, `head`, `error`, `closed`; in
`Engine` `caches`, `emitted`, `pending`, `snapshot`, `step`, `status`. Variables
commented "history" exist for the properties only.

Definitions with a suffix (`put_lifo`, `Joined_early`) are wrong variants of the
definition they are named after, none of them used by a specification. With the
variant in place of the original the property listed beside it in `PROJECT.json`
under `mutants` fails: this shows each property depends on the code.

## 4. Runs

| Run | Instance | Distinct states | Shows |
|---|---|---|---|
| `AuditSingle` | one thread that appends, flushes and closes; write, fsync and encoding errors; 4 records | 12,645 | `NothingLost`, `HeadIsOnFile`, `ClosedIsComplete`, `FlushReturns`, `AcceptedIsSettled`, and that the callers see `AuditClient` |
| `AuditCrash` | two threads share the log, `fsync_each`, every error, kills and power losses, reopening, 3 records | 138,361 | `ChainIntact`, `HeadExactWhenDrained`, `FlushedIsDurable`, `AppendOnly` |
| `VerifyLog` | every file of up to four lines out of fourteen kinds of line | 179,262 | `AcceptedIsWritten`, `FirstFailureIsReported`, `UntouchedIsAccepted` |
| `EngineEnforce` | ENFORCE, capacity 4, 2 layers, 4 tokens, 6 prompts, every kind of tensor, one fault, failing log | 19,777 | caches, context, emissions, trail, inspection, termination |
| `EngineMonitor` | MONITOR, capacity 3, two sessions of two tokens, one fault, failing log | 59,979 | `ShadowReportsEveryOccurrence`, `ReportCountsTrail`, `CacheIsHistory` across sessions |
| `Metal` | 111 dispatches on two shapes, up to nine threads, the two kernels that race among them | 175,502 | `InBounds`, `RaceFree`, `ResultIsReference`, `DispatchEnds` |
| `Decoder` | contexts of up to four of two tokens, three layers, every way to cut them, raises at any boundary | 80,159 | `RowsArePrefixes`, `CachesAreTheContext`, `FrameFitsPass` |
| `Checkpoint` | two configs to save, up to three edits to any of eight fields, three keys and two hashes, every parameter written over, corpora of up to two inputs, four margins | 1,069,094 | `QuietLoadIsFaithful`, `IntactRoundTrips`, `MountedProfileIsOwn`, `ReplayIsClean`, `DriftIsFlagged` |
| `Probe` | the fourteen faults of the corpus, and each of them in each of four layers, in six columns | 12,204 | `EachTierIsMeasured`, `CaughtWhereInjected`, `ProbePasses` |
| `AuditOpenFails` | `open()` fails on the writer thread | | violates `FlushReturns` |
| `EngineResidue` | the log fails inside a step | | violates `NoResidue` |
| `EngineUnrecorded` | a measured value is infinite | | violates `DivergenceRecorded` |

Bounds, and why they are enough. `MaxAppends` 3 or 4: the writer holds one
record, one is in the buffer of a failed flush, one behind it in the queue and
one accepted later, which is every relation two records can be in. Two
producers: nothing in the code tells a third from a second. Files of four lines:
verify_log looks at one entry and the one before; two entries, one between and
one behind are the shortest file where reorder, repeat, removal and insertion
differ. Capacity 4, two layers: a prompt of two, two more steps and the
overflow; a fault in the first layer, between the two and in the last. `Faults`
1 or 2 bounds how many boundaries go wrong, not which. Metal: rows of odd and
even length, head dimension 2 (one rotated pair), shared and unshared key heads,
a second layer, a context longer than the sequence. Decoder: a prompt, two later
passes and a rejected one; three layers are the first, one with a layer on
either side, and the last. Checkpoint: one or two layers and one not in the
model, values that order magnitude and norm differently, a norm that overflows;
three edits (`MaxEdits`), which are a field and both hashes, and one where
something is calibrated (`MaxFitEdits`), since what is fitted depends on what
was loaded only; each field has values that are refused, by `ModelConfig` or by
the model's constructor, or not, as it can. Two configs, since a profile or a
checkpoint is only ever compared with one other. Probe: the default model and
prompt of the script, so nothing is scaled down.

Deadlock checking is off where the program may stop: a log that is killed or
closed, a file read to its end, a session nobody follows with another, a grid
that is done, a profile that is refused, a probe that has its verdict. It is on
in `AuditSingle`, where someone can always call again or the writer can always
go on, and in `Decoder`, where another pass or a reset is always possible.

Fairness. `AuditLog`: weak fairness of the writer thread (`Drain`) and of a
thread inside a call (`Produce`); both are ordinary threads that are always
ready to run when their step is enabled. Calls, faults and kills are never
forced. `Engine`: weak fairness of `generate`'s own steps and of the writer
meeting a record it refuses, the same two threads; I/O faults are not forced.
`MetalGrid`: weak fairness of each thread of the grid, since a threadgroup is
resident as a whole. `Probe`: weak fairness of `Next`, as the script is one
thread that goes on until it ends. The other modules only have safety
properties.

## 5. What the runs found

Three statements of the repository do not hold of its code.

* `AuditOpenFails`: `_drain` opens the file outside its `try` (`audit.py:180`).
  When that fails nothing is kept in `_error` and nobody empties the queue:
  `flush` waits for ever, where `audit.py:103-104` says it re-raises "any error
  the writer hit, so a failure cannot pass unnoticed".
* `EngineResidue`: `generate` only catches `QuarantineError` (`engine.py:145`).
  The `RuntimeError` of `audit.append` inside the membrane leaves without
  rollback, and the abandoned rows stay in the caches until the next `reset`.
  `engine.py:11-14` promises the rollback "If the membrane raises anywhere in
  that sequence".
* `EngineUnrecorded`: a violation may measure an infinity (`invariants.py:233`),
  which `canonical_json` refuses, so the divergence that stops the session is
  the record missing from its log, where `engine.py:12` says it "records the
  divergence, and stops generating".

Limits of the same kind that the models contain and no run is spent on. After a record
that cannot be encoded the writer goes on without it, so a drained file verifies and is
not complete (`audit.py:188`); the error is raised to the caller, and `NothingLost` ends
there. After a failed flush the line left in the buffer and the next line carry one
number, and the writer's own file is rejected (`audit.py:208`); `ChainIntact` is about a
log without I/O errors. `verify_log` raises instead of reporting on JSON that is no
object, on a link or a signature that is no string (`audit.py:274`, `288`) and on a NaN
in a linked record; `FirstFailureIsReported` says that it does so only at the line where
the writer's entries end. A NaN among the largest logits ends a MONITOR run with
`RuntimeError` (`interceptor.py:230`). `rope_qk` races on a key head that several query
heads share (`Transformer.metal:223-247`), and `rmsnorm` on `accum` when the row is
longer than a simdgroup (164): both with the dimensions `MetalTransformer.swift:4`
defaults to. The runs dispatch both, `Raced` names the two buffers, and `RaceFree` says
that there is no other race and none for other dimensions. A second thread that appends
while another closes may leave its record behind the sentinel; the repository closes
from the thread that appends. A NaN margin passes `margin < 1.0` and yields an envelope
that flags nothing.

`load_checkpoint.py` calls `model._named_parameters()` (59) and
`model._load_parameters()` (91), which no model has: saving weights raises
`AttributeError` behind the written checkpoint, and an archive that is there can
never be loaded, where line 13 calls it "optional". `write_text` (54) empties
the old checkpoint before it writes the new one. A mismatch of either hash is a
warning and the run goes on. Of the config only what shapes or seeds a parameter
is in the weight fingerprint: with `schema_hash` taken out of a checkpoint, the
fingerprint is confirmed for a model with another number of heads or another
`norm_eps`; `QuietLoadIsFaithful` says what each hash vouches for. The script
prints a quarantine by iterating over the keys of a dict (188-190) and raises
there. With `max_seq_len` 4 or less `default_corpus` has no length to draw and
`build_engine` raises.

## 6. Proofs

The theorems are checked by TLAPS for every value of the constants, from the
assumptions named in `AuditLog`, `VerifyLog`, `KVCache`, `TokenPolicy`, `Engine`,
`Decoder`, `Calibration`, `Checkpoint`, `Probe` and `MetalGrid` alone (bounds are
natural numbers, the sentinel is no record, the values of a config are numbers,
and the like). None of the assumptions on the Python code is stronger than its own
constructors. The kernels check no dimensions, so `Dims` of `MetalGrid` states what
they need: even heads, no more key heads than query heads, a token of the
vocabulary, a sequence that fits the context. TLC evaluates all of the assumptions
on its runs. Two theorems have a hypothesis of their own, a fact about
how the log is used: `CloseComplete` that one thread uses it (`OneThread`), since a
record another thread appends behind the sentinel is lost, and `ClientRefinement`
that nobody kills the process (`~Crashes`), since `AuditClient` has no kill.

TLC checked the invariants below on the component's runs before they were proved,
but for the parts of `IInv` of the audit log it cannot evaluate and for `GridInv`,
which says of functions over an unbounded range that they exist; of that one it
checked what follows.

*Audit log.* `Invariance` proves the inductive invariant `IInv`. It is needed
because no safety property is inductive: that the file is a chain says nothing
about the line the writer is about to write. `IInv` therefore follows a record
from the call to the disk: the queue is the accepted records not yet taken, with
the sentinel at most at its end; `unfinished` is the queue and the item in hand;
`seq` and `head` are those of the file until the line is out, and one behind
between write and advance; what a waiting flush was told to cover is at most
what was accepted; and a flush past its join has all of it in the file. From it
follow `TypeCorrect`, `ChainIntegrity`, `FlushDurability`, `HeadExact`, and,
with one look at each action, `NeverRewritten`. `SeqFacts` holds the facts on
sequences the proofs cite.

*What callers see of it.* `NothingLost` counts the records in the queue rather
than filtering it, so that a `put` and a `get` are one step of that count:
`NoRecordLost`. `HeadOnFile` needs in addition that the line the writer is about
to take its head from is the last of the file. For `CloseComplete` the invariant
(`SoloInv`) is that with one thread no record is accepted once its `close` has
found the queue drained. `ClientRefinement` maps each step of callers and writer
to a step of `AuditClient` or to a stutter: an `append` that goes through, a flush
that returns and the writer's first error are its steps. For that `ClientInv` says
that a flush vouches only for records the writer is done with, and that an error
has a cause.

*Engine.* `IInv` says for every program counter what each layer's cache is:
the committed rows, and for layers the pass has gone through also those of the
step. With the snapshot equal to the committed length in every step, rollback
is never refused (`RollbackSucceeds`) and gives back the cache that has held
only the history (`CacheCorrect`), zeros included. `ContextCorrect` and
`EmissionCorrect` follow from the room left in the context and from the policy
having seen the prompt and each emission.

*The trail of a session.* The trail is the log behind its last `session_open`,
so every property of it is about a suffix of a growing sequence. `TrailCases`
reduces a step to one of eleven things that can happen to it, and each property
has an invariant over those: `StopInv` that a divergence leaves an ENFORCE session
in the few places from which it only closes (`StopsAtDivergence`); `TokensInv` that
the emission records are the tokens so far, with the one in between the log and
`emitted` (`TrailTells`); `BoundaryInv` that the record of boundary b of step k is
at `Place(k, b)` (`EveryBoundary`), for which each program counter has the number
of boundaries behind it; `ShadowInv` that the divergences at emissions are as many
as the forbidden tokens, the one at the gate included (`ShadowReports`);
`ReportInv` that the counts agree with the log, but for the one divergence a failed log refused
(`ReportCorrect`), over all sessions.

*Verifier.* `ReadInv` says of the lines that passed that their entries are the
writer's first `count`, that the running hash is the one the next entry has to link
to, and that the reading stopped only at a line that is not the writer's next or at
the end. Because a hash is what it hashes, an entry that
passes the five checks after the writer's n-th is the writer's next, and the
converse; and a reason is named only if the checks in front of it (`FirstToTell`) hold
of the entry: `AcceptsOnlyWritten`, `ReportsFirstFailure`, `AcceptsUntouched`.

*Decoder.* What a row depends on at a later boundary follows from what the
caches held of earlier passes, so none of the three properties is inductive.
`IInv` gives, at every boundary of a pass, the caches of the layers the pass has
gone through (the context and the chunk) and of the others (the context alone),
the rows of `x` (embeddings before the first layer, prefixes after it), and the
mask and the extents in terms of `offset`. The lemmas on caches say that
appending the rows of a chunk to the cache of a context gives the cache of both
and that cutting it back gives the first again; `MixesToPrefix` says that a row
which attends to all rows up to its own depends on all tokens up to its own.
`RowsCorrect`, `CachesCorrect` and `FrameCorrect` follow. `rollback_to` is never
refused there either: `ChunkHolds` and `ContextHolds` include it.

*Checkpoints and calibration.* `CheckpointInv` has five parts. `FileInv`: the hashes in
the file are those of the config last saved, but for those an editor took out or
replaced (`rewritten`): who replaces a hash decides what it confirms, so
`QuietLoadIsFaithful` is about hashes that were not. `LoadInv`: a hash that was
confirmed is the one in the file and the model's, which stays so because nobody writes
the file while a model is loaded. `MountInv`: the profile names the model it was fitted
on, and `ShipLossless` that the record brings it back whole. With equal fingerprints and
schema hashes two models are one (`SameModel`): `QuietLoad`, `RoundTrip`,
`MountedIsOwn`. `SeenInv`: the collector has for each boundary the largest of what it
was shown there, one of them attains it, and once a pass is over no boundary is missing.
`EnvelopeInv`: the profile is that, widened. `ForPathCovers` carries both to the bound
`for_path` finds, also that of a layer the profile does not have, for which the largest
of finitely many bounds has to exist (`MaxOfFinite`); `ReplayClean` and `DriftFlagged`
compare a tensor with it.

*Probe.* The run has the corpus and the model of the script; the theorems have any
number of layers and heads, any widths, any prompt of at least two tokens (with one
there is no future for a mask to leak) and any faults in any order. `PatchInv` says
that the functions are those of the column's first `Len(undo)` entries and that
`undo` holds what was imported, so a restored membrane is the imported one;
`OffIsPatched` reads off it which rules are off. `FlowInv` follows the tensor: clean
before the faulty layer, corrupted in it, and behind it (`Behind`) such that no rule
that is on tells it from a clean one, but for a shape that crashes the next layer or
the head. `FaultyHidden` and `FaultyWeights` say what is found of each fault where it
is; `BehindPasses`, that nothing is found later. `LaterInv` has what gets to a second
token, `CountInv` the boundaries inspected in the first pass. `TiersMeasured` and
`CaughtEarly` follow at every return of `classify`.

*Metal kernels.* `Dims` says which dimensions a model can have, the run takes two
of them, the theorems take all, with a grid of any size and any number of
threads. `InBounds`, `RaceFree` and `ResultIsReference` are not
inductive: what a store leaves depends on everything its thread has loaded. The
proof goes by what a thread does alone. An outline of a kernel has for each
thread and each phase, the time between two barriers, the cells it may access and
those it may store to, what all cells hold when the phase begins, and the state
the thread comes to after each of its steps if nobody else runs. It is an outline
only if no thread stores to what another may access in that phase, and if what the
threads leave is the result.

The first part of the module is about schedules. `GridInv` is `InOutline` or
`InConfines`. `InOutline` says that there is an
outline of the kernel dispatched such that every thread is where it has it after
as many steps (`Follows`), that no thread is ahead of another by more than one
barrier (`Lockstep`), and that the cells a thread may access hold what it finds
alone, those nobody stores to what they held when the phase began (`Holds`).
Loads keep it because of `Holds`, stores because no other thread has anything to
do with the cell, and the first thread through a barrier because the others are at
it. `InConfines` is for the kernels and dimensions that race and so have no result:
each thread is at a place of its own program (`Reaches`), its accesses are in the
buffers, and those of two threads meet only in loads or in the raced buffer. From
the two follow `ThreadsInBounds`, `ThreadsDoNotRace` and, once all outlines
are at their end, `GridMakesReference`.

The second part gives every kernel of the library an outline (`LibraryIsSound`).
`Index`, `Size`, `FlattenSeq` and the loops of the kernels are recursive functions, of
which each lemma says what they return up to some n, by induction over that n alone: for
a set of numbers, the least number not in it (`Induction`). The rest is division with
remainder: the elements of a buffer have one place each within its size, and place and
element determine each other. Only `rmsnorm` has two phases; its outline has what every
lane of `accum` holds at the barrier. With several simdgroups, and for `rope_qk` with
shared key heads, the lemmas `RmsnormConfined` and `RopeConfined` take the place of the
outline. `Dims` has `kv_heads <= q_heads`: `qkv_projection` and `qkv_gqa` are dispatched
over the query elements, which is how their guards read, and would leave out a key head
behind the last of them.

Only model-checked: liveness (`FlushReturns`, `AcceptedIsSettled`,
`GenerateEnds`, `DispatchEnds`, `ProbePasses`), which the prover does not handle.

## 7. Abstractions

* Hashes do not collide and signatures cannot be made without the key.
* `AuditLog`: `queue.Queue` is its documented behaviour (`put`, `join`,
  `task_done`); `time_ns` is left out; a failing `write` or `flush` leaves the
  line in the buffer or on file whole, never in part. `join(timeout=5.0)` may
  return early.
* `VerifyLog`: keys of an entry other than its five are left out; `verify_log`
  does not look at them. A record of the writer's is one `canonical_json` takes.
  Of the values JSON has, a field may be one of the right type, or a `prev` or `sig`
  that is no string.
* `Engine`: a tensor is one of the kinds the checks distinguish. The kind is
  chosen at each boundary on its own, a superset of what a model computes. The
  exact rows matter for the caches only. A tensor with too few rows is refused by
  the next layer; in MONITOR the code refuses it at the head at the latest. A log
  that failed in `open()` is left to `AuditLog`.
* `Decoder`: norms, projections and the feed-forward work row by row and leave
  what a row depends on as it is; attention adds what it attends to. Two rows
  that depend on the same tokens are taken to be equal, floating-point
  summation order apart. A raise at the embedding, the final norm, the logits or the
  gate finds the caches of the layer boundary before it and is not a case of its own.
* `Checkpoint`: a process has the file to itself while it writes or reads it,
  which is how the script is used; an editor changes one value at a time, and the
  hashes it can put in are those of a config saved or of the one in the file.
  `calibrate` is given the config of its model, as `build_engine` does. Fields hold
  numbers (`CheckpointAssumption`).
* `Probe`: a clean tensor stays within its envelope, a corrupted one is beyond
  the margin by the factors the corpus uses, and a norm of rows that were run
  together may be either. The final norm may or may not bring an exploded
  magnitude back within the envelope. NaN comparisons are false, and the argmax
  of NaN logits is a token.
* `MetalGrid`: a kernel free of races cannot tell sequential consistency from
  the device's memory; the grid is one threadgroup. `half` rounding is left out.
  Counts are taken as passed: the by-value `uint count [[buffer(n)]]` of some
  kernels (line 625 and others) is modelled as the reference it would have to be.

## 8. Not modelled

* Metal: `rope_qk_full` (250-286) lets even and odd threads rotate the key pair:
  it races for all dimensions and has no result to check. What `rope_qk` and
  `rmsnorm` leave where they race is not checked either. `rmsnorm` is dispatched on
  whole simdgroups: in a part of one, lanes of `accum` are read unwritten. `sum_rows`,
  `max_rows` and `qkv_head_lift` have no guard and are dispatched on exact grids.
  `causal_mask_ragged` (506-519) and
  `attention_diag_mask_narrow` (1781-1794) take the token from the index in the
  threadgroup, which on a one-dimensional grid is tied to the head.
  `prefix_cache_update` (812-832) assigns through a `const` pointer.
* `MetalTransformer.swift`: its `init` asks for `rope`, `qmatvec_i4` and other
  kernels the library does not have and throws; `dispatch` is never called.
* The numbers of the linear algebra, rounding, and the random draws themselves:
  pure functions.
* The membrane's counters by tier and rule, sums of what `Engine` records.
* `demo.py`, `benchmark.py`, `verification_report.py` and
  `run_verification_suite.sh`: straight-line use of what is modelled, timing and
  printing. The fault table of the report is the first column of `Probe`, its
  clean traffic a MONITOR run of `Engine`, its tampered log a file of `VerifyLog`.
* Haskell, container, the tests but for the fault corpus: see `PROJECT.json`.
