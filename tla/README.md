# A TLA+ model of the WaveCrux SigRok bridge

The repository is a decoder plugin in two processes. A shared library (the
*shim*, `crates/shim`) is loaded by WaveCrux through a C ABI; it starts a
subprocess (the *bridge*, `crates/bridge`) that holds libsigrokdecode, and
talks to it over the child's stdin and stdout with length-prefixed JSON frames
(`crates/ipc`). This directory models the parts where the two processes, the
loader's threads, the library and the pipes have to agree, checks the models
with TLC, and proves the most important facts about the core with TLAPS.

All paths to code below are relative to `src/`.

## The system

| Component | State it keeps | Operations | Interacts with |
|---|---|---|---|
| C ABI (`shim/src/abi.rs`) | the static `REGISTRY` mutex | `register`, `create`, `feed`, `flush`, `destroy` | called by the loader, from several threads for different handles |
| Registry (`shim/src/registry.rs`) | cached definitions and manifests, its own supervisor | `populate`, `create_instance` | `Supervisor`, `SharedRegistry` |
| Instance (`registry.rs`) | session id, inbox, emitted strings | `feed`, `flush`, `take_and_drop` | `SharedRegistry` |
| SharedRegistry (`registry.rs`) | one supervisor behind the static `SHARED` mutex | `ensure`, one blocking call per request, `drain_pending_events_for` | locks `SHARED`, once per request and once more per drain |
| Supervisor (`shim/src/supervisor.rs`) | child process, next request id, event queue | `spawn`, `request`, `drain_events`, `Drop` | the bridge process, through two pipes |
| Framing (`ipc/src/codec.rs`) | none beyond the stream | `write_frame`, `read_frame` | pipes that may be cut anywhere |
| IPC loop (`bridge/src/ipc_loop.rs`) | the backend | one request at a time: events, then the response | backend trait, stdin, stdout |
| libsigrokdecode backend (`bridge/src/srd.rs`) | library sessions, levels, current sample, annotation accumulator | `new`, `create_session`, `feed`, `finalize`, `destroy`, `Drop` | the library and its callback |
| Mock backend (`bridge/src/mock.rs`) | sessions with scripted decoders | the same trait | the IPC loop |
| Manifest (`shim/src/manifest.rs`) | none | translate a decoder's description | registration |

What is hard about it:

- **Threads and two mutexes.** Different handles may be called from different
  threads (`docs/ARCHITECTURE.md:115-119`, `supervisor.rs:4-7`). `create` holds
  `REGISTRY` while it takes `SHARED`; `feed` takes `SHARED`, releases it, and
  takes it again to drain a queue that all sessions have in common.
- **Events before responses.** The shim stops reading at the response. What is
  not in the pipe before it belongs, in effect, to the next caller.
- **Death of the bridge at any point**, with requests unanswered, events
  half-written, frames cut in the middle; and death of the host, which drops
  nothing.
- **Three pipes with an end in each process.** Each may be full while somebody
  waits for another one: a request, an answer longer than the pipe, a log that
  nobody reads any more.
- **Retries.** `NEED_MORE_SLOTS` makes the loader repeat a call, and the shim
  then sends the same sample to the bridge once more.
- **Conversions that must agree across programs**: times to sample numbers and
  back, signals to bits and bits to channels.
- **A process to be replaced**, which may not want to exit.

## Modules

| Module | Models | Composed of |
|---|---|---|
| `IpcLoop` | the bridge's loop and session table, the two pipes, crashes | |
| `DecodeService` | abstract: what a handle promises, one handle at a time | |
| `ShimSessions` | the ABI calls on decoder handles, both mutexes, the request path; implements `DecodeService` | `IpcLoop`, `DecodeService` |
| `ShimSessionsProofs` | theorems about `ShimSessions`: types, requests in step, sessions and annotations, that it implements `DecodeService`, and that the calls never all wait | |
| `Registration` | the registration call, the cache, the life of a bridge process | |
| `RegistrationProofs` | theorems about `Registration` | |
| `SrdReplay` | one libsigrokdecode session: transitions to rows, annotations back | |
| `SrdReplayProofs` | theorems about `SrdReplay` | |
| `SrdLifecycle` | the libsigrokdecode backend's sessions and accumulators, stage by stage | |
| `SrdLifecycleProofs` | theorems about `SrdLifecycle` | |
| `ChannelPacking` | where each signal's level stands on its way to the library | |
| `ChannelPackingProofs` | theorems about `ChannelPacking` | |
| `OptionTypes` | an option's type and value, from the library to the user and back | |
| `OptionTypesProofs` | theorems about `OptionTypes` | |
| `FramePipe` | abstract: a queue of whole frames | |
| `FrameCodec` | framing byte by byte, implementing `FramePipe` | `FramePipe` |
| `FrameCodecProofs` | theorems about `FrameCodec`: types, and that it implements `FramePipe` | |
| `MockBackend` | the mock backend: session table, scripted decoders | |
| `RemoteBackend` | abstract: the mock backend called directly, at most once per request | `MockBackend` |
| `Connection` | a supervisor, a bridge and the draining thread over three pipes, byte by byte; implements `RemoteBackend` | `FrameCodec` twice, `MockBackend`, `RemoteBackend` |
| `ConnectionProofs` | theorems about `Connection`: types, that it implements `RemoteBackend`, scripts, no circle of waiting threads | `FrameCodecProofs` twice |

`MC*` modules and the `.cfg` files instantiate them for TLC. Definitions marked
*Mutant* in a comment are not part of the specifications: each is a variant of
the definition after it, with a plausible bug, under which one of the
properties fails.

### IpcLoop and ShimSessions

A call is cut into steps where the code takes or releases a mutex and where it
reads a frame; everything between is one action. `phase[h]` says where the call
on handle `h` stands:

| Step | Code |
|---|---|
| `BeginCreate`, `BeginDecode`, `BeginDestroy` | the callbacks of `abi.rs:207-294` |
| `Enter` | `create` locks `REGISTRY` (`abi.rs:220`) |
| `Refuse`, `Ensure` | `create_instance` rejects the configuration or cannot spawn; `SharedRegistry::ensure` |
| `SendRequest` | lock `SHARED`, take an id, `write_frame` (`supervisor.rs:106-111`), which writes the request (`Write`) or fails before its first byte (`WriteFails`): the bridge is dead, or the body of a create or a feed is over the limit (`codec.rs:78`) |
| `ReceiveEvent`, `ReceiveResponse`, `ReceiveEof` | the loop of `supervisor.rs:113-133`, and what each `*_blocking` function and callback makes of its end |
| `Drain` | lock `SHARED` again, `drain_pending_events_for`, `take_up_to` (`registry.rs:383-406`, `580-598`) |
| `ReadRequest`, `WriteFrame` | one turn of `ipc_loop.rs::run`, and `send` |
| `Crash` | the bridge dies: what it had not read or written is lost, what is in the response pipe is not |

The backend is seen through its trait: a feed or finalize produces some number
of annotations or fails. An annotation is its session and its place in the
sequence that session produced, which is enough to tell lost, repeated,
reordered and misdirected annotations apart. The supervisor's event queue is
kept by session, since a drain empties it whole and keeps one session's part.
Whole frames in the pipes are justified by `FrameCodec`.

`DecodeService` says the same of one handle without threads, mutexes, queues or
pipes: a call begins, may make annotations, hands over everything that is not
yet with the loader or asks for more slots, or fails; annotations are handed
over in order and once; and one is lost only while another handle's call
overlaps this one, or once the bridge is gone. `ShimSessions` implements it for
every handle at once (`ImplementsDecodeService`); the mapping takes what is
held for a handle from its inbox, the queue, the pipe and the outbox. That a
loader which makes one call at a time loses nothing is a consequence: nothing
overlaps.

Configuration parsing in `create_instance`, the registry's manifests and the
formatting of transactions are left out; the loader only makes calls on handles
it was given and one call per handle at a time.

### Registration

`Register` is the entry of `wavecrux_decoder_register` with the cache; then
`SpawnChild` or `SpawnFails`, `Reap` or `Kill` (the `Drop` of a replaced
supervisor, with its two-second deadline), `ListDecoders`, and `Store`, which
may panic half-way on a string with a NUL and poisons the mutex. Children exit
by themselves at any time. The list is represented by its length. Sessions use
another supervisor (`SHARED`), so this module does not meet `ShimSessions`.
Nothing drops the static registry, so the shutdown of
`docs/IPC_PROTOCOL.md:178-180` happens only when a supervisor is replaced.

### SrdReplay

`FeedFirst`, `FeedAdvance`, `FeedMerge`, `FinalizeStarted`, `FinalizeIdle` are
the branches of `feed` and `finalize`; each is the whole handler, with the
chunks it sends and the drain at its end. `SendFails` is the early return when
the library refuses a chunk. The library is external: it takes a chunk or
refuses it, and may raise annotations while it works. A feed carries one
transition, as the shim sends it. Refusals are counted: what a refused call
sent stays sent, and `RefusalIsMadeUp` says what the next call that succeeds
makes of it. `LastFs` is the last time a `u64` holds: the row that `finalize` sends
may end beyond it, where the drain's multiplication saturates (`FsOf`).

### SrdLifecycle

What `srd.rs` owns outside Rust: library sessions and the boxed accumulators
whose addresses the library keeps. `create_session` is one step per library
call, each of which may fail; `Destroy`, `BeginDrop`, `DropSession` and `Exit`
are `destroy` and `Drop`, whose releases `Release` does one at a time. The
steps are this fine because the library runs decoders in threads of its own,
which may raise an annotation between any two of them. An address that was
freed may be handed out again, so that a stale one is noticed. Which rows a
session has been sent is `SrdReplay`'s business, and `SrdReplay` starts where
this module's sessions are started.

### ChannelPacking

One instance, from its bindings to the row the library reads: the manifest's
two lists, the loader's packing (external), the shim's numbering and unpacking,
the frame's width, the levels, the row. The numbering loop is given in closed
form: a channel's position is the number of bound channels before it.

### OptionTypes

`ListDecoders` is the description of an option as it leaves the bridge
(`srd.rs:544-613`) and what the manifest makes of it (`manifest.rs:39-73`);
`Configure` is the loader, external: an option left alone is not sent, or sent
as it was advertised, or as a text where its kind is a string; an edited one is
sent as its kind says. `CreateInstance` is `coerce_float_options`,
`CreateSession` the conversion back and the library's check of types. A text is
represented by the number it parses as. That a loader keeps a JSON float a
float, even a whole one, is assumed; that decoders declare strings, integers
and floats only is how libsigrokdecode reads them from Python.

### FramePipe and FrameCodec

Bytes one at a time through a bounded pipe, the writing process free to die
between any two. The refinement mapping takes for the queue the bodies whose
last byte is in the pipe and which have not been returned. A byte may be
anything, so that other modules can send their messages through the codec
without encoding them first. The end of the file is the only failure of a read:
both ends of each stream are anonymous pipes, on which `read_exact` retries an
interrupted read and no other error arises, and a peer that dies is an end of file.

### MockBackend

The backend trait as `bridge/src/mock.rs` implements it. A script is a list of
spans relative to the time at which it is played, in millions of femtoseconds,
with its annotation class; labels and fields are left out. Additions wrap at
`Word`, which is what a release build does with an overflow; in a build that
checks, the bridge dies, which `Connection` allows at any time. An annotation that
wraps may end before it starts. Nothing in the repository says otherwise, so no
property forbids it; `ScriptsPlayOnce` takes its expectation from the script and not
from the additions, and leaves only the times open that lie past the axis.

### RemoteBackend and Connection

`RemoteBackend` is `MockBackend` with a caller: `Ask`, `Execute`, then `Return`
with the answer and its annotations, or `Refuse` before anything was executed,
or, once the backend is `broken` for good, `Fail` with some first part of the
annotations. `Connection` implements it with one bridge process and its
supervisor:

| Step | Code |
|---|---|
| `Ask`, `SendByte`, `SendFails` | `Supervisor::request` up to its `write_frame` (`supervisor.rs:106-111`); a body over the limit is refused |
| `ReceiveByte`, `ReceiveEof` | the receive loop, one byte at a time (`supervisor.rs:113-133`) |
| `BeginDrop`, `StopFails`, `Kill`, `Reap` | `Drop` (`supervisor.rs:142-165`) |
| `DrainLine`, `DrainEof` | `drain_stderr` (`supervisor.rs:286-291`), which ends at a line that is not UTF-8, and closes the pipe |
| `ReadRequestByte`, `BeginReply`, `SendFrame`, `WriteReplyByte`, `NextTurn` | one turn of `run` (`ipc_loop.rs:25-64`) |
| `WriteLogLine` | the logger, and what libraries print: a line waits for room, and is lost when nobody holds the other end |
| `ExitAfterShutdown`, `ExitUnread`, `ExitAtEof` | the ways `run` returns |
| `Crash`, `HostDies` | external: either process ends at any point |

Both directions are instances of `FrameCodec`, whose actions the steps above
take. A supervisor serves registration, which lists the decoders and may drop
it, or the sessions. Events stay in the queue here; who takes them is the
business of `ShimSessions`. The mapping to `RemoteBackend` counts the events of
an unfinished call only when it returns.

## Runs

| Run | Question | Bounds |
|---|---|---|
| `sessions_concurrent` | two threads, crash anywhere: do requests and responses stay in step, does each handle see its own annotations once and in order, do the session tables agree, does what was delivered stay, where exactly can an annotation be lost, is each handle a `DecodeService`, and can all calls under way wait for good? | 2 handles, 3 sessions, 6 requests, 2 annotations each, pipe of 1 frame |
| `sessions_liveness` | does every call return? | 2 handles, 2 sessions, 4 requests, pipe of 1 |
| `replay` | are the rows the waveform, are retries harmless, is a refused call made up for, does every annotation come out once, also after a failure? | 3 transitions, times 0..6 on an axis that ends at 7, 2 units per sample, chunks of 2, 2 channels of which 1 fed, 1 annotation, 1 refused chunk |
| `registration` | are decoders once announced kept, is the second call of the two-call protocol enough, is every process waited for, does a call return? | 3 processes, lists and arrays of 0 to 2 |
| `lifecycle` | does every failure give back what was taken, does the callback's target live as long as its session, is the library shut down last? | 4 sessions opened over 3 addresses |
| `packing` | does each decoder channel read its own signal, and do the channels fill the frame? | 5 channels, bytes of 4 bits |
| `options` | is what runs what was set, and is nothing refused without need? | 2 options, 3 numbers of which one is beyond an integer, texts that are none |
| `codec` | does the codec implement a queue of whole frames; do frames arrive? | 3 frames of 0 to 3 bytes, lengths of 2 bits, pipe of 3 bytes |
| `connection` | is a request executed at most once and answered with its own annotations, whatever dies at whichever byte; are scripts played once; can the three threads wait for each other; does every request and every drop return; does the bridge end with its host? | 3 requests, scripts of 2 and 3 annotations, pipes of one frame (2 bytes) and one log line, 2 log lines per request |
| `sessions_lost`, `sessions_respawn`, `registration_init` | disagreements with the documentation, below | as above |

Two handles are every interleaving of a call with the calls of others, since a
call touches only its own handle and what all share; they are interchangeable,
so the safety runs use symmetry. Three sessions let a handle be destroyed and
created again while the other lives. A pipe of one frame makes every write of
a second frame block. Six requests are two sessions created, fed
twice, retried and destroyed, in every order. With two units per sample and
chunks of two, a run is shorter than a sample, as long as a chunk, longer, and
not a multiple of one; a finalize after the latest transition sends a row that ends
at 8, past the axis. With bytes of four bits, five channels take three bytes
of a sample and two of a row; the alignment of a pair of bits to an even byte
size, which is all the code relies on, is the same as with eight.

The connection's pipes hold one frame, and answers have up to four, so that
each side blocks in the middle of an answer; the answer to a shutdown must fit,
as it does in a real pipe, for the supervisor does not read it. Three requests
create a session and feed it twice, or two sessions, or use one that is gone;
a decoder's script of the later time runs over `Word`. That more of them show
nothing new was tried with four, by hand.

With three addresses, one creation can fail half-way while two sessions are
open, and every address is used more than once.

Deadlock is checked in every run but `packing` and `options`, where an instance
that was created or refused has nothing left to do, and `lifecycle`, which ends
with the backend. `Rest` (`ShimSessions`, `Connection`) and `Done`
(`FrameCodec`) are the only places where the system may rest.

### Fairness

Weak fairness of each thread's own steps and of the bridge's loop: a thread
that can go on does. No strong fairness of the mutexes is assumed, because
`std::sync::Mutex` gives none; `CallsReturn` therefore admits that a thread
waits for ever while others make one call after the other for ever. Neither
the loader's next call nor a crash is fair. That the bridge's loop is fair
assumes that a decoder returns from each chunk: nothing in the code bounds it,
the receive loop has no timeout. `Kill` is fair because of the deadline in
`Drop`. In `Connection` the supervisor's thread, the draining thread and the
bridge are each fair as a whole: each is a single sequence of steps, and each
goes on when the pipe it waits for lets it.

## Where code and documentation differ

Each of these is a run that TLC finds violated.

- **A feed can return OK without its annotations** (`sessions_lost`). `feed`
  releases `SHARED` between its response and its drain; another handle's drain
  in that window empties the common queue and keeps only its own
  (`registry.rs:324`, `590`), against `registry.rs:311-312`. `LossOnlyInWindow`
  shows that, while the bridge lives, this is the only way to lose one, and
  `ImplementsDecodeService` that a loader with one call at a time never does.
- **A dead bridge is not respawned** (`sessions_respawn`): `ensure` looks only
  whether there is a supervisor (`registry.rs:470`), against
  `docs/ARCHITECTURE.md:197-199`. Nor is `Instance::failed` ever set.
- **A libsigrokdecode that cannot be initialised makes registration fail**
  (`registration_init`), where `docs/ARCHITECTURE.md:200-203` promises zero
  decoders (`abi.rs:130-133`).

Seen on the way, without a run: an indeterminate bit leaves the level as it was
under every policy and raises no annotation (`srd.rs:366`, against
`ipc/src/schema.rs:97`), an end of file within a frame's length is
reported as a clean close (`codec.rs:45`, against `codec.rs:39-41`), unknown operations are dropped without an
answer (`ipc_loop.rs:37-43`, against `docs/IPC_PROTOCOL.md:258-261`), the
error codes in use are fewer than those of `docs/IPC_PROTOCOL.md:242-246`, and
after `decoder_failed` the shim does not destroy the session but only returns
an error (`registry.rs:538-541`, against `docs/IPC_PROTOCOL.md:245`).

## Proofs

`ShimSessionsProofs` proves, for any set of handles, any bounds and any pipe
capacity, with the assumptions named in `IpcLoop` and `ShimSessions`:

- `TypeCorrect`: `Spec => []TypeOK`;
- `RequestsMatchResponses`: `Spec => []OneInFlight`.

Neither is inductive. That a drain looks up an existing session (type
correctness) rests on the session having come from the answer to this handle's
create, which rests on requests and responses being in step; and that in turn
on who holds `SHARED` when. The inductive invariant `IInv` is `TypeOK` with

- `LockInv`: which points of a call hold which mutex, and which know a session;
- `WireInv`: nothing is under way while `SHARED` is free; a request in the pipe
  is the only thing under way and belongs to the holder; frames in the response
  pipe and the outbox are events of the holder's session and, last of all, the
  response it awaits; a dead bridge has neither requests nor an outbox.

`InitTyped`, `InitLock`, `InitWire` give the base; `NextTyped`, `NextLock`,
`NextWire` the step, each split by action; `InvariantImpliesOneInFlight` goes
from the two streams to the wire they make up.

The module's second part builds on that invariant and proves `TablesAgree`
(`Spec => []SessionTablesAgree`), `OrderKept` (`Spec => []OwnInOrder`),
`NothingTakenBack` (`Spec => DeliveryOnlyAppends`) and `OneLossWindow`
(`Spec => LossOnlyInWindow`). Each rests on a strengthening of its own, proved
inductive relative to `IInv`:

- `SessInv`: no session number is given out twice, and the two tables are equal
  but for the request the bridge has handled and whose answer is on the wire;
- `ClosedInv`: a handle without session has been given nothing;
- `StreamInv`: what a handle was given, its inbox and its session's queue make
  up one rising sequence of its session's annotations, and the events on the
  wire follow it in their order;
- `QueueInv`: while the bridge lives, the queue holds annotations only for a call
  whose burst is being received or waits to be drained.

`KeptOrEmptied` and `OneOfThree` say once for all of them what a step does to a
handle: nothing, its end, or its drain.

Its third part proves `ServiceImplemented`
(`Spec => ImplementsDecodeService`): each handle is a `DecodeService`, whatever
the others do. `HeldFor` is what the mapping takes from the inbox, the queue and
the wire; `CutEvents`, `PrefixBehind` and `EventsAre` say what becomes of the
wire's part when a frame is read, written or lost. Two more invariants are
needed: a session number that was not given out yet has no annotations
(`UnusedInv`), and a call under way has no result yet (`ResultInv`). `StepService`
goes through the actions: those that move annotations along the wire are
stutters of the service (`Silent`), the response and the drain are its steps
(`DrainService`), and only the crash and a drain in the middle of another
handle's call may lose any.

Its last part proves `CallsAreNotStuck` (`Spec => []NoCallIsStuck`): in every
state in which a call is under way, a thread inside a call or the bridge can go
on. This is what of `CallsReturn` is a matter of states. `AnswerInv` adds to `IInv`
that while a thread holds `SHARED` and the bridge runs, the request is unread or
what is under way ends in the response; so the holder has a frame to take or the
bridge something to do (`HolderOrBridge`). With `SHARED` free only `REGISTRY` is
left to wait for, and whoever holds that is past it (`UnlockedGoesOn`).
`Waits(h)` and `BridgeGoesOn` are spelt out, since the proof system has no `ENABLED`;
each restates the guards of `ShimStep(h)` and `BridgeStep`, except that a create
may still be refused while it waits for `SHARED`, and a request may turn out too
large while the pipe is full.

`OptionTypesProofs` proves, for any options, any numbers and any width of
integers, `OptionsHonoured` (`Spec => []SettingsAreHonoured`) and
`OptionsAccepted` (`Spec => []GoodSettingsAccepted`). Its invariant says for
each stage what the next border relies on: the manifest is that of the declared
options, the config holds each wish in a form its kind allows, and what the
bridge gets arrives as what was wanted or belongs to a wish that cannot be
granted. `UneditedArrives` and `EditArrives` are the two ways a value can take.

`RegistrationProofs` proves, for any lists, slot counts and number of
processes, `RegistrationTyped` (`Spec => []TypeOK`), `AnnouncedIsKept`
(`Spec => []AdvertisedIsKept`), `ProcessesAreReaped`
(`Spec => []NoProcessLeftBehind`) and `SlotsAskedForSuffice`
(`Spec => SecondCallFits`). To its types the invariant adds `CacheInv` (nothing
is cached while a call still has to fetch; there is a manifest for each
definition unless a panic came between; who was asked for more slots was told
of what is cached now) and `ProcessInv` (only the registry's process and the one
being dropped are not waited for).

`SrdLifecycleProofs` proves, for any addresses and any number of sessions,
`NothingLeaks`, `CallbacksAreSafe`, `NothingFreedTwice` and `LibraryIsLast`: the
four invariants of the run `lifecycle`. None is inductive, since all speak of
addresses that may be handed out again. The invariant gives each live session
and accumulator one owner: the table, the `create_session` under way, or the
list of releases (`OwnerInv`); says which accumulator the library was given for
which session, and that a session on its way out points to no accumulator of
the table (`ArgInv`); and that a started session is in the table or is released
just before its accumulator (`StartedInv`).

`SrdReplayProofs` proves, for any number of channels, sample scale and chunk
size, `AnnotationsSurvive` (`Spec => []NothingDropped`) and
`RetriesAreHarmless` (`Spec => RetryIsHarmless`). The first rests on two lemmas
about annotations on the femtosecond axis: the conversion distributes over
concatenation, so that draining moves annotations from one side of the balance
to the other. That none ends before it starts, on an axis of any length, is
`FsOfMonotone`. The second rests on `FedInv`: the transition last fed has left its
mark on the levels and lies at or before the current sample.

`ReplayTyped` (`Spec => []TypeOK`), `RowsAreTheWave`
(`Spec => []ReplayIsTheWave`) and `RefusalsAreMadeUp`
(`Spec => []RefusalIsMadeUp`) are about the rows. First, what the chunks of a run
add up to is the run, row by row, for any chunk size (`ChunksCut`, `ChunksRun`,
`Flattened`), and a refused chunk cuts it short at some row. The inductive
invariant `ReplayInv` then says of the rows and the trace, without choosing an
index as the properties do: up to the current sample no row is further than one
from the one before it (`NoGap`), and as long as nothing was refused each stands
at its place (`Dense`); the current sample was reached by a transition
(`Reached`); the levels held are those of every later sample (`Held`), and each
sample passed has a last row that shows the wave there (`Covered`).
`ShowsWave` goes back from there to the choice of the last deciding transition.

`ChannelPackingProofs` proves, for any number of channels and any even size of a
byte, `FrameIsFilled` (`Spec => []PositionsFillTheFrame`) and `SignalsArrive`
(`Spec => []DecoderSeesItsSignals`). A channel's position is the number of bound
channels below it, so it grows along the order of the manifest's lists
(`BelowGrows`); a one-to-one map into as many numbers as there are channels
reaches all of them (`PositionsNumber`), and the greatest is what the bridge
sizes the frame by (`WidthIsNumber`). The loader's order is the order of that
numbering (`OrderIsNumbering`, by what a selection keeps of a list, `KeptFacts`),
bits cut into bytes are found where they were put (`BytesFacts`), and so the
shim hands on the value of each bound channel under its number
(`SampleArrives`). `SignalInv` adds to what the create leaves behind
(`FrameInv`) that a level of the frame is high exactly where the channel of that
position was last seen high; the theorem reads it through `pack_row`.

`FrameCodecProofs` proves, for any bytes, base, header, limit and pipe,
`CodecTyped` (`Spec => []TypeOK`), `NoFrameIsTooLarge` (the reader never meets a
length the writer would have refused) and `CodecImplementsPipe`
(`Spec => ImplementsFramePipe`). `LengthsSurvive`: decoding undoes encoding,
digit by digit. The invariant is that the bytes read of a frame, those in the
pipe and those not yet in it are, end to end, the frames that were sent and not
yet returned, up to what a dead writer withheld (`StreamIsFrames`), and that
what was returned is a beginning of what was sent (`InStep`); from it a byte
read either belongs to the middle of the next frame or completes it (`ByteRead`),
which is a stutter or a read of the abstract pipe.

`ConnectionProofs` proves, for any sizes of pipes, bodies and log, any creations,
times fed and number of requests, `ConnectionTyped` (`Spec => []TypeOK`),
`RemoteImplemented` (`Spec => ImplementsRemoteBackend`) and
`ScriptsArePlayedOnce` (`Spec => []ScriptsPlayOnce`). It assumes of the constants
what the code has: the limit of a body fits into the length of a frame
(`CodecAssumption`), creations are `create_session` requests, times are numbers
and there is one (`CreationsAssumption`, `TimesAssumption`).

- The codec is not proved about again: `FrameCodecProofs` is taken twice, once for
  each direction (`RP`, `SP`), so that what module `FrameCodecProofs` says of
  what was sent and what was read can be cited of both (`ReqWrite` to `ReqEof`,
  `RespWrite` to `RespEof`). `TypeOK` is not inductive, since what a body decodes
  to rests on the bytes in the pipe: `TypeInv` adds both codecs' invariants.
- `CallInv` follows the call: at most one request is still to be read, and it is
  the last one sent (`RequestInv`); nothing comes back before the request was
  executed (`NothingComes`); after that, what the shim has got of the answer and
  what comes, in the pipe or in the bridge, make up the reply, whole as long as
  the bridge runs (`AnswerComes`). `Quiet` covers the many steps that move bytes
  only.
- `RemoteStep` maps each step: the byte that completes a request is `Execute`,
  the one that completes the response is `Return`, a dropped connection is `Fail`
  with as many annotations as had arrived. `Had`, the annotations counted by
  the mapping, are those of the calls that returned.
- `ScriptInv` is proved by the steps of `RemoteBackend` and not by those of
  `Connection`: a session has nothing due until it has emitted, and from then on
  its whole script or, with the bridge gone, a beginning of it. `OfConcat` says
  what a longer sequence of annotations has of one session, and `PlayedIsPlaced`
  that what is played lies where the script puts it as far as the axis reaches.

Its last part proves `NoWaitingCircle` (`Spec => []NoCircularWait`): the
supervisor, the bridge and the draining thread never all wait. This is what of
`RequestsReturn` is a matter of states, for pipes of any size. `WaitInv` adds to
`CallInv` that an awaited request has left the supervisor and was not read
before (a codec that holds less than a frame, with nothing in the pipe and
nothing to write, has returned all that was sent: `AllArrived`), and that
while the shutdown request is being sent no answer is under way. So a bridge that
waits to write faces a supervisor that reads, a supervisor that waits to
write or to read faces a bridge that reads, and a bridge that waits for its log a
draining thread that does.

The provers do no induction over data by themselves, since the library's
induction theorems take a predicate. They do take a set: that a set of naturals
which has 0 and with each number the next has all of them (`Induction`) follows
from the least element of its complement (`LeastElement`), and that a primitive
recursion has a solution (`Recursion`) follows from that. The lemmas on
recursive functions (`PlaceIsDefined`, `SumIsDefined`, `KeptIsDefined`,
`OfSessionIsDefined`) rest on these. What stays opaque are `SelectSeq` and exponentiation, whose definitions
the provers do not get to see; the modules proved about have recursive functions
in their place (`Kept`, `EventsOf`, `OfSession`, `Place`).

Every invariant of every passing run, every action property and every refinement
is a theorem. Only model-checked are the liveness properties (`CallsReturn`,
`RegisterReturns`, `FramesArrive`, `RequestsReturn`, `BridgeLeavesToo`), which are
beyond the proof system, and the three properties the code violates.

## Not modelled

Listed with reasons in `PROJECT.json`: the texts of manifests, path resolution,
serde, the command line and the build, the repository's tools. Three hazards
listed there have no property: a decoder that never returns, against which the
code promises nothing, the strings handed to the loader, whose only
replacement is the one assignment in `HandOut`, and the mock's annotations past the
end of the time axis, above.

## Plan

Done, in order of importance: the session path (`IpcLoop`, `ShimSessions`) with
its first theorems; replay; registration; packing; framing; the lifecycle
of library sessions; options, with proofs; the abstract service of a handle;
the connection byte by byte, with the mock backend, the log and the end of
either process.

Then the proofs: requests in step, sessions and annotations, registration, the
library's resources, options; the refinements of `DecodeService`, `FramePipe` and
`RemoteBackend`; the rows of the replay, the way of the signals, and the scripts;
and that neither the calls of the shim nor the threads of the connection can all
wait.

Next: from `DecodeService`, as a theorem under its own assumption, that a loader
which makes one call at a time gets everything (`OkMeansComplete`, which concurrent
loaders see violated); and who waits in `Registration`, as for the other two.
