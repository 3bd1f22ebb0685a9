# eiviz: formal models

eiviz is a vision mixer: it takes video inputs, composes them into scenes, puts
scenes on the Preview and Program buses of its mixing units and sends the result
to windows, NDI, OMT and RTMP. This directory holds TLA+ models of its control
plane, of the session it keeps and of the mixer core that plays it (mixing units,
scenes, outputs, file playback, the frame clock), the TLC configurations that check
them, and TLAPS proofs of the results that hold for every size of the system.

Paths below are relative to the root of the repository.

1. [The system](#1-the-system)
2. [What is modelled, and where](#2-what-is-modelled-and-where)
3. [What the runs check](#3-what-the-runs-check)
4. [Where the code and its documents disagree](#4-where-the-code-and-its-documents-disagree)
5. [What is proved](#5-what-is-proved)
6. [What is not modelled](#6-what-is-not-modelled)
7. [Plan](#7-plan)

## 1. The system

### How the parts interact

```
 desktop hosts (C#, Swift)      remote hosts            vMix clients
   |  C ABI        |              |                        | HTTP, TCP
   |               |        eiviz-remote (C ABI, runtime)  |
   |               |              |  WebSocket             |
   |               +----> eiviz-api: one connection loop per client
   |                              |  one request at a time per connection
   |                              v
   |            ControlService   <--- one mutex for all of it
   |              session store, event ring, request cache, resource statuses
   |                              |  ControlPort (plan of operations, live commands)
   v                              v
 mixer_create/destroy  ->   mixer core  <---- render thread, every frame
                              units, scenes, outputs, streams, audio
                                |             ^
                 mailbox, ring  v             |  upload store
                       send workers       video pumps (one per file)
```

Seven kinds of thread or task take turns here, and nearly every hazard below is
about two of them:

- *Connections* (`handle_ws` in `crates/eiviz-api/src/server.rs`). Each serves one
  request at a time, and between requests drains the event ring on a 16 ms tick.
  An operation of the service is one section of the service's mutex; a request may
  need several (a command, then the snapshot of its answer).
- *The host*, which calls `mixer_create` and `mixer_destroy` of the C ABI
  (`mixer/src/lib.rs`) without waiting for that mutex.
- *The render thread*, which advances transitions, fades and scene animations at
  every frame (`tick_unit_transitions`, `tick_scene_animations`), under the mixer's
  own lock: it runs between two operations of one publish. It draws the outputs from
  a snapshot it took under that lock, so an output may be removed under its hands.
- *The HTTP worker* of the vMix API (`mixer/src/vmix_api.rs`), which takes the service's
  mutex for every function it is asked for.
- *Send workers*, one thread per output (`mixer/src/output.rs`), behind a mailbox.
- *Video pumps*, one thread per file (`mixer/src/media.rs`), which the host steers
  through atomics alone.
- *Clients*: a worker task that reads the connection and applies what it reads to
  the view (`session_once` in `crates/eiviz-api/src/client.rs`), the tasks that
  call it, and the coalescer that sends fader positions (`set_mix` in
  `crates/eiviz-remote/src/lib.rs`).

Processes share the connection, which may break at any time and is opened again by
the client's supervisor, and the session file: the service, a host and the command
line may save the same path. What is on disk: that file and uploaded media.

### The components

For each: the state it keeps, what changes it, what is hard, what makes it correct.

**Control service** (`crates/eiviz-control/src/service.rs`, `session/store.rs`,
`lifecycle.rs`). State: the lifecycle, the document with its revision, the statuses
of the resources, the event ring, the request cache. Operations: `replace_session`,
`mutate_session`, live commands (Preview, cut, AUTO, mix, overlays, audio, video),
`create_runtime`, `destroy_runtime`, `abandon`, `snapshot`. Hard: a publish stores
the document before the mixer hears of it and must take back both when an operation
fails; it can also fail after it took effect; hosts edit copies that others have
overtaken; the mixer is destroyed beside the mutex. Correct: a revision names one
document; `expected_revision` loses nobody's edit; what the session has, the mixer
runs or has refused.

**Session reconcile** (`session/reconcile.rs`). State: none of its own; it compares the
previous document, the next one, and the statuses of the last publish, and gives a list
of port operations. Hard: each step decides from documents and statuses, not from what
runs; adds are refused and the publish still succeeds; a media file may be gone; a plan
breaks off in the middle and a second plan leads back. Correct: nothing runs that the
session does not want; what a publish does not change is not interrupted; what failed is
retried.

**Request cache** (`execute`, `remember` in `service.rs`). State: a map of outcomes
by request key and a queue of keys, at most 1024 for 60 s. Hard: map and queue are
kept in step by hand. Correct: it is bounded, and a retry does not run twice.

**Event ring** (`event_hub.rs`). State: a ring of events, the next number, the count
of dropped events. Hard: it overflows between two drains; readers subscribe from any
number. Correct: a reader loses only the oldest events it was owed, and learns how
many.

**Control API connection and client view** (`eiviz-api/src/server.rs`, `client.rs`).
State: per connection the last number sent and whether it subscribed; per client the
document, its revision, the sequence, the lag flag and the pending requests. Hard:
events, replies and second applications of replies interleave; a snapshot and the
number in it come from a section of the mutex of their own; the connection breaks
with requests under way. Correct: the view's document and revision belong together;
a view without lag is current; every call ends.

**Media upload** (`client.rs`, `server.rs`, `media.rs`). State: the uploads in
progress, the pending commits, staging and media files, the inputs of the session.
Hard: a deadline on the client, an abort racing a commit that is being served, broken
connections, failing disks, and three locks in one commit. Correct: files, lists and
inputs agree, and the caller is told the truth.

**Mix coalescer** (`eiviz-remote/src/lib.rs`). State: the newest value of each unit,
the `scheduled` flag, the flush task. Hard: the flag is exchanged outside the lock
under which it is given up. Correct: one flush task, no value left behind, in order.

**Mixing unit** (`LiveUnit` in `mixer/src/lib.rs`, `anim/clock.rs`, the tick of
`render.rs`). State: both buses, the mix, the incoming picture that is held, the AUTO
under way, the overlays and their fades. Hard: operator, publish and render thread
write the same unit; the end of a transition looks for its picture after the AUTO is
gone; frames come late and the master rate changes. Correct: a transition lands on
the picture it showed; what is held stays; a transition stops at rest; overlays
follow the document.

**Session document rules** (`session/mod.rs`, `mutate.rs`, `edit.rs`, `validate.rs`).
State: the document: inputs, scenes with layers, states and sequences, units,
overlays, settings, and the counters of the next ids. Every edit works on a copy that
is canonicalized and validated. Hard: things name each other by id, clients choose ids
too, and the file's codec has no zero. Correct: references are whole, a new id is
fresh, a state goes on naming the layers it named, a reload keeps what the file can hold.

**Session file** (`session/file.rs`). State: the file, its history, a temporary file
beside it. Hard: failures and loss of power between two steps of a save, and savers
without a common lock. Correct: the file is one whole document, a save that was
reported stays, the history is what was saved before.

**Video triggers** (`video_trigger.rs`, `tick_video` in `service.rs`). State: per video
input whether it was on Program and on Preview at the last look. The service looks
after each live command and at the end of a publish, and plays, rewinds or pauses what
went on or off. Hard: the render thread changes the pictures between two looks. Correct:
a clip that plays on Program and pauses off it plays just when it is seen there.

**vMix compatible API** (`mixer/src/vmix_api.rs`, `vmix_tcp.rs`, `vmix_xml.rs`). State:
settings, the server and its port, the worker's thread, one stop flag. A publish that
changes the settings configures it and a Shutdown suspends it. Hard: both stop a worker
that may be serving, and hold the mutex that it takes. Correct: it serves with the last
settings or not at all, and stopping it comes to an end.

**Output workers** (`mixer/src/output.rs`, `frame_hub.rs`, `readback.rs`, the send
ring of `omt.rs`). State: per worker a mailbox that keeps the newest frame; per output
id a ring of GPU textures with busy flags and a readback of three buffers. Hard: a
worker stops while the render thread publishes; buffers come back out of turn.
Correct: a texture is in one place, it comes back, and pictures go out in order.

**Frame clock** (`clock.rs`, the loops of `render.rs` and `output.rs`). State: a
playout cursor per thread: rate, next index, last time stamp. Hard: rates change
between two frames, and a worker reads a rate from two atomics. Correct: time stamps
go up and come in no bursts.

**Mixer slot** (`mixer/src/lifecycle.rs`, `lib.rs`). State: the one mixer of the
process: empty, initializing or present, and one flag for a fatal error. Hard: create,
abort and destroy from several threads. Correct: no mixer runs that nobody holds.

**Scene animation** (`mixer/src/anim/scene.rs`). State: the saved layout, the moves
under way, who moves which layer, the sequences that play, and the picture on screen.
Hard: moves take layers from each other, and hosts redefine layout, states and
sequences under them. Correct: a move starts at the picture on screen, and the scene
comes to rest.

**Video pump** (`mixer/src/media.rs`). State: the reader's position, the frames decoded
ahead, a clock, and the atomics through which the host plays, pauses, loops and seeks.
Hard: a seek is two stores beside the pump's own, and lands where the reader puts it; a
decoder may keep frames back. Correct: the reported position is near the picture; the
end of the file is shown; a pause rests.

**Audio engine** (`mixer/src/audio/`), **network sources** (`ndi.rs`, `omt.rs`),
**rendering** (`render.rs`, `compose/`, `convert.rs`, `upload.rs`): mostly data.

**Pro module** (`pro.rs`, `pro_load.rs`, `crates/eiviz-pro-api`), **remote C ABI**
(`eiviz-remote/src/abi.rs`), **headless host and eivizctl** (`headless/`), **desktop
hosts** (`hosts/`), **authentication and wire format** (`auth.rs`, `codec.rs`),
**packaging and docs**. See section 6.

`PROJECT.json` lists every component with its files, and every hazard with the line
at which it bites and the properties that are about it.

## 2. What is modelled, and where

| Module | Models | Composes |
|---|---|---|
| `MixCoalesce` | `set_mix`, `flush_mix`, `close` of eiviz-remote | |
| `EventFeed` | what the event ring promises (abstract) | |
| `EventHub` | the ring, `after`, and each connection's drain | implements `EventFeed` |
| `ControlSync` | connection loop, client worker, calling tasks | EXTENDS `EventHub` |
| `ControlService` | store, publish with rollback, clients' copies, mixer beside the mutex | |
| `SessionReconcile` | the plan of a publish, its execution and rollback | |
| `RequestDedupe` | the cache of outcomes with its clock | |
| `MediaUpload` | client, connections and host of a file upload | |
| `MixingUnit` | buses, AUTO, overlays, render tick, publish and repair | |
| `SceneRuntime` | playback of one scene: moves, sequences, poses, edits, tick | |
| `SessionDocument` | the edits of a document, canonical form, codec | |
| `SessionFile` | a save step by step, on a file system that fails | |
| `OutputLane` | drawing, mailbox, texture ring, readback, send worker | |
| `MixerLifecycle` | create and destroy on the slot of the one mixer | |
| `VideoPump` | a file's pump thread and the calls that steer it | |
| `PlayoutClock` | playout cursor, render loop or send worker, rate changes | |
| `VideoTrigger` | the triggers of a clip, and the looks of the service | EXTENDS `MixingUnit` |
| `WebListener` | worker, port and stop flag of the vMix HTTP listener | |
| `MCService` | the control service from four sides | `ControlService`, `SessionReconcile`, `RequestDedupe`, `WebListener` |
| `MCClients` | a remote host's side of the connection | `MixCoalesce`, `ControlSync` |
| `MCMixingUnit` | a unit by itself, or with a clip | `VideoTrigger` |
| `MCSession` | what a host keeps of a session | `SessionDocument`, `SessionFile`, `MediaUpload` |
| `MCMixer` | the threads of the mixer core | `OutputLane`, `MixerLifecycle`, `VideoPump`, `PlayoutClock` |

`MCService`, `MCClients`, `MCSession` and `MCMixer` put modules side by side that share
no state: a behaviour is of one part while
the others stand still, which TLC explores at the price of the sum of the parts.
`MC*.tla` give constants for TLC, `*Proofs.tla` hold the theorems. An operator whose
name begins with `Mutant` is a plausible bug in the definition after it; no
specification uses one. Each property is known to fail when such a definition takes
the place of the right one.

### How state and actions correspond to the code

**MixCoalesce.** `pending` and `scheduled` are the two fields of the struct of that
name. A call of `set_mix` is three steps because that is how many can be interleaved:
it finds its slot (`Enter`), inserts under the lock (`Insert`), and exchanges the flag
after it let go of the lock (`FindScheduled`, or `Spawn` of a task). A flush task
finds nothing and gives up the flag under the lock (`Finish`), or takes all (`Take`)
and makes one round trip per unit: `Deliver`, or `Fail`, after which the host may
still run the request (`RunLate`). `Close` drops slot, runtime and tasks. A value is
the number of the call that gave it, for the properties tell values apart by age.

**EventHub, EventFeed.** A publish and a drain are each one section of the service's
mutex, so `Publish` and `Drain` are steps. Of an event only its number is kept.
`Missed` and `Newer` are the two halves of `after`. `feed` is the connection's
`last_seq` and `subscribed`, with what it was sent. `Subscribe` takes any number,
because the code does.

**ControlSync.** A document is named by the revision that made it. The server's side
of a request is `Run` (the command) and `Answer` (the snapshot, another section of
the mutex), and the connection's `Tick` comes only between requests. The client's side
is `ReceiveEvent` and `ReceiveReply`, which apply what the worker reads, and `Return`,
where the task that asked wakes up and applies the reply *again*. `Drop` and
`Reconnect` are `session_once` ending and the supervisor starting the next one. What
others do to the session is `OthersAct`: a publish, an event without a document, or a
publish that fails late, whose document no event tells of. `follows` and `overtaken`
remember what happened for the properties; no guard reads them.

**ControlService.** A document is a set of items and one overlay flag. A publish holds
the mutex in `request` and is cut into its operations on the mixer (`Apply`, and
`Rollback` after `Fail`), because `DestroyBegin` and `DestroyEnd` run between them;
`Announce` and `FailLate` are its two other ends. Every other call is one step.
`DestroyBegin` abandons the session only if the mutex is free (`try_lock`), and
`DestroyEnd` takes the mixer down in any case. `base` is each client's copy, refreshed
by a reply (`Snapshot`) or, however late, by an event (`Adopt`). `life` counts
abandoned sessions; the code keeps no such number, and the properties need it to say
which revision 1 is meant.

**SessionReconcile.** `PlanInputs`, `PlanOutputs`, `PlanStreams` and `ReinforceStreams`
give the operations in the order of the code, ids in document order; `ApplyOp` is
`apply_one` with the effect on the mixer; `Publish`, `Abort` and `PublishLate` are the
three ends of `replace_session`. A whole publish is one step here. `MCSessionReconcile`
has two installations, one of an input and an output that may turn from NDI to RTMP, one
of stream encoders and their destinations. The operations that are not modelled (units,
audio, scenes, web API) matter in one way: any of them can fail. `Abort` therefore has
three places, one before, between and after the modelled operations. Of an input,
`desired` stands for the fields that `input_desired_equal` compares and `rest` for those
it passes over, which go to the mixer when the input is started and not before. `gone`
are the media files that are not on the disk: an input whose file is gone is not started
(`FailInput`), and when it changes its old source is not destroyed. `StatusId` is the
number under which a status goes: an encoder and an output may have the same. `last`
remembers how the last publish ended, and what the properties have to except: a first
publish that was aborted (`stray`), outputs that turned to RTMP (`turned`) and inputs
that changed when their file was gone (`spared`).

**RequestDedupe.** `dedupe` and `order` are the map and the queue; `ExecuteRequest`
is a request that is not in the cache, with the eviction and the expiry of `remember`;
`Replay` is one that is; `ShutdownCache` is a request that empties the cache and is
then remembered; `AbandonCache` is `mixer_destroy`. `ran`, `newer` and `repeated` are the
history that the properties speak of.

**MediaUpload.** An upload is one call of `upload_file`. The client asks (`Begin`),
gets an answer (`Receive`: next chunk, commit, abort or end), runs into its deadline
(`Deadline`) or loses its connection (`Disconnect`, with any prefix of its requests
received). The host serves the first request of each connection: `ServeBegin`,
`ServeChunk` and `ServeAbort` are one step each, a commit is three (`Claim` of the
pending entry, `Seal` in the storage, `Add` to the session), because it takes three
locks in turn. Old uploads are swept inside the requests that sweep in the code. `Age`
may come at any time: it is an over-approximation of fifteen minutes.

**MixingUnit.** `bus` is `UnitState` with `frozen_preview`, `auto` the `auto` field.
`Apply` is `apply_unit_state` behind its validation, which Preview, the T-bar and the
repair of a publish all go through; `UnitCut`, `UnitAuto` and `OverlayAuto` are the
commands. `Tick` is the render thread, n frames after the last tick; `SlowDown` is the
tick after the master rate was lowered, which sets the frame index back. A publish is
three steps with ticks between: `Publish` (document and overlay list), `PlanRepair`
(reads the buses) and `Repair` (writes both). Of a curve only its end is known, and
that it may leave 0..1 on the way. The overlays are in three places that go by
different names: `slots` and `onAir` are the document's, by overlay; `air` (how often a
picture is in the unit's list) and `fades` are the unit's, by the source an overlay
shows, so two overlays of one source share them. `OverlayAuto` and `OverlayRefused`
are the two ends of `apply_overlay_auto`, which stores the document before it asks the
mixer. A `faint` overlay has an opacity of at most 0.001. `apart` are the pictures of
which the property claims nothing (section 3).

**VideoTrigger.** One clip and one unit. `roles` is the clip's entry of `video_roles`,
`playing` the transport in the mixer, `clip` what the document says of it. `TickVideo`
is a look: `CollectRoles` of the state that `all_live_state` reports, then the triggers.
It follows a command (`Commanded`, `PlayByHand`) and the end of a publish (`RepairClip`)
as a step of its own, because it reads the unit in a later section of the mixer's lock;
a command that the mixer refuses gets none (`Refused`);
`Rendered` is the render thread, at any time. `PublishClip` moves the clip in the
document, and starts it anew if its file or its buffers changed. `unseen` and `astray`
record what a look has missed or does not undo.

**WebListener.** `slot` is `ApiState`, `stop` its flag, `worker` the threads, each named
by the number of its spawn. A caller enters with or without the mutex (`Enters`), takes
the thread out of the slot (`TakeThread`), raises the flag (`Raise`), waits for the
thread and lowers the flag (`Joined`), and binds, reuses or gives up (`Install`). The
worker looks at the flag (`Poll`), receives (`Receive`), and for a function waits for
the mutex (`Perform`).

**SceneRuntime.** `base` is the saved layout, `shown` the presented picture, `rt` the
runtime: `moves` (clocks), `owner`, `playing` (sequences), `presented`, `dirty`. The
camera is one part beside the layers. The calls are one step each (`GoTo`,
`PlaySequence`, `StopPlaying`, `ShowPose`, `DefineStates`, `DefineSequences`,
`DestroyScene`), but for an edit of the layout, which is two C calls: `DefineScene`
and `DefineCamera`. The render thread's tick is a chain without calls in between, as
it holds the lock: `TickBegin` (every move ages), `Advance` per sequence that is due,
`TickEnd` (the picture is sampled).

**SessionDocument.** `doc` keeps what refers to something else by id. Every edit is
`Commit` of a staged copy: `Canonical`, then `Valid`, or the old document stays.
`Reload` takes `Decoded(Canonical(doc))` the same way: what protobuf writes and reads.
Protobuf writes no zero, and the loader puts a default in the place of most. A layer, a
state's key, an input and a unit each have one number here that is 0 when any of those
is that the loader would replace (`shown`, `flat`, `level`, `gain`); of the settings, the
transitions, the presets, the stream encoders and the two fields that no load keeps,
`odd` has those with something that would change (`SetPart`).

**SessionFile.** A saver goes through the steps of `atomic_write`: `Save` (reads the
file for its history) or `Export`, `CreateTmp`, `WriteFirst`, `WriteRest`, `SyncFile`,
`Rename`, `SyncParent`. A name refers to an inode; `survives` is the set of inodes
that the path may name after a loss of power. Each step may fail (`OperationFails`),
and `Crash` may come between any two. A sync of the directory that fails, or that the
platform does not have, is `SyncParentSkipped`: the save is reported all the same.

**OutputLane.** A worker is a lane, with its mailbox `box` and what it holds in hand
or keeps until the transport lets go (`pending`). `CallBegin`, `RemoveEnd`, `AddEnd`
and `AddFails` are output_add and output_remove, which wait for the old worker;
`Snapshot`, `DrawGpu` or `DrawCpu` and `EmitGpu` or `EmitCpu` are the render thread;
`Take`, `Send`, `LastTake` and `Stop` the worker. Texture ring and readback belong to
the output id and pass from one worker to the next.

**MixerLifecycle.** `mixer_create` is `Reserve`, `ResetForCreate`, `Start`, `Commit`
or `Abort`; `mixer_destroy` is one of three looks at the slot, `DestroyEnds`, and
`ResetForDestroy`; each look at the slot is a step. A mixer is named after the call
that made it; `orphans`, `robbed` and the like record what happened.

**VideoPump.** One turn of the pump's loop is cut where it looks at an atomic:
`TakeSeek`, `Resume`, `Present`, then one of `Wait`, `EndStops`, `Rewind`, `ReadEnd`,
`ReadSample`. `Seek` and `SeekPosition` are the two stores of a host's seek. Two
decoders are covered: one that returns a frame per sample, one that keeps frames back.
`seek_to` lets errors go and only asks for a position: the reader lands on the frame, on
one before it, or stays where it was (`Landings`), for a seek as for the start of a loop,
while the pump goes by the time it asked for (`Moved`, `Put`). `landed` and
`drift.missed` record where it landed and by how much that is before the time asked for.

**PlayoutClock.** `cursor` is `PlayoutCursor`; `user` says which of the two loops uses
it. The render thread takes a rate whole and sleeps until its frame; a worker loads
numerator and denominator one by one (`LoadNum`, `WorkerSetsRate`) while the render
thread stores them one by one (`StoreNum`, `StoreDen`), asks what is due, and sleeps.
Division is the integer division of the code.

## 3. What the runs check

Twelve runs; six must pass, six show a disagreement (section 4). State counts are
distinct states; the longest runs take two to three minutes with two workers.

| Run | Instance | States | Shows |
|---|---|---|---|
| `service` | publish: 2 clients, 2 items, revision up to 2, 1 abandoned session; plan: 1 input (its file, or another source at two settings) and 1 output at two settings, 2 encoders and 2 destinations, 1 refused add; cache: 4 requests, capacity 3, window 2, clock to 4; listener: a publisher and a host, 3 calls, 2 ports, 2 users | 635,364 | `RevisionNamesItems`, `EverythingRuns`, `GuardedPublishLosesNothing`; `NothingUnwantedRuns`, `StreamsCatchUp`, `UnchangedKeepsRunning`; `RetryDoesNotRunAgain`; `ListenerObeys` |
| `clients` | 2 threads, 2 units, 2 tasks, 2 calls per unit; 1 client and others, ring of 2, 3 events, 2 revisions | 187,386 | `NoStrandedValue`, `OrderedUnlessLost`, `LatestIsSent`; `ViewIsHonest`, `KeepsPromise`, `NobodyWaitsForGood` |
| `unit` | 3 scenes, 2 overlays of 2 sources, faint or not, mix in 5 steps with overshoot, 2 frames; with a clip: 2 scenes at a time, 1 frame, 2 sets of triggers | 1,101,576 | `OverlaysFollowDocument`, `TakesWhatItShowed`, `EndsAtRest`; `PlaysWhereShown` |
| `scene` | 2 layers and a camera, 2 states, 2 sequences, 3 calls | 178,391 | `MovesAccountedFor`, `MovesStartFromScreen`, `EditTouchesWhatChanged`, `ComesToRest` |
| `session` | 4 edits, 1 part; 2 savers, 3 saves, 2 faults; 1 client, 3 uploads, 2 connections | 899,810 | `DocumentIsSound`, `IdsKeepTheirMeaning`, `ReloadKeepsDocument`; `WholeUnlessOverlapped`, `AnswersHold`, `KeepsHistory`; `FilesAccountedFor`, `SettledWhenTold`, `EveryCallReturns` |
| `mixer` | 2 workers, 6 pictures; 3 threads; a file of 3 frames; 2 numerators, 2 denominators, 18 ticks | 746,333 | `EachTextureHasOneHolder`, `SentInOrder`, `TexturesComeBack`; `RobbedCreatesLeaveNothing`, `NobodyRunsAlone`; `PositionStaysNear`, `TailPlaysOut`, `PlaybackSettles`; `StampsGoUp` |

The comment above each property says what it states of the code. Some properties are
conjunctions of named parts: `NothingUnwantedRuns` is about inputs, outputs, encoders
and destinations, `ViewIsHonest` says that a view's document and revision belong
together and that a view without lag is current, `NobodyWaitsForGood` that calls end
and documents arrive, `FilesAccountedFor` that files, lists and inputs agree and the
caller is told what came of them, `IdsKeepTheirMeaning` that a new id is fresh and a
state goes on naming the layers it named, `ListenerObeys` that the listener serves with
the last settings and that whoever waits for its worker has been heard by it,
`PlaybackSettles` that a paused pump rests and that a file is not left without a
picture. The type invariants are parts of such properties, and theorems in the modules
that have proofs.

### Why the bounds are enough

- *clients*, the coalescer: two threads race for the flag, two units let one round trip
  fail while the other succeeds, and a second call per unit meets a value already taken.
  Two tasks are what it takes to see a second one spawned while the first is running.
- *service*, the plan: plans treat ids of a kind independently, so one input and one
  output suffice for those; encoders and destinations refer to each other, so there are
  two of each, one destination that moves and one that is switched; one encoder changes
  its profile and the other goes. Two settings are the least that can differ. Every
  publish may find the file there or gone and any one of its adds refused. The state
  constraint `Explored` stops at an aborted *first* publish: the code leaves what it
  started in the mixer and nothing is claimed of it.
- *service*, the publish: two clients overtake each other; two items are the one edited
  and the one to be lost. Two revisions allow a copy to be one behind; one abandoned
  session lets copies of an earlier life be sent. Items and clients are symmetric. The
  run without the overlay flag and `lost_overlay` with it share the module; the flag
  only doubles the states.
- *service*, the cache: three places are a head, a middle and a last one, four requests
  overflow it, and the clock passes two windows.
- *service*, the listener: three calls start a worker, replace it and stop it; two ports
  and two users are settings that differ in the port and settings that do not, and a
  host beside the publisher lets two calls overlap.
- *clients*, the view: a ring of 2 and three events overflow it by one, with a reader
  behind, level and ahead. One client is enough, because clients meet only in the
  service, where the others are `OthersAct`; what they can do to it is the same.
- *unit*: three scenes are Program, Preview and one on neither bus; transitions of up to
  two frames have a first, a middle and a last tick, and a tick may skip a frame.
  Overlays meet only in a source they share: two overlays and two sources give a pair
  that shares one and a pair that does not. Buses and overlays share nothing but the
  tick, so the run takes them in turn (`part`): the buses with one overlay, the overlays
  with the buses at rest. With a clip the state constraint `Explored` keeps to two
  scenes in use at a time and to transitions and fades of one frame: a look asks only
  which scenes show the clip, and whether a transition is under way. One set of triggers
  follows Program, one uses Preview. `MixingUnitProofs` has `PlaysWhereShown` without
  these bounds.
- *scene*: the two states share one layer and each has a part of its own, so a move is
  taken over in part and in whole; each sequence takes layers of the other. Ticks may
  skip a frame, and the frame index may be set back by one. Three calls are a move, an
  edit under it and what comes after.
- *session*: the first document has an input in two layers, a state that names them, a
  second unit and an input heard on both; four edits create, refer, delete and reload.
  Two savers overlap, three saves leave one before and one after a fault, and a history
  of one entry is full at once. The second fault is a directory sync that fails before the
  loss of power that shows it. One place for uploads makes a leak visible: the next
  call is refused. Two chunks give a first and a last one. Three uploads and two
  connections allow a call whose predecessor is still being served on the connection
  that broke.
- *mixer*, the output: with two textures one is on its way while one is drawn; three
  buffers are the code's; two workers are the old and the new one of a call. A readback
  gives a new picture only at every second frame, so it takes six pictures for buffers
  to come back out of turn. Three threads are the one that reserves, the one that robs
  it and the one that uses what became free. The file has a first, a middle and a last
  frame, seeks go into it and past its end and may land on the first, the middle or no
  frame, one sample may be spoiled. Two budgets of
  `MCMixer` keep bounds of one part from being exhausted together: a second texture ring
  comes without a fault, a spoiled sample with at most two calls of the host. The rates
  are 1 or 2 over 9 or 10 with one tick per unit, periods of 9, 10, 4.5 and 5 ticks: two
  of them round, and they are the smallest for which two changes between two frames step
  back. 18 ticks are two frames of the slow rates.

### Fairness, and what justifies it

Only liveness properties use it; safety is checked on all behaviours.

- `clients`, the coalescer: a thread in `set_mix` returns, and a spawned task runs: weak
  fairness of the exchange and of each task's next step. Nobody has to call or to close.
- `clients`, the view: requests are served, answers read, tasks woken (weak fairness
  each). The drain of a connection has strong fairness: it is enabled again and again
  but disabled while a request is served. `tokio::select!` chooses at random among ready
  branches and an interval tick that is due stays ready, so a busy connection still
  comes to it. Reconnecting is *not* assumed.
- `session`: an upload request that was received is served, its answer is delivered:
  neither waits for anything but locks held for bounded sections. Deadlines, aging and
  new calls may never come; nothing is assumed of edits and saves.
- `video_active`: the render thread goes on ticking, the look after a command and the
  end of a publish come. `service` and `unit` have no liveness and no fairness.
- `scene`: the render thread goes on ticking, a tick ends, and the second half of an
  edit follows the first, as both are in one function of the host.
- `mixer`: a worker sends what it has in hand, takes what is in its mailbox (the
  receive wakes up for it), takes a last look and stops when asked: weak fairness
  each. A C call goes on from one look at the slot to the next, and a render thread
  that was told to stop ends. A pump's loop goes round (weak fairness of `Turn`), the
  second store of a seek follows the first, and time passes: strong fairness of `Tick`,
  which a turn of the loop may disable for a moment. The clock's part has no liveness
  and no fairness.

Deadlock is checked in `unit` and `service`; the cache and the listener of `service` may
rest, the publish and the plan may not. The other four have callers with a bounded
number of calls, or a slot that is closed for good, and really stop.

### What the passing properties except

Where the code itself does not have a plain property, the property names the
exception instead of hiding it:

- `ViewIsHonest`, `NobodyWaitsForGood`: not of a view that an older reply overwrote
  because the task that asked woke up after newer events. Nothing repairs such a view
  before the next document.
- `OverlaysFollowDocument`: not of a picture (`apart`) whose list was written while it
  was fading, since `SetUnitOverlays` leaves the fade running; of one whose AUTO the mixer
  refused, after the document was stored; of a faint overlay's, which the unit drops when
  it has faded in; nor of one that was faded out for one overlay while another on the air
  shows it too.
- `PlaysWhereShown`: not of pictures that the render thread has changed since the last
  look (`unseen`, see `video_active`) or a publish that failed late; not of a picture
  that is held while Preview shows another (`HeldAside`), since `all_live_state` reports
  a stored `incoming_source`, which is always 0, and `collect_roles` then takes Preview
  for it; and not of a clip that was played or paused by hand, or started anew by a
  publish (`astray`): `video_roles` keeps it as seen, so a clip whose file is replaced
  while it is on Program stays paused.
- `ListenerObeys`: not once two calls have overlapped (`raced`). They share the stop
  flag, and the second lowers it before the first one's worker has seen it. Publishes
  are kept apart by the mutex; hosts that call `mixer_api_configure` are not.
- `FilesAccountedFor`: not of a publish that failed after the session had
  changed (`verdict = "late"`): the file is removed under an input that stays.
- `EverythingRuns`: not of a session whose mixer was destroyed while the mutex was
  held (`orphan`): the session survives it.
- `GuardedPublishLosesNothing`: within one life of the session; revisions start again
  from 0 after it, and copies of an earlier life can pass the check.
- `NothingUnwantedRuns`, `StreamsCatchUp`, `UnchangedKeepsRunning`: not of a mixer in
  which an aborted first publish left something (`stray`), as the service has no document
  to go back to.
- `NothingUnwantedRuns`, `UnchangedKeepsRunning`: not of an output that a plan took from
  NDI or OMT to RTMP (`turned`), whose sender runs on (section 4).
- `NothingUnwantedRuns`: not of an input that changed when its old file was gone
  (`spared`), until a publish destroys its source: it runs on if the new one is refused.
  An input is as the session has it in what `input_desired_equal` compares; the fields it
  passes over stay as they were when the input was started.
- `StreamsCatchUp`: after the same document was published *twice*. An encoder whose
  only destination is switched on is not started by the first publish.
- `UnchangedKeepsRunning`: after a publish that left nothing to retry.
- `RetryDoesNotRunAgain`: of requests that ran once. A key that expired and ran again
  still has its first place in the queue, and is evicted early.
- `FilesAccountedFor`, `SettledWhenTold`: of calls whose connection held. A commit
  served while the deadline passes still adds its input, though the caller is told of
  a timeout; a retry adds it twice.
- `WholeUnlessOverlapped`: not of saves that overlap. They share the temporary file
  `<path>.tmp`, and one may rename what the other has half written.
- `AnswersHold`: not of a save whose directory was not synced, because that failed or
  because the platform is not Unix: it is reported done and may be gone after a crash.
- `ReloadKeepsDocument`: a document with something the file does not keep (`IsOdd`) may
  change at a reload, in no reference and not a second time. The codec does not write
  zeros and reads a default in the place of these: width, height and opacity of layers, of
  the keys of states and of presets, tone levels, bus gains, dip alpha and softness of
  transitions, durations of motions, reference frames of encoders, the ports of the
  settings. The renderer and the last path are reset at every load.
- `IdsKeepTheirMeaning`: not of a list of layers sent without ids, which renumbers them.
- `MovesStartFromScreen`: not of the camera after an edit (see `scene_camera`).
- `TexturesComeBack`: not of a frame that the render thread publishes to a worker that
  has taken its last look. Its texture stays busy; after as many of these as the ring
  has textures the output has no GPU picture until it is removed.
- `RobbedCreatesLeaveNothing`: not of a create that commits on the reservation of
  another, which the slot cannot tell from its own.
- `PositionStaysNear`: less what the last seek or loop missed, by which the position stays
  ahead of the picture; the reported position drifts by up to the frames read ahead at
  each resume, and a seek that races the pump's own store may be overwritten.
- `PlaybackSettles`: a paused pump whose reader was put at the end of the file, or before
  samples that do not decode, keeps reading; and a decoder that keeps frames back may
  leave a file blank.
- `StampsGoUp`: not of a worker that changed its rate twice between two frames, which
  reading a rate half stored is enough for. The property speaks of order and of bursts,
  not of gaps: the gap after a change grows with the uptime, since the last stamp is
  divided by a period that was rounded down (at 59.94 about a frame in 2.3 hours).

## 4. Where the code and its documents disagree

Each of these runs checks one statement of the repository and finds it violated.

- `enable_output` (`EnableStartsOutput`). Publishing an output as disabled and then as
  enabled leaves it off. The loop over the previous outputs in `plan`
  (`session/reconcile.rs`) keeps an output only if the *previous* document had it
  enabled, so the plan is remove, add, remove. The test in `mixer/tests/pipeline.rs`
  on enabling in the settings expects it to be live.
- `lost_overlay` (`GuardedPublishKeepsOverlay`). `apply_overlay_auto` writes the
  document without a new revision, so a guarded publish from an older copy passes and
  takes the overlay off the air. The API documentation says that `expected_revision`
  rejects lost updates.
- `sync_reconnect` (`FollowsForGood`). After a broken connection the client opens a
  new one, clears the lag flag and does not subscribe on it: the view shows connected
  and in step, and receives nothing. The documentation says that Subscribe is
  persistent and that remote live state stays aligned through it.
- `scene_camera` (`AlwaysFromScreen`). `mixer_scene_camera_define` writes the saved
  camera to the screen whether or not it changed, while `note_camera_edit` returns
  early when it did not: the runtime keeps where the camera was left and the next move
  starts there. `anim/scene.rs` says that a move always interpolates from the values on
  screen.

- `listener_deadlock` (`JoinsWithFreeHands`). `stop_worker` joins the HTTP worker without
  a time limit. A publish that changes the vMix settings and a Shutdown call it under
  the mutex of the service, and a worker that serves a function waits for that mutex in
  `execute_live`: both wait for good, and the service with them. The comment in
  `stop_worker` knows of the slot's lock only ("so joining must happen outside it").
- `video_active` (`ActivePlays`). `tick_video` runs after a command and at the end of a
  publish, and an AUTO lands in the render thread: a clip that is to play when active
  goes to Program paused, and stays so until the next command. The desktop host offers
  the trigger as "Play when: Active (Program)". A cut plays the clip.

Seen while modelling, and claimed by no property:

- A publish that deletes the scene on Program reads the buses and writes them in a
  later section of the lock (`PlanRepair`, `Repair` of `MixingUnit`). A transition
  that ends in between has put an existing scene on Program, and the repair overwrites
  it with the fallback.
- An enabled NDI or OMT output that becomes an RTMP destination under the same id is
  removed by neither loop of `plan`: the one over the next outputs passes by what is
  RTMP, the one over the previous outputs keeps what the next document has. The sender
  stays on the air until the output is planned again as NDI or OMT, or the mixer goes.
- The last step of `mixer_destroy`, `reset_generation`, may clear the fatal flag of a
  mixer that another thread has created since.
- An output of the CPU path that is replaced passes the last picture of its previous
  source to the new worker; and a worker that ends by itself stays in the map of
  outputs, unserved.
- `canonicalize` drops the steps of a sequence that return to the saved layout
  (state 0), and the test for mix cycles in `validate` misses some of them.
- A seek that lands on an earlier key frame starts the picture there and the position at
  the time asked for: nothing drops the frames before the target, so the position stays
  ahead by that much until the next seek or loop. A paused pump whose seek leaves the
  reader at the end of the file turns without sleeping.
- Of an input that changes after its file was removed, `plan` does not destroy the old
  source; if the new one is refused the old one runs on. A publish that changes only an
  audio device, a capture mode, a tone level, a bandwidth or a quality does nothing to the
  input that runs.
- Statuses of encoders and of outputs share a kind and a number, so `reinforce_streams`
  may take the trouble of one for the other's; and `validate` does not look at the ids of
  encoders.
- Two overlays that show one source share a fade and an entry of the unit's list: taking
  one off takes the other off too. An OverlayAuto that the mixer refuses leaves the
  document changed. A faint overlay leaves the unit when it has faded in.
- A save is reported done when the sync of its directory failed.
- A layer faded to nothing is back at full opacity after a restart, and so is every other
  number of which the default is not zero; the renderer is set to automatic by each load.

## 5. What is proved

TLAPS proves the following for every value of the constants, from named assumptions:
`ConstantsAssumption` and `MixAssumption` (bounds are natural numbers, capacities are
positive, special values are not ordinary ones), `ModelValuesAreDistinct` in
`ControlService`, `RevisionsAreNumbers`, `TriggerAssumption`, `DedupeAssumption`,
`FileAssumption` (finitely many savers in `SessionFile`; a file has a last frame and at
least one is decoded ahead in `VideoPump`), `TargetAssumption` (a seek goes to a time),
`UsesAssumption`, `WebAssumption` (callers are not settings, ports are positive),
`CameraAssumption`, `LayoutAssumption` (a layout has layers only, ids of states and
sequences are positive, and a state is entered in at least one frame, since
`motion_from_ffi` refuses a duration of zero), `BoundAssumption` (of `SceneRuntime`),
`IdsAreDistinct`, `InputsHaveTheirStatus` and `OutputsAreTyped` (of `SessionReconcile`:
an id is used once, which `validate` sees to but for encoders; the status of an input is
no output's, as they are of different kinds; and an output names an encoder or none),
`DocumentAssumption` (the document of a session that was just loaded is canonical, valid
and finite, its counters are above its ids, and what an edit may bring has the types of
its fields, with any ids in it), `RingAssumption` and `LaneBoundAssumption` (at least
one texture and two buffers), and `RateAssumption` (rates are positive, and no faster
than one frame per tick). TLC evaluates these assumptions in the passing runs.

| Module | Theorems |
|---|---|
| `EventHubProofs` | `TypeCorrect`, `Window`, `Implements` (refinement of `EventFeed`), `ViewsAreHonest` (of `ControlSync`); `MixTypeCorrect`, `OneFlusher`, `NoneStranded`, `Ordered` (of `MixCoalesce`) |
| `ControlServiceProofs` | `TypeCorrect`, `VersionsAgree`, `GuardHolds`, `SessionRuns`; `DedupeInvariant`, `Bounded`, `RetryIsSafe` (of `RequestDedupe`); `ListenerDoesAsTold` (of `WebListener`) |
| `SessionReconcileProofs` | `NothingUnwanted`, `UnchangedRunsOn`, `StreamsRecover` |
| `MixingUnitProofs` | `TypeCorrect`, `Held`, `OverlaysFollow`, `Lands`, `StopsAtRest`, `HoldsAgainstPreview`, `ClipFollows` |
| `SessionFileProofs` | `FileInvariance`, `SessionStaysWhole`, `AnswersOfSavesHold`, `SavesKeepHistory`; `UploadIsAccountedFor`, `UploadIsSettled` (of `MediaUpload`) |
| `MixerProofs` | `CycleInvariance`, `RobbedLeaveNothing`, `LaneInvariance`, `TexturesHaveOneHolder`, `WorkersSendInOrder`; `PositionIsNear`, `TailIsOut` (of `VideoPump`) |
| `PlayoutClockProofs` | `PaceInvariance`, `StampsAscend`; `MovesHaveOwners`, `MovesSetOut`, `EditsShow` (of `SceneRuntime`) |
| `SessionDocumentProofs` | `DocumentsAreSound`, `IdsStay`, `ReloadsAreFaithful` |

Each proof has an inductive invariant, `IInv`, `MixIInv` or one named after its part; the
properties alone do not carry themselves:

- *MixCoalesce*. That there is one flusher is not inductive: nothing in it forbids a
  state with a task and the flag down. `ScheduledMeansActive` ties the flag to the task
  while the slot is open, and with it both `SingleFlusher` and `NoStrandedValue` are
  kept by every step. `Ordered` needs `AgeOrder`: what a task holds is at least as new
  as what the server has or may still run, and what is pending is newer than all of
  it. That in turn needs `BatchHeldBySender`.
- *EventHub*. `RingIsWindow` is inductive with the types: the ring holds consecutive
  numbers, starting after as many as were dropped. From it, lemma `AfterIsSuffix`
  says what `after` returns for *any* number, and each step of the ring maps to a step
  of `EventFeed`: a drain is a `Serve` that loses `Missed(a)` events.
- *ControlService*. While a publish is under way the store shows a revision that may
  still go back, so two copies could come to carry one revision with different items.
  The invariant `Versions` speaks of the *settled* version instead, the one the store
  goes back to on failure: every copy is at or behind it, and copies level with it
  agree with it. `GuardHolds` follows: a guarded publish passes only if its copy has
  the store's revision, and then the copy has the store's items.
  `SessionRuns` has an invariant of its own, `Led`: the mixer serves every item of the
  settled document but those refused, and during a publish all items but the ones the
  plan, or its rollback, has still to do; an item of both documents is never among
  those, so a publish that fails half way gives nothing up that was on the air.
- *ControlSync*. That a view's document and its revision belong together, and that a
  client which shows no lag is up to date when its inbox is empty, is kept by what is
  still *in* the inbox. `SaysInOrder`: events tell of documents in the order of their
  revisions. `UpToDate`: the last message in the inbox that decides (a snapshot, a lag,
  a document) brings the client up to what its feed has delivered, or there is no such
  message and the view is there already. `OneAnswer` keeps two replies from changing
  places. A client that was `overtaken` by an older reply is excepted, as in the property.
- *SessionReconcile*. A publish is one step, but a long one: a list of operations, which is
  put together by a recursive function (`Each`) and carried out by another. Both are taken
  at the least place where a claim fails, as the induction theorems cannot be used.
  `Leads(A, ops, refusing, B)` says that the list takes every run in A to one in B,
  whatever is refused; lists that are joined lead on, and a list made of ids leads where
  each id's part leads, since ids are distinct and an operation on one id leaves the
  others alone (`SameInput`, `SameOutput`, `SameStream`). What may run of one input,
  output, encoder or destination of a document is a set of runs (`InputAs` and its like),
  and the inductive invariant `ReconcileInv` says that the port is in all of those of the
  session. The plan from p to n takes the sets of p to those of n, and the part of it that
  ran before an abort takes them to a place from which the plan back leads to those of p
  again. What a publish leaves running goes into the invariant: outputs that turned, and
  inputs that were spared until they are taken down. `StreamsRecover` needs the statuses
  too: after a clean publish every destination is attached, or its status says that its
  encoder is down (`CaughtUp`), and then the next publish of that document rebuilds the
  encoder. A number may be of an encoder and of an output at once, which does no harm as a
  clean publish reports nothing as failed but inputs (`OnlyInputsFailed`), whose statuses
  are their own.
- *RequestDedupe*. That a request is still cached follows from its place in the queue
  (`KeepsItsPlace`: as far from the end as requests ran since). That eviction takes
  this place and no other needs `OnlyPlace`: a key that ran once stands in the queue
  once. This is why the theorem speaks of such keys only.
- *WebListener*. The property speaks of the time when no call is under way, and of one
  place of a call. `CallServes` says at every place what the call has done: with the
  thread in hand the slot names none and that thread is the only one alive, with the
  flag up nothing else is alive, and before the new worker is spawned nothing is.
- *MixingUnit*. The cut at the end of a transition looks for the picture after the
  AUTO has been taken out of the unit, so `HeldIsFrozen` (the copy in
  `frozen_preview` is the picture the AUTO holds) is what makes `Lands` true. It needs
  `KeepMeansLocked` and `FrozenForAReason`: nothing is frozen without someone holding
  it. For overlays, `FadesAgree`: a fade of a picture that is not `apart` ends where the
  document says; and `TwiceForTwo`: such a picture is in the list twice only if two
  overlays on the air show it, so that a fade out, which takes out one, leaves none.
- *VideoTrigger*. `ClipInv` says, of a clip that follows Program, that while no look is
  pending and nothing is `unseen` its `roles` are those of the pictures now, and that
  unless it is `astray` it plays just when it was last seen on Program. The second part
  is what a trigger can keep, as it compares with the last look only; with the first it
  gives the property, because Program as reported and Program as shown differ only by a
  picture held aside.
- *SessionDocument*. `DocInv` has the types, that the document is tidy, and that the
  counters are above every id there is or ever was (`used`). An edit is taken in three
  layers. Of a list, lemmas on `Numbered` say that an id it gives out is above all ids
  of the list as it came, so that entries which had one keep it and no two agree. Of a
  scene and of a document, `Canonical` of anything of the right types is tidy, and a
  tidy document is its own canonical form: which is `DocumentIsSound`. Decoding touches
  no reference, so what it gives is tidy and valid as well and the reload is stored as
  it was read. `CommitStep` puts this together once for every edit, and each edit owes
  only the types of what it stages and what it does to the counters. For the keys of
  states, `LayersReplaced` follows each layer of the list that the edit brings to the
  list that is stored. Where the natural argument is an induction over a list, the proof
  takes the least number of a set instead.
- *SessionFile*. While no two saves overlapped (`Orderly`), at most one saver is
  inside, the temporary name is its own inode, apart from every inode that may survive
  a loss of power, and what may survive are whole files, numbered no lower than the
  last save that was reported. A rename brings in an inode that is whole *and* synced.
  `HistoryInv` adds that what a save brings keeps what the path refers to: it read
  that when it began, and nobody replaces it before the save does.
- *MediaUpload*. What the host knows of an upload (`HostInv`: an entry in the list is
  pending or taken by the commit that is under way, a publish that has ended leaves
  nothing to decide, what was not begun leaves no trace) holds only as long as no
  message of an earlier call can come late. `Lone`: of one upload there is one begin
  and one commit among the requests, the commit before any abort on the same connection.
  `Pipe`: what is between a client and the host on its connection is answers, then
  requests, all of the call it makes now but for one that it gave up. `Means`: an answer
  under way is still true of the host when it arrives. `UploadIsSettled` follows from
  what a call was told (`ToldSo`).
- *MixerLifecycle*. `ReservedByOne`: a reservation in the slot belongs to some create
  under way that was not robbed. So if none is left, a create that was robbed finds the
  slot without a reservation and goes to abort.
- *OutputLane*. `Apart`: the textures in the mailboxes, in the workers' hands, pending
  at the transports and in the render thread's are all different. `Marked`: they are
  exactly the busy ones (one that is left behind is still in its mailbox).
  `FrameInOrder` ties the phase of the frame to what it has copied. The render thread
  takes the first texture that is free, and lemma `LeastNumber` says there is a first
  one. For the order of the pictures, `OrderInv`: what a worker has sent is not newer
  than what it holds, that not newer than its mailbox, and nothing newer than what was
  drawn. The readback needs most of it (`InTurn`): only the buffer after the one written
  last waits for its map, the buffers hold ascending numbers from there on round the
  ring, none older than the picture mapped last, and the lane of the snapshot has
  nothing newer than that one. A readback that starts again counts from zero: this is
  harmless as the lane it then feeds is fresh.
- *VideoPump*. `InOrder`: the picture, the frames decoded ahead and those the decoder
  keeps back are consecutive, so a frame is never skipped and the picture goes back
  only to the first frame after the last; `OneAtATime` says that a file that starts
  again has its first frame presented before the second is decoded, unless the decoder
  keeps the whole file back, which the property excepts. `Timed`: how far the position,
  the clock and the time it was started at may be from the frame to be presented next,
  after `n` resumes: each resume takes the reported position, which may be `Ahead + held`
  frames on, for that of the picture. `Bounds` is needed for it: a clock that is not
  set goes with an empty queue whenever a frame is read. A seek or a loop that lands early
  shifts the time the clock was started at by what it missed, and the invariant counts from
  there: `PutIsTimed` shows that any landing gives a state that is in time.
- *SceneRuntime*. `SceneInv` has a part for each table (`Formed`, `Agree`, `Waited`) and
  two that tie them to the picture. `OnScreen`: the screen shows each part where it was
  last presented, or where it is saved if it never was; the camera may be at its saved
  place instead. `Consistent`: between two ticks a part that is moving *is* where it was
  last presented, so whatever takes it from its move, and whatever cancels the move, it
  loses no ground (`SampleIsFallback`). A tick keeps it because what it samples is what
  it presents. A move of no frames would arrive as it starts, and the screen would not
  show it: this is where `LayoutAssumption` is needed. That a sequence waits for its own
  move (`NoOrphanMove`) rests on `begin_step` taking the newest move for the one it
  started, which the proof finds right as ids only grow.
- *PlayoutClock*. `NextOfStamp` (under one rate the next index is the one after the
  last stamp) and `PastStamp` (after one change the next frame is later than it);
  `RenderInTurn` says that the render thread never makes two changes between frames.
  The rest is arithmetic of quotients: a frame's time grows with its index, an index
  found by a division with a period rounded down is not before the one wanted, and the
  number of frames elapsed exists.

Only model-checked: all liveness (`LatestIsSent`, `NobodyWaitsForGood`,
`EveryCallReturns`, `ComesToRest`, `NobodyRunsAlone`, `TexturesComeBack` as far as it
says that one comes back, `PlaybackSettles`), since fairness is out of this prover's
reach. Every other property of the passing runs is stated by a theorem. That the six
violations of section 4 are real is TLC's alone to show.

## 6. What is not modelled

Within the modelled components:

- *ControlSync*: roles, the handshake, the idle timeout (a connection may break at any
  time, which includes it), uploads, the list of event names a client may ask for, the
  channel of 32 requests. A client has one call under way at a time and makes none
  while it is not connected. Of the several events of one command one is published.
- *ControlService*: live commands that reach only the mixer, discovery, meters; saving
  is in `SessionFile`, the steps of create and destroy in `MixerLifecycle`. The
  statuses of resources are in `SessionReconcile`.
- *SessionReconcile*: units, scenes, multiviews, audio and live state are only places
  where a plan can fail. Files do not change within a publish, and a source that is
  started over one that was spared is taken to replace it. Builds without RTMP, whose
  refusals count as an encoder that is down, are left out. A Destroy is the one under
  the mutex; the other is in `ControlService`.
- *RequestDedupe*: requests without an id, which the code never caches; whether an
  outcome is good or bad, which the code does not distinguish.
- *MixingUnit*: creating and destroying units, the test for mix cycles, multiview slots,
  the look of a transition, opacities other than that an overlay may be faint, a list
  that names an overlay twice, overlays refused for a mix cycle, which scenes exist (a
  repair says which are gone), and the C ABI entries by which a host writes back a whole
  state it read.
- *VideoTrigger*: several units and clips, the position of a clip (`VideoPump` has it),
  the removal of a clip, and edits of its triggers.
- *WebListener*: what a request asks for, its answer, authentication, a poisoned lock;
  the TCP listener, its tallies and its subscribers; the owner of a port in use.
- *MediaUpload*: names, kinds and hashes are one refusal; several uploads of one
  client at a time, sessions without a media directory, and the removal of inputs.
- *SceneRuntime*: curves are linear and a layer moves as one number; the record of
  arrived states and the takeover log are status only.
- *SessionDocument*: multiviews, tags, and the ranges of single numbers; of presets,
  transitions, stream encoders and settings anything but whether a reload keeps them.
- *SessionFile*: embedded media, the extraction of a history entry, the migration of
  old versions; of the container format only what tells a whole file from a torn one.
- *OutputLane*: sound, time stamps, texture pools, staging and recordings. Calls on the
  outputs come one at a time.
- *MixerLifecycle*: what a mixer contains; a start succeeds or fails as one step.
- *VideoPump*: sound, live captures, the pump of macOS, failures that end the pump's
  thread.
- *PlayoutClock*: sound positions and the delay line of the pictures.

Components without a module:

- Ids and queries, authentication and wire format, the control port as a trait: data,
  pure functions and an interface; their users are modelled.
- Rendering, composition and conversion, the audio engine, network sources: GPU passes,
  pixels and samples in floating point, and libraries.
- The Pro module, the native control socket, the
  remote client ABI beside the coalescer, headless host and eivizctl, desktop hosts:
  each has little state of its own, and what they share with others is in the modules
  of the service and the connection.
- Packaging, documentation and build: no program state.

The definitions stand for about a tenth of the implementation's lines. About half of
the others are rendering, decoding, audio, plug-in and command line code, and much of
the rest is the data side of modelled components: the fields of the document and their
encoding, status structures, C wrappers, tests. That code has no interleavings and few
states, and a model of it would repeat it line by line.

## 7. Plan

Done, in this order: the coalescer, the event ring and its promise, session reconcile,
the control service, the request cache, connection and client view, media upload, the
mixing unit; then scene animation, document and file of the session, outputs, the
mixer's slot, file playback, the frame clock; then the clip's triggers and the vMix
listener; and the proofs of section 5. The order
is that of consequence: what can take a picture off the air or lose an edit comes
first.

To extend the model:

1. The order of a remote host's live calls, each a task of its own (`spawn_live`),
   against coalesced fader values: `MixCoalesce` has the order of `set_mix` only.
2. Which scenes exist, in `MixingUnit`: a scene deleted while an AUTO holds it goes on
   the air at the end.
3. Units and their outputs in `SessionReconcile`.
4. `MixerLifecycle` below `ControlService`, whose create and destroy are single steps.
5. vMix TCP subscribers with their tallies; the feed rings of audio; loading and
   unloading of the Pro module.

To prove: that the publish of `ControlService`, operation by operation, implements the one
step of `SessionReconcile` for what both keep; that `OutputLane`'s workers deliver a
subsequence of what was drawn, as a specification of its own; and what the extensions
above bring.

Bounds of new runs stay at the size at which two actors and one failure meet; the
models abstract data to model values, so state spaces should stay at about a million.
