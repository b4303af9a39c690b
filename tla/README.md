# TLA+ models of Chroma Engine

Specifications of the stateful core of Chroma Engine, the TLC runs that check
them on small instances and the TLAPS proofs that hold for every instance.
Paths below are relative to the repository; the source is in `src/`.

## 1. The system

Chroma Engine is a Rust library (and a command line around it) that opens a
media file, indexes its packets, and serves it: as original packets in chunks, as
HLS, or decoded and re-encoded as fragmented MP4. A host process (a media
server) embeds it, or runs it in supervised child processes. Artifacts go to a
cache directory that the host owns and that several processes may fill.

| Component | Files under `src/` | State it keeps | Operations | What makes it correct |
|---|---|---|---|---|
| Artifact publication | `output.rs` | the file system only: a temporary name, the output path | `publish_bytes`, `publish_parts`, `publish_file` | readers see whole artifacts that never change; calls do not disturb each other; Ok means published |
| Admission pool | `resources.rs` | a policy, a mutex-protected count of leases | `validate`, `new`, `admit`, the lease's drop | the count is the number of leases alive; work fits sessions and memory |
| Worker supervision | `worker.rs`, `work.rs` | per call: lease, child, start time, spool files; a shared `WorkControl` | `run`, `cancel`, `check`, drops | no orphan child, no lost lease, `run` ends, success is earned |
| Media source | `source.rs`, `source/` | a retained file handle, the identity of the opened file, resident metadata, a metadata window, a cached Matroska index | `open_with_context`, `validate_current`, `read_packets`, metadata passes | what is returned comes from one version of one file |
| Playback session | `engine.rs` | a source, a chunk plan, counters | `open_with_runtime`, `segment` (from several threads), `stats` | payloads are the opened file's; errors say what happened |
| Transcode session | `transcode/segment.rs` | retained video codecs and their counters, retained audio pipeline, probed directories | `write_init`, `write_segment`, `write_segments`, `write_start`, `stats` | reuse is clean, one fallback, no failure wedges it, only what was rendered is published |
| Audio pipeline | `transcode/segment/audio_pipeline.rs`, `transcode/audio_*.rs` | decoder, encoder, PCM queue, anchor, completed index, poison flag | `new`, `prepare`, `render`, `complete` | every worker publishes the same AAC frame lattice |
| Video codecs | `transcode/video_*.rs`, `scaler.rs`, `yuv.rs` | driver sessions, surfaces | `new_with_policy`, `decode`, `encode` | the policy decides about software; frames keep their order |
| Packet index, chunk planning | `packet/`, `playback_manifest/` | none | chunk and seek planning, time rescaling | chunks partition the packets, rounding is exact |
| HLS packaging | `hls/` | plan and windows | plans, TS and fMP4 segments, playlists | windows partition the timeline; each packet is in one |
| Fragmented MP4, remux | `fmp4/`, `remux/` | none | fragments, init segments, files | decode times run on across fragments |
| Containers | `container/` | cluster and cue index | parsing, indexing, window scans | bounded, monotonic indexes |
| Planning | `session/`, `pipeline/`, `transcode/execution_plan.rs` | none | stage and track selection | executable stages only |
| Probe, platform | `probe/`, `platform/` | process-wide capability caches | queries | classification |
| Marker analysis | `analysis.rs`, `analysis/` | two caches of evidence on disk, shared by calls | `analyze`, the audio and visual detectors | evidence belongs to the source it was computed from; calls agree about it |
| Codec and subtitle parsers | `codec/` | none | parsing | bounded, total |
| Command line, errors | `cli/`, `error.rs`, `lib.rs` | none | argument parsing, reports | |

How they interact. A session (playback or transcode) opens a **media source**,
which takes a lease of the **admission pool** first and gives it back when the
source is dropped. The **worker supervisor** takes a lease of the same pool for
each child process and hands the child a policy of its own. All work of one request
checks one shared **work control**. The **transcode session** reads packets
through the source's validated reads, drives the **video codecs** and the **audio
pipeline**, and hands finished artifacts to **publication**. The host evicts files.

What is hard: several publishers of one path (threads or processes), any of which
may die; a control that stops work at any check; a source file that another process
renames or rewrites while it is read; children that hang, flood their output or exit at
an awkward moment; and, in a transcode session, codecs whose internal state survives
from segment to segment although calls come in any order and may fail half way.

There is no persistent state to recover and no message passing: the only crashes that
matter are those of calls that leave files in a cache, and the only concurrency is that of threads,
child processes and other processes on the file system.

## 2. The modules

| Module | What it is |
|---|---|
| `WriteOnceFile` | abstract: an output path is empty or holds one complete artifact; only the host empties it |
| `Publication` | the protocol of `output.rs`, refines `WriteOnceFile` |
| `MCPublication` | symmetry for TLC |
| `PublicationProofs` | its proofs |
| `EngineRuntime` | policy validation, limit, admit and release (`resources.rs`), extended by |
| `WorkerSupervisor` | supervised runs and source sessions on one pool (`worker.rs`, `work.rs`, the lease part of `source.rs`) |
| `MCWorkerSupervisor` | policies and controls for TLC |
| `WorkerSupervisorProofs` | its proofs |
| `MediaSource` | opening and identity checks (`source.rs`, `source/probe_reader.rs`) in a changing file system, extended by |
| `PlaybackSession` | `segment()` by several threads (`engine.rs`, `read_packets_mode`) |
| `PlaybackSessionProofs` | proofs about both |
| `TranscodeSession` | the session of `transcode/segment.rs` with the reuse rules of `audio_pipeline.rs` |
| `TranscodeSessionProofs` | its proofs |
| `PacketTimeline` | packets, their times in milliseconds, the chunk planner over packets (`packet/`) |
| `SampleTables` | which MP4 sample tables are accepted, the packets and chunks they make (`container/mp4.rs`) |
| `SegmentWindows` | `segment_windows` and `collapse_short_windows` step by step (`hls/mod.rs`) |
| `PlanningProofs` | proofs about sums, sequences and selections, sample tables and the chunk planners |
| `MediaMux` | one HLS segment: its packets, stamps, sizes, reads and fragment (`hls/`, `fmp4/`, `source.rs`) |
| `HlsPackaging` | calls that plan, mux and publish packages; composes the four modules before it |
| `MCHlsPackaging` | seven MP4 files, jobs and limits for TLC |
| `HlsPackagingProofs` | proofs about windows, segments, calls and packages |
| `MatroskaIndex` | cluster and cue index, window walks, packet times, plans (`container/matroska/`) |
| `VideoPictures` | decoders and encoders of one worker's pictures (`transcode/segment.rs`, `video_decode.rs`) |
| `AudioLattice` | the streaming audio pipeline and its segments, composed with the four modules it needs (`audio_pipeline.rs`, `audio_decode.rs`, `audio_clock.rs`) |
| `MCAudioLattice` | seven sources for TLC |
| `AudioLatticeProofs` | proofs about the window walks of `MatroskaIndex`, the frames, the pipeline, the pictures and the sound of segments |
| `MarkerAnalysis` | calls of `analyze`, their detectors and caches (`analysis.rs`, `analysis/`) against a changing source |
| `MCMarkerAnalysis` | durations and symmetry for TLC |
| `MarkerAnalysisProofs` | its proofs |

`PROJECT.json` maps every definition that models code to its lines. Operators
whose comment begins with *Slip:* are plausible mistakes in the definition that
follows; nothing uses them, each shows which property would notice it.

### Publication

Files are inodes. `target` is the inode the output path names, `names` the inodes that
still have a temporary name, `body` what has been written to each. A call runs through
`pc`: compare with an existing file, ask `path.exists()`, create the temporary file,
write its parts, link, compare again if the path was taken, unlink, or clean up. These are
the system calls of `publish_parts_with_options`, each a step of its own because other
processes run between them. `publish_file` (mode `"stream"`) skips both comparisons.
Each step may fail; `Crash` ends a call anywhere and leaves its temporary name;
`Evict` is the host. A publisher is one call at a time, so one that starts again stands
for a retry. `held` and `stray` are history: what the path held while a call ran, and
the temporary names that calls left which died or could not clean up.
`hard_link` is modelled as refusing to replace, which is what
`validate_cache_directory` probes for. The comparison of an existing file is
one step: an artifact at the path never changes (`WriteOnce`), so the moment of the
look does not matter.

### EngineRuntime, WorkerSupervisor

`sessions` is the counter behind the mutex, `lease` the threads that hold a
`SessionLease`; admission and release are one step each because the code holds the
mutex. A run is `Call`, `Reserve`, `Spawn`, then the polling loop `Checkpoint` and
`TryWait`, `ReadOutput`, and then the drops in Rust's reverse order: `Kill` and
`Wait` (`ReapedChild`) before `ReleaseLease`. Every `?` and `bail!` is a disjunct. A
source session takes its lease before it reads anything and holds it until it is
dropped. `stopped` holds the controls that were cancelled or are past their deadline:
`check()` treats the two alike but for the error's name. Hard timeout, output size and
exit are actions of the environment. `tooLate` is history: the control was stopped
before the child existed.

### MediaSource, PlaybackSession

A version is an inode and a stamp, the length and modification time that
`MediaSourceIdentity` records; a write in place gives the file a new stamp. So the model
does not cover changes that leave all recorded attributes as they were. The opening is
one thread: open the file, read the metadata through the path, validate, and, by kind of
container, read the selected tables by path again (a compact MP4) or scan clusters
through the handle (Matroska). `view.seen`, `meta`, `index` and `got` collect the
versions that bytes came from. `segment()` runs in several threads: validate, look up,
validate, read span by span, validate.

### TranscodeSession

One thread (the session uses `RefCell`) makes calls; a call is a sequence of
steps between which the control may stop or the source may change. `video` and `audio`
are the retained pipelines, with the code's own fields (`last`, `poisoned`, the
counters) and with `fed`: which segments their codecs have consumed, and whether to the
end. Codecs are thereby modelled by what matters for reuse, their history. A codec
failure is either *reported by the backend*, which may lead to the recovery, or
another error. `write_start` differs from `write_segment` in publishing two artifacts
with a validation in between. `fault` records that a call met a failure from outside,
`built` and `fallbacks` what really happened, `late` whether what is about to be
published was rendered under a stopped control or a changed source. A publication is
one step here, with its failure before or after the artifact is in place;
`Publication` has the details. This module is about the life of the pipelines;
`AudioLattice` is about what they produce.

Simplifications: `write_segments` with a count of zero returns at once and is left
out; `AudioPipeline::new`, a pure function of the track, succeeds again after it
succeeded at opening; `Check` inside a batch loop stands for the checks of all batches;
the error of an attempt that failed after a stop is not told from the stop's.

### PacketTimeline, SampleTables, SegmentWindows

`SampleTables` starts from the boxes of a track (`stsz`, `stts`, `ctts`, `stss`,
`stco`, `stsc`) as short sequences, decides which combinations the parser accepts, and
computes the packets: offsets from chunks, decode times from the run lengths, and
presentation times moved so that none is negative. Both chunk planners are folds:
`PlanTrackChunks` over packets and `TableChunkPlan` over the table.
`SegmentWindows` is a state machine because its correctness needs an invariant over its
loops: a planner scans the packets (`start`, `latest`, `cut` are the code's locals), cuts
the last window, then collapses the short ones. Several planners run at once.

### MediaMux, HlsPackaging

`MediaMux` has operators for one window: the packets in it, in decode order; transport stream
stamps (monotonic decode times) and the bytes they take; a fragment's base time,
durations and composition offsets and what its validation refuses; the estimates
checked before anything is read; and how reads of packets are joined, within gap,
span and amplification limits. `HlsPackaging` is the calls: open, plan, make the init
segment, mux segment by segment, publish each, then the media and master playlist.
Every step may fail, `Leave` ends a call anywhere (its process may die), and `Replace`
puts another file at the source path. Publication is abstracted to its specification
(`MayPublish`: the path is empty or holds the same bytes, as `WriteOnceFile` demands),
reads to `SourceSame` (`PlaybackSession` shows that reads between two checks are of one
version). `promised` is history: what the directory's media playlist stands for.

### MatroskaIndex

Clusters hold blocks with 16-bit relative times in ticks. Opening keeps the cue anchors if
their times do not run backwards, and indexes all clusters otherwise; a window is read by walking
from the last anchor that lies far enough before it to a cluster that lies far enough past it.
Packets get times and durations from their neighbours (`PacketsOf`,
`NominalMs`). `Plan` cuts by cues, or by blocks where the cues do not serve.

### AudioLattice, VideoPictures

A step is one whole `write_segment` by the current worker, `Break` a failure anywhere,
`NewWorker` another process. Between segments a worker keeps its decoder (its clock and the
Opus samples it still drops), spare PCM, the encoder (what it was fed since its
`anchor`) and the last packet it decoded. Sound is not modelled by value: a run of PCM is
an interval of sample positions with its *shift*, how far it lies from its place in
the source, or `Silence`, or `Cold` (a decoder started in the middle). With shifts TLC can tell
whether two segments agree on every sample without holding any. The AAC encoder is one
block behind and adds a frame when it is finished.

Pictures are numbers in decode order with the time they are due. A decoder holds back some
pictures and returns the earliest first; which packets are skipped (the leading pictures
of an open group at a worker's start), which batch they fall in, which time the session
gives to a returned picture (by order, or by the token it was sent with), the drain at a
segment's end and the sync frame at its start are the code's. `made` collects, per segment,
the different fragments any worker made for it, whether or not they were then published.

Assumed of code that is not ours: decoders hold back a bounded number of pictures, keep
their references over a drain, and software decoders return pictures in presentation order;
encoders return one picture for each they take; an audio decoder's first frame in
mid-stream cannot be trusted.

### MarkerAnalysis

A call goes through `analyze`: look at the path, probe it, run the audio detector if it has
references and the visual one unless it is for audio only, look again. An error of a detector is
only noticed (`GiveUp`). Evidence is modelled by where it came from: each keyframe, each
refined boundary and the tables remember their version (inode and stamp, as in `MediaSource`), and an
entry is named by the version its stamp was taken from. The steps that lie
between two looks at the source are apart: opening and reading the tables, the stamp, the
lookup and its second check, each keyframe, the checkpoint of a scan with the validation before
and after `persist`, the refinement, which opens a sampler only when it needs one. `publish_bytes`
refuses a different entry, `persist` replaces any. `Rename` and `WriteInPlace` are other
processes, which also put back what was there before; `left` and `back` are history, the versions that
were replaced at the path and those of them that came back. Only the properties read them, to say
which versions are excepted. `analyze` itself compares only
length and modification time: versions are assumed to differ in these. Reading payloads is one
step, because `read_packets` validates on both sides (`PayloadIsOriginal`). Which boundaries
are refined and which markers are found does not matter here; the two peers of the audio
detector are other sources and do not reach the entry of this one.

## 3. The runs

| Run | Question | Distinct states (about) |
|---|---|---|
| `Publication` | is publication whole, write-once, honest in Ok, and is every temporary name accounted for? | 2.6 million |
| `PublicationConflict` | is a conflict always a real one? *No* | finding |
| `WorkerSupervisor` | are leases, children, budgets and verdicts right, and does every `run` end? | 830 thousand |
| `TranscodeSession` | reuse, fallback, counters, errors, publication | 430 thousand |
| `Playback` | are payloads and metadata passes of one version? | 2.7 million |
| `PlaybackOpen` | is everything of the version that was opened? *No* | finding |
| `HlsPackaging` | do windows tile the timeline, is a package complete and of one source, do stamps, sizes, reads and fragments fit? | 1.2 million |
| `MarkerAnalysis` | is evidence bound to its source, whoever wrote it, and do calls agree about it, unless a version came back? | 4.0 million |
| `MarkerAnalysisReturn` | do calls always agree about an audio entry? *No* | finding |
| `HlsPlaylist` | does a playlist list the windows the segments are cut by? *No* | finding |
| `AudioLattice` | do segments made in any order by any worker form one stream of frames, sound and pictures? | 4.9 thousand, each a whole segment |
| `AudioHeader` | does a segment whose sound is there always come about? *No* | finding |

Bounds, and why they suffice.

- *Publication*: two publishers, two artifacts of two parts, both entry points,
  three files. Two publishers are needed for every conflict between calls;
  a third meets the same path and the same names. Three files let both
  publishers hold one while the path names a third, so that abandoned names
  of dead calls exhaust the directory, too. Publishers and files are
  interchangeable (symmetry).
- *WorkerSupervisor*: two runs and two sources share pools of limit one and two
  (by memory with a remainder, or by count); three of the actors share one control,
  one has its own. Four actors on a pool of two give every contention: full, one
  left, one freed while another waits. Four further policies are invalid and must not
  give a pool.
- *TranscodeSession*: three segments and three calls: start, continue or jump,
  and come back; a window of up to three; two segments before a recovery and one
  after it. Segment 3 is past the end of the plan.
- *Playback*: two files, each rewritten at most once; two threads with two calls
  each; payloads of one or two spans. Two versions suffice to mix. The open
  run needs one call only.
- *HlsPackaging*: two calls at a time and two in all, one replacement of the source, seven
  files of four to six frames: closed groups, two files that differ only in their bytes,
  an open group with leading pictures and a sample without duration, a
  first group below the minimum with a negative offset and chunks too few for the
  samples, a first frame shown late, a torn table, an unsupported track. Targets are at the
  planner's floor and above it; the limits lie between the segments' sizes, so that some
  are refused. Two calls suffice for a clash over a name; they are interchangeable.
  Deadlock is off: when both calls are spent nothing is left to do.
- *AudioLattice*: seven sources of three to five segments, 24 to 36 pictures in groups of
  four, closed and open; Opus and DTS; cues that serve, that lead three clusters too far,
  that lie too near, and none; sound stored ahead of its picture, sound that starts 0.7 s late and
  ends before the last segment; an MP4 with exact times whose header gives 48 kHz for 44.1; a DTS core
  of 32 kHz under a header of 48 kHz, of which a segment may fail. Decoders
  hold back one or two pictures, batches are of two to four packets. The number of
  requests is unbounded: the state space is finite because a pipeline is determined by the
  segments it has rendered since its start.
- *MarkerAnalysis*: two calls in all, two files, two changes (replacements or writes), two keyframes
  with a checkpoint at each. One call writes what the other reads; a change may fall anywhere in
  either, and the second one may undo the first: the file is away while one step of a call runs.
  Both files say the same duration, so only stamps tell entries apart; one of the two is fixed to begin at
  the path, the other is like it. The proofs hold for any number. Deadlock is off: spent calls stop.

Deadlock is checked in every run but those of `HlsPackaging` and `MarkerAnalysis`: a publication and a
supervised pool always have a step; a transcode session whose calls are used up stutters
explicitly (`Done`), in a playback session files can still be renamed, and a segment of
`AudioLattice` can always be asked for.

Fairness. Only `WorkerSupervisor` has a property that needs it: nothing else in this code
waits or retries without a bound. Its `FairSpec` says that
threads run, that the clock reaches the hard timeout, and that a killed process
ends (SIGKILL). No child needs to exit by itself, no control to be stopped. `RunsEnd`
would fail if the kernel kept a killed process alive: `ReapedChild::drop` waits without
a limit.

## 4. What the violations show

- **PublicationConflict** (`output.rs:111`). A publisher of the very same bytes may link its
  file after the comparison and before `path.exists()`: the caller is told
  "output already exists with different content". The same race at the link is
  handled by a second comparison.
- **PlaybackOpen** (`source/probe_reader.rs:60`). The metadata pass opens the path
  again and compares the path with itself, not with the retained handle: a rename away and
  back during the opening goes unnoticed. Payload reads are not affected by it
  (`PayloadIsOriginal` holds), but they follow the other file's index.
- **HlsPlaylist** (`hls/mod.rs:2136`, `container/mp4.rs:848`). The document says that windows are
  planned once (`docs/native-architecture.md:16`), but there are two planners: one starts at
  0 ms, the other at the first packet's presentation. If the first frame is shown late they cut
  differently: a playlist lists three segments of a source that is cut in two.
- **AudioHeader** (`transcode/segment/audio_pipeline.rs:54`). Preroll and lookahead are planned with the header's rate
  until the decoder has run. The comment there means to plan conservatively for DTS-HD, whose header may
  give a higher rate than its core has, but a higher rate makes the window shorter, and only rates above
  48 kHz are cut down. For a core of 32 kHz the lookahead of 86 ms is up to 319 samples short. Where a packet
  begins in that gap the segment of a new worker fails for want of sound that the file has, and so does
  every retry, which starts from the header again. `NoHoles` excuses neither this nor the other way in
  which a stream gets a hole: a segment that is not the last one also fails where the sound ends
  within its lookahead (the last but one of `LateFile`), while a comment (l.199) says that a shorter track
  ends in silence. `RefusedOnlyWhenShort`, which the run `AudioLattice` checks, says that there is no third reason:
  a segment that fails by itself lacks sound, or the milliseconds read ahead at the header's rate are
  less than three frames of the real one (`HeaderMisleads`).
- **MarkerAnalysisReturn** (`analysis/audio.rs:113`). An analysis binds its evidence by looking at the path before and
  after. A file that leaves the path and comes back in between defeats this: the stamp of an audio
  entry is taken from the path after the source was opened, and the visual sampler opens the path
  anew (`visual.rs:255`) without comparing it with the stamp of the cache. Two calls then make different
  audio entries for one stamp, and the audio detector of the second one fails, although a comment (l.228) says that
  readers can always regenerate an entry. In the same way an entry of one file may hold what was read from
  the other, and a later call returns its markers. `EvidenceIsItsSources`, `MarkersAreItsSources` and `PublicationsAgree`
  say that nothing else can go wrong: each excepts the versions that came back (`CameBack`), and no others.

### Observations that are no violation of anything stated

Met while modelling; each is a boundary of a property above or of a module.

- Transport stream stamps are masked to 29 bits of the 33 (`write_pts`, `write_pcr`) and wrap
  after about 5965 s.
- Leading pictures of an open group fall in the previous window of an MP4's HLS plan.
  `FragmentTimes` therefore speaks of windows whose packets are neighbours in decode order.
  A last frame of less than a millisecond, and audio after the video's end, fall in no window.
- Negative composition offsets are shifted per fragment (`fmp4/mod.rs:294`), so the shift differs between
  fragments; a sample without duration gets one unit, which breaks decode-time
  continuity; a fragment needs audio in its window.
- `docs/resource-policy.md:127` says that restarting a worker does not lose residual audio. A fresh
  worker's clock starts at a millisecond stamp of a Matroska file, so up to 32 samples repeat or are lost:
  `SeamsAreRounding` bounds it by the spread of the source's stamps.
- `validate_current` fails for a stopped control, too, and `segment` maps each of its failures to `SourceChanged`,
  which advises to refresh (`engine.rs:226`); the variant is documented as a change of the source
  (`engine.rs:309`). `ValidateCall` has it so.
- When a recovery cannot create its replacement, the counters go with the old pipeline
  (`transcode/segment.rs:425`): `stats()` then shows no decoder session created (l.306), while `StatsAddUp` holds of
  every session that still has a pipeline.
- The nominal frame duration of a Matroska track is a median of gaps in decode order
  (`container/matroska.rs:1463`): with B-frames it is two or three frames.
- Times are matched to software-decoded pictures by order: a picture dropped for a missing
  reference fails the segment instead of shifting its times. A fresh worker lacks the leading pictures
  that a continuing one shows (`PicturesShown` says which).
- Concurrent calls overwrite each other's visual entries: a slower scan's checkpoint may replace a complete
  entry by an incomplete one. What it holds is still of its source; the work is lost.
- `prune` refuses a directory of 25 000 entries (`audio.rs:145`): once that many are there, nothing is
  pruned any more.

## 5. The proofs

All theorems hold for any values of the constants that satisfy the modules'
named assumptions.

**PublicationProofs.** Assumed: contents and modes are not empty, parts are positive,
the special values are not contents or inodes. The properties alone are not inductive:
that a linked file is whole follows only from the writer's own progress. `IInv`
adds `OwnFile` (who holds a temporary file, whose bytes it has, that it is whole from
the link on, and that it is not the file at the path while it may still be written) and
`Observed` (a running call has observed what the path holds now). Each action
disturbs one call and the files; `TempsAreOwned` (no two calls have one temporary file) makes the writes
of one call harmless to the others, and with it each step's names can be accounted for one by one
(`NamesOneByOne`, `StepNames`): a name that a step takes away is its own call's, one that it leaves behind
becomes `stray`. Proved: `TypeOK`, `NeverPartial`, `NamesAccountedFor`, `OkMeansPublished`,
and that `Publication` implements `WriteOnceFile` (each step is a publication, an
eviction or a stutter under the mapping `cell <- Visible`).

**WorkerSupervisorProofs.** Assumed: workers and sources are disjoint finite sets, each
has a control, policies are of their type. `LimitBounds` proves from validation that the
limit is at least one, at most `max_sessions`, and that limit reservations fit the
aggregate. `IInv` adds `HoldsLease` (exactly the control points past admission hold a
lease), `ChildAt` (the child's state at each control point) and `Verdict` (a stopped run
does not pass its first checkpoint). Proved: `TypeOK`, `LeasesCounted`,
`WorkWithinReservations`, `NoOrphans`, `OkIsTimely`, `ChildPoolsFit`.

**PlaybackSessionProofs.** Assumed: a payload has at least one span. Stamps only grow, so
what was read between two equal looks at an identity is of that version (lemma
`SeenTwice`). `IInv` states this for each control point: `ViewAt` for a metadata pass
(everything read since its first look is no older than it), `MetaAt` and
`IndexAt` for what the passes leave behind, `CallAt` for a thread's payload, and `Opened`.
Proved: `TypeOK`, `UntornMetadata`, `PayloadIsOriginal`.

**PlanningProofs.** Both chunk planners, over packets and over a sample table, partition any sequence
of packets: gapless, no chunk empty, every later chunk begins at a keyframe at least the target
after the one before. `CutSoFar` says it of a planner in the middle of its walk, with the chunk it
has open. The planners are recursive functions: that these exist is proved by hand, and
the induction over the packets' numbers uses the well-foundedness of <.

About sample tables: whatever the parser accepts becomes a sequence of packets, no more of them than
`stsz` has entries, with natural offsets, sizes and times (`TablePackets`). The lemmas they all
rest on are a small kit: `Iteration` (a recursive function over 0 .. N exists and keeps its type),
`Sums` and `TotalIs` (what `Total` of a sequence is, step by step), `Keeps` (the same of `Kept`), and
what `Kept` makes of parts of a sequence: nothing of a part without members (`KeptNone`), the parts'
selections in a row (`KeptConcat`, `KeptMiddle`), a piece of the sequence when the members are a run (`KeptRun`).

**HlsPackagingProofs.** Assumed, each named in the module that declares the constant: jobs are well
formed (`JobsAssumption`), a playable source has tracks the planner may be given
(`TrackSetsAssumption`), the fields of the boxes are unsigned (`ContentAssumption`: a NAL length
field has 1 to 4 bytes, `(byte & 3) + 1`; an ADTS header is 7 bytes or absent), limits are unsigned
(`LimitsAssumption`), and the length fields of a video sample lie in the sample
(`SamplesAssumption`; `append_annex_b` refuses another one). That packets come from the tables as they
should is proved (`TablePackets`), not assumed.

*Windows.* Nothing is assumed of the packets' times. The windows cut so far are a gapless numbered
timeline that ends at `start`, and every frame passed lies in one of them or after it (`Scanning`);
while windows are collapsed, those kept and those left still tile (`Collapsing`). Proved: the
invariant (`Inductive`), `WindowsTile`, `NoShortSegment`, `EveryFrameOnce`.

*What is in a segment* needs no invariant over calls beyond `opened` being a known file and `pending`
holding the segment that was made for the window (`PendingSegment`):

- `StampsGoUp` (`StampsAdvance`): `Sanitized` is a walk that remembers the last stamp of each stream.
  `Advancing` says that the samples passed advance and that the remembered stamps are the last ones; a
  sample is lifted above the one it remembers. It holds for any packets, in any order.
- `SegmentsFit` (`OutputFits`): the estimate is checked from packet sizes before anything is read, the
  output has start codes, parameter sets, ADTS and PES headers, and transport packets. One sample at a time
  the estimate covers what is written (`EstimateCovers`); a sum along a sequence survives the
  interleaving and the sanitising (`InsertedTotal`, `AlongConcat`).
- `FragmentsRunOn` (`FragmentTimes`): the writer adds up durations, and the base of the next fragment is
  the sum. Where the packets are neighbours in decode order the durations are their distances, so
  the sum telescopes. `Unbroken` asks for a time scale above 0: `parse_mdhd_timescale`
  (`container/mp4.rs:1045`) lets 0 pass.
- `ReadsComplete` (`ReadsDeliver`): the reads made so far deliver exactly the packets passed, in order, each
  within its read, and a read's gaps stay within the room that amplification leaves (`Spans`).
- `BandwidthSuffices` (`BandwidthCoversPeak`): the code adds the packets up in one walk over the windows
  (`Located`), a segment selects its own. Both sum one weighting of the track (`KeptTotal`), and
  the peak is the greatest of the quotients.

*Calls.* First, `PackagingSpec => PlanningSpec`: whatever else a call does, it plans only
as `SegmentWindows` says, so the three theorems about windows hold of every package. Then `IInv`:
`Written` is what a call has published at the point where it stands (its init segment and the
segments before `at` while it muxes; all segments once it turns to the media playlist; that
playlist before the master), `Delivered` what one that succeeded has. It is inductive because the
directory only grows (`Grows`: publication never replaces a file) and a plan does not change
once made, so no step of another call, no replacement of the source and no failure takes
anything away. Proved: `PackageComplete`, `DoneMeansPublished`, `ChunksTile`, `WindowsTile`,
`NoShortSegment`, `EveryFrameOnce`, for any sources, jobs and limits and any number of calls.
Every invariant of the run `HlsPackaging` is thereby a theorem.

**TranscodeSessionProofs.** Assumed: at least one segment; any bound on the calls. `IInv`
adds `VideoAt` and `AudioAt` (what each pipeline has consumed at every step of a
call: a pipeline that is not poisoned has consumed exactly up to its last completed
segment), `Control` (a recovery is under way only for a native pipeline; a closed
session does not render) and `Lateness` (a stop or a change that was seen stays).
Lemmas say what submitting and completing a segment do to the history. TLC checked
`IInv` first. Proved: `TypeOK`, `CleanReuse`, `FallbackDiscipline`, `StreamingKept`,
`StatsAddUp`, `NoWedge`, and the action property `PublishedRendered`.

**AudioLatticeProofs.** Assumed: the chunks of a source do not run backwards (`ChunksAssumption`),
rates are at least 8000 Hz (`RateAssumption`), and what a muxer promises (`SourcesAssumption`): packets
are numbered in decode order and the first picture is a keyframe; the packets of an MP4 file are those of
its tables and its sound's times do not run backwards; nor do the clusters and the sound of a
Matroska file, whose segments are cut at times at which it has a keyframe (cues are written
for keyframes) and whose pictures are all shown before the last segment ends. And what H.264 and H.265
promise (`PicturesAssumption`): each picture has a time of its own; of the pictures decoded before another one no
more are shown after it than the decoder holds back, which is what a stream's max_num_reorder says and why
a decoder may return one when it holds more; leading pictures belong to the last random access point before
them. And what a sound format promises (`SoundAssumption`, which only `NothingIsMadeUp` cites): time stamps are right to the
millisecond, packets hold sound and are no longer than the 250 ms that the preroll allows for one, and the rate is
not above those that AAC has. Nothing is assumed of cue positions, of how far pictures are reordered, of the batches, of
the rate the header gives, or of the order of requests. The run's seven sources satisfy all of it.

*The frames.* `IInv`: every fragment in `made` has exactly the
frames of its own window. The steps are that the normalised plan is gapless
(`PlanIsGapless`), that a millisecond is at least one sample, so that a later window does not
start with the first one's priming (`LaterIsPositive`), and that the two roundings, to samples
and then to frames, give neighbours one bound (`BoundsMeet`). Proved: `OneLattice`.

*The walk.* For all files whose clusters do not run backwards, any cues,
right or wrong, and any window, a block shown inside the window lies in a cluster that the walk
scans (`WalkMissesNothing`). Relative times are 16-bit, so a block lies within a span
of its cluster; an anchor that is used lies within a span of its cue, the cue two spans before
the window, and the walk ends a span after it. First and last clusters come from
the least and greatest elements of sets of numbers, obtained from the well-foundedness of <.

*What is read* (`NothingMissed`, the property `AnchorsMissNothing`). The file's blocks are those before the walk's
first cluster, the walk's, and those behind its last (`WalkSplits`): of the first none is shown as late as the
window's start, of the last none as early as its end. Sound is taken by its time, so that is all it needs.
Pictures are taken by groups: a group that a walk meets could have begun before the walk, or go on behind it.
That it does not is `TakenSame`: a keyframe in front of the window opens nothing, and the group is closed
by a keyframe at the window's end, which the plan promises, or there is nothing more.
The windows depend on the rate the pipeline knows, so this is an invariant with the pipeline's
type: `PipeTyped` says that its positions are whole numbers of samples and that its rate is unknown or
the source's, through every decoder, every feeding and every failure (`PipelineTyped`).

*The pictures* (`PicturesInOrder`, the property `PicturesFollow`). `PicturesRun`: each fragment has the
run of pictures from its segment's first keyframe to the one before the next segment's. For an MP4 file the
runs are the chunks of the sample table, which partition it (`TablePartitioned`); for Matroska
the run is what `Taken` gives of the whole file (`GroupIs`), and the walk gives the same.

*The pictures shown* (`AllPicturesShown`, the property `PicturesShown`). The property alone is not inductive: the
decoder goes on from segment to segment, and which pictures lack references depends on where it started.
`VideoShown` adds that a decoder that completed a segment has had the pictures since one no later than the segment's first
(`Shown`), and that this segment's frames are all those of its run but the ones that lead up to
that start (`FramesShow`). Within a segment the invariant is of the session (`InStep`): of the packets it had, each is
held or has become exactly one frame, the frames' times ascend, also from batch to batch, and every frame is earlier
than all that is held or still to come. The last holds because a decoder only returns a picture when
it holds more than `hold`: by `PicturesAssumption` no picture that is still to come is then earlier than the earliest held
(`NoneEarlier`). So sorting a batch changes nothing, the earliest pending time is the returned picture's own (by order or by
token), and the drain leaves none. `StepInStep` is one packet, `PicturesDecoded` a segment,
by induction over the packets; `SkipsLacking` is that what `skip_initial_rasl` skips is just what lacks references.

*The sound* (`SeamsRounded`, the property `SeamsAreRounding`). A sample's shift is how far it is from its
place in the source, and it must not grow with the segments a worker goes on for. `SoundInPlace`: the
clock stands where the last packet ends, up to the rounding of one packet's time (`InPlace`); a pipeline that
completed a segment has decoded every packet before its end (`Reaches`); and every run that is waiting, fed or
published has the shift of one packet, or is silence or a decoder's first frame. The property alone is not inductive,
for it says nothing of the clock nor of what is decoded next. The
argument: what `extract_indexed_time_range` gives of either kind of file is a run of its packets, with early
ones before it and late ones behind it (`RangeOfSound`); it reaches back to the end of the segment before, so the packets a
pipeline has not seen follow its last one (`FreshGoesOn`); and decoding the next packet keeps it in place
(`DecodedInPlace`), by induction over them (`DecodesInPlace`). Feeding changes no shift. `Steady` tells the
sources whose times never part from the clock by more than 100 ms: there all shifts come from a worker's
first packet. On the others the clock may be set anew, and shifts also come from packets of which nothing is dropped.

*Nothing made up* (`NothingIsMadeUp`, the property `NothingMadeUp`). A gap in what is fed becomes silence, so the
invariant `SoundFlows` says that there is none: the waiting PCM is one run after the other up to the clock (`Seamless`),
it starts where the encoder stopped (`Joins`), and what was fed last is sound (`EndsInSound`). Silence may lie before
the sound's start, or so early that the segment's own frames do not include it (`Opens`); a decoder's first frame likewise
(`Unheard`). Three distances make that so, all of them through times that are rounded twice. The
preroll reaches back over the packets that a new decoder warms up with, at any rate that may be planned with
(`PrerollReaches`, `StartsEarly`); a segment's first frame begins a frame before what is heard of it (`WindowOrder`); and
the lookahead reaches behind the window's end, so that silence is added at the end of the last
segment only where the clock has come to the end of the sound (`LookaheadReaches`, `ClockAtEnd`). Feeding is frame
by frame (`FedFrameFine`, `FedBeforeJoins`); a pipeline that goes on has what the last segment left
(`RenderFlows`, `PreparedFlows`). TLC checked `SoundFlows` first.

**MarkerAnalysisProofs.** Assumed: at least one keyframe (`CountsAssumption`); nothing of the changes, which may put
back any file at any time. A version that was seen at the path is still there or was replaced
since (`Gone`, `WorldMoves`); a version that is there although it was replaced is one that came back
(`WorldOK`). So two looks that agree enclose no change, or what they saw is excepted by `Only`. `IInv`
says what a call may rely on at each point, up to `Gone`: `Opens` (an open source is the current
version, or its version was replaced), `Hears` and `Sees` (the same of the entry a detector works for, and
what its evidence then holds), `Makes` (the same of the result). A look that finds the version in place
leaves two cases, that it was never replaced or that it came back (`OnlyCameBack`). The entries hold only
what is theirs, up to the exception (`AcousticOK` with `Honest`, `VisualOK`), which is all that one call may trust of
another. Versions that came back stay so, and evidence only gains sources, so an exception, once it
holds, holds from then on (`SoundStays`). `OneCallMoves` reduces each step of a call to its own
record. Proved, without a condition on the environment: `EvidenceIsItsSources`, `MarkersAreItsSources`,
`PublicationsAgree`, each with its exception in the formula.

Every invariant and action property of a passing run is a theorem but two properties, which are only model-checked:

- `RunsEnd`, a liveness property: fairness and ENABLED are beyond the prover.
- `RefusedOnlyWhenShort` of `AudioLattice`: it needs every way in which `render` fails to be excluded, and the proofs
  stop at what the sound is that was fed, not how far it reaches. The run checks it on sources whose segments
  may fail, for either reason, and on those that may not.

## 6. Not modelled

- *Bytes*: parsing of boxes, elements, bitstreams and subtitles, PES headers, program
  tables and box layout. Data transformations without control worth a state machine; the
  repository has fixtures and fuzz targets. `remux/` writes one progressive file in one pass.
- *Pixels and drivers*: scaling, colour, rate control, surfaces, and the encoders' own
  reordering (NVENC and the Windows encoder keep pictures from batch to batch and are not
  flushed at a segment's end; one in, one out is assumed).
- *HLS from Matroska* and plans with several audio tracks; the playlist plan's bandwidth, which comes
  from the size of the source; eviction by the host during packaging.
- *TrueHD's* start (its synchronisation is a vendored crate's), PCM and output
  budgets, laced blocks and declared frame durations, the audio path without a pipeline.
- *Publication options* that are not the default (`sync_data`, refusing identical files) and
  `validate_cache_directory`, whose result `Link` assumes.
- *Seek anchors* and copy-seek plans (selections from a list), the playback manifest,
  execution planning, probing and capability caches (classification; a cache never
  changes once filled), the command line.
- *Marker analysis*: fingerprint matching, text detection and the merging of markers
  (signal heuristics), the audio detector's peers, the limits of `prune`.

Four hazards have no property: the error kept in the Matroska index's cell
(`source.rs:343`), the metadata window (`source.rs:188`), the memory of probed directories
(`segment.rs:356`) and the error of a stopped playback call (`engine.rs:226`).
`PROJECT.json` gives the reason at each.

## 7. Plan

Written: publication, admission and supervision, transcode session, source and playback
session, the MP4 timeline and HLS packaging, the Matroska index, the audio lattice, the
pictures and the marker analysis; proofs about each of these. What would add most next:

1. HLS from Matroska, whose windows come from cues and whose packets from window walks.
2. `RefusedOnlyWhenShort` as a theorem: `LookaheadReaches` with the three frames that `render` asks for in
   place of the window's end, for the sources that are not `HeaderMisleads`.
3. Execution planning against its table of stages; TrueHD with an external synchronisation.
