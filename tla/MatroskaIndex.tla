--------------------------- MODULE MatroskaIndex ---------------------------
(***************************************************************************)
(* MatroskaFileIndex (container/matroska/file.rs, file/seek.rs,            *)
(* container/matroska.rs): a window of a track is found by walking whole   *)
(* clusters.  When the file's SeekHead leads to Cues the walk starts at an *)
(* anchor, a cluster some cue points to, and never looks at what comes     *)
(* before; otherwise every cluster's time is read once.  A block is timed  *)
(* relative to its cluster by a signed 16-bit number of ticks, so it may   *)
(* lie far before or after it.                                             *)
(*                                                                         *)
(* A file is a record of                                                   *)
(*   tick      microseconds per tick of the segment (TimestampScale),      *)
(*   clusters  their times in ticks and their blocks, in file order; a     *)
(*             block has its track, its relative time, its key flag and    *)
(*             its number among the blocks of its track,                   *)
(*   cues      records of a time, a track and the position of a cluster    *)
(*             (past the last one: an element that is no cluster),       *)
(*   seekHead  whether a valid SeekHead leads to the Cues,                 *)
(*   duration  of the whole file in milliseconds, 0 if it is not written.  *)
(***************************************************************************)
EXTENDS PacketTimeline, FiniteSets, SequencesExt

FurthestTicks == 32768      \* a signed 16-bit relative time
BlockType ==
  [track : {"video", "audio"}, id : Nat, key : BOOLEAN,
   relative : -FurthestTicks .. FurthestTicks - 1]
ClusterType == [time : Nat, blocks : Seq(BlockType)]
CueType == [time : Nat, track : {"video", "audio"}, position : Nat]
FileType ==
  [tick : Nat, clusters : Seq(ClusterType), cues : Seq(CueType), seekHead : BOOLEAN,
   duration : Nat]

RepeatedFrameMs == 250      \* longer gaps say nothing of the frame rate
Forever == 1000000000       \* stands for u64::MAX milliseconds

\* matroska_timecode_to_ms.
TicksToMs(f, ticks) == IF ticks <= 0 THEN 0 ELSE (ticks * f.tick) \div 1000
\* How far a block may lie from its cluster (l.366).
Span(f) == TicksToMs(f, FurthestTicks) + 1

ClusterMs(f, c) == TicksToMs(f, f.clusters[c].time)
BlockMs(f, c, b) == TicksToMs(f, f.clusters[c].time + b.relative)
Stamped(f, c) == [n \in DOMAIN f.clusters[c].blocks |->
                    LET b == f.clusters[c].blocks[n]
                    IN  [track |-> b.track, key |-> b.key, id |-> b.id,
                         ms |-> BlockMs(f, c, b)]]

-----------------------------------------------------------------------------
(***************************************************************************)
(* Anchors: the earliest cue time of every position, in file order.        *)
(***************************************************************************)
CuePositions(f) == {cue.position : cue \in ToSet(f.cues)}
CueMs(f, position) ==
  LET times == {TicksToMs(f, cue.time) :
                  cue \in {k \in ToSet(f.cues) : k.position = position}}
  IN  CHOOSE t \in times : \A u \in times : t <= u

\* load_checked: anchors whose times run backwards are not used.
Anchored(f) ==
  /\ f.seekHead /\ f.cues # <<>>
  /\ \A p, q \in CuePositions(f) : p < q => CueMs(f, p) <= CueMs(f, q)

\* The full index is refused when its clusters run backwards; with anchors the
\* same test waits for the walk.
OrderedClusters(f, range) ==
  \A c \in range : c + 1 \in range => ClusterMs(f, c) <= ClusterMs(f, c + 1)
Indexed(f) == Anchored(f) \/ OrderedClusters(f, DOMAIN f.clusters)

\* Slip: an anchor at the start has the wanted blocks behind it.
BehindStartClose(f, ms, start) == ms < start

\* An anchor this far before the start has every wanted block behind it.
BehindStart(f, ms, start) ==
  LET far == 2 * Span(f) IN start > far /\ ms < Minus(start, far)

\* The last usable anchor, when it really is a cluster near its cue.
FirstCluster(f, start) ==
  LET before == {p \in CuePositions(f) : BehindStart(f, CueMs(f, p), start)}
      p == CHOOSE q \in before : \A r \in before : r <= q
      near == /\ p \in DOMAIN f.clusters
              /\ LET away == ClusterMs(f, p) - CueMs(f, p)
                 IN  away <= Span(f) /\ -away <= Span(f)
  IN  IF Anchored(f) /\ before # {} /\ near THEN p ELSE 1

\* The walk ends at the first cluster that lies a span past the end.
LastCluster(f, first, end) ==
  LET past == {c \in first .. Len(f.clusters) : Minus(ClusterMs(f, c), Span(f)) >= end}
  IN  IF past = {} THEN Len(f.clusters)
      ELSE (CHOOSE c \in past : \A d \in past : c <= d) - 1

\* The blocks of the clusters first .. last whose times are at least from.
BlocksFrom(f, first, last, from) ==
  LET seen[c \in first - 1 .. last] ==
        IF c < first THEN <<>>
        ELSE IF ClusterMs(f, c) >= from THEN seen[c - 1] \o Stamped(f, c)
        ELSE seen[c - 1]
  IN  seen[last]

\* for_each_block_until: the blocks that are looked at, in file order.
BlocksScanned(f, start, end) ==
  LET first == FirstCluster(f, start)
  IN  BlocksFrom(f, first, LastCluster(f, first, end), Minus(start, Span(f)))
WholeFile(f) == BlocksFrom(f, 1, Len(f.clusters), 0)
\* Nor may the walk meet a cluster that runs backwards, the one after included.
WalkOrdered(f, start, end) ==
  LET first == FirstCluster(f, start)
      last == LastCluster(f, first, end)
  IN  OrderedClusters(f, first .. Smaller(last + 1, Len(f.clusters)))

-----------------------------------------------------------------------------
(***************************************************************************)
(* packet_windows: one walk serves a video and an audio window.  Audio is  *)
(* taken by its time.  Video is taken by groups in decode order, from the  *)
(* first keyframe inside the window to the first one after it: a leading   *)
(* picture goes with its keyframe, whenever it is shown.                   *)
(***************************************************************************)
Window(track, start, end) == [track |-> track, start |-> start, end |-> end]

TrackBlocks(blocks, track) == Kept(blocks, {n \in DOMAIN blocks : blocks[n].track = track})
\* video_started, video_ended: there was a keyframe at or after a time.
KeyframeBy(blocks, n, ms) == \E m \in 1 .. n : blocks[m].key /\ blocks[m].ms >= ms

\* Slip: pictures are taken by their time, as sound is.
TakenByTime(blocks, w) ==
  LET own == TrackBlocks(blocks, w.track)
  IN  Kept(own, {n \in DOMAIN own : w.start <= own[n].ms /\ own[n].ms < w.end})

Taken(blocks, w) ==
  LET own == TrackBlocks(blocks, w.track)
      group == {n \in DOMAIN own : KeyframeBy(own, n, w.start) /\ ~KeyframeBy(own, n, w.end)}
      inside == {n \in DOMAIN own : w.start <= own[n].ms /\ own[n].ms < w.end}
  IN  Kept(own, IF w.track = "video" THEN group ELSE inside)

\* The walk covers the windows of all the tracks.
Hull(windows) ==
  LET starts == {w.start : w \in ToSet(windows)}
      ends == {w.end : w \in ToSet(windows)}
  IN  [start |-> CHOOSE s \in starts : \A t \in starts : s <= t,
       end |-> CHOOSE e \in ends : \A t \in ends : e >= t]

Blocks(f, windows) ==
  LET hull == Hull(windows)
      seen == BlocksScanned(f, hull.start, hull.end)
  IN  [n \in DOMAIN windows |-> Taken(seen, windows[n])]

WalkFails(f, windows) ==
  \/ ~Indexed(f)
  \/ \E w \in ToSet(windows) : w.start >= w.end
  \/ ~WalkOrdered(f, Hull(windows).start, Hull(windows).end)
\* An empty window is an error, too.
WindowsFail(f, windows) == WalkFails(f, windows) \/ <<>> \in ToSet(Blocks(f, windows))

-----------------------------------------------------------------------------
(***************************************************************************)
(* Packets of blocks without a declared duration (push_block_packets,      *)
(* repair_matroska_packet_timing): a packet lasts until the next one; a    *)
(* picture lasts the middle one of the usual gaps.                         *)
(***************************************************************************)
Gaps(blocks) ==
  LET gap == [n \in 1 .. Len(blocks) - 1 |-> blocks[n + 1].ms - blocks[n].ms]
  IN  SortSeq(SelectSeq(gap, LAMBDA g : 0 < g /\ g <= RepeatedFrameMs), <)
NominalMs(blocks) ==
  LET gaps == Gaps(blocks)
  IN  IF gaps = <<>> THEN 1 ELSE gaps[Len(gaps) \div 2 + 1]

\* infer_last_packet_duration for the last one.
SoundMs(blocks, n) ==
  LET m == Smaller(n, Len(blocks) - 1)
  IN  IF m = 0 THEN 0 ELSE Minus(blocks[m + 1].ms, blocks[m].ms)

PacketsOf(blocks) ==
  LET nominal == NominalMs(blocks)
      packet(n, b) ==
        IF b.track = "video"
        THEN Packet(MillisPerSecond, b.id, 1, b.ms, blocks[1].ms + (n - 1) * nominal,
                    nominal, b.key)
        ELSE Packet(MillisPerSecond, b.id, 1, b.ms, b.ms, SoundMs(blocks, n), b.key)
  IN  [n \in DOMAIN blocks |-> packet(n, blocks[n])]

-----------------------------------------------------------------------------
(***************************************************************************)
(* plan: chunks start at cues of the track, which need be no blocks, or,   *)
(* without cues, at keyframes.                                             *)
(***************************************************************************)
CueTimes(f, track) ==
  LET own == SelectSeq(f.cues, LAMBDA cue : cue.track = track)
      sorted == SortSeq([n \in DOMAIN own |-> TicksToMs(f, own[n].time)], <)
  IN  FoldLeft(LAMBDA times, t : IF times # <<>> /\ Last(times) = t THEN times
                                 ELSE Append(times, t),
               <<>>, sorted)

\* Chunk starts are the first cue and every cue a target after the last start.
CueStarts(times, target) ==
  FoldLeft(LAMBDA starts, t : IF t - starts[Len(starts)] >= target THEN Append(starts, t)
                              ELSE starts,
           <<times[1]>>, Tail(times))

\* parse_cue_chunk_plan, and plan's correction of the last chunk.
CuePlan(f, track, target) ==
  LET times == CueTimes(f, track)
      starts == CueStarts(times, target)
      lastCue == times[Len(times)]
      final == IF f.duration = 0 THEN Minus(lastCue, starts[Len(starts)])
               ELSE Larger(Minus(f.duration, starts[Len(starts)]), 1)
  IN  [n \in DOMAIN starts |->
         [start |-> starts[n],
          duration |-> IF n = Len(starts) THEN final ELSE starts[n + 1] - starts[n]]]

\* Without cues the whole track is one window.
WholeTrack(track) == <<Window(track, 0, Forever)>>
PlanFails(f, track) ==
  ~Indexed(f) \/ (CueTimes(f, track) = <<>> /\ WindowsFail(f, WholeTrack(track)))
Plan(f, track, target) ==
  IF CueTimes(f, track) # <<>> THEN CuePlan(f, track, target)
  ELSE LET chunks == PlanTrackChunks(PacketsOf(Blocks(f, WholeTrack(track))[1]), target)
       IN  [n \in DOMAIN chunks |-> [start |-> chunks[n].start,
                                     duration |-> chunks[n].duration]]
=============================================================================
