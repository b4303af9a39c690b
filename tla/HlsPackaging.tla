---------------------------- MODULE HlsPackaging ----------------------------
(***************************************************************************)
(* Calls that package one MP4 source as HLS (hls/mod.rs): write_hls_vod    *)
(* and write_hls_fmp4_vod write a whole package, write_hls_segments and    *)
(* write_hls_fmp4_segments a range of segments, HlsVodPlaylistPlan::open   *)
(* only plans.  The calls may run at once, in one process or several, and  *)
(* share the output directory; the source may be replaced between their    *)
(* steps and a process may end at any step.  A call plans with the actions *)
(* of SegmentWindows.  Reading a segment's packets is one step, which      *)
(* fails if the source is not the one that was opened (MediaSource);       *)
(* publication is one step, which never replaces a file (WriteOnceFile).   *)
(***************************************************************************)
EXTENDS SampleTables, SegmentWindows, MediaMux

CONSTANTS Files,            \* the sources the path may name
          Content,          \* what each of them holds
          Jobs,             \* the calls that may be made
          OutputLimit,      \* policy: bytes of one segment
          CompressedLimit,  \* policy: bytes of packets read for one segment
          ReadLimits,       \* gap, span and amplification of a packet read
          MaxReplacements,  \* bound: how often the source is replaced
          MaxRuns           \* bound: calls made

Writers == Planners

\* What a caller asks for; only a batch has a range of segments.
JobType == [op : {"vod", "batch", "list"}, format : {"ts", "m4s"}, target : Targets,
            first : Nat, count : Nat]
ASSUME JobsAssumption == Jobs \subseteq JobType

VARIABLES current,   \* the source at the path: its stamp and which file it is
          runs,      \* calls made
          pc,        \* where each call stands
          job,       \* what it was asked for
          opened,    \* the source it opened
          at, until, \* the segment it is at and the last one it writes
          pending,   \* the file it is about to publish
          shown,     \* the playlist windows a call that only plans returned
          disk,      \* the output directory
          promised   \* history: the package of the first media playlist

package == <<current, runs, pc, job, opened, at, until, pending, shown, disk, promised>>
packagingVars == <<planning, package>>

NoFile == <<>>
NoJob == CHOOSE j \in Jobs : TRUE
NoSource == [stamp |-> 0, file |-> CHOOSE f \in Files : TRUE]
InitName == <<"init", 0>>
MediaName == <<"media", 0>>
MasterName == <<"master", 0>>
\* segment_name, fmp4_segment_name.
SegmentName(format, w) == <<format, w.index>>

\* What a track says of itself: its boxes, its time scale, and how its samples
\* grow when they are packed.  A NAL unit's size field has (byte & 3) + 1 bytes.
ClipType == [boxes : BoxesType, scale : Nat, video : BOOLEAN, lengthSize : 1 .. 4,
             nals : Nat, private : Nat, header : {0, 7}]
ASSUME ContentAssumption ==
  \A f \in Files : Content[f].video \in ClipType /\ Content[f].audio \in ClipType
ASSUME LimitsAssumption == OutputLimit \in Nat /\ CompressedLimit \in Nat

\* hls_tracks_from_mp4: both tracks' tables must parse, and hold packets.
Parses(f) == WellFormed(Content[f].video.boxes) /\ WellFormed(Content[f].audio.boxes)

HlsTrack(f, track) ==
  LET packets == IntoPackets(TableOf(track.boxes), track.scale)
  IN  [packets |-> packets, timescale |-> track.scale, video |-> track.video,
       lengthSize |-> track.lengthSize, nals |-> track.nals,
       private |-> track.private, header |-> track.header,
       file |-> f, shared |-> Content[f].shared]

\* The tracks of every source, parsed once.
TrackSets == [f \in {g \in Files : Parses(g)} |->
                [video |-> HlsTrack(f, Content[f].video), audio |-> HlsTrack(f, Content[f].audio)]]

ASSUME TrackSetsAssumption ==
  \A f \in DOMAIN TrackSets : TrackSets[f].video.packets \in Tracks
\* The size fields of a sample's NAL units are in the sample (append_annex_b).
ASSUME SamplesAssumption ==
  \A f \in DOMAIN TrackSets, t \in {"video", "audio"} :
    LET track == TrackSets[f][t]
    IN  \A n \in DOMAIN track.packets : track.nals * track.lengthSize <= track.packets[n].size

Playable(f) ==
  /\ Content[f].supported /\ Parses(f)
  /\ TrackSets[f].video.packets # <<>> /\ TrackSets[f].audio.packets # <<>>

\* Tracks that are read from a file.
ReadFrom(f, tracks) ==
  [t \in DOMAIN tracks |-> [tracks[t] EXCEPT !.file = f, !.shared = Content[f].shared]]

PackagingInit ==
  /\ PlanningInit
  /\ current \in {[stamp |-> 0, file |-> f] : f \in Files}
  /\ runs = 0 /\ pc = [k \in Writers |-> "idle"]
  /\ job = [k \in Writers |-> NoJob]
  /\ opened = [k \in Writers |-> NoSource]
  /\ at = [k \in Writers |-> 0] /\ until = [k \in Writers |-> 0]
  /\ pending = [k \in Writers |-> NoFile]
  /\ shown = [k \in Writers |-> <<>>]
  /\ disk = <<>> /\ promised = <<>>

\* Slip: what was opened is what is read.
TrustsSource(k) == TRUE

\* MediaSource::validate_current.
SourceSame(k) == current = opened[k]

Selected(k) == TrackSets[opened[k].file]
Goto(k, l) == pc' = [pc EXCEPT ![k] = l]
Stay == UNCHANGED <<current, runs, job, opened, shown>>

-----------------------------------------------------------------------------
(***************************************************************************)
(* The plan of a playlist, from the sample table's chunks.                 *)
(***************************************************************************)
ChunkWindow(n, chunk) ==
  Window(n - 1, chunk.start, Larger(chunk.start + chunk.duration, chunk.start + 1))

\* chunk_plan_windows before the short ones are collapsed.
ChunkWindows(chunks) ==
  [n \in DOMAIN chunks |->
     LET w == ChunkWindow(n, chunks[n])
     IN  IF n = Len(chunks) THEN w
         ELSE [w EXCEPT !.end = Larger(chunks[n + 1].start, w.start + 1)]]

\* collapse_short_windows as a function of the windows.
Collapsed(ws) ==
  LET keep(out, w) == IF Length(w) < MinSegmentMs /\ out # <<>> THEN Absorb(out, w)
                      ELSE Append(out, w)
  IN  IF Len(ws) <= 1 THEN ws ELSE Renumbered(FirstAbsorbed(FoldLeft(keep, <<>>, ws)))

\* hls_playlist_plan_from_mp4: the last window lasts as long as the movie.
PlaylistWindows(f, requested) ==
  LET track == Content[f].video
      ws == Collapsed(ChunkWindows(TableChunkPlan(TableOf(track.boxes), track.scale,
                                                  Larger(requested, MinTargetMs))))
  IN  IF ws = <<>> THEN ws
      ELSE [ws EXCEPT ![Len(ws)].end =
              Larger(@, Larger(Content[f].duration, ws[Len(ws)].start + 1))]

-----------------------------------------------------------------------------
(***************************************************************************)
(* What a call writes.                                                     *)
(***************************************************************************)
Durations(ws) == [n \in DOMAIN ws |-> WindowMs(ws[n])]

\* media_playlist_body, fmp4_media_playlist_body, master_playlist_body.
MediaPlaylist(k) ==
  [format |-> job[k].format, target |-> TargetDuration(windows[k]),
   durations |-> Durations(windows[k])]
MasterPlaylist(k) == [bandwidth |-> Bandwidth(Selected(k), windows[k])]

\* A segment with the bytes of a file.
SegmentOf(k, n, f) ==
  LET tracks == ReadFrom(f, Selected(k))
  IN  IF job[k].format = "ts" THEN TsSegment(tracks, windows[k][n])
      ELSE Fragment(tracks, windows[k][n])

\* check_mux_budget, and what mux_fmp4_segment and its validation refuse.
Muxes(k, n) ==
  LET w == windows[k][n]
      tracks == Selected(k)
  IN  /\ CompressedBytes(tracks, w) <= CompressedLimit
      /\ EstimatedOutput(job[k].format, tracks, w) <= OutputLimit
      /\ job[k].format = "m4s" =>
           /\ PacketsIn(w, tracks.video.packets) # <<>>
           /\ PacketsIn(w, tracks.audio.packets) # <<>>
           /\ FragmentAccepted(SegmentOf(k, n, opened[k].file))

\* The package a media playlist promises: every file and what is in it.
PackageOf(k) ==
  LET segments == [n \in DOMAIN windows[k] |->
                     <<SegmentName(job[k].format, windows[k][n]),
                       SegmentOf(k, n, opened[k].file)>>]
  IN  IF job[k].format = "ts" THEN segments
      ELSE <<<<InitName, InitSegment(Selected(k))>>>> \o segments

-----------------------------------------------------------------------------
(***************************************************************************)
(* A call.                                                                 *)
(***************************************************************************)
\* write_hls_segments and write_hls_fmp4_segments return before they open.
OpenNothing(k, j) ==
  /\ j.op = "batch" /\ j.count = 0
  /\ Goto(k, "done") /\ UNCHANGED <<shown, planning>>

OpenFails(k) == Goto(k, "failed") /\ UNCHANGED <<shown, planning>>

OpenPlan(k, j) ==
  /\ j.op # "list" /\ Playable(current.file)
  /\ BeginScan(k, TrackSets[current.file].video.packets, j.target)
  /\ Goto(k, "plan") /\ UNCHANGED shown

OpenPlaylist(k, j) ==
  /\ j.op = "list" /\ Content[current.file].supported
  /\ WellFormed(Content[current.file].video.boxes)
  /\ PlaylistWindows(current.file, j.target) # <<>>
  /\ shown' = [shown EXCEPT ![k] = PlaylistWindows(current.file, j.target)]
  /\ Goto(k, "done") /\ UNCHANGED planning

Open(k) ==
  /\ pc[k] = "idle" /\ runs < MaxRuns /\ runs' = runs + 1
  /\ opened' = [opened EXCEPT ![k] = current]
  /\ \E j \in Jobs :
       /\ job' = [job EXCEPT ![k] = j]
       /\ \/ OpenNothing(k, j)
          \/ ~(j.op = "batch" /\ j.count = 0)
             /\ (OpenFails(k) \/ OpenPlan(k, j) \/ OpenPlaylist(k, j))
  /\ UNCHANGED <<current, at, until, pending, disk, promised>>

PlanStep(k) ==
  /\ Scan(k) \/ CutLast(k) \/ Collapse(k) \/ Plan(k)
  /\ UNCHANGED package

\* The range of segments is known with the plan.
Start(k) ==
  /\ pc[k] = "plan" /\ phase[k] = "planned"
  /\ IF job[k].op = "vod"
     THEN /\ at' = [at EXCEPT ![k] = 1] /\ until' = [until EXCEPT ![k] = Len(windows[k])]
          /\ Goto(k, IF job[k].format = "m4s" THEN "init" ELSE "mux")
     ELSE IF job[k].first >= Len(windows[k])
     THEN Goto(k, "failed") /\ UNCHANGED <<at, until>>
     ELSE /\ at' = [at EXCEPT ![k] = job[k].first + 1]
          /\ until' = [until EXCEPT ![k] = Smaller(job[k].first + job[k].count,
                                                   Len(windows[k]))]
          /\ Goto(k, "mux")
  /\ Stay /\ UNCHANGED <<pending, disk, promised, planning>>

Made(k, name, content) ==
  pending' = [pending EXCEPT ![k] = <<name, content>>] /\ Goto(k, "publish")

\* fmp4_init_segment.
MakeInit(k) ==
  /\ pc[k] = "init"
  /\ \/ SourceSame(k) /\ Made(k, InitName, InitSegment(Selected(k)))
     \/ ~SourceSame(k) /\ Goto(k, "failed") /\ UNCHANGED pending
  /\ Stay /\ UNCHANGED <<at, until, disk, promised, planning>>

\* mux_segment, mux_fmp4_segment: the packets are read now.
Mux(k) ==
  /\ pc[k] = "mux"
  /\ \/ /\ SourceSame(k) /\ Muxes(k, at[k])
        /\ Made(k, SegmentName(job[k].format, windows[k][at[k]]),
                SegmentOf(k, at[k], current.file))
     \/ Goto(k, "failed") /\ UNCHANGED pending
  /\ Stay /\ UNCHANGED <<at, until, disk, promised, planning>>

\* Slip: the file at the path is exchanged.
Overwrites(name, content) == TRUE

\* publish_bytes: the path is empty, or holds these bytes.
MayPublish(name, content) == name \in DOMAIN disk => disk[name] = content

Put(name, content) ==
  disk' = [n \in DOMAIN disk \cup {name} |-> IF n = name THEN content ELSE disk[n]]

Segmental(name) == name \notin {InitName, MediaName, MasterName}
LastOne(k, name) == Segmental(name) /\ at[k] >= until[k]

\* What a call does when its file is there: it returns, turns to a playlist or
\* to the next segment.
Return(k, name) ==
  /\ name = MasterName \/ (LastOne(k, name) /\ job[k].op = "batch")
  /\ Goto(k, "done") /\ pending' = [pending EXCEPT ![k] = NoFile] /\ UNCHANGED at

ToPlaylist(k, name) ==
  /\ \/ LastOne(k, name) /\ job[k].op = "vod" /\ Made(k, MediaName, MediaPlaylist(k))
     \/ name = MediaName /\ Made(k, MasterName, MasterPlaylist(k))
  /\ UNCHANGED at

ToSegment(k, name) ==
  /\ name = InitName \/ (Segmental(name) /\ at[k] < until[k])
  /\ at' = [at EXCEPT ![k] = IF name = InitName THEN @ ELSE @ + 1]
  /\ Goto(k, "mux") /\ pending' = [pending EXCEPT ![k] = NoFile]

Proceed(k, name) == Return(k, name) \/ ToPlaylist(k, name) \/ ToSegment(k, name)

\* The path holds the file and the call goes on; or the call fails, with the
\* file already at the path or not.
Publish(k) ==
  /\ pc[k] = "publish"
  /\ LET name == pending[k][1]
         content == pending[k][2]
     IN  /\ \/ /\ MayPublish(name, content) /\ Put(name, content)
               /\ \/ Proceed(k, name)
                  \/ Goto(k, "failed") /\ UNCHANGED <<at, pending>>
            \/ Goto(k, "failed") /\ UNCHANGED <<at, pending, disk>>
         /\ promised' = IF name = MediaName /\ name \in DOMAIN disk' \ DOMAIN disk
                        THEN PackageOf(k) ELSE promised
  /\ Stay /\ UNCHANGED <<until, planning>>

\* The caller has the result, or the process of the call ends.
Leave(k) ==
  /\ pc[k] # "idle"
  /\ IF phase[k] = "idle" THEN UNCHANGED planning ELSE Discard(k)
  /\ Goto(k, "idle")
  /\ pending' = [pending EXCEPT ![k] = NoFile] /\ shown' = [shown EXCEPT ![k] = <<>>]
  /\ at' = [at EXCEPT ![k] = 0] /\ until' = [until EXCEPT ![k] = 0]
  /\ job' = [job EXCEPT ![k] = NoJob] /\ opened' = [opened EXCEPT ![k] = NoSource]
  /\ UNCHANGED <<current, runs, disk, promised>>

\* Another process puts another file at the source path.
Replace ==
  /\ current.stamp < MaxReplacements
  /\ \E f \in Files : current' = [stamp |-> current.stamp + 1, file |-> f]
  /\ UNCHANGED <<planning, runs, pc, job, opened, at, until, pending, shown, disk,
                 promised>>

PackagingNext ==
  \/ \E k \in Writers :
       \/ Open(k) \/ PlanStep(k) \/ Start(k) \/ MakeInit(k) \/ Mux(k) \/ Publish(k)
       \/ Leave(k)
  \/ Replace

PackagingSpec == PackagingInit /\ [][PackagingNext]_packagingVars
-----------------------------------------------------------------------------
\* A media playlist in the directory lists only segments that are there, all
\* of one plan over one version of the source, whoever wrote them and whatever
\* ended on the way; a master playlist comes after its media playlist.
PackageComplete ==
  /\ MediaName \in DOMAIN disk =>
       \A n \in DOMAIN promised :
         promised[n][1] \in DOMAIN disk /\ disk[promised[n][1]] = promised[n][2]
  /\ MasterName \in DOMAIN disk => MediaName \in DOMAIN disk

\* A call that returned success has all it was asked for in the directory, cut
\* from the source it opened, even if another call wrote some of it.
DoneMeansPublished ==
  \A k \in Writers : pc[k] = "done" /\ job[k].op # "list" /\ phase[k] = "planned" =>
    /\ \A n \in DOMAIN windows[k] :
         (job[k].op = "vod" \/ (job[k].first < n /\ n <= job[k].first + job[k].count)) =>
           LET name == SegmentName(job[k].format, windows[k][n])
           IN  /\ name \in DOMAIN disk
               /\ disk[name] = SegmentOf(k, n, opened[k].file)
    /\ job[k].op = "vod" => /\ disk[MediaName] = MediaPlaylist(k)
                            /\ disk[MasterName] = MasterPlaylist(k)

Planned(k) == phase[k] = "planned"
\* The plan does not change after this.
JustPlanned(k) == Planned(k) /\ pc[k] = "plan"

\* The advertised bandwidth covers the packets of every segment, though packets
\* are counted in decode order and windows are cut by presentation.
BandwidthCoversPeak ==
  \A k \in Writers : JustPlanned(k) =>
    \A n \in DOMAIN windows[k] :
      LET w == windows[k][n]
      IN  (CompressedBytes(Selected(k), w) * 8 * MillisPerSecond) \div WindowMs(w)
            <= Bandwidth(Selected(k), windows[k])

Pending(k, format) ==
  pc[k] = "publish" /\ job[k].format = format /\ Segmental(pending[k][1])

\* A transport stream is never longer than what was admitted before its packets
\* were read: start codes, parameter sets, headers and stuffing included.
OutputFits ==
  \A k \in Writers : Pending(k, "ts") =>
    /\ TsSegmentBytes(pending[k][2]) <= OutputLimit
    /\ TsSegmentBytes(pending[k][2])
         <= EstimatedOutput("ts", Selected(k), windows[k][at[k]])

\* Decode times of a stream go up from sample to sample of a segment, also over
\* samples that take no time, and nothing is shown before it is decoded.
StampsAdvance ==
  \A k \in Writers : Pending(k, "ts") =>
    LET samples == pending[k][2]
    IN  \A n \in DOMAIN samples :
          /\ samples[n].dts <= samples[n].pts
          /\ \A m \in 1 .. n - 1 : samples[m].video = samples[n].video =>
               samples[m].dts < samples[n].dts

\* The packets of a window that are neighbours in the track, each with a duration;
\* in a time scale of zero, which the parser lets pass, there are no times.
Unbroken(track, ps) ==
  /\ track.timescale > 0
  /\ \A n \in DOMAIN ps : ps[n].duration > 0
  /\ \E first \in 1 .. Len(track.packets) - Len(ps) + 1 :
       ps = SubSeq(track.packets, first, first + Len(ps) - 1)

DecodeTime(fragment, n) ==
  fragment.base + Total([m \in 1 .. n - 1 |-> fragment.samples[m].duration])

\* The decode times a player computes from a fragment are those of its packets,
\* so that fragments run on; and packets are shown when they should be, unless
\* an offset was negative.
FragmentTimes ==
  \A k \in Writers : Pending(k, "m4s") =>
    \A t \in {1, 2} :
      LET track == IF t = 1 THEN Selected(k).video ELSE Selected(k).audio
          ps == PacketsIn(windows[k][at[k]], track.packets)
          fragment == pending[k][2].tracks[t]
      IN  Unbroken(track, ps) =>
            \A n \in DOMAIN ps :
              /\ DecodeTime(fragment, n) = ps[n].dts
              /\ (\A m \in DOMAIN ps : ps[m].pts >= ps[m].dts) =>
                   DecodeTime(fragment, n) + fragment.samples[n].composition = ps[n].pts

\* The packets of a list of reads, one read after the other.
Unpacked(reads) ==
  LET packets[n \in 0 .. Len(reads)] ==
        IF n = 0 THEN <<>> ELSE packets[n - 1] \o reads[n].packets
  IN  packets[Len(reads)]

\* However packets lie in the file, the reads of a window return every one of
\* them in order, and what is read through a buffer fits beside the result in
\* the window the policy allows.
ReadsDeliver ==
  \A k \in Writers : JustPlanned(k) =>
    \A n \in DOMAIN windows[k], t \in {"video", "audio"} :
      LET ps == PacketsIn(windows[k][n], Selected(k)[t].packets)
          reads == Reads(ps, ReadLimits, CompressedLimit)
          wanted == Total([m \in DOMAIN ps |-> ps[m].size])
      IN  /\ Unpacked(reads) = ps
          /\ \A r \in DOMAIN reads :
               /\ \A m \in DOMAIN reads[r].packets :
                    LET p == reads[r].packets[m]
                    IN  /\ p.offset >= reads[r].offset
                        /\ p.offset + p.size <= reads[r].offset + reads[r].span
               /\ reads[r].span # reads[r].payload =>
                    wanted + reads[r].span <= CompressedLimit

\* Both chunk planners, the one over packets and the one over the sample table,
\* cut a track into runs of packets that begin at keyframes, the target apart.
ChunksTile ==
  \A k \in Writers : JustPlanned(k) =>
    LET packets == Selected(k).video.packets
        clip == Content[opened[k].file].video
    IN  /\ Partition(PlanTrackChunks(packets, target[k]), packets, target[k])
        /\ Partition(TableChunkPlan(TableOf(clip.boxes), clip.scale, target[k]), packets,
                     target[k])

\* "The engine plans keyframe windows once, then emits playlists, individual
\* segments, or contiguous read-ahead batches from that plan"
\* (docs/native-architecture.md): the windows a playlist lists are those the
\* segments are cut by.
PlaylistServesSegments ==
  \A k, l \in Writers :
    (shown[k] # <<>> /\ Planned(l) /\ opened[k] = opened[l] /\ job[k].target = job[l].target) =>
      /\ Len(shown[k]) = Len(windows[l])
      /\ \A n \in 2 .. Len(shown[k]) : shown[k][n].start = windows[l][n].start
=============================================================================
