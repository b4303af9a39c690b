---------------------------- MODULE AudioLattice ----------------------------
(***************************************************************************)
(* The sound and the pictures of a transcoded stream                       *)
(* (transcode/segment.rs, segment/audio_pipeline.rs, audio_decode.rs,      *)
(* audio_clock.rs).  Segments are asked for in any order and by any number *)
(* of workers.  A worker keeps its decoders, its spare PCM and its AAC     *)
(* encoder from one segment to the next one; another segment, or a         *)
(* failure, makes it start over, the sound some way before the segment to  *)
(* warm both codecs up.  Every segment must still be its part of one       *)
(* stream: the same AAC frames of 1024 samples, with the same sound in     *)
(* them, and the same pictures, whoever made it.                           *)
(*                                                                         *)
(* Sound is told apart by where it comes from.  A run of PCM is a record   *)
(* of the positions from .. to - 1 it is fed at and of its shift, how far  *)
(* that is from its place in the source's own sound.                       *)
(*                                                                         *)
(* A source is a record of the file (MatroskaIndex, or an MP4's sample     *)
(* table of the video track and the packets of both), the audio codec, the *)
(* sample rate its header gives, the real rate, the samples per audio      *)
(* packet, the sample its first packet is shown at, the samples an Opus    *)
(* decoder drops, the target, and what VideoPictures needs.                *)
(***************************************************************************)
EXTENDS MatroskaIndex, SampleTables, VideoPictures

CONSTANT Sources

FrameSamples == 1024        \* AAC_FRAME_SAMPLES
PrerollFrames == 32         \* AAC_PREROLL_FRAMES
LookaheadFrames == 4
SlackMs == 250
SilenceSeconds == 2
DiscontinuityMs == 100
LowestRate == 8000          \* input_window's bounds of the sample rate
HighestRate == 48000

Silence == -1000000         \* shift of samples the pipeline made up
Cold == -2000000            \* shift of samples from a decoder still warming up

VARIABLES source,    \* the source every worker has open
          chunks,    \* its plan of segments
          pipe,      \* the current worker's AudioPipeline
          video,     \* its NativeVideoCodecPipeline
          made,      \* of every segment, the different versions made, which are
                     \*   published unless a stop or the file system prevents it
          refused    \* the segments that failed by themselves
vars == <<source, chunks, pipe, video, made, refused>>

-----------------------------------------------------------------------------
(***************************************************************************)
(* The plan: the video track's chunks, in milliseconds.                    *)
(***************************************************************************)
\* normalize_chunk_durations: a segment lasts until the next one starts.
Normalized(plan) ==
  [n \in DOMAIN plan |->
     IF n = Len(plan) THEN plan[n]
     ELSE [plan[n] EXCEPT !.duration = Larger(Minus(plan[n + 1].start, plan[n].start), 1)]]
VideoChunks(s) ==
  IF s.mp4 THEN TableChunkPlan(s.table, MillisPerSecond, s.target)
  ELSE IF PlanFails(s.file, "video") THEN <<>>
  ELSE Plan(s.file, "video", s.target)
SegmentPlan(s) == Normalized(VideoChunks(s))

\* Chunks begin one after the other (TrackChunkPlanner, parse_cue_chunk_plan), and
\* no decoder gives sound of a rate below what input_window takes for possible.
Ascending(plan) == \A n \in 1 .. Len(plan) - 1 : plan[n].start < plan[n + 1].start
PlannedChunks ==
  [start : Nat, duration : Nat]
    \cup [start : Nat, duration : Nat, first : Nat, last : Nat, aligned : BOOLEAN]
ASSUME ChunksAssumption ==
  \A s \in Sources : VideoChunks(s) \in Seq(PlannedChunks) /\ Ascending(VideoChunks(s))
ASSUME RateAssumption == \A s \in Sources : s.rate \in Nat /\ s.rate >= LowestRate

EndOf(c) == c.start + c.duration
IsLast(i) == i = Len(chunks)

(***************************************************************************)
(* What the muxer of a source promises.  Packets are numbered in decode    *)
(* order and the first picture is a keyframe.  The clusters of a Matroska  *)
(* file do not run backwards, nor does the sound; its segments are cut at  *)
(* keyframes, and all of the pictures are shown before the last one ends.  *)
(***************************************************************************)
Numbers(blocks) == \A n \in DOMAIN blocks : blocks[n].id = n
CutAt(pictures, plan, n) ==
  IF n < Len(plan) THEN \E m \in DOMAIN pictures : /\ pictures[m].key
                                                  /\ pictures[m].ms = EndOf(plan[n])
  ELSE \A m \in DOMAIN pictures : pictures[m].ms < EndOf(plan[n])
MuxedFile(s) ==
  LET pictures == TrackBlocks(WholeFile(s.file), "video")
      sounds == TrackBlocks(WholeFile(s.file), "audio")
      plan == SegmentPlan(s)
  IN  /\ s.file \in FileType /\ OrderedClusters(s.file, DOMAIN s.file.clusters)
      /\ Numbers(pictures) /\ Numbers(sounds) /\ Len(pictures) = s.pictures
      /\ \A m, n \in DOMAIN sounds : m <= n => sounds[m].ms <= sounds[n].ms
      /\ \A n \in DOMAIN plan : CutAt(pictures, plan, n)
      /\ plan # <<>> => pictures[1].key /\ plan[1].start <= pictures[1].ms

\* An MP4 file's packets are those of its sample tables.
Numbered(packets) ==
  /\ packets \in Seq(PacketType) /\ packets # <<>>
  /\ \A n \in DOMAIN packets : packets[n].offset = n
MuxedTables(s) ==
  /\ s.video = IntoPackets(s.table, MillisPerSecond) /\ Len(s.video) = s.pictures
  /\ s.table.sizes # <<>> /\ s.table.keys[1] \in BOOLEAN
  /\ Numbered(s.video) /\ Numbered(s.audio)
  /\ \A m, n \in DOMAIN s.audio : m <= n => PtsMs(s.audio[m]) <= PtsMs(s.audio[n])

ASSUME SourcesAssumption ==
  \A s \in Sources :
    /\ s.mp4 \in BOOLEAN /\ s.target \in Nat \ {0} /\ s.pictures \in Nat
    /\ {s.header, s.samples, s.lead, s.skip} \subseteq Nat
    /\ IF s.mp4 THEN MuxedTables(s) ELSE MuxedFile(s)

(***************************************************************************)
(* What H.264 and H.265 promise of the pictures of a track: each has a     *)
(* time of its own, no more come before a picture they are shown after     *)
(* than the decoder holds back (max_num_reorder), and leading pictures     *)
(* belong to the last random access point before them.                     *)
(***************************************************************************)
AllPictures(s) ==
  IF s.mp4 THEN s.video ELSE PacketsOf(TrackBlocks(WholeFile(s.file), "video"))
ShownAfter(pictures, n) == {m \in 1 .. n - 1 : pictures[m].pts > pictures[n].pts}
LeadsUpTo(pictures, key, n) ==
  /\ key \in 1 .. n - 1 /\ pictures[key].key
  /\ \A m \in key + 1 .. n : ~pictures[m].key
ASSUME PicturesAssumption ==
  \A s \in Sources :
    LET pictures == AllPictures(s)
    IN  /\ s.hold \in Nat /\ s.batch \in Nat \ {0}
        /\ pictures # <<>> => pictures[1].key
        /\ \A m, n \in DOMAIN pictures : m # n => pictures[m].pts # pictures[n].pts
        /\ \A n \in DOMAIN pictures : Cardinality(ShownAfter(pictures, n)) <= s.hold
        /\ \A n \in DOMAIN s.leading :
             n \in DOMAIN pictures /\ LeadsUpTo(pictures, s.leading[n], n)

-----------------------------------------------------------------------------
(***************************************************************************)
(* Samples of a window.                                                    *)
(***************************************************************************)
DivUpBy(a, b) == (a + b - 1) \div b
\* rescale_units and rescale_units_rounded: to the nearest sample.  Whole seconds
\* go first, so that the products stay small.
ToSamples(units, scale, rate) ==
  IF scale = 0 THEN 0
  ELSE (units \div scale) * rate + ((units % scale) * rate + scale \div 2) \div scale
MsToSamples(ms, rate) == ToSamples(ms, MillisPerSecond, rate)
AlignedDown(samples) == (samples \div FrameSamples) * FrameSamples
AlignedEnd(samples) == DivUpBy(samples, FrameSamples) * FrameSamples

WindowStart(c, rate) == MsToSamples(c.start, rate)
WindowEnd(c, rate) == MsToSamples(EndOf(c), rate)
\* Slip: a window starts with the block its first sample lies in.
CodedStartInside(c, rate) ==
  LET start == WindowStart(c, rate)
  IN  IF start = 0 THEN 0 ELSE AlignedDown(start) + FrameSamples

\* The AAC frames of a window are those that end its blocks of samples: a frame
\* overlaps the block before its own.
CodedStart(c, rate) ==
  LET start == WindowStart(c, rate)
  IN  IF start = 0 THEN 0 ELSE AlignedEnd(start) + FrameSamples
CodedEnd(c, rate) == AlignedEnd(WindowEnd(c, rate)) + FrameSamples
\* How far PCM is fed for a window that is not the last one.
FedUntil(c, rate) == AlignedEnd(WindowEnd(c, rate)) + 2 * FrameSamples

\* The rate known so far.
PlanningRate(p, s) ==
  IF p.rate # None THEN p.rate ELSE Smaller(Larger(s.header, LowestRate), HighestRate)
\* Slip: the sound is read from where the pictures are.
InputWindowLate(p, s, c) ==
  [start |-> c.start,
   end |-> EndOf(c) + DivUpBy(LookaheadFrames * FrameSamples * MillisPerSecond,
                              PlanningRate(p, s))]

\* Slip: only the frame the encoder is behind by is read ahead.
InputWindowNarrow(p, s, c) ==
  LET rate == PlanningRate(p, s)
      ms(frames) == DivUpBy(frames * FrameSamples * MillisPerSecond, rate)
  IN  [start |-> Minus(c.start, ms(PrerollFrames + 2) + SlackMs), end |-> EndOf(c) + ms(1)]

\* input_window: the milliseconds of audio to read.
InputWindow(p, s, c) ==
  LET rate == PlanningRate(p, s)
      ms(frames) == DivUpBy(frames * FrameSamples * MillisPerSecond, rate)
  IN  [start |-> Minus(c.start, ms(PrerollFrames + 2) + SlackMs),
       end |-> EndOf(c) + ms(LookaheadFrames)]

-----------------------------------------------------------------------------
(***************************************************************************)
(* extract_indexed_time_range: a range of the packets at hand, which are   *)
(* all of an MP4 file's and the window's of a Matroska file.               *)
(***************************************************************************)
\* A packet of no length still takes a millisecond.
RangeRead(s, packets, w) ==
  LET over == {n \in DOMAIN packets :
                 PtsMs(packets[n]) + Larger(DurationMs(packets[n]), 1) <= w.start}
      inside == {n \in DOMAIN packets : PtsMs(packets[n]) < w.end}
      first == IF s.codec = "opus" THEN 1 ELSE Cardinality(over) + 1
  IN  IF Cardinality(over) = Len(packets) THEN <<>>
      ELSE SubSeq(packets, first, Cardinality(inside))

\* The windows a Matroska file is scanned for.
MediaWindows(s, p, c) ==
  LET audio == InputWindow(p, s, c)
  IN  <<Window("video", c.start, EndOf(c)), Window("audio", audio.start, audio.end)>>
PacketsOfEach(blocks) == [n \in DOMAIN blocks |-> PacketsOf(blocks[n])]
\* The packets of both tracks that are at hand, an MP4's or the windows'; without
\* a packet of either track the segment fails.
PacketsRead(s, windows, c) ==
  IF s.mp4 THEN <<SubSeq(s.video, c.first, c.last), s.audio>>
  ELSE IF WalkFails(s.file, windows) THEN << <<>>, <<>> >>
  ELSE PacketsOfEach(Blocks(s.file, windows))

-----------------------------------------------------------------------------
(***************************************************************************)
(* The pipeline.  rate is the format of the decoded sound, clock the       *)
(* sample the decoder's next frame starts at, skip the samples an Opus     *)
(* decoder still drops, pcm the frames that are decoded and not yet used   *)
(* up.  The encoder has been fed runs from anchor to next and has made     *)
(* frames AAC frames of them; last is the last packet decoded.             *)
(***************************************************************************)
NewPipeline(s) ==
  [rate |-> None, clock |-> None, skip |-> s.skip, warm |-> FALSE, pcm |-> <<>>,
   anchor |-> None, next |-> None, runs |-> <<>>, frames |-> 0, last |-> None,
   completed |-> None, poisoned |-> FALSE]

\* prepare: only the pipeline that completed the segment before goes on.
Prepared(p, s, i) ==
  IF p.poisoned \/ (p.completed # None /\ p.completed + 1 # i) THEN NewPipeline(s) ELSE p

\* Where a packet's sound belongs: packets hold equally many samples.
Place(s, packet) == s.lead + (packet.offset - 1) * s.samples

\* stamp_frame: the clock follows the samples and not the time stamps, unless
\* the two are too far apart.
Stamp(p, s, units, scale) ==
  LET sample == ToSamples(units, scale, s.rate)
      limit == MsToSamples(DiscontinuityMs, s.rate)
      apart == p.clock = None \/ sample - p.clock > limit \/ p.clock - sample > limit
  IN  IF apart THEN sample ELSE p.clock

\* One packet through the decoder.  The first frame of one that starts in the
\* middle of the stream lacks the history it needs.
Decoded(p, s, packet) ==
  LET dropped == Smaller(p.skip, s.samples)
      advance == ToSamples(dropped, s.rate, packet.scale)
      from == Stamp(p, s, packet.pts + advance, packet.scale)
      to == from + s.samples - dropped
      shift == IF p.warm \/ packet.offset = 1 THEN from - (Place(s, packet) + dropped)
               ELSE Cold
  IN  [p EXCEPT !.rate = s.rate, !.clock = to, !.skip = @ - dropped, !.warm = TRUE,
                !.pcm = Append(@, [from |-> from, to |-> to, shift |-> shift]),
                !.last = packet.offset]

\* Slip: the packets two windows share are decoded twice.
NewPacketsAll(p, packets) == packets

\* render: packets the pipeline has seen are not decoded again.
NewPackets(p, packets) ==
  Kept(packets, {n \in DOMAIN packets : p.last = None \/ packets[n].offset > p.last})
DecodedAll(p, s, packets) ==
  LET fresh == NewPackets(p, packets)
      after[n \in 0 .. Len(fresh)] ==
        IF n = 0 THEN p ELSE Decoded(after[n - 1], s, fresh[n])
  IN  after[Len(fresh)]
\* A packet that yields no sound is an error.
DecodeFails(p, s, packets) ==
  /\ NewPackets(p, packets) # <<>>
  /\ p.skip >= s.samples

-----------------------------------------------------------------------------
(***************************************************************************)
(* Feeding the encoder.                                                    *)
(***************************************************************************)
Fed(p, to, shift) ==
  LET joins == p.runs # <<>> /\ Last(p.runs).shift = shift
      run == [from |-> IF joins THEN Last(p.runs).from ELSE p.next, to |-> to,
              shift |-> shift]
  IN  [p EXCEPT !.next = to, !.runs = Append(IF joins THEN Front(@) ELSE @, run)]

\* One PCM frame up to a bound.  A gap before the first sound becomes silence.
FedFrame(p, frame, bound) ==
  LET from == Larger(frame.from, p.next)
      to == Smaller(frame.to, bound)
  IN  IF from >= to THEN p
      ELSE Fed(IF from > p.next THEN Fed(p, from, Silence) ELSE p, to, frame.shift)

PrerollStart(c, rate) ==
  AlignedDown(Minus(WindowStart(c, rate), PrerollFrames * FrameSamples))

\* The frames to be fed are those before kept.
FedBefore(p, kept, bound) ==
  LET used == Smaller(kept, Len(p.pcm))
      after[n \in 0 .. used] ==
        IF n = 0 THEN p ELSE FedFrame(after[n - 1], p.pcm[n], bound)
  IN  [after[used] EXCEPT !.pcm = SubSeq(p.pcm, kept, Len(p.pcm))]

FirstBeyond(pcm, bound) ==
  SmallestOf({Len(pcm) + 1} \cup {n \in DOMAIN pcm : pcm[n].to > bound})

Begun(p, start) ==
  [p EXCEPT !.anchor = IF @ = None THEN start ELSE @,
            !.next = IF @ = None THEN start ELSE @]

\* feed_pcm: the frame that crosses the bound is kept, and those after it.
FedPcm(p, c, last) ==
  LET bound == IF last THEN WindowEnd(c, p.rate) ELSE FedUntil(c, p.rate)
  IN  IF p.rate = None THEN p
      ELSE FedBefore(Begun(p, PrerollStart(c, p.rate)), FirstBeyond(p.pcm, bound), bound)

\* feed_silence at the end of the stream.
FedSilence(p, c) ==
  LET end == WindowEnd(c, p.rate)
  IN  IF p.rate # None /\ p.next < end THEN Fed(p, end, Silence) ELSE p
\* Not more than two seconds of it at a time, and not between sounds.
TooSilent(p) ==
  \E n \in DOMAIN p.runs :
    /\ p.runs[n].shift = Silence
    /\ \/ p.runs[n].to - p.runs[n].from > SilenceSeconds * p.rate
       \/ n \notin {1, Len(p.runs)}

(***************************************************************************)
(* The AAC encoder makes the frame of a block when it has the next block,  *)
(* so it is one frame behind.  When it is finished it fills the last block *)
(* up and adds a frame for what that one overlaps.                         *)
(***************************************************************************)
FramesMade(p, finished) ==
  LET samples == p.next - p.anchor
  IN  IF finished THEN DivUpBy(samples, FrameSamples) + 1
      ELSE Minus(samples \div FrameSamples, 1)

\* What was fed for the frames from .. to, one block before the first included.
Heard(runs, from, to) ==
  LET inside == Kept(runs, {n \in DOMAIN runs : runs[n].to > from /\ runs[n].from < to})
  IN  [n \in DOMAIN inside |->
         [inside[n] EXCEPT !.from = Larger(@, from), !.to = Smaller(@, to)]]

\* render's output is the pipeline after it ...
Flushed(p, last) ==
  [p EXCEPT !.frames = IF p.anchor = None THEN 0 ELSE FramesMade(p, last)]
FedToEnd(p, c, last) == IF last THEN FedSilence(p, c) ELSE p
Rendered(p, s, c, packets, last) ==
  Flushed(FedToEnd(FedPcm(DecodedAll(p, s, packets), c, last), c, last), last)

\* ... and the fragment of the window, with the pictures it shows or copies.  The
\* rate of decoded sound is the real one.
Fragment(q, s, c, pictures) ==
  LET from == CodedStart(c, s.rate)
      to == CodedEnd(c, s.rate)
  IN  [from |-> from, to |-> to, sound |-> Heard(q.runs, from - FrameSamples, to),
       pictures |-> [n \in DOMAIN pictures |-> pictures[n].offset]]

\* What render requires of the packets and of its output q, in the order it is
\* found out.
Renders(p, q, s, c, packets, last) ==
  LET first == CodedStart(c, s.rate)
      end == CodedEnd(c, s.rate)
  IN  /\ packets # <<>>
      /\ ~DecodeFails(p, s, packets)
      /\ q.rate # None
      /\ ~TooSilent(q)
      /\ last \/ q.next >= end + FrameSamples
      /\ first < end
      /\ q.anchor + p.frames * FrameSamples <= first
      /\ q.anchor + q.frames * FrameSamples >= end

-----------------------------------------------------------------------------
Init ==
  /\ source \in Sources
  /\ chunks = SegmentPlan(source)
  /\ pipe = NewPipeline(source)
  /\ video = NewVideo
  /\ made = [i \in DOMAIN chunks |-> {}]
  /\ refused = {}

\* What a failed render leaves behind is dropped before it is read again.
Poisoned == [NewPipeline(source) EXCEPT !.poisoned = TRUE]
PoisonedVideo == [NewVideo EXCEPT !.poisoned = TRUE]
Spoiled == pipe' = Poisoned /\ video' = PoisonedVideo

\* A stop between the two completions leaves the pictures' pipeline poisoned.
Complete(i, v, pictures, encoded, q) ==
  /\ pipe' = [q EXCEPT !.completed = i]
  /\ video' \in {[completed |-> i, poisoned |-> FALSE, since |-> DecodesSince(v, pictures),
                   frames |-> encoded],
                  PoisonedVideo}
  /\ made' = [made EXCEPT ![i] = @ \cup {Fragment(q, source, chunks[i], pictures)}]
  /\ UNCHANGED refused

Refuse(i) == Spoiled /\ refused' = refused \cup {i} /\ UNCHANGED made

Finish(i, p, v, pictures, packets, d, q) ==
  IF pictures # <<>> /\ ~VideoFails(d) /\ Renders(p, q, source, chunks[i], packets, IsLast(i))
  THEN Complete(i, v, pictures, d.encoded, q)
  ELSE Refuse(i)

Render(i, p, v, pictures, packets) ==
  Finish(i, p, v, pictures, packets, DecodedPictures(source, v, pictures),
         Rendered(p, source, chunks[i], packets, IsLast(i)))

Read(i, p, v, packets) ==
  Render(i, p, v, packets[1], RangeRead(source, packets[2], InputWindow(p, source, chunks[i])))

Prepare(i, p, v) == Read(i, p, v, PacketsRead(source, MediaWindows(source, p, chunks[i]), chunks[i]))

\* One segment by the current worker: both pipelines are prepared, the packets are
\* read, the pictures are rendered and then the sound.
Transcode(i) ==
  /\ Prepare(i, Prepared(pipe, source, i), PreparedVideo(video, i))
  /\ UNCHANGED <<source, chunks>>

\* Cancellation, an exceeded budget or a failed codec, at any point.
Break == Spoiled /\ UNCHANGED <<source, chunks, made, refused>>

\* Another process opens the same source.
NewWorker ==
  /\ pipe' = NewPipeline(source) /\ video' = NewVideo
  /\ UNCHANGED <<source, chunks, made, refused>>

Next ==
  \/ \E i \in DOMAIN chunks : Transcode(i)
  \/ Break
  \/ NewWorker
Spec == Init /\ [][Next]_vars

-----------------------------------------------------------------------------
(***************************************************************************)
(* Where the source's own sound lies on the sample clock, up to the        *)
(* rounding of its time stamps.                                            *)
(***************************************************************************)
AllPackets(s) ==
  IF s.mp4 THEN s.audio ELSE PacketsOf(TrackBlocks(WholeFile(s.file), "audio"))
\* A decoder that drops samples of its first packet rounds them to the stamp's units.
Drift(s, packet, dropped) ==
  ToSamples(packet.pts + ToSamples(dropped, s.rate, packet.scale), packet.scale, s.rate)
    - (Place(s, packet) + dropped)
StampDrifts(s, dropped) == {Drift(s, packet, dropped) : packet \in ToSet(AllPackets(s))}
\* The clock goes back to the stamps only where the two are too far apart.
Steady(s) ==
  LET limit == MsToSamples(DiscontinuityMs, s.rate)
  IN  \A x \in StampDrifts(s, s.skip), y \in StampDrifts(s, 0) :
        y - x <= limit /\ x - y <= limit
Drifts(s) == StampDrifts(s, s.skip) \cup (IF Steady(s) THEN {} ELSE StampDrifts(s, 0))
Spread(s) == LargestOf(Drifts(s)) - SmallestOf(Drifts(s))
RoundingMs(s) == MsToSamples(1, s.rate)
SoundFrom(s) == s.lead + s.skip
SoundTo(s) == s.lead + Len(AllPackets(s)) * s.samples

(***************************************************************************)
(* What an audio format promises: its time stamps are those of the samples *)
(* to the millisecond, a packet holds sound but no more than the slack,    *)
(* and the rate is one that AAC has.                                       *)
(***************************************************************************)
HighestAacRate == 96000     \* aac_sample_rate_index
ASSUME SoundAssumption ==
  \A s \in Sources :
    /\ s.rate <= HighestAacRate
    /\ s.samples > 0 /\ s.samples <= MsToSamples(SlackMs, s.rate)
    /\ \A x \in StampDrifts(s, s.skip) \cup StampDrifts(s, 0) :
         -RoundingMs(s) <= x /\ x <= RoundingMs(s)

\* The published fragments of neighbouring segments meet, and a segment has
\* the same frames whoever made it, the first one from the start
\* (audio_pipeline.rs l.192-201, l.232-254).
OneLattice ==
  \A i \in DOMAIN chunks : \A a \in made[i] :
    /\ a.from < a.to
    /\ chunks[i].start = 0 => a.from = 0
    /\ \A b \in made[i] : a.from = b.from /\ a.to = b.to
    /\ i + 1 \in DOMAIN chunks => \A b \in made[i + 1] : a.to = b.from

\* All the sound of the stream lies where the source has it, up to the rounding
\* of the source's own time stamps: a new worker repeats or loses no more than
\* that, and nothing when the stamps are exact (audio_clock.rs l.92-130).
SeamsAreRounding ==
  LET runs == UNION {UNION {ToSet(a.sound) : a \in made[i]} : i \in DOMAIN chunks}
      heard == {r.shift : r \in {x \in runs : x.shift \notin {Silence, Cold}}}
  IN  \A x, y \in heard : x - y <= Spread(source)

\* No listener hears a decoder that warms up, nor silence where the source has
\* sound: the preroll reaches far enough back, also when the header's sample
\* rate is not the real one (audio_pipeline.rs l.43-61, l.292-301).
NothingMadeUp ==
  \A i \in DOMAIN chunks : \A a \in made[i] : \A r \in ToSet(a.sound) :
    /\ r.shift # Cold
    /\ r.shift = Silence => \/ r.to <= SoundFrom(source) + RoundingMs(source)
                            \/ r.from >= SoundTo(source) - RoundingMs(source)

\* What a segment that is made by itself needs of the sound: that it begins before
\* the segment is made, by no more silence than is allowed, and has not ended longer
\* ago than that; the last segment needs no more.
SoundBegins(i) ==
  LET c == chunks[i]
  IN  /\ SoundFrom(source) + RoundingMs(source)
           <= PrerollStart(c, source.rate) + SilenceSeconds * source.rate
      /\ CodedStart(c, source.rate) < CodedEnd(c, source.rate)
EndsInSilence(i) ==
  LET early == InputWindow(NewPipeline(source), source, chunks[i]).start
  IN  /\ WindowEnd(chunks[i], source.rate) <= SoundTo(source) + SilenceSeconds * source.rate
      /\ MsToSamples(early, source.rate) + source.samples <= SoundTo(source)
\* Another segment needs all that is fed for it.
HasLookahead(i) == FedUntil(chunks[i], source.rate) + RoundingMs(source) <= SoundTo(source)
\* The milliseconds read ahead by the header's rate hold fewer samples of the real
\* rate than a segment is fed beyond its end.
HeaderMisleads(s) ==
  LET ahead == DivUpBy(LookaheadFrames * FrameSamples * MillisPerSecond,
                       PlanningRate(NewPipeline(s), s))
  IN  MsToSamples(ahead, s.rate) < 3 * FrameSamples + RoundingMs(s)

\* A segment fails by itself only where the source has too little sound, or where the
\* header gives a rate so far above the real one that the lookahead is read too short.
\* Too little is, for a segment that is not the last one, also a sound that ends
\* within its lookahead (audio_pipeline.rs l.43-61, l.198-207).
RefusedOnlyWhenShort ==
  \A i \in refused :
    SoundBegins(i) /\ (IF IsLast(i) THEN EndsInSilence(i) ELSE HasLookahead(i))
      => ~IsLast(i) /\ HeaderMisleads(source)

\* No segment is a hole in the stream because of what the header says or because the
\* sound ends early.  The comments of audio_pipeline.rs promise both: "Plan
\* conservatively until decoded PCM establishes the actual clock" (l.52-53), and "A
\* legitimately shorter audio track ends in silence rather than a hole in the
\* globally continuous presentation timeline" (l.199-200).
NoHoles == \A i \in refused : ~(SoundBegins(i) /\ EndsInSilence(i))

\* The walk from an anchor finds what a walk through the whole file finds
\* (container/matroska/file.rs l.359-430).
AnchorsMissNothing ==
  LET whole == WholeFile(source.file)
  IN  ~source.mp4 => \A i \in DOMAIN chunks :
      LET windows == MediaWindows(source, Prepared(pipe, source, i), chunks[i])
      IN  \A n \in DOMAIN windows :
            Blocks(source.file, windows)[n] = Taken(whole, windows[n])

\* Every picture belongs to one segment, in decode order: the segments' pictures
\* follow each other and the last one ends the track (file.rs l.269-283).
PicturesFollow ==
  \A i \in DOMAIN chunks : \A a \in made[i] :
    /\ \A b \in made[i] : a.pictures = b.pictures
    /\ \A n \in 2 .. Len(a.pictures) : a.pictures[n] = a.pictures[n - 1] + 1
    /\ i + 1 \in DOMAIN chunks =>
         \A b \in made[i + 1] : Head(b.pictures) = Last(a.pictures) + 1
    /\ IsLast(i) => Last(a.pictures) = source.pictures
    /\ i = 1 => Head(a.pictures) = 1

\* A segment that is re-encoded shows each of its pictures once, at its own time,
\* whatever the decoder holds back and however its packets fall into batches, and
\* starts with a sync frame; what it lacks is the leading pictures of the open
\* group the worker started with (segment.rs l.1676-1707, video_decode.rs
\* l.904-925).
PicturesShown ==
  video.completed # None =>
    LET frames == video.frames
        shown == {f.picture : f \in ToSet(frames)}
        lacking == {n \in DOMAIN source.leading : source.leading[n] <= video.since}
    IN  /\ \A a \in made[video.completed] : shown = ToSet(a.pictures) \ lacking
        /\ frames[1].sync
        /\ \A n \in DOMAIN frames : frames[n].at = frames[n].due
        /\ \A n \in 2 .. Len(frames) : frames[n].at > frames[n - 1].at
=============================================================================
