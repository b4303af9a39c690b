--------------------------- MODULE MCHlsPackaging ---------------------------
(***************************************************************************)
(* Small MP4 files: frames of half a second, sizes that make the rates and *)
(* the limits matter.                                                      *)
(***************************************************************************)
EXTENDS HlsPackaging, TLC

Boxes(stsz, stts, ctts, stss, stco, stsc) ==
  [stsz |-> stsz, stts |-> stts, ctts |-> ctts, stss |-> stss, stco |-> stco,
   stsc |-> stsc]
Row(first, samples) == [first |-> first, samples |-> samples]

Video(boxes, scale, lengthSize, nals) ==
  [boxes |-> boxes, scale |-> scale, video |-> TRUE, lengthSize |-> lengthSize,
   nals |-> nals, private |-> 60, header |-> 0]
Audio(boxes, scale, header) ==
  [boxes |-> boxes, scale |-> scale, video |-> FALSE, lengthSize |-> 4, nals |-> 0,
   private |-> 7, header |-> header]

\* Closed groups of two frames, one chunk per group, audio between them.
ClosedVideo ==
  Boxes(<<30000, 400, 9000, 400, 9000>>, <<<<5, 1>>>>, NoBox, <<1, 3, 5>>,
        <<0, 31000, 41000>>, <<Row(1, 2), Row(3, 1)>>)
SteadyAudio ==
  Boxes(<<500, 500, 500>>, <<<<3, 1>>>>, NoBox, NoBox, <<30400, 40400, 50000>>,
        <<Row(1, 1)>>)

\* Leading pictures: the third frame opens a group but is shown after the
\* fourth; the last frame decoded is not the last one shown.
OpenVideo ==
  Boxes(<<6000, 300, 9000, 60000, 300, 100>>, <<<<6, 1>>>>,
        <<<<2, 1>>, <<1, 2>>, <<1, 0>>, <<1, 2>>, <<1, 0>>>>, <<1, 3>>,
        <<0, 90000>>, <<Row(1, 4), Row(2, 2)>>)

\* One of the frames takes no time.
UnevenAudio ==
  Boxes(<<500, 500, 500>>, <<<<1, 1>>, <<1, 0>>, <<1, 1>>>>, NoBox, NoBox,
        <<80000>>, <<Row(1, 3)>>)

\* The first group is shorter than MIN_SEGMENT_MS, one offset is negative, the
\* chunks have room for five of the six samples.
ShortFirst ==
  Boxes(<<3000, 2000, 200, 200, 600, 10>>, <<<<6, 1>>>>,
        <<<<1, -1>>, <<3, 0>>, <<2, 1>>>>, <<1, 2, 5>>, <<0, 7000>>,
        <<Row(1, 1), Row(2, 4)>>)

\* The first frame is shown half a second late, a keyframe follows soon.
LateFirst ==
  Boxes(<<900, 300, 300, 900>>, <<<<1, 1>>, <<3, 2>>>>, <<<<4, 1>>>>, <<1, 2, 4>>,
        <<0>>, <<Row(1, 4)>>)

File(clip, track, duration, shared, supported) ==
  [video |-> clip, audio |-> track, duration |-> duration, shared |-> shared,
   supported |-> supported]

MCContent(f) ==
  CASE f = "closed" -> File(Video(ClosedVideo, 2, 4, 1), Audio(SteadyAudio, 1, 7), 2500, 31000, TRUE)
    [] f = "edited" -> File(Video(ClosedVideo, 2, 4, 1), Audio(SteadyAudio, 1, 7), 2500, 31000, TRUE)
    [] f = "open" -> File(Video(OpenVideo, 2, 2, 10), Audio(UnevenAudio, 1, 7), 3500, 0, TRUE)
    [] f = "short" -> File(Video(ShortFirst, 4, 1, 150), Audio(SteadyAudio, 2, 0), 3000, 0, TRUE)
    [] f = "late" -> File(Video(LateFirst, 2, 4, 1), Audio(SteadyAudio, 1, 0), 4000, 0, TRUE)
    [] f = "torn" -> File(Video([ClosedVideo EXCEPT !.stts = <<<<4, 1>>>>], 2, 4, 1),
                          Audio(SteadyAudio, 1, 7), 2500, 0, TRUE)
    [] f = "mute" -> File(Video(ClosedVideo, 2, 4, 1), Audio(SteadyAudio, 1, 7), 2500, 0, FALSE)

MCFiles == {"closed", "edited", "open", "short", "late", "torn", "mute"}
MCContents == [f \in MCFiles |-> MCContent(f)]
MCTracks == {TrackSets[f].video.packets : f \in DOMAIN TrackSets}
MCTargets == {500, 1000}

Job(op, format, target_, first, count) ==
  [op |-> op, format |-> format, target |-> target_, first |-> first, count |-> count]
MCJobs ==
  {Job("vod", format, t, 0, 0) : format \in {"ts", "m4s"}, t \in MCTargets}
  \cup {Job("batch", "ts", 1000, 1, 2), Job("batch", "m4s", 500, 0, 1),
        Job("batch", "ts", 500, 9, 1), Job("batch", "ts", 500, 0, 0)}
  \cup {Job("list", "ts", t, 0, 0) : t \in MCTargets}
MCLimits == [gap |-> 400, span |-> 40000, amplification |-> 2]

Symmetry == Permutations(Writers)
=============================================================================
