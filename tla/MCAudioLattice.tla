--------------------------- MODULE MCAudioLattice ---------------------------
(***************************************************************************)
(* Sources of a few seconds with keyframes every 600 ms or so.             *)
(***************************************************************************)
EXTENDS AudioLattice, TLC

\* Block number n of a track: its time in ticks.
Block(track, id, time, key) == [track |-> track, id |-> id, time |-> time, key |-> key]

\* The leading pictures of open groups, with the keyframes they lead up to.
Leading(count) == [n \in {m \in 5 .. count : m % 4 = 2} |-> n - 1]

\* Groups of four pictures; in an open group the second one is shown before the
\* first, with which it is decoded.
Pictures(count, step, ticks, open) ==
  [n \in 1 .. count |->
     LET leads == open /\ n \in DOMAIN Leading(count)
     IN  Block("video", n, (IF leads THEN (n - 3) * step + step \div 2 ELSE (n - 1) * step) * ticks,
               n % 4 = 1)]
Sounds(count, samples, rate, lead, ticks) ==
  [n \in 1 .. count |->
     Block("audio", n, ((lead + (n - 1) * samples) * ticks * 10) \div (rate \div 100), TRUE)]

\* Pictures in decode order, sound stored up to ahead before its picture.
Muxed(pictures, sounds, step, ahead) ==
  LET due(n) == n * step + ahead
      next(n) == SelectSeq(sounds, LAMBDA b : /\ n = 1 \/ due(n - 1) <= b.time
                                              /\ n = Len(pictures) \/ b.time < due(n))
  IN  FlattenSeq([n \in DOMAIN pictures |-> <<pictures[n]>> \o next(n)])

\* A cluster opens with each keyframe and is stamped some ticks later.
Clusters(blocks, ahead) ==
  LET starts == SelectSeq([n \in DOMAIN blocks |-> n],
                          LAMBDA n : blocks[n].track = "video" /\ blocks[n].key)
      end(k) == IF k = Len(starts) THEN Len(blocks) ELSE starts[k + 1] - 1
  IN  [k \in DOMAIN starts |->
         LET time == blocks[starts[k]].time + ahead
         IN  [time |-> time,
              blocks |-> [n \in 1 .. end(k) - starts[k] + 1 |->
                            LET b == blocks[starts[k] + n - 1]
                            IN  [track |-> b.track, id |-> b.id, key |-> b.key,
                                 relative |-> b.time - time]]]]

Cues(clusters, ahead) ==
  [k \in DOMAIN clusters |-> [time |-> clusters[k].time - ahead, track |-> "video", position |-> k]]

File(tick, clusters, cues, seekHead, duration) ==
  [tick |-> tick, clusters |-> clusters, cues |-> cues, seekHead |-> seekHead,
   duration |-> duration]
NoFile == File(1000, <<>>, <<>>, FALSE, 0)

Matroska(file, codec, header, rate, samples, lead, skip, pictures) ==
  [mp4 |-> FALSE, file |-> file, table |-> NoBox, video |-> <<>>, audio |-> <<>>, codec |-> codec,
   header |-> header, rate |-> rate, samples |-> samples, lead |-> lead, skip |-> skip,
   target |-> 1000, pictures |-> pictures, leading |-> <<>>, hold |-> 1, batch |-> 3,
   byOrder |-> TRUE]

\* Opus of 120 ms in millisecond ticks: the anchors lie too near to be used.
OpusClusters ==
  Clusters(Muxed(Pictures(28, 150, 1, FALSE), Sounds(36, 5760, 48000, 0, 1), 150, 0), 0)
OpusFile == Matroska(File(1000, OpusClusters, Cues(OpusClusters, 0), TRUE, 4300), "opus",
                     48000, 48000, 5760, 0, 312, 28)

\* DTS of 85.3 ms in ticks of 20 us; clusters are stamped 80 ms after their first
\* block, the sound is stored 120 ms ahead.
DtsClusters ==
  Clusters(Muxed(Pictures(36, 130, 50, TRUE), Sounds(56, 4096, 48000, 0, 50), 6500, 6000), 4000)
DtsFile == [Matroska(File(20, DtsClusters, Cues(DtsClusters, 4000), TRUE, 4680), "dts",
                    96000, 48000, 4096, 0, 0, 36)
           EXCEPT !.leading = Leading(36), !.hold = 2, !.batch = 4, !.byOrder = FALSE]
\* The same in longer segments, with cues that lead too far, and without any.
AstrayFile ==
  [DtsFile EXCEPT !.target = 1500, !.hold = 1, !.byOrder = TRUE, !.file.cues = [k \in DOMAIN @ |->
     IF k = 1 THEN @[k] ELSE [@[k] EXCEPT !.position = Smaller(k + 3, Len(DtsClusters))]]]
UncuedFile ==
  [DtsFile EXCEPT !.file.cues = <<>>, !.file.seekHead = FALSE, !.target = 1500]

\* The sound starts late and ends early, just before the last segment.
LateClusters ==
  Clusters(Muxed(Pictures(28, 150, 1, TRUE), Sounds(24, 5760, 48000, 33600, 1), 150, 0), 0)
LateFile == [Matroska(File(1000, LateClusters, Cues(LateClusters, 0), FALSE, 4200), "opus",
                     48000, 48000, 5760, 33600, 312, 28)
            EXCEPT !.leading = Leading(28), !.batch = 2]

\* An MP4 file has exact times; its first picture is shown late, its header gives
\* another sample rate.  Every chunk of the file holds one sample of one byte.
TableBox(count, duration, ctts, stss) ==
  [stsz |-> [n \in 1 .. count |-> 1], stts |-> << <<count, duration>> >>, ctts |-> ctts,
   stss |-> stss, stco |-> [n \in 1 .. count |-> n],
   stsc |-> << [first |-> 1, samples |-> 1] >>]
ExactVideo == TableOf(TableBox(26, 150, << <<26, 150>> >>, [k \in 1 .. 7 |-> 4 * k - 3]))
ExactAudio == TableOf(TableBox(92, 2048, NoBox, NoBox))
ExactFile ==
  [Matroska(NoFile, "dts", 48000, 44100, 2048, 0, 0, 26) EXCEPT
     !.mp4 = TRUE, !.table = ExactVideo,
     !.video = IntoPackets(ExactVideo, MillisPerSecond),
     !.audio = IntoPackets(ExactAudio, 44100)]

\* A DTS core of 32 kHz, packets of 128 ms, under a header that gives 48 kHz.  The
\* sound starts 95 ms late: a packet begins just beyond what is read for a segment.
CoreClusters ==
  Clusters(Muxed(Pictures(24, 145, 50, FALSE), Sounds(27, 4096, 32000, 3040, 50), 7250, 0), 0)
HeaderFile == Matroska(File(20, CoreClusters, Cues(CoreClusters, 0), TRUE, 3480), "dts",
                       48000, 32000, 4096, 3040, 0, 24)

MCSources == {OpusFile, DtsFile, AstrayFile, UncuedFile, LateFile, ExactFile, HeaderFile}
MCHeaderSources == {HeaderFile}
=============================================================================
