----------------------- MODULE TranscodeSessionProofs -----------------------
(***************************************************************************)
(* For any number of segments and calls: retained codecs see consecutive   *)
(* whole segments only, a session falls back once at most and only where   *)
(* permitted, the counters tell the backends created, an earlier failure   *)
(* wedges nothing, and what is published was rendered whole and in time.   *)
(***************************************************************************)
EXTENDS TranscodeSession, SequenceTheorems, TLAPS

Publishing == {"validate", "publishInit", "revalidate", "publishMedia"}
Rendering == {"read", "video", "videoEnd", "recover", "rebuild", "audio", "audioEnd",
              "mux", "complete"}

Ends(fed, i, w) == fed # <<>> /\ fed[Len(fed)] = [index |-> i, whole |-> w]

\* What the video codecs have consumed at each point of a call.
VideoAt ==
  video # None =>
    /\ cfg.mode = "h264"
    /\ Continuous(video.fed)
    /\ ~video.poisoned => IF video.last = NoIndex THEN video.fed = <<>>
                          ELSE Ends(video.fed, video.last, TRUE)
    /\ pc \in Rendering => video.poisoned
    /\ pc \in {"read", "video"} => Follows(video, req.index)
    /\ pc = "videoEnd" => Ends(video.fed, req.index, FALSE)
    /\ pc \in {"audio", "audioEnd", "mux", "complete"} \cup Publishing =>
         Ends(video.fed, req.index, TRUE)

\* The same for the audio codecs, which start later.
AudioAt ==
  audio # None =>
    /\ Continuous(audio.fed)
    /\ ~audio.poisoned => IF audio.completed = NoIndex THEN audio.fed = <<>>
                          ELSE Ends(audio.fed, audio.completed, TRUE)
    /\ pc \in Rendering => audio.poisoned
    /\ pc \in {"read", "video", "videoEnd", "audio"} => Follows(audio, req.index)
    /\ pc = "audioEnd" => Ends(audio.fed, req.index, FALSE)
    /\ pc \in {"mux", "complete"} \cup Publishing => Ends(audio.fed, req.index, TRUE)

\* A recovery is under way only for a native pipeline; a closed session renders
\* nothing; a call has no result before it returns.
Control ==
  /\ pc \in {"recover", "rebuild"} => video # None /\ ~video.soft /\ cfg.software
  /\ Closed => pc \in {"idle", "probe", "render"}
  /\ pc # "idle" => result = "none"

\* A source or control that was found unfit stays so, which validation sees.
Lateness ==
  /\ pc \in {"publishInit", "publishMedia"} => ~late
  /\ late /\ pc \in Publishing => cancelled \/ changed

\* TypeOK in three parts, for the prover.
CallTypes ==
  /\ cfg \in [mode : {"copy", "h264"}, software : BOOLEAN, streaming : BOOLEAN]
  /\ pc \in PcSet
  /\ outputs \in SUBSET Kinds
  /\ result \in {"none", "ok", "error"}
  /\ retried \in BOOLEAN /\ cancelled \in BOOLEAN /\ changed \in BOOLEAN
  /\ fault \in BOOLEAN /\ late \in BOOLEAN

RequestTypes ==
  /\ req \in [op : {"init", "segment", "start"}, index : Nat, left : Nat]
  /\ InPlan(req)
  /\ calls \in Nat

PipelineTypes ==
  /\ built \in Nat /\ fallbacks \in Nat
  /\ video \in VideoPipelines \cup {None}
  /\ audio \in AudioPipelines \cup {None}

IInv ==
  /\ TypeOK /\ VideoAt /\ AudioAt /\ Control /\ Lateness
  /\ FallbackDiscipline /\ StreamingKept /\ StatsAddUp /\ NoWedge

-----------------------------------------------------------------------------
\* Starting on a segment that follows keeps the history continuous.
LEMMA SubmitContinues ==
  ASSUME NEW fed \in Pieces, NEW i \in Nat, Continuous(fed),
         fed = <<>> \/ fed[Len(fed)] = [index |-> i - 1, whole |-> TRUE]
  PROVE  LET new == Append(fed, [index |-> i, whole |-> FALSE])
         IN  new \in Pieces /\ Continuous(new) /\ Ends(new, i, FALSE)
<1> DEFINE x == [index |-> i, whole |-> FALSE]
           new == Append(fed, x)
           S == [index : Nat, whole : BOOLEAN]
<1>1. x \in S /\ fed \in Seq(S)
  BY DEF Pieces
<1>2. /\ new \in Seq(S) /\ new # <<>> /\ Len(fed) \in Nat /\ Len(new) = Len(fed) + 1
      /\ \A k \in 1..Len(fed) : new[k] = fed[k]
      /\ new[Len(fed) + 1] = x
  <2> HIDE DEF x, S
  <2>1. Len(fed) \in Nat
    BY <1>1, LenProperties
  <2>2. QED
    BY <1>1, <2>1, AppendProperties
<1> HIDE DEF new
<1>3. ASSUME NEW k \in 2..Len(new)
      PROVE  new[k - 1].whole /\ new[k].index = new[k - 1].index + 1
  <2>1. CASE k \in 2..Len(fed)
    <3>1. k - 1 \in 1..Len(fed) /\ k \in 1..Len(fed)
      BY <2>1, <1>2
    <3>2. new[k] = fed[k] /\ new[k - 1] = fed[k - 1]
      BY <3>1, <1>2
    <3>3. QED
      BY <2>1, <3>2 DEF Continuous
  <2>2. CASE k = Len(fed) + 1
    <3>1. Len(fed) \in 1..Len(fed) /\ fed # <<>> /\ k - 1 = Len(fed)
      BY <2>2, <1>2, <1>3, EmptySeq
    <3>2. new[k - 1] = fed[Len(fed)] /\ new[k] = x
      BY <2>2, <3>1, <1>2
    <3>3. QED
      BY <3>1, <3>2
  <2>3. QED
    BY <2>1, <2>2, <1>2, <1>3
<1>4. QED
  BY <1>2, <1>3 DEF Continuous, Ends, Pieces, new

\* Completing the last segment keeps it, too.
LEMMA ConsumeCompletes ==
  ASSUME NEW fed \in Pieces, NEW i \in Nat, Continuous(fed), Ends(fed, i, FALSE)
  PROVE  LET new == [fed EXCEPT ![Len(fed)] =
                       [index |-> fed[Len(fed)].index, whole |-> TRUE]]
         IN  new \in Pieces /\ Continuous(new) /\ Ends(new, i, TRUE)
<1> DEFINE x == [index |-> fed[Len(fed)].index, whole |-> TRUE]
           new == [fed EXCEPT ![Len(fed)] = x]
           S == [index : Nat, whole : BOOLEAN]
<1>1. fed \in Seq(S) /\ fed # <<>> /\ x = [index |-> i, whole |-> TRUE] /\ x \in S
  BY DEF Pieces, Ends
<1>2. Len(fed) \in Nat /\ Len(fed) \in 1..Len(fed)
  BY <1>1, EmptySeq, LenProperties
<1>3. /\ new \in Seq(S) /\ Len(new) = Len(fed)
      /\ \A k \in 1..Len(fed) : new[k] = IF k = Len(fed) THEN x ELSE fed[k]
  <2> HIDE DEF x
  <2>1. QED
    BY <1>1, <1>2, ExceptSeq
<1> HIDE DEF new
<1>4. ASSUME NEW k \in 2..Len(new)
      PROVE  new[k - 1].whole /\ new[k].index = new[k - 1].index + 1
  <2>1. k \in 1..Len(fed) /\ k - 1 \in 1..Len(fed) /\ k - 1 # Len(fed)
    BY <1>2, <1>3, <1>4
  <2>2. new[k - 1] = fed[k - 1] /\ new[k].index = fed[k].index
    <3>1. new[k - 1] = fed[k - 1]
      BY <2>1, <1>3
    <3>2. CASE k = Len(fed)
      BY <3>1, <3>2, <2>1, <1>1, <1>3
    <3>3. CASE k # Len(fed)
      BY <3>1, <3>3, <2>1, <1>3
    <3>4. QED
      BY <3>2, <3>3
  <2>3. QED
    BY <1>3, <1>4, <2>2 DEF Continuous
<1>5. new # <<>>
  BY <1>2, <1>3, EmptySeq
<1>6. QED
  BY <1>1, <1>2, <1>3, <1>4, <1>5 DEF Continuous, Ends, Pieces, new

-----------------------------------------------------------------------------
\* The codecs of v consume another piece of segment i, and nothing else changes.
SameVideo(v, n) ==
  /\ n \in VideoPipelines
  /\ n.soft = v.soft /\ n.cpu = v.cpu /\ n.last = v.last /\ n.poisoned = v.poisoned
  /\ n.created = v.created /\ n.reuses = v.reuses /\ n.resets = v.resets
SameAudio(a, n) ==
  n \in AudioPipelines /\ n.completed = a.completed /\ n.poisoned = a.poisoned

\* Feeding the codecs keeps a pipeline a pipeline, and its history continuous.
LEMMA VideoFed ==
  ASSUME NEW v \in VideoPipelines, NEW i \in Nat, Continuous(v.fed)
  PROVE  /\ Follows(v, i) => /\ SameVideo(v, Submit(v, i))
                             /\ Continuous(Submit(v, i).fed)
                             /\ Ends(Submit(v, i).fed, i, FALSE)
         /\ Ends(v.fed, i, FALSE) => /\ SameVideo(v, Consume(v))
                                     /\ Continuous(Consume(v).fed)
                                     /\ Ends(Consume(v).fed, i, TRUE)
<1>1. v.fed \in Pieces
  BY DEF VideoPipelines
<1>2. ASSUME NEW fed \in Pieces
      PROVE  SameVideo(v, [v EXCEPT !.fed = fed]) /\ [v EXCEPT !.fed = fed].fed = fed
  BY DEF VideoPipelines, SameVideo
<1>3. QED
  BY <1>1, <1>2, SubmitContinues, ConsumeCompletes DEF Submit, Consume, Follows

LEMMA AudioFed ==
  ASSUME NEW a \in AudioPipelines, NEW i \in Nat, Continuous(a.fed)
  PROVE  /\ Follows(a, i) => /\ SameAudio(a, Submit(a, i))
                             /\ Continuous(Submit(a, i).fed)
                             /\ Ends(Submit(a, i).fed, i, FALSE)
         /\ Ends(a.fed, i, FALSE) => /\ SameAudio(a, Consume(a))
                                     /\ Continuous(Consume(a).fed)
                                     /\ Ends(Consume(a).fed, i, TRUE)
<1>1. a.fed \in Pieces
  BY DEF AudioPipelines
<1>2. ASSUME NEW fed \in Pieces
      PROVE  SameAudio(a, [a EXCEPT !.fed = fed]) /\ [a EXCEPT !.fed = fed].fed = fed
  BY DEF AudioPipelines, SameAudio
<1>3. QED
  BY <1>1, <1>2, SubmitContinues, ConsumeCompletes DEF Submit, Consume, Follows

\* What new codecs are like.
LEMMA NewPipelines ==
  ASSUME NEW s \in BOOLEAN, NEW c \in BOOLEAN
  PROVE  /\ NewVideo(s, c) \in VideoPipelines /\ NewAudio \in AudioPipelines
         /\ <<>> \in Pieces /\ Continuous(<<>>)
BY EmptySeq
DEF NewVideo, NewAudio, VideoPipelines, AudioPipelines, Pieces, Continuous, NoIndex

\* AudioPipeline::prepare yields codecs that the segment follows.
LEMMA AudioPrepared ==
  ASSUME NEW a \in AudioPipelines, NEW i \in Nat, Continuous(a.fed),
         ~a.poisoned => IF a.completed = NoIndex THEN a.fed = <<>>
                        ELSE Ends(a.fed, a.completed, TRUE)
  PROVE  LET n == PreparedAudio(a, i)
         IN  /\ n \in AudioPipelines /\ n.poisoned
             /\ Continuous(n.fed) /\ Follows(n, i)
<1>1. a # None
  BY NoneAssumption
<1>2. CASE a.poisoned \/ (a.completed # NoIndex /\ a.completed + 1 # i)
  <2>1. PreparedAudio(a, i) = [NewAudio EXCEPT !.poisoned = TRUE]
    BY <1>1, <1>2 DEF PreparedAudio
  <2>2. QED
    BY <2>1, NewPipelines DEF NewAudio, AudioPipelines, Follows, NoIndex
<1>3. CASE ~a.poisoned /\ (a.completed = NoIndex \/ a.completed + 1 = i)
  <2>1. PreparedAudio(a, i) = [a EXCEPT !.poisoned = TRUE]
    BY <1>1, <1>3 DEF PreparedAudio
  <2>2. a.completed + 1 = i => a.completed = i - 1
    BY DEF AudioPipelines, NoIndex
  <2>3. a.fed = <<>> \/ a.fed[Len(a.fed)] = [index |-> i - 1, whole |-> TRUE]
    <3>1. CASE a.completed = NoIndex
      BY <1>3, <3>1
    <3>2. CASE a.completed # NoIndex
      <4>1. Ends(a.fed, a.completed, TRUE)
        BY <1>3, <3>2
      <4>2. a.completed = i - 1
        BY <1>3, <2>2, <3>2
      <4>3. QED
        BY <4>1, <4>2 DEF Ends
    <3>3. QED
      BY <3>1, <3>2
  <2>4. PreparedAudio(a, i).fed = a.fed /\ PreparedAudio(a, i) \in AudioPipelines
    BY <2>1 DEF AudioPipelines
  <2>5. QED
    BY <2>1, <2>3, <2>4 DEF AudioPipelines, Follows
<1>4. QED
  BY <1>2, <1>3

\* So does prepare_for, when it keeps the codecs ...
LEMMA VideoPrepared ==
  ASSUME NEW v \in VideoPipelines, NEW i \in Nat, Continuous(v.fed),
         ~v.poisoned => IF v.last = NoIndex THEN v.fed = <<>>
                        ELSE Ends(v.fed, v.last, TRUE),
         Reusable(v, i)
  PROVE  /\ Reused(v) \in VideoPipelines /\ Reused(v).poisoned
         /\ Continuous(Reused(v).fed) /\ Follows(Reused(v), i)
         /\ Reused(v).soft = v.soft
         /\ Reused(v).created = v.created /\ Reused(v).resets = v.resets
<1>1. /\ Reused(v) \in VideoPipelines /\ Reused(v).poisoned /\ Reused(v).fed = v.fed
      /\ Reused(v).soft = v.soft
      /\ Reused(v).created = v.created /\ Reused(v).resets = v.resets
  <2>1. /\ Reused(v).poisoned /\ Reused(v).fed = v.fed /\ Reused(v).soft = v.soft
        /\ Reused(v).created = v.created /\ Reused(v).resets = v.resets
    BY DEF Reused, VideoPipelines
  <2>2. v.reuses + (IF v.last = NoIndex THEN 0 ELSE 1) \in Nat
    BY DEF VideoPipelines
  <2>3. Reused(v) \in VideoPipelines
    BY <2>2 DEF Reused, VideoPipelines
  <2>4. QED
    BY <2>1, <2>3
<1>2. v.last + 1 = i => v.last = i - 1
  BY DEF VideoPipelines, NoIndex
<1>3. v.fed = <<>> \/ v.fed[Len(v.fed)] = [index |-> i - 1, whole |-> TRUE]
  <2>1. ~v.poisoned
    BY DEF Reusable
  <2>2. CASE v.last = NoIndex
    BY <2>1, <2>2
  <2>3. CASE v.last # NoIndex
    <3>1. Ends(v.fed, v.last, TRUE)
      BY <2>1, <2>3
    <3>2. v.last = i - 1
      BY <1>2, <2>3 DEF Reusable
    <3>3. QED
      BY <3>1, <3>2 DEF Ends
  <2>4. QED
    BY <2>2, <2>3
<1>4. QED
  BY <1>1, <1>3 DEF Follows

\* ... and when it replaces them, which also adds to the counters.
LEMMA VideoReplaced ==
  ASSUME NEW v \in VideoPipelines, NEW s \in BOOLEAN, NEW c \in BOOLEAN
  PROVE  LET n == Replaced(v, NewVideo(s, c))
         IN  /\ n \in VideoPipelines /\ n.poisoned /\ n.soft = s
             /\ n.fed = <<>> /\ Continuous(n.fed)
             /\ n.created = v.created + 1 /\ n.resets = v.resets + 1
<1> DEFINE w == NewVideo(s, c)
           n == Replaced(v, w)
<1>1. v.created + 1 \in Nat /\ v.reuses \in Nat /\ v.resets + 1 \in Nat
  BY DEF VideoPipelines
<1>2. w \in VideoPipelines /\ w.soft = s /\ w.fed = <<>>
  BY NewPipelines DEF NewVideo
<1> HIDE DEF w
<1>3. /\ n.soft = s /\ n.fed = <<>> /\ n.poisoned
      /\ n.created = v.created + 1 /\ n.resets = v.resets + 1
  BY <1>1, <1>2 DEF Replaced, VideoPipelines
<1>4. ASSUME NEW a \in Nat, NEW b \in Nat, NEW d \in Nat
      PROVE  [w EXCEPT !.poisoned = TRUE, !.created = a, !.reuses = b, !.resets = d]
               \in VideoPipelines
  BY <1>2 DEF VideoPipelines
<1>5. n \in VideoPipelines
  BY <1>1, <1>4 DEF Replaced
<1>6. QED
  BY <1>3, <1>5, NewPipelines DEF w

\* open() establishes the invariant.
LEMMA InitIInv == Init => IInv
<1> SUFFICES ASSUME Init PROVE IInv
  OBVIOUS
<1>1. /\ cfg \in [mode : {"copy", "h264"}, software : BOOLEAN, streaming : BOOLEAN]
      /\ pc = "idle" /\ req = [op |-> "init", index |-> 0, left |-> 0]
      /\ retried = FALSE /\ outputs = {} /\ result = "none"
      /\ cancelled = FALSE /\ changed = FALSE
      /\ calls = 0 /\ fallbacks = 0 /\ fault = FALSE /\ late = FALSE
  BY DEF Init
<1>2. \/ cfg.mode = "copy" /\ video = None /\ built = 0
      \/ /\ cfg.mode = "h264" /\ built = 1
         /\ \E c \in BOOLEAN : video = NewVideo(FALSE, c)
  BY <1>1 DEF Init, CpuChoices
<1>3. \/ cfg.mode = "copy" /\ video = None /\ built = 0
      \/ /\ cfg.mode = "h264" /\ built = 1 /\ video \in VideoPipelines /\ video # None
         /\ video.fed = <<>> /\ video.last = NoIndex /\ ~video.soft
         /\ video.created = 1 /\ video.resets = 0
  <2>1. CASE video = None
    BY <1>2, <2>1, NewPipelines, NoneAssumption
  <2>2. CASE video # None
    <3>1. PICK c \in BOOLEAN : video = NewVideo(FALSE, c)
      BY <1>2, <2>2
    <3>2. video \in VideoPipelines
      BY <3>1, NewPipelines
    <3>3. /\ video.fed = <<>> /\ video.last = NoIndex /\ ~video.soft
          /\ video.created = 1 /\ video.resets = 0
      BY <3>1 DEF NewVideo
    <3>4. QED
      BY <1>2, <2>2, <3>2, <3>3
  <2>3. QED
    BY <2>1, <2>2
<1>4. \/ ~cfg.streaming /\ audio = None
      \/ /\ cfg.streaming /\ audio \in AudioPipelines /\ audio # None
         /\ audio.fed = <<>> /\ audio.completed = NoIndex
  BY <1>1, NewPipelines, NoneAssumption DEF Init, NewAudio
<1>5. CallTypes /\ PipelineTypes
  <2>1. CallTypes
    BY <1>1 DEF CallTypes, PcSet
  <2>2. built \in Nat /\ fallbacks \in Nat
    BY <1>1, <1>3
  <2>3. QED
    BY <1>3, <1>4, <2>1, <2>2 DEF PipelineTypes
<1>6. RequestTypes
  BY <1>1, SegmentsAssumption DEF RequestTypes, InPlan
<1>7. VideoAt /\ AudioAt
  BY <1>1, <1>3, <1>4, NewPipelines DEF VideoAt, AudioAt, Rendering, Publishing
<1>8. Control /\ Lateness /\ FallbackDiscipline /\ StreamingKept /\ StatsAddUp /\ NoWedge
  BY <1>1, <1>3, <1>4
  DEF Control, Lateness, FallbackDiscipline, StreamingKept, StatsAddUp, NoWedge, Closed,
      Publishing
<1>9. QED
  BY <1>5, <1>6, <1>7, <1>8 DEF IInv, TypeOK, CallTypes, RequestTypes, PipelineTypes

\* One step of the session, action by action.
LEMMA StepIInv == IInv /\ [Next]_vars => IInv'
<1> SUFFICES ASSUME IInv, [Next]_vars PROVE IInv'
  OBVIOUS
<1> USE DEF Goto, Fail, Refuse
<1>0. /\ CallTypes /\ RequestTypes /\ PipelineTypes
      /\ VideoAt /\ AudioAt /\ Control /\ Lateness
      /\ FallbackDiscipline /\ StreamingKept /\ StatsAddUp /\ NoWedge
  BY DEF IInv, TypeOK, CallTypes, RequestTypes, PipelineTypes
<1>a. req.index \in Nat
  BY <1>0 DEF RequestTypes
<1>1. CASE UNCHANGED vars \/ Stop \/ Replace
  <2>1. CallTypes'
    <3>1. UNCHANGED <<cfg, pc, outputs, result, retried, fault, late>>
      BY <1>1 DEF Stop, Replace, pipelines, progress, vars
    <3>2. cancelled' \in {cancelled, TRUE} /\ changed' \in {changed, TRUE}
      BY <1>1 DEF Stop, Replace, vars
    <3>3. QED
      BY <1>0, <3>1, <3>2 DEF CallTypes
  <2>2. RequestTypes'
    BY <1>0, <1>1
    DEF RequestTypes, InPlan, vars, Stop, Replace, progress
  <2>3. PipelineTypes'
    BY <1>0, <1>1
    DEF PipelineTypes, pipelines, vars, Stop, Replace, progress
  <2>4. VideoAt'
    BY <1>0, <1>1
    DEF VideoAt, Rendering, Publishing, pipelines, vars, Stop, Replace, progress
  <2>5. AudioAt'
    BY <1>0, <1>1
    DEF AudioAt, Rendering, Publishing, pipelines, vars, Stop, Replace, progress
  <2>6. Control'
    BY <1>0, <1>1
    DEF Control, Closed, pipelines, vars, Stop, Replace, progress
  <2>7. Lateness'
    BY <1>0, <1>1
    DEF Lateness, Publishing, Valid, Check, world, vars, Stop, Replace, progress
  <2>8. FallbackDiscipline'
    BY <1>0, <1>1
    DEF FallbackDiscipline, Closed, pipelines, vars, Stop, Replace, progress
  <2>9. StreamingKept'
    BY <1>0, <1>1
    DEF StreamingKept, Closed, pipelines, vars, Stop, Replace, progress
  <2>10. StatsAddUp'
    BY <1>0, <1>1
    DEF StatsAddUp, PipelineTypes, VideoPipelines, pipelines, vars, Stop, Replace, progress
  <2>11. NoWedge'
    BY <1>0, <1>1
    DEF NoWedge, Control, Closed, pipelines, vars, Stop, Replace, progress
  <2> QED
    BY <2>1, <2>2, <2>3, <2>4, <2>5, <2>6, <2>7, <2>8, <2>9, <2>10, <2>11
    DEF IInv, TypeOK, CallTypes, RequestTypes, PipelineTypes
<1>2. CASE Call
  <2>1. CallTypes'
    BY <1>0, <1>2, SegmentsAssumption
    DEF CallTypes, PcSet, Kinds, pipelines, world, Call, Window
  <2>2. RequestTypes'
    BY <1>0, <1>2, SegmentsAssumption
    DEF RequestTypes, InPlan, Call, Window
  <2>3. PipelineTypes'
    BY <1>0, <1>2, SegmentsAssumption
    DEF PipelineTypes, pipelines, Call, Window
  <2>4. VideoAt'
    BY <1>0, <1>2, SegmentsAssumption
    DEF VideoAt, Rendering, Publishing, pipelines, Call, Window
  <2>5. AudioAt'
    BY <1>0, <1>2, SegmentsAssumption
    DEF AudioAt, Rendering, Publishing, pipelines, Call, Window
  <2>6. Control'
    BY <1>0, <1>2, SegmentsAssumption
    DEF Control, Closed, pipelines, Call, Window
  <2>7. Lateness'
    BY <1>0, <1>2, SegmentsAssumption
    DEF Lateness, Publishing, Valid, Check, world, Call, Window
  <2>8. FallbackDiscipline'
    BY <1>0, <1>2, SegmentsAssumption
    DEF FallbackDiscipline, Closed, pipelines, Call, Window
  <2>9. StreamingKept'
    BY <1>0, <1>2, SegmentsAssumption
    DEF StreamingKept, Closed, pipelines, Call, Window
  <2>10. StatsAddUp'
    BY <1>0, <1>2, SegmentsAssumption
    DEF StatsAddUp, PipelineTypes, VideoPipelines, pipelines, Call, Window
  <2>11. NoWedge'
    BY <1>0, <1>2, SegmentsAssumption
    DEF NoWedge, Control, Closed, pipelines, Call, Window
  <2> QED
    BY <2>1, <2>2, <2>3, <2>4, <2>5, <2>6, <2>7, <2>8, <2>9, <2>10, <2>11
    DEF IInv, TypeOK, CallTypes, RequestTypes, PipelineTypes
<1>3. CASE Probe \/ Read \/ Recover \/ Mux \/ Validate \/ Revalidate
  <2>1. CallTypes'
    BY <1>0, <1>3
    DEF CallTypes, PcSet, Kinds, pipelines, world,
        Probe, Read, Recover, Mux, Validate, Revalidate
  <2>2. RequestTypes'
    BY <1>0, <1>3
    DEF RequestTypes, InPlan,
        Probe, Read, Recover, Mux, Validate, Revalidate
  <2>3. PipelineTypes'
    BY <1>0, <1>3
    DEF PipelineTypes, pipelines,
        Probe, Read, Recover, Mux, Validate, Revalidate
  <2>4. VideoAt'
    BY <1>0, <1>3
    DEF VideoAt, Rendering, Publishing, pipelines,
        Probe, Read, Recover, Mux, Validate, Revalidate
  <2>5. AudioAt'
    BY <1>0, <1>3
    DEF AudioAt, Rendering, Publishing, pipelines,
        Probe, Read, Recover, Mux, Validate, Revalidate
  <2>6. Control'
    BY <1>0, <1>3
    DEF Control, Closed, pipelines,
        Probe, Read, Recover, Mux, Validate, Revalidate
  <2>7. Lateness'
    BY <1>0, <1>3
    DEF Lateness, Publishing, Valid, Check, world,
        Probe, Read, Recover, Mux, Validate, Revalidate
  <2>8. FallbackDiscipline'
    BY <1>0, <1>3
    DEF FallbackDiscipline, Closed, pipelines,
        Probe, Read, Recover, Mux, Validate, Revalidate
  <2>9. StreamingKept'
    BY <1>0, <1>3
    DEF StreamingKept, Closed, pipelines,
        Probe, Read, Recover, Mux, Validate, Revalidate
  <2>10. StatsAddUp'
    BY <1>0, <1>3
    DEF StatsAddUp, PipelineTypes, VideoPipelines, pipelines,
        Probe, Read, Recover, Mux, Validate, Revalidate
  <2>11. NoWedge'
    BY <1>0, <1>3
    DEF NoWedge, Control, Closed, pipelines,
        Probe, Read, Recover, Mux, Validate, Revalidate
  <2> QED
    BY <2>1, <2>2, <2>3, <2>4, <2>5, <2>6, <2>7, <2>8, <2>9, <2>10, <2>11
    DEF IInv, TypeOK, CallTypes, RequestTypes, PipelineTypes
<1>4. CASE PublishInit
  <2>1. CallTypes'
    BY <1>0, <1>4
    DEF CallTypes, PcSet, Kinds, pipelines, world, PublishInit, Return
  <2>2. RequestTypes'
    BY <1>0, <1>4
    DEF RequestTypes, InPlan, PublishInit, Return
  <2>3. PipelineTypes'
    BY <1>0, <1>4
    DEF PipelineTypes, pipelines, PublishInit, Return
  <2>4. VideoAt'
    BY <1>0, <1>4
    DEF VideoAt, Rendering, Publishing, pipelines, PublishInit, Return
  <2>5. AudioAt'
    BY <1>0, <1>4
    DEF AudioAt, Rendering, Publishing, pipelines, PublishInit, Return
  <2>6. Control'
    BY <1>0, <1>4
    DEF Control, Closed, pipelines, PublishInit, Return
  <2>7. Lateness'
    BY <1>0, <1>4
    DEF Lateness, Publishing, Valid, Check, world, PublishInit, Return
  <2>8. FallbackDiscipline'
    BY <1>0, <1>4
    DEF FallbackDiscipline, Closed, pipelines, PublishInit, Return
  <2>9. StreamingKept'
    BY <1>0, <1>4
    DEF StreamingKept, Closed, pipelines, PublishInit, Return
  <2>10. StatsAddUp'
    BY <1>0, <1>4
    DEF StatsAddUp, PipelineTypes, VideoPipelines, pipelines, PublishInit, Return
  <2>11. NoWedge'
    BY <1>0, <1>4
    DEF NoWedge, Control, Closed, pipelines, PublishInit, Return
  <2> QED
    BY <2>1, <2>2, <2>3, <2>4, <2>5, <2>6, <2>7, <2>8, <2>9, <2>10, <2>11
    DEF IInv, TypeOK, CallTypes, RequestTypes, PipelineTypes
<1>5. CASE PublishMedia
  <2>1. CallTypes'
    BY <1>0, <1>5
    DEF CallTypes, PcSet, Kinds, pipelines, world, PublishMedia, Return
  <2>2. RequestTypes'
    <3>1. CASE req' = req
      BY <1>0, <1>5, <3>1 DEF RequestTypes, PublishMedia, InPlan
    <3>2. CASE req' # req
      <4>1. req.left # 0 /\ req' = [req EXCEPT !.index = @ + 1, !.left = @ - 1]
        BY <1>5, <3>2 DEF PublishMedia, Return
      <4>2. /\ req'.op = req.op /\ req'.index = req.index + 1
            /\ req'.left = req.left - 1
            /\ req' \in [op : {"init", "segment", "start"}, index : Nat, left : Nat]
        <5>1. req.index + 1 \in Nat /\ req.left - 1 \in Nat
          BY <1>0, <4>1 DEF RequestTypes
        <5>2. req' = [op |-> req.op, index |-> req.index + 1, left |-> req.left - 1]
          BY <1>0, <4>1 DEF RequestTypes
        <5>3. QED
          BY <1>0, <5>1, <5>2 DEF RequestTypes
      <4>3. req.left \in Nat /\ req.index \in Nat /\ InPlan(req)
        BY <1>0 DEF RequestTypes
      <4>4. InPlan(req')
        BY <4>1, <4>2, <4>3, SegmentsAssumption DEF InPlan
      <4>5. QED
        BY <1>0, <1>5, <4>2, <4>4 DEF RequestTypes, InPlan, PublishMedia
    <3>3. QED
      BY <3>1, <3>2
  <2>3. PipelineTypes'
    BY <1>0, <1>5
    DEF PipelineTypes, pipelines, PublishMedia, Return
  <2>4. VideoAt'
    BY <1>0, <1>5
    DEF VideoAt, Rendering, Publishing, pipelines, PublishMedia, Return
  <2>5. AudioAt'
    BY <1>0, <1>5
    DEF AudioAt, Rendering, Publishing, pipelines, PublishMedia, Return
  <2>6. Control'
    BY <1>0, <1>5
    DEF Control, Closed, pipelines, PublishMedia, Return
  <2>7. Lateness'
    BY <1>0, <1>5
    DEF Lateness, Publishing, Valid, Check, world, PublishMedia, Return
  <2>8. FallbackDiscipline'
    BY <1>0, <1>5
    DEF FallbackDiscipline, Closed, pipelines, PublishMedia, Return
  <2>9. StreamingKept'
    BY <1>0, <1>5
    DEF StreamingKept, Closed, pipelines, PublishMedia, Return
  <2>10. StatsAddUp'
    BY <1>0, <1>5
    DEF StatsAddUp, PipelineTypes, VideoPipelines, pipelines, PublishMedia, Return
  <2>11. NoWedge'
    BY <1>0, <1>5
    DEF NoWedge, Control, Closed, pipelines, PublishMedia, Return
  <2> QED
    BY <2>1, <2>2, <2>3, <2>4, <2>5, <2>6, <2>7, <2>8, <2>9, <2>10, <2>11
    DEF IInv, TypeOK, CallTypes, RequestTypes, PipelineTypes
<1>6. CASE FeedVideo
  <2>a. video # None => /\ video \in VideoPipelines /\ Continuous(video.fed)
                        /\ Follows(video, req.index)
    BY <1>0, <1>6 DEF FeedVideo, PipelineTypes, VideoAt
  <2>b. video # None =>
          /\ SameVideo(video, Submit(video, req.index)) /\ Submit(video, req.index) # None
          /\ Continuous(Submit(video, req.index).fed)
          /\ Ends(Submit(video, req.index).fed, req.index, FALSE)
    BY <1>a, <2>a, VideoFed, NoneAssumption DEF SameVideo
  <2>c. \/ video # None /\ video' = Submit(video, req.index) /\ UNCHANGED <<result, fault>>
        \/ video' = video /\ (video = None \/ pc' # "videoEnd")
    BY <2>a, <1>6, Zenon DEF FeedVideo
  <2>1. CallTypes'
    <3>1. UNCHANGED <<cfg, outputs, retried, cancelled, changed, late>>
      BY <1>6 DEF FeedVideo, world
    <3>2. \/ pc' \in PcSet /\ UNCHANGED <<result, fault>>
          \/ pc' = "idle" /\ result' = "error" /\ fault' \in {fault, TRUE}
      BY <1>6 DEF FeedVideo, PcSet
    <3>3. pc' \in PcSet /\ result' \in {"none", "ok", "error"} /\ fault' \in BOOLEAN
      BY <1>0, <3>2 DEF CallTypes, PcSet
    <3>4. QED
      BY <1>0, <3>1, <3>3 DEF CallTypes
  <2>2. RequestTypes'
    BY <1>0, <1>6, <2>b, <2>c
    DEF RequestTypes, InPlan, FeedVideo, SameVideo
  <2>3. PipelineTypes'
    BY <1>0, <1>6, <2>b, <2>c
    DEF PipelineTypes, pipelines, FeedVideo, SameVideo
  <2>4. VideoAt'
    BY <1>0, <1>6, <2>b, <2>c
    DEF VideoAt, Rendering, Publishing, pipelines, FeedVideo, SameVideo
  <2>5. AudioAt'
    BY <1>0, <1>6, <2>b, <2>c
    DEF AudioAt, Rendering, Publishing, pipelines, FeedVideo, SameVideo
  <2>6. Control'
    BY <1>0, <1>6, <2>b, <2>c
    DEF Control, Closed, pipelines, FeedVideo, SameVideo
  <2>7. Lateness'
    BY <1>0, <1>6, <2>b, <2>c
    DEF Lateness, Publishing, Valid, Check, world, FeedVideo, SameVideo
  <2>8. FallbackDiscipline'
    BY <1>0, <1>6, <2>b, <2>c
    DEF FallbackDiscipline, Closed, pipelines, FeedVideo, SameVideo
  <2>9. StreamingKept'
    BY <1>0, <1>6, <2>b, <2>c
    DEF StreamingKept, Closed, pipelines, FeedVideo, SameVideo
  <2>10. StatsAddUp'
    BY <1>0, <1>6, <2>b, <2>c
    DEF StatsAddUp, PipelineTypes, VideoPipelines, pipelines, FeedVideo, SameVideo
  <2>11. NoWedge'
    BY <1>0, <1>6, <2>b, <2>c
    DEF NoWedge, Control, Closed, pipelines, FeedVideo, SameVideo
  <2> QED
    BY <2>1, <2>2, <2>3, <2>4, <2>5, <2>6, <2>7, <2>8, <2>9, <2>10, <2>11
    DEF IInv, TypeOK, CallTypes, RequestTypes, PipelineTypes
<1>7. CASE EndVideo
  <2>a. video # None => /\ video \in VideoPipelines /\ Continuous(video.fed)
                        /\ Ends(video.fed, req.index, FALSE)
    BY <1>0, <1>7 DEF EndVideo, PipelineTypes, VideoAt
  <2>b. video # None =>
          /\ SameVideo(video, Consume(video)) /\ Consume(video) # None
          /\ Continuous(Consume(video).fed)
          /\ Ends(Consume(video).fed, req.index, TRUE)
    BY <1>a, <2>a, VideoFed, NoneAssumption DEF SameVideo
  <2>c. \/ video # None /\ video' = Consume(video) /\ UNCHANGED <<result, fault>>
        \/ video' = video /\ (video = None \/ pc' # "audio")
    BY <2>a, <1>7, Zenon DEF EndVideo
  <2>1. CallTypes'
    <3>1. UNCHANGED <<cfg, outputs, retried, cancelled, changed, late>>
      BY <1>7 DEF EndVideo, world
    <3>2. \/ pc' \in PcSet /\ UNCHANGED <<result, fault>>
          \/ pc' = "idle" /\ result' = "error" /\ fault' \in {fault, TRUE}
      BY <1>7 DEF EndVideo, PcSet
    <3>3. pc' \in PcSet /\ result' \in {"none", "ok", "error"} /\ fault' \in BOOLEAN
      BY <1>0, <3>2 DEF CallTypes, PcSet
    <3>4. QED
      BY <1>0, <3>1, <3>3 DEF CallTypes
  <2>2. RequestTypes'
    BY <1>0, <1>7, <2>b, <2>c
    DEF RequestTypes, InPlan, EndVideo, SameVideo, Eligible
  <2>3. PipelineTypes'
    BY <1>0, <1>7, <2>b, <2>c
    DEF PipelineTypes, pipelines, EndVideo, SameVideo, Eligible
  <2>4. VideoAt'
    BY <1>0, <1>7, <2>b, <2>c
    DEF VideoAt, Rendering, Publishing, pipelines, EndVideo, SameVideo, Eligible
  <2>5. AudioAt'
    BY <1>0, <1>7, <2>b, <2>c
    DEF AudioAt, Rendering, Publishing, pipelines, EndVideo, SameVideo, Eligible
  <2>6. Control'
    BY <1>0, <1>7, <2>b, <2>c
    DEF Control, Closed, pipelines, EndVideo, SameVideo, Eligible
  <2>7. Lateness'
    BY <1>0, <1>7, <2>b, <2>c
    DEF Lateness, Publishing, Valid, Check, world, EndVideo, SameVideo, Eligible
  <2>8. FallbackDiscipline'
    BY <1>0, <1>7, <2>b, <2>c
    DEF FallbackDiscipline, Closed, pipelines, EndVideo, SameVideo, Eligible
  <2>9. StreamingKept'
    BY <1>0, <1>7, <2>b, <2>c
    DEF StreamingKept, Closed, pipelines, EndVideo, SameVideo, Eligible
  <2>10. StatsAddUp'
    BY <1>0, <1>7, <2>b, <2>c
    DEF StatsAddUp, PipelineTypes, VideoPipelines, pipelines, EndVideo, SameVideo, Eligible
  <2>11. NoWedge'
    BY <1>0, <1>7, <2>b, <2>c
    DEF NoWedge, Control, Closed, pipelines, EndVideo, SameVideo, Eligible
  <2> QED
    BY <2>1, <2>2, <2>3, <2>4, <2>5, <2>6, <2>7, <2>8, <2>9, <2>10, <2>11
    DEF IInv, TypeOK, CallTypes, RequestTypes, PipelineTypes
<1>8. CASE FeedAudio
  <2>a. audio # None => /\ audio \in AudioPipelines /\ Continuous(audio.fed)
                        /\ Follows(audio, req.index)
    BY <1>0, <1>8 DEF FeedAudio, PipelineTypes, AudioAt
  <2>b. audio # None =>
          /\ SameAudio(audio, Submit(audio, req.index)) /\ Submit(audio, req.index) # None
          /\ Continuous(Submit(audio, req.index).fed)
          /\ Ends(Submit(audio, req.index).fed, req.index, FALSE)
    BY <1>a, <2>a, AudioFed, NoneAssumption DEF SameAudio
  <2>c. \/ audio # None /\ audio' = Submit(audio, req.index) /\ UNCHANGED <<result, fault>>
        \/ audio' = audio /\ (audio = None \/ pc' # "audioEnd")
    BY <2>a, <1>8, Zenon DEF FeedAudio
  <2>1. CallTypes'
    <3>1. UNCHANGED <<cfg, outputs, retried, cancelled, changed, late>>
      BY <1>8 DEF FeedAudio, world
    <3>2. \/ pc' \in PcSet /\ UNCHANGED <<result, fault>>
          \/ pc' = "idle" /\ result' = "error" /\ fault' \in {fault, TRUE}
      BY <1>8 DEF FeedAudio, PcSet
    <3>3. pc' \in PcSet /\ result' \in {"none", "ok", "error"} /\ fault' \in BOOLEAN
      BY <1>0, <3>2 DEF CallTypes, PcSet
    <3>4. QED
      BY <1>0, <3>1, <3>3 DEF CallTypes
  <2>2. RequestTypes'
    BY <1>0, <1>8, <2>a, <2>b, <2>c
    DEF RequestTypes, InPlan, FeedAudio, SameAudio
  <2>3. PipelineTypes'
    BY <1>0, <1>8, <2>a, <2>b, <2>c
    DEF PipelineTypes, pipelines, FeedAudio, SameAudio
  <2>4. VideoAt'
    BY <1>0, <1>8, <2>a, <2>b, <2>c
    DEF VideoAt, Rendering, Publishing, pipelines, FeedAudio, SameAudio
  <2>5. AudioAt'
    BY <1>0, <1>8, <2>a, <2>b, <2>c
    DEF AudioAt, Rendering, Publishing, pipelines, FeedAudio, SameAudio
  <2>6. Control'
    BY <1>0, <1>8, <2>a, <2>b, <2>c
    DEF Control, Closed, pipelines, FeedAudio, SameAudio
  <2>7. Lateness'
    BY <1>0, <1>8, <2>a, <2>b, <2>c
    DEF Lateness, Publishing, Valid, Check, world, FeedAudio, SameAudio
  <2>8. FallbackDiscipline'
    BY <1>0, <1>8, <2>a, <2>b, <2>c
    DEF FallbackDiscipline, Closed, pipelines, FeedAudio, SameAudio
  <2>9. StreamingKept'
    BY <1>0, <1>8, <2>a, <2>b, <2>c
    DEF StreamingKept, Closed, pipelines, FeedAudio, SameAudio
  <2>10. StatsAddUp'
    BY <1>0, <1>8, <2>a, <2>b, <2>c
    DEF StatsAddUp, PipelineTypes, VideoPipelines, pipelines, FeedAudio, SameAudio
  <2>11. NoWedge'
    BY <1>0, <1>8, <2>a, <2>b, <2>c
    DEF NoWedge, Control, Closed, pipelines, FeedAudio, SameAudio
  <2> QED
    BY <2>1, <2>2, <2>3, <2>4, <2>5, <2>6, <2>7, <2>8, <2>9, <2>10, <2>11
    DEF IInv, TypeOK, CallTypes, RequestTypes, PipelineTypes
<1>9. CASE EndAudio
  <2>a. audio # None => /\ audio \in AudioPipelines /\ Continuous(audio.fed)
                        /\ Ends(audio.fed, req.index, FALSE)
    BY <1>0, <1>9 DEF EndAudio, PipelineTypes, AudioAt
  <2>b. audio # None =>
          /\ SameAudio(audio, Consume(audio)) /\ Consume(audio) # None
          /\ Continuous(Consume(audio).fed)
          /\ Ends(Consume(audio).fed, req.index, TRUE)
    BY <1>a, <2>a, AudioFed, NoneAssumption DEF SameAudio
  <2>c. \/ audio # None /\ audio' = Consume(audio) /\ UNCHANGED <<result, fault>>
        \/ audio' = audio /\ (audio = None \/ pc' # "mux")
    BY <2>a, <1>9, Zenon DEF EndAudio
  <2>1. CallTypes'
    BY <1>0, <1>9, <2>b, <2>c
    DEF CallTypes, PcSet, Kinds, pipelines, world, EndAudio, SameAudio
  <2>2. RequestTypes'
    BY <1>0, <1>9, <2>b, <2>c
    DEF RequestTypes, InPlan, EndAudio, SameAudio
  <2>3. PipelineTypes'
    BY <1>0, <1>9, <2>b, <2>c
    DEF PipelineTypes, pipelines, EndAudio, SameAudio
  <2>4. VideoAt'
    BY <1>0, <1>9, <2>b, <2>c
    DEF VideoAt, Rendering, Publishing, pipelines, EndAudio, SameAudio
  <2>5. AudioAt'
    BY <1>0, <1>9, <2>b, <2>c
    DEF AudioAt, Rendering, Publishing, pipelines, EndAudio, SameAudio
  <2>6. Control'
    BY <1>0, <1>9, <2>b, <2>c
    DEF Control, Closed, pipelines, EndAudio, SameAudio
  <2>7. Lateness'
    BY <1>0, <1>9, <2>b, <2>c
    DEF Lateness, Publishing, Valid, Check, world, EndAudio, SameAudio
  <2>8. FallbackDiscipline'
    BY <1>0, <1>9, <2>b, <2>c
    DEF FallbackDiscipline, Closed, pipelines, EndAudio, SameAudio
  <2>9. StreamingKept'
    BY <1>0, <1>9, <2>b, <2>c
    DEF StreamingKept, Closed, pipelines, EndAudio, SameAudio
  <2>10. StatsAddUp'
    BY <1>0, <1>9, <2>b, <2>c
    DEF StatsAddUp, PipelineTypes, VideoPipelines, pipelines, EndAudio, SameAudio
  <2>11. NoWedge'
    BY <1>0, <1>9, <2>b, <2>c
    DEF NoWedge, Control, Closed, pipelines, EndAudio, SameAudio
  <2> QED
    BY <2>1, <2>2, <2>3, <2>4, <2>5, <2>6, <2>7, <2>8, <2>9, <2>10, <2>11
    DEF IInv, TypeOK, CallTypes, RequestTypes, PipelineTypes
<1>10. CASE Render
  <2>a. /\ audio = None => PreparedAudio(audio, req.index) = None
        /\ audio # None =>
             LET n == PreparedAudio(audio, req.index)
             IN  /\ n \in AudioPipelines /\ n # None /\ n.poisoned
                 /\ Continuous(n.fed) /\ Follows(n, req.index)
    <3>1. CASE audio = None
      BY <3>1 DEF PreparedAudio
    <3>2. CASE audio # None
      <4>1. /\ audio \in AudioPipelines /\ Continuous(audio.fed)
            /\ ~audio.poisoned => IF audio.completed = NoIndex THEN audio.fed = <<>>
                                  ELSE Ends(audio.fed, audio.completed, TRUE)
        BY <1>0, <3>2 DEF PipelineTypes, AudioAt
      <4>2. QED
        BY <1>a, <3>2, <4>1, AudioPrepared, NoneAssumption
    <3>3. QED
      BY <3>1, <3>2
  <2>b. video # None =>
          /\ video \in VideoPipelines /\ video.soft \in BOOLEAN
          /\ Reusable(video, req.index) =>
               LET n == Reused(video)
               IN  /\ n \in VideoPipelines /\ n # None /\ n.poisoned /\ n.soft = video.soft
                   /\ Continuous(n.fed) /\ Follows(n, req.index)
                   /\ n.created = video.created /\ n.resets = video.resets
    <3>1. SUFFICES ASSUME video # None
                   PROVE  /\ video \in VideoPipelines /\ video.soft \in BOOLEAN
                          /\ Reusable(video, req.index) =>
                             LET n == Reused(video)
                             IN  /\ n \in VideoPipelines /\ n # None /\ n.poisoned
                                 /\ n.soft = video.soft
                                 /\ Continuous(n.fed) /\ Follows(n, req.index)
                                 /\ n.created = video.created /\ n.resets = video.resets
      OBVIOUS
    <3>2. /\ video \in VideoPipelines /\ Continuous(video.fed)
          /\ ~video.poisoned => IF video.last = NoIndex THEN video.fed = <<>>
                                ELSE Ends(video.fed, video.last, TRUE)
      BY <1>0, <3>1 DEF PipelineTypes, VideoAt
    <3>3. video.soft \in BOOLEAN
      BY <3>2 DEF VideoPipelines
    <3>4. QED
      BY <1>a, <3>2, <3>3, VideoPrepared, NoneAssumption
  <2>c. video # None => \A x \in CpuChoices(video.soft) :
          LET n == Replaced(video, NewVideo(video.soft, x))
          IN  /\ n \in VideoPipelines /\ n # None /\ n.poisoned /\ n.soft = video.soft
              /\ Continuous(n.fed) /\ Follows(n, req.index)
              /\ n.created = video.created + 1 /\ n.resets = video.resets + 1
    <3>1. \A x \in CpuChoices(video.soft) : x \in BOOLEAN
      BY <1>0 DEF CpuChoices, CallTypes
    <3>2. QED
      BY <2>b, <3>1, VideoReplaced, NoneAssumption DEF Follows
  <2>d. \/ /\ video' = video /\ built' = built
           /\ pc' = "idle" /\ result' = "error" /\ fault' \in BOOLEAN /\ (fault' \/ Closed)
        \/ /\ video = None /\ video' = None /\ built' = built
           /\ pc' = "read" /\ ~Closed /\ UNCHANGED <<result, fault>>
        \/ /\ video # None /\ video' \in VideoPipelines /\ video' # None
           /\ video'.poisoned /\ video'.soft = video.soft
           /\ Continuous(video'.fed) /\ Follows(video', req.index)
           /\ pc' = "read" /\ ~Closed /\ UNCHANGED <<result, fault>>
           /\ \/ /\ video'.created = video.created /\ video'.resets = video.resets
                 /\ built' = built
              \/ /\ video'.created = video.created + 1
                 /\ video'.resets = video.resets + 1 /\ built' = built + 1
    BY <1>0, <1>10, <2>b, <2>c DEF Render, PrepareVideo, CallTypes
  <2>e. \/ audio' = audio /\ pc' = "idle"
        \/ audio = None /\ audio' = None
        \/ /\ audio # None /\ audio' \in AudioPipelines /\ audio' # None /\ audio'.poisoned
           /\ Continuous(audio'.fed) /\ Follows(audio', req.index)
    BY <1>10, <2>a DEF Render
  <2>f. /\ retried' = FALSE /\ pc = "render"
        /\ UNCHANGED <<cfg, req, outputs, cancelled, changed, calls, fallbacks, late>>
    BY <1>10 DEF Render, world
  <2>1. CallTypes'
    BY <1>0, <1>10, <2>d, <2>e, <2>f
    DEF CallTypes, PcSet, Kinds, pipelines, world
  <2>2. RequestTypes'
    BY <1>0, <1>10, <2>d, <2>e, <2>f
    DEF RequestTypes, InPlan
  <2>3. PipelineTypes'
    BY <1>0, <1>10, <2>d, <2>e, <2>f
    DEF PipelineTypes, pipelines
  <2>4. VideoAt'
    BY <1>0, <1>10, <2>d, <2>e, <2>f
    DEF VideoAt, Rendering, Publishing, pipelines
  <2>5. AudioAt'
    BY <1>0, <1>10, <2>d, <2>e, <2>f
    DEF AudioAt, Rendering, Publishing, pipelines
  <2>6. Control'
    BY <1>0, <1>10, <2>d, <2>e, <2>f
    DEF Control, Closed, pipelines
  <2>7. Lateness'
    BY <1>0, <1>10, <2>d, <2>e, <2>f
    DEF Lateness, Publishing, Valid, Check, world
  <2>8. FallbackDiscipline'
    BY <1>0, <1>10, <2>d, <2>e, <2>f
    DEF FallbackDiscipline, Closed, pipelines
  <2>9. StreamingKept'
    BY <1>0, <1>10, <2>d, <2>e, <2>f
    DEF StreamingKept, Closed, pipelines
  <2>10. StatsAddUp'
    BY <1>0, <1>10, <2>d, <2>e, <2>f
    DEF StatsAddUp, PipelineTypes, VideoPipelines, pipelines
  <2>11. NoWedge'
    BY <1>0, <1>10, <2>d, <2>e, <2>f
    DEF NoWedge, Control, Closed, pipelines
  <2> QED
    BY <2>1, <2>2, <2>3, <2>4, <2>5, <2>6, <2>7, <2>8, <2>9, <2>10, <2>11
    DEF IInv, TypeOK, CallTypes, RequestTypes, PipelineTypes
<1>11. CASE Rebuild
  <2>a. /\ video \in VideoPipelines /\ video # None /\ ~video.soft /\ cfg.software
        /\ cfg.mode = "h264" /\ fallbacks = 0
    BY <1>0, <1>11, NoneAssumption
    DEF Rebuild, PipelineTypes, VideoAt, Control, FallbackDiscipline
  <2>b. LET n == Replaced(video, NewVideo(TRUE, TRUE))
        IN  /\ n \in VideoPipelines /\ n # None /\ n.poisoned /\ n.soft
            /\ Continuous(n.fed) /\ Follows(n, req.index)
            /\ n.created = video.created + 1 /\ n.resets = video.resets + 1
    BY <2>a, VideoReplaced, NoneAssumption DEF Follows
  <2>c. /\ ~cfg.streaming => RebuiltAudio(req.index) = None
        /\ cfg.streaming =>
             LET n == RebuiltAudio(req.index)
             IN  /\ n \in AudioPipelines /\ n # None /\ n.poisoned
                 /\ Continuous(n.fed) /\ Follows(n, req.index)
    <3>1. /\ NewAudio \in AudioPipelines /\ NewAudio # None /\ Continuous(NewAudio.fed)
          /\ NewAudio.completed = NoIndex /\ NewAudio.fed = <<>>
      BY NewPipelines, NoneAssumption DEF NewAudio
    <3>2. LET n == PreparedAudio(NewAudio, req.index)
          IN  /\ n \in AudioPipelines /\ n.poisoned
              /\ Continuous(n.fed) /\ Follows(n, req.index)
      BY <1>a, <3>1, AudioPrepared
    <3>3. QED
      BY <3>2, NoneAssumption DEF RebuiltAudio, PreparedAudio
  <2>d. \/ /\ video' \in VideoPipelines /\ video' # None /\ video'.poisoned /\ video'.soft
           /\ Continuous(video'.fed) /\ Follows(video', req.index)
           /\ video'.created = video.created + 1 /\ video'.resets = video.resets + 1
           /\ built' = built + 1 /\ fallbacks' = 1 /\ retried' = TRUE
           /\ pc' = "read" /\ UNCHANGED <<result, fault>>
           /\ \/ ~cfg.streaming /\ audio' = None
              \/ /\ audio' \in AudioPipelines /\ audio' # None /\ audio'.poisoned
                 /\ Continuous(audio'.fed) /\ Follows(audio', req.index)
        \/ /\ video' = None /\ audio' = None /\ UNCHANGED <<built, fallbacks, retried>>
           /\ pc' = "idle" /\ result' = "error" /\ fault' = TRUE
    <3>1. CASE pc' = "read"
      <4>1. /\ video' = Replaced(video, NewVideo(TRUE, TRUE))
            /\ audio' = RebuiltAudio(req.index)
            /\ built' = built + 1 /\ fallbacks' = fallbacks + 1 /\ retried' = TRUE
            /\ UNCHANGED <<result, fault>>
        BY <1>11, <3>1 DEF Rebuild
      <4>2. cfg.streaming \in BOOLEAN /\ fallbacks' = 1
        BY <1>0, <2>a, <4>1 DEF CallTypes
      <4>3. QED
        BY <2>b, <2>c, <3>1, <4>1, <4>2
    <3>2. CASE pc' # "read"
      BY <1>11, <3>2 DEF Rebuild
    <3>3. QED
      BY <3>1, <3>2
  <2>e. /\ pc = "rebuild"
        /\ UNCHANGED <<cfg, req, outputs, cancelled, changed, calls, late>>
    BY <1>11 DEF Rebuild, world
  <2>1. CallTypes'
    BY <1>0, <1>11, <2>a, <2>d, <2>e
    DEF CallTypes, PcSet, Kinds, pipelines, world
  <2>2. RequestTypes'
    BY <1>0, <1>11, <2>a, <2>d, <2>e
    DEF RequestTypes, InPlan
  <2>3. PipelineTypes'
    BY <1>0, <1>11, <2>a, <2>d, <2>e
    DEF PipelineTypes, pipelines
  <2>4. VideoAt'
    BY <1>0, <1>11, <2>a, <2>d, <2>e
    DEF VideoAt, Rendering, Publishing, pipelines
  <2>5. AudioAt'
    BY <1>0, <1>11, <2>a, <2>d, <2>e
    DEF AudioAt, Rendering, Publishing, pipelines
  <2>6. Control'
    BY <1>0, <1>11, <2>a, <2>d, <2>e
    DEF Control, Closed, pipelines
  <2>7. Lateness'
    BY <1>0, <1>11, <2>a, <2>d, <2>e
    DEF Lateness, Publishing, Valid, Check, world
  <2>8. FallbackDiscipline'
    BY <1>0, <1>11, <2>a, <2>d, <2>e
    DEF FallbackDiscipline, Closed, pipelines
  <2>9. StreamingKept'
    BY <1>0, <1>11, <2>a, <2>d, <2>e
    DEF StreamingKept, Closed, pipelines
  <2>10. StatsAddUp'
    BY <1>0, <1>11, <2>a, <2>d, <2>e
    DEF StatsAddUp, PipelineTypes, VideoPipelines, pipelines
  <2>11. NoWedge'
    BY <1>0, <1>11, <2>a, <2>d, <2>e
    DEF NoWedge, Control, Closed, pipelines
  <2> QED
    BY <2>1, <2>2, <2>3, <2>4, <2>5, <2>6, <2>7, <2>8, <2>9, <2>10, <2>11
    DEF IInv, TypeOK, CallTypes, RequestTypes, PipelineTypes
<1>12. CASE Complete
  <2>a. /\ video # None => /\ video \in VideoPipelines /\ Continuous(video.fed)
                           /\ Ends(video.fed, req.index, TRUE)
        /\ audio # None => /\ audio \in AudioPipelines /\ Continuous(audio.fed)
                           /\ Ends(audio.fed, req.index, TRUE)
    BY <1>0, <1>12 DEF Complete, PipelineTypes, VideoAt, AudioAt, Publishing
  <2>b. \/ audio = None /\ audio' = None
        \/ /\ audio # None /\ audio' # None /\ audio' \in AudioPipelines
           /\ audio'.fed = audio.fed /\ audio'.completed = req.index /\ ~audio'.poisoned
    <3>1. CASE audio = None
      BY <1>12, <3>1 DEF Complete
    <3>2. CASE audio # None
      <4>1. audio' = [audio EXCEPT !.completed = req.index, !.poisoned = FALSE]
        BY <1>12, <3>2 DEF Complete
      <4>2. QED
        BY <1>a, <2>a, <3>2, <4>1, NoneAssumption DEF AudioPipelines
    <3>3. QED
      BY <3>1, <3>2
  <2>c. \/ video' = video /\ pc' = "idle" /\ result' = "error" /\ fault' = TRUE
        \/ video = None /\ video' = None /\ pc' = "validate" /\ UNCHANGED <<result, fault>>
        \/ /\ video # None /\ video' # None /\ video' \in VideoPipelines
           /\ video'.fed = video.fed /\ video'.last = req.index /\ ~video'.poisoned
           /\ video'.soft = video.soft
           /\ video'.created = video.created /\ video'.resets = video.resets
           /\ pc' = "validate" /\ UNCHANGED <<result, fault>>
    <3>1. CASE video = None
      BY <1>12, <3>1 DEF Complete
    <3>2. CASE video # None
      <4> DEFINE n == [video EXCEPT !.last = req.index, !.poisoned = FALSE]
      <4>1. /\ n \in VideoPipelines /\ n # None /\ n.fed = video.fed /\ n.last = req.index
            /\ ~n.poisoned /\ n.soft = video.soft
            /\ n.created = video.created /\ n.resets = video.resets
        BY <1>a, <2>a, <3>2, NoneAssumption DEF VideoPipelines
      <4>2. QED
        BY <1>12, <3>2, <4>1 DEF Complete
    <3>3. QED
      BY <3>1, <3>2
  <2>1. CallTypes'
    BY <1>0, <1>12, <2>a, <2>b, <2>c
    DEF CallTypes, PcSet, Kinds, pipelines, world, Complete
  <2>2. RequestTypes'
    BY <1>0, <1>12, <2>a, <2>b, <2>c
    DEF RequestTypes, InPlan, Complete
  <2>3. PipelineTypes'
    BY <1>0, <1>12, <2>a, <2>b, <2>c
    DEF PipelineTypes, pipelines, Complete
  <2>4. VideoAt'
    <3>1. pc = "complete" /\ req' = req /\ cfg' = cfg /\ pc' \in {"idle", "validate"}
      BY <1>12, <2>c DEF Complete
    <3>2. CASE video' # None /\ video' # video
      <4>1. /\ video # None /\ video'.fed = video.fed /\ video'.last = req.index
            /\ Continuous(video'.fed) /\ Ends(video'.fed, req'.index, TRUE)
        BY <2>a, <2>b, <2>c, <3>1, <3>2
      <4>2. video'.last # NoIndex /\ pc' \notin Rendering
        BY <1>a, <3>1, <4>1 DEF NoIndex, Rendering
      <4>3. QED
        BY <1>0, <3>1, <4>1, <4>2 DEF VideoAt, Rendering, Publishing
    <3>3. CASE video' # None /\ video' = video
      BY <1>0, <2>a, <2>b, <2>c, <3>1, <3>3 DEF VideoAt, Rendering, Publishing
    <3>4. QED
      BY <3>2, <3>3 DEF VideoAt
  <2>5. AudioAt'
    <3>1. pc = "complete" /\ req' = req /\ cfg' = cfg /\ pc' \in {"idle", "validate"}
      BY <1>12, <2>c DEF Complete
    <3>2. CASE audio' # None /\ audio' # audio
      <4>1. /\ audio # None /\ audio'.fed = audio.fed /\ audio'.completed = req.index
            /\ Continuous(audio'.fed) /\ Ends(audio'.fed, req'.index, TRUE)
        BY <2>a, <2>b, <2>c, <3>1, <3>2
      <4>2. audio'.completed # NoIndex /\ pc' \notin Rendering
        BY <1>a, <3>1, <4>1 DEF NoIndex, Rendering
      <4>3. QED
        BY <1>0, <3>1, <4>1, <4>2 DEF AudioAt, Rendering, Publishing
    <3>3. CASE audio' # None /\ audio' = audio
      BY <1>0, <2>a, <2>b, <2>c, <3>1, <3>3 DEF AudioAt, Rendering, Publishing
    <3>4. QED
      BY <3>2, <3>3 DEF AudioAt
  <2>6. Control'
    BY <1>0, <1>12, <2>a, <2>b, <2>c
    DEF Control, Closed, pipelines, Complete
  <2>7. Lateness'
    BY <1>0, <1>12, <2>a, <2>b, <2>c
    DEF Lateness, Publishing, Valid, Check, world, Complete
  <2>8. FallbackDiscipline'
    BY <1>0, <1>12, <2>a, <2>b, <2>c
    DEF FallbackDiscipline, Closed, pipelines, Complete
  <2>9. StreamingKept'
    BY <1>0, <1>12, <2>a, <2>b, <2>c
    DEF StreamingKept, Closed, pipelines, Complete
  <2>10. StatsAddUp'
    BY <1>0, <1>12, <2>a, <2>b, <2>c
    DEF StatsAddUp, PipelineTypes, VideoPipelines, pipelines, Complete
  <2>11. NoWedge'
    BY <1>0, <1>12, <2>a, <2>b, <2>c
    DEF NoWedge, Control, Closed, pipelines, Complete
  <2> QED
    BY <2>1, <2>2, <2>3, <2>4, <2>5, <2>6, <2>7, <2>8, <2>9, <2>10, <2>11
    DEF IInv, TypeOK, CallTypes, RequestTypes, PipelineTypes
<1> QED
  BY <1>1, <1>2, <1>3, <1>4, <1>5, <1>6, <1>7, <1>8, <1>9, <1>10, <1>11, <1>12
  DEF Next, Done

-----------------------------------------------------------------------------
\* The inductive invariant holds of every behaviour of the session.
THEOREM Invariance == Spec => []IInv
<1>1. Init => IInv
  BY InitIInv
<1>2. IInv /\ [Next]_vars => IInv'
  BY StepIInv
<1>3. QED
  BY <1>1, <1>2, PTL DEF Spec

\* Every variable keeps its type, and a window its place in the plan.
THEOREM TypeCorrect == Spec => []TypeOK
<1>1. IInv => TypeOK
  BY DEF IInv
<1>2. QED
  BY <1>1, Invariance, PTL

\* prepare_for and AudioPipeline::prepare: retained codecs see consecutive whole
\* segments only.
THEOREM ReuseIsClean == Spec => []CleanReuse
<1>1. IInv => CleanReuse
  BY DEF IInv, VideoAt, AudioAt, CleanReuse
<1>2. QED
  BY <1>1, Invariance, PTL

\* render's recovery: one software fallback at most, and only where permitted.
THEOREM FallsBackOnce == Spec => []FallbackDiscipline
<1>1. IInv => FallbackDiscipline
  BY DEF IInv
<1>2. QED
  BY <1>1, Invariance, PTL

\* render's recovery: streaming audio is never lost while the session is open.
THEOREM StreamingAudioKept == Spec => []StreamingKept
<1>1. IInv => StreamingKept
  BY DEF IInv
<1>2. QED
  BY <1>1, Invariance, PTL

\* stats(): the counters of the pipeline tell the backends created.
THEOREM CountersAddUp == Spec => []StatsAddUp
<1>1. IInv => StatsAddUp
  BY DEF IInv
<1>2. QED
  BY <1>1, Invariance, PTL

\* render after a failed call: an error always has a cause in its own call, or
\* the session is closed; the poisoned pipelines wedge nothing.
THEOREM NeverWedged == Spec => []NoWedge
<1>1. IInv => NoWedge
  BY DEF IInv
<1>2. QED
  BY <1>1, Invariance, PTL

\* write_*: what is published was rendered whole on both tracks, and neither a
\* stop nor a replaced source preceded it.
THEOREM PublishesWhatItRendered == Spec => PublishedRendered
<1>1. IInv /\ [Next]_vars =>
        [outputs' \ outputs # {} =>
           ~late /\ EndsWith(video, req.index) /\ EndsWith(audio, req.index)]_vars
  <2> SUFFICES ASSUME IInv, Next, outputs' \ outputs # {}
               PROVE  ~late /\ EndsWith(video, req.index) /\ EndsWith(audio, req.index)
    BY DEF vars
  <2>1. pc \in {"publishInit", "publishMedia"}
    BY DEF Next, Call, Probe, Render, Read, FeedVideo, EndVideo, Recover, Rebuild,
       FeedAudio, EndAudio, Mux, Complete, Validate, Revalidate, PublishInit,
       PublishMedia, Stop, Replace, Done, vars
  <2>2. QED
    BY <2>1 DEF IInv, VideoAt, AudioAt, Lateness, Publishing, Ends, EndsWith
<1>2. QED
  BY <1>1, Invariance, PTL DEF Spec, PublishedRendered
=============================================================================
