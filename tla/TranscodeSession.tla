-------------------------- MODULE TranscodeSession --------------------------
(***************************************************************************)
(* NativeFmp4TranscodeSession (transcode/segment.rs): one thread asks an   *)
(* open session for init and media artifacts in any order, also past the   *)
(* end of the plan.  The session keeps the native video codecs and, for    *)
(* TrueHD, DTS and Opus, the audio codecs (audio_pipeline.rs) from one     *)
(* segment to the next, while anything may fail, the control may be        *)
(* stopped and the source may be replaced.  AudioPipeline::new succeeded   *)
(* when the session was opened and is a function of the same track.        *)
(***************************************************************************)
EXTENDS Integers, Sequences

CONSTANTS Segments,   \* number of planned segments
          MaxCalls,   \* bound: calls made on the session
          None        \* the absent pipeline

ASSUME SegmentsAssumption == Segments \in Nat \ {0}
ASSUME CallsAssumption == MaxCalls \in Nat

NoIndex == -1
Pieces == Seq([index : Nat, whole : BOOLEAN])
VideoPipelines ==
  [soft : BOOLEAN, cpu : BOOLEAN, last : Nat \cup {NoIndex}, poisoned : BOOLEAN,
   created : Nat, reuses : Nat, resets : Nat, fed : Pieces]
AudioPipelines ==
  [completed : Nat \cup {NoIndex}, poisoned : BOOLEAN, fed : Pieces]

ASSUME NoneAssumption == None \notin VideoPipelines \cup AudioPipelines

VARIABLES cfg,        \* what open() fixed: mode, software, streaming
          pc,         \* where the current call stands
          req,        \* its operation, index, and segments left in its window
          video,      \* codec_pipeline, with fed: what its codecs consumed
          audio,      \* audio_pipeline, likewise
          retried,    \* this render already uses the software replacement
          outputs,    \* artifacts published for the current segment
          result,     \* what the last call returned
          cancelled,  \* the control is cancelled or past its deadline
          changed,    \* the source is no longer the one that was opened
          calls,      \* calls made
          built,      \* history: video backends ever created
          fallbacks,  \* history: software recoveries
          fault,      \* history: something failed outside the session's logic
          late        \* history: stopped or changed when what is about to be
                      \*   published was rendered

pipelines == <<video, audio, retried, built, fallbacks>>
progress == <<pc, result, fault>>
world == <<cancelled, changed>>
vars == <<cfg, pc, req, video, audio, retried, outputs, result, cancelled,
          changed, calls, built, fallbacks, fault, late>>

Kinds == {"init", "media"}
PcSet == {"idle", "probe", "render", "read", "video", "videoEnd", "recover",
          "rebuild", "audio", "audioEnd", "mux", "complete", "validate",
          "publishInit", "revalidate", "publishMedia"}

InPlan(r) ==
  /\ r.index <= Segments
  /\ r.left > 0 => r.op = "segment" /\ r.index + r.left < Segments

TypeOK ==
  /\ cfg \in [mode : {"copy", "h264"}, software : BOOLEAN, streaming : BOOLEAN]
  /\ pc \in PcSet
  /\ req \in [op : {"init", "segment", "start"}, index : Nat, left : Nat]
  /\ InPlan(req)
  /\ video \in VideoPipelines \cup {None}
  /\ audio \in AudioPipelines \cup {None}
  /\ retried \in BOOLEAN
  /\ outputs \in SUBSET Kinds
  /\ result \in {"none", "ok", "error"}
  /\ cancelled \in BOOLEAN /\ changed \in BOOLEAN
  /\ calls \in Nat /\ built \in Nat /\ fallbacks \in Nat
  /\ fault \in BOOLEAN /\ late \in BOOLEAN

-----------------------------------------------------------------------------
\* NativeVideoCodecPipeline::new_backend.
NewVideo(soft, cpu) ==
  [soft |-> soft, cpu |-> cpu, last |-> NoIndex, poisoned |-> FALSE,
   created |-> 1, reuses |-> 0, resets |-> 0, fed |-> <<>>]

\* Whether decoder and encoder may both run on the CPU: always in software-only
\* pipelines, otherwise where no hardware answers and the policy permits it.
CpuChoices(soft) == IF soft THEN {TRUE} ELSE {FALSE, cfg.software}

NewAudio == [completed |-> NoIndex, poisoned |-> FALSE, fed |-> <<>>]

Init ==
  /\ cfg \in [mode : {"copy", "h264"}, software : BOOLEAN, streaming : BOOLEAN]
  /\ video \in IF cfg.mode = "h264" THEN {NewVideo(FALSE, c) : c \in CpuChoices(FALSE)}
               ELSE {None}
  /\ audio = IF cfg.streaming THEN NewAudio ELSE None
  /\ pc = "idle" /\ req = [op |-> "init", index |-> 0, left |-> 0]
  /\ retried = FALSE /\ outputs = {} /\ result = "none"
  /\ cancelled = FALSE /\ changed = FALSE /\ calls = 0
  /\ built = IF cfg.mode = "h264" THEN 1 ELSE 0
  /\ fallbacks = 0 /\ fault = FALSE /\ late = FALSE

\* What codecs have consumed when they start on segment i, and complete it.
Submit(p, i) == [p EXCEPT !.fed = Append(p.fed, [index |-> i, whole |-> FALSE])]
Consume(p) ==
  [p EXCEPT !.fed = [p.fed EXCEPT ![Len(p.fed)] =
                       [index |-> p.fed[Len(p.fed)].index, whole |-> TRUE]]]
Follows(p, i) == p.fed = <<>> \/ p.fed[Len(p.fed)] = [index |-> i - 1, whole |-> TRUE]

Goto(l) == pc' = l /\ UNCHANGED <<result, fault>>

\* The call returns an error caused from outside, or by the session's own state.
Fail == pc' = "idle" /\ result' = "error" /\ fault' = TRUE
Refuse == pc' = "idle" /\ result' = "error" /\ UNCHANGED fault

\* WorkControl::check.
Check == ~cancelled

\* Slip: the source is not looked at again.
ValidBlind == Check

\* MediaSource::validate_current.
Valid == Check /\ ~changed

-----------------------------------------------------------------------------
\* Slip: a window may run one segment past the plan.
WindowLoose(i, n) == i + n <= Segments + 1

\* validate_segment_window.
Window(i, n) == i + n <= Segments

\* The host calls write_init, write_start, write_segment or write_segments.
Call ==
  /\ pc = "idle" /\ calls < MaxCalls
  /\ calls' = calls + 1 /\ outputs' = {} /\ late' = FALSE
  /\ \E op \in {"init", "segment", "start"}, i \in 0..Segments, n \in 1..Segments :
       /\ op = "init" => i = 0
       /\ n > 1 => op = "segment"
       /\ \/ /\ n = 1 \/ Window(i, n)
             /\ req' = [op |-> op, index |-> i, left |-> n - 1]
             /\ pc' = "probe" /\ result' = "none" /\ fault' = FALSE
          \/ /\ n > 1 /\ ~Window(i, n)
             /\ pc' = "idle" /\ result' = "error" /\ fault' = TRUE
             /\ UNCHANGED req
  /\ UNCHANGED <<cfg, pipelines, world>>

\* validate_output_cache: the control, then a probe of a new output directory.
Probe ==
  /\ pc = "probe"
  /\ \/ Check /\ Goto("render")
     \/ Fail
  /\ UNCHANGED <<cfg, req, pipelines, outputs, world, calls, late>>

\* Slip: only a failure, not a jump, gives the audio a new pipeline.
PreparedAudioStale(a, i) ==
  IF a = None THEN None
  ELSE [(IF a.poisoned THEN NewAudio ELSE a) EXCEPT !.poisoned = TRUE]

\* AudioPipeline::prepare; poisoned until this segment is complete.
PreparedAudio(a, i) ==
  IF a = None THEN None
  ELSE [(IF a.poisoned \/ (a.completed # NoIndex /\ a.completed + 1 # i)
         THEN NewAudio ELSE a) EXCEPT !.poisoned = TRUE]

\* Slip: a pipeline that failed in the middle of a segment is used again.
ReusableAnyway(v, i) == v.last = NoIndex \/ v.last + 1 = i

\* NativeVideoCodecPipeline::prepare_for keeps the codecs of v for segment i.
Reusable(v, i) == ~v.poisoned /\ (v.last = NoIndex \/ v.last + 1 = i)

Reused(v) == [v EXCEPT !.poisoned = TRUE, !.reuses = @ + (IF v.last = NoIndex THEN 0 ELSE 1)]

\* Slip: the counters start again with every new backend.
ReplacedAnew(v, n) == [n EXCEPT !.poisoned = TRUE]

\* A new backend n takes the place of v and carries its counters on.
Replaced(v, n) ==
  [n EXCEPT !.poisoned = TRUE, !.created = v.created + 1, !.reuses = v.reuses,
            !.resets = v.resets + 1]

\* Up to the submission of packets; a backend that cannot be created leaves the
\* audio pipeline prepared and the video pipeline as it was.
PrepareVideo ==
  IF video = None THEN Goto("read") /\ UNCHANGED <<video, built>>
  ELSE IF Reusable(video, req.index)
  THEN Goto("read") /\ video' = Reused(video) /\ UNCHANGED built
  ELSE \/ /\ \E c \in CpuChoices(video.soft) :
               video' = Replaced(video, NewVideo(video.soft, c))
          /\ built' = built + 1 /\ Goto("read")
       \/ Fail /\ UNCHANGED <<video, built>>

Closed == cfg.mode = "h264" /\ video = None

\* render(): validation, then both pipelines are prepared, the audio first.
Render ==
  /\ pc = "render"
  /\ retried' = FALSE
  /\ IF ~Valid THEN Fail /\ UNCHANGED <<video, audio, built>>
     ELSE IF Closed THEN Refuse /\ UNCHANGED <<video, audio, built>>
     ELSE audio' = PreparedAudio(audio, req.index) /\ PrepareVideo
  /\ UNCHANGED <<cfg, req, outputs, world, calls, fallbacks, late>>

\* transcode_prepared_segment: payloads are read, validated before and after.
Read ==
  /\ pc = "read"
  /\ \/ req.index < Segments /\ Valid /\ Goto("video")
     \/ Fail
  /\ UNCHANGED <<cfg, req, pipelines, outputs, world, calls, late>>

\* The first batch reaches the codecs; a copied track has none.
FeedVideo ==
  /\ pc = "video"
  /\ IF video = None THEN Goto("videoEnd") /\ UNCHANGED video
     ELSE \/ Check /\ video' = Submit(video, req.index) /\ Goto("videoEnd")
          \/ Fail /\ UNCHANGED video
  /\ UNCHANGED <<cfg, req, audio, retried, outputs, world, calls, built, fallbacks, late>>

\* Slip: the policy is not asked.
EligibleAnyPolicy(v) == ~v.soft /\ ~v.cpu

\* A failed backend, neither software-only nor already on the CPU, may be replaced.
Eligible(v) == ~v.soft /\ cfg.software /\ ~v.cpu

\* The remaining batches, a stop between two of them, or a failure: only one
\* reported by a backend, on the first attempt, is recovered from.
EndVideo ==
  /\ pc = "videoEnd"
  /\ \/ (video = None \/ Check) /\ Goto("audio")
        /\ video' = IF video = None THEN None ELSE Consume(video)
     \/ Fail /\ UNCHANGED video
     \/ /\ video # None /\ ~retried /\ Eligible(video)
        /\ Goto("recover") /\ UNCHANGED video
  /\ UNCHANGED <<cfg, req, audio, retried, outputs, world, calls, built, fallbacks, late>>

\* The partially advanced pipelines are dropped, unless the control stops it.
Recover ==
  /\ pc = "recover"
  /\ IF Check THEN Goto("rebuild") ELSE Fail
  /\ UNCHANGED <<cfg, req, pipelines, outputs, world, calls, late>>

\* Slip: the audio pipeline is not created again.
RebuiltAudioNone(i) == None

RebuiltAudio(i) == PreparedAudio(IF cfg.streaming THEN NewAudio ELSE None, i)

\* One software-only replacement, where the policy permits it; when it cannot be
\* created both pipelines stay closed.
Rebuild ==
  /\ pc = "rebuild"
  /\ \/ /\ cfg.software
        /\ video' = Replaced(video, NewVideo(TRUE, TRUE))
        /\ audio' = RebuiltAudio(req.index)
        /\ built' = built + 1 /\ fallbacks' = fallbacks + 1 /\ retried' = TRUE
        /\ Goto("read")
     \/ /\ video' = None /\ audio' = None
        /\ Fail /\ UNCHANGED <<built, fallbacks, retried>>
  /\ UNCHANGED <<cfg, req, outputs, world, calls, late>>

\* AudioPipeline::render, packet by packet.  A pipeline that has not decoded the
\* previous segment to its end misses PCM: "gap requires a new discontinuity".
FeedAudio ==
  /\ pc = "audio"
  /\ IF audio = None THEN Goto("audioEnd") /\ UNCHANGED audio
     ELSE \/ /\ Check /\ audio' = Submit(audio, req.index)
             /\ IF Follows(audio, req.index) THEN Goto("audioEnd") ELSE Refuse
          \/ Fail /\ UNCHANGED audio
  /\ UNCHANGED <<cfg, req, video, retried, outputs, world, calls, built, fallbacks, late>>

EndAudio ==
  /\ pc = "audioEnd"
  /\ \/ /\ Goto("mux")
        /\ IF audio = None THEN UNCHANGED audio ELSE Check /\ audio' = Consume(audio)
     \/ Fail /\ UNCHANGED audio
  /\ UNCHANGED <<cfg, req, video, retried, outputs, world, calls, built, fallbacks, late>>

\* Fragment assembly, after both tracks have advanced.
Mux ==
  /\ pc = "mux"
  /\ Goto("complete") \/ Fail
  /\ UNCHANGED <<cfg, req, pipelines, outputs, world, calls, late>>

\* The audio completes first; a stop then leaves the video poisoned.
Complete ==
  /\ pc = "complete"
  /\ audio' = IF audio = None THEN None
              ELSE [audio EXCEPT !.completed = req.index, !.poisoned = FALSE]
  /\ IF Check
     THEN /\ video' = IF video = None THEN None
                      ELSE [video EXCEPT !.last = req.index, !.poisoned = FALSE]
          /\ Goto("validate")
     ELSE UNCHANGED video /\ Fail
  /\ late' = (cancelled \/ changed)
  /\ UNCHANGED <<cfg, req, retried, outputs, world, calls, built, fallbacks>>

Validate ==
  /\ pc = "validate"
  /\ IF Valid THEN Goto(IF req.op = "segment" THEN "publishMedia" ELSE "publishInit")
     ELSE Fail
  /\ UNCHANGED <<cfg, req, pipelines, outputs, world, calls, late>>

\* The call is done; write_segments goes on to its next segment.
Return ==
  /\ IF req.left = 0
     THEN pc' = "idle" /\ result' = "ok" /\ UNCHANGED <<req, fault>>
     ELSE Goto("probe") /\ req' = [req EXCEPT !.index = @ + 1, !.left = @ - 1]

\* publish_bytes of the init segment; write_start validates once more after it.
\* A publication that fails may still have put the artifact in place.
PublishInit ==
  /\ pc = "publishInit"
  /\ \/ /\ outputs' = outputs \cup {"init"}
        /\ IF req.op = "init" THEN Return ELSE Goto("revalidate") /\ UNCHANGED req
     \/ outputs' \in {outputs, outputs \cup {"init"}} /\ Fail /\ UNCHANGED req
  /\ late' = (cancelled \/ changed)
  /\ UNCHANGED <<cfg, pipelines, world, calls>>

Revalidate ==
  /\ pc = "revalidate"
  /\ IF Valid THEN Goto("publishMedia") ELSE Fail
  /\ UNCHANGED <<cfg, req, pipelines, outputs, world, calls, late>>

PublishMedia ==
  /\ pc = "publishMedia"
  /\ \/ outputs' = outputs \cup {"media"} /\ Return
     \/ outputs' \in {outputs, outputs \cup {"media"}} /\ Fail /\ UNCHANGED req
  /\ UNCHANGED <<cfg, pipelines, world, calls, late>>

\* The owner stops the control, its deadline passes, or the file is replaced.
Stop ==
  /\ ~cancelled /\ cancelled' = TRUE
  /\ UNCHANGED <<cfg, req, pipelines, progress, outputs, changed, calls, late>>

Replace ==
  /\ ~changed /\ changed' = TRUE
  /\ UNCHANGED <<cfg, req, pipelines, progress, outputs, cancelled, calls, late>>

\* The host makes no more calls than the bound allows.
Done == pc = "idle" /\ calls = MaxCalls /\ UNCHANGED vars

Next ==
  \/ Call \/ Probe \/ Render \/ Read \/ FeedVideo \/ EndVideo \/ Recover \/ Rebuild
  \/ FeedAudio \/ EndAudio \/ Mux \/ Complete \/ Validate \/ PublishInit
  \/ Revalidate \/ PublishMedia \/ Stop \/ Replace \/ Done

Spec == Init /\ [][Next]_vars

-----------------------------------------------------------------------------
\* Retained codecs only ever see consecutive segments, each one to its end
\* before the next: no jump, failure, stop or recovery mixes their state.
Continuous(fed) ==
  \A i \in 2..Len(fed) : fed[i - 1].whole /\ fed[i].index = fed[i - 1].index + 1
CleanReuse ==
  /\ video # None => Continuous(video.fed)
  /\ audio # None => Continuous(audio.fed)

\* A session falls back to software once at most, for good, and only where the
\* policy permits it; a session that may not is never closed by a failure.
FallbackDiscipline ==
  /\ fallbacks <= 1
  /\ fallbacks = 1 \/ Closed => cfg.software
  /\ video # None => (video.soft <=> fallbacks = 1)

\* A session opened for streaming audio never renders without its pipeline, on
\* the other path of native_audio_segment: it is closed when the pipeline is gone.
StreamingKept == cfg.streaming /\ audio = None => Closed

\* While a video pipeline exists its counters tell the backends created, over
\* resets, failed resets and the recovery, which count as resets.
StatsAddUp == video # None => video.created = built /\ video.resets = built - 1

\* An error has a cause outside the session in the very call that reports it,
\* or a failed recovery closed the session: an earlier failure wedges nothing.
NoWedge == result = "error" => fault \/ Closed

\* What is published was rendered from all of the asked segment on both tracks,
\* and neither a stop nor a replacement of the source preceded its rendering's
\* end or, for write_start's media, the publication of its init.
EndsWith(p, i) ==
  p # None => p.fed # <<>> /\ p.fed[Len(p.fed)] = [index |-> i, whole |-> TRUE]
PublishedRendered ==
  [][outputs' \ outputs # {} =>
       ~late /\ EndsWith(video, req.index) /\ EndsWith(audio, req.index)]_vars
=============================================================================
