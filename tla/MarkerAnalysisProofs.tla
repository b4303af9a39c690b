------------------------ MODULE MarkerAnalysisProofs ------------------------
(***************************************************************************)
(* Evidence is bound to its source, for any files, calls and changes, but  *)
(* for versions that were replaced and came back to the path.  A version   *)
(* that was seen at the path is still there or has been replaced, so two   *)
(* looks that agree enclose no change, and what was read between them came *)
(* from the version they saw, unless it is one that came back.  What one   *)
(* call may trust of another is only what the entries hold.                *)
(***************************************************************************)
EXTENDS MarkerAnalysis, SequenceTheorems, TLAPS

EvidenceType ==
  [complete : BOOLEAN, samples : Seq(SUBSET Versions), refined : SUBSET Versions,
   tables : Versions]
SourceType == [open : BOOLEAN, id : Versions, tables : Versions]
AudioPoints == {"identify", "lookup", "capture", "publish", "confirm"}
OpenPoints == {"file", "tables", "opened"}
VisualPoints == {"read", "loaded", "scan", "write", "writing", "written", "refine",
                 "save", "saving", "saved"}
Points == {"idle", "probe", "stamp", "after", "ok"} \cup AudioPoints \cup OpenPoints
            \cup VisualPoints
CallType ==
  [pc : Points, todo : SUBSET Detectors, before : Versions, key : Versions,
   source : SourceType, evidence : EvidenceType, made : SUBSET Versions]

\* A version that was replaced at the path.
Gone(v) == v \in left

\* What capture finds in a version that does not change.
Captured(v) == [complete |-> TRUE, samples |-> <<{v}>>, refined |-> {}, tables |-> v]

\* What calls may find in an entry of the audio detector.
Honest(e, k) == e = Captured(k) \/ CameBack({k} \cup Sources(e))

Audible(l) == "audio" \in l.todo
Looking(l) == l.pc \in VisualPoints \/ (l.pc \in OpenPoints /\ ~Audible(l))
\* The points at which the visual detector has evidence it means to keep.
Keeping(l) ==
  \/ l.pc \in VisualPoints \ {"read"}
  \/ l.pc \in OpenPoints /\ ~Audible(l) /\ l.evidence.complete

\* What an open source, the two detectors and the call itself may rely on.
Opens(l) ==
  /\ l.pc \in {"tables", "opened", "scan", "write", "writing", "written"} \cup AudioPoints =>
       l.source.open
  /\ l.pc \in {"idle", "probe", "stamp"} => ~l.source.open
  /\ l.source.open =>
       Gone(l.source.id) \/ (l.source.id = Current /\ l.source.tables = Current)
Hears(l) ==
  /\ l.pc \in AudioPoints => Audible(l)
  /\ l.pc \in AudioPoints \ {"identify"} =>
       Gone(l.source.id) \/ (l.source.id = Current /\ l.key = l.source.id)
  /\ l.pc \in {"publish", "confirm"} => Honest(l.evidence, l.key)
Sees(l) ==
  /\ l.pc \in VisualPoints \cup {"stamp"} => ~Audible(l)
  /\ ~Audible(l) /\ l.evidence.complete => Len(l.evidence.samples) = Keyframes
  /\ Looking(l) => Gone(l.key) \/ (l.key = Current /\ (l.source.open => l.source.id = l.key))
  /\ Keeping(l) => Gone(l.key) \/ Only(l.key, Sources(l.evidence))
  /\ l.pc \in {"writing", "saving"} => Only(l.key, Sources(l.evidence))
Makes(l) ==
  /\ l.pc \notin {"idle", "ok"} =>
       Gone(l.before) \/ (l.before = Current /\ Only(l.before, l.made))
  /\ l.pc = "ok" => Only(l.before, l.made)
Sound(l) == l \in CallType /\ Opens(l) /\ Hears(l) /\ Sees(l) /\ Makes(l)

WorldOK ==
  /\ path \in Inodes /\ stamps \in [Inodes -> Nat]
  /\ Gone(Current) => Current \in back
AcousticOK ==
  \A k \in DOMAIN acoustic :
    k \in Versions /\ acoustic[k] \in EvidenceType /\ Honest(acoustic[k], k)
VisualOK ==
  \A k \in DOMAIN visual :
    /\ k \in Versions /\ visual[k] \in EvidenceType
    /\ Only(k, Sources(visual[k]))
    /\ visual[k].complete => Len(visual[k].samples) = Keyframes

IInv ==
  /\ WorldOK /\ AcousticOK /\ VisualOK
  /\ DOMAIN call = Calls
  /\ \A c \in Calls : Sound(call[c])

-----------------------------------------------------------------------------
(***************************************************************************)
(* Evidence.                                                               *)
(***************************************************************************)
\* What it is for evidence to come from one version.
LEMMA SourcesOfOne ==
  ASSUME NEW e, NEW k
  PROVE  Sources(e) \subseteq {k} <=>
           /\ \A n \in DOMAIN e.samples : e.samples[n] \subseteq {k}
           /\ e.refined \subseteq {k} /\ e.tables = k
<1> DEFINE U == {e.samples[n] : n \in DOMAIN e.samples}
<1>1. UNION U \subseteq {k} <=> \A n \in DOMAIN e.samples : e.samples[n] \subseteq {k}
  <2>1. UNION U \subseteq {k} <=> \A x \in U : x \subseteq {k}
    <3> HIDE DEF U
    <3>1. QED
      OBVIOUS
  <2>2. (\A x \in U : x \subseteq {k}) <=> \A n \in DOMAIN e.samples : e.samples[n] \subseteq {k}
    OBVIOUS
  <2>3. QED
    BY <2>1, <2>2
<1>2. Sources(e) \subseteq {k}
        <=> UNION U \subseteq {k} /\ e.refined \subseteq {k} /\ e.tables = k
  <2> DEFINE V == UNION U
  <2>1. Sources(e) = V \cup e.refined \cup {e.tables}
    BY DEF Sources
  <2> HIDE DEF V
  <2>2. Sources(e) \subseteq {k} <=> V \subseteq {k} /\ e.refined \subseteq {k} /\ e.tables = k
    BY <2>1
  <2>3. QED
    BY <2>2 DEF V
<1>3. QED
  BY <1>1, <1>2

LEMMA FreshSources ==
  ASSUME NEW v \in Versions
  PROVE  /\ Fresh(v) \in EvidenceType /\ ~Fresh(v).complete
         /\ Sources(Fresh(v)) \subseteq {v}
<1> DEFINE e == [complete |-> FALSE, samples |-> <<>>, refined |-> {}, tables |-> v]
<1>1. Fresh(v) = e
  BY DEF Fresh
<1>2. e \in EvidenceType /\ ~e.complete
  BY DEF EvidenceType
<1>3. (\A n \in DOMAIN e.samples : e.samples[n] \subseteq {v}) /\ e.refined \subseteq {v}
      /\ e.tables = v
  OBVIOUS
<1> HIDE DEF e
<1>4. Sources(e) \subseteq {v}
  BY <1>3, SourcesOfOne
<1>5. QED
  BY <1>1, <1>2, <1>4

LEMMA CapturedSources ==
  ASSUME NEW v \in Versions
  PROVE  Captured(v) \in EvidenceType /\ Sources(Captured(v)) \subseteq {v}
<1>1. Captured(v) \in EvidenceType
  BY DEF EvidenceType, Captured
<1>2. /\ \A n \in DOMAIN Captured(v).samples : Captured(v).samples[n] \subseteq {v}
      /\ Captured(v).refined \subseteq {v} /\ Captured(v).tables = v
  BY DEF Captured
<1>3. QED
  BY <1>1, <1>2, SourcesOfOne

LEMMA SourcesAre ==
  ASSUME NEW e, NEW v
  PROVE  v \in Sources(e) <=>
           (\E n \in DOMAIN e.samples : v \in e.samples[n]) \/ v \in e.refined \/ v = e.tables
<1>1. v \in UNION {e.samples[n] : n \in DOMAIN e.samples}
        <=> \E n \in DOMAIN e.samples : v \in e.samples[n]
  OBVIOUS
<1>2. QED
  BY <1>1 DEF Sources

LEMMA SourcesType ==
  ASSUME NEW e \in EvidenceType
  PROVE  Sources(e) \in SUBSET Versions
<1>1. ASSUME NEW v \in Sources(e) PROVE v \in Versions
  <2>1. (\E n \in DOMAIN e.samples : v \in e.samples[n]) \/ v \in e.refined \/ v = e.tables
    BY SourcesAre
  <2>2. e.samples \in Seq(SUBSET Versions) /\ e.refined \subseteq Versions /\ e.tables \in Versions
    BY DEF EvidenceType
  <2>3. \A n \in DOMAIN e.samples : e.samples[n] \subseteq Versions
    BY <2>2
  <2>4. QED
    BY <2>1, <2>2, <2>3
<1>2. QED
  BY <1>1

\* One more keyframe.
LEMMA SampleSources ==
  ASSUME NEW e \in EvidenceType, NEW s \in SUBSET Versions
  PROVE  LET next == [e EXCEPT !.samples = Append(@, s)]
         IN  /\ next \in EvidenceType
             /\ Len(next.samples) = Len(e.samples) + 1 /\ next.complete = e.complete
             /\ Sources(next) = Sources(e) \cup s
<1> DEFINE next == [e EXCEPT !.samples = Append(@, s)]
<1>1. e.samples \in Seq(SUBSET Versions) /\ next.samples = Append(e.samples, s)
      /\ next.refined = e.refined /\ next.tables = e.tables /\ next.complete = e.complete
  BY DEF EvidenceType
<1>2. next \in EvidenceType
  BY <1>1, SMTT(30) DEF EvidenceType
<1>3. Len(next.samples) = Len(e.samples) + 1
  BY <1>1
<1>4. ASSUME NEW v PROVE v \in Sources(next) <=> v \in Sources(e) \/ v \in s
  <2>1. (\E n \in DOMAIN next.samples : v \in next.samples[n])
          <=> (\E n \in DOMAIN e.samples : v \in e.samples[n]) \/ v \in s
    <3>1. /\ DOMAIN e.samples = 1 .. Len(e.samples) /\ Len(e.samples) \in Nat
          /\ DOMAIN next.samples = 1 .. Len(e.samples) + 1
          /\ \A n \in 1 .. Len(e.samples) : next.samples[n] = e.samples[n]
          /\ next.samples[Len(e.samples) + 1] = s
      BY <1>1
    <3> HIDE DEF next
    <3>2. QED
      BY <3>1
  <2> HIDE DEF next
  <2>2. QED
    BY <1>1, <2>1, SourcesAre
<1>5. QED
  BY <1>1, <1>2, <1>3, <1>4

\* Sources that are only of one version, unless one of them came back.
LEMMA OnlyTogether ==
  ASSUME NEW v, NEW S, NEW T, Only(v, S), Only(v, T)
  PROVE  Only(v, S \cup T)
BY DEF Only, CameBack

LEMMA OnlyCameBack ==
  ASSUME NEW v, NEW S, v \in back
  PROVE  Only(v, S)
BY DEF Only, CameBack

LEMMA HonestIsOnly ==
  ASSUME NEW e, NEW k \in Versions, Honest(e, k)
  PROVE  Only(k, Sources(e))
BY CapturedSources DEF Honest, Only, CameBack

-----------------------------------------------------------------------------
(***************************************************************************)
(* The world.                                                              *)
(***************************************************************************)
LEMMA CurrentIsHere ==
  ASSUME WorldOK
  PROVE  Current \in Versions /\ (Gone(Current) => Current \in back)
BY DEF WorldOK, Current, Version, Versions

\* What was said of the current version, or of one that was replaced, is said of
\* one that was replaced; a current version that was replaced before came back.
LEMMA WorldMoves ==
  ASSUME WorldOK, WorldStep
  PROVE  /\ WorldOK' /\ left \subseteq left' /\ back \subseteq back'
         /\ \A v : Gone(v) \/ v = Current => Gone(v)' \/ (v = Current' /\ Current' = Current)
<1>1. CASE Replaced /\ path' \in Inodes /\ stamps' \in [Inodes -> Nat]
  BY <1>1 DEF Replaced, WorldOK, Gone
<1>2. CASE Rename
  BY <1>1, <1>2 DEF Rename, WorldOK
<1>3. ASSUME NEW i \in Inodes, WriteInPlace(i) PROVE WorldOK' /\ left \subseteq left'
         /\ back \subseteq back'
         /\ \A v : Gone(v) \/ v = Current => Gone(v)' \/ (v = Current' /\ Current' = Current)
  <2>1. stamps' \in [Inodes -> Nat] /\ path' = path /\ path' \in Inodes
        /\ (i # path => stamps'[path] = stamps[path])
    BY <1>3 DEF WriteInPlace, WorldOK
  <2>2. CASE i = path
    BY <1>1, <1>3, <2>1, <2>2 DEF WriteInPlace
  <2>3. CASE i # path
    <3>1. Current' = Current /\ UNCHANGED <<left, back>>
      BY <1>3, <2>1, <2>3 DEF WriteInPlace, Current, Version
    <3>2. QED
      BY <2>1, <3>1 DEF WorldOK, Gone
  <2>4. QED
    BY <2>2, <2>3
<1>4. QED
  BY <1>2, <1>3 DEF WorldStep

\* What is sound about a call stays so when the world moves.
LEMMA SoundStays ==
  ASSUME WorldOK, WorldStep, NEW l, Sound(l)
  PROVE  Sound(l)'
<1>1. l \in CallType /\ l.source.id \in Versions /\ l.source.tables \in Versions
      /\ l.key \in Versions /\ l.before \in Versions
  BY DEF Sound, CallType, SourceType
<1>2. /\ \A v : v \in left => v \in left'
      /\ \A v : v = Current => v \in left' \/ (v = Current' /\ Current' = Current)
  BY WorldMoves DEF Gone
<1>3. \A v : v \in back => v \in back'
  BY WorldMoves
<1>4. Opens(l)'
  BY <1>1, <1>2 DEF Sound, Opens, Gone
<1>5. Hears(l)'
  BY <1>1, <1>2, <1>3 DEF Sound, Hears, Gone, Only, Honest, CameBack
<1>6. Sees(l)'
  BY <1>1, <1>2, <1>3 DEF Sound, Sees, Gone, Only, Honest, CameBack
<1>7. Makes(l)'
  BY <1>1, <1>2, <1>3 DEF Sound, Makes, Gone, Only, Honest, CameBack
<1>8. QED
  BY <1>1, <1>4, <1>5, <1>6, <1>7 DEF Sound

LEMMA WorldSteps ==
  ASSUME IInv, WorldStep
  PROVE  IInv'
<1>1. UNCHANGED <<acoustic, visual, call>>
  BY DEF WorldStep, Rename, WriteInPlace, Change
<1>2. WorldOK /\ WorldOK' /\ back \subseteq back'
  BY WorldMoves DEF IInv
<1>3. AcousticOK' /\ VisualOK'
  <2>1. /\ \A v, S : Only(v, S) => Only(v, S)'
        /\ \A e, k : Honest(e, k) => Honest(e, k)'
    BY <1>2 DEF Only, Honest, CameBack
  <2>2. QED
    BY <1>1, <2>1 DEF IInv, AcousticOK, VisualOK
<1>4. ASSUME NEW c \in Calls PROVE Sound(call[c])'
  <2>1. \A l : Sound(l) => Sound(l)'
    BY <1>2, SoundStays
  <2>2. call'[c] = call[c]
    BY <1>1
  <2>3. QED
    BY <2>1, <2>2 DEF IInv
<1>5. QED
  BY <1>1, <1>2, <1>3, <1>4 DEF IInv

-----------------------------------------------------------------------------
(***************************************************************************)
(* One call moves.                                                         *)
(***************************************************************************)
LEMMA OneCallMoves ==
  ASSUME IInv, UNCHANGED world, AcousticOK', VisualOK', NEW c \in Calls,
         NEW next, Becomes(c, next), Sound(next)
  PROVE  IInv'
<1>1. WorldOK' /\ DOMAIN call' = Calls
  BY DEF IInv, WorldOK, world, Becomes, Gone, Current, Version
<1>2. \A l : Sound(l) => Sound(l)'
  BY DEF world, Sound, Opens, Hears, Sees, Makes, Gone, Current, Version, Only, Honest, CameBack
<1>3. ASSUME NEW d \in Calls PROVE Sound(call[d])'
  <2>1. CASE d = c
    <3>1. call'[d] = next
      BY <2>1 DEF IInv, Becomes
    <3>2. QED
      BY <1>2, <3>1
  <2>2. CASE d # c
    <3>1. call'[d] = call[d]
      BY <2>2 DEF IInv, Becomes
    <3>2. QED
      BY <1>2, <3>1 DEF IInv
  <2>3. QED
    BY <2>1, <2>2
<1>4. QED
  BY <1>1, <1>3 DEF IInv

LEMMA KeepsEntries ==
  ASSUME IInv, NEW c \in Calls, NEW next, Becomes(c, next), Keeps, Sound(next)
  PROVE  IInv'
<1>1. AcousticOK' /\ VisualOK' /\ UNCHANGED world
  BY DEF IInv, Keeps, world, AcousticOK, VisualOK, Only, Honest, CameBack
<1>2. QED
  BY <1>1, OneCallMoves

-----------------------------------------------------------------------------
(***************************************************************************)
(* analyze.                                                                *)
(***************************************************************************)
LEMMA NoCallSound ==
  ASSUME WorldOK
  PROVE  NoCall \in CallType /\ Sound(NoCall)
<1>1. NoVersion \in Versions
  BY DEF WorldOK, NoVersion, Versions
<1>2. NoSource \in SourceType /\ ~NoSource.open
  BY <1>1 DEF NoSource, SourceType
<1>3. NoCall \in CallType
  BY <1>1, <1>2, FreshSources DEF NoCall, CallType, Points
<1>4. NoCall.pc = "idle" /\ NoCall.source = NoSource /\ NoCall.made = {}
      /\ ~NoCall.evidence.complete
  BY <1>1, FreshSources DEF NoCall
<1>5. Opens(NoCall) /\ Hears(NoCall) /\ Sees(NoCall) /\ Makes(NoCall)
  BY <1>2, <1>4
     DEF Opens, Hears, Sees, Makes, Keeping, Looking, AudioPoints, VisualPoints, OpenPoints
<1>6. QED
  BY <1>3, <1>5 DEF Sound

\* A detector is done, and what it found came from the source of the call.
LEMMA DetectedSound ==
  ASSUME WorldOK, NEW c \in Calls, Sound(call[c]), call[c].pc \notin {"idle", "ok"},
         NEW from \in SUBSET Versions,
         Gone(call[c].before) \/ Only(call[c].before, from)
  PROVE  Sound(Detected(c, from))
<1> DEFINE l == call[c]
           todo == l.todo \ {IF Listening(c) THEN "audio" ELSE "visual"}
           next == [l EXCEPT !.pc = Starts(todo), !.todo = todo, !.made = @ \cup from,
                             !.key = NoVersion, !.source = NoSource,
                             !.evidence = Fresh(NoVersion)]
<1>1. l \in CallType /\ NoVersion \in Versions /\ NoSource \in SourceType
      /\ NoSource.open = FALSE
  BY NoCallSound DEF Sound, CallType, NoCall, WorldOK, NoVersion, Versions, NoSource, SourceType
<1>2. Detected(c, from) = next
  BY DEF Detected
<1>3. /\ Starts(todo) \in {"after", "file", "stamp"}
      /\ Starts(todo) = "file" => "audio" \in todo
      /\ Starts(todo) = "stamp" => "audio" \notin todo
  BY DEF Starts
<1>4. todo \subseteq Detectors /\ l.before \in Versions /\ l.made \in SUBSET Versions
  BY <1>1 DEF CallType
<1>5. Fresh(NoVersion) \in EvidenceType /\ ~Fresh(NoVersion).complete
  BY <1>1, FreshSources
<1> HIDE DEF todo
<1>6. next \in CallType
  BY <1>1, <1>3, <1>4, <1>5 DEF CallType, Points, OpenPoints
<1>7. /\ next.pc = Starts(todo) /\ next.todo = todo /\ next.before = l.before
      /\ next.key = NoVersion /\ next.source = NoSource
      /\ next.evidence = Fresh(NoVersion) /\ next.made = l.made \cup from
  BY <1>1 DEF CallType
<1> HIDE DEF next
<1>8. Opens(next)
  BY <1>1, <1>3, <1>7 DEF Opens, AudioPoints
<1>9. Hears(next)
  BY <1>3, <1>7 DEF Hears, AudioPoints
<1>10. Sees(next)
  BY <1>3, <1>5, <1>7 DEF Sees, VisualPoints, OpenPoints, Audible, Looking, Keeping
<1>11. Makes(next)
  BY <1>3, <1>7, OnlyTogether DEF Sound, Makes
<1>12. QED
  BY <1>2, <1>6, <1>8, <1>9, <1>10, <1>11 DEF Sound

LEMMA AnalyzeSteps ==
  ASSUME IInv, NEW c \in Calls,
         \/ \E detectors \in SUBSET Detectors : Begin(c, detectors)
         \/ Probe(c) \/ GiveUp(c) \/ After(c) \/ Leave(c)
  PROVE  IInv'
<1> DEFINE l == call[c]
<1>1. WorldOK /\ Sound(l) /\ l \in CallType /\ Opens(l) /\ Hears(l) /\ Sees(l) /\ Makes(l)
  BY DEF IInv, Sound
<1>2. Current \in Versions /\ (Gone(Current) => Current \in back)
  BY <1>1, CurrentIsHere
<1>3. ASSUME NEW detectors \in SUBSET Detectors, Begin(c, detectors) PROVE IInv'
  <2> DEFINE next == [NoCall EXCEPT !.pc = "probe", !.todo = detectors, !.before = Current]
  <2>1. NoCall \in CallType /\ NoVersion \in Versions
    BY <1>1, NoCallSound DEF CallType, WorldOK, NoVersion, Versions
  <2>2. /\ next.pc = "probe" /\ next.source = NoSource /\ ~NoSource.open /\ next.made = {}
        /\ next.before = Current /\ ~next.evidence.complete
    BY <2>1, FreshSources DEF NoCall, NoSource
  <2>3. next \in CallType
    BY <1>2, <2>1 DEF CallType, Points
  <2> HIDE DEF next
  <2>4. Sound(next)
    BY <2>2, <2>3 DEF Sound, Opens, Hears, Sees, Makes, AudioPoints, VisualPoints,
       OpenPoints, Looking, Keeping, Only
  <2>5. AcousticOK' /\ VisualOK' /\ UNCHANGED world /\ Becomes(c, next)
    BY <1>3 DEF Begin, IInv, world, AcousticOK, VisualOK, Only, Honest, CameBack, next
  <2>6. QED
    BY <2>4, <2>5, OneCallMoves
<1>4. CASE Probe(c)
  <2> DEFINE next == [l EXCEPT !.pc = Starts(l.todo), !.made = {Current}]
  <2>1. /\ Starts(l.todo) \in {"after", "file", "stamp"}
        /\ Starts(l.todo) = "file" => "audio" \in l.todo
        /\ Starts(l.todo) = "stamp" => "audio" \notin l.todo
    BY DEF Starts
  <2>2. /\ next.pc = Starts(l.todo) /\ next.made = {Current} /\ next.todo = l.todo
        /\ next.before = l.before /\ next.key = l.key /\ next.source = l.source
        /\ next.evidence = l.evidence
    BY <1>1 DEF CallType
  <2>3. next \in CallType
    BY <1>1, <1>2, <2>1 DEF CallType, Points, OpenPoints
  <2>4. l.pc = "probe" /\ Becomes(c, next) /\ Keeps
    BY <1>4 DEF Probe, At
  <2> HIDE DEF next
  <2>5. Opens(next)
    BY <1>1, <2>1, <2>2, <2>4 DEF Opens, AudioPoints
  <2>6. Hears(next)
    BY <2>1, <2>2 DEF Hears, AudioPoints
  <2>7. Sees(next)
    BY <1>1, <2>1, <2>2 DEF Sees, VisualPoints, OpenPoints, Audible, Looking, Keeping
  <2>8. Makes(next)
    BY <1>1, <2>1, <2>2, <2>4 DEF Makes, Only
  <2>9. QED
    BY <2>3, <2>4, <2>5, <2>6, <2>7, <2>8, KeepsEntries DEF Sound
<1>5. CASE GiveUp(c)
  <2>1. Sound(Detected(c, {}))
    BY <1>1, <1>5, DetectedSound DEF GiveUp, Only
  <2>2. QED
    BY <1>5, <2>1, KeepsEntries DEF GiveUp
<1>6. CASE After(c)
  <2> DEFINE next == [l EXCEPT !.pc = "ok"]
  <2>1. /\ next.pc = "ok" /\ next.made = l.made /\ next.todo = l.todo
        /\ next.before = l.before /\ next.key = l.key /\ next.source = l.source
        /\ next.evidence = l.evidence
    BY <1>1 DEF CallType
  <2>2. next \in CallType
    BY <1>1 DEF CallType, Points
  <2>3. l.pc = "after" /\ Current = l.before /\ Becomes(c, next) /\ Keeps
    BY <1>6 DEF After, At, Goto
  <2> HIDE DEF next
  <2>4. Opens(next) /\ Hears(next) /\ Sees(next)
    BY <1>1, <2>1 DEF Opens, Hears, Sees, AudioPoints, VisualPoints, OpenPoints, Audible,
       Looking, Keeping
  <2>5. Makes(next)
    BY <1>1, <1>2, <2>1, <2>3, OnlyCameBack DEF Makes
  <2>6. QED
    BY <2>2, <2>3, <2>4, <2>5, KeepsEntries DEF Sound
<1>7. CASE Leave(c)
  BY <1>1, <1>7, NoCallSound, KeepsEntries DEF Leave
<1>8. QED
  BY <1>3, <1>4, <1>5, <1>6, <1>7

-----------------------------------------------------------------------------
(***************************************************************************)
(* Opening a source.                                                       *)
(***************************************************************************)
LEMMA OpeningSteps ==
  ASSUME IInv, NEW c \in Calls, OpenFile(c) \/ ReadTables(c) \/ Opened(c)
  PROVE  IInv'
<1> DEFINE l == call[c]
<1>1. WorldOK /\ Sound(l) /\ l \in CallType /\ Opens(l) /\ Hears(l) /\ Sees(l) /\ Makes(l)
  BY DEF IInv, Sound
<1>2. Current \in Versions /\ (Gone(Current) => Current \in back)
  BY <1>1, CurrentIsHere
<1>3. CASE OpenFile(c)
  <2> DEFINE s == [open |-> TRUE, id |-> Current, tables |-> Current]
             next == [l EXCEPT !.pc = "tables", !.source = s]
  <2>1. /\ next.pc = "tables" /\ next.made = l.made /\ next.todo = l.todo
        /\ next.before = l.before /\ next.key = l.key /\ next.source = s
        /\ next.evidence = l.evidence
    BY <1>1 DEF CallType
  <2>2. s \in SourceType /\ s.open /\ s.id = Current /\ s.tables = Current
    BY <1>2 DEF SourceType
  <2>3. l.pc = "file" /\ Becomes(c, next) /\ Keeps
    BY <1>3 DEF OpenFile, At
  <2> HIDE DEF s
  <2>4. next \in CallType
    BY <1>1, <2>2 DEF CallType, Points, OpenPoints
  <2> HIDE DEF next
  <2>5. Opens(next) /\ Hears(next) /\ Makes(next)
    BY <1>1, <2>1, <2>2, <2>3 DEF Opens, Hears, Makes, AudioPoints
  <2>6. Sees(next)
    BY <1>1, <2>1, <2>2, <2>3
       DEF Sees, VisualPoints, OpenPoints, Audible, Looking, Keeping
  <2>7. QED
    BY <2>3, <2>4, <2>5, <2>6, KeepsEntries DEF Sound
<1>4. CASE ReadTables(c)
  <2> DEFINE s == [l.source EXCEPT !.tables = Current]
             next == [l EXCEPT !.pc = "opened", !.source = s]
  <2>1. /\ next.pc = "opened" /\ next.made = l.made /\ next.todo = l.todo
        /\ next.before = l.before /\ next.key = l.key /\ next.source = s
        /\ next.evidence = l.evidence
    BY <1>1 DEF CallType
  <2>2. /\ s \in SourceType /\ s.open = l.source.open /\ s.id = l.source.id
        /\ s.tables = Current
    BY <1>1, <1>2 DEF CallType, SourceType
  <2>3. l.pc = "tables" /\ Becomes(c, next) /\ Keeps
    BY <1>4 DEF ReadTables, At
  <2> HIDE DEF s
  <2>4. next \in CallType
    BY <1>1, <2>2 DEF CallType, Points, OpenPoints
  <2> HIDE DEF next
  <2>5. Opens(next) /\ Hears(next) /\ Makes(next)
    BY <1>1, <2>1, <2>2, <2>3 DEF Opens, Hears, Makes, AudioPoints
  <2>6. Sees(next)
    BY <1>1, <2>1, <2>2, <2>3
       DEF Sees, VisualPoints, OpenPoints, Audible, Looking, Keeping
  <2>7. QED
    BY <2>3, <2>4, <2>5, <2>6, KeepsEntries DEF Sound
<1>5. CASE Opened(c)
  <2> DEFINE to == IF Listening(c) THEN "identify"
                   ELSE IF l.evidence.complete THEN "refine" ELSE "read"
             next == [l EXCEPT !.pc = to]
  <2>1. /\ next.pc = to /\ next.made = l.made /\ next.todo = l.todo
        /\ next.before = l.before /\ next.key = l.key /\ next.source = l.source
        /\ next.evidence = l.evidence
    BY <1>1 DEF CallType
  <2>2. \/ to = "identify" /\ Audible(l)
        \/ to = "refine" /\ ~Audible(l) /\ l.evidence.complete
        \/ to = "read" /\ ~Audible(l)
    BY DEF Listening, Audible
  <2>3. l.pc = "opened" /\ Becomes(c, next) /\ Keeps
    BY <1>5 DEF Opened, At, Goto
  <2>4. next \in CallType
    BY <1>1, <2>2 DEF CallType, Points, VisualPoints, AudioPoints
  <2> HIDE DEF next, to
  <2>5. Opens(next) /\ Hears(next) /\ Makes(next)
    BY <1>1, <2>1, <2>2, <2>3 DEF Opens, Hears, Makes, AudioPoints, Audible
  <2>6. Sees(next)
    BY <1>1, <2>1, <2>2, <2>3
       DEF Sees, VisualPoints, OpenPoints, Audible, Looking, Keeping
  <2>7. QED
    BY <2>3, <2>4, <2>5, <2>6, KeepsEntries DEF Sound
<1>6. QED
  BY <1>3, <1>4, <1>5

-----------------------------------------------------------------------------
(***************************************************************************)
(* The audio detector.                                                     *)
(***************************************************************************)
LEMMA AudioSteps ==
  ASSUME IInv, NEW c \in Calls,
         Identify(c) \/ Lookup(c) \/ Capture(c) \/ Publish(c) \/ Confirm(c)
  PROVE  IInv'
<1> DEFINE l == call[c]
<1>1. WorldOK /\ Sound(l) /\ l \in CallType /\ Opens(l) /\ Hears(l) /\ Sees(l) /\ Makes(l)
  BY DEF IInv, Sound
<1>2. Current \in Versions /\ (Gone(Current) => Current \in back)
  BY <1>1, CurrentIsHere
<1>3. CASE Identify(c)
  <2> DEFINE next == [l EXCEPT !.pc = "lookup", !.key = Current]
  <2>1. /\ next.pc = "lookup" /\ next.made = l.made /\ next.todo = l.todo
        /\ next.before = l.before /\ next.key = Current /\ next.source = l.source
        /\ next.evidence = l.evidence
    BY <1>1 DEF CallType
  <2>2. next \in CallType
    BY <1>1, <1>2 DEF CallType, Points, AudioPoints
  <2>3. l.pc = "identify" /\ Becomes(c, next) /\ Keeps
    BY <1>3 DEF Identify, At
  <2> HIDE DEF next
  <2>4. Opens(next) /\ Hears(next) /\ Makes(next)
    BY <1>1, <2>1, <2>3 DEF Opens, Hears, Makes, AudioPoints, Audible
  <2>5. Sees(next)
    BY <1>1, <2>1, <2>3
       DEF Hears, AudioPoints, Sees, VisualPoints, OpenPoints, Audible, Looking, Keeping
  <2>6. QED
    BY <2>2, <2>3, <2>4, <2>5, KeepsEntries DEF Sound
<1>4. ASSUME NEW to \in {"capture", "publish", "confirm"}, NEW e \in EvidenceType,
             l.pc \in {"lookup", "capture", "publish"},
             to \in {"publish", "confirm"} => Honest(e, l.key)
      PROVE  Sound([l EXCEPT !.evidence = e, !.pc = to])
  <2> DEFINE next == [l EXCEPT !.evidence = e, !.pc = to]
  <2>1. /\ next.pc = to /\ next.made = l.made /\ next.todo = l.todo
        /\ next.before = l.before /\ next.key = l.key /\ next.source = l.source
        /\ next.evidence = e
    BY <1>1 DEF CallType
  <2>2. next \in CallType
    BY <1>1 DEF CallType, Points, AudioPoints
  <2> HIDE DEF next
  <2>3. Opens(next)
    BY <1>1, <1>4, <2>1 DEF Opens, AudioPoints
  <2>4. Hears(next) /\ Makes(next)
    BY <1>1, <1>4, <2>1 DEF Hears, Makes, AudioPoints, Audible
  <2>5. Sees(next)
    BY <1>1, <1>4, <2>1
       DEF Hears, AudioPoints, Sees, VisualPoints, OpenPoints, Audible, Looking, Keeping
  <2>6. QED
    BY <2>2, <2>3, <2>4, <2>5 DEF Sound, next
<1>5. l.key \in Versions /\ l.evidence \in EvidenceType
  BY <1>1 DEF CallType
<1>6. ASSUME NEW to PROVE [l EXCEPT !.pc = to] = [l EXCEPT !.evidence = l.evidence, !.pc = to]
  BY <1>1 DEF CallType
<1>7. CASE Lookup(c)
  <2>1. l.pc = "lookup" /\ Keeps
    BY <1>7 DEF Lookup, At
  <2>2. CASE l.key \in DOMAIN acoustic /\ Finds(c, acoustic[l.key], "confirm")
    <3>1. Honest(acoustic[l.key], l.key) /\ acoustic[l.key] \in EvidenceType
      BY <2>2 DEF IInv, AcousticOK
    <3>2. Sound([l EXCEPT !.evidence = acoustic[l.key], !.pc = "confirm"])
      BY <1>4, <2>1, <3>1
    <3>3. QED
      BY <2>1, <2>2, <3>2, KeepsEntries DEF Finds
  <2>3. CASE Goto(c, "capture")
    <3>1. Sound([l EXCEPT !.pc = "capture"])
      BY <1>4, <1>5, <1>6, <2>1
    <3>2. QED
      BY <2>1, <2>3, <3>1, KeepsEntries DEF Goto
  <2>4. QED
    BY <1>7, <2>2, <2>3 DEF Lookup
<1>8. CASE Capture(c)
  <2> DEFINE s == l.source
             e == [complete |-> TRUE, samples |-> <<Sampled(s)>>, refined |-> {},
                   tables |-> s.tables]
  <2>1. l.pc = "capture" /\ Keeps /\ Valid(c) /\ Finds(c, e, "publish")
    BY <1>8 DEF Capture, At
  <2>2. s \in SourceType /\ s.open /\ s.id = Current
    BY <1>1, <2>1 DEF Valid, Opens, AudioPoints, CallType
  <2>3. e \in EvidenceType
    BY <2>2 DEF EvidenceType, SourceType, Sampled
  <2>4. ASSUME Gone(s.id) PROVE Sound([l EXCEPT !.evidence = e, !.pc = "publish"])
    <3>1. e.samples[1] = {s.id, s.tables} /\ 1 \in DOMAIN e.samples
      BY DEF Sampled
    <3>2. s.id \in Sources(e)
      BY <3>1, SourcesAre
    <3>3. Honest(e, l.key)
      BY <1>2, <2>2, <2>4, <3>2 DEF Honest, CameBack
    <3>4. QED
      BY <1>4, <2>1, <2>3, <3>3
  <2>5. ASSUME ~Gone(s.id) PROVE Sound([l EXCEPT !.evidence = e, !.pc = "publish"])
    <3>1. s.tables = Current /\ l.key = Current
      BY <1>1, <2>1, <2>2, <2>5 DEF Opens, Hears, AudioPoints
    <3>2. e = Captured(l.key)
      BY <2>2, <3>1 DEF Captured, Sampled
    <3>3. QED
      BY <1>4, <2>1, <2>3, <3>2 DEF Honest
  <2>6. Sound([l EXCEPT !.evidence = e, !.pc = "publish"])
    BY <2>4, <2>5
  <2>7. QED
    BY <2>1, <2>6, KeepsEntries DEF Finds
<1>9. CASE Publish(c)
  <2>1. /\ l.pc = "publish" /\ acoustic' = Put(acoustic, l.key, l.evidence)
        /\ UNCHANGED <<world, visual, runs>> /\ Goto(c, "confirm")
    BY <1>9 DEF Publish, At
  <2>2. Honest(l.evidence, l.key)
    BY <1>1, <2>1 DEF Hears
  <2>3. AcousticOK' /\ VisualOK'
    BY <1>5, <2>1, <2>2 DEF IInv, world, AcousticOK, VisualOK, Put, Only, Honest, CameBack
  <2>4. Sound([l EXCEPT !.pc = "confirm"])
    BY <1>4, <1>5, <1>6, <2>1, <2>2
  <2>5. QED
    BY <2>1, <2>3, <2>4, OneCallMoves DEF Goto
<1>10. CASE Confirm(c)
  <2>1. /\ l.pc = "confirm" /\ Valid(c) /\ UNCHANGED <<world, visual, runs>>
        /\ Becomes(c, Detected(c, Sources(l.evidence)))
    BY <1>10 DEF Confirm, At
  <2>2. Gone(Current) \/ (l.key = Current /\ Only(l.key, Sources(l.evidence)))
    BY <1>1, <1>5, <2>1, HonestIsOnly DEF Valid, Hears, AudioPoints
  <2>3. Sound(Detected(c, Sources(l.evidence)))
    <3>1. Gone(l.before) \/ Only(l.before, Sources(l.evidence))
      BY <1>1, <2>1, <2>2 DEF Makes
    <3>2. Sources(l.evidence) \in SUBSET Versions
      BY <1>5, SourcesType
    <3>3. QED
      BY <1>1, <2>1, <3>1, <3>2, DetectedSound
  <2>4. AcousticOK'
    <3>1. PICK kept \in SUBSET DOMAIN acoustic : acoustic' = [k \in kept |-> acoustic[k]]
      BY <1>10 DEF Confirm
    <3>2. QED
      BY <2>1, <3>1 DEF IInv, world, AcousticOK, Honest, CameBack
  <2>5. VisualOK'
    BY <2>1 DEF IInv, world, VisualOK, Only, CameBack
  <2>6. QED
    BY <2>1, <2>3, <2>4, <2>5, OneCallMoves
<1>11. QED
  BY <1>3, <1>7, <1>8, <1>9, <1>10

-----------------------------------------------------------------------------
(***************************************************************************)
(* The visual detector.                                                    *)
(***************************************************************************)
\* Evidence that is Good for a call came from the version its entry is named by.
Good(l, e) == Gone(l.key) \/ Only(l.key, Sources(e))
Moves(l, e, to) == [l EXCEPT !.evidence = e, !.pc = to]

LEMMA VisualMoves ==
  ASSUME NEW c \in Calls, NEW l, l = call[c], Sound(l), l.pc \in VisualPoints,
         NEW to \in VisualPoints \cup {"file"}, NEW e \in EvidenceType,
         to \in {"scan", "write", "writing", "written"} => l.source.open,
         e.complete => Len(e.samples) = Keyframes,
         (to = "file" /\ ~e.complete) \/ Good(l, e),
         to \in {"writing", "saving"} => Only(l.key, Sources(e))
  PROVE  Sound(Moves(l, e, to))
<1> DEFINE next == [l EXCEPT !.evidence = e, !.pc = to]
<1>1. l \in CallType /\ Opens(l) /\ Hears(l) /\ Sees(l) /\ Makes(l)
  BY DEF Sound
<1>2. /\ next.pc = to /\ next.made = l.made /\ next.todo = l.todo
      /\ next.before = l.before /\ next.key = l.key /\ next.source = l.source
      /\ next.evidence = e
  BY <1>1 DEF CallType
<1>3. next \in CallType
  BY <1>1 DEF CallType, Points, OpenPoints
<1> HIDE DEF next
<1>4. ~Audible(l)
  BY <1>1 DEF Sees
<1>5. Opens(next)
  BY <1>1, <1>2 DEF Opens, AudioPoints, VisualPoints
<1>6. Hears(next)
  BY <1>2 DEF Hears, AudioPoints, VisualPoints
<1>7. Makes(next)
  BY <1>1, <1>2 DEF Makes, VisualPoints
<1>8. Sees(next)
  <2>1. ~Audible(next)
    BY <1>2, <1>4 DEF Audible
  <2>2. Gone(l.key) \/ (l.key = Current /\ (l.source.open => l.source.id = l.key))
    BY <1>1 DEF Sees, Looking
  <2>3. Keeping(next) => Gone(next.key) \/ Only(next.key, Sources(next.evidence))
    BY <1>2 DEF Keeping, Good, VisualPoints
  <2>4. QED
    BY <1>2, <2>1, <2>2, <2>3 DEF Sees
<1>9. QED
  BY <1>3, <1>5, <1>6, <1>7, <1>8 DEF Sound, next, Moves

LEMMA VisualSteps ==
  ASSUME IInv, NEW c \in Calls,
         \/ Stamp(c) \/ Read(c) \/ Loaded(c) \/ Keyframe(c) \/ EndScan(c)
         \/ Write(c) \/ Persist(c) \/ Written(c) \/ Refine(c) \/ Finish(c)
  PROVE  IInv'
<1> DEFINE l == call[c]
           s == l.source
<1>1. WorldOK /\ Sound(l) /\ l \in CallType /\ Opens(l) /\ Hears(l) /\ Sees(l) /\ Makes(l)
  BY DEF IInv, Sound
<1>2. Current \in Versions /\ (Gone(Current) => Current \in back)
  BY <1>1, CurrentIsHere
<1>3. /\ l.key \in Versions /\ l.evidence \in EvidenceType /\ s \in SourceType
      /\ s.id \in Versions /\ s.tables \in Versions
  BY <1>1 DEF CallType, SourceType
<1>4. l.pc \in VisualPoints =>
        /\ l.evidence.complete => Len(l.evidence.samples) = Keyframes
        /\ Gone(l.key) \/ (l.key = Current /\ (s.open => s.id = l.key))
        /\ l.pc # "read" => Good(l, l.evidence)
  BY <1>1 DEF Sees, Looking, Keeping, Good
<1>5. ASSUME NEW to PROVE [l EXCEPT !.pc = to] = Moves(l, l.evidence, to)
  BY <1>1 DEF CallType, Moves
<1>6. ASSUME l.pc \in VisualPoints, NEW to, NEW e, Sound(Moves(l, e, to)), Keeps,
             Finds(c, e, to)
      PROVE  IInv'
  BY <1>6, KeepsEntries DEF Finds, Moves
<1>7. ASSUME l.pc \in VisualPoints, NEW to, Sound(Moves(l, l.evidence, to)), Keeps, Goto(c, to)
      PROVE  IInv'
  BY <1>5, <1>7, KeepsEntries DEF Goto
\* An open source that is valid, or whose entry is, is the version of the entry.
<1>8. ASSUME l.pc \in VisualPoints, s.open, Valid(c)
      PROVE  Sampled(s) \in SUBSET Versions /\ (Gone(l.key) \/ Sampled(s) \subseteq {l.key})
  BY <1>1, <1>2, <1>3, <1>4, <1>8 DEF Valid, Opens, Sampled
<1>9. ASSUME l.pc \in VisualPoints, Without(c), Keeps
      PROVE  IInv'
  <2> DEFINE e == Fresh(s.tables)
             to == IF s.open THEN "scan" ELSE "file"
  <2>1. e \in EvidenceType /\ ~e.complete /\ Sources(e) \subseteq {s.tables}
    BY <1>3, FreshSources
  <2>2. s.open => Good(l, e)
    BY <1>1, <1>2, <1>3, <1>4, <1>9, <2>1 DEF Opens, Good, Only
  <2>3. Finds(c, e, to)
    BY <1>9 DEF Without
  <2>4. to \in VisualPoints \cup {"file"} /\ to \in {"scan", "file"} /\ (to = "scan" <=> s.open)
    BY DEF VisualPoints
  <2> HIDE DEF e, to
  <2>5. Sound(Moves(l, e, to))
    BY <1>1, <1>9, <2>1, <2>2, <2>4, VisualMoves
  <2>6. QED
    BY <1>6, <1>9, <2>3, <2>5
<1>10. CASE Stamp(c)
  <2> DEFINE next == [l EXCEPT !.pc = "read", !.key = Current]
  <2>1. /\ next.pc = "read" /\ next.made = l.made /\ next.todo = l.todo
        /\ next.before = l.before /\ next.key = Current /\ next.source = s
        /\ next.evidence = l.evidence
    BY <1>1 DEF CallType
  <2>2. next \in CallType
    BY <1>1, <1>2 DEF CallType, Points, VisualPoints
  <2>3. l.pc = "stamp" /\ Becomes(c, next) /\ Keeps
    BY <1>10 DEF Stamp, At
  <2> HIDE DEF next
  <2>4. Opens(next) /\ Hears(next) /\ Makes(next)
    BY <1>1, <2>1, <2>3 DEF Opens, Hears, Makes, AudioPoints
  <2>5. Sees(next)
    BY <1>1, <2>1, <2>3
       DEF Opens, Sees, VisualPoints, OpenPoints, Audible, Looking, Keeping
  <2>6. QED
    BY <2>2, <2>3, <2>4, <2>5, KeepsEntries DEF Sound
<1>11. CASE Read(c)
  <2>1. l.pc = "read" /\ l.pc \in VisualPoints /\ Keeps
    BY <1>11 DEF Read, At, VisualPoints
  <2>2. CASE l.key \in DOMAIN visual /\ Finds(c, visual[l.key], "loaded")
    <3>1. /\ visual[l.key] \in EvidenceType
          /\ visual[l.key].complete => Len(visual[l.key].samples) = Keyframes
          /\ Good(l, visual[l.key])
      BY <2>2 DEF IInv, VisualOK, Good
    <3>2. "loaded" \in VisualPoints
      BY DEF VisualPoints
    <3>3. Sound(Moves(l, visual[l.key], "loaded"))
      BY <1>1, <2>1, <3>1, <3>2, VisualMoves
    <3>4. QED
      BY <1>6, <2>1, <2>2, <3>3
  <2>3. QED
    BY <1>9, <1>11, <2>1, <2>2 DEF Read
<1>12. CASE Loaded(c)
  <2> DEFINE to == IF s.open THEN "scan" ELSE "refine"
  <2>1. l.pc = "loaded" /\ l.pc \in VisualPoints /\ Keeps
    BY <1>12 DEF Loaded, At, VisualPoints
  <2>2. CASE Goto(c, to)
    <3>1. to \in VisualPoints /\ (to = "scan" => s.open)
          /\ to \notin {"write", "writing", "written", "saving"}
      BY DEF VisualPoints
    <3> HIDE DEF to
    <3>2. Sound(Moves(l, l.evidence, to))
      BY <1>1, <1>3, <1>4, <2>1, <3>1, VisualMoves
    <3>3. QED
      BY <1>7, <2>1, <2>2, <3>2
  <2>3. QED
    BY <1>9, <1>12, <2>1, <2>2 DEF Loaded
<1>13. CASE Keyframe(c)
  <2> DEFINE e == [l.evidence EXCEPT !.samples = Append(@, Sampled(s))]
             to == IF (Scanned(c) + 1) % Checkpoint = 0 THEN "write" ELSE "scan"
  <2>1. /\ l.pc = "scan" /\ l.pc \in VisualPoints /\ Keeps /\ Valid(c)
        /\ Scanned(c) < Keyframes /\ Finds(c, e, to)
    BY <1>13 DEF Keyframe, At, VisualPoints
  <2>2. s.open
    BY <1>1, <2>1 DEF Opens
  <2>3. Sampled(s) \in SUBSET Versions /\ (Gone(l.key) \/ Sampled(s) \subseteq {l.key})
    BY <1>8, <2>1, <2>2
  <2>4. e \in EvidenceType /\ e.complete = l.evidence.complete
        /\ Sources(e) = Sources(l.evidence) \cup Sampled(s)
    BY <1>3, <2>3, SampleSources
  <2>5. ~e.complete
    BY <1>4, <2>1, <2>4, CountsAssumption DEF Scanned
  <2>6. Good(l, e)
    <3> HIDE DEF e
    <3>1. Gone(l.key) \/ Only(l.key, Sources(l.evidence))
      BY <1>4, <2>1 DEF Good
    <3>2. QED
      BY <2>3, <2>4, <3>1, OnlyTogether DEF Good, Only
  <2>7. to \in {"write", "scan"} /\ to \in VisualPoints
    BY DEF VisualPoints
  <2> HIDE DEF e, to
  <2>8. Sound(Moves(l, e, to))
    BY <1>1, <2>1, <2>2, <2>4, <2>5, <2>6, <2>7, VisualMoves
  <2>9. QED
    BY <1>6, <2>1, <2>8
<1>14. CASE EndScan(c)
  <2> DEFINE e == [l.evidence EXCEPT !.complete = TRUE]
  <2>1. /\ l.pc = "scan" /\ l.pc \in VisualPoints /\ Keeps
        /\ Len(l.evidence.samples) = Keyframes /\ Finds(c, e, "write")
    BY <1>14 DEF EndScan, At, VisualPoints, Scanned
  <2>2. /\ e \in EvidenceType /\ e.samples = l.evidence.samples
        /\ e.refined = l.evidence.refined /\ e.tables = l.evidence.tables
    BY <1>3 DEF EvidenceType
  <2> HIDE DEF e
  <2>3. Good(l, e) /\ "write" \in VisualPoints
    BY <1>4, <2>1, <2>2 DEF Good, Sources, VisualPoints
  <2>4. Sound(Moves(l, e, "write"))
    BY <1>1, <2>1, <2>2, <2>3, VisualMoves DEF Opens
  <2>5. QED
    BY <1>6, <2>1, <2>4
<1>15. CASE Write(c)
  <2>1. PICK to \in {"writing", "saving"} :
          /\ l.pc = (IF to = "writing" THEN "write" ELSE "save") /\ Goto(c, to)
    BY <1>15 DEF Write, At
  <2>2. l.pc \in VisualPoints /\ to \in VisualPoints /\ Keeps /\ l.key = Current
    BY <1>15, <2>1 DEF Write, Stamped, VisualPoints
  <2>3. Only(l.key, Sources(l.evidence))
    BY <1>2, <1>4, <2>1, <2>2, OnlyCameBack DEF Good
  <2>4. to = "writing" => s.open
    BY <1>1, <2>1 DEF Opens
  <2>5. Sound(Moves(l, l.evidence, to))
    BY <1>1, <1>3, <1>4, <2>1, <2>2, <2>3, <2>4, VisualMoves DEF Good
  <2>6. QED
    BY <1>7, <2>1, <2>2, <2>5
<1>16. CASE Persist(c)
  <2>1. PICK to \in {"written", "saved"} :
          /\ l.pc = (IF to = "written" THEN "writing" ELSE "saving") /\ Goto(c, to)
    BY <1>16 DEF Persist, At
  <2>2. /\ l.pc \in VisualPoints /\ to \in VisualPoints /\ l.pc \in {"writing", "saving"}
        /\ visual' = Put(visual, l.key, l.evidence) /\ UNCHANGED <<world, acoustic, runs>>
    BY <1>16, <2>1 DEF Persist, VisualPoints
  <2>3. Only(l.key, Sources(l.evidence))
    BY <1>1, <2>2 DEF Sees
  <2>4. to = "written" => s.open
    BY <1>1, <2>1 DEF Opens
  <2>5. Sound(Moves(l, l.evidence, to))
    BY <1>1, <1>3, <1>4, <2>1, <2>2, <2>3, <2>4, VisualMoves DEF Good
  <2>6. AcousticOK'
    BY <2>2 DEF IInv, world, AcousticOK, Honest, CameBack
  <2>7. VisualOK'
    <3>1. l.evidence.complete => Len(l.evidence.samples) = Keyframes
      BY <1>4, <2>2
    <3>2. QED
      BY <1>3, <2>2, <2>3, <3>1 DEF IInv, world, VisualOK, Put, Only, CameBack
  <2>8. QED
    BY <1>5, <2>1, <2>2, <2>5, <2>6, <2>7, OneCallMoves DEF Goto
<1>17. CASE Written(c)
  <2>1. l.key = Current /\ Keeps /\ l.pc \in {"written", "saved"} /\ l.pc \in VisualPoints
    BY <1>17 DEF Written, Stamped, At, VisualPoints
  <2>2. Only(l.key, Sources(l.evidence))
    BY <1>2, <1>4, <2>1, OnlyCameBack DEF Good
  <2>3. CASE l.pc = "written"
    <3> DEFINE to == IF l.evidence.complete THEN "refine" ELSE "scan"
    <3>1. Goto(c, to)
      BY <1>17, <2>3 DEF Written, At
    <3>2. s.open
      BY <1>1, <2>3 DEF Opens
    <3>3. to \in {"refine", "scan"} /\ to \in VisualPoints
      BY DEF VisualPoints
    <3> HIDE DEF to
    <3>4. Sound(Moves(l, l.evidence, to))
      BY <1>1, <1>3, <1>4, <2>1, <2>2, <3>2, <3>3, VisualMoves DEF Good
    <3>5. QED
      BY <1>7, <2>1, <3>1, <3>4
  <2>4. CASE l.pc = "saved"
    <3>1. Becomes(c, Detected(c, Sources(l.evidence)))
      BY <1>17, <2>4 DEF Written, At
    <3>2. Gone(l.before) \/ Only(l.before, Sources(l.evidence))
      BY <1>1, <2>1, <2>2, <2>4 DEF Makes
    <3>3. Sources(l.evidence) \in SUBSET Versions
      BY <1>3, SourcesType
    <3>4. Sound(Detected(c, Sources(l.evidence)))
      BY <1>1, <2>4, <3>2, <3>3, DetectedSound
    <3>5. QED
      BY <2>1, <3>1, <3>4, KeepsEntries
  <2>5. QED
    BY <2>1, <2>3, <2>4
<1>18. CASE Refine(c)
  <2>1. /\ l.pc = "refine" /\ l.pc \in VisualPoints /\ Keeps
        /\ l.evidence.refined = {}
    BY <1>18 DEF Refine, At, VisualPoints
  <2>2. CASE Goto(c, "file")
    <3>1. Sound(Moves(l, l.evidence, "file"))
      BY <1>1, <1>3, <1>4, <2>1, VisualMoves
    <3>2. QED
      BY <1>7, <2>1, <2>2, <3>1
  <2>3. CASE /\ s.open /\ Valid(c)
             /\ Finds(c, [l.evidence EXCEPT !.refined = Sampled(s)], "refine")
    <3> DEFINE e == [l.evidence EXCEPT !.refined = Sampled(s)]
    <3>1. Sampled(s) \in SUBSET Versions /\ (Gone(l.key) \/ Sampled(s) \subseteq {l.key})
      BY <1>8, <2>1, <2>3
    <3>2. /\ e \in EvidenceType /\ e.samples = l.evidence.samples
          /\ e.refined = Sampled(s) /\ e.tables = l.evidence.tables
          /\ e.complete = l.evidence.complete
      BY <1>3, <3>1 DEF EvidenceType
    <3> HIDE DEF e
    <3>3. Good(l, e)
      <4>1. CASE Gone(l.key)
        BY <4>1 DEF Good
      <4>2. CASE ~Gone(l.key)
        <5>1. Only(l.key, Sources(l.evidence)) /\ Sampled(s) \subseteq {l.key}
          BY <1>4, <2>1, <3>1, <4>2 DEF Good
        <5>2. Sources(e) = Sources(l.evidence) \cup Sampled(s)
          <6>1. \A v : v \in Sources(e) <=> v \in Sources(l.evidence) \/ v \in Sampled(s)
            BY <2>1, <3>2, SourcesAre
          <6>2. QED
            BY <6>1
        <5>3. QED
          BY <5>1, <5>2, OnlyTogether DEF Good, Only
      <4>3. QED
        BY <4>1, <4>2
    <3>4. Sound(Moves(l, e, "refine"))
      BY <1>1, <1>4, <2>1, <3>2, <3>3, VisualMoves
    <3>5. QED
      BY <1>6, <2>1, <2>3, <3>4 DEF e
  <2>4. QED
    BY <1>18, <2>2, <2>3 DEF Refine
<1>19. CASE Finish(c)
  <2>1. l.pc = "refine" /\ l.pc \in VisualPoints /\ Keeps /\ Goto(c, "save")
        /\ "save" \in VisualPoints
    BY <1>19 DEF Finish, At, VisualPoints
  <2>2. Sound(Moves(l, l.evidence, "save"))
    BY <1>1, <1>3, <1>4, <2>1, VisualMoves
  <2>3. QED
    BY <1>7, <2>1, <2>2
<1>20. QED
  BY <1>10, <1>11, <1>12, <1>13, <1>14, <1>15, <1>16, <1>17, <1>18, <1>19

-----------------------------------------------------------------------------
(***************************************************************************)
(* The theorems.                                                           *)
(***************************************************************************)
\* The invariant holds: what the entries hold, what an open source is, and what
\* each call may rely on between two looks at the source.
THEOREM Invariance == Spec => []IInv
<1>1. Init => IInv
  <2> SUFFICES ASSUME Init PROVE IInv
    OBVIOUS
  <2>1. WorldOK /\ AcousticOK /\ VisualOK
    BY DEF Init, WorldOK, AcousticOK, VisualOK, Gone
  <2>2. Sound(NoCall)
    BY <2>1, NoCallSound
  <2>3. QED
    BY <2>1, <2>2 DEF Init, IInv
<1>2. IInv /\ [Next]_vars => IInv'
  <2> SUFFICES ASSUME IInv, [Next]_vars PROVE IInv'
    OBVIOUS
  <2>1. CASE WorldStep
    BY <2>1, WorldSteps
  <2>2. ASSUME NEW c \in Calls, Step(c) PROVE IInv'
    BY <2>2, AnalyzeSteps, OpeningSteps, AudioSteps, VisualSteps DEF Step
  <2>3. CASE UNCHANGED vars
    BY <2>3, SMTT(30) DEF vars, world, IInv, WorldOK, AcousticOK, VisualOK, Sound, Opens, Hears, Sees,
       Makes, Gone, Current, Version, Only, Honest, CameBack
  <2>4. QED
    BY <2>1, <2>2, <2>3 DEF Next
<1>3. QED
  BY <1>1, <1>2, PTL DEF Spec

\* Every entry holds only what was read from the version its stamp names, for any
\* files, calls and changes, unless one of the versions concerned came back.
THEOREM SourceBound == Spec => []EvidenceIsItsSources
<1>1. IInv => EvidenceIsItsSources
  BY HonestIsOnly DEF IInv, AcousticOK, VisualOK, EvidenceIsItsSources
<1>2. QED
  BY <1>1, Invariance, PTL

\* The markers of a call come from the source it began with, unless one of the
\* versions they came from was replaced and came back.
THEOREM MarkersSound == Spec => []MarkersAreItsSources
<1>1. IInv => MarkersAreItsSources
  BY DEF IInv, Sound, Makes, MarkersAreItsSources, At
<1>2. QED
  BY <1>1, Invariance, PTL

\* Two calls make different entries of the audio detector for one stamp only if one
\* of the versions they looked at was replaced and came back.
THEOREM Agreement == Spec => []PublicationsAgree
<1>1. IInv => PublicationsAgree
  <2> SUFFICES ASSUME IInv, NEW c \in Calls, At(c, "publish"),
                      call[c].key \in DOMAIN acoustic
               PROVE  LET k == call[c].key
                      IN  \/ acoustic[k] = call[c].evidence
                          \/ CameBack({k} \cup Sources(acoustic[k])
                                           \cup Sources(call[c].evidence))
    BY DEF PublicationsAgree
  <2>1. Honest(call[c].evidence, call[c].key) /\ Honest(acoustic[call[c].key], call[c].key)
    BY DEF IInv, Sound, Hears, AcousticOK, At
  <2>2. QED
    BY <2>1 DEF Honest, CameBack
<1>2. QED
  BY <1>1, Invariance, PTL
=============================================================================
