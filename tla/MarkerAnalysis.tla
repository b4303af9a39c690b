--------------------------- MODULE MarkerAnalysis ---------------------------
(***************************************************************************)
(* analyze (analysis.rs) finds skip markers in a media file.  Its audio    *)
(* detector keeps fingerprints and its visual detector observations in a   *)
(* cache directory, in entries named by a stamp of the source; several     *)
(* calls, in one process or several, share the directory.  Meanwhile the   *)
(* file at the path is replaced, written to and put back, and any call may *)
(* fail or die at any step.  Reading media is one step where the code      *)
(* validates the source on both sides of it (MediaSource,                  *)
(* PlaybackSession).                                                       *)
(***************************************************************************)
EXTENDS Naturals, Sequences, FiniteSets

CONSTANTS Calls,       \* calls of analyze
          Inodes,      \* files that take turns at the path
          Duration,    \* how long each file says it is
          Keyframes,   \* keyframes in the part of a file that is searched
          Checkpoint,  \* a scan is saved whenever it has a multiple of this
          MaxChanges,  \* bound: replacements and writes of files
          MaxRuns      \* bound: calls begun

ASSUME CountsAssumption == Keyframes \in Nat \ {0} /\ Checkpoint \in Nat \ {0}

VARIABLES path, stamps,  \* the file the path names, writes to each file
          changes,       \* replacements and writes so far
          left,          \* history: the versions that were replaced at the path
          back,          \* history: those of them that came back
          acoustic,      \* the audio detector's entries, by stamp
          visual,        \* the visual detector's entries, by stamp
          runs,          \* calls begun
          call           \* where each call stands, and its locals

world == <<path, stamps, changes, left, back>>
vars == <<world, acoustic, visual, runs, call>>

Detectors == {"audio", "visual"}
Versions == Inodes \X Nat
Version(i) == <<i, stamps[i]>>
Current == Version(path)

\* Evidence (visual.rs), Cached (audio.rs): the versions observations came from,
\* keyframe by keyframe; those at refined boundaries; the one whose tables gave
\* the duration.
Fresh(v) == [complete |-> FALSE, samples |-> <<>>, refined |-> {}, tables |-> v]
Sources(e) == (UNION {e.samples[n] : n \in DOMAIN e.samples}) \cup e.refined \cup {e.tables}
\* valid(cached, stamp, duration), valid(evidence, duration).
Fits(e, v) == Duration[e.tables[1]] = Duration[v[1]]

\* A source that is open has a retained handle, and tables read by path.
NoVersion == <<CHOOSE i \in Inodes : TRUE, 0>>
NoSource == [open |-> FALSE, id |-> NoVersion, tables |-> NoVersion]
Sampled(s) == {s.id, s.tables}

\* todo: the detectors to run, with one at work first.  before: the source at the
\* beginning.  key: the entry in use.  made: the versions the result came from.
NoCall == [pc |-> "idle", todo |-> {}, before |-> NoVersion, key |-> NoVersion,
           source |-> NoSource, evidence |-> Fresh(NoVersion), made |-> {}]

Init ==
  /\ path \in Inodes /\ stamps = [i \in Inodes |-> 0]
  /\ changes = 0 /\ left = {} /\ back = {}
  /\ acoustic = <<>> /\ visual = <<>>
  /\ runs = 0 /\ call = [c \in Calls |-> NoCall]

-----------------------------------------------------------------------------
At(c, l) == call[c].pc = l
Becomes(c, next) == call' = [call EXCEPT ![c] = next]
Goto(c, l) == Becomes(c, [call[c] EXCEPT !.pc = l])
Finds(c, evidence, l) == Becomes(c, [call[c] EXCEPT !.evidence = evidence, !.pc = l])
Put(entries, k, e) == [n \in DOMAIN entries \cup {k} |-> IF n = k THEN e ELSE entries[n]]
Keeps == UNCHANGED <<world, acoustic, visual, runs>>

\* MediaSource::validate_current, but for the deadline, which is GiveUp's.
Valid(c) == LET s == call[c].source IN Current = s.id /\ Version(s.id[1]) = s.id
\* EvidenceCache::validate.
Stamped(c) == Current = call[c].key

-----------------------------------------------------------------------------
(***************************************************************************)
(* analyze: the audio detector if there are references, then the visual    *)
(* one unless the call is for audio only.                                  *)
(***************************************************************************)
\* Where a call goes for the detectors it has left.
Starts(todo) == IF todo = {} THEN "after" ELSE IF "audio" \in todo THEN "file" ELSE "stamp"

Begin(c, detectors) ==
  /\ At(c, "idle") /\ runs < MaxRuns
  /\ runs' = runs + 1
  /\ Becomes(c, [NoCall EXCEPT !.pc = "probe", !.todo = detectors, !.before = Current])
  /\ UNCHANGED <<world, acoustic, visual>>

\* probe_media_source reads the metadata by path.
Probe(c) ==
  /\ At(c, "probe")
  /\ Becomes(c, [call[c] EXCEPT !.pc = Starts(call[c].todo), !.made = {Current}])
  /\ Keeps

Listening(c) == "audio" \in call[c].todo

\* A detector is done; what it opened and found is dropped.
Detected(c, from) ==
  LET todo == call[c].todo \ {IF Listening(c) THEN "audio" ELSE "visual"}
  IN  [call[c] EXCEPT !.pc = Starts(todo), !.todo = todo, !.made = @ \cup from,
                      !.key = NoVersion, !.source = NoSource, !.evidence = Fresh(NoVersion)]

\* An error of a detector is only noticed.
GiveUp(c) ==
  /\ call[c].pc \notin {"idle", "probe", "after", "ok"}
  /\ Becomes(c, Detected(c, {}))
  /\ Keeps

\* Slip: the result is returned without a last look at the source.
AfterIgnored(c) == At(c, "after") /\ Goto(c, "ok") /\ Keeps

After(c) ==
  /\ At(c, "after") /\ Current = call[c].before
  /\ Goto(c, "ok")
  /\ Keeps

\* The caller takes the result; or the call fails, or its process ends.
Leave(c) == ~At(c, "idle") /\ Becomes(c, NoCall) /\ Keeps

-----------------------------------------------------------------------------
(***************************************************************************)
(* Opening a source (source::open, Sampler::open).                         *)
(***************************************************************************)
OpenFile(c) ==
  /\ At(c, "file")
  /\ Becomes(c, [call[c] EXCEPT !.pc = "tables",
                                !.source = [open |-> TRUE, id |-> Current, tables |-> Current]])
  /\ Keeps

ReadTables(c) ==
  /\ At(c, "tables")
  /\ Becomes(c, [call[c] EXCEPT !.pc = "opened", !.source.tables = Current])
  /\ Keeps

Opened(c) ==
  /\ At(c, "opened") /\ Valid(c)
  /\ Goto(c, IF Listening(c) THEN "identify"
             ELSE IF call[c].evidence.complete THEN "refine" ELSE "read")
  /\ Keeps

-----------------------------------------------------------------------------
(***************************************************************************)
(* The audio detector (fingerprints).                                      *)
(***************************************************************************)
\* Slip: the source is not looked at again after it was opened.
IdentifyEarly(c) ==
  /\ At(c, "identify")
  /\ Becomes(c, [call[c] EXCEPT !.pc = "lookup", !.key = call[c].before])
  /\ Keeps

Identify(c) ==
  /\ At(c, "identify")
  /\ Becomes(c, [call[c] EXCEPT !.pc = "lookup", !.key = Current])
  /\ Keeps

\* An entry may be unreadable; it is then captured again.
Lookup(c) ==
  /\ At(c, "lookup")
  /\ LET k == call[c].key
     IN  \/ /\ k \in DOMAIN acoustic /\ Fits(acoustic[k], call[c].source.tables)
            /\ Finds(c, acoustic[k], "confirm")
         \/ Goto(c, "capture")
  /\ Keeps

\* capture validates the source on both sides of every read, and fingerprints
\* validates it once more before it publishes.
Capture(c) ==
  /\ At(c, "capture") /\ Valid(c)
  /\ LET s == call[c].source
     IN  Finds(c, [complete |-> TRUE, samples |-> <<Sampled(s)>>, refined |-> {},
                   tables |-> s.tables], "publish")
  /\ Keeps

\* publish_bytes succeeds if the entry is new or the same; else it is an error.
Publish(c) ==
  /\ At(c, "publish")
  /\ LET k == call[c].key
     IN  /\ k \in DOMAIN acoustic => acoustic[k] = call[c].evidence
         /\ acoustic' = Put(acoustic, k, call[c].evidence)
  /\ Goto(c, "confirm")
  /\ UNCHANGED <<world, visual, runs>>

\* The peers are matched, and the cache is pruned: some entries are removed.
Confirm(c) ==
  /\ At(c, "confirm") /\ Valid(c)
  /\ \E kept \in SUBSET DOMAIN acoustic : acoustic' = [k \in kept |-> acoustic[k]]
  /\ Becomes(c, Detected(c, Sources(call[c].evidence)))
  /\ UNCHANGED <<world, visual, runs>>

-----------------------------------------------------------------------------
(***************************************************************************)
(* The visual detector (visual::detect).                                   *)
(***************************************************************************)
\* EvidenceCache::open.
Stamp(c) ==
  /\ At(c, "stamp")
  /\ Becomes(c, [call[c] EXCEPT !.pc = "read", !.key = Current])
  /\ Keeps

\* A complete entry serves by itself; without one a sampler is opened, and an
\* entry that fits it is continued.
Serves(c, e) == IF call[c].source.open THEN Fits(e, call[c].source.tables) ELSE e.complete
Without(c) ==
  Finds(c, Fresh(call[c].source.tables), IF call[c].source.open THEN "scan" ELSE "file")

\* EvidenceCache::read; an error is no entry.
Read(c) ==
  /\ At(c, "read")
  /\ LET k == call[c].key
     IN  \/ /\ Stamped(c) /\ k \in DOMAIN visual /\ Serves(c, visual[k])
            /\ Finds(c, visual[k], "loaded")
         \/ Without(c)
  /\ Keeps

Loaded(c) ==
  /\ At(c, "loaded")
  /\ IF Stamped(c) THEN Goto(c, IF call[c].source.open THEN "scan" ELSE "refine")
     ELSE Without(c)
  /\ Keeps

Scanned(c) == Len(call[c].evidence.samples)

Keyframe(c) ==
  /\ At(c, "scan") /\ Scanned(c) < Keyframes /\ Valid(c)
  /\ Finds(c, [call[c].evidence EXCEPT !.samples = Append(@, Sampled(call[c].source))],
           IF (Scanned(c) + 1) % Checkpoint = 0 THEN "write" ELSE "scan")
  /\ Keeps

EndScan(c) ==
  /\ At(c, "scan") /\ Scanned(c) = Keyframes /\ Valid(c)
  /\ Finds(c, [call[c].evidence EXCEPT !.complete = TRUE], "write")
  /\ Keeps

\* Slip: evidence is written without a look at the source.
WriteUnchecked(c) ==
  \/ At(c, "write") /\ Goto(c, "writing") /\ Keeps
  \/ At(c, "save") /\ Goto(c, "saving") /\ Keeps

\* EvidenceCache::write: of a scan, and of all that was found.
Write(c) ==
  /\ Stamped(c)
  /\ \/ At(c, "write") /\ Goto(c, "writing")
     \/ At(c, "save") /\ Goto(c, "saving")
  /\ Keeps

Persist(c) ==
  /\ \/ At(c, "writing") /\ Goto(c, "written")
     \/ At(c, "saving") /\ Goto(c, "saved")
  /\ visual' = Put(visual, call[c].key, call[c].evidence)
  /\ UNCHANGED <<world, acoustic, runs>>

Written(c) ==
  /\ Stamped(c)
  /\ \/ At(c, "written") /\ Goto(c, IF call[c].evidence.complete THEN "refine" ELSE "scan")
     \/ At(c, "saved") /\ Becomes(c, Detected(c, Sources(call[c].evidence)))
  /\ Keeps

\* A boundary whose neighbourhood was not looked at before is sampled.
Refine(c) ==
  /\ At(c, "refine") /\ call[c].evidence.refined = {}
  /\ \/ ~call[c].source.open /\ Goto(c, "file")
     \/ /\ call[c].source.open /\ Valid(c)
        /\ Finds(c, [call[c].evidence EXCEPT !.refined = Sampled(call[c].source)], "refine")
  /\ Keeps

\* Sampler::finish, if a sampler was opened.
Finish(c) ==
  /\ At(c, "refine") /\ (call[c].source.open => Valid(c))
  /\ Goto(c, "save")
  /\ Keeps

-----------------------------------------------------------------------------
(***************************************************************************)
(* The rest of the world.                                                  *)
(***************************************************************************)
Change ==
  /\ changes < MaxChanges
  /\ changes' = changes + 1
  /\ UNCHANGED <<acoustic, visual, runs, call>>

\* The path has another version, which may be one it had before.
Replaced ==
  /\ left' = left \cup {Current}
  /\ back' = back \cup (left' \cap {Current'})

Rename == Change /\ path' \in Inodes \ {path} /\ UNCHANGED stamps /\ Replaced

WriteInPlace(i) ==
  /\ Change
  /\ stamps' = [stamps EXCEPT ![i] = @ + 1] /\ UNCHANGED path
  /\ IF i = path THEN Replaced ELSE UNCHANGED <<left, back>>

Step(c) ==
  \/ \E detectors \in SUBSET Detectors : Begin(c, detectors)
  \/ Probe(c) \/ GiveUp(c) \/ After(c) \/ Leave(c)
  \/ OpenFile(c) \/ ReadTables(c) \/ Opened(c)
  \/ Identify(c) \/ Lookup(c) \/ Capture(c) \/ Publish(c) \/ Confirm(c)
  \/ Stamp(c) \/ Read(c) \/ Loaded(c) \/ Keyframe(c) \/ EndScan(c)
  \/ Write(c) \/ Persist(c) \/ Written(c) \/ Refine(c) \/ Finish(c)

WorldStep == Rename \/ \E i \in Inodes : WriteInPlace(i)

Next == WorldStep \/ \E c \in Calls : Step(c)

Spec == Init /\ [][Next]_vars

-----------------------------------------------------------------------------
\* What was read of several versions at the path is only of v, unless one of
\* them was replaced and came back: two looks at the path that agree cannot tell.
CameBack(S) == S \cap back # {}
Only(v, S) == S \subseteq {v} \/ CameBack(S \cup {v})

\* "Source-bound reusable detection evidence" (evidence_cache.rs): unless one of
\* the versions concerned came back to the path, an entry holds nothing but what
\* was read from the version its stamp names, whoever wrote it.  It is complete
\* only if every keyframe was looked at.
EvidenceIsItsSources ==
  /\ \A k \in DOMAIN acoustic : Only(k, Sources(acoustic[k]))
  /\ \A k \in DOMAIN visual :
       /\ Only(k, Sources(visual[k]))
       /\ visual[k].complete => Len(visual[k].samples) = Keyframes

\* What a call returns came from the source it began with, even the parts that
\* other calls found, unless one of the versions it came from came back.
MarkersAreItsSources ==
  \A c \in Calls : At(c, "ok") => Only(call[c].before, call[c].made)

\* Two calls disagree about an entry of the audio detector only if one of the
\* versions they looked at came back: publish_bytes refuses the second entry, and
\* the detector of that call fails (audio.rs l.113, l.138).
PublicationsAgree ==
  \A c \in Calls : At(c, "publish") /\ call[c].key \in DOMAIN acoustic =>
    LET k == call[c].key
    IN  \/ acoustic[k] = call[c].evidence
        \/ CameBack({k} \cup Sources(acoustic[k]) \cup Sources(call[c].evidence))

\* "Concurrent readers can always regenerate an evicted immutable source identity"
\* (audio.rs l.228): no reader finds an entry it cannot publish its own beside.
AlwaysRegenerated ==
  \A c \in Calls : At(c, "publish") /\ call[c].key \in DOMAIN acoustic =>
    acoustic[call[c].key] = call[c].evidence
=============================================================================
