---------------------------- MODULE Publication ----------------------------
(***************************************************************************)
(* Publication of one output path by concurrent publishers (output.rs).    *)
(* A publisher writes a temporary file beside the path, hard-links it to   *)
(* the path without replacing anything, and unlinks the temporary name.    *)
(* Files are inodes: the path and a temporary name may share one, so a     *)
(* write after the link would be visible through the path.                 *)
(* Mode "parts" is publish_parts_with_options with its default options,    *)
(* mode "stream" is publish_file, which treats no existing file as its own.*)
(***************************************************************************)
EXTENDS Naturals, FiniteSets

CONSTANTS Publishers,   \* concurrent calls, in any threads or processes
          Contents,     \* byte strings the calls want to publish
          Modes,        \* which of the two entry points the calls use
          Parts,        \* write steps of one artifact (write_all per part)
          Inodes,       \* files the directory can hold at once
          NoInode,      \* the path, or a call, has no file
          Absent        \* what a reader finds at an empty path

ASSUME ContentsAssumption == Contents # {} /\ Modes # {}
ASSUME ModesAssumption == Modes \subseteq {"parts", "stream"}
ASSUME PartsAssumption == Parts \in Nat \ {0}
ASSUME NoInodeAssumption == NoInode \notin Inodes
ASSUME AbsentAssumption == Absent \notin Contents
ASSUME PartialAssumption == "partial" \notin Contents \cup {Absent}

VARIABLES pc,       \* where each call stands
          call,     \* what each call was asked to publish
          temp,     \* the inode each call is writing
          body,     \* the bytes of each inode: whose artifact, how many parts
          names,    \* inodes that still have a temporary name
          target,   \* the inode the output path names
          result,   \* what each finished call returned
          held,     \* history: contents the path held during each call
          stray     \* history: names left by a dead call or a failed clean-up

vars == <<pc, call, temp, body, names, target, result, held, stray>>

Calls == [content : Contents, mode : Modes]
NoCall == [content |-> CHOOSE c \in Contents : TRUE,
           mode |-> CHOOSE m \in Modes : TRUE]
NewBody(c) == [content |-> c.content, written |-> 0]
Bodies == [content : Contents, written : 0..Parts]

Whole(f) == body[f].written = Parts

\* What a reader of the path sees: Absent, one artifact, or (never) a prefix.
Visible == IF target = NoInode THEN Absent
           ELSE IF Whole(target) THEN body[target].content ELSE "partial"

TypeOK ==
  /\ pc \in [Publishers -> {"idle", "compare", "exists", "create", "write",
                            "link", "recheck", "unlink", "cleanup"}]
  /\ call \in [Publishers -> Calls]
  /\ temp \in [Publishers -> Inodes \cup {NoInode}]
  /\ body \in [Inodes -> Bodies]
  /\ names \in SUBSET Inodes
  /\ target \in Inodes \cup {NoInode}
  /\ result \in [Publishers -> {"none", "ok", "exists", "error"}]
  /\ held \in [Publishers -> SUBSET Contents]
  /\ stray \in SUBSET Inodes

Init ==
  /\ pc = [p \in Publishers |-> "idle"]
  /\ call = [p \in Publishers |-> NoCall]
  /\ temp = [p \in Publishers |-> NoInode]
  /\ body = [f \in Inodes |-> NewBody(NoCall)]
  /\ names = {}
  /\ target = NoInode
  /\ result = [p \in Publishers |-> "none"]
  /\ held = [p \in Publishers |-> {}]
  /\ stray = {}

-----------------------------------------------------------------------------
Goto(p, l) == pc' = [pc EXCEPT ![p] = l]

\* The call returns r; its file handle is closed.
Return(p, r) ==
  /\ Goto(p, "idle")
  /\ result' = [result EXCEPT ![p] = r]
  /\ temp' = [temp EXCEPT ![p] = NoInode]

\* The path now names inode f: every running call may have observed it.
SetTarget(f) ==
  /\ target' = f
  /\ held' = [p \in Publishers |->
                IF pc[p] = "idle" \/ f = NoInode THEN held[p]
                ELSE held[p] \cup {body[f].content}]

\* Slip: any file at the path counts as identical.
MatchesAny(p) == target # NoInode

\* An existing file with exactly the bytes the call wants to publish.
Matches(p) == /\ target # NoInode
              /\ Whole(target)
              /\ body[target].content = call[p].content

Begin(p) ==
  /\ pc[p] = "idle"
  /\ \E c \in Calls :
       /\ call' = [call EXCEPT ![p] = c]
       /\ Goto(p, IF c.mode = "parts" THEN "compare" ELSE "exists")
  /\ result' = [result EXCEPT ![p] = "none"]
  /\ held' = [held EXCEPT ![p] = IF target = NoInode THEN {}
                                 ELSE {body[target].content}]
  /\ UNCHANGED <<temp, body, names, target, stray>>

\* allow_existing_identical: a byte-identical file is success, an error
\* of opening or reading is the call's.
Compare(p) ==
  /\ pc[p] = "compare"
  /\ \/ Matches(p) /\ Return(p, "ok")
     \/ ~Matches(p) /\ Goto(p, "exists") /\ UNCHANGED <<temp, result>>
     \/ Return(p, "error")
  /\ UNCHANGED <<call, body, names, target, held, stray>>

\* path.exists(), asked after the comparison above.
Exists(p) ==
  /\ pc[p] = "exists"
  /\ IF target # NoInode THEN Return(p, "exists")
     ELSE Goto(p, "create") /\ UNCHANGED <<temp, result>>
  /\ UNCHANGED <<call, body, names, target, held, stray>>

\* create_dir_all and create_unique_temp: create_new yields a file of this
\* call's own, or the call fails (no space, 128 collisions, no permission).
Free(f) == f \notin names /\ f # target /\ \A p \in Publishers : temp[p] # f

CreateTemp(p) ==
  /\ pc[p] = "create"
  /\ \/ \E f \in Inodes :
          /\ Free(f)
          /\ temp' = [temp EXCEPT ![p] = f]
          /\ names' = names \cup {f}
          /\ body' = [body EXCEPT ![f] = NewBody(call[p])]
          /\ Goto(p, "write")
          /\ UNCHANGED result
     \/ Return(p, "error") /\ UNCHANGED <<names, body>>
  /\ UNCHANGED <<call, target, held, stray>>

\* Every failure after the temporary file exists ends in a clean-up that keeps
\* the error it found.
Fail(p, r) == Goto(p, "cleanup") /\ result' = [result EXCEPT ![p] = r]

\* Slip: an empty or short file is linked.
WriteShort(p) ==
  /\ pc[p] = "write"
  /\ \/ /\ ~Whole(temp[p])
        /\ body' = [body EXCEPT ![temp[p]].written = @ + 1]
        /\ UNCHANGED <<pc, result>>
     \/ Goto(p, "link") /\ UNCHANGED <<body, result>>
     \/ Fail(p, "error") /\ UNCHANGED body
  /\ UNCHANGED <<call, temp, names, target, held, stray>>

\* One write_all, or the flush after the last one; either may fail.
Write(p) ==
  /\ pc[p] = "write"
  /\ \/ /\ ~Whole(temp[p])
        /\ body' = [body EXCEPT ![temp[p]].written = @ + 1]
        /\ UNCHANGED <<pc, result>>
     \/ Whole(temp[p]) /\ Goto(p, "link") /\ UNCHANGED <<body, result>>
     \/ Fail(p, "error") /\ UNCHANGED body
  /\ UNCHANGED <<call, temp, names, target, held, stray>>

\* Slip: rename instead of hard_link, which replaces what is there.
LinkReplacing(p) ==
  /\ pc[p] = "link"
  /\ SetTarget(temp[p])
  /\ Goto(p, "unlink")
  /\ UNCHANGED <<call, temp, body, names, result, stray>>

\* hard_link never replaces: it takes the path only while the path is empty.
Link(p) ==
  /\ pc[p] = "link"
  /\ \/ /\ target = NoInode
        /\ SetTarget(temp[p])
        /\ Goto(p, "unlink")
        /\ UNCHANGED result
     \/ /\ target # NoInode
        /\ IF call[p].mode = "parts" THEN Goto(p, "recheck") /\ UNCHANGED result
           ELSE Fail(p, "exists")
        /\ UNCHANGED <<target, held>>
     \/ Fail(p, "error") /\ UNCHANGED <<target, held>>
  /\ UNCHANGED <<call, temp, body, names, stray>>

\* The link found the path taken: an identical winner is accepted.
Recheck(p) ==
  /\ pc[p] = "recheck"
  /\ \/ Matches(p) /\ Goto(p, "unlink") /\ UNCHANGED result
     \/ ~Matches(p) /\ Fail(p, "exists")
     \/ Fail(p, "error")
  /\ UNCHANGED <<call, temp, body, names, target, held, stray>>

\* Slip: the result of remove_file is ignored.
UnlinkUnchecked(p) ==
  /\ pc[p] = "unlink"
  /\ Return(p, "ok") /\ names' \in {names, names \ {temp[p]}}
  /\ UNCHANGED <<call, body, target, held, stray>>

\* remove_file on the temporary name decides what a published call returns.
Unlink(p) ==
  /\ pc[p] = "unlink"
  /\ \/ Return(p, "ok") /\ names' = names \ {temp[p]}
     \/ Fail(p, "error") /\ UNCHANGED <<temp, names>>
  /\ UNCHANGED <<call, body, target, held, stray>>

\* Best-effort removal after a failure: the temporary name may stay behind.
Cleanup(p) ==
  /\ pc[p] = "cleanup"
  /\ Return(p, result[p])
  /\ names' \in {names, names \ {temp[p]}}
  /\ stray' = stray \cup (names' \cap {temp[p]})
  /\ UNCHANGED <<call, body, target, held>>

\* The publishing process dies: its temporary name stays, nothing is returned.
Crash(p) ==
  /\ pc[p] # "idle"
  /\ Return(p, "none")
  /\ stray' = stray \cup (names \cap {temp[p]})
  /\ UNCHANGED <<call, body, names, target, held>>

\* The host evicts the artifact from its cache.
Evict ==
  /\ target # NoInode
  /\ SetTarget(NoInode)
  /\ UNCHANGED <<pc, call, temp, body, names, result, stray>>

Step(p) ==
  \/ Compare(p) \/ Exists(p) \/ CreateTemp(p) \/ Write(p) \/ Link(p)
  \/ Recheck(p) \/ Unlink(p) \/ Cleanup(p)

Next == Evict \/ \E p \in Publishers : Begin(p) \/ Step(p) \/ Crash(p)

Spec == Init /\ [][Next]_vars

-----------------------------------------------------------------------------
\* The path never shows a prefix, nor a file some call still writes, whatever
\* the interleaving, the failures and the crashes (output.rs l.114-128).
NeverPartial ==
  /\ Visible # "partial"
  /\ \A p \in Publishers : pc[p] = "write" => target # temp[p]

\* Every temporary name belongs to a running call, or to one that died or could
\* not clean up, and nobody opens or removes what such a call left.  So a call
\* that returned Ok left none, nor did one whose clean-up succeeded: every other
\* way out has removed the name (l.137-142, create_unique_temp).
NamesAccountedFor ==
  /\ names \ stray = {temp[p] : p \in Publishers} \ {NoInode}
  /\ stray \subseteq names

\* A call that returned Ok has had its own bytes at the path during the call,
\* whether it linked them or found them there.
OkMeansPublished ==
  \A p \in Publishers :
    pc[p] = "idle" /\ result[p] = "ok" => call[p].content \in held[p]

\* A call answers "already exists" only if the path held an artifact during
\* the call that it was not allowed to accept: for mode "parts" an artifact
\* with other bytes (l.104-109, "output already exists with different content").
ConflictIsReal ==
  \A p \in Publishers :
    /\ pc[p] = "idle"
    /\ result[p] = "exists"
    /\ call[p].mode = "parts"
    => held[p] \ {call[p].content} # {}

\* No step replaces or alters an artifact at the path: readers of the cache
\* see one immutable file until the host evicts it.
Cell == INSTANCE WriteOnceFile WITH cell <- Visible
WriteOnce == Cell!Spec
=============================================================================
