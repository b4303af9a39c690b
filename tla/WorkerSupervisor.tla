-------------------------- MODULE WorkerSupervisor --------------------------
(***************************************************************************)
(* Work admitted by one EngineRuntime: WorkerSupervisor::run calls, each   *)
(* supervising a child process (worker.rs), and in-process source sessions *)
(* opened by MediaSource::open_with_context (source.rs).  Their owners may *)
(* stop them at any time through a shared, permanent WorkControl (work.rs).*)
(* A deadline and a cancellation act alike: check() fails ever after.      *)
(***************************************************************************)
EXTENDS EngineRuntime, FiniteSets

CONSTANTS Workers,      \* threads that call WorkerSupervisor::run
          Sources,      \* threads that open and drop a source session
          Controls,     \* WorkControl values, shared by their clones
          ControlOf     \* which control each thread was given

ASSUME ActorAssumption == Workers \cap Sources = {}
ASSUME FiniteAssumption == IsFiniteSet(Workers) /\ IsFiniteSet(Sources)
ASSUME ControlAssumption == ControlOf \in [Workers \cup Sources -> Controls]

Actors == Workers \cup Sources

VARIABLES stopped,   \* controls that are cancelled or past their deadline
          pc,        \* where each thread stands
          lease,     \* threads holding a SessionLease
          child,     \* the state of each worker's child process
          oversize,  \* children that wrote more than OUTPUT_LIMIT
          expired,   \* workers whose hard timeout has elapsed
          result,    \* what each finished run() returned
          tooLate    \* history: the control was stopped before the spawn

vars == <<policy, sessions, stopped, pc, lease, child, oversize, expired,
          result, tooLate>>
pool == <<policy, sessions, lease>>

WorkerPc == {"idle", "admit", "spawn", "check", "wait", "read", "reap", "release"}
SourcePc == {"idle", "admit", "opening", "open", "release"}
Running == {"running", "killed"}
ChildStates == Running \cup {"none", "succeeded", "failed", "dead", "reaped"}
Results == {"none", "ok", "stopped", "busy", "timeout", "oversize", "status", "error"}

TypeOK ==
  /\ policy \in PolicyType /\ Valid(policy) /\ sessions \in 0..Limit(policy)
  /\ stopped \in SUBSET Controls
  /\ pc \in [Actors -> WorkerPc \cup SourcePc]
  /\ \A w \in Workers : pc[w] \in WorkerPc
  /\ \A s \in Sources : pc[s] \in SourcePc
  /\ lease \in SUBSET Actors
  /\ child \in [Workers -> ChildStates]
  /\ oversize \in SUBSET Workers /\ expired \in SUBSET Workers
  /\ result \in [Workers -> Results]
  /\ tooLate \in SUBSET Workers

Init ==
  /\ RuntimeInit
  /\ stopped = {} /\ lease = {} /\ oversize = {} /\ expired = {} /\ tooLate = {}
  /\ pc = [a \in Actors |-> "idle"]
  /\ child = [w \in Workers |-> "none"]
  /\ result = [w \in Workers |-> "none"]

-----------------------------------------------------------------------------
\* Slip: a stopped control is not noticed.
StoppedNever(a) == FALSE

\* WorkControl::check, which looks at the cancellation, then the deadline.
Stopped(a) == ControlOf[a] \in stopped

Goto(a, l) == pc' = [pc EXCEPT ![a] = l]

\* WorkControl::cancel, or the deadline passing.
Stop(c) ==
  /\ c \notin stopped
  /\ stopped' = stopped \cup {c}
  /\ UNCHANGED <<pool, pc, child, oversize, expired, result, tooLate>>

\* run() leaves with r; locals are dropped in reverse: the child, then the lease.
Leave(w, r) ==
  /\ result' = [result EXCEPT ![w] = r]
  /\ Goto(w, IF child[w] # "none" THEN "reap"
             ELSE IF w \in lease THEN "release" ELSE "idle")

\* run() is called: control.check() comes first.
Call(w) ==
  /\ pc[w] = "idle"
  /\ child' = [child EXCEPT ![w] = "none"]
  /\ oversize' = oversize \ {w}
  /\ expired' = expired \ {w}
  /\ tooLate' = tooLate \ {w}
  /\ IF Stopped(w) THEN result' = [result EXCEPT ![w] = "stopped"] /\ UNCHANGED pc
     ELSE result' = [result EXCEPT ![w] = "none"] /\ Goto(w, "admit")
  /\ UNCHANGED <<pool, stopped>>

\* runtime.admit() fails at once when the pool is busy.
Reserve(w) ==
  /\ pc[w] = "admit"
  /\ IF Busy THEN Leave(w, "busy") /\ UNCHANGED <<sessions, lease>>
     ELSE Admit /\ lease' = lease \cup {w} /\ Goto(w, "spawn") /\ UNCHANGED result
  /\ UNCHANGED <<policy, stopped, child, oversize, expired, tooLate>>

\* Spool files and spawn; each may fail, and then there is no child to reap.
Spawn(w) ==
  /\ pc[w] = "spawn"
  /\ \/ /\ child' = [child EXCEPT ![w] = "running"]
        /\ tooLate' = IF ControlOf[w] \in stopped THEN tooLate \cup {w} ELSE tooLate
        /\ Goto(w, "check")
        /\ UNCHANGED result
     \/ Leave(w, "error") /\ UNCHANGED <<child, tooLate>>
  /\ UNCHANGED <<pool, stopped, oversize, expired>>

\* Top of the polling loop: control, hard timeout, spooled output size.
Checkpoint(w) ==
  /\ pc[w] = "check"
  /\ \/ Stopped(w) /\ Leave(w, "stopped")
     \/ ~Stopped(w) /\ w \in expired /\ Leave(w, "timeout")
     \/ ~Stopped(w) /\ w \notin expired /\ w \in oversize /\ Leave(w, "oversize")
     \/ ~Stopped(w) /\ w \notin expired /\ Leave(w, "error")
     \/ /\ ~Stopped(w) /\ w \notin expired /\ w \notin oversize
        /\ Goto(w, "wait") /\ UNCHANGED result
  /\ UNCHANGED <<pool, stopped, child, oversize, expired, tooLate>>

\* try_wait: collect a child that has exited, or sleep and poll again.
TryWait(w) ==
  /\ pc[w] = "wait"
  /\ \/ child[w] = "running" /\ Goto(w, "check") /\ UNCHANGED result
     \/ child[w] \in {"succeeded", "failed"} /\ Goto(w, "read") /\ UNCHANGED result
     \/ Leave(w, "error")
  /\ UNCHANGED <<pool, stopped, child, oversize, expired, tooLate>>

\* read_output re-checks the size; then the exit status decides.
ReadOutput(w) ==
  /\ pc[w] = "read"
  /\ \/ w \in oversize /\ Leave(w, "oversize")
     \/ w \notin oversize /\ child[w] = "failed" /\ Leave(w, "status")
     \/ w \notin oversize /\ child[w] = "succeeded" /\ Leave(w, "ok")
     \/ Leave(w, "error")
  /\ UNCHANGED <<pool, stopped, child, oversize, expired, tooLate>>

\* Slip: the child is waited for without being killed.
KillNever(w) == FALSE

\* ReapedChild::drop kills a child that still runs ...
Kill(w) ==
  /\ pc[w] = "reap" /\ child[w] = "running"
  /\ child' = [child EXCEPT ![w] = "killed"]
  /\ UNCHANGED <<pool, stopped, pc, oversize, expired, result, tooLate>>

\* Slip: drop does not wait for the killed child.
WaitNot(w) ==
  /\ pc[w] = "reap" /\ child[w] # "running"
  /\ Goto(w, "release")
  /\ UNCHANGED <<pool, stopped, child, oversize, expired, result, tooLate>>

\* ... and waits for its end.
Wait(w) ==
  /\ pc[w] = "reap" /\ child[w] \in {"succeeded", "failed", "dead"}
  /\ child' = [child EXCEPT ![w] = "reaped"]
  /\ Goto(w, "release")
  /\ UNCHANGED <<pool, stopped, oversize, expired, result, tooLate>>

\* Slip: the lease is forgotten without giving its slot back.
ReleaseLeaking(a) ==
  /\ pc[a] = "release"
  /\ lease' = lease \ {a}
  /\ Goto(a, "idle")
  /\ UNCHANGED <<policy, sessions, stopped, child, oversize, expired, result, tooLate>>

\* SessionLease::drop, after everything the lease covered is gone.
ReleaseLease(a) ==
  /\ pc[a] = "release"
  /\ Release /\ lease' = lease \ {a}
  /\ Goto(a, "idle")
  /\ UNCHANGED <<policy, stopped, child, oversize, expired, result, tooLate>>

\* MediaSource::open_with_context: control.check(), then admit().
OpenSource(s) ==
  /\ pc[s] = "idle" /\ ~Stopped(s)
  /\ Goto(s, "admit")
  /\ UNCHANGED <<pool, stopped, child, oversize, expired, result, tooLate>>

ReserveSource(s) ==
  /\ pc[s] = "admit"
  /\ IF Busy THEN Goto(s, "idle") /\ UNCHANGED <<sessions, lease>>
     ELSE Admit /\ lease' = lease \cup {s} /\ Goto(s, "opening")
  /\ UNCHANGED <<policy, stopped, child, oversize, expired, result, tooLate>>

\* Metadata reads may fail; the closing validate_current() re-checks the control.
OpenEnds(s) ==
  /\ pc[s] = "opening"
  /\ \/ ~Stopped(s) /\ Goto(s, "open")
     \/ Goto(s, "release")
  /\ UNCHANGED <<pool, stopped, child, oversize, expired, result, tooLate>>

\* The owner drops the session; Rust drops the lease with it.
CloseSource(s) ==
  /\ pc[s] = "open"
  /\ Goto(s, "release")
  /\ UNCHANGED <<pool, stopped, child, oversize, expired, result, tooLate>>

-----------------------------------------------------------------------------
\* The child process and the clock.
ChildExits(w) ==
  /\ child[w] = "running"
  /\ \E end \in {"succeeded", "failed"} : child' = [child EXCEPT ![w] = end]
  /\ UNCHANGED <<pool, stopped, pc, oversize, expired, result, tooLate>>

ChildWrites(w) ==
  /\ child[w] = "running" /\ w \notin oversize
  /\ oversize' = oversize \cup {w}
  /\ UNCHANGED <<pool, stopped, pc, child, expired, result, tooLate>>

ChildDies(w) ==
  /\ child[w] = "killed"
  /\ child' = [child EXCEPT ![w] = "dead"]
  /\ UNCHANGED <<pool, stopped, pc, oversize, expired, result, tooLate>>

Expire(w) ==
  /\ pc[w] \in {"spawn", "check", "wait"} /\ w \notin expired
  /\ expired' = expired \cup {w}
  /\ UNCHANGED <<pool, stopped, pc, child, oversize, result, tooLate>>

RunStep(w) ==
  \/ Reserve(w) \/ Spawn(w) \/ Checkpoint(w) \/ TryWait(w) \/ ReadOutput(w)
  \/ Kill(w) \/ Wait(w) \/ ReleaseLease(w)
OpenStep(s) == ReserveSource(s) \/ OpenEnds(s) \/ ReleaseLease(s)
ChildStep(w) == ChildExits(w) \/ ChildWrites(w) \/ ChildDies(w)

Next ==
  \/ \E c \in Controls : Stop(c)
  \/ \E w \in Workers : Call(w) \/ RunStep(w) \/ ChildStep(w) \/ Expire(w)
  \/ \E s \in Sources : OpenSource(s) \/ OpenStep(s) \/ CloseSource(s)

Spec == Init /\ [][Next]_vars

\* Threads are scheduled, time passes and SIGKILL ends a process.  A child need
\* never exit by itself and nobody need ever stop a control.
Fairness ==
  \A w \in Workers : WF_vars(RunStep(w)) /\ WF_vars(Expire(w)) /\ WF_vars(ChildDies(w))
FairSpec == Spec /\ Fairness

-----------------------------------------------------------------------------
\* The counter is the number of leases alive, over every early return, error
\* and drop of both kinds of holder: no slot leaks, none is given back twice, and
\* no lease is given out beyond the limit.
LeasesCounted == sessions = Cardinality(lease) /\ sessions <= Limit(policy)

\* Child processes and open sources never exceed the configured simultaneous
\* sessions nor, at one reservation each, the aggregate memory (l.196-214).
Working == {w \in Workers : child[w] \in Running}
             \cup {s \in Sources : pc[s] \in {"opening", "open"}}
WorkWithinReservations ==
  /\ Cardinality(Working) <= policy.maxSessions
  /\ Cardinality(Working) * policy.sessionMemory <= policy.aggregateMemory

\* A child process runs only inside its run() call and under its lease, however
\* that call ends: its slot is not reusable before the child is gone.
NoOrphans ==
  \A w \in Workers :
    /\ child[w] \in Running => w \in lease
    /\ pc[w] \in {"idle", "release"} => child[w] \in {"none", "reaped"}

\* The first checkpoint follows the spawn, so a run whose control was stopped
\* before its child existed never reports success, and neither does one whose
\* child wrote more than the limit after the last size check.
OkIsTimely ==
  \A w \in Workers :
    pc[w] = "idle" /\ result[w] = "ok" => w \notin tooLate \cup oversize

\* A child's own pool is valid, admits exactly one session, and the pools of as
\* many children as may run fit the host's aggregate together.
ChildPoolsFit ==
  /\ Valid(ChildPolicy(policy)) /\ Limit(ChildPolicy(policy)) = 1
  /\ Limit(policy) * ChildPolicy(policy).aggregateMemory <= policy.aggregateMemory

\* Every run() returns, even when its child hangs: the hard timeout ends it.
RunsEnd == \A w \in Workers : pc[w] # "idle" ~> pc[w] = "idle"
=============================================================================
