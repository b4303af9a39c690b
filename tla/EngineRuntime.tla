--------------------------- MODULE EngineRuntime ---------------------------
(***************************************************************************)
(* The shared admission pool of a host process (resources.rs): a validated *)
(* ResourcePolicy and a mutex-protected count of admitted sessions.  Every *)
(* source session and every supervised worker holds one lease of it.       *)
(***************************************************************************)
EXTENDS Integers

CONSTANTS Policies,   \* the policies a host may configure, validated or not
          UsizeMax    \* largest usize: memory accounting is checked

Ceilings == {"metadata", "index", "compressed", "decoded", "output"}
PolicyType == [sessionMemory : Nat, aggregateMemory : Nat, maxSessions : Nat,
               codecThreads : Nat, framePixels : Nat, ceiling : [Ceilings -> Nat]]

ASSUME PolicyAssumption == Policies \subseteq PolicyType

VARIABLES policy,     \* the policy of this pool
          sessions    \* EngineRuntime::sessions, the admitted leases

CeilingSum(c) ==
  c["metadata"] + c["index"] + c["compressed"] + c["decoded"] + c["output"]

\* ResourcePolicy::validate.
Valid(p) ==
  /\ p.maxSessions > 0 /\ p.framePixels > 0 /\ p.codecThreads \in 1..64
  /\ \A c \in Ceilings : p.ceiling[c] > 0
  /\ CeilingSum(p.ceiling) <= UsizeMax
  /\ CeilingSum(p.ceiling) <= p.sessionMemory
  /\ p.sessionMemory <= p.aggregateMemory

\* Slip: the aggregate budget is forgotten, only max_sessions counts.
LimitBySessions(p) == p.maxSessions

\* How many leases the pool hands out at once.
Limit(p) ==
  LET byMemory == p.aggregateMemory \div p.sessionMemory
  IN  IF p.maxSessions < byMemory THEN p.maxSessions ELSE byMemory

\* Slip: the single-session policy keeps the host's aggregate and count.
SharedChildPolicy(p) == p

\* The policy a supervised child process receives (worker.rs l.72-74).
ChildPolicy(p) == [p EXCEPT !.aggregateMemory = p.sessionMemory, !.maxSessions = 1]

\* EngineRuntime::new: no pool exists under an invalid policy.
RuntimeInit == policy \in {p \in Policies : Valid(p)} /\ sessions = 0

\* Slip: the pool is full one lease too late.
BusyLate == sessions > Limit(policy)

Busy == sessions >= Limit(policy)
Admit == ~Busy /\ sessions' = sessions + 1
Release == sessions' = IF sessions = 0 THEN 0 ELSE sessions - 1
=============================================================================
