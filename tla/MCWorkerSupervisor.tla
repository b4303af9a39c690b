------------------------- MODULE MCWorkerSupervisor -------------------------
EXTENDS WorkerSupervisor, TLC

CONSTANTS w1, w2, s1, s2, shared, own

MCControlOf == [a \in Actors |-> IF a = s2 THEN own ELSE shared]

MCPolicy(session, aggregate, count, ceiling) ==
  [sessionMemory |-> session, aggregateMemory |-> aggregate, maxSessions |-> count,
   codecThreads |-> 2, framePixels |-> 1, ceiling |-> [c \in Ceilings |-> ceiling]]

\* Limited by memory with a remainder (one and two sessions), by the count, and
\* four that EngineRuntime::new refuses: too little session memory, no aggregate
\* for one session, a ceiling of zero, a sum that overflows.
MCPolicies == {MCPolicy(5, 9, 3, 1), MCPolicy(5, 11, 3, 1), MCPolicy(5, 30, 1, 1),
               MCPolicy(5, 9, 3, 2), MCPolicy(5, 4, 3, 1), MCPolicy(5, 9, 3, 0),
               MCPolicy(30, 60, 2, 4)}
=============================================================================
