-------------------------- MODULE PlaybackSession --------------------------
(***************************************************************************)
(* PlaybackSession::segment (engine.rs) called by several threads on one   *)
(* open session: identity check, lookup, a validated positional read of    *)
(* the payload in one or more spans (source.rs), and the counters.         *)
(***************************************************************************)
EXTENDS MediaSource

CONSTANTS Threads,    \* the callers of segment()
          Spans,      \* the span counts a chunk's payload may take
          MaxCalls    \* bound: calls per thread

\* A chunk holds at least one packet, so its payload takes at least one read.
ASSUME SpansAssumption == Spans \in SUBSET (Nat \ {0})

VARIABLES pc,         \* where each thread's call stands
          left,       \* spans its read still has to fetch
          got,        \* versions the bytes of its payload came from
          result,     \* what its last call returned
          stats,      \* PlaybackSessionCounters
          calls       \* calls made

callVars == <<pc, left, got, result, stats, calls>>
vars == <<sourceVars, callVars>>

CallPc == {"idle", "validate", "lookup", "before", "read", "after"}
Results == {"none", "ok", "SourceChanged", "NoChunk", "Source"}

TypeOK ==
  /\ SourceTypeOK
  /\ pc \in [Threads -> CallPc] /\ left \in [Threads -> Nat]
  /\ got \in [Threads -> SUBSET Versions] /\ result \in [Threads -> Results]
  /\ stats \in [requests : Nat, validations : Nat, served : Nat]
  /\ calls \in [Threads -> Nat]

Init ==
  /\ SourceInit
  /\ pc = [t \in Threads |-> "idle"] /\ left = [t \in Threads |-> 0]
  /\ got = [t \in Threads |-> {}] /\ result = [t \in Threads |-> "none"]
  /\ stats = [requests |-> 0, validations |-> 0, served |-> 0]
  /\ calls = [t \in Threads |-> 0]

-----------------------------------------------------------------------------
Goto(t, l) == pc' = [pc EXCEPT ![t] = l] /\ UNCHANGED result
Return(t, r) == pc' = [pc EXCEPT ![t] = "idle"] /\ result' = [result EXCEPT ![t] = r]

Segment(t) ==
  /\ opc = "open" /\ pc[t] = "idle" /\ calls[t] < MaxCalls
  /\ calls' = [calls EXCEPT ![t] = @ + 1]
  /\ stats' = [stats EXCEPT !.requests = @ + 1]
  /\ got' = [got EXCEPT ![t] = {}]
  /\ pc' = [pc EXCEPT ![t] = "validate"] /\ result' = [result EXCEPT ![t] = "none"]
  /\ UNCHANGED <<sourceVars, left>>

\* Every failure of the first validation is mapped to SourceChanged.
ValidateCall(t) ==
  /\ pc[t] = "validate"
  /\ \/ /\ Valid /\ Goto(t, "lookup")
        /\ stats' = [stats EXCEPT !.validations = @ + 1]
     \/ ~Valid /\ Return(t, "SourceChanged") /\ UNCHANGED stats
  /\ UNCHANGED <<sourceVars, left, got, calls>>

Lookup(t) ==
  /\ pc[t] = "lookup"
  /\ \/ \E n \in Spans : left' = [left EXCEPT ![t] = n] /\ Goto(t, "before")
     \/ Return(t, "NoChunk") /\ UNCHANGED left
  /\ UNCHANGED <<sourceVars, got, stats, calls>>

\* read_packets validates, reads span by span, and validates again.
ValidateBefore(t) ==
  /\ pc[t] = "before"
  /\ \/ Valid /\ Goto(t, "read")
     \/ Return(t, "Source")
  /\ UNCHANGED <<sourceVars, left, got, stats, calls>>

ReadSpan(t) ==
  /\ pc[t] = "read"
  /\ \/ /\ ~cancelled
        /\ got' = [got EXCEPT ![t] = @ \cup {Version(handle)}]
        /\ left' = [left EXCEPT ![t] = @ - 1]
        /\ Goto(t, IF left[t] = 1 THEN "after" ELSE "read")
     \/ Return(t, "Source") /\ UNCHANGED <<got, left>>
  /\ UNCHANGED <<sourceVars, stats, calls>>

\* Slip: the payload is returned without a second look at the source.
ValidateAfterNot(t) ==
  /\ pc[t] = "after"
  /\ Return(t, "ok") /\ stats' = [stats EXCEPT !.served = @ + 1]
  /\ UNCHANGED <<sourceVars, left, got, calls>>

ValidateAfter(t) ==
  /\ pc[t] = "after"
  /\ \/ /\ Valid /\ Return(t, "ok")
        /\ stats' = [stats EXCEPT !.served = @ + 1]
     \/ ~Valid /\ Return(t, "Source") /\ UNCHANGED stats
  /\ UNCHANGED <<sourceVars, left, got, calls>>

Call(t) ==
  \/ Segment(t) \/ ValidateCall(t) \/ Lookup(t) \/ ValidateBefore(t) \/ ReadSpan(t)
  \/ ValidateAfter(t)

Next ==
  \/ OpenStep /\ UNCHANGED callVars
  \/ WorldStep /\ UNCHANGED callVars
  \/ \E t \in Threads : Call(t)

Spec == Init /\ [][Next]_vars

-----------------------------------------------------------------------------
\* A payload that is returned consists of bytes of the one version the session
\* opened, whatever was renamed or written before, between and after its reads.
PayloadIsOriginal == \A t \in Threads : result[t] = "ok" => got[t] = {identity}
=============================================================================
