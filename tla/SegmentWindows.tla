--------------------------- MODULE SegmentWindows ---------------------------
(***************************************************************************)
(* How an HLS plan cuts a video track into segment windows (hls/mod.rs,    *)
(* HlsVodPlan::from_source, segment_windows, collapse_short_windows): one  *)
(* pass over the packets in decode order, one over the windows it cut.     *)
(* Every planner is a call of its own, in this or in another process.      *)
(***************************************************************************)
EXTENDS PacketTimeline

CONSTANTS Planners,    \* the calls that plan
          Tracks,      \* the packet sequences a video track may have
          Targets      \* requested segment durations in ms

MinSegmentMs == 1000   \* MIN_SEGMENT_MS
MinTargetMs == 500     \* from_source's floor of the requested duration

ASSUME TracksAssumption == Tracks \subseteq Seq(PacketType)
ASSUME TargetsAssumption == Targets \subseteq Nat

VARIABLES phase,       \* of each planner: "idle", "scan", "collapse", "planned"
          video,       \* the packets of the selected video track
          target,      \* the floored segment target
          pos,         \* the next packet, then the next window
          start,       \* start_ms of segment_windows
          latest,      \* the latest end of the packets passed
          cut,         \* the windows of segment_windows
          windows      \* the collapsed windows, the plan's when "planned"

planning == <<phase, video, target, pos, start, latest, cut, windows>>

\* Window indexes count from zero.
Window(index, from, to) == [index |-> index, start |-> from, end |-> to]
Length(w) == Minus(w.end, w.start)

PlanningInit ==
  /\ phase = [k \in Planners |-> "idle"]
  /\ video = [k \in Planners |-> <<>>]
  /\ target = [k \in Planners |-> MinTargetMs]
  /\ pos = [k \in Planners |-> 1]
  /\ start = [k \in Planners |-> 0]
  /\ latest = [k \in Planners |-> 0]
  /\ cut = [k \in Planners |-> <<>>]
  /\ windows = [k \in Planners |-> <<>>]

\* from_source with a video track that has packets.
BeginScan(k, packets, requested) ==
  /\ phase[k] = "idle" /\ packets # <<>>
  /\ phase' = [phase EXCEPT ![k] = "scan"]
  /\ video' = [video EXCEPT ![k] = packets]
  /\ target' = [target EXCEPT ![k] = Larger(requested, MinTargetMs)]
  /\ pos' = [pos EXCEPT ![k] = 2]
  /\ start' = [start EXCEPT ![k] = PtsMs(packets[1])]
  /\ latest' = [latest EXCEPT ![k] = EndMs(packets[1])]
  /\ cut' = [cut EXCEPT ![k] = <<>>]
  /\ windows' = [windows EXCEPT ![k] = <<>>]

\* Slip: the first packet after the target is cut at, keyframe or not.
OpensAnywhere(k, packet) == Minus(PtsMs(packet), start[k]) >= target[k]

\* The condition of segment_windows' loop.
OpensWindow(k, packet) == packet.key /\ Minus(PtsMs(packet), start[k]) >= target[k]

\* One packet of segment_windows.
Scan(k) ==
  /\ phase[k] = "scan" /\ pos[k] <= Len(video[k])
  /\ LET packet == video[k][pos[k]]
     IN  /\ IF OpensWindow(k, packet)
            THEN /\ cut' = [cut EXCEPT ![k] =
                              Append(@, Window(Len(@), start[k], PtsMs(packet)))]
                 /\ start' = [start EXCEPT ![k] = PtsMs(packet)]
            ELSE UNCHANGED <<cut, start>>
         /\ latest' = [latest EXCEPT ![k] = Larger(@, EndMs(packet))]
  /\ pos' = [pos EXCEPT ![k] = @ + 1]
  /\ UNCHANGED <<phase, video, target, windows>>

\* Slip: the track ends with the packet that is decoded last.
EndOfLastPacket(k) == Larger(EndMs(video[k][Len(video[k])]), start[k] + 1)

\* Where the last window ends: with the packet shown last.
TrackEnd(k) == Larger(latest[k], start[k] + 1)

\* The last window of segment_windows.
CutLast(k) ==
  /\ phase[k] = "scan" /\ pos[k] > Len(video[k])
  /\ cut' = [cut EXCEPT ![k] =
               Append(@, Window(Len(@), start[k], TrackEnd(k)))]
  /\ pos' = [pos EXCEPT ![k] = 1]
  /\ phase' = [phase EXCEPT ![k] = "collapse"]
  /\ UNCHANGED <<video, target, start, latest, windows>>

\* Slip: a short window is dropped and its time with it.
DropShort(out, w) == out

\* A short window is added to the one before it.
Absorb(out, w) == [out EXCEPT ![Len(out)].end = w.end]

\* One window of collapse_short_windows.
Collapse(k) ==
  /\ phase[k] = "collapse" /\ pos[k] <= Len(cut[k]) /\ Len(cut[k]) > 1
  /\ LET w == cut[k][pos[k]]
     IN  windows' = [windows EXCEPT ![k] =
           IF Length(w) < MinSegmentMs /\ @ # <<>> THEN Absorb(@, w) ELSE Append(@, w)]
  /\ pos' = [pos EXCEPT ![k] = @ + 1]
  /\ UNCHANGED <<phase, video, target, start, latest, cut>>

\* Slip: a short first window stays.
KeepsShortFirst(out) == out

\* A first window that is still short is given to the second, out.remove(0).
FirstAbsorbed(out) ==
  IF Len(out) > 1 /\ Length(out[1]) < MinSegmentMs
  THEN [Tail(out) EXCEPT ![1] = [out[2] EXCEPT !.start = out[1].start]]
  ELSE out

Renumbered(out) == [n \in DOMAIN out |-> [out[n] EXCEPT !.index = n - 1]]

\* The end of collapse_short_windows, which returns a single window as it is.
Plan(k) ==
  /\ phase[k] = "collapse"
  /\ \/ Len(cut[k]) = 1 /\ windows' = [windows EXCEPT ![k] = cut[k]]
     \/ /\ Len(cut[k]) > 1 /\ pos[k] > Len(cut[k])
        /\ windows' = [windows EXCEPT ![k] = Renumbered(FirstAbsorbed(@))]
  /\ phase' = [phase EXCEPT ![k] = "planned"]
  /\ UNCHANGED <<video, target, pos, start, latest, cut>>

\* The call is over, or its process has ended: its plan is gone.
Discard(k) ==
  /\ phase[k] # "idle"
  /\ phase' = [phase EXCEPT ![k] = "idle"]
  /\ video' = [video EXCEPT ![k] = <<>>]
  /\ target' = [target EXCEPT ![k] = MinTargetMs]
  /\ pos' = [pos EXCEPT ![k] = 1]
  /\ start' = [start EXCEPT ![k] = 0]
  /\ latest' = [latest EXCEPT ![k] = 0]
  /\ cut' = [cut EXCEPT ![k] = <<>>]
  /\ windows' = [windows EXCEPT ![k] = <<>>]

PlanningNext ==
  \E k \in Planners :
    \/ /\ phase[k] = "idle"
       /\ \E packets \in Tracks, requested \in Targets : BeginScan(k, packets, requested)
    \/ Scan(k) \/ CutLast(k) \/ Collapse(k) \/ Plan(k) \/ Discard(k)

PlanningSpec == PlanningInit /\ [][PlanningNext]_planning
-----------------------------------------------------------------------------
\* Every plan is a numbered timeline without gap or overlap from the first
\* packet's presentation to the last end of a packet.
WindowsTile ==
  \A k \in Planners : phase[k] = "planned" =>
    LET plan == windows[k]
    IN  /\ plan # <<>>
        /\ plan[1].start = PtsMs(video[k][1])
        /\ \A p \in DOMAIN video[k] : EndMs(video[k][p]) <= plan[Len(plan)].end
        /\ \A n \in DOMAIN plan : plan[n].index = n - 1 /\ plan[n].start < plan[n].end
        /\ \A n \in 1 .. Len(plan) - 1 : plan[n].end = plan[n + 1].start

\* No segment of a plan with several is shorter than MIN_SEGMENT_MS, wherever
\* the short windows were.
NoShortSegment ==
  \A k \in Planners : phase[k] = "planned" /\ Len(windows[k]) > 1 =>
    \A n \in DOMAIN windows[k] : Length(windows[k][n]) >= MinSegmentMs

Holds(w, p) == w.start <= PtsMs(p) /\ PtsMs(p) < w.end

\* Whatever the decode order, a frame that is shown for at least a millisecond
\* and not before the first decoded one is in exactly one segment.
EveryFrameOnce ==
  \A k \in Planners : phase[k] = "planned" =>
    \A p \in DOMAIN video[k] :
      DurationMs(video[k][p]) > 0 /\ PtsMs(video[k][p]) >= PtsMs(video[k][1]) =>
        \E n \in DOMAIN windows[k] :
          /\ Holds(windows[k][n], video[k][p])
          /\ \A m \in DOMAIN windows[k] : Holds(windows[k][m], video[k][p]) => m = n
=============================================================================
