--------------------------- MODULE PacketTimeline ---------------------------
(***************************************************************************)
(* Packets and their time (packet/mod.rs): rescaling between time scales,  *)
(* and the planner that cuts a track's packets into chunks.  A packet is   *)
(* a record of its source offset, size and key flag with pts, dts and      *)
(* duration in units of 1/scale s.  Packets come in decode order, so their *)
(* presentation times may run backwards.                                   *)
(***************************************************************************)
EXTENDS Integers, Sequences

MillisPerSecond == 1000

Larger(a, b) == IF a >= b THEN a ELSE b
Smaller(a, b) == IF a <= b THEN a ELSE b
\* Rust's saturating_sub on unsigned integers.
Minus(a, b) == Larger(a - b, 0)

\* The sum of a sequence of numbers.
Total(s) ==
  LET sum[n \in 0 .. Len(s)] == IF n = 0 THEN 0 ELSE sum[n - 1] + s[n]
  IN  sum[Len(s)]

\* The elements of a sequence at some of its indexes, in their order (filter).
Kept(s, indexes) ==
  LET kept[n \in 0 .. Len(s)] ==
        IF n = 0 THEN <<>>
        ELSE IF n \in indexes THEN Append(kept[n - 1], s[n]) ELSE kept[n - 1]
  IN  kept[Len(s)]

PacketType == [scale : Nat, offset : Nat, size : Nat, pts : Nat, dts : Nat,
               duration : Nat, key : BOOLEAN]

\* Rounds towards zero; a packet's times are never negative.
ToMillis(units, scale) ==
  IF scale = 0 THEN 0 ELSE (units * MillisPerSecond) \div scale
Rescale(units, from, to) == (units * to) \div Larger(from, 1)

PtsMs(p) == ToMillis(p.pts, p.scale)
DtsMs(p) == ToMillis(p.dts, p.scale)
DurationMs(p) == ToMillis(p.duration, p.scale)
\* packet_end_ms, also the end TrackChunkPlanner uses.
EndMs(p) == PtsMs(p) + DurationMs(p)

Packet(scale, offset, size, pts, dts, duration, key) ==
  [scale |-> scale, offset |-> offset, size |-> size, pts |-> pts, dts |-> dts,
   duration |-> duration, key |-> key]

(***************************************************************************)
(* A chunk covers the packets first .. last of the track (the code's       *)
(* packet_range is the half-open range of the zero-based indexes).         *)
(***************************************************************************)
Chunk(start, end, first, last, aligned) ==
  [start |-> start, duration |-> Minus(end, start), first |-> first, last |-> last,
   aligned |-> aligned]

\* Slip: a chunk is cut at any packet once it is long enough.
CutsAnywhere(target, start, count, packet) ==
  count > 0 /\ Minus(PtsMs(packet), start) >= target

\* A keyframe that is far enough from the chunk's start opens the next chunk.
Cuts(target, start, count, packet) ==
  count > 0 /\ packet.key /\ Minus(PtsMs(packet), start) >= target

NewPlanner == [chunks |-> <<>>, count |-> 0, from |-> 1, start |-> 0, end |-> 0,
               aligned |-> FALSE]

OpenChunk(planner) ==
  Chunk(planner.start, planner.end, planner.from, planner.count, planner.aligned)

\* TrackChunkPlanner::push.
Pushed(planner, packet, target) ==
  LET number == planner.count + 1
      opened == [planner EXCEPT !.from = number, !.start = PtsMs(packet),
                                !.aligned = packet.key]
      placed == IF planner.count = 0 THEN opened
                ELSE IF Cuts(target, planner.start, planner.count, packet)
                THEN [opened EXCEPT !.chunks = Append(@, OpenChunk(planner))]
                ELSE planner
  IN  [placed EXCEPT !.end = EndMs(packet), !.count = number]

\* TrackChunkPlanner::finish.
Finished(planner) ==
  IF planner.count = 0 THEN <<>> ELSE Append(planner.chunks, OpenChunk(planner))

\* plan_track_chunks: the planner's state after each prefix of the packets.
PlanTrackChunks(packets, target) ==
  LET after[n \in 0 .. Len(packets)] ==
        IF n = 0 THEN NewPlanner ELSE Pushed(after[n - 1], packets[n], target)
  IN  IF target = 0 THEN <<>> ELSE Finished(after[Len(packets)])

-----------------------------------------------------------------------------
\* What a planner should do: the chunks cut all the packets into runs, and every
\* run but the first begins at a keyframe, a target after the run before it.
Partition(chunks, packets, target) ==
  /\ chunks # <<>> /\ chunks[1].first = 1 /\ chunks[Len(chunks)].last = Len(packets)
  /\ \A n \in 1 .. Len(chunks) : chunks[n].first <= chunks[n].last
  /\ \A n \in 1 .. Len(chunks) - 1 :
       /\ chunks[n].last + 1 = chunks[n + 1].first
       /\ packets[chunks[n + 1].first].key
       /\ chunks[n + 1].start - chunks[n].start >= target
=============================================================================
