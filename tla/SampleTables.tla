---------------------------- MODULE SampleTables ----------------------------
(***************************************************************************)
(* The sample tables of an MP4 track (container/mp4.rs): the boxes of stbl *)
(* as rows, the checks that make them a SampleTable, and the two walks     *)
(* over a table, one that lists its packets and one that cuts it into      *)
(* chunks without listing them.  A box that is not in the file is NoBox.   *)
(***************************************************************************)
EXTENDS PacketTimeline, FiniteSets

CONSTANTS NoBox,             \* an optional box that is absent
          MaxTableEntries    \* ParseLimits: rows of a box, samples of a track

\* The rows of the boxes are unsigned numbers; only an offset may be negative.
BoxesType ==
  [stsz : Seq(Nat), stts : Seq(Nat \X Nat), ctts : {NoBox} \cup Seq(Nat \X Int),
   stss : {NoBox} \cup Seq(Nat), stco : {NoBox} \cup Seq(Nat),
   stsc : Seq([first : Nat, samples : Nat])]

\* sums[k] is the sum of the first k elements of a sequence of numbers.
PrefixSums(s) ==
  LET sums[k \in 0 .. Len(s)] == IF k = 0 THEN 0 ELSE sums[k - 1] + s[k]
  IN  sums

TotalOf(s) == PrefixSums(s)[Len(s)]
SmallestOf(S) == CHOOSE x \in S : \A y \in S : x <= y
LargestOf(S) == CHOOSE x \in S : \A y \in S : x >= y

\* Rows <<count, value>> as the sequence of their values.
Expanded(rows) ==
  LET before == PrefixSums([r \in DOMAIN rows |-> rows[r][1]])
  IN  [i \in 1 .. before[Len(rows)] |->
         rows[SmallestOf({r \in DOMAIN rows : i <= before[r]})][2]]

\* parse_stts, parse_ctts: the rows stand for exactly one value per sample.
CoversSamples(rows, count) ==
  /\ Len(rows) <= MaxTableEntries
  /\ TotalOf([r \in DOMAIN rows |-> rows[r][1]]) = count

\* parse_stss: every number is that of a sample, none is named twice.
NamesSamples(stss, count) ==
  /\ Len(stss) <= MaxTableEntries
  /\ \A k \in DOMAIN stss : stss[k] \in 1 .. count
  /\ Cardinality({stss[k] : k \in DOMAIN stss}) = Len(stss)

\* parse_sample_table_with_limits: which boxes make a table.
WellFormed(boxes) ==
  LET count == Len(boxes.stsz)
  IN  /\ count <= MaxTableEntries
      /\ CoversSamples(boxes.stts, count)
      /\ boxes.ctts # NoBox => CoversSamples(boxes.ctts, count)
      /\ boxes.stss # NoBox => NamesSamples(boxes.stss, count)
      /\ boxes.stco # NoBox /\ Len(boxes.stco) <= MaxTableEntries
      /\ Len(boxes.stsc) \in 1 .. MaxTableEntries

\* The table of well-formed boxes; without a box, no offset and all are keys.
TableOf(boxes) ==
  LET samples == DOMAIN boxes.stsz
  IN  [sizes |-> boxes.stsz,
       durations |-> Expanded(boxes.stts),
       offsets |-> IF boxes.ctts = NoBox THEN [i \in samples |-> 0]
                   ELSE Expanded(boxes.ctts),
       keys |-> [i \in samples |->
                   boxes.stss = NoBox \/ \E k \in DOMAIN boxes.stss : boxes.stss[k] = i],
       chunkOffsets |-> boxes.stco,
       perChunk |-> boxes.stsc]

\* SampleTable::normalized_timing: one shift for the track makes every time
\* non-negative.
DecodeTimes(table) ==
  [i \in DOMAIN table.sizes |-> PrefixSums(table.durations)[i - 1]]
Shift(table) ==
  LET dts == DecodeTimes(table)
  IN  -SmallestOf({0} \cup {dts[i] : i \in DOMAIN dts}
                      \cup {dts[i] + table.offsets[i] : i \in DOMAIN dts})

\* SampleTable::advance_sample_to_chunk: the row of stsc in force at a chunk.
\* The walk never goes back, so it stops before the first row that is too late.
RowOfChunk(table, chunk) ==
  LargestOf({r \in DOMAIN table.perChunk :
               \A q \in 2 .. r : table.perChunk[q].first <= chunk})

SamplesInChunk(table) ==
  [c \in DOMAIN table.chunkOffsets |-> table.perChunk[RowOfChunk(table, c)].samples]

\* Samples the chunks have room for; the others are not reachable in the file.
Placed(table) == Smaller(Len(table.sizes), TotalOf(SamplesInChunk(table)))

\* The chunk of sample i, then the bytes of the samples before it in the chunk.
SourceOffset(table, i) ==
  LET room == PrefixSums(SamplesInChunk(table))
      c == SmallestOf({k \in DOMAIN table.chunkOffsets : i <= room[k]})
      bytes == PrefixSums(table.sizes)
  IN  table.chunkOffsets[c] + bytes[i - 1] - bytes[room[c - 1]]

\* SampleTable::into_packets.
IntoPackets(table, scale) ==
  LET dts == DecodeTimes(table)
      shift == Shift(table)
  IN  [i \in 1 .. Placed(table) |->
         Packet(scale, SourceOffset(table, i), table.sizes[i],
                dts[i] + table.offsets[i] + shift, dts[i] + shift,
                table.durations[i], table.keys[i])]

\* One sample of SampleTable::chunk_plan, whose first chunk starts at zero
\* and whose ends are those of the exact sum.
Tabled(planner, packet, target) ==
  LET number == planner.count + 1
      placed == IF Cuts(target, planner.start, planner.count, packet)
                THEN [planner EXCEPT !.chunks = Append(@, OpenChunk(planner)),
                                     !.from = number, !.start = PtsMs(packet),
                                     !.aligned = packet.key]
                ELSE planner
  IN  [placed EXCEPT !.end = ToMillis(packet.pts + packet.duration, packet.scale),
                     !.count = number]

\* SampleTable::chunk_plan.
TableChunkPlan(table, scale, target) ==
  LET packets == IntoPackets(table, scale)
      after[n \in 0 .. Len(packets)] ==
        IF n = 0 THEN [NewPlanner EXCEPT !.aligned = table.keys[1]]
        ELSE Tabled(after[n - 1], packets[n], target)
      last == after[Len(packets)]
  IN  IF table.sizes = <<>> \/ target = 0 THEN <<>>
      ELSE Append(last.chunks, OpenChunk(last))
=============================================================================
