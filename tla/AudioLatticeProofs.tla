------------------------- MODULE AudioLatticeProofs -------------------------
(***************************************************************************)
(* First, the walk over a Matroska file's clusters misses no block,        *)
(* wherever it starts: for every file whose clusters do not run backwards, *)
(* all cues, right or wrong, and every window.  Relative times of blocks   *)
(* are 16-bit, so a block lies within a span of its cluster; an anchor     *)
(* that is used is a cluster within a span of its cue, and the cue is two  *)
(* spans before the window.                                                *)
(*                                                                         *)
(* Then, the published AAC frames form one lattice, for every source with  *)
(* an ascending plan, whatever segments are asked for in whatever order,   *)
(* by however many workers and after whatever failures.  The plan is made  *)
(* gapless in milliseconds; times are rounded to samples and then out to   *)
(* whole frames, so neighbouring windows still share a bound, and only a   *)
(* window that starts the stream may start at sample zero.                 *)
(*                                                                         *)
(* Then, the packets that are read for a segment are those that a walk     *)
(* through the whole file would have given, for every state the pipeline   *)
(* may be in: a walk is cut into the clusters before its first one, its    *)
(* own and those behind its last one, and of the others nothing is taken.  *)
(*                                                                         *)
(* Then, every fragment has a run of the track's pictures, from the        *)
(* segment's keyframe to the one before the next segment's, so pictures    *)
(* are published once, in decode order.                                    *)
(*                                                                         *)
(* Then, a segment that is re-encoded shows them all.  A picture is shown  *)
(* after some of those before it in decode order, and never more of them   *)
(* than the decoder holds back, so the one that is returned is the         *)
(* earliest of all that have not been; every batch then goes on where the  *)
(* one before it stopped.                                                  *)
(*                                                                         *)
(* Then, the sound is in its place.  What is read for a segment is a run   *)
(* of the source's packets that covers it, a pipeline that goes on starts  *)
(* where it stopped, and so the clock is off by the rounding of one packet *)
(* time at most, however many packets it has followed since.               *)
(*                                                                         *)
(* Last, nothing is made up: silence is heard only before the source has   *)
(* sound and after it, and a decoder that warms up never.  What is decoded *)
(* joins what there was, so feeding the encoder leaves no gap; a new       *)
(* pipeline starts two packets and more before what is heard, and the      *)
(* lookahead reaches behind the segment's end.                             *)
(***************************************************************************)
EXTENDS AudioLattice, PlanningProofs

-----------------------------------------------------------------------------
(***************************************************************************)
(* Least and greatest numbers.                                             *)
(***************************************************************************)
\* Every set of natural numbers has a least element.
LEMMA LeastNat ==
  ASSUME NEW S \in SUBSET Nat, S # {}
  PROVE  \E m \in S : \A k \in S : m <= k
<1> DEFINE Less == {ss \in Nat \X Nat : ss[1] < ss[2]}
<1>1. IsWellFoundedOn(Less, Nat)
  BY NatLessThanWellFounded DEF OpToRel
<1>2. PICK m \in S : \A k \in S : <<k, m>> \notin Less
  BY <1>1, WFMin, Zenon
<1>3. \A k, n \in Nat : k < n => <<k, n>> \in Less
  OBVIOUS
<1> HIDE DEF Less
<1>4. \A k \in S : k \in Nat /\ m \in Nat
  OBVIOUS
<1>5. \A k \in S : ~(k < m)
  BY <1>2, <1>3, <1>4
<1>6. \A k \in S : m <= k
  BY <1>4, <1>5
<1>7. QED
  BY <1>6

\* Every bounded set of natural numbers has a greatest element.
LEMMA GreatestNat ==
  ASSUME NEW S \in SUBSET Nat, S # {}, NEW bound \in Nat, \A k \in S : k <= bound
  PROVE  \E m \in S : \A k \in S : k <= m
<1> DEFINE Above == {n \in Nat : \A k \in S : k <= n}
<1>1. PICK n \in Above : \A a \in Above : n <= a
  <2>1. Above \in SUBSET Nat /\ bound \in Above
    OBVIOUS
  <2>2. QED
    BY <2>1, LeastNat, Zenon
<1>2. n \in S
  <2>1. SUFFICES ASSUME n \notin S PROVE FALSE
    OBVIOUS
  <2>2. \A k \in S : k \in Nat /\ k < n /\ k <= n - 1
    BY <1>1, <2>1
  <2>3. n - 1 \in Above
    <3>1. PICK k \in S : TRUE
      OBVIOUS
    <3>2. n - 1 \in Nat
      BY <1>1, <2>2, <3>1
    <3>3. QED
      BY <2>2, <3>2
  <2>4. QED
    BY <1>1, <2>3
<1>3. QED
  BY <1>1, <1>2

-----------------------------------------------------------------------------
(***************************************************************************)
(* Milliseconds of ticks.                                                  *)
(***************************************************************************)
\* More ticks are not fewer milliseconds.
LEMMA TicksGrow ==
  ASSUME NEW f \in FileType, NEW x \in Int, NEW y \in Int, x <= y
  PROVE  TicksToMs(f, x) \in Nat /\ TicksToMs(f, x) <= TicksToMs(f, y)
<1> DEFINE k == f.tick
<1>1. k \in Nat
  BY DEF FileType
<1> HIDE DEF k
<1>2. ASSUME NEW u \in Nat PROVE u * k \in Nat /\ (u * k) \div 1000 \in Nat
  BY <1>1
<1>3. CASE x <= 0
  BY <1>2, <1>3 DEF TicksToMs, k
<1>4. CASE x > 0
  <2>1. x * k <= y * k
    BY <1>1, <1>4
  <2>2. (x * k) \div 1000 <= (y * k) \div 1000
    BY <2>1, <1>2, <1>4
  <2>3. QED
    BY <2>2, <1>2, <1>4 DEF TicksToMs, k
<1>5. QED
  BY <1>3, <1>4

\* Together ticks are at most a millisecond more than apart.
LEMMA TicksAdd ==
  ASSUME NEW f \in FileType, NEW x \in Nat, NEW y \in Nat
  PROVE  TicksToMs(f, x + y) <= TicksToMs(f, x) + TicksToMs(f, y) + 1
<1> DEFINE k == f.tick
<1>1. k \in Nat
  BY DEF FileType
<1> HIDE DEF k
<1>2. (x + y) * k = x * k + y * k /\ x * k \in Nat /\ y * k \in Nat
  BY <1>1
<1>3. ((x + y) * k) \div 1000 <= (x * k) \div 1000 + (y * k) \div 1000 + 1
  BY <1>2
<1>4. (x * k) \div 1000 \in Nat /\ (y * k) \div 1000 \in Nat
  BY <1>2
<1>5. QED
  BY <1>3, <1>4 DEF TicksToMs, k

\* A block lies within a span of its cluster.
LEMMA BlockNearCluster ==
  ASSUME NEW f \in FileType, NEW c \in DOMAIN f.clusters,
         NEW n \in DOMAIN f.clusters[c].blocks
  PROVE  LET ms == BlockMs(f, c, f.clusters[c].blocks[n])
         IN  /\ ms \in Nat /\ ClusterMs(f, c) \in Nat /\ Span(f) \in Nat
             /\ ms <= ClusterMs(f, c) + Span(f)
             /\ ClusterMs(f, c) <= ms + Span(f)
<1> DEFINE t == f.clusters[c].time
           r == f.clusters[c].blocks[n].relative
<1>1. t \in Nat /\ r \in -FurthestTicks .. FurthestTicks - 1
  <2>1. f.clusters \in Seq(ClusterType)
    BY DEF FileType
  <2>2. f.clusters[c] \in ClusterType
    BY <2>1
  <2>3. t \in Nat /\ f.clusters[c].blocks \in Seq(BlockType)
    BY <2>2 DEF ClusterType
  <2>4. f.clusters[c].blocks[n] \in BlockType
    BY <2>3
  <2>5. QED
    BY <2>3, <2>4 DEF BlockType
<1> HIDE DEF t, r
<1>2. FurthestTicks \in Nat
  BY DEF FurthestTicks
<1>3. TicksToMs(f, t + r) <= TicksToMs(f, t) + TicksToMs(f, FurthestTicks) + 1
  <2>1. TicksToMs(f, t + r) <= TicksToMs(f, t + FurthestTicks)
    BY <1>1, <1>2, TicksGrow
  <2>2. TicksToMs(f, t + FurthestTicks)
          <= TicksToMs(f, t) + TicksToMs(f, FurthestTicks) + 1
    BY <1>1, <1>2, TicksAdd
  <2>3. /\ TicksToMs(f, t + r) \in Nat /\ TicksToMs(f, t + FurthestTicks) \in Nat
        /\ TicksToMs(f, t) \in Nat /\ TicksToMs(f, FurthestTicks) \in Nat
    BY <1>1, <1>2, TicksGrow
  <2>4. QED
    BY <2>1, <2>2, <2>3
<1>4. TicksToMs(f, t) <= TicksToMs(f, t + r) + TicksToMs(f, FurthestTicks) + 1
  <2>1. /\ TicksToMs(f, t + r) \in Nat /\ TicksToMs(f, t) \in Nat
        /\ TicksToMs(f, FurthestTicks) \in Nat
    BY <1>1, <1>2, TicksGrow
  <2>2. CASE t + r \in Nat
    <3>1. TicksToMs(f, t) <= TicksToMs(f, (t + r) + FurthestTicks)
      BY <1>1, <1>2, TicksGrow
    <3>2. TicksToMs(f, (t + r) + FurthestTicks)
            <= TicksToMs(f, t + r) + TicksToMs(f, FurthestTicks) + 1
      BY <1>1, <1>2, <2>2, TicksAdd
    <3>3. TicksToMs(f, (t + r) + FurthestTicks) \in Nat
      BY <1>1, <1>2, TicksGrow
    <3>4. QED
      BY <2>1, <3>1, <3>2, <3>3
  <2>3. CASE t + r \notin Nat
    <3>1. t <= FurthestTicks
      BY <1>1, <1>2, <2>3
    <3>2. TicksToMs(f, t) <= TicksToMs(f, FurthestTicks)
      BY <1>1, <1>2, <3>1, TicksGrow
    <3>3. QED
      BY <2>1, <3>2
  <2>4. QED
    BY <2>2, <2>3
<1>5. /\ TicksToMs(f, t + r) \in Nat /\ TicksToMs(f, t) \in Nat
      /\ TicksToMs(f, FurthestTicks) \in Nat
  BY <1>1, <1>2, TicksGrow
<1>6. QED
  BY <1>3, <1>4, <1>5 DEF BlockMs, ClusterMs, Span, t, r

-----------------------------------------------------------------------------
\* Clusters have natural times.
LEMMA ClusterTimes ==
  ASSUME NEW f \in FileType
  PROVE  \A c \in DOMAIN f.clusters : ClusterMs(f, c) \in Nat
<1>1. f.clusters \in Seq(ClusterType)
  BY DEF FileType
<1>2. \A c \in DOMAIN f.clusters : f.clusters[c] \in ClusterType
  BY <1>1
<1>3. \A c \in DOMAIN f.clusters : f.clusters[c].time \in Int
  BY <1>2 DEF ClusterType
<1>4. QED
  BY <1>3, TicksGrow DEF ClusterMs

\* Clusters none of which is before the one it follows are in order.
LEMMA ClustersInOrder ==
  ASSUME NEW f \in FileType, OrderedClusters(f, DOMAIN f.clusters),
         NEW c \in DOMAIN f.clusters, NEW d \in DOMAIN f.clusters, c <= d
  PROVE  ClusterMs(f, c) <= ClusterMs(f, d)
<1> DEFINE Wrong == {e \in DOMAIN f.clusters :
                      c <= e /\ ~(ClusterMs(f, c) <= ClusterMs(f, e))}
<1>1. DOMAIN f.clusters = 1 .. Len(f.clusters) /\ Len(f.clusters) \in Nat
  BY DEF FileType
<1>2. \A e \in DOMAIN f.clusters : ClusterMs(f, e) \in Nat
  BY ClusterTimes
<1>3. Wrong = {}
  <2>1. SUFFICES ASSUME Wrong # {} PROVE FALSE
    OBVIOUS
  <2>2. PICK e \in Wrong : \A g \in Wrong : e <= g
    <3>1. Wrong \in SUBSET Nat
      BY <1>1
    <3>2. QED
      BY <2>1, <3>1, LeastNat, Zenon
  <2>3. e - 1 \in DOMAIN f.clusters /\ c <= e - 1 /\ (e - 1) + 1 = e
    BY <1>1, <1>2, <2>2
  <2>4. ClusterMs(f, e - 1) <= ClusterMs(f, e)
    BY <2>2, <2>3 DEF OrderedClusters
  <2>5. e - 1 \notin Wrong
    BY <1>1, <2>2, <2>3
  <2>6. ClusterMs(f, c) <= ClusterMs(f, e - 1)
    BY <2>3, <2>5
  <2>7. QED
    BY <1>2, <2>2, <2>3, <2>4, <2>6
<1>4. QED
  BY <1>3

\* Cues have natural positions and times, all below some bound.
LEMMA CuesBounded ==
  ASSUME NEW f \in FileType
  PROVE  /\ CuePositions(f) \in SUBSET Nat
         /\ \A p \in CuePositions(f) : CueMs(f, p) \in Nat
         /\ \E bound \in Nat : \A p \in CuePositions(f) : p <= bound
<1> DEFINE position == [i \in DOMAIN f.cues |-> f.cues[i].position]
<1>1. Len(f.cues) \in Nat /\ DOMAIN f.cues = 1 .. Len(f.cues)
  BY DEF FileType
<1>2. \A i \in DOMAIN f.cues : /\ position[i] \in Nat /\ f.cues[i].time \in Nat
                               /\ f.cues[i].time \in Int
  <2>1. f.cues \in Seq(CueType)
    BY DEF FileType
  <2>2. \A i \in DOMAIN f.cues : f.cues[i] \in CueType
    BY <2>1
  <2>3. QED
    BY <2>2 DEF CueType
<1>3. CuePositions(f) = {position[i] : i \in DOMAIN f.cues}
  BY DEF CuePositions, ToSet
<1>4. ASSUME NEW p \in CuePositions(f) PROVE CueMs(f, p) \in Nat
  <2> DEFINE times == {TicksToMs(f, cue.time) :
                         cue \in {k \in ToSet(f.cues) : k.position = p}}
  <2>1. times # {}
    <3>1. PICK i \in DOMAIN f.cues : position[i] = p
      BY <1>3, <1>4
    <3>2. f.cues[i] \in {k \in ToSet(f.cues) : k.position = p}
      BY <3>1 DEF ToSet
    <3>3. QED
      BY <3>2
  <2>2. \A k \in ToSet(f.cues) : k.time \in Int
    <3>1. \A i \in DOMAIN f.cues : f.cues[i].time \in Int
      BY <1>2
    <3>2. ToSet(f.cues) = {f.cues[i] : i \in DOMAIN f.cues}
      BY DEF ToSet
    <3> QED
      BY <3>1, <3>2
  <2>3. times \in SUBSET Nat
    BY <2>2, TicksGrow
  <2>4. \E t \in times : \A u \in times : t <= u
    BY <2>1, <2>3, LeastNat, Zenon
  <2>5. CueMs(f, p) \in times
    BY <2>4 DEF CueMs
  <2>6. QED
    BY <2>3, <2>5
<1> HIDE DEF position
<1>5. \E bound \in Nat : \A i \in DOMAIN f.cues : position[i] <= bound
  <2> DEFINE Bounded(m) == \E bound \in Nat : \A i \in 1 .. m : position[i] <= bound
             Wrong == {m \in 0 .. Len(f.cues) : ~Bounded(m)}
  <2>1. SUFFICES ASSUME Wrong # {} PROVE FALSE
    <3>1. SUFFICES Bounded(Len(f.cues))
      BY <1>1, Zenon
    <3>2. Len(f.cues) \in 0 .. Len(f.cues)
      BY <1>1
    <3> HIDE DEF Bounded
    <3>3. QED
      BY <3>2, Zenon
  <2>2. PICK m \in Wrong : \A k \in Wrong : m <= k
    <3>1. Wrong \in SUBSET Nat
      BY <1>1
    <3>2. QED
      BY <2>1, <3>1, LeastNat, Zenon
  <2>3. m \in 0 .. Len(f.cues) /\ ~Bounded(m)
    BY <2>2, Zenon
  <2>4. m # 0
    <3>1. Bounded(0)
      <4>1. \A i \in 1 .. 0 : position[i] <= 0
        OBVIOUS
      <4>2. QED
        BY <4>1
    <3> HIDE DEF Bounded
    <3>2. QED
      BY <2>3, <3>1
  <2>5. Bounded(m - 1)
    <3>1. m - 1 \in 0 .. Len(f.cues) /\ ~(m <= m - 1)
      BY <1>1, <2>3, <2>4
    <3> HIDE DEF Bounded
    <3>2. QED
      BY <2>2, <3>1
  <2>6. PICK b \in Nat : \A i \in 1 .. m - 1 : position[i] <= b
    BY <2>5
  <2> HIDE DEF Bounded, Wrong
  <2>7. m \in DOMAIN f.cues /\ position[m] \in Nat
    BY <1>1, <1>2, <2>3, <2>4
  <2>8. \A i \in 1 .. m : position[i] <= b + position[m]
    <3>1. TAKE i \in 1 .. m
    <3>2. CASE i = m
      BY <3>2, <2>7
    <3>3. CASE i # m
      <4>1. i \in 1 .. m - 1 /\ i \in DOMAIN f.cues
        BY <1>1, <2>3, <3>3
      <4>2. position[i] <= b /\ position[i] \in Nat
        BY <1>2, <2>6, <4>1
      <4>3. QED
        BY <2>7, <4>2
    <3>4. QED
      BY <3>2, <3>3
  <2>9. b + position[m] \in Nat
    BY <2>7
  <2>10. QED
    BY <2>3, <2>8, <2>9 DEF Bounded
<1>6. CuePositions(f) \in SUBSET Nat
  BY <1>2, <1>3
<1>7. \E bound \in Nat : \A p \in CuePositions(f) : p <= bound
  BY <1>3, <1>5
<1>8. QED
  BY <1>4, <1>6, <1>7

\* The walk starts at the first cluster or at one that lies more than a span
\* before the window.
LEMMA StartsBefore ==
  ASSUME NEW f \in FileType, NEW start \in Nat
  PROVE  LET first == FirstCluster(f, start)
         IN  \/ first = 1
             \/ /\ first \in DOMAIN f.clusters
                /\ ClusterMs(f, first) + Span(f) < start
<1> DEFINE before == {p \in CuePositions(f) : BehindStart(f, CueMs(f, p), start)}
           p == CHOOSE q \in before : \A r \in before : r <= q
           near == /\ p \in DOMAIN f.clusters
                   /\ LET away == ClusterMs(f, p) - CueMs(f, p)
                      IN  away <= Span(f) /\ -away <= Span(f)
<1>1. FirstCluster(f, start) = IF Anchored(f) /\ before # {} /\ near THEN p ELSE 1
  BY DEF FirstCluster
<1>2. ASSUME before # {}, near PROVE ClusterMs(f, p) + Span(f) < start
  <2>1. before \in SUBSET Nat /\ before \subseteq CuePositions(f)
    BY CuesBounded
  <2>2. PICK bound \in Nat : \A q \in before : q <= bound
    BY CuesBounded
  <2>3. \E q \in before : \A r \in before : r <= q
    BY <1>2, <2>1, <2>2, GreatestNat, Zenon
  <2>4. p \in before
    BY <2>3, Zenon
  <2>5. BehindStart(f, CueMs(f, p), start) /\ CueMs(f, p) \in Nat
    BY <2>1, <2>4, CuesBounded
  <2>6. Span(f) \in Nat
    BY TicksGrow DEF Span, FurthestTicks
  <2>7. ClusterMs(f, p) \in Nat
    BY <1>2, ClusterTimes
  <2>8. ClusterMs(f, p) - CueMs(f, p) <= Span(f)
    BY <1>2, Zenon
  <2> HIDE DEF p
  <2>9. QED
    BY <2>5, <2>6, <2>7, <2>8 DEF BehindStart, Minus, Larger
<1>3. QED
  BY <1>1, <1>2, Zenon

\* The walk does not end before a cluster whose blocks may be inside the window.
LEMMA EndsBehind ==
  ASSUME NEW f \in FileType, OrderedClusters(f, DOMAIN f.clusters), NEW end \in Nat \ {0},
         NEW first \in Nat \ {0}, NEW c \in DOMAIN f.clusters, first <= c,
         ClusterMs(f, c) < end + Span(f)
  PROVE  LastCluster(f, first, end) \in Nat /\ c <= LastCluster(f, first, end)
<1> DEFINE past == {d \in first .. Len(f.clusters) :
                     Minus(ClusterMs(f, d), Span(f)) >= end}
           m == CHOOSE d \in past : \A e \in past : d <= e
<1>1. LastCluster(f, first, end) = IF past = {} THEN Len(f.clusters) ELSE m - 1
  BY DEF LastCluster
<1>2. DOMAIN f.clusters = 1 .. Len(f.clusters) /\ Len(f.clusters) \in Nat
  BY DEF FileType
<1>3. CASE past = {}
  BY <1>1, <1>2, <1>3
<1>4. CASE past # {}
  <2>1. past \in SUBSET Nat /\ past \subseteq DOMAIN f.clusters
    BY <1>2
  <2>2. m \in past
    <3>1. \E d \in past : \A e \in past : d <= e
      BY <1>4, <2>1, LeastNat, Zenon
    <3>2. QED
      BY <3>1, Zenon
  <2> HIDE DEF m
  <2>3. Span(f) \in Nat /\ ClusterMs(f, c) \in Nat /\ ClusterMs(f, m) \in Nat
    BY <2>1, <2>2, TicksGrow, ClusterTimes DEF Span, FurthestTicks
  <2>4. end + Span(f) <= ClusterMs(f, m)
    BY <2>2, <2>3 DEF Minus, Larger
  <2>5. CASE m <= c
    <3>1. ClusterMs(f, m) <= ClusterMs(f, c)
      BY <2>1, <2>2, <2>5, ClustersInOrder
    <3>2. QED
      BY <2>3, <2>4, <3>1
  <2>6. CASE c < m
    BY <1>1, <1>2, <1>4, <2>1, <2>2, <2>6
  <2>7. QED
    BY <1>2, <2>1, <2>2, <2>5, <2>6
<1>5. QED
  BY <1>3, <1>4

-----------------------------------------------------------------------------
(***************************************************************************)
(* Every block that is shown inside a window lies in a cluster the walk    *)
(* for the window reaches and looks into (for_each_block_until), whatever  *)
(* the cues say.                                                           *)
(***************************************************************************)
THEOREM WalkMissesNothing ==
  ASSUME NEW f \in FileType, OrderedClusters(f, DOMAIN f.clusters),
         NEW start \in Nat, NEW end \in Nat,
         NEW c \in DOMAIN f.clusters, NEW n \in DOMAIN f.clusters[c].blocks,
         start <= BlockMs(f, c, f.clusters[c].blocks[n]),
         BlockMs(f, c, f.clusters[c].blocks[n]) < end
  PROVE  LET first == FirstCluster(f, start)
         IN  /\ c \in first .. LastCluster(f, first, end)
             /\ ClusterMs(f, c) >= Minus(start, Span(f))
<1> DEFINE first == FirstCluster(f, start)
           ms == BlockMs(f, c, f.clusters[c].blocks[n])
<1>1. /\ ms \in Nat /\ ClusterMs(f, c) \in Nat /\ Span(f) \in Nat
      /\ ms <= ClusterMs(f, c) + Span(f)
      /\ ClusterMs(f, c) <= ms + Span(f)
  BY BlockNearCluster, Zenon
<1>2. start <= ms /\ ms < end
  OBVIOUS
<1> HIDE DEF ms
<1>3. ClusterMs(f, c) >= Minus(start, Span(f)) /\ ClusterMs(f, c) < end + Span(f)
  BY <1>1, <1>2 DEF Minus, Larger
<1>4. \/ first = 1
      \/ first \in DOMAIN f.clusters /\ ClusterMs(f, first) + Span(f) < start
  BY StartsBefore, Zenon
<1>5. DOMAIN f.clusters = 1 .. Len(f.clusters) /\ Len(f.clusters) \in Nat
  BY DEF FileType
<1> HIDE DEF first
<1>6. first \in Nat \ {0} /\ first <= c
  <2>1. CASE first = 1
    BY <1>5, <2>1
  <2>2. CASE first \in DOMAIN f.clusters /\ ClusterMs(f, first) + Span(f) < start
    <3>1. ClusterMs(f, first) \in Nat
      BY <2>2, ClusterTimes
    <3>2. ~(ClusterMs(f, c) <= ClusterMs(f, first))
      BY <1>1, <1>2, <2>2, <3>1
    <3>3. ~(c <= first)
      BY <2>2, <3>2, ClustersInOrder
    <3>4. QED
      BY <1>5, <2>2, <3>3
  <2>3. QED
    BY <1>4, <2>1, <2>2
<1>7. end \in Nat \ {0}
  BY <1>1, <1>2
<1>8. LastCluster(f, first, end) \in Nat /\ c <= LastCluster(f, first, end)
  BY <1>3, <1>6, <1>7, EndsBehind
<1>9. QED
  BY <1>3, <1>5, <1>6, <1>8 DEF first

-----------------------------------------------------------------------------
(***************************************************************************)
(* The lattice.                                                            *)
(***************************************************************************)
OnLattice(a, c) ==
  a.from = CodedStart(c, source.rate) /\ a.to = CodedEnd(c, source.rate) /\ a.from < a.to

IInv ==
  /\ source \in Sources
  /\ chunks = SegmentPlan(source)
  /\ DOMAIN made = DOMAIN chunks
  /\ \A i \in DOMAIN chunks : \A a \in made[i] : OnLattice(a, chunks[i])

-----------------------------------------------------------------------------
(***************************************************************************)
(* The plan.                                                               *)
(***************************************************************************)
\* A segment lasts until the next one starts.
LEMMA PlanIsGapless ==
  ASSUME NEW s \in Sources
  PROVE  LET plan == SegmentPlan(s) IN
         /\ plan \in Seq(PlannedChunks)
         /\ \A n \in DOMAIN plan : plan[n].start \in Nat /\ EndOf(plan[n]) \in Nat
         /\ \A n \in DOMAIN plan : n + 1 \in DOMAIN plan =>
              plan[n].start < plan[n + 1].start /\ EndOf(plan[n]) = plan[n + 1].start
<1> DEFINE raw == VideoChunks(s)
           plan == SegmentPlan(s)
<1>1. raw \in Seq(PlannedChunks) /\ Ascending(raw)
  BY ChunksAssumption
<1>2. plan = [n \in DOMAIN raw |->
                IF n = Len(raw) THEN raw[n]
                ELSE [raw[n] EXCEPT !.duration = Larger(Minus(raw[n + 1].start, raw[n].start), 1)]]
  BY Zenon DEF SegmentPlan, Normalized
<1>3. DOMAIN raw = 1 .. Len(raw) /\ Len(raw) \in Nat
  BY <1>1
<1>4. ASSUME NEW n \in DOMAIN raw
      PROVE  /\ raw[n].start \in Nat
             /\ "duration" \in DOMAIN raw[n]
  BY <1>1, <1>3, <1>4 DEF PlannedChunks
<1> HIDE DEF raw
<1>5. ASSUME NEW n \in DOMAIN raw
      PROVE  plan[n].start = raw[n].start
  <2> DEFINE longer == Larger(Minus(raw[n + 1].start, raw[n].start), 1)
  <2>1. plan[n] = IF n = Len(raw) THEN raw[n] ELSE [raw[n] EXCEPT !.duration = longer]
    BY <1>2, <1>5
  <2> HIDE DEF longer
  <2>2. "start" \in DOMAIN raw[n]
    BY <1>1, <1>3, <1>5 DEF PlannedChunks
  <2>3. [raw[n] EXCEPT !.duration = longer].start = raw[n].start
    BY <2>2
  <2>4. QED
    BY <2>1, <2>3, Zenon
<1>6. ASSUME NEW n \in DOMAIN raw, n + 1 \in DOMAIN raw
      PROVE  plan[n].start < plan[n + 1].start /\ EndOf(plan[n]) = plan[n + 1].start
  <2>1. raw[n].start < raw[n + 1].start
    BY <1>1, <1>3, <1>6 DEF Ascending
  <2>2. raw[n].start \in Nat /\ raw[n + 1].start \in Nat
    BY <1>4, <1>6
  <2> DEFINE longer == Larger(Minus(raw[n + 1].start, raw[n].start), 1)
  <2>3. longer = raw[n + 1].start - raw[n].start
    BY <2>1, <2>2 DEF Larger, Minus
  <2>4. plan[n] = [raw[n] EXCEPT !.duration = longer]
    BY <1>2, <1>3, <1>6
  <2> HIDE DEF longer
  <2>5. plan[n].duration = longer
    BY <2>4, <1>4
  <2>6. plan[n].start = raw[n].start /\ plan[n + 1].start = raw[n + 1].start
    BY <1>5, <1>6
  <2>7. QED
    BY <2>1, <2>2, <2>3, <2>5, <2>6 DEF EndOf
<1>7. DOMAIN plan = DOMAIN raw
  BY <1>2
<1>8. ASSUME NEW n \in DOMAIN raw PROVE plan[n] \in PlannedChunks
  <2> DEFINE longer == Larger(Minus(raw[n + 1].start, raw[n].start), 1)
  <2>1. raw[n] \in PlannedChunks
    BY <1>1, <1>3
  <2>2. CASE n = Len(raw)
    BY <1>2, <2>1, <2>2
  <2>3. CASE n # Len(raw)
    <3>1. n + 1 \in DOMAIN raw
      BY <1>3, <2>3
    <3>2. raw[n].start \in Nat /\ raw[n + 1].start \in Nat
      BY <1>4, <3>1
    <3>3. longer \in Nat
      BY <3>2 DEF Larger, Minus
    <3>4. plan[n] = [raw[n] EXCEPT !.duration = longer]
      BY <1>2, <2>3
    <3> HIDE DEF longer
    <3>5. QED
      BY <2>1, <3>3, <3>4 DEF PlannedChunks
  <2>4. QED
    BY <2>2, <2>3
<1>9. plan \in Seq(PlannedChunks)
  <2>1. plan \in [1 .. Len(raw) -> PlannedChunks]
    <3>1. plan = [n \in DOMAIN raw |-> plan[n]]
      BY <1>2
    <3> HIDE DEF plan
    <3>2. QED
      BY <1>3, <1>8, <3>1
  <2> HIDE DEF plan
  <2>2. QED
    BY <1>3, <2>1
<1>10. \A n \in DOMAIN plan : plan[n].start \in Nat /\ EndOf(plan[n]) \in Nat
  BY <1>7, <1>8 DEF PlannedChunks, EndOf
<1> HIDE DEF plan
<1>11. QED
  BY <1>6, <1>7, <1>9, <1>10 DEF plan

-----------------------------------------------------------------------------
(***************************************************************************)
(* Samples.                                                                *)
(***************************************************************************)
LEMMA ProductGrows ==
  ASSUME NEW a \in Nat, a > 0, NEW b \in Nat
  PROVE  a * b >= b /\ a * b \in Nat
<1>1. a = (a - 1) + 1 /\ a - 1 \in Nat
  OBVIOUS
<1>2. (a - 1) * b \in Nat
  BY <1>1
<1>3. a * b = (a - 1) * b + b
  BY <1>1
<1>4. QED
  BY <1>2, <1>3

\* A millisecond is at least one sample: no window but the first starts at zero.
LEMMA LaterIsPositive ==
  ASSUME NEW ms \in Nat, NEW rate \in Nat, rate >= LowestRate
  PROVE  MsToSamples(ms, rate) = 0 <=> ms = 0
<1> DEFINE seconds == ms \div 1000
           rest == ms % 1000
           whole == seconds * rate
           part == (rest * rate + 500) \div 1000
<1>1. MsToSamples(ms, rate) = whole + part
  BY DEF MsToSamples, ToSamples, MillisPerSecond
<1>2. seconds \in Nat /\ rest \in Nat /\ ms = 1000 * seconds + rest
  OBVIOUS
<1>3. rate > 1000
  BY DEF LowestRate
<1> HIDE DEF seconds, rest
<1>4. rest * rate \in Nat /\ whole \in Nat
  BY <1>2
<1>5. part \in Nat
  <2> DEFINE product == rest * rate
  <2>1. product \in Nat
    BY <1>4
  <2> HIDE DEF product
  <2>2. (product + 500) \div 1000 \in Nat
    BY <2>1
  <2>3. QED
    BY <2>2 DEF product
<1>6. CASE ms = 0
  <2>1. seconds = 0 /\ rest = 0
    BY <1>2, <1>6
  <2>2. whole = 0 /\ part = 0
    BY <2>1
  <2>3. QED
    BY <1>1, <1>6, <2>2
<1>7. CASE seconds > 0
  <2>1. whole > 0
    BY <1>2, <1>3, <1>7, ProductGrows
  <2>2. QED
    BY <1>1, <1>2, <1>4, <1>5, <1>7, <2>1
<1>8. CASE rest > 0
  <2> DEFINE product == rest * rate
  <2>1. product \in Nat /\ product > 1000
    BY <1>2, <1>3, <1>8, ProductGrows
  <2> HIDE DEF product
  <2>2. (product + 500) \div 1000 > 0
    BY <2>1
  <2>3. part > 0
    BY <2>2 DEF product
  <2>4. QED
    BY <1>1, <1>2, <1>4, <1>5, <1>8, <2>3
<1>9. QED
  BY <1>2, <1>6, <1>7, <1>8

\* The frames of a window end where those of the next one start.
LEMMA BoundsMeet ==
  ASSUME NEW c, NEW d, NEW rate \in Nat, rate >= LowestRate,
         EndOf(c) = d.start, d.start \in Nat, d.start > 0
  PROVE  CodedEnd(c, rate) = CodedStart(d, rate)
<1>1. WindowEnd(c, rate) = WindowStart(d, rate)
  BY Zenon DEF WindowEnd, WindowStart
<1>2. WindowStart(d, rate) # 0
  BY LaterIsPositive DEF WindowStart
<1>3. QED
  BY <1>1, <1>2, Zenon DEF CodedEnd, CodedStart

-----------------------------------------------------------------------------
(***************************************************************************)
(* The invariant.                                                          *)
(***************************************************************************)
LEMMA FragmentOnLattice ==
  ASSUME NEW p, NEW q, NEW c, NEW packets, NEW last, NEW pictures,
         Renders(p, q, source, c, packets, last)
  PROVE  OnLattice(Fragment(q, source, c, pictures), c)
<1>1. CodedStart(c, source.rate) < CodedEnd(c, source.rate)
  BY Zenon DEF Renders
<1>2. /\ Fragment(q, source, c, pictures).from = CodedStart(c, source.rate)
      /\ Fragment(q, source, c, pictures).to = CodedEnd(c, source.rate)
  BY DEF Fragment
<1>3. QED
  BY <1>1, <1>2 DEF OnLattice

LEMMA InitInvariant == Init => IInv
BY DEF Init, IInv

\* A segment adds at most a fragment of its own.
LEMMA FinishInvariant ==
  ASSUME IInv, UNCHANGED <<source, chunks>>, NEW i \in DOMAIN chunks,
         NEW p, NEW v, NEW pictures, NEW packets, NEW d, NEW q,
         Finish(i, p, v, pictures, packets, d, q)
  PROVE  IInv'
<1>1. CASE Refuse(i)
  BY <1>1 DEF IInv, Refuse, OnLattice
<1>2. CASE /\ Renders(p, q, source, chunks[i], packets, IsLast(i))
           /\ Complete(i, v, pictures, d.encoded, q)
  <2> DEFINE a == Fragment(q, source, chunks[i], pictures)
  <2>1. OnLattice(a, chunks[i])
    BY <1>2, FragmentOnLattice
  <2>2. made' = [made EXCEPT ![i] = @ \cup {a}]
    BY <1>2, Zenon DEF Complete
  <2> HIDE DEF a
  <2>3. \A n \in DOMAIN chunks : \A b \in made'[n] : b \in made[n] \/ (n = i /\ b = a)
    BY <2>2 DEF IInv
  <2>4. QED
    BY <2>1, <2>2, <2>3 DEF IInv, OnLattice
<1>3. QED
  BY <1>1, <1>2, Zenon DEF Finish

LEMMA NextInvariant == IInv /\ [Next]_vars => IInv'
<1> SUFFICES ASSUME IInv, [Next]_vars PROVE IInv'
  OBVIOUS
<1>1. ASSUME NEW i \in DOMAIN chunks, Transcode(i) PROVE IInv'
  <2>1. PICK p, v, pictures, packets, d, q : Finish(i, p, v, pictures, packets, d, q)
    BY <1>1, Zenon DEF Transcode, Prepare, Read, Render
  <2>2. UNCHANGED <<source, chunks>>
    BY <1>1, Zenon DEF Transcode
  <2>3. QED
    BY <2>1, <2>2, FinishInvariant
<1>2. CASE Break
  BY <1>2 DEF Break, IInv, OnLattice
<1>3. CASE NewWorker
  BY <1>3 DEF NewWorker, IInv, OnLattice
<1>4. CASE UNCHANGED vars
  BY <1>4 DEF vars, IInv, OnLattice
<1>5. QED
  BY <1>1, <1>2, <1>3, <1>4 DEF Next

LEMMA InvariantGivesLattice == IInv => OneLattice
<1> SUFFICES ASSUME IInv, NEW i \in DOMAIN chunks, NEW a \in made[i]
             PROVE  /\ a.from < a.to
                    /\ chunks[i].start = 0 => a.from = 0
                    /\ \A b \in made[i] : a.from = b.from /\ a.to = b.to
                    /\ i + 1 \in DOMAIN chunks => \A b \in made[i + 1] : a.to = b.from
  BY DEF OneLattice
<1>1. OnLattice(a, chunks[i]) /\ \A b \in made[i] : OnLattice(b, chunks[i])
  BY DEF IInv
<1>2. source.rate \in Nat /\ source.rate >= LowestRate
  BY RateAssumption DEF IInv
<1>3. ASSUME chunks[i].start = 0 PROVE a.from = 0
  <2>1. WindowStart(chunks[i], source.rate) = 0
    BY <1>2, <1>3, LaterIsPositive DEF WindowStart
  <2>2. QED
    BY <1>1, <2>1 DEF OnLattice, CodedStart
<1>4. ASSUME i + 1 \in DOMAIN chunks, NEW b \in made[i + 1] PROVE a.to = b.from
  <2>1. /\ chunks[i].start \in Nat /\ chunks[i + 1].start \in Nat
        /\ chunks[i].start < chunks[i + 1].start
        /\ EndOf(chunks[i]) = chunks[i + 1].start
    BY <1>4, PlanIsGapless DEF IInv
  <2>2. CodedEnd(chunks[i], source.rate) = CodedStart(chunks[i + 1], source.rate)
    BY <1>2, <2>1, BoundsMeet
  <2>3. OnLattice(b, chunks[i + 1])
    BY <1>4 DEF IInv
  <2>4. QED
    BY <1>1, <2>2, <2>3 DEF OnLattice
<1>5. QED
  BY <1>1, <1>3, <1>4 DEF OnLattice

-----------------------------------------------------------------------------
\* In every behaviour every fragment has the frames of its window, and its window
\* is one of the plan.
THEOREM Invariance == Spec => []IInv
BY InitInvariant, NextInvariant, PTL DEF Spec

\* The fragments of neighbouring segments meet, and a segment has the same frames
\* whoever made it, for any sources, requests, failures and workers.
THEOREM Lattice == Spec => []OneLattice
BY Invariance, InvariantGivesLattice, PTL

-----------------------------------------------------------------------------
(***************************************************************************)
(* What a walk reads, it reads of the whole file: the walk's blocks are    *)
(* those of a run of clusters, and the clusters before and behind the run  *)
(* have nothing that the windows want.                                     *)
(***************************************************************************)
\* Blocks with their times.
StampedType == [track : {"video", "audio"}, key : BOOLEAN, id : Nat, ms : Nat]

\* The blocks of a cluster with their times.
LEMMA StampedIs ==
  ASSUME NEW f \in FileType, NEW c \in DOMAIN f.clusters
  PROVE  /\ Stamped(f, c) \in Seq(StampedType)
         /\ DOMAIN Stamped(f, c) = DOMAIN f.clusters[c].blocks
         /\ \A n \in DOMAIN f.clusters[c].blocks :
              Stamped(f, c)[n].ms = BlockMs(f, c, f.clusters[c].blocks[n])
<1> DEFINE bs == f.clusters[c].blocks
<1>1. bs \in Seq(BlockType)
  <2>1. f.clusters \in Seq(ClusterType)
    BY DEF FileType
  <2>2. f.clusters[c] \in ClusterType
    BY <2>1
  <2>3. QED
    BY <2>2 DEF ClusterType
<1>2. Len(bs) \in Nat /\ DOMAIN bs = 1 .. Len(bs)
  BY <1>1
<1>3. Stamped(f, c) = [n \in 1 .. Len(bs) |->
        [track |-> bs[n].track, key |-> bs[n].key, id |-> bs[n].id, ms |-> BlockMs(f, c, bs[n])]]
  BY <1>2 DEF Stamped
<1>4. ASSUME NEW n \in 1 .. Len(bs)
      PROVE  [track |-> bs[n].track, key |-> bs[n].key, id |-> bs[n].id,
              ms |-> BlockMs(f, c, bs[n])] \in StampedType
  <2>1. bs[n] \in BlockType
    BY <1>1
  <2>2. BlockMs(f, c, bs[n]) \in Nat
    BY <1>2, BlockNearCluster
  <2> HIDE DEF bs
  <2>3. QED
    BY <2>1, <2>2 DEF BlockType, StampedType
<1> HIDE DEF bs
<1>5. Stamped(f, c) \in [1 .. Len(bs) -> StampedType]
  BY <1>3, <1>4
<1>6. Stamped(f, c) \in Seq(StampedType) /\ DOMAIN Stamped(f, c) = DOMAIN bs
  BY <1>2, <1>5
<1>7. \A n \in DOMAIN bs : Stamped(f, c)[n].ms = BlockMs(f, c, bs[n])
  BY <1>2, <1>3
<1>8. QED
  BY <1>6, <1>7 DEF bs

\* The blocks up to each cluster of a walk.
Scanning(seen, f, first, last, from) ==
  /\ seen[first - 1] = <<>>
  /\ \A c \in first .. last :
       seen[c] = IF ClusterMs(f, c) >= from THEN seen[c - 1] \o Stamped(f, c) ELSE seen[c - 1]
  /\ BlocksFrom(f, first, last, from) = seen[last]

\* The recursive function behind a walk.
LEMMA Scans ==
  ASSUME NEW f \in FileType, NEW first \in Nat \ {0}, NEW last \in Nat, first - 1 <= last,
         last <= Len(f.clusters), NEW from
  PROVE  \E seen \in [first - 1 .. last -> Seq(StampedType)] : Scanning(seen, f, first, last, from)
<1> DEFINE N == last - (first - 1)
           Z == Seq(StampedType)
           empty == <<>>
           step(x, c) == IF ClusterMs(f, c) >= from THEN x \o Stamped(f, c) ELSE x
           F == [n \in 1 .. N |-> [x \in Z |-> step(x, first - 1 + n)]]
           Is(g) == g = [c \in first - 1 .. last |->
                           IF c < first THEN empty ELSE step(g[c - 1], c)]
<1>1. N \in Nat /\ empty \in Z
  OBVIOUS
<1>2. ASSUME NEW n \in 1 .. N, NEW x \in Z PROVE step(x, first - 1 + n) \in Z
  <2> DEFINE c == first - 1 + n
  <2>1. c \in DOMAIN f.clusters
    <3>1. c \in 1 .. Len(f.clusters)
      OBVIOUS
    <3>2. QED
      BY <3>1 DEF FileType
  <2> HIDE DEF c
  <2>2. Stamped(f, c) \in Seq(StampedType)
    BY <2>1, StampedIs
  <2>3. x \o Stamped(f, c) \in Z
    BY <1>2, <2>2
  <2>4. step(x, c) \in Z
    BY <1>2, <2>3
  <2>5. QED
    BY <2>4 DEF c
<1>3. F \in [1 .. N -> [Z -> Z]]
  <2> HIDE DEF N, Z, step
  <2>1. QED
    BY <1>2
<1>3a. \A n \in 1 .. N, x \in Z : F[n][x] = step(x, first - 1 + n)
  <2> HIDE DEF N, Z, step
  <2>1. QED
    OBVIOUS
<1> HIDE DEF F, Z, step, empty
<1>4. PICK h \in [0 .. N -> Z] : h[0] = empty /\ \A n \in 1 .. N : h[n] = F[n][h[n - 1]]
  <2> HIDE DEF N
  <2>1. QED
    BY ONLY <1>1, <1>3, Iteration
<1> DEFINE g == [c \in first - 1 .. last |-> h[c - (first - 1)]]
<1>5. ASSUME NEW c \in first .. last PROVE g[c] = step(g[c - 1], c) /\ g[c - 1] \in Z
  <2> DEFINE n == c - (first - 1)
  <2>1. n \in 1 .. N /\ n - 1 \in 0 .. N /\ first - 1 + n = c
    BY <1>1
  <2>2. c - 1 \in first - 1 .. last /\ c \in first - 1 .. last /\ c - 1 - (first - 1) = n - 1
    OBVIOUS
  <2>3. g[c] = h[n] /\ g[c - 1] = h[n - 1]
    BY <2>2
  <2> HIDE DEF n, N, g
  <2>4. h[n] = F[n][h[n - 1]] /\ h[n - 1] \in Z
    BY <1>4, <2>1
  <2>5. F[n][h[n - 1]] = step(h[n - 1], first - 1 + n)
    BY <1>3a, <2>1, <2>4
  <2>6. QED
    BY <2>1, <2>3, <2>4, <2>5
<1>6. g[first - 1] = empty /\ \A c \in first - 1 .. last : c < first => c = first - 1
  BY <1>4
<1>7. Is(g)
  <2> DEFINE k == [c \in first - 1 .. last |-> IF c < first THEN empty ELSE step(g[c - 1], c)]
  <2>1. ASSUME NEW c \in first - 1 .. last PROVE g[c] = k[c]
    <3>1. k[c] = IF c < first THEN empty ELSE step(g[c - 1], c)
      OBVIOUS
    <3> HIDE DEF k, g
    <3>2. CASE c < first
      <4>1. c = first - 1
        BY <1>6, <3>2
      <4>2. QED
        BY <1>6, <3>1, <3>2, <4>1
    <3>3. CASE ~(c < first)
      <4>1. c \in first .. last
        BY <3>3
      <4>2. QED
        BY <1>5, <3>1, <3>3, <4>1
    <3>4. QED
      BY <3>2, <3>3
  <2>2. g = [c \in first - 1 .. last |-> g[c]] /\ k = [c \in first - 1 .. last |-> k[c]]
    OBVIOUS
  <2> HIDE DEF g, k
  <2>3. g = k
    BY <2>1, <2>2
  <2>4. QED
    BY <2>3 DEF k
<1> DEFINE seen == CHOOSE x : Is(x)
<1>8. Is(seen)
  <2> HIDE DEF g, Is
  <2>1. QED
    BY <1>7
<1>9. BlocksFrom(f, first, last, from) = seen[last]
  BY DEF BlocksFrom, Is, step, empty
<1> HIDE DEF seen
<1>10. seen[first - 1] = empty /\ \A c \in first .. last : seen[c] = step(seen[c - 1], c)
  BY <1>8
<1> HIDE DEF Is
<1>11. \A c \in first - 1 .. last : seen[c] \in Z
  <2> DEFINE P == {n \in 0 .. N : seen[first - 1 + n] \in Z}
  <2>1. 0 \in P
    BY <1>1, <1>10
  <2>2. ASSUME NEW n \in 1 .. N, n - 1 \in P PROVE n \in P
    <3>1. first - 1 + n \in first .. last /\ first - 1 + n - 1 = first - 1 + (n - 1)
      OBVIOUS
    <3>2. seen[first - 1 + n] = step(seen[first - 1 + (n - 1)], first - 1 + n)
      BY <1>10, <3>1
    <3>3. seen[first - 1 + (n - 1)] \in Z
      BY <2>2
    <3>4. step(seen[first - 1 + (n - 1)], first - 1 + n) \in Z
      BY <1>2, <3>3
    <3>5. QED
      BY <3>2, <3>4
  <2>3. P = 0 .. N
    <3> HIDE DEF P, N
    <3>1. P \in SUBSET (0 .. N)
      BY DEF P
    <3>2. QED
      BY <1>1, <2>1, <2>2, <3>1, UpTo
  <2>4. TAKE c \in first - 1 .. last
  <2>5. c - (first - 1) \in 0 .. N /\ first - 1 + (c - (first - 1)) = c
    OBVIOUS
  <2>6. c - (first - 1) \in P
    BY <2>3, <2>5
  <2>7. QED
    BY <2>5, <2>6
<1>12. seen \in [first - 1 .. last -> Z]
  <2>1. seen = [c \in first - 1 .. last |-> IF c < first THEN empty ELSE step(seen[c - 1], c)]
    BY <1>8 DEF Is
  <2>2. DOMAIN seen = first - 1 .. last
    BY <2>1
  <2>3. seen = [c \in first - 1 .. last |-> seen[c]]
    BY <2>1, <2>2
  <2>4. QED
    BY <1>11, <2>3
<1>13. Scanning(seen, f, first, last, from)
  BY <1>9, <1>10 DEF Scanning, step, empty
<1>14. QED
  BY <1>12, <1>13 DEF Z

\* A walk gives blocks,
LEMMA ScanType ==
  ASSUME NEW f \in FileType, NEW first \in Nat \ {0}, NEW last \in Nat, first - 1 <= last,
         last <= Len(f.clusters), NEW from
  PROVE  BlocksFrom(f, first, last, from) \in Seq(StampedType)
<1>1. last \in first - 1 .. last
  OBVIOUS
<1>2. PICK seen \in [first - 1 .. last -> Seq(StampedType)] :
        Scanning(seen, f, first, last, from)
  BY Scans, Zenon
<1>3. QED
  BY <1>1, <1>2 DEF Scanning

\* of the clusters it looks into.
LEMMA ScanFrom ==
  ASSUME NEW f \in FileType, NEW first \in Nat \ {0}, NEW last \in Nat, first - 1 <= last,
         last <= Len(f.clusters), NEW from
  PROVE  LET seen == BlocksFrom(f, first, last, from)
         IN  \A m \in DOMAIN seen :
               \E c \in first .. last : \E n \in DOMAIN f.clusters[c].blocks :
                 ClusterMs(f, c) >= from /\ seen[m].ms = BlockMs(f, c, f.clusters[c].blocks[n])
<1>1. PICK seen \in [first - 1 .. last -> Seq(StampedType)] :
        Scanning(seen, f, first, last, from)
  BY Scans, Zenon
<1> DEFINE Of(b, c) == \E n \in DOMAIN f.clusters[c].blocks :
                         ClusterMs(f, c) >= from
                           /\ b.ms = BlockMs(f, c, f.clusters[c].blocks[n])
           N == last - (first - 1)
           Known(x) == \A m \in DOMAIN x : \E c \in first .. last : Of(x[m], c)
           P == {n \in 0 .. N : Known(seen[first - 1 + n])}
<1>2. N \in Nat /\ DOMAIN f.clusters = 1 .. Len(f.clusters)
  BY DEF FileType
<1>3. 0 \in P
  <2>1. seen[first - 1 + 0] = <<>>
    BY <1>1 DEF Scanning
  <2>2. Known(<<>>)
    OBVIOUS
  <2> HIDE DEF Known
  <2>3. QED
    BY <1>2, <2>1, <2>2
<1>4. ASSUME NEW n \in 1 .. N, n - 1 \in P PROVE n \in P
  <2> DEFINE c == first - 1 + n
             x == seen[c - 1]
             y == Stamped(f, c)
  <2>1. c \in first .. last /\ c \in DOMAIN f.clusters /\ c - 1 \in first - 1 .. last
        /\ c - 1 = first - 1 + (n - 1)
    BY <1>2
  <2>2. seen[c] = IF ClusterMs(f, c) >= from THEN x \o y ELSE x
    BY <1>1, <2>1 DEF Scanning
  <2>3. Known(x)
    <3> HIDE DEF Known, c
    <3>1. QED
      BY <1>4, <2>1
  <2>4. x \in Seq(StampedType)
    BY <2>1
  <2>5. y \in Seq(StampedType)
    <3> HIDE DEF c
    <3>1. QED
      BY <2>1, StampedIs
  <2>6. ClusterMs(f, c) >= from => \A m \in DOMAIN y : Of(y[m], c)
    <3> HIDE DEF c
    <3>1. QED
      BY <2>1, StampedIs
  <2>7. Known(seen[c])
    <3>1. CASE ClusterMs(f, c) >= from
      <4> HIDE DEF c, x, y, Of
      <4>1. ASSUME NEW m \in DOMAIN (x \o y) PROVE \E d \in first .. last : Of((x \o y)[m], d)
        <5>1. CASE m \in DOMAIN x
          <6>1. (x \o y)[m] = x[m]
            BY <2>4, <2>5, <5>1
          <6>2. QED
            BY <2>3, <5>1, <6>1
        <5>2. CASE m \notin DOMAIN x
          <6>1. m - Len(x) \in DOMAIN y /\ (x \o y)[m] = y[m - Len(x)]
            BY <2>4, <2>5, <5>2
          <6>2. QED
            BY <2>1, <2>6, <3>1, <6>1
        <5>3. QED
          BY <5>1, <5>2
      <4>2. QED
        BY <2>2, <3>1, <4>1
    <3>2. CASE ~(ClusterMs(f, c) >= from)
      <4> HIDE DEF c, x, y, Known
      <4>1. QED
        BY <2>2, <2>3, <3>2
    <3>3. QED
      BY <3>1, <3>2
  <2> HIDE DEF Known
  <2>8. QED
    BY <2>7
<1>5. P = 0 .. N
  <2> HIDE DEF P, N
  <2>1. P \in SUBSET (0 .. N)
    BY DEF P
  <2>2. QED
    BY <1>2, <1>3, <1>4, <2>1, UpTo
<1>6. N \in P /\ first - 1 + N = last
  <2>1. first - 1 + N = last
    OBVIOUS
  <2> HIDE DEF P, N
  <2>2. QED
    BY <1>2, <1>5, <2>1
<1>7. Known(seen[last])
  <2> HIDE DEF Known, N
  <2>1. QED
    BY <1>6
<1>8. BlocksFrom(f, first, last, from) = seen[last]
  BY <1>1 DEF Scanning
<1>9. QED
  BY <1>7, <1>8, Zenon

\* Nothing comes of clusters that are skipped.
LEMMA ScanSkips ==
  ASSUME NEW f \in FileType, NEW first \in Nat \ {0}, NEW last \in Nat, first - 1 <= last,
         last <= Len(f.clusters), NEW from, \A c \in first .. last : ~(ClusterMs(f, c) >= from)
  PROVE  BlocksFrom(f, first, last, from) = <<>>
<1> DEFINE seen == BlocksFrom(f, first, last, from)
<1>1. seen \in Seq(StampedType)
  BY ScanType
<1>2. \A m \in DOMAIN seen : FALSE
  BY ScanFrom
<1> HIDE DEF seen
<1>3. DOMAIN seen = {}
  BY <1>2
<1>4. seen = <<>>
  BY <1>1, <1>3
<1>5. QED
  BY <1>4 DEF seen

\* Two walks that skip the same clusters are the same.
LEMMA ScanAgrees ==
  ASSUME NEW f \in FileType, NEW first \in Nat \ {0}, NEW last \in Nat, first - 1 <= last,
         last <= Len(f.clusters), NEW from, NEW other,
         \A c \in first .. last : ClusterMs(f, c) >= from <=> ClusterMs(f, c) >= other
  PROVE  BlocksFrom(f, first, last, from) = BlocksFrom(f, first, last, other)
<1>1. PICK sa \in [first - 1 .. last -> Seq(StampedType)] :
        Scanning(sa, f, first, last, from)
  BY Scans, Zenon
<1>2. PICK sb \in [first - 1 .. last -> Seq(StampedType)] :
        Scanning(sb, f, first, last, other)
  BY Scans, Zenon
<1> DEFINE N == last - (first - 1)
           P == {n \in 0 .. N : sa[first - 1 + n] = sb[first - 1 + n]}
<1>3. N \in Nat
  OBVIOUS
<1>4. 0 \in P
  BY <1>1, <1>2 DEF Scanning
<1>5. ASSUME NEW n \in 1 .. N, n - 1 \in P PROVE n \in P
  <2> DEFINE c == first - 1 + n
  <2>1. c \in first .. last /\ c - 1 = first - 1 + (n - 1)
    OBVIOUS
  <2>2. sa[c - 1] = sb[c - 1]
    BY <1>5, <2>1
  <2>3. sa[c] = sb[c]
    <3> HIDE DEF c
    <3>1. QED
      BY <1>1, <1>2, <2>1, <2>2 DEF Scanning
  <2>4. QED
    BY <2>3
<1>6. P = 0 .. N
  <2> HIDE DEF P, N
  <2>1. P \in SUBSET (0 .. N)
    BY DEF P
  <2>2. QED
    BY <1>3, <1>4, <1>5, <2>1, UpTo
<1>7. sa[last] = sb[last]
  <2>1. first - 1 + N = last
    OBVIOUS
  <2>2. N \in P
    <3> HIDE DEF P, N
    <3>1. QED
      BY <1>3, <1>6
  <2>3. QED
    BY <2>1, <2>2
<1>8. QED
  BY <1>1, <1>2, <1>7 DEF Scanning

\* A walk goes on where the one before it ends.
LEMMA ScanFollows ==
  ASSUME NEW f \in FileType, NEW first \in Nat \ {0}, NEW mid \in Nat, NEW last \in Nat,
         first - 1 <= mid, mid <= last, last <= Len(f.clusters), NEW from
  PROVE  BlocksFrom(f, first, last, from)
           = BlocksFrom(f, first, mid, from) \o BlocksFrom(f, mid + 1, last, from)
<1> DEFINE next == mid + 1
<1>0. next \in Nat \ {0} /\ next - 1 = mid /\ next - 1 <= last /\ mid <= Len(f.clusters)
      /\ first - 1 <= last /\ Len(f.clusters) \in Nat
  BY DEF FileType
<1> HIDE DEF next
<1>1. PICK sa \in [first - 1 .. last -> Seq(StampedType)] :
        Scanning(sa, f, first, last, from)
  BY <1>0, Scans, Zenon
<1>2. PICK sb \in [first - 1 .. mid -> Seq(StampedType)] :
        Scanning(sb, f, first, mid, from)
  BY <1>0, Scans, Zenon
<1>3. PICK sc \in [next - 1 .. last -> Seq(StampedType)] :
        Scanning(sc, f, next, last, from)
  BY <1>0, Scans, Zenon
<1>4. sa[mid] = sb[mid]
  <2> DEFINE N == mid - (first - 1)
             P == {n \in 0 .. N : sa[first - 1 + n] = sb[first - 1 + n]}
  <2>3. N \in Nat
    OBVIOUS
  <2>4. 0 \in P
    BY <1>1, <1>2 DEF Scanning
  <2>5. ASSUME NEW n \in 1 .. N, n - 1 \in P PROVE n \in P
    <3> DEFINE c == first - 1 + n
    <3>1. c \in first .. mid /\ c \in first .. last /\ c - 1 = first - 1 + (n - 1)
      OBVIOUS
    <3>2. sa[c - 1] = sb[c - 1]
      BY <2>5, <3>1
    <3>3. sa[c] = sb[c]
      <4> HIDE DEF c
      <4>1. QED
        BY <1>1, <1>2, <3>1, <3>2 DEF Scanning
    <3>4. QED
      BY <3>3
  <2>6. P = 0 .. N
    <3> HIDE DEF P, N
    <3>1. P \in SUBSET (0 .. N)
      BY DEF P
    <3>2. QED
      BY <2>3, <2>4, <2>5, <3>1, UpTo
  <2>7. first - 1 + N = mid
    OBVIOUS
  <2>8. N \in P
    <3> HIDE DEF P, N
    <3>1. QED
      BY <2>3, <2>6
  <2>9. QED
    BY <2>7, <2>8
<1>5. sa[last] = sb[mid] \o sc[last]
  <2> DEFINE x == sb[mid]
             N == last - mid
             P == {n \in 0 .. N : sa[mid + n] = x \o sc[mid + n]}
  <2>1. x \in Seq(StampedType)
    <3>1. mid \in first - 1 .. mid
      OBVIOUS
    <3>2. QED
      BY <1>2, <3>1
  <2> HIDE DEF x
  <2>3. N \in Nat
    OBVIOUS
  <2>4. 0 \in P
    <3>1. sc[mid + 0] = <<>> /\ sa[mid + 0] = x
      BY <1>0, <1>3, <1>4 DEF Scanning, x
    <3>2. x \o <<>> = x
      BY <2>1
    <3>3. QED
      BY <2>3, <3>1, <3>2
  <2>5. ASSUME NEW n \in 1 .. N, n - 1 \in P PROVE n \in P
    <3> DEFINE c == mid + n
               y == sc[c - 1]
               z == Stamped(f, c)
    <3>1. c \in next .. last /\ c \in first .. last /\ c - 1 = mid + (n - 1) /\ c \in DOMAIN f.clusters
          /\ c - 1 \in next - 1 .. last
      <4>1. DOMAIN f.clusters = 1 .. Len(f.clusters)
        BY DEF FileType
      <4>2. QED
        BY <1>0, <4>1 DEF next
    <3>2. sa[c - 1] = x \o y
      BY <2>5, <3>1
    <3>3. y \in Seq(StampedType)
      BY <1>3, <3>1
    <3> HIDE DEF c, y
    <3>4. z \in Seq(StampedType)
      BY <3>1, StampedIs
    <3>5. sa[c] = IF ClusterMs(f, c) >= from THEN (x \o y) \o z ELSE x \o y
      BY <1>1, <3>1, <3>2 DEF Scanning
    <3>6. sc[c] = IF ClusterMs(f, c) >= from THEN y \o z ELSE y
      BY <1>3, <3>1 DEF Scanning, y
    <3> HIDE DEF z
    <3>7. (x \o y) \o z = x \o (y \o z)
      BY ONLY <2>1, <3>3, <3>4, ConcatAssociative
    <3>8. sa[c] = x \o sc[c]
      BY <3>5, <3>6, <3>7
    <3>9. QED
      BY <3>8 DEF c
  <2>6. P = 0 .. N
    <3> HIDE DEF P, N
    <3>1. P \in SUBSET (0 .. N)
      BY DEF P
    <3>2. QED
      BY <2>3, <2>4, <2>5, <3>1, UpTo
  <2>7. mid + N = last
    OBVIOUS
  <2>8. N \in P
    <3> HIDE DEF P, N
    <3>1. QED
      BY <2>3, <2>6
  <2>9. QED
    BY <2>7, <2>8 DEF x
<1>6. QED
  BY <1>1, <1>2, <1>3, <1>5 DEF Scanning, next

\* The clusters behind the last one of a walk lie a span past the end.
LEMMA LastClusterIs ==
  ASSUME NEW f \in FileType, OrderedClusters(f, DOMAIN f.clusters), NEW end \in Nat,
         NEW first \in Nat \ {0}, first - 1 <= Len(f.clusters)
  PROVE  LET last == LastCluster(f, first, end)
         IN  /\ last \in Nat /\ first - 1 <= last /\ last <= Len(f.clusters)
             /\ \A c \in DOMAIN f.clusters : c > last => Minus(ClusterMs(f, c), Span(f)) >= end
<1> DEFINE past == {d \in first .. Len(f.clusters) :
                     Minus(ClusterMs(f, d), Span(f)) >= end}
           m == CHOOSE d \in past : \A e \in past : d <= e
<1>1. LastCluster(f, first, end) = IF past = {} THEN Len(f.clusters) ELSE m - 1
  BY DEF LastCluster
<1>2. DOMAIN f.clusters = 1 .. Len(f.clusters) /\ Len(f.clusters) \in Nat
  BY DEF FileType
<1>3. CASE past = {}
  BY <1>1, <1>2, <1>3
<1>4. CASE past # {}
  <2>1. past \in SUBSET Nat
    BY <1>2
  <2>2. m \in past
    <3>1. \E d \in past : \A e \in past : d <= e
      BY <1>4, <2>1, LeastNat, Zenon
    <3>2. QED
      BY <3>1, Zenon
  <2>3. LastCluster(f, first, end) = m - 1
    BY <1>1, <1>4
  <2> HIDE DEF m
  <2>4. m \in first .. Len(f.clusters) /\ Minus(ClusterMs(f, m), Span(f)) >= end
    BY <2>2
  <2>5. ASSUME NEW c \in DOMAIN f.clusters, c > m - 1
        PROVE  Minus(ClusterMs(f, c), Span(f)) >= end
    <3>1. m \in DOMAIN f.clusters /\ m <= c
      BY <1>2, <2>4, <2>5
    <3>2. ClusterMs(f, m) <= ClusterMs(f, c)
      BY <3>1, ClustersInOrder
    <3>3. ClusterMs(f, m) \in Nat /\ ClusterMs(f, c) \in Nat /\ Span(f) \in Nat
      BY <3>1, ClusterTimes, TicksGrow DEF Span, FurthestTicks
    <3>4. QED
      BY <2>4, <3>2, <3>3 DEF Minus, Larger
  <2>6. m - 1 \in Nat /\ first - 1 <= m - 1 /\ m - 1 <= Len(f.clusters)
    BY <1>2, <2>4
  <2>7. QED
    BY <2>3, <2>5, <2>6
<1>5. QED
  BY <1>3, <1>4

\* A walk for a window leaves only blocks of the file out that are shown before
\* the window, which come first, and blocks that are shown after it.
LEMMA WalkSplits ==
  ASSUME NEW f \in FileType, OrderedClusters(f, DOMAIN f.clusters),
         NEW start \in Nat, NEW end \in Nat
  PROVE  /\ BlocksScanned(f, start, end) \in Seq(StampedType)
         /\ \E before, after \in Seq(StampedType) :
              /\ WholeFile(f) = before \o (BlocksScanned(f, start, end) \o after)
              /\ \A n \in DOMAIN before : before[n].ms < start
              /\ \A n \in DOMAIN after : after[n].ms >= end
<1> DEFINE first == FirstCluster(f, start)
           last == LastCluster(f, first, end)
           from == Minus(start, Span(f))
           N == Len(f.clusters)
<1>1. DOMAIN f.clusters = 1 .. N /\ N \in Nat
  BY DEF FileType
<1>2. Span(f) \in Nat /\ from \in Nat /\ from <= start /\ (from > 0 => from = start - Span(f))
  <2>1. Span(f) \in Nat
    BY TicksGrow DEF Span, FurthestTicks
  <2>2. QED
    BY <2>1 DEF Minus, Larger
<1>3. \/ first = 1
      \/ first \in DOMAIN f.clusters /\ ClusterMs(f, first) + Span(f) < start
  BY StartsBefore, Zenon
<1> HIDE DEF first
<1>4. first \in Nat \ {0} /\ first - 1 <= N
  BY <1>1, <1>3
<1>5. /\ last \in Nat /\ first - 1 <= last /\ last <= N
      /\ \A c \in DOMAIN f.clusters : c > last => Minus(ClusterMs(f, c), Span(f)) >= end
  BY <1>4, LastClusterIs
<1> HIDE DEF last
<1>6. \A c \in DOMAIN f.clusters : ClusterMs(f, c) \in Nat
  BY ClusterTimes
<1>7. PICK a \in first .. last + 1 :
        /\ \A c \in first .. a - 1 : ClusterMs(f, c) < from
        /\ \A c \in a .. last : ClusterMs(f, c) >= from
  <2> DEFINE S == {c \in first .. last + 1 : c = last + 1 \/ ClusterMs(f, c) >= from}
  <2>1. S \in SUBSET Nat /\ last + 1 \in S
    BY <1>4, <1>5
  <2>2. PICK a \in S : \A c \in S : a <= c
    <3> HIDE DEF S
    <3>1. QED
      BY <2>1, LeastNat, Zenon
  <2>3. a \in first .. last + 1
    OBVIOUS
  <2>4. ASSUME NEW c \in first .. a - 1 PROVE ClusterMs(f, c) < from
    <3>1. c \notin S /\ c \in first .. last + 1 /\ c # last + 1
      BY <1>4, <1>5, <2>2, <2>3
    <3>2. c \in DOMAIN f.clusters
      BY <1>1, <1>4, <1>5, <3>1
    <3>3. QED
      BY <1>2, <1>6, <3>1, <3>2
  <2>5. ASSUME NEW c \in a .. last PROVE ClusterMs(f, c) >= from
    <3>1. a \in DOMAIN f.clusters /\ c \in DOMAIN f.clusters /\ a <= c /\ a # last + 1
      BY <1>1, <1>4, <1>5, <2>3
    <3>2. ClusterMs(f, a) <= ClusterMs(f, c) /\ ClusterMs(f, a) >= from
      BY <3>1, ClustersInOrder
    <3>3. QED
      BY <1>2, <1>6, <3>1, <3>2
  <2>6. QED
    BY <2>3, <2>4, <2>5
<1>8. a \in Nat \ {0} /\ a - 1 \in Nat /\ a - 1 <= last /\ first - 1 <= a - 1 /\ (a - 1) + 1 = a
      /\ a - 1 <= N
  BY <1>4, <1>5, <1>7
<1> DEFINE low == BlocksFrom(f, 1, a - 1, 0)
           middle == BlocksFrom(f, a, last, 0)
           high == BlocksFrom(f, last + 1, N, 0)
<1>9. BlocksScanned(f, start, end) = middle
  <2>1. BlocksScanned(f, start, end) = BlocksFrom(f, first, last, from)
    BY DEF BlocksScanned, first, last
  <2>2. BlocksFrom(f, first, last, from)
          = BlocksFrom(f, first, a - 1, from) \o BlocksFrom(f, a, last, from)
    BY <1>4, <1>5, <1>8, ScanFollows
  <2>3. BlocksFrom(f, first, a - 1, from) = <<>>
    <3>1. \A c \in first .. a - 1 : ~(ClusterMs(f, c) >= from)
      <4>1. TAKE c \in first .. a - 1
      <4>2. c \in DOMAIN f.clusters
        BY <1>1, <1>4, <1>8
      <4>3. QED
        BY <1>2, <1>6, <1>7, <4>2
    <3>2. QED
      BY <1>4, <1>8, <3>1, ScanSkips
  <2>4. BlocksFrom(f, a, last, from) = middle
    <3>1. \A c \in a .. last : ClusterMs(f, c) >= from <=> ClusterMs(f, c) >= 0
      <4>1. TAKE c \in a .. last
      <4>2. c \in DOMAIN f.clusters
        BY <1>1, <1>4, <1>5, <1>7
      <4>3. QED
        BY <1>6, <1>7, <4>2
    <3>2. QED
      BY <1>5, <1>8, <3>1, ScanAgrees
  <2>5. middle \in Seq(StampedType)
    BY <1>5, <1>8, ScanType
  <2> HIDE DEF middle
  <2>6. <<>> \o middle = middle
    BY <2>5
  <2>7. QED
    BY <2>1, <2>2, <2>3, <2>4, <2>6
<1>10. WholeFile(f) = low \o (middle \o high)
  <2>1. /\ 1 \in Nat \ {0} /\ 1 - 1 <= a - 1 /\ N <= Len(f.clusters) /\ N \in Nat /\ last <= N
        /\ f \in FileType /\ last \in Nat
    BY <1>1, <1>5, <1>8
  <2>0. ASSUME NEW x \in Nat \ {0}, NEW y \in Nat, NEW z \in Nat, x - 1 <= y, y <= z,
               z <= Len(f.clusters)
        PROVE  BlocksFrom(f, x, z, 0) = BlocksFrom(f, x, y, 0) \o BlocksFrom(f, y + 1, z, 0)
    <3> DEFINE zero == 0
    <3> HIDE DEF zero
    <3>1. BlocksFrom(f, x, z, zero) = BlocksFrom(f, x, y, zero) \o BlocksFrom(f, y + 1, z, zero)
      BY <2>0, ScanFollows
    <3>2. QED
      BY <3>1 DEF zero
  <2> HIDE DEF N
  <2>2. BlocksFrom(f, 1, N, 0) = low \o BlocksFrom(f, (a - 1) + 1, N, 0)
    BY ONLY <1>8, <2>1, <2>0
  <2>3. BlocksFrom(f, a, N, 0) = middle \o high
    BY ONLY <1>8, <2>1, <2>0
  <2>4. WholeFile(f) = BlocksFrom(f, 1, N, 0)
    BY DEF WholeFile, N
  <2> HIDE DEF low, middle, high, N
  <2>5. QED
    BY <1>8, <2>2, <2>3, <2>4
<1>11. low \in Seq(StampedType) /\ middle \in Seq(StampedType) /\ high \in Seq(StampedType)
  <2>1. /\ last + 1 \in Nat \ {0} /\ (last + 1) - 1 <= N /\ 1 - 1 <= a - 1 /\ 1 \in Nat \ {0}
        /\ a - 1 <= Len(f.clusters)
    BY <1>5, <1>8
  <2>2. low \in Seq(StampedType)
    BY ONLY <1>8, <2>1, f \in FileType, ScanType
  <2>3. middle \in Seq(StampedType)
    BY <1>5, <1>8, ScanType
  <2>4. high \in Seq(StampedType)
    BY <1>1, <2>1, ScanType
  <2>5. QED
    BY <2>2, <2>3, <2>4
<1>12. ASSUME NEW m \in DOMAIN low PROVE low[m].ms < start
  <2>1. PICK c \in 1 .. a - 1 : \E n \in DOMAIN f.clusters[c].blocks :
          low[m].ms = BlockMs(f, c, f.clusters[c].blocks[n])
    <3>1. 1 - 1 <= a - 1 /\ 1 \in Nat \ {0} /\ a - 1 <= Len(f.clusters)
      BY <1>8
    <3>2. QED
      BY ONLY <1>8, <1>12, <3>1, f \in FileType, ScanFrom
  <2>2. PICK n \in DOMAIN f.clusters[c].blocks :
          low[m].ms = BlockMs(f, c, f.clusters[c].blocks[n])
    BY <2>1
  <2> HIDE DEF low
  <2>3. c \in DOMAIN f.clusters
    BY <1>1, <1>8
  <2>4. /\ low[m].ms \in Nat /\ ClusterMs(f, c) \in Nat
        /\ low[m].ms <= ClusterMs(f, c) + Span(f)
    BY <2>2, <2>3, BlockNearCluster
  <2>5. ClusterMs(f, c) + Span(f) < start
    <3>1. CASE c >= first
      <4>1. ClusterMs(f, c) < from
        BY <1>4, <1>7, <1>8, <2>3, <3>1
      <4>2. QED
        BY <1>2, <2>4, <4>1
    <3>2. CASE ~(c >= first)
      <4>1. first \in DOMAIN f.clusters /\ ClusterMs(f, first) + Span(f) < start /\ c <= first
        BY <1>1, <1>3, <1>4, <2>3, <3>2
      <4>2. ClusterMs(f, c) <= ClusterMs(f, first)
        BY <2>3, <4>1, ClustersInOrder
      <4>3. QED
        BY <1>2, <1>6, <2>3, <4>1, <4>2
    <3>3. QED
      BY <3>1, <3>2
  <2>6. QED
    BY <1>2, <2>4, <2>5
<1>13. ASSUME NEW m \in DOMAIN high PROVE high[m].ms >= end
  <2>0. last + 1 \in Nat \ {0} /\ (last + 1) - 1 <= N
    BY <1>5
  <2>1. PICK c \in last + 1 .. N : \E n \in DOMAIN f.clusters[c].blocks :
          high[m].ms = BlockMs(f, c, f.clusters[c].blocks[n])
    BY <1>1, <2>0, <1>13, ScanFrom
  <2>2. PICK n \in DOMAIN f.clusters[c].blocks :
          high[m].ms = BlockMs(f, c, f.clusters[c].blocks[n])
    BY <2>1
  <2> HIDE DEF high
  <2>3. c \in DOMAIN f.clusters /\ c > last
    BY <1>1, <1>5
  <2>4. /\ high[m].ms \in Nat /\ ClusterMs(f, c) \in Nat
        /\ ClusterMs(f, c) <= high[m].ms + Span(f)
    BY <2>2, <2>3, BlockNearCluster
  <2>5. Minus(ClusterMs(f, c), Span(f)) >= end
    BY <1>5, <2>3
  <2>6. QED
    BY <1>2, <2>4, <2>5 DEF Minus, Larger
<1> HIDE DEF low, middle, high
<1>14. QED
  BY <1>9, <1>10, <1>11, <1>12, <1>13

-----------------------------------------------------------------------------
(***************************************************************************)
(* What is taken of the blocks of a walk is what is taken of the file.     *)
(***************************************************************************)
\* The blocks of a track.
LEMMA TrackBlocksType ==
  ASSUME NEW s \in Seq(StampedType), NEW track
  PROVE  /\ TrackBlocks(s, track) \in Seq(StampedType)
         /\ \A m \in DOMAIN TrackBlocks(s, track) : \E n \in DOMAIN s :
              TrackBlocks(s, track)[m] = s[n] /\ s[n].track = track
<1> DEFINE I == {n \in DOMAIN s : s[n].track = track}
<1>1. TrackBlocks(s, track) = Kept(s, I)
  BY DEF TrackBlocks
<1>2. Kept(s, I) \in Seq(StampedType)
  BY KeptType
<1>3. \A m \in DOMAIN Kept(s, I) : \E n \in I \cap DOMAIN s : Kept(s, I)[m] = s[n]
  <2> HIDE DEF I
  <2>1. QED
    BY KeptFrom
<1>4. QED
  BY <1>1, <1>2, <1>3

\* The blocks of a track of two sequences in a row.
LEMMA TrackBlocksConcat ==
  ASSUME NEW s \in Seq(StampedType), NEW t \in Seq(StampedType), NEW track
  PROVE  TrackBlocks(s \o t, track) = TrackBlocks(s, track) \o TrackBlocks(t, track)
<1> DEFINE u == s \o t
           Iu == {n \in DOMAIN u : u[n].track = track}
           Is == {n \in DOMAIN s : s[n].track = track}
           It == {n \in DOMAIN t : t[n].track = track}
           J == {n \in 1 .. Len(t) : Len(s) + n \in Iu}
<1>1. Kept(u, Iu) = Kept(s, Iu) \o Kept(t, J)
  <2>1. \A n \in 1 .. Len(t) : n \in J <=> Len(s) + n \in Iu
    OBVIOUS
  <2> HIDE DEF Iu, J
  <2>2. QED
    BY <2>1, KeptConcat
<1>2. /\ Len(s) \in Nat /\ Len(t) \in Nat /\ DOMAIN u = 1 .. Len(s) + Len(t)
      /\ DOMAIN s = 1 .. Len(s) /\ DOMAIN t = 1 .. Len(t)
      /\ \A n \in 1 .. Len(s) : u[n] = s[n]
      /\ \A n \in 1 .. Len(t) : u[Len(s) + n] = t[n]
  OBVIOUS
<1> HIDE DEF u
<1>3. Kept(s, Iu) = Kept(s, Is)
  <2>1. \A n \in 1 .. Len(s) : n \in Iu <=> n \in Is
    BY <1>2
  <2> HIDE DEF Iu, Is
  <2>2. QED
    BY <2>1, KeptAgrees
<1>4. Kept(t, J) = Kept(t, It)
  <2>1. \A n \in 1 .. Len(t) : n \in J <=> n \in It
    <3>1. TAKE n \in 1 .. Len(t)
    <3>2. Len(s) + n \in DOMAIN u /\ u[Len(s) + n] = t[n] /\ n \in DOMAIN t
      BY <1>2
    <3>3. QED
      BY <3>2
  <2> HIDE DEF J, It
  <2>2. QED
    BY <2>1, KeptAgrees
<1> HIDE DEF Iu, Is, It, J
<1>5. /\ TrackBlocks(u, track) = Kept(u, Iu) /\ TrackBlocks(s, track) = Kept(s, Is)
      /\ TrackBlocks(t, track) = Kept(t, It)
  BY DEF TrackBlocks, Iu, Is, It
<1>6. QED
  BY <1>1, <1>3, <1>4, <1>5 DEF u

\* Blocks of which none is kept may be left out on both sides.
LEMMA BlocksMiddle ==
  \A s, t, u \in Seq(StampedType) : \A I, J :
    (/\ \A n \in 1 .. Len(s) : n \notin I
     /\ \A n \in 1 .. Len(t) : n \in J <=> Len(s) + n \in I
     /\ \A n \in 1 .. Len(u) : Len(s) + Len(t) + n \notin I)
      => Kept(s \o (t \o u), I) = Kept(t, J)
BY KeptMiddle

\* There is a keyframe at a time, and all is before it.
KeyAt(pictures, ms) == \E m \in DOMAIN pictures : pictures[m].key /\ pictures[m].ms = ms
AllBefore(pictures, ms) == \A m \in DOMAIN pictures : pictures[m].ms < ms

\* Blocks before a window and blocks after it change nothing, if the last group of
\* the pictures is closed inside, or if there are no pictures after it.
LEMMA TakenSame ==
  ASSUME NEW before \in Seq(StampedType), NEW seen \in Seq(StampedType),
         NEW after \in Seq(StampedType), NEW w, w.start \in Nat, w.end \in Nat,
         \A n \in DOMAIN before : before[n].ms < w.start,
         \A n \in DOMAIN after : after[n].ms >= w.end,
         w.track = "video" =>
           LET own == TrackBlocks(before \o (seen \o after), w.track)
           IN  \/ KeyAt(own, w.end) /\ \A n \in DOMAIN after : after[n].ms > w.end
               \/ AllBefore(own, w.end)
  PROVE  Taken(before \o (seen \o after), w) = Taken(seen, w)
<1> DEFINE beyond == \A n \in DOMAIN after : after[n].ms > w.end
<1>0. PICK from \in Nat, to \in Nat :
        /\ from <= w.start /\ w.end <= to /\ (beyond => w.end < to)
        /\ \A n \in DOMAIN before : before[n].ms < from
        /\ \A n \in DOMAIN after : after[n].ms >= to
  <2> DEFINE last == IF beyond THEN w.end + 1 ELSE w.end
  <2>1. \A b \in StampedType : b.ms \in Nat
    BY DEF StampedType
  <2>2. \A n \in DOMAIN after : after[n].ms \in Nat
    BY <2>1
  <2>3. /\ last \in Nat /\ w.end <= last /\ (beyond => w.end < last)
        /\ \A n \in DOMAIN after : after[n].ms >= last
    BY <2>2
  <2> HIDE DEF last, beyond
  <2>4. QED
    BY <2>3, SMTT(30)
<1> USE <1>0
<1> DEFINE p == TrackBlocks(before, w.track)
           q == TrackBlocks(seen, w.track)
           r == TrackBlocks(after, w.track)
           own == TrackBlocks(before \o (seen \o after), w.track)
           x == Len(p)
           y == Len(q)
           z == Len(r)
           group(o) == {n \in DOMAIN o : KeyframeBy(o, n, w.start) /\ ~KeyframeBy(o, n, w.end)}
           inside(o) == {n \in DOMAIN o : w.start <= o[n].ms /\ o[n].ms < w.end}
<1>1. p \in Seq(StampedType) /\ q \in Seq(StampedType) /\ r \in Seq(StampedType)
  BY TrackBlocksType
<1>2. own = p \o (q \o r)
  <2>1. seen \o after \in Seq(StampedType)
    OBVIOUS
  <2>2. own = p \o TrackBlocks(seen \o after, w.track)
    <3> DEFINE rest == seen \o after
    <3>1. rest \in Seq(StampedType)
      BY <2>1
    <3> HIDE DEF rest
    <3>2. TrackBlocks(before \o rest, w.track)
            = TrackBlocks(before, w.track) \o TrackBlocks(rest, w.track)
      BY ONLY <3>1, before \in Seq(StampedType), TrackBlocksConcat, SMTT(30)
    <3>3. QED
      BY <3>2 DEF rest
  <2>3. TrackBlocks(seen \o after, w.track) = q \o r
    BY TrackBlocksConcat
  <2>4. QED
    BY <2>2, <2>3
<1>3. \A n \in DOMAIN p : p[n].ms < from
  <2>1. \A m \in DOMAIN p : \E n \in DOMAIN before : p[m] = before[n]
    BY TrackBlocksType
  <2> HIDE DEF p
  <2>2. QED
    BY <2>1
<1>4. \A n \in DOMAIN r : r[n].ms >= to
  <2>1. \A m \in DOMAIN r : \E n \in DOMAIN after : r[m] = after[n]
    BY TrackBlocksType
  <2> HIDE DEF r
  <2>2. QED
    BY <2>1
<1>5. /\ Taken(before \o (seen \o after), w)
           = Kept(own, IF w.track = "video" THEN group(own) ELSE inside(own))
      /\ Taken(seen, w) = Kept(q, IF w.track = "video" THEN group(q) ELSE inside(q))
  BY DEF Taken
<1>5a. w.track = "video" =>
         \/ w.end < to /\ \E m \in DOMAIN own : own[m].key /\ own[m].ms = w.end
         \/ \A m \in DOMAIN own : own[m].ms < w.end
  BY DEF KeyAt, AllBefore
<1> HIDE DEF p, q, r, own
<1>6. /\ x \in Nat /\ y \in Nat /\ z \in Nat /\ DOMAIN own = 1 .. x + y + z
      /\ DOMAIN p = 1 .. x /\ DOMAIN q = 1 .. y /\ DOMAIN r = 1 .. z
      /\ \A n \in 1 .. x : own[n] = p[n]
      /\ \A n \in 1 .. y : own[x + n] = q[n]
      /\ \A n \in 1 .. z : own[x + y + n] = r[n]
  <2>1. /\ q \o r \in Seq(StampedType) /\ Len(q \o r) = y + z
        /\ \A n \in 1 .. y : (q \o r)[n] = q[n]
        /\ \A n \in 1 .. z : (q \o r)[y + n] = r[n]
    BY <1>1, SMTT(30)
  <2> DEFINE qr == q \o r
  <2> HIDE DEF qr
  <2>2. /\ qr \in Seq(StampedType) /\ Len(qr) = y + z
        /\ \A n \in 1 .. y : qr[n] = q[n]
        /\ \A n \in 1 .. z : qr[y + n] = r[n]
    BY <2>1 DEF qr
  <2>3. own = p \o qr
    BY <1>2 DEF qr
  <2>4. /\ x \in Nat /\ y \in Nat /\ z \in Nat
        /\ DOMAIN p = 1 .. x /\ DOMAIN q = 1 .. y /\ DOMAIN r = 1 .. z
    BY <1>1
  <2>5. DOMAIN own = 1 .. x + (y + z) /\ \A n \in 1 .. x : own[n] = p[n]
    <3>0. qr \in Seq(StampedType) /\ Len(qr) = y + z /\ p \in Seq(StampedType)
      BY <1>1, <2>2
    <3>0a. Len(own) = Len(p) + Len(qr) /\ own \in Seq(StampedType)
      <4>1. p \in Seq(StampedType) /\ qr \in Seq(StampedType)
        BY <3>0
      <4>2. QED
        BY ONLY <2>3, <4>1
    <3>1. own \in Seq(StampedType) /\ Len(own) = x + (y + z)
      BY <3>0, <3>0a
    <3>2. DOMAIN own = 1 .. x + (y + z)
      BY <3>1
    <3>3. \A n \in 1 .. x : own[n] = p[n]
      BY <1>1, <2>2, <2>3, <2>4
    <3>4. QED
      BY <3>2, <3>3
  <2>5a. x + (y + z) = x + y + z
    BY <2>4
  <2>6. \A n \in 1 .. y + z : own[x + n] = qr[n]
    BY <1>1, <2>2, <2>3, <2>4
  <2>7. \A n \in 1 .. y : own[x + n] = q[n]
    <3>1. TAKE n \in 1 .. y
    <3>2. n \in 1 .. y + z
      BY <2>4
    <3>3. QED
      BY <2>2, <2>6, <3>2
  <2>8. \A n \in 1 .. z : own[x + y + n] = r[n]
    <3>1. TAKE n \in 1 .. z
    <3>2. y + n \in 1 .. y + z /\ x + (y + n) = x + y + n
      BY <2>4
    <3>3. own[x + (y + n)] = qr[y + n]
      BY <2>6, <3>2
    <3>4. qr[y + n] = r[n]
      BY <2>2
    <3>5. QED
      BY <3>2, <3>3, <3>4
  <2>9. QED
    BY <2>4, <2>5, <2>5a, <2>7, <2>8
<1>7. /\ \A n \in 1 .. x : p[n].ms \in Nat
      /\ \A n \in 1 .. y : q[n].ms \in Nat
      /\ \A n \in 1 .. z : r[n].ms \in Nat
  <2>1. \A b \in StampedType : b.ms \in Nat
    BY DEF StampedType
  <2>2. QED
    BY <1>1, <2>1
<1> HIDE DEF x, y, z
<1>8. \A n \in 1 .. x : own[n].ms < from /\ own[n].ms \in Nat
  BY <1>3, <1>6, <1>7
<1>9. \A n \in 1 .. z : own[x + y + n].ms >= to /\ own[x + y + n].ms \in Nat
  BY <1>4, <1>6, <1>7
<1>10. ASSUME NEW I, NEW J, \A n \in 1 .. x : n \notin I,
              \A n \in 1 .. y : n \in J <=> x + n \in I, \A n \in 1 .. z : x + y + n \notin I
       PROVE  Kept(own, I) = Kept(q, J)
  <2>1. \A n \in 1 .. Len(p) : n \notin I
    BY <1>10 DEF x
  <2>2. \A n \in 1 .. Len(q) : n \in J <=> Len(p) + n \in I
    BY <1>10 DEF x, y
  <2>3. \A n \in 1 .. Len(r) : Len(p) + Len(q) + n \notin I
    BY <1>10 DEF x, y, z
  <2>4. Kept(p \o (q \o r), I) = Kept(q, J)
    <3>1. PICK P \in Seq(StampedType), Q \in Seq(StampedType), R \in Seq(StampedType) :
             P = p /\ Q = q /\ R = r
      BY ONLY <1>1, Zenon
    <3>2. (/\ \A n \in 1 .. Len(P) : n \notin I
           /\ \A n \in 1 .. Len(Q) : n \in J <=> Len(P) + n \in I
           /\ \A n \in 1 .. Len(R) : Len(P) + Len(Q) + n \notin I)
              => Kept(P \o (Q \o R), I) = Kept(Q, J)
      BY ONLY BlocksMiddle, SMTT(30)
    <3>3. QED
      BY ONLY <2>1, <2>2, <2>3, <3>1, <3>2, Zenon
  <2>5. QED
    BY <1>2, <2>4
<1>11. Kept(own, inside(own)) = Kept(q, inside(q))
  <2>1. \A n \in 1 .. x : n \notin inside(own)
    BY <1>8
  <2>2. \A n \in 1 .. y : n \in inside(q) <=> x + n \in inside(own)
    <3>1. TAKE n \in 1 .. y
    <3>2. x + n \in DOMAIN own /\ n \in DOMAIN q /\ own[x + n] = q[n]
      BY <1>6
    <3>3. QED
      BY <3>2
  <2>3. \A n \in 1 .. z : x + y + n \notin inside(own)
    BY <1>9
  <2> HIDE DEF inside
  <2>4. QED
    BY <2>1, <2>2, <2>3, <1>10
<1>12. ASSUME w.track = "video" PROVE Kept(own, group(own)) = Kept(q, group(q))
  <2>1. \A n \in 1 .. x : n \notin group(own)
    <3>1. TAKE n \in 1 .. x
    <3>2. \A m \in 1 .. n : m \in 1 .. x
      BY <1>6
    <3>3. ~KeyframeBy(own, n, w.start)
      BY <1>8, <3>2 DEF KeyframeBy
    <3>4. QED
      BY <3>3
  <2>2. ASSUME NEW n \in 1 .. y, NEW t \in Nat, t >= from
        PROVE  KeyframeBy(own, x + n, t) <=> KeyframeBy(q, n, t)
    <3>1. ASSUME NEW m \in 1 .. x + n, own[m].key /\ own[m].ms >= t PROVE KeyframeBy(q, n, t)
      <4>1. m \notin 1 .. x
        BY <1>8, <2>2, <3>1
      <4>2. m - x \in 1 .. y /\ m - x \in 1 .. n /\ x + (m - x) = m
        BY <1>6, <4>1
      <4>3. own[m] = q[m - x]
        BY <1>6, <4>2
      <4>4. QED
        BY <3>1, <4>2, <4>3 DEF KeyframeBy
    <3>2. ASSUME NEW m \in 1 .. n, q[m].key /\ q[m].ms >= t PROVE KeyframeBy(own, x + n, t)
      <4>1. m \in 1 .. y /\ x + m \in 1 .. x + n
        BY <1>6
      <4>2. own[x + m] = q[m]
        BY <1>6, <4>1
      <4>3. QED
        BY <3>2, <4>1, <4>2 DEF KeyframeBy
    <3>3. QED
      BY <3>1, <3>2 DEF KeyframeBy
  <2>3. ASSUME w.start <= w.end
        PROVE  \A n \in 1 .. y : n \in group(q) <=> x + n \in group(own)
    <3>1. TAKE n \in 1 .. y
    <3>2. x + n \in DOMAIN own /\ n \in DOMAIN q
      BY <1>6
    <3>3. w.end >= from
      BY <2>3
    <3>4. /\ KeyframeBy(own, x + n, w.start) <=> KeyframeBy(q, n, w.start)
          /\ KeyframeBy(own, x + n, w.end) <=> KeyframeBy(q, n, w.end)
      BY <2>2, <3>3
    <3>5. QED
      BY <3>2, <3>4
  <2>4. ASSUME w.start <= w.end PROVE \A n \in 1 .. z : x + y + n \notin group(own)
    <3>1. TAKE n \in 1 .. z
    <3>2. CASE w.end < to /\ \E m \in DOMAIN own : own[m].key /\ own[m].ms = w.end
      <4>1. PICK m \in DOMAIN own : own[m].key /\ own[m].ms = w.end
        BY <3>2
      <4>2. m \in 1 .. x + y + n
        <5>1. ASSUME m > x + y PROVE FALSE
          <6>0. x \in Nat /\ y \in Nat /\ z \in Nat /\ m \in 1 .. x + y + z
            BY <1>6
          <6>1. m - (x + y) \in 1 .. z /\ x + y + (m - (x + y)) = m
            BY ONLY <5>1, <6>0
          <6>2. own[x + y + (m - (x + y))].ms >= to
            BY <1>9, <6>1
          <6>3. QED
            BY <3>2, <4>1, <6>1, <6>2
        <5>2. QED
          BY <1>6, <5>1
      <4>3. KeyframeBy(own, x + y + n, w.end)
        BY <4>1, <4>2 DEF KeyframeBy
      <4>4. QED
        BY <4>3
    <3>3. CASE \A m \in DOMAIN own : own[m].ms < w.end
      <4>1. x + y + n \in DOMAIN own
        BY <1>6
      <4>2. QED
        BY <1>9, <3>3, <4>1
    <3>4. QED
      BY <1>12, <1>5a, <3>2, <3>3
  <2>5. CASE w.start <= w.end
    <3> HIDE DEF group
    <3>1. QED
      BY <1>10, <2>1, <2>3, <2>4, <2>5
  <2>6. CASE ~(w.start <= w.end)
    <3>1. ASSUME NEW o, NEW n \in DOMAIN o, KeyframeBy(o, n, w.start),
                 \A m \in 1 .. n : o[m].ms \in Nat
          PROVE  KeyframeBy(o, n, w.end)
      BY <2>6, <3>1 DEF KeyframeBy
    <3>2. \A n \in DOMAIN own : \A m \in 1 .. n : own[m].ms \in Nat
      <4>1. own \in Seq(StampedType)
        BY <1>1, <1>2
      <4>2. \A b \in StampedType : b.ms \in Nat
        BY DEF StampedType
      <4>3. QED
        BY <4>1, <4>2
    <3>3. \A n \in DOMAIN q : \A m \in 1 .. n : q[m].ms \in Nat
      BY <1>6, <1>7
    <3>4. group(own) = {} /\ group(q) = {}
      BY <3>1, <3>2, <3>3
    <3> HIDE DEF group
    <3>5. QED
      BY <1>10, <3>4
  <2>7. QED
    BY <2>5, <2>6
<1> HIDE DEF group, inside
<1>13. QED
  BY <1>5, <1>11, <1>12

-----------------------------------------------------------------------------
\* Something divided upwards is at least one.
LEMMA DivUpPositive ==
  ASSUME NEW a \in Nat, a > 0, NEW b \in Nat, b > 0
  PROVE  DivUpBy(a, b) \in Nat /\ DivUpBy(a, b) > 0
<1> DEFINE x == a + b - 1
<1>1. x \in Nat /\ x >= b
  OBVIOUS
<1> HIDE DEF x
<1>2. x \div b \in Nat /\ x \div b > 0
  BY <1>1
<1>3. QED
  BY <1>2 DEF DivUpBy, x

\* The sound is read from before a segment's pictures to after them.
LEMMA SoundAround ==
  ASSUME NEW s \in Sources, NEW c, c.start \in Nat, EndOf(c) \in Nat,
         NEW p, p.rate \in {None, s.rate}
  PROVE  LET w == InputWindow(p, s, c)
         IN  /\ w.start \in Nat /\ w.end \in Nat
             /\ w.start <= c.start /\ EndOf(c) < w.end
<1> DEFINE rate == PlanningRate(p, s)
           ms(frames) == DivUpBy(frames * FrameSamples * MillisPerSecond, rate)
<1>1. rate \in Nat /\ rate > 0
  <2>1. s.rate \in Nat /\ s.rate >= LowestRate
    BY RateAssumption
  <2>2. s.header \in Nat
    BY SourcesAssumption
  <2>3. QED
    BY <2>1, <2>2 DEF PlanningRate, LowestRate, HighestRate, Smaller, Larger
<1> HIDE DEF rate
<1>2. ms(LookaheadFrames) \in Nat /\ ms(LookaheadFrames) > 0 /\ ms(PrerollFrames + 2) \in Nat
  <2> DEFINE ahead == LookaheadFrames * FrameSamples * MillisPerSecond
             behind == (PrerollFrames + 2) * FrameSamples * MillisPerSecond
  <2>1. ahead \in Nat /\ ahead > 0 /\ behind \in Nat /\ behind > 0
    BY DEF LookaheadFrames, PrerollFrames, FrameSamples, MillisPerSecond
  <2>2. ms(LookaheadFrames) = DivUpBy(ahead, rate) /\ ms(PrerollFrames + 2) = DivUpBy(behind, rate)
    OBVIOUS
  <2> HIDE DEF ahead, behind, ms
  <2>3. QED
    BY <1>1, <2>1, <2>2, DivUpPositive
<1>3. InputWindow(p, s, c) = [start |-> Minus(c.start, ms(PrerollFrames + 2) + SlackMs),
                             end |-> EndOf(c) + ms(LookaheadFrames)]
  BY DEF InputWindow, rate
<1> HIDE DEF ms
<1>4. QED
  BY <1>2, <1>3 DEF Minus, Larger, SlackMs

\* The walk covers the sound's window, and so the other one.
LEMMA HullIs ==
  ASSUME NEW v, NEW a, v.start \in Nat, v.end \in Nat, a.start \in Nat, a.end \in Nat,
         a.start <= v.start, v.end < a.end
  PROVE  Hull(<<v, a>>).start = a.start /\ Hull(<<v, a>>).end = a.end
<1> DEFINE starts == {w.start : w \in ToSet(<<v, a>>)}
           ends == {w.end : w \in ToSet(<<v, a>>)}
           low == CHOOSE s \in starts : \A t \in starts : s <= t
           high == CHOOSE e \in ends : \A t \in ends : e >= t
<1>1. ToSet(<<v, a>>) = {v, a}
  BY DEF ToSet
<1>2. starts = {v.start, a.start} /\ ends = {v.end, a.end}
  BY <1>1
<1>3. Hull(<<v, a>>) = [start |-> low, end |-> high]
  BY DEF Hull
<1> HIDE DEF starts, ends
<1>4. low = a.start
  <2>1. a.start \in starts /\ \A t \in starts : a.start <= t
    BY <1>2
  <2>2. low \in starts /\ \A t \in starts : low <= t
    BY <2>1
  <2>3. QED
    BY <1>2, <2>1, <2>2
<1>5. high = a.end
  <2>1. a.end \in ends /\ \A t \in ends : a.end >= t
    BY <1>2
  <2>2. high \in ends /\ \A t \in ends : high >= t
    BY <2>1
  <2>3. QED
    BY <1>2, <2>1, <2>2
<1> HIDE DEF low, high
<1>6. QED
  BY <1>3, <1>4, <1>5

\* A segment's windows get from the walk what the whole file has for them.
LEMMA WindowsComplete ==
  ASSUME NEW s \in Sources, ~s.mp4, NEW i \in DOMAIN SegmentPlan(s),
         NEW p, p.rate \in {None, s.rate}
  PROVE  LET windows == MediaWindows(s, p, SegmentPlan(s)[i])
         IN  /\ DOMAIN windows = {1, 2}
             /\ \A n \in DOMAIN windows :
                  Blocks(s.file, windows)[n] = Taken(WholeFile(s.file), windows[n])
<1> DEFINE plan == SegmentPlan(s)
           c == plan[i]
           a == InputWindow(p, s, c)
           v == Window("video", c.start, EndOf(c))
           w == Window("audio", a.start, a.end)
           whole == WholeFile(s.file)
           seen == BlocksScanned(s.file, a.start, a.end)
<1>1. /\ s.file \in FileType /\ OrderedClusters(s.file, DOMAIN s.file.clusters)
      /\ CutAt(TrackBlocks(whole, "video"), plan, i)
  BY SourcesAssumption DEF MuxedFile
<1>2. c.start \in Nat /\ EndOf(c) \in Nat
  BY PlanIsGapless
<1>3. MediaWindows(s, p, c) = <<v, w>>
  BY DEF MediaWindows
<1> HIDE DEF c
<1>4. /\ a.start \in Nat /\ a.end \in Nat /\ a.start <= c.start /\ EndOf(c) < a.end
  BY <1>2, SoundAround
<1> HIDE DEF a
<1>5. /\ v.track = "video" /\ v.start = c.start /\ v.end = EndOf(c)
      /\ w.track = "audio" /\ w.start = a.start /\ w.end = a.end
  BY DEF Window
<1> HIDE DEF v, w
<1>6. Hull(<<v, w>>).start = a.start /\ Hull(<<v, w>>).end = a.end
  BY <1>2, <1>4, <1>5, HullIs
<1>7. PICK before \in Seq(StampedType), after \in Seq(StampedType) :
        /\ whole = before \o (seen \o after)
        /\ \A n \in DOMAIN before : before[n].ms < a.start
        /\ \A n \in DOMAIN after : after[n].ms >= a.end
  BY <1>1, <1>4, WalkSplits
<1>8. PICK mid \in Seq(StampedType) : mid = seen
  BY <1>1, <1>4, WalkSplits
<1>9. LET own == TrackBlocks(whole, "video") IN KeyAt(own, EndOf(c)) \/ AllBefore(own, EndOf(c))
  BY <1>1 DEF CutAt, c, KeyAt, AllBefore
<1> HIDE DEF whole, seen
<1>10. Taken(whole, v) = Taken(seen, v)
  <2>1. /\ v.start \in Nat /\ v.end \in Nat
        /\ \A n \in DOMAIN before : before[n].ms < v.start
        /\ \A n \in DOMAIN after : after[n].ms > v.end /\ after[n].ms >= v.end
    <3>1. \A b \in StampedType : b.ms \in Nat
      BY DEF StampedType
    <3>2. /\ \A n \in DOMAIN before : before[n].ms \in Nat
          /\ \A n \in DOMAIN after : after[n].ms \in Nat
      BY <3>1
    <3>3. QED
      BY <1>2, <1>4, <1>5, <1>7, <3>2
  <2> DEFINE own == TrackBlocks(before \o (mid \o after), v.track)
  <2>2. KeyAt(own, v.end) \/ AllBefore(own, v.end)
    BY <1>5, <1>7, <1>8, <1>9
  <2>3. Taken(before \o (mid \o after), v) = Taken(mid, v)
    BY ONLY <2>1, <2>2, TakenSame
  <2>4. QED
    BY <1>7, <1>8, <2>3
<1>11. Taken(whole, w) = Taken(seen, w)
  <2>1. /\ w.track # "video" /\ w.start \in Nat /\ w.end \in Nat
        /\ \A n \in DOMAIN before : before[n].ms < w.start
        /\ \A n \in DOMAIN after : after[n].ms >= w.end
    BY <1>2, <1>4, <1>5, <1>7
  <2>2. Taken(before \o (mid \o after), w) = Taken(mid, w)
    BY ONLY <2>1, TakenSame
  <2>3. QED
    BY <1>7, <1>8, <2>2
<1>12. Blocks(s.file, <<v, w>>) = [n \in DOMAIN <<v, w>> |-> Taken(seen, <<v, w>>[n])]
  BY <1>6 DEF Blocks, seen
<1>13. DOMAIN <<v, w>> = {1, 2}
  OBVIOUS
<1>14. QED
  BY <1>3, <1>10, <1>11, <1>12, <1>13 DEF c, whole

-----------------------------------------------------------------------------
(***************************************************************************)
(* The pipeline keeps its types: its runs of PCM have shifts from some set *)
(* D, and all of its positions are whole numbers.                          *)
(***************************************************************************)
\* A run of PCM with a shift from D.
RunType(D) == [from : Int, to : Int, shift : D]
\* The pipelines of a source whose sounds have shifts from D.
PipeType(s, D) ==
  [rate : {None, s.rate}, clock : Int, skip : Nat, warm : BOOLEAN, pcm : Seq(RunType(D)),
   anchor : Int, next : Int, runs : Seq(RunType(D)), frames : Int, last : Int,
   completed : Int, poisoned : BOOLEAN]

\* The pipelines of a source.
Pipes(s) == PipeType(s, Int)

\* The numbers of a source are natural ones, and it has a sample rate.
LEMMA SourceType ==
  ASSUME NEW s \in Sources
  PROVE  /\ s.rate \in Nat /\ s.rate >= LowestRate /\ s.rate > 0
         /\ s.header \in Nat /\ s.samples \in Nat /\ s.lead \in Nat /\ s.skip \in Nat
<1>1. {s.header, s.samples, s.lead, s.skip} \subseteq Nat
  BY SourcesAssumption
<1>2. s.rate \in Nat /\ s.rate >= LowestRate
  BY RateAssumption
<1>3. QED
  BY <1>1, <1>2 DEF LowestRate

\* Times are a natural number of samples.
LEMMA NaturalSamples ==
  ASSUME NEW units \in Nat, NEW scale \in Nat, NEW rate \in Nat
  PROVE  ToSamples(units, scale, rate) \in Nat
<1>1. CASE scale = 0
  BY <1>1 DEF ToSamples
<1>2. CASE scale # 0
  <2> DEFINE whole == units \div scale
             part == units % scale
             half == scale \div 2
  <2>1. whole \in Nat /\ part \in Nat /\ half \in Nat
    BY <1>2
  <2> HIDE DEF whole, part, half
  <2>2. whole * rate \in Nat /\ part * rate \in Nat
    BY <2>1
  <2> DEFINE x == part * rate + half
  <2>3. x \in Nat
    BY <2>1, <2>2
  <2> HIDE DEF x
  <2>4. x \div scale \in Nat
    BY <1>2, <2>3
  <2>5. ToSamples(units, scale, rate) = whole * rate + x \div scale
    BY <1>2 DEF ToSamples, whole, part, half, x
  <2>6. QED
    BY <2>2, <2>4, <2>5
<1>3. QED
  BY <1>1, <1>2

\* What a decoder makes of a packet.
LEMMA DecodedType ==
  ASSUME NEW s \in Sources, NEW p \in Pipes(s), NEW packet \in PacketType
  PROVE  Decoded(p, s, packet) \in Pipes(s)
<1> DEFINE dropped == Smaller(p.skip, s.samples)
           advance == ToSamples(dropped, s.rate, packet.scale)
           from == Stamp(p, s, packet.pts + advance, packet.scale)
           to == from + s.samples - dropped
           shift == IF p.warm \/ packet.offset = 1 THEN from - (Place(s, packet) + dropped)
                    ELSE Cold
           run == [from |-> from, to |-> to, shift |-> shift]
<1>1. packet.scale \in Nat /\ packet.pts \in Nat /\ packet.offset \in Nat
  BY DEF PacketType
<1>2. p.skip \in Nat /\ p.clock \in Int /\ p.pcm \in Seq(RunType(Int)) /\ p.warm \in BOOLEAN
  BY DEF Pipes, PipeType
<1>3. dropped \in Nat /\ dropped <= p.skip
  BY <1>2, SourceType DEF Smaller
<1>4. advance \in Nat
  BY <1>1, <1>3, SourceType, NaturalSamples
<1> HIDE DEF advance
<1>5. from \in Int
  <2> DEFINE units == packet.pts + advance
  <2>1. units \in Nat
    BY <1>1, <1>4
  <2> HIDE DEF units
  <2>2. ToSamples(units, packet.scale, s.rate) \in Nat
    BY <1>1, <2>1, SourceType, NaturalSamples
  <2>3. Stamp(p, s, units, packet.scale) \in Int
    BY <1>2, <2>2 DEF Stamp
  <2>4. QED
    BY <2>3 DEF units
<1>6. Place(s, packet) \in Int
  <2>1. (packet.offset - 1) * s.samples \in Int
    BY <1>1, SourceType
  <2>2. QED
    BY <2>1, SourceType DEF Place
<1> HIDE DEF dropped, from
<1>7. to \in Int /\ shift \in Int
  BY <1>3, <1>5, <1>6, SourceType DEF Cold
<1>8. Decoded(p, s, packet) =
        [p EXCEPT !.rate = s.rate, !.clock = to, !.skip = p.skip - dropped, !.warm = TRUE,
                  !.pcm = Append(p.pcm, run), !.last = packet.offset]
  BY DEF Decoded, from, dropped, advance
<1> HIDE DEF to, shift
<1>9. run \in RunType(Int)
  BY <1>5, <1>7 DEF RunType
<1> HIDE DEF run
<1>10. Append(p.pcm, run) \in Seq(RunType(Int)) /\ p.skip - dropped \in Nat
  BY <1>2, <1>3, <1>9
<1>12. packet.offset \in Int
  BY <1>1
<1> DEFINE less == p.skip - dropped
           more == Append(p.pcm, run)
           number == packet.offset
<1>13. less \in Nat /\ more \in Seq(RunType(Int)) /\ number \in Int /\ to \in Int
  BY <1>7, <1>10, <1>12
<1>14. Decoded(p, s, packet) = [p EXCEPT !.rate = s.rate, !.clock = to, !.skip = less,
                                        !.warm = TRUE, !.pcm = more, !.last = number]
  BY ONLY <1>8 DEF less, more, number
<1> HIDE DEF less, more, number
<1>15. [p EXCEPT !.rate = s.rate, !.clock = to, !.skip = less, !.warm = TRUE, !.pcm = more,
                 !.last = number] \in Pipes(s)
  BY <1>13 DEF Pipes, PipeType
<1>16. QED
  BY <1>14, <1>15, Zenon

\* The states of the pipeline while packets are decoded.
Decoding(after, p, s, fresh) ==
  /\ after[0] = p
  /\ \A n \in 1 .. Len(fresh) : after[n] = Decoded(after[n - 1], s, fresh[n])

\* The recursion of DecodedAll is a decoding of the new packets one by one.
LEMMA DecodesAll ==
  ASSUME NEW s \in Sources, NEW p \in Pipes(s), NEW packets,
         NewPackets(p, packets) \in Seq(PacketType)
  PROVE  \E after \in [0 .. Len(NewPackets(p, packets)) -> Pipes(s)] :
           /\ Decoding(after, p, s, NewPackets(p, packets))
           /\ DecodedAll(p, s, packets) = after[Len(NewPackets(p, packets))]
<1> DEFINE fresh == NewPackets(p, packets)
           N == Len(fresh)
           Z == Pipes(s)
           F == [n \in 1 .. N |-> [x \in Z |-> Decoded(x, s, fresh[n])]]
           Is(f) == f = [n \in 0 .. N |-> IF n = 0 THEN p ELSE Decoded(f[n - 1], s, fresh[n])]
<1>0. fresh \in Seq(PacketType)
  OBVIOUS
<1>1. DecodedAll(p, s, packets) = (CHOOSE f : Is(f))[N]
  BY DEF DecodedAll
<1> HIDE DEF fresh
<1>2. N \in Nat
  BY <1>0
<1>3. F \in [1 .. N -> [Z -> Z]]
  <2>1. ASSUME NEW n \in 1 .. N, NEW x \in Z PROVE Decoded(x, s, fresh[n]) \in Z
    BY <1>0, DecodedType
  <2> HIDE DEF N, Z
  <2>2. QED
    BY <2>1
<1>4. \A n \in 1 .. N, x \in Z : F[n][x] = Decoded(x, s, fresh[n])
  OBVIOUS
<1>5. p \in Z
  OBVIOUS
<1>6. \A n \in 1 .. N : n - 1 \in 0 .. N
  BY <1>2
<1> HIDE DEF F, N, Z, Is
<1>7. PICK f \in [0 .. N -> Z] : f[0] = p /\ \A n \in 1 .. N : f[n] = F[n][f[n - 1]]
  BY ONLY <1>2, <1>3, <1>5, Iteration
<1>8. \A n \in 1 .. N : f[n] = Decoded(f[n - 1], s, fresh[n])
  BY <1>4, <1>6, <1>7
<1>9. Is(f)
  BY <1>2, <1>7, <1>8 DEF Is
<1> DEFINE after == CHOOSE g : Is(g)
<1>10. Is(after)
  BY <1>9
<1> HIDE DEF after
<1>11. after[0] = p /\ \A n \in 1 .. N : after[n] = Decoded(after[n - 1], s, fresh[n])
  BY <1>2, <1>10 DEF Is
<1>12. \A n \in 0 .. N : after[n] \in Z
  <2>1. \A n \in 1 .. N : after[n - 1] \in Z => after[n] = F[n][after[n - 1]]
    BY <1>4, <1>11
  <2>2. QED
    BY ONLY <1>2, <1>3, <1>5, <1>11, <2>1, IterationIs
<1>13. after \in [0 .. N -> Z]
  <2>1. after = [n \in 0 .. N |-> IF n = 0 THEN p ELSE Decoded(after[n - 1], s, fresh[n])]
    BY <1>10 DEF Is
  <2>2. DOMAIN after = 0 .. N /\ after = [n \in 0 .. N |-> after[n]]
    BY <2>1
  <2>3. QED
    BY <1>12, <2>2
<1>14. DecodedAll(p, s, packets) = after[N]
  BY <1>1 DEF after
<1>15. QED
  BY <1>11, <1>13, <1>14 DEF Decoding, N, Z, fresh

\* Feeding the encoder leaves the decoder as it is.
Feeds(p, s, D) ==
  {q \in PipeType(s, D) : /\ q.rate = p.rate /\ q.clock = p.clock /\ q.skip = p.skip
                          /\ q.warm = p.warm /\ q.last = p.last
                          /\ q.completed = p.completed /\ q.poisoned = p.poisoned}

\* Feeding a run keeps the type.
LEMMA FedType ==
  ASSUME NEW s, NEW D, NEW p, NEW q \in Feeds(p, s, D), NEW to \in Int, NEW shift \in D
  PROVE  Fed(q, to, shift) \in Feeds(p, s, D)
<1> DEFINE R == RunType(D)
           joins == q.runs # <<>> /\ Last(q.runs).shift = shift
           from == IF joins THEN Last(q.runs).from ELSE q.next
           run == [from |-> from, to |-> to, shift |-> shift]
           before == IF joins THEN Front(q.runs) ELSE q.runs
           runs == Append(before, run)
<1>1. q.runs \in Seq(R) /\ q.next \in Int
  BY DEF Feeds, PipeType
<1>2. Fed(q, to, shift) = [q EXCEPT !.next = to, !.runs = runs]
  BY DEF Fed
<1>3. ASSUME NEW r \in R PROVE r.from \in Int
  BY DEF RunType
<1>4. q.runs # <<>> => Last(q.runs) \in R
  <2> HIDE DEF R
  <2>1. QED
    BY <1>1 DEF Last
<1>5. from \in Int
  BY <1>1, <1>3, <1>4
<1>6. run \in R
  BY <1>5 DEF RunType
<1>7. before \in Seq(R)
  <2> HIDE DEF R
  <2>1. q.runs # <<>> => Front(q.runs) \in Seq(R)
    BY <1>1 DEF Front
  <2>2. QED
    BY <1>1, <2>1
<1> HIDE DEF R, run, before
<1>8. runs \in Seq(R)
  BY <1>6, <1>7
<1> HIDE DEF runs
<1>9. [q EXCEPT !.next = to, !.runs = runs] \in Feeds(p, s, D)
  BY <1>8 DEF Feeds, PipeType, R
<1>10. QED
  BY <1>2, <1>9, Zenon

\* So does feeding what a frame has before a bound,
LEMMA FedFrameType ==
  ASSUME NEW s, NEW D, Silence \in D, NEW p, NEW q \in Feeds(p, s, D),
         NEW frame \in RunType(D), NEW bound \in Int
  PROVE  FedFrame(q, frame, bound) \in Feeds(p, s, D)
<1> DEFINE from == Larger(frame.from, q.next)
           to == Smaller(frame.to, bound)
           x == IF from > q.next THEN Fed(q, from, Silence) ELSE q
<1>1. frame.from \in Int /\ frame.to \in Int /\ frame.shift \in D
  BY DEF RunType
<1>2. q.next \in Int
  BY DEF Feeds, PipeType
<1>3. from \in Int /\ to \in Int
  BY <1>1, <1>2 DEF Larger, Smaller
<1>4. FedFrame(q, frame, bound) = IF from >= to THEN q ELSE Fed(x, to, frame.shift)
  BY DEF FedFrame
<1> HIDE DEF from, to
<1>5. x \in Feeds(p, s, D)
  BY <1>3, FedType
<1> HIDE DEF x
<1>6. Fed(x, to, frame.shift) \in Feeds(p, s, D)
  BY <1>1, <1>3, <1>5, FedType
<1>7. QED
  BY <1>4, <1>6

\* and so does fixing where the encoder begins.
LEMMA BegunType ==
  ASSUME NEW s, NEW D, NEW p, NEW q \in Feeds(p, s, D), NEW start \in Int
  PROVE  Begun(q, start) \in Feeds(p, s, D)
BY DEF Begun, Feeds, PipeType

\* The first frame that crosses a bound is one of those at hand or follows them.
LEMMA FirstBeyondIs ==
  ASSUME NEW D, NEW pcm \in Seq(RunType(D)), NEW bound \in Int
  PROVE  FirstBeyond(pcm, bound) \in 1 .. Len(pcm) + 1
<1> DEFINE S == {Len(pcm) + 1} \cup {n \in DOMAIN pcm : pcm[n].to > bound}
<1>1. Len(pcm) \in Nat /\ DOMAIN pcm = 1 .. Len(pcm)
  OBVIOUS
<1>2. S \in SUBSET Nat /\ S # {} /\ S \subseteq 1 .. Len(pcm) + 1
  BY <1>1
<1>3. FirstBeyond(pcm, bound) = SmallestOf(S)
  BY DEF FirstBeyond
<1> HIDE DEF S
<1>4. QED
  BY <1>2, <1>3, Smallest

\* The states of the pipeline while frames are fed.
Feeding(after, q, bound, used) ==
  /\ after[0] = q
  /\ \A n \in 1 .. used : after[n] = FedFrame(after[n - 1], q.pcm[n], bound)

\* What FedBefore returns is what they end in.
FedInSteps(x, q, bound, used, rest, Z) ==
  \E after \in [0 .. used -> Z] :
    Feeding(after, q, bound, used) /\ x = [after[used] EXCEPT !.pcm = rest]

\* The recursion of FedBefore feeds the frames one by one.
LEMMA FeedsOneByOne ==
  ASSUME NEW s, NEW D, Silence \in D, NEW p, NEW q \in Feeds(p, s, D), NEW bound \in Int,
         NEW kept, kept \in 1 .. Len(q.pcm) + 1, NEW used, used = Smaller(kept, Len(q.pcm))
  PROVE  FedInSteps(FedBefore(q, kept, bound), q, bound, used,
                    SubSeq(q.pcm, kept, Len(q.pcm)), Feeds(p, s, D))
<1> DEFINE Z == Feeds(p, s, D)
           F == [n \in 1 .. used |-> [x \in Z |-> FedFrame(x, q.pcm[n], bound)]]
           Is(f) == f = [n \in 0 .. used |->
                           IF n = 0 THEN q ELSE FedFrame(f[n - 1], q.pcm[n], bound)]
           R == RunType(D)
<1>1. q.pcm \in Seq(R)
  BY DEF Feeds, PipeType
<1> HIDE DEF R
<1>2. Len(q.pcm) \in Nat /\ used \in Nat /\ used <= Len(q.pcm)
  BY <1>1 DEF Smaller
<1>3. FedBefore(q, kept, bound)
        = [(CHOOSE f : Is(f))[used] EXCEPT !.pcm = SubSeq(q.pcm, kept, Len(q.pcm))]
  BY DEF FedBefore
<1>5. F \in [1 .. used -> [Z -> Z]]
  <2>1. ASSUME NEW n \in 1 .. used, NEW x \in Z PROVE FedFrame(x, q.pcm[n], bound) \in Z
    <3>1. q.pcm[n] \in R
      BY <1>1, <1>2
    <3>2. QED
      BY <3>1, FedFrameType DEF R
  <2> HIDE DEF Z
  <2>2. QED
    BY <2>1
<1>6. \A n \in 1 .. used, x \in Z : F[n][x] = FedFrame(x, q.pcm[n], bound)
  OBVIOUS
<1>7. q \in Z
  OBVIOUS
<1>8. \A n \in 1 .. used : n - 1 \in 0 .. used
  BY <1>2
<1>9. used \in Nat
  BY <1>2
<1> HIDE DEF F, Z, Is
<1>10. PICK f \in [0 .. used -> Z] : f[0] = q /\ \A n \in 1 .. used : f[n] = F[n][f[n - 1]]
  BY ONLY <1>5, <1>7, <1>9, Iteration
<1>11. Is(f)
  <2>1. \A n \in 1 .. used : f[n] = FedFrame(f[n - 1], q.pcm[n], bound)
    BY <1>6, <1>8, <1>10
  <2>2. QED
    BY <1>9, <1>10, <2>1 DEF Is
<1> DEFINE after == CHOOSE g : Is(g)
<1>12. Is(after)
  BY <1>11
<1> HIDE DEF after
<1>13. after[0] = q /\ \A n \in 1 .. used : after[n] = FedFrame(after[n - 1], q.pcm[n], bound)
  BY <1>9, <1>12 DEF Is
<1>14. \A n \in 0 .. used : after[n] \in Z
  <2>1. \A n \in 1 .. used : after[n - 1] \in Z => after[n] = F[n][after[n - 1]]
    BY <1>6, <1>13
  <2>2. QED
    BY ONLY <1>5, <1>7, <1>9, <1>13, <2>1, IterationIs
<1>15. after \in [0 .. used -> Z]
  <2>1. after = [n \in 0 .. used |-> IF n = 0 THEN q ELSE FedFrame(after[n - 1], q.pcm[n], bound)]
    BY <1>12 DEF Is
  <2>2. DOMAIN after = 0 .. used /\ after = [n \in 0 .. used |-> after[n]]
    BY <2>1
  <2>3. QED
    BY <1>14, <2>2
<1>16. FedBefore(q, kept, bound) = [after[used] EXCEPT !.pcm = SubSeq(q.pcm, kept, Len(q.pcm))]
  BY <1>3 DEF after
<1>17. QED
  BY <1>13, <1>15, <1>16 DEF Feeding, FedInSteps, Z

\* Feeding the frames before it leaves the decoder as it is.
LEMMA FedBeforeType ==
  ASSUME NEW s, NEW D, Silence \in D, NEW p, NEW q \in Feeds(p, s, D), NEW bound \in Int,
         NEW kept \in 1 .. Len(q.pcm) + 1
  PROVE  FedBefore(q, kept, bound) \in Feeds(p, s, D)
<1> DEFINE used == Smaller(kept, Len(q.pcm))
           rest == SubSeq(q.pcm, kept, Len(q.pcm))
           R == RunType(D)
<1>1. q.pcm \in Seq(R)
  BY DEF Feeds, PipeType
<1> HIDE DEF R
<1>2. rest \in Seq(R) /\ used \in Nat /\ used = Smaller(kept, Len(q.pcm))
  BY <1>1 DEF Smaller
<1> HIDE DEF used
<1>3. PICK after \in [0 .. used -> Feeds(p, s, D)] :
        FedBefore(q, kept, bound) = [after[used] EXCEPT !.pcm = rest]
  <2>1. /\ kept \in 1 .. Len(q.pcm) + 1 /\ used = Smaller(kept, Len(q.pcm)) /\ Silence \in D
        /\ q \in Feeds(p, s, D) /\ bound \in Int
    BY <1>2
  <2>2. FedInSteps(FedBefore(q, kept, bound), q, bound, used, SubSeq(q.pcm, kept, Len(q.pcm)),
                   Feeds(p, s, D))
    BY <2>1, FeedsOneByOne
  <2>3. QED
    BY <2>2 DEF FedInSteps
<1> HIDE DEF rest
<1>4. after[used] \in Feeds(p, s, D)
  BY <1>2
<1>5. [after[used] EXCEPT !.pcm = rest] \in Feeds(p, s, D)
  BY <1>2, <1>4 DEF Feeds, PipeType, R
<1>6. QED
  BY <1>3, <1>5

\* Whole frames of samples are a whole number of samples.
LEMMA AlignedType ==
  ASSUME NEW samples \in Int
  PROVE  AlignedDown(samples) \in Int /\ AlignedEnd(samples) \in Int
<1>1. samples \div 1024 \in Int /\ (samples + 1024 - 1) \div 1024 \in Int
  OBVIOUS
<1>2. QED
  BY <1>1 DEF AlignedDown, AlignedEnd, DivUpBy, FrameSamples

\* The bounds of a segment's window are whole numbers of samples.
LEMMA WindowType ==
  ASSUME NEW c, c.start \in Nat, EndOf(c) \in Nat, NEW rate \in Nat
  PROVE  /\ WindowStart(c, rate) \in Nat /\ WindowEnd(c, rate) \in Nat
         /\ FedUntil(c, rate) \in Int /\ PrerollStart(c, rate) \in Int
<1>1. MillisPerSecond \in Nat /\ FrameSamples \in Nat /\ PrerollFrames \in Nat
  BY DEF MillisPerSecond, FrameSamples, PrerollFrames
<1>2. WindowStart(c, rate) \in Nat /\ WindowEnd(c, rate) \in Nat
  BY <1>1, NaturalSamples DEF WindowStart, WindowEnd, MsToSamples
<1>3. AlignedEnd(WindowEnd(c, rate)) \in Int
  BY <1>2, AlignedType
<1> DEFINE early == Minus(WindowStart(c, rate), PrerollFrames * FrameSamples)
<1>4. early \in Int
  BY <1>1, <1>2 DEF Minus, Larger
<1> HIDE DEF early
<1>5. AlignedDown(early) \in Int
  BY <1>4, AlignedType
<1>6. 2 * FrameSamples \in Int
  BY <1>1
<1>7. QED
  BY <1>2, <1>3, <1>5, <1>6 DEF FedUntil, PrerollStart, early

\* Nothing fed is a feeding.
LEMMA FeedsItself ==
  ASSUME NEW s, NEW D, NEW p \in PipeType(s, D)
  PROVE  p \in Feeds(p, s, D)
BY DEF Feeds

\* feed_pcm leaves the decoder as it is,
LEMMA FedPcmType ==
  ASSUME NEW s \in Sources, NEW D, Silence \in D, NEW p \in PipeType(s, D),
         NEW c, c.start \in Nat, EndOf(c) \in Nat, NEW last \in BOOLEAN
  PROVE  FedPcm(p, c, last) \in Feeds(p, s, D)
<1>1. p \in Feeds(p, s, D)
  BY FeedsItself
<1>2. p.rate \in {None, s.rate}
  BY DEF PipeType
<1>3. CASE p.rate = None
  BY <1>1, <1>3 DEF FedPcm
<1>4. CASE p.rate = s.rate /\ p.rate # None
  <2> DEFINE bound == IF last THEN WindowEnd(c, p.rate) ELSE FedUntil(c, p.rate)
             start == PrerollStart(c, p.rate)
             q == Begun(p, start)
             kept == FirstBeyond(p.pcm, bound)
  <2>1. bound \in Int /\ start \in Int
    BY <1>4, SourceType, WindowType
  <2>2. FedPcm(p, c, last) = FedBefore(q, kept, bound)
    BY <1>4, Zenon DEF FedPcm
  <2> HIDE DEF bound, start
  <2>3. q \in Feeds(p, s, D)
    BY <1>1, <2>1, BegunType
  <2>4. q.pcm = p.pcm
    BY DEF Begun, PipeType
  <2>5. kept \in 1 .. Len(q.pcm) + 1
    <3>1. p.pcm \in Seq(RunType(D))
      BY DEF PipeType
    <3>2. QED
      BY <2>1, <2>4, <3>1, FirstBeyondIs
  <2> HIDE DEF q, kept
  <2>6. QED
    BY <2>1, <2>2, <2>3, <2>5, FedBeforeType
<1>5. QED
  BY <1>2, <1>3, <1>4

\* and so does the rest of render.
LEMMA RenderedType ==
  ASSUME NEW s \in Sources, NEW D, Silence \in D, NEW p, NEW packets,
         NEW c, c.start \in Nat, EndOf(c) \in Nat, NEW last \in BOOLEAN,
         NEW q \in PipeType(s, D), q = DecodedAll(p, s, packets)
  PROVE  Rendered(p, s, c, packets, last) \in Feeds(q, s, D)
<1> DEFINE x == FedPcm(q, c, last)
           y == FedToEnd(x, c, last)
           Z == Feeds(q, s, D)
<1>1. x \in Z
  BY FedPcmType
<1>2. Rendered(p, s, c, packets, last) = Flushed(y, last)
  BY DEF Rendered
<1> HIDE DEF x
<1>3. y \in Z
  <2>1. x.rate \in {None, s.rate} /\ x.next \in Int
    BY <1>1 DEF Feeds, PipeType
  <2>2. x.rate # None => WindowEnd(c, x.rate) \in Int
    BY <2>1, SourceType, WindowType
  <2>3. x.rate # None => Fed(x, WindowEnd(c, x.rate), Silence) \in Z
    BY <1>1, <2>2, FedType
  <2> HIDE DEF Z
  <2>4. FedSilence(x, c) \in Z
    BY <1>1, <2>3 DEF FedSilence
  <2>5. QED
    BY <1>1, <2>4 DEF FedToEnd
<1> HIDE DEF y
<1>4. Flushed(y, last) \in Z
  <2> DEFINE frames == IF y.anchor = None THEN 0 ELSE FramesMade(y, last)
  <2>1. y.next \in Int /\ y.anchor \in Int
    BY <1>3 DEF Feeds, PipeType
  <2>2. FramesMade(y, last) \in Int
    <3> DEFINE samples == y.next - y.anchor
    <3>1. samples \in Int
      BY <2>1
    <3>2. FramesMade(y, last) = IF last THEN DivUpBy(samples, FrameSamples) + 1
                                ELSE Minus(samples \div FrameSamples, 1)
      BY DEF FramesMade
    <3> HIDE DEF samples
    <3>3. (samples + 1024 - 1) \div 1024 \in Int /\ samples \div 1024 \in Int
      BY <3>1
    <3>4. QED
      BY <3>2, <3>3 DEF DivUpBy, FrameSamples, Minus, Larger
  <2>3. frames \in Int
    BY <2>2
  <2>4. Flushed(y, last) = [y EXCEPT !.frames = frames]
    BY DEF Flushed
  <2> HIDE DEF frames
  <2>5. QED
    BY <1>3, <2>3, <2>4 DEF Feeds, PipeType
<1>5. QED
  BY <1>2, <1>4

\* A new pipeline.
LEMMA NewPipelineType ==
  ASSUME NEW s \in Sources, NEW D
  PROVE  NewPipeline(s) \in PipeType(s, D)
<1>1. s.skip \in Nat /\ None \in Int
  BY SourceType DEF None
<1>2. <<>> \in Seq(RunType(D))
  OBVIOUS
<1> DEFINE empty == <<>>
<1>3. NewPipeline(s) =
        [rate |-> None, clock |-> None, skip |-> s.skip, warm |-> FALSE, pcm |-> empty,
         anchor |-> None, next |-> None, runs |-> empty, frames |-> 0, last |-> None,
         completed |-> None, poisoned |-> FALSE]
  BY DEF NewPipeline
<1>4. empty \in Seq(RunType(D))
  BY <1>2
<1> HIDE DEF empty
<1>5. QED
  BY <1>1, <1>3, <1>4 DEF PipeType

-----------------------------------------------------------------------------
(***************************************************************************)
(* What is read is packets, of either kind of file.                        *)
(***************************************************************************)
\* The sound of a file.
SoundBlocks(s) == TrackBlocks(WholeFile(s.file), "audio")

\* A muxed file is one of the files the walk is about, and its blocks have times.
LEMMA WholeType ==
  ASSUME NEW f \in FileType, OrderedClusters(f, DOMAIN f.clusters)
  PROVE  WholeFile(f) \in Seq(StampedType)
<1>1. PICK before \in Seq(StampedType), after \in Seq(StampedType) :
        WholeFile(f) = before \o (BlocksScanned(f, 0, 0) \o after)
  BY WalkSplits, ZenonT(60)
<1> DEFINE seen == BlocksScanned(f, 0, 0)
<1>2. seen \in Seq(StampedType)
  <2> DEFINE zero == 0
  <2>1. zero \in Nat
    OBVIOUS
  <2> HIDE DEF zero
  <2>2. BlocksScanned(f, zero, zero) \in Seq(StampedType)
    BY <2>1, WalkSplits
  <2>3. QED
    BY <2>2 DEF zero
<1> HIDE DEF seen
<1>3. QED
  BY <1>1, <1>2 DEF seen

\* Packets of sound.
LEMMA SoundPackets ==
  ASSUME NEW blocks \in Seq(StampedType), \A n \in DOMAIN blocks : blocks[n].track = "audio"
  PROVE  /\ PacketsOf(blocks) \in Seq(PacketType) /\ Len(PacketsOf(blocks)) = Len(blocks)
         /\ \A n \in DOMAIN blocks :
              LET packet == PacketsOf(blocks)[n]
              IN  /\ packet.scale = MillisPerSecond /\ packet.offset = blocks[n].id
                  /\ packet.pts = blocks[n].ms
<1> DEFINE N == Len(blocks)
           coded(n) == Packet(MillisPerSecond, blocks[n].id, 1, blocks[n].ms, blocks[n].ms,
                             SoundMs(blocks, n), blocks[n].key)
<1>1. N \in Nat /\ DOMAIN blocks = 1 .. N
  OBVIOUS
<1>2. \A n \in 1 .. N : blocks[n].id \in Nat /\ blocks[n].ms \in Nat /\ blocks[n].key \in BOOLEAN
  <2>1. \A b \in StampedType : b.id \in Nat /\ b.ms \in Nat /\ b.key \in BOOLEAN
    BY DEF StampedType
  <2>2. QED
    BY <2>1
<1>3. PacketsOf(blocks) = [n \in 1 .. N |-> coded(n)]
  <2>1. ASSUME NEW n \in DOMAIN blocks
        PROVE  PacketsOf(blocks)[n] = coded(n)
    BY DEF PacketsOf
  <2>2. DOMAIN PacketsOf(blocks) = DOMAIN blocks
    BY DEF PacketsOf
  <2>3. PacketsOf(blocks) = [n \in DOMAIN blocks |-> PacketsOf(blocks)[n]]
    BY DEF PacketsOf
  <2> HIDE DEF coded, N
  <2>4. QED
    BY <1>1, <2>1, <2>2, <2>3
<1>4. \A n \in 1 .. N : SoundMs(blocks, n) \in Nat
  <2>1. TAKE n \in 1 .. N
  <2> DEFINE m == Smaller(n, N - 1)
  <2>2. m \in 0 .. N - 1
    BY <1>1 DEF Smaller
  <2>3. SoundMs(blocks, n) = IF m = 0 THEN 0 ELSE Minus(blocks[m + 1].ms, blocks[m].ms)
    BY DEF SoundMs
  <2> HIDE DEF m
  <2>4. m # 0 => m \in 1 .. N /\ m + 1 \in 1 .. N
    BY <1>1, <2>2
  <2>5. m # 0 => blocks[m].ms \in Nat /\ blocks[m + 1].ms \in Nat
    BY <1>2, <2>4
  <2>6. QED
    BY <2>3, <2>5 DEF Minus, Larger
<1>5. \A n \in 1 .. N : /\ coded(n) \in PacketType /\ coded(n).scale = MillisPerSecond
                        /\ coded(n).offset = blocks[n].id /\ coded(n).pts = blocks[n].ms
  <2>1. TAKE n \in 1 .. N
  <2> DEFINE d == SoundMs(blocks, n)
  <2>2. d \in Nat /\ MillisPerSecond \in Nat
    BY <1>4 DEF MillisPerSecond
  <2> HIDE DEF d
  <2>3. Packet(MillisPerSecond, blocks[n].id, 1, blocks[n].ms, blocks[n].ms, d, blocks[n].key)
          \in PacketType
    BY <1>2, <2>2 DEF Packet, PacketType
  <2>4. QED
    BY <2>3 DEF d, Packet
<1> HIDE DEF coded
<1>6. PacketsOf(blocks) \in Seq(PacketType)
  <2>1. [n \in 1 .. N |-> coded(n)] \in [1 .. N -> PacketType]
    BY <1>5
  <2> HIDE DEF N
  <2>2. QED
    BY <1>1, <1>3, <2>1
<1>7. Len(PacketsOf(blocks)) = N
  BY <1>1, <1>3
<1>8. QED
  BY <1>1, <1>3, <1>5, <1>6, <1>7

\* The blocks of the sound that lie in a window.
Within(s, start, end) ==
  Kept(SoundBlocks(s), {n \in DOMAIN SoundBlocks(s) :
                          start <= SoundBlocks(s)[n].ms /\ SoundBlocks(s)[n].ms < end})

\* The sound of a segment's window, the whole track of an MP4 file.
LEMMA SoundRead ==
  ASSUME NEW s \in Sources, NEW i \in DOMAIN SegmentPlan(s), NEW p, p.rate \in {None, s.rate}
  PROVE  LET c == SegmentPlan(s)[i]
             packets == PacketsRead(s, MediaWindows(s, p, c), c)[2]
             w == InputWindow(p, s, c)
         IN  IF s.mp4 THEN packets = s.audio
             ELSE packets = <<>> \/ packets = PacketsOf(Within(s, w.start, w.end))
<1> DEFINE c == SegmentPlan(s)[i]
           windows == MediaWindows(s, p, c)
           w == InputWindow(p, s, c)
<1>1. CASE s.mp4
  BY <1>1 DEF PacketsRead
<1>2. CASE ~s.mp4
  <2>1. DOMAIN windows = {1, 2} /\ Blocks(s.file, windows)[2] = Taken(WholeFile(s.file), windows[2])
    BY <1>2, WindowsComplete
  <2>2. windows[2] = Window("audio", w.start, w.end)
    BY DEF MediaWindows
  <2> HIDE DEF w
  <2>3. Taken(WholeFile(s.file), windows[2]) = Within(s, w.start, w.end)
    BY <2>2 DEF Taken, Window, Within, SoundBlocks
  <2> HIDE DEF windows
  <2>4. CASE WalkFails(s.file, windows)
    BY <1>2, <2>4 DEF PacketsRead, windows
  <2>5. CASE ~WalkFails(s.file, windows)
    <3>1. PacketsRead(s, windows, c) = PacketsOfEach(Blocks(s.file, windows))
      BY <1>2, <2>5 DEF PacketsRead
    <3>2. DOMAIN Blocks(s.file, windows) = {1, 2}
      BY <2>1 DEF Blocks
    <3>3. PacketsRead(s, windows, c)[2] = PacketsOf(Blocks(s.file, windows)[2])
      BY <3>1, <3>2 DEF PacketsOfEach
    <3>4. QED
      BY <1>2, <2>1, <2>3, <3>3 DEF windows, w
  <2>6. QED
    BY <2>4, <2>5
<1>3. QED
  BY <1>1, <1>2

\* Sound is made of sound.
LEMMA SoundBlocksType ==
  ASSUME NEW s \in Sources, ~s.mp4
  PROVE  /\ SoundBlocks(s) \in Seq(StampedType)
         /\ \A n \in DOMAIN SoundBlocks(s) : SoundBlocks(s)[n].track = "audio"
<1> DEFINE whole == WholeFile(s.file)
<1>1. whole \in Seq(StampedType)
  BY SourcesAssumption, WholeType DEF MuxedFile
<1> HIDE DEF whole
<1>2. /\ TrackBlocks(whole, "audio") \in Seq(StampedType)
      /\ \A m \in DOMAIN TrackBlocks(whole, "audio") : \E n \in DOMAIN whole :
           TrackBlocks(whole, "audio")[m] = whole[n] /\ whole[n].track = "audio"
  BY <1>1, TrackBlocksType
<1>3. QED
  BY <1>2 DEF SoundBlocks, whole

\* The blocks inside a window are blocks.
LEMMA WithinType ==
  ASSUME NEW s \in Sources, ~s.mp4, NEW start, NEW end
  PROVE  /\ Within(s, start, end) \in Seq(StampedType)
         /\ \A n \in DOMAIN Within(s, start, end) : Within(s, start, end)[n].track = "audio"
<1> DEFINE blocks == SoundBlocks(s)
           I == {n \in DOMAIN blocks : start <= blocks[n].ms /\ blocks[n].ms < end}
<1>1. blocks \in Seq(StampedType) /\ \A n \in DOMAIN blocks : blocks[n].track = "audio"
  BY SoundBlocksType
<1>2. Within(s, start, end) = Kept(blocks, I)
  BY DEF Within
<1> HIDE DEF blocks, I
<1>3. Kept(blocks, I) \in Seq(StampedType)
  BY <1>1, KeptType
<1>4. \A m \in DOMAIN Kept(blocks, I) : \E n \in I \cap DOMAIN blocks :
        Kept(blocks, I)[m] = blocks[n]
  BY <1>1, KeptFrom
<1>5. QED
  BY <1>1, <1>2, <1>3, <1>4

\* The packets at hand.
LEMMA SoundReadType ==
  ASSUME NEW s \in Sources, NEW i \in DOMAIN SegmentPlan(s), NEW p, p.rate \in {None, s.rate}
  PROVE  LET c == SegmentPlan(s)[i]
         IN  PacketsRead(s, MediaWindows(s, p, c), c)[2] \in Seq(PacketType)
<1> DEFINE c == SegmentPlan(s)[i]
           packets == PacketsRead(s, MediaWindows(s, p, c), c)[2]
           w == InputWindow(p, s, c)
<1>1. IF s.mp4 THEN packets = s.audio
      ELSE packets = <<>> \/ packets = PacketsOf(Within(s, w.start, w.end))
  BY SoundRead
<1> HIDE DEF packets, w
<1>2. s.mp4 => s.audio \in Seq(PacketType)
  BY SourcesAssumption DEF MuxedTables, Numbered
<1>3. ~s.mp4 => PacketsOf(Within(s, w.start, w.end)) \in Seq(PacketType)
  BY WithinType, SoundPackets
<1>4. packets \in Seq(PacketType)
  <2>1. <<>> \in Seq(PacketType)
    OBVIOUS
  <2>2. CASE s.mp4
    BY <1>1, <1>2, <2>2, Zenon
  <2>3. CASE ~s.mp4
    BY <1>1, <1>3, <2>1, <2>3, Zenon
  <2>4. QED
    BY <2>2, <2>3
<1>5. QED
  BY <1>4 DEF packets

\* A range of packets.
LEMMA RangeType ==
  ASSUME NEW s, NEW packets \in Seq(PacketType), NEW w
  PROVE  RangeRead(s, packets, w) \in Seq(PacketType)
<1> DEFINE over == {n \in DOMAIN packets :
                     PtsMs(packets[n]) + Larger(DurationMs(packets[n]), 1) <= w.start}
           inside == {n \in DOMAIN packets : PtsMs(packets[n]) < w.end}
           first == IF s.codec = "opus" THEN 1 ELSE Cardinality(over) + 1
           N == Len(packets)
<1>1. N \in Nat /\ DOMAIN packets = 1 .. N
  OBVIOUS
<1>2. over \subseteq 1 .. N /\ inside \subseteq 1 .. N
  BY <1>1
<1>3. RangeRead(s, packets, w) = IF Cardinality(over) = N THEN <<>>
                                ELSE SubSeq(packets, first, Cardinality(inside))
  BY DEF RangeRead
<1> HIDE DEF over, inside
<1>4. Cardinality(over) \in 0 .. N /\ Cardinality(inside) \in 0 .. N
  <2>1. IsFiniteSet(1 .. N) /\ Cardinality(1 .. N) = N
    BY <1>1, FS_Interval
  <2>2. ASSUME NEW X \in SUBSET (1 .. N) PROVE Cardinality(X) \in 0 .. N
    <3>1. IsFiniteSet(X) /\ Cardinality(X) <= Cardinality(1 .. N)
      BY <2>1, FS_Subset
    <3>2. Cardinality(X) \in Nat
      BY <3>1, FS_CardinalityType
    <3>3. QED
      BY <1>1, <2>1, <3>1, <3>2
  <2>3. QED
    BY <1>2, <2>2
<1> DEFINE a == Cardinality(over)
           b == Cardinality(inside)
<1>5. a \in 0 .. N /\ b \in 0 .. N /\ first \in 1 .. N + 1
  BY <1>1, <1>4
<1> HIDE DEF a, b, first
<1>6. SubSeq(packets, first, b) \in Seq(PacketType)
  BY <1>1, <1>5
<1>7. QED
  BY <1>3, <1>6 DEF a, b, first

-----------------------------------------------------------------------------
\* New packets are packets.
LEMMA NewType ==
  ASSUME NEW p, NEW packets \in Seq(PacketType)
  PROVE  NewPackets(p, packets) \in Seq(PacketType)
BY KeptType DEF NewPackets

\* Decoding keeps the type.
LEMMA DecodedAllType ==
  ASSUME NEW s \in Sources, NEW p \in Pipes(s), NEW packets \in Seq(PacketType)
  PROVE  DecodedAll(p, s, packets) \in Pipes(s)
<1> DEFINE N == Len(NewPackets(p, packets))
<1>1. NewPackets(p, packets) \in Seq(PacketType)
  BY NewType
<1>2. PICK after \in [0 .. N -> Pipes(s)] : DecodedAll(p, s, packets) = after[N]
  BY <1>1, DecodesAll, Zenon
<1>3. N \in 0 .. N
  BY <1>1
<1>4. QED
  BY <1>2, <1>3

\* A pipeline that is prepared is the one there was or a new one.
LEMMA PreparedType ==
  ASSUME NEW s \in Sources, NEW p \in Pipes(s), NEW i
  PROVE  Prepared(p, s, i) \in Pipes(s)
BY NewPipelineType DEF Prepared, Pipes

\* Every fragment has the frames of its window and the pipeline has its type.
PipeTyped == IInv /\ pipe \in Pipes(source)

\* Every step keeps it.
LEMMA PipeTypedNext == PipeTyped /\ [Next]_vars => PipeTyped'
<1> SUFFICES ASSUME PipeTyped, [Next]_vars PROVE pipe' \in Pipes(source')
  BY NextInvariant DEF PipeTyped
<1>0. source \in Sources /\ chunks = SegmentPlan(source) /\ pipe \in Pipes(source)
  BY DEF PipeTyped, IInv
<1>1. ASSUME NEW i \in DOMAIN chunks, Transcode(i) PROVE pipe' \in Pipes(source')
  <2> DEFINE p == Prepared(pipe, source, i)
             c == chunks[i]
             packets == PacketsRead(source, MediaWindows(source, p, c), c)[2]
             range == RangeRead(source, packets, InputWindow(p, source, c))
             q == Rendered(p, source, c, range, IsLast(i))
  <2>1. /\ source' = source
        /\ pipe' = Poisoned \/ pipe' = [q EXCEPT !.completed = i]
    BY <1>1, Zenon DEF Transcode, Prepare, Read, Render, Finish, Complete, Refuse, Spoiled
  <2>2. p \in Pipes(source)
    BY <1>0, PreparedType
  <2> HIDE DEF p
  <2>3. p.rate \in {None, source.rate}
    BY <2>2 DEF Pipes, PipeType
  <2>4. packets \in Seq(PacketType)
    BY <1>0, <2>3, SoundReadType
  <2> HIDE DEF packets
  <2>5. range \in Seq(PacketType)
    BY <2>4, RangeType
  <2> HIDE DEF range
  <2>6. DecodedAll(p, source, range) \in PipeType(source, Int)
    BY <1>0, <2>2, <2>5, DecodedAllType DEF Pipes
  <2>7. c.start \in Nat /\ EndOf(c) \in Nat
    BY <1>0, PlanIsGapless
  <2>8. Silence \in Int /\ IsLast(i) \in BOOLEAN
    BY DEF Silence, IsLast
  <2> HIDE DEF c
  <2>9. q \in Feeds(DecodedAll(p, source, range), source, Int)
    BY <1>0, <2>6, <2>7, <2>8, RenderedType
  <2> HIDE DEF q
  <2>10. q \in PipeType(source, Int)
    BY <2>9 DEF Feeds
  <2>11. i \in Int
    <3>1. chunks \in Seq(PlannedChunks)
      BY <1>0, PlanIsGapless
    <3>2. QED
      BY <3>1
  <2>12. [q EXCEPT !.completed = i] \in Pipes(source)
    BY <2>10, <2>11 DEF PipeType, Pipes
  <2>13. Poisoned \in Pipes(source)
    <3>1. NewPipeline(source) \in Pipes(source)
      BY <1>0, NewPipelineType DEF Pipes
    <3>2. QED
      BY <3>1 DEF Poisoned, Pipes, PipeType
  <2>14. QED
    BY <2>1, <2>12, <2>13
<1>2. CASE Break
  <2>1. NewPipeline(source) \in Pipes(source)
    BY <1>0, NewPipelineType DEF Pipes
  <2>2. Poisoned \in Pipes(source)
    BY <2>1 DEF Poisoned, Pipes, PipeType
  <2>3. pipe' = Poisoned /\ source' = source
    BY <1>2, Zenon DEF Break, Spoiled
  <2>4. QED
    BY <2>2, <2>3
<1>3. CASE NewWorker
  <2>1. NewPipeline(source) \in Pipes(source)
    BY <1>0, NewPipelineType DEF Pipes
  <2>2. QED
    BY <1>3, <2>1 DEF NewWorker
<1>4. CASE UNCHANGED vars
  BY <1>0, <1>4 DEF vars
<1>5. QED
  BY <1>1, <1>2, <1>3, <1>4 DEF Next

\* It holds at first.
LEMMA PipeTypedInit == Init => PipeTyped
<1> SUFFICES ASSUME Init PROVE PipeTyped
  OBVIOUS
<1>1. source \in Sources /\ pipe = NewPipeline(source)
  BY DEF Init
<1>2. pipe \in Pipes(source)
  BY <1>1, NewPipelineType DEF Pipes
<1>3. QED
  BY <1>2, InitInvariant DEF PipeTyped

\* The audio pipeline keeps its types through every render, stop, failure and
\* change of worker, for any source: positions and clocks stay whole numbers of
\* samples, and the rate is unknown or the source's.
THEOREM PipelineTyped == Spec => []PipeTyped
BY PipeTypedInit, PipeTypedNext, PTL DEF Spec

\* A typed pipeline plans with a rate that is the source's or its header's, so its
\* windows are complete.
LEMMA TypedMissesNothing == PipeTyped => AnchorsMissNothing
<1> SUFFICES ASSUME PipeTyped, ~source.mp4, NEW i \in DOMAIN chunks
             PROVE  LET windows == MediaWindows(source, Prepared(pipe, source, i), chunks[i])
                    IN  \A n \in DOMAIN windows :
                          Blocks(source.file, windows)[n] = Taken(WholeFile(source.file), windows[n])
  BY DEF AnchorsMissNothing
<1>1. source \in Sources /\ chunks = SegmentPlan(source) /\ pipe \in Pipes(source)
  BY DEF PipeTyped, IInv
<1> DEFINE p == Prepared(pipe, source, i)
<1>2. p \in Pipes(source)
  BY <1>1, PreparedType
<1> HIDE DEF p
<1>3. p.rate \in {None, source.rate}
  BY <1>2 DEF Pipes, PipeType
<1>4. QED
  BY <1>1, <1>3, WindowsComplete DEF p

\* Whatever anchors the cues offer, the walk for a segment's windows reads the very
\* packets that a walk through the whole file would, for any file and any plan.
THEOREM NothingMissed == Spec => []AnchorsMissNothing
BY PipelineTyped, TypedMissesNothing, PTL

-----------------------------------------------------------------------------
(***************************************************************************)
(* The pictures of a segment: first .. last of those of its source.        *)
(***************************************************************************)
\* The pictures of a file.
PictureBlocks(s) == TrackBlocks(WholeFile(s.file), "video")
\* Its keyframes from a time on.
KeysFrom(s, ms) ==
  {n \in DOMAIN PictureBlocks(s) : PictureBlocks(s)[n].key /\ PictureBlocks(s)[n].ms >= ms}
\* A segment of a Matroska file starts at the first keyframe from its start on.
FirstPicture(s, i) ==
  IF s.mp4 THEN SegmentPlan(s)[i].first ELSE SmallestOf(KeysFrom(s, SegmentPlan(s)[i].start))
\* It ends before the next one starts.
LastPicture(s, i) ==
  IF s.mp4 THEN SegmentPlan(s)[i].last
  ELSE IF i = Len(SegmentPlan(s)) THEN s.pictures
  ELSE FirstPicture(s, i + 1) - 1

\* The chunks of a sample table are those of the plan.
LEMMA TablePlan ==
  ASSUME NEW s \in Sources, s.mp4
  PROVE  LET plan == SegmentPlan(s)
         IN  /\ plan # <<>> /\ plan[1].first = 1 /\ plan[Len(plan)].last = s.pictures
             /\ \A n \in DOMAIN plan : /\ plan[n].first \in Nat /\ plan[n].last \in Nat
                                       /\ plan[n].first <= plan[n].last
             /\ \A n \in DOMAIN plan : n + 1 \in DOMAIN plan =>
                  plan[n].last + 1 = plan[n + 1].first /\ s.video[plan[n + 1].first].key
<1> DEFINE raw == TableChunkPlan(s.table, MillisPerSecond, s.target)
           plan == SegmentPlan(s)
           packets == IntoPackets(s.table, MillisPerSecond)
<1>1. /\ packets \in Seq(PacketType) /\ packets # <<>> /\ Len(packets) = s.pictures
      /\ packets = s.video
      /\ s.table.sizes # <<>> /\ s.table.keys[1] \in BOOLEAN
      /\ s.target \in Nat /\ s.target > 0
  BY SourcesAssumption DEF MuxedTables, Numbered
<1>2. raw \in Seq(Chunks) /\ Partition(raw, packets, s.target)
  BY <1>1, TablePartitioned
<1>3. plan = [n \in DOMAIN raw |->
                IF n = Len(raw) THEN raw[n]
                ELSE [raw[n] EXCEPT !.duration = Larger(Minus(raw[n + 1].start, raw[n].start), 1)]]
  BY Zenon DEF SegmentPlan, Normalized, VideoChunks
<1>4. /\ raw # <<>> /\ raw[1].first = 1 /\ raw[Len(raw)].last = s.pictures
      /\ \A n \in 1 .. Len(raw) : raw[n].first <= raw[n].last
      /\ \A n \in 1 .. Len(raw) - 1 : raw[n].last + 1 = raw[n + 1].first
                                     /\ s.video[raw[n + 1].first].key
  BY <1>1, <1>2 DEF Partition
<1> HIDE DEF raw
<1>5. DOMAIN raw = 1 .. Len(raw) /\ Len(raw) \in Nat /\ Len(raw) > 0
  BY <1>2, <1>4
<1>6. ASSUME NEW n \in DOMAIN raw
      PROVE  /\ plan[n].first = raw[n].first /\ plan[n].last = raw[n].last
             /\ raw[n].first \in Nat /\ raw[n].last \in Nat
  <2> DEFINE longer == Larger(Minus(raw[n + 1].start, raw[n].start), 1)
  <2>1. plan[n] = IF n = Len(raw) THEN raw[n] ELSE [raw[n] EXCEPT !.duration = longer]
    BY <1>3
  <2>2. raw[n] \in Chunks
    BY <1>2
  <2> HIDE DEF longer
  <2>3. /\ [raw[n] EXCEPT !.duration = longer].first = raw[n].first
        /\ [raw[n] EXCEPT !.duration = longer].last = raw[n].last
    BY <2>2 DEF Chunks
  <2>4. raw[n].first \in Nat /\ raw[n].last \in Nat
    BY <2>2 DEF Chunks
  <2> HIDE DEF plan
  <2>5. QED
    BY <2>1, <2>3, <2>4
<1>7. DOMAIN plan = DOMAIN raw
  BY <1>3
<1>8. plan \in Seq(PlannedChunks)
  BY PlanIsGapless
<1> HIDE DEF plan
<1>9. Len(plan) = Len(raw) /\ plan # <<>>
  <2>1. DOMAIN plan = 1 .. Len(plan) /\ Len(plan) \in Nat
    BY <1>8
  <2>2. QED
    BY <1>5, <1>7, <2>1
<1>10. 1 \in DOMAIN raw /\ Len(raw) \in DOMAIN raw
  BY <1>5
<1>11. plan[1].first = 1 /\ plan[Len(plan)].last = s.pictures
  BY <1>4, <1>6, <1>9, <1>10
<1>12. \A n \in DOMAIN plan : n + 1 \in DOMAIN plan =>
         plan[n].last + 1 = plan[n + 1].first /\ s.video[plan[n + 1].first].key
  <2>1. ASSUME NEW n \in DOMAIN plan, n + 1 \in DOMAIN plan
        PROVE  plan[n].last + 1 = plan[n + 1].first /\ s.video[plan[n + 1].first].key
    <3>1. n \in 1 .. Len(raw) - 1 /\ n \in DOMAIN raw /\ n + 1 \in DOMAIN raw
      BY <1>5, <1>7, <2>1
    <3>2. raw[n].last + 1 = raw[n + 1].first /\ s.video[raw[n + 1].first].key
      BY <1>4, <3>1
    <3>3. QED
      BY <1>6, <3>1, <3>2
  <2>2. QED
    BY <2>1
<1>13. \A n \in DOMAIN plan : /\ plan[n].first \in Nat /\ plan[n].last \in Nat
                              /\ plan[n].first <= plan[n].last
  BY <1>4, <1>5, <1>6, <1>7
<1>14. QED
  BY <1>9, <1>11, <1>12, <1>13 DEF plan

\* The pictures of a file.
LEMMA PictureBlocksType ==
  ASSUME NEW s \in Sources, ~s.mp4
  PROVE  /\ PictureBlocks(s) \in Seq(StampedType) /\ Len(PictureBlocks(s)) = s.pictures
         /\ \A n \in DOMAIN PictureBlocks(s) : PictureBlocks(s)[n].id = n
         /\ \A n \in DOMAIN SegmentPlan(s) : CutAt(PictureBlocks(s), SegmentPlan(s), n)
         /\ SegmentPlan(s) # <<>> =>
              PictureBlocks(s)[1].key /\ SegmentPlan(s)[1].start <= PictureBlocks(s)[1].ms
<1> DEFINE whole == WholeFile(s.file)
<1>1. whole \in Seq(StampedType)
  BY SourcesAssumption, WholeType DEF MuxedFile
<1> HIDE DEF whole
<1>2. TrackBlocks(whole, "video") \in Seq(StampedType)
  BY <1>1, TrackBlocksType
<1>3. MuxedFile(s)
  BY SourcesAssumption
<1>4. QED
  BY <1>2, <1>3 DEF MuxedFile, Numbers, PictureBlocks, whole

\* Packets of pictures, as far as it matters here.
PictureLike(p) == p.offset \in Nat /\ p.pts \in Nat /\ p.key \in BOOLEAN

\* The pictures of a source are numbered.
LEMMA AllPicturesAre ==
  ASSUME NEW s \in Sources
  PROVE  /\ s.pictures \in Nat /\ DOMAIN AllPictures(s) = 1 .. s.pictures
         /\ \A n \in 1 .. s.pictures :
              PictureLike(AllPictures(s)[n]) /\ AllPictures(s)[n].offset = n
         /\ ~s.mp4 => \A n \in 1 .. s.pictures :
                         /\ AllPictures(s)[n].pts = PictureBlocks(s)[n].ms
                         /\ AllPictures(s)[n].key = PictureBlocks(s)[n].key
<1> DEFINE all == AllPictures(s)
<1>0. s.pictures \in Nat
  BY SourcesAssumption
<1>1. CASE s.mp4
  <2>1. Numbered(s.video) /\ Len(s.video) = s.pictures
    BY <1>1, SourcesAssumption DEF MuxedTables
  <2>2. all = s.video
    BY <1>1 DEF AllPictures
  <2>3. all \in Seq(PacketType) /\ \A n \in DOMAIN all : all[n].offset = n
    BY <2>1, <2>2 DEF Numbered
  <2>4. \A p \in PacketType : PictureLike(p)
    BY DEF PacketType, PictureLike
  <2> HIDE DEF all
  <2>5. DOMAIN all = 1 .. s.pictures
    BY <2>1, <2>2, <2>3
  <2>6. QED
    BY <1>0, <1>1, <2>3, <2>4, <2>5 DEF all
<1>2. CASE ~s.mp4
  <2> DEFINE blocks == PictureBlocks(s)
  <2>1. /\ blocks \in Seq(StampedType) /\ Len(blocks) = s.pictures
        /\ \A n \in DOMAIN blocks : blocks[n].id = n
    BY <1>2, PictureBlocksType
  <2>2. all = PacketsOf(blocks)
    BY <1>2 DEF AllPictures, PictureBlocks
  <2> HIDE DEF blocks, all
  <2>3. DOMAIN blocks = 1 .. s.pictures
    BY <2>1
  <2>4. /\ DOMAIN all = 1 .. s.pictures
        /\ \A n \in 1 .. s.pictures : /\ all[n].offset = blocks[n].id /\ all[n].pts = blocks[n].ms
                                      /\ all[n].key = blocks[n].key
    BY <2>2, <2>3 DEF PacketsOf, Packet
  <2>5. \A b \in StampedType : b.id \in Nat /\ b.ms \in Nat /\ b.key \in BOOLEAN
    BY DEF StampedType
  <2>6. \A n \in 1 .. s.pictures : PictureLike(all[n]) /\ all[n].offset = n
    <3>1. TAKE n \in 1 .. s.pictures
    <3>2. blocks[n] \in StampedType /\ blocks[n].id = n
      BY <2>1, <2>3
    <3>3. blocks[n].id \in Nat /\ blocks[n].ms \in Nat /\ blocks[n].key \in BOOLEAN
      BY <2>5, <3>2
    <3>4. QED
      BY <2>4, <3>2, <3>3 DEF PictureLike
  <2>7. QED
    BY <1>0, <2>4, <2>6 DEF all, blocks
<1>3. QED
  BY <1>1, <1>2

\* The packet of the n-th picture of a source.
Depicts(s, packet, n) ==
  LET all == AllPictures(s)
  IN  packet.offset = n /\ packet.pts = all[n].pts /\ packet.key = all[n].key
\* The packets of the pictures lo .. hi, which start with a keyframe.
Segment(s, packets, lo, hi) ==
  /\ lo \in 1 .. s.pictures /\ hi \in lo .. s.pictures /\ AllPictures(s)[lo].key
  /\ Len(packets) = hi - lo + 1 /\ DOMAIN packets = 1 .. hi - lo + 1
  /\ \A n \in 1 .. hi - lo + 1 : Depicts(s, packets[n], lo + n - 1)

\* Segments share a bound, the first one has the first picture and the last one the
\* last.
LEMMA PicturesMeet ==
  ASSUME NEW s \in Sources, NEW i \in DOMAIN SegmentPlan(s)
  PROVE  /\ i + 1 \in DOMAIN SegmentPlan(s) =>
              LastPicture(s, i) + 1 = FirstPicture(s, i + 1)
         /\ i = Len(SegmentPlan(s)) => LastPicture(s, i) = s.pictures
<1> DEFINE plan == SegmentPlan(s)
<1>1. plan \in Seq(PlannedChunks)
  BY PlanIsGapless
<1>2. CASE s.mp4
  BY <1>1, <1>2, TablePlan DEF FirstPicture, LastPicture
<1>3. CASE ~s.mp4
  <2>1. i = Len(plan) => LastPicture(s, i) = s.pictures
    BY <1>3 DEF LastPicture
  <2>2. ASSUME i + 1 \in DOMAIN plan PROVE LastPicture(s, i) + 1 = FirstPicture(s, i + 1)
    <3> DEFINE S == KeysFrom(s, plan[i + 1].start)
    <3>1. i # Len(plan) /\ i \in 1 .. Len(plan)
      BY <1>1, <2>2
    <3>2. FirstPicture(s, i + 1) = SmallestOf(S) /\ LastPicture(s, i) = FirstPicture(s, i + 1) - 1
      BY <1>3, <3>1 DEF FirstPicture, LastPicture
    <3>3. S \in SUBSET Nat
      BY <1>3, PictureBlocksType DEF KeysFrom
    <3>4. S # {}
      <4>1. CutAt(PictureBlocks(s), plan, i) /\ EndOf(plan[i]) = plan[i + 1].start
        BY <1>3, <2>2, PictureBlocksType, PlanIsGapless
      <4>2. i < Len(plan)
        BY <1>1, <3>1
      <4>3. PICK m \in DOMAIN PictureBlocks(s) :
              PictureBlocks(s)[m].key /\ PictureBlocks(s)[m].ms = plan[i + 1].start
        BY <4>1, <4>2 DEF CutAt
      <4>4. plan[i + 1].start \in Nat
        BY <2>2, PlanIsGapless
      <4>5. QED
        BY <4>3, <4>4 DEF KeysFrom
    <3> HIDE DEF S
    <3>5. SmallestOf(S) \in Nat
      BY <3>3, <3>4, Smallest
    <3>6. QED
      BY <3>2, <3>5
  <2>3. QED
    BY <2>1, <2>2
<1>4. QED
  BY <1>2, <1>3

\* The pictures of a window are a run of the file's.
LEMMA GroupIs ==
  ASSUME NEW s \in Sources, ~s.mp4, NEW i \in DOMAIN SegmentPlan(s),
         NEW v, v.track = "video", v.start = SegmentPlan(s)[i].start,
         v.end = EndOf(SegmentPlan(s)[i]),
         NEW blocks, blocks = Taken(WholeFile(s.file), v), blocks # <<>>
  PROVE  /\ FirstPicture(s, i) \in Nat /\ LastPicture(s, i) \in Nat
         /\ FirstPicture(s, i) <= LastPicture(s, i)
         /\ i = 1 => FirstPicture(s, i) = 1
         /\ blocks \in Seq(StampedType)
         /\ Len(blocks) = LastPicture(s, i) - FirstPicture(s, i) + 1
         /\ \A n \in DOMAIN blocks : /\ blocks[n].id = FirstPicture(s, i) + n - 1
                                     /\ blocks[n] = PictureBlocks(s)[FirstPicture(s, i) + n - 1]
         /\ FirstPicture(s, i) > 0 /\ LastPicture(s, i) <= s.pictures
         /\ PictureBlocks(s)[FirstPicture(s, i)].key
<1> DEFINE own == PictureBlocks(s)
           plan == SegmentPlan(s)
           N == Len(own)
           group == {n \in DOMAIN own : KeyframeBy(own, n, v.start) /\ ~KeyframeBy(own, n, v.end)}
           S == KeysFrom(s, v.start)
           E == KeysFrom(s, v.end)
           lo == FirstPicture(s, i)
           hi == LastPicture(s, i)
<1>1. /\ own \in Seq(StampedType) /\ N = s.pictures /\ \A n \in DOMAIN own : own[n].id = n
      /\ CutAt(own, plan, i)
      /\ plan # <<>> => own[1].key /\ plan[1].start <= own[1].ms
  BY PictureBlocksType
<1>2. plan \in Seq(PlannedChunks) /\ v.start \in Nat /\ v.end \in Nat
  BY PlanIsGapless
<1>3. blocks = Kept(own, group)
  BY DEF Taken, PictureBlocks
<1> HIDE DEF own
<1>4. N \in Nat /\ DOMAIN own = 1 .. N /\ \A n \in 1 .. N : own[n].ms \in Nat
  <2>1. \A b \in StampedType : b.ms \in Nat
    BY DEF StampedType
  <2>2. QED
    BY <1>1, <2>1
<1> HIDE DEF N
<1>5. PICK k \in 1 .. N : k \in group
  <2>1. ASSUME \A n \in 1 .. Len(own) : n \notin group PROVE FALSE
    <3> HIDE DEF group
    <3>1. Kept(own, group) = <<>>
      BY <1>1, <2>1, KeptNone
    <3>2. QED
      BY <1>3, <3>1
  <2>2. QED
    BY <2>1 DEF N
<1>6. S = {n \in 1 .. N : own[n].key /\ own[n].ms >= v.start}
      /\ E = {n \in 1 .. N : own[n].key /\ own[n].ms >= v.end}
  BY <1>4 DEF KeysFrom, own
<1>7. S # {} /\ S \in SUBSET Nat
  <2>1. \E m \in 1 .. k : own[m].key /\ own[m].ms >= v.start
    BY <1>5 DEF KeyframeBy
  <2>2. QED
    BY <1>4, <1>6, <2>1
<1>8. lo = SmallestOf(S)
  BY DEF FirstPicture
<1> HIDE DEF S, lo
<1>9. lo \in S /\ \A x \in S : lo <= x
  BY <1>7, <1>8, Smallest
<1>10. lo \in 1 .. N /\ \A n \in 1 .. N : KeyframeBy(own, n, v.start) <=> lo <= n
  <2>1. lo \in 1 .. N
    BY <1>6, <1>9
  <2>2. ASSUME NEW n \in 1 .. N, KeyframeBy(own, n, v.start) PROVE lo <= n
    <3>1. PICK m \in 1 .. n : own[m].key /\ own[m].ms >= v.start
      BY <2>2 DEF KeyframeBy
    <3>2. m \in 1 .. N /\ m \in S
      BY <1>4, <1>6, <3>1
    <3>3. QED
      BY <1>9, <2>1, <3>2
  <2>3. ASSUME NEW n \in 1 .. N, lo <= n PROVE KeyframeBy(own, n, v.start)
    <3>1. lo \in 1 .. n
      BY <2>1, <2>3
    <3>2. own[lo].key /\ own[lo].ms >= v.start
      BY <1>6, <1>9
    <3>3. QED
      BY <3>1, <3>2 DEF KeyframeBy
  <2>4. QED
    BY <2>1, <2>2, <2>3
<1>11. hi \in 0 .. N /\ \A n \in 1 .. N : KeyframeBy(own, n, v.end) <=> hi < n
  <2>1. CASE i = Len(plan)
    <3>1. hi = N
      BY <1>1, <2>1 DEF LastPicture
    <3>2. \A m \in 1 .. N : own[m].ms < v.end
      BY <1>1, <1>2, <1>4, <2>1 DEF CutAt
    <3>3. \A n \in 1 .. N : ~KeyframeBy(own, n, v.end)
      <4>1. ASSUME NEW n \in 1 .. N, NEW m \in 1 .. n PROVE ~(own[m].ms >= v.end)
        <5>1. m \in 1 .. N
          BY <1>4
        <5>2. QED
          BY <1>2, <1>4, <3>2, <5>1
      <4>2. QED
        BY <4>1 DEF KeyframeBy
    <3>4. QED
      BY <1>4, <3>1, <3>3
  <2>2. CASE i # Len(plan)
    <3>1. i + 1 \in DOMAIN plan /\ i < Len(plan)
      BY <1>2, <2>2
    <3>2. v.end = plan[i + 1].start
      BY <3>1, PlanIsGapless
    <3>3. hi = SmallestOf(E) - 1
      BY <2>2, <3>2 DEF LastPicture, FirstPicture
    <3>4. E # {} /\ E \in SUBSET Nat
      <4>1. PICK m \in 1 .. N : own[m].key /\ own[m].ms = v.end
        BY <1>1, <1>4, <3>1 DEF CutAt
      <4>2. m \in E
        BY <1>2, <1>6, <4>1
      <4>3. QED
        BY <1>4, <1>6, <4>2
    <3> DEFINE e == SmallestOf(E)
    <3> HIDE DEF E
    <3>5. e \in E /\ \A x \in E : e <= x
      BY <3>4, Smallest
    <3> HIDE DEF e, hi
    <3>6. e \in 1 .. N /\ hi = e - 1
      BY <1>6, <3>3, <3>5 DEF e
    <3>7. ASSUME NEW n \in 1 .. N, KeyframeBy(own, n, v.end) PROVE e <= n
      <4>1. PICK m \in 1 .. n : own[m].key /\ own[m].ms >= v.end
        BY <3>7 DEF KeyframeBy
      <4>2. m \in 1 .. N /\ m \in E
        BY <1>4, <1>6, <4>1
      <4>3. QED
        BY <3>5, <3>6, <4>2
    <3>8. ASSUME NEW n \in 1 .. N, e <= n PROVE KeyframeBy(own, n, v.end)
      <4>1. e \in 1 .. n
        BY <3>6, <3>8
      <4>2. own[e].key /\ own[e].ms >= v.end
        BY <1>6, <3>5
      <4>3. QED
        BY <4>1, <4>2 DEF KeyframeBy
    <3>9. QED
      BY <1>4, <3>6, <3>7, <3>8
  <2>3. QED
    BY <2>1, <2>2
<1> HIDE DEF hi
<1>12. \A n \in 1 .. N : n \in group <=> n \in lo .. hi
  BY <1>4, <1>10, <1>11
<1>13. lo <= hi
  BY <1>5, <1>10, <1>11, <1>12
<1> HIDE DEF group
<1>14. blocks = Kept(own, lo .. hi)
  <2> DEFINE run == lo .. hi
  <2>1. \A n \in 1 .. Len(own) : n \in group <=> n \in run
    BY <1>12 DEF N
  <2> HIDE DEF run
  <2>2. Kept(own, group) = Kept(own, run)
    BY <1>1, <2>1, KeptAgrees
  <2>3. QED
    BY <1>3, <2>2 DEF run
<1>15. /\ blocks \in Seq(StampedType) /\ Len(blocks) = hi - lo + 1
       /\ \A m \in 1 .. hi - lo + 1 : blocks[m] = own[lo + m - 1]
  <2>1. lo \in Nat /\ hi \in Nat /\ 1 <= lo /\ lo <= hi + 1 /\ hi <= Len(own)
    BY <1>4, <1>10, <1>11, <1>13 DEF N
  <2>2. PICK a \in Nat, b \in Nat : a = lo /\ b = hi
    BY <2>1
  <2>3. PICK o \in Seq(StampedType) : o = own
    BY <1>1
  <2>4. 1 <= a /\ a <= b + 1 /\ b <= Len(o)
    BY <2>1, <2>2, <2>3
  <2>5. /\ Kept(o, a .. b) \in Seq(StampedType) /\ Len(Kept(o, a .. b)) = b - a + 1
        /\ \A m \in 1 .. b - a + 1 : Kept(o, a .. b)[m] = o[a + m - 1]
    BY ONLY <2>4, KeptRun
  <2>6. QED
    BY <1>14, <2>2, <2>3, <2>5
<1>16. \A n \in DOMAIN blocks : blocks[n].id = lo + n - 1 /\ blocks[n] = own[lo + n - 1]
  <2>1. TAKE n \in DOMAIN blocks
  <2>2. n \in 1 .. hi - lo + 1 /\ lo + n - 1 \in 1 .. N
    BY <1>4, <1>10, <1>11, <1>15
  <2>3. QED
    BY <1>1, <1>4, <1>15, <2>2
<1>17. i = 1 => lo = 1
  <2>1. ASSUME i = 1 PROVE lo = 1
    <3>1. plan # <<>> /\ plan[1].start = v.start
      BY <1>2, <2>1
    <3>2. 1 \in 1 .. N /\ own[1].ms \in Nat
      BY <1>4, <1>10
    <3>3. 1 \in S
      BY <1>1, <1>2, <1>6, <3>1, <3>2
    <3>4. QED
      BY <1>9, <1>10, <3>3
  <2>2. QED
    BY <2>1
<1>18. lo \in Nat /\ hi \in Nat /\ lo > 0 /\ hi <= s.pictures
  BY <1>1, <1>4, <1>10, <1>11
<1>19. own[lo].key
  BY <1>6, <1>9
<1>20. QED
  BY <1>13, <1>15, <1>16, <1>17, <1>18, <1>19 DEF lo, hi, own

\* The offsets of a segment's pictures.
RunOf(s, i) == [n \in 1 .. LastPicture(s, i) - FirstPicture(s, i) + 1 |-> FirstPicture(s, i) + n - 1]
\* A segment has pictures, and the first segment has the first one.
HasPictures(s, i) ==
  /\ FirstPicture(s, i) \in Nat /\ LastPicture(s, i) \in Nat
  /\ FirstPicture(s, i) <= LastPicture(s, i) /\ (i = 1 => FirstPicture(s, i) = 1)

\* A table's chunks lie within the table, and each starts with a keyframe.
LEMMA TableBounds ==
  ASSUME NEW s \in Sources, s.mp4, NEW i \in DOMAIN SegmentPlan(s)
  PROVE  /\ 1 <= SegmentPlan(s)[i].first /\ SegmentPlan(s)[i].last <= s.pictures
         /\ AllPictures(s)[SegmentPlan(s)[i].first].key
<1> DEFINE plan == SegmentPlan(s)
           N == Len(plan)
           all == AllPictures(s)
<1>1. plan \in Seq(PlannedChunks)
  BY PlanIsGapless
<1>2. /\ plan # <<>> /\ plan[1].first = 1 /\ plan[N].last = s.pictures
      /\ \A n \in DOMAIN plan : /\ plan[n].first \in Nat /\ plan[n].last \in Nat
                                /\ plan[n].first <= plan[n].last
      /\ \A n \in DOMAIN plan : n + 1 \in DOMAIN plan =>
           plan[n].last + 1 = plan[n + 1].first /\ all[plan[n + 1].first].key
  BY TablePlan DEF AllPictures
<1>3. i \in DOMAIN plan
  OBVIOUS
<1>3a. all[1].key
  <2>1. all # <<>>
    BY SourcesAssumption DEF MuxedTables, Numbered, AllPictures
  <2>2. QED
    BY <2>1, PicturesAssumption
<1> HIDE DEF plan, all
<1>4. N \in Nat /\ N > 0 /\ DOMAIN plan = 1 .. N
  BY <1>1, <1>2
<1> HIDE DEF N
<1>5. 1 <= plan[i].first /\ all[plan[i].first].key
  <2>1. CASE i = 1
    BY <1>2, <1>3a, <2>1
  <2>2. CASE i # 1
    <3>1. i - 1 \in DOMAIN plan /\ (i - 1) + 1 = i
      BY <1>3, <1>4, <2>2
    <3>2. /\ plan[i - 1].last \in Nat /\ plan[i - 1].last + 1 = plan[i].first
          /\ all[plan[i].first].key
      BY <1>2, <1>3, <3>1
    <3>3. QED
      BY <3>2
  <2>3. QED
    BY <2>1, <2>2
<1> DEFINE P == {k \in 0 .. N - 1 : plan[N - k].last <= s.pictures}
<1>6. s.pictures \in Nat
  BY SourcesAssumption
<1>7. 0 \in P
  BY <1>2, <1>4, <1>6
<1>8. ASSUME NEW k \in 1 .. N - 1, k - 1 \in P PROVE k \in P
  <2> DEFINE m == N - k
  <2>1. m \in DOMAIN plan /\ m + 1 \in DOMAIN plan /\ N - (k - 1) = m + 1
    BY <1>4
  <2>2. plan[m + 1].last <= s.pictures
    BY <1>8, <2>1
  <2> HIDE DEF m
  <2>3. plan[m].last <= s.pictures
    BY <1>2, <1>6, <2>1, <2>2
  <2>4. QED
    BY <1>8, <2>3 DEF m
<1>9. P = 0 .. N - 1
  <2> HIDE DEF P
  <2>1. P \in SUBSET (0 .. N - 1)
    BY DEF P
  <2> DEFINE M == N - 1
  <2>2. M \in Nat
    BY <1>4
  <2>3. P \in SUBSET (0 .. M) /\ \A k \in 1 .. M : k - 1 \in P => k \in P
    BY <1>8, <2>1
  <2> HIDE DEF M
  <2>4. P = 0 .. M
    BY ONLY <1>7, <2>2, <2>3, UpTo
  <2>5. QED
    BY <2>4 DEF M
<1>10. N - i \in P /\ N - (N - i) = i
  BY <1>3, <1>4, <1>9
<1>11. QED
  BY <1>5, <1>10 DEF plan, all

\* The pictures a segment gets are its run.
LEMMA PicturesRead ==
  ASSUME NEW s \in Sources, NEW i \in DOMAIN SegmentPlan(s), NEW p, p.rate \in {None, s.rate},
         NEW pictures, pictures # <<>>,
         pictures = PacketsRead(s, MediaWindows(s, p, SegmentPlan(s)[i]), SegmentPlan(s)[i])[1]
  PROVE  /\ HasPictures(s, i) /\ [n \in DOMAIN pictures |-> pictures[n].offset] = RunOf(s, i)
         /\ Segment(s, pictures, FirstPicture(s, i), LastPicture(s, i))
<1> DEFINE c == SegmentPlan(s)[i]
           windows == MediaWindows(s, p, c)
           lo == FirstPicture(s, i)
           hi == LastPicture(s, i)
<1>1. CASE s.mp4
  <2>1. lo = c.first /\ hi = c.last
    BY <1>1 DEF FirstPicture, LastPicture
  <2>2. pictures = SubSeq(s.video, lo, hi)
    BY <1>1, <2>1 DEF PacketsRead
  <2>3. /\ lo \in Nat /\ hi \in Nat /\ lo <= hi /\ (i = 1 => lo = 1)
        /\ 1 <= lo /\ hi <= s.pictures /\ AllPictures(s)[lo].key
    BY <1>1, <2>1, TablePlan, TableBounds
  <2>4. /\ s.video \in Seq(PacketType) /\ Len(s.video) = s.pictures
        /\ \A n \in DOMAIN s.video : s.video[n].offset = n
    BY <1>1, SourcesAssumption DEF MuxedTables, Numbered
  <2>5. HasPictures(s, i)
    BY <2>3 DEF HasPictures
  <2> HIDE DEF lo, hi
  <2>6. /\ DOMAIN pictures = 1 .. hi - lo + 1
        /\ \A n \in 1 .. hi - lo + 1 : pictures[n] = s.video[lo + n - 1]
    BY <2>2, <2>3, <2>4
  <2>7. \A n \in 1 .. hi - lo + 1 : pictures[n].offset = lo + n - 1
    <3>1. TAKE n \in 1 .. hi - lo + 1
    <3>2. lo + n - 1 \in DOMAIN s.video
      BY <2>3, <2>4
    <3>3. QED
      BY <2>4, <2>6, <3>2
  <2>8. [n \in DOMAIN pictures |-> pictures[n].offset] = [n \in 1 .. hi - lo + 1 |-> lo + n - 1]
    BY <2>6, <2>7
  <2>9. AllPictures(s) = s.video
    BY <1>1 DEF AllPictures
  <2>10. Segment(s, pictures, lo, hi)
    <3>1. ASSUME NEW n \in 1 .. hi - lo + 1 PROVE Depicts(s, pictures[n], lo + n - 1)
      BY <2>6, <2>7, <2>9 DEF Depicts
    <3>2. lo \in 1 .. s.pictures /\ hi \in lo .. s.pictures /\ Len(pictures) = hi - lo + 1
      BY <2>2, <2>3, <2>4
    <3>3. QED
      BY <2>3, <2>6, <3>1, <3>2 DEF Segment
  <2>11. QED
    BY <2>5, <2>8, <2>10 DEF RunOf, lo, hi
<1>2. CASE ~s.mp4
  <2>1. DOMAIN windows = {1, 2} /\ Blocks(s.file, windows)[1] = Taken(WholeFile(s.file), windows[1])
    BY <1>2, WindowsComplete
  <2>2. /\ windows[1].track = "video" /\ windows[1].start = c.start
        /\ windows[1].end = EndOf(c)
    BY DEF MediaWindows, Window
  <2>3. DOMAIN Blocks(s.file, windows) = {1, 2}
    BY <2>1 DEF Blocks
  <2> DEFINE v == windows[1]
             blocks == Blocks(s.file, windows)[1]
  <2>4. pictures = PacketsOf(blocks)
    <3>1. ASSUME WalkFails(s.file, windows) PROVE FALSE
      BY <1>2, <3>1 DEF PacketsRead
    <3>2. PacketsRead(s, windows, c) = PacketsOfEach(Blocks(s.file, windows))
      BY <1>2, <3>1 DEF PacketsRead
    <3>3. QED
      BY <2>3, <3>2 DEF PacketsOfEach
  <2>5. v.track = "video" /\ v.start = c.start /\ v.end = EndOf(c)
        /\ blocks = Taken(WholeFile(s.file), v)
    BY <2>1, <2>2
  <2> HIDE DEF windows, blocks, v
  <2>6. DOMAIN pictures = DOMAIN blocks
        /\ \A n \in DOMAIN blocks : /\ pictures[n].offset = blocks[n].id
                                     /\ pictures[n].pts = blocks[n].ms
                                     /\ pictures[n].key = blocks[n].key
    BY <2>4 DEF PacketsOf, Packet
  <2>7. blocks # <<>>
    BY <2>4 DEF PacketsOf
  <2>8. /\ HasPictures(s, i) /\ blocks \in Seq(StampedType) /\ Len(blocks) = hi - lo + 1
        /\ \A n \in DOMAIN blocks : blocks[n].id = lo + n - 1
                                     /\ blocks[n] = PictureBlocks(s)[lo + n - 1]
        /\ lo > 0 /\ hi <= s.pictures /\ PictureBlocks(s)[lo].key
    BY <1>2, <2>5, <2>7, GroupIs DEF HasPictures
  <2> HIDE DEF lo, hi
  <2>9. DOMAIN blocks = 1 .. hi - lo + 1
    BY <2>8
  <2>10. [n \in DOMAIN pictures |-> pictures[n].offset] = [n \in 1 .. hi - lo + 1 |-> lo + n - 1]
    BY <2>6, <2>8, <2>9
  <2>11. /\ s.pictures \in Nat
         /\ \A n \in 1 .. s.pictures : /\ AllPictures(s)[n].pts = PictureBlocks(s)[n].ms
                                       /\ AllPictures(s)[n].key = PictureBlocks(s)[n].key
    BY <1>2, AllPicturesAre
  <2>12. lo \in Nat /\ hi \in Nat /\ lo <= hi
    BY <2>8 DEF HasPictures, lo, hi
  <2>13. Segment(s, pictures, lo, hi)
    <3>1. ASSUME NEW n \in 1 .. hi - lo + 1 PROVE Depicts(s, pictures[n], lo + n - 1)
      <4>1. lo + n - 1 \in 1 .. s.pictures
        BY <2>8, <2>11, <2>12
      <4>2. /\ pictures[n].offset = blocks[n].id /\ pictures[n].pts = blocks[n].ms
            /\ pictures[n].key = blocks[n].key
            /\ blocks[n].id = lo + n - 1 /\ blocks[n] = PictureBlocks(s)[lo + n - 1]
        BY <2>6, <2>8, <2>9
      <4>3. QED
        BY <2>11, <4>1, <4>2 DEF Depicts
    <3>2. lo \in 1 .. s.pictures /\ hi \in lo .. s.pictures
      BY <2>8, <2>11, <2>12
    <3>3. Len(pictures) = hi - lo + 1
      <4>1. DOMAIN pictures = 1 .. hi - lo + 1
        BY <2>6, <2>9
      <4>2. pictures = [n \in DOMAIN blocks |-> pictures[n]]
        BY <2>4, <2>6 DEF PacketsOf
      <4>3. QED
        BY <2>8, <4>1, <4>2
    <3>4. AllPictures(s)[lo].key
      BY <2>8, <2>11, <3>2
    <3>5. QED
      BY <2>6, <2>9, <3>1, <3>2, <3>3, <3>4 DEF Segment
  <2>14. QED
    BY <2>8, <2>10, <2>13 DEF RunOf, lo, hi
<1>3. QED
  BY <1>1, <1>2

\* Every fragment's pictures are its segment's run.
PicturesRun ==
  /\ PipeTyped
  /\ \A i \in DOMAIN chunks : \A a \in made[i] : HasPictures(source, i) /\ a.pictures = RunOf(source, i)

\* Every step keeps it.
LEMMA PicturesRunNext == PicturesRun /\ [Next]_vars => PicturesRun'
<1> SUFFICES ASSUME PicturesRun, [Next]_vars PROVE PicturesRun'
  OBVIOUS
<1>0. /\ source \in Sources /\ chunks = SegmentPlan(source) /\ pipe \in Pipes(source)
      /\ DOMAIN made = DOMAIN chunks
      /\ \A i \in DOMAIN chunks : \A a \in made[i] : HasPictures(source, i) /\ a.pictures = RunOf(source, i)
  BY DEF PicturesRun, PipeTyped, IInv
<1>1. PipeTyped'
  BY PipeTypedNext DEF PicturesRun
<1>2. SUFFICES \A i \in DOMAIN chunks' : \A a \in made'[i] :
                 HasPictures(source', i) /\ a.pictures = RunOf(source', i)
  BY <1>1 DEF PicturesRun
<1>3. ASSUME NEW i \in DOMAIN chunks, Transcode(i)
      PROVE  \A n \in DOMAIN chunks' : \A a \in made'[n] :
               HasPictures(source', n) /\ a.pictures = RunOf(source', n)
  <2> DEFINE p == Prepared(pipe, source, i)
             c == chunks[i]
             pictures == PacketsRead(source, MediaWindows(source, p, c), c)[1]
  <2>1. UNCHANGED <<source, chunks>>
    BY <1>3, Zenon DEF Transcode
  <2>2. \/ made' = made
        \/ \E q : /\ pictures # <<>>
                  /\ made' = [made EXCEPT ![i] = @ \cup {Fragment(q, source, c, pictures)}]
    BY <1>3, Zenon DEF Transcode, Prepare, Read, Render, Finish, Complete, Refuse
  <2>3. CASE made' = made
    BY <1>0, <2>1, <2>3
  <2>4. ASSUME NEW q, pictures # <<>>,
               made' = [made EXCEPT ![i] = @ \cup {Fragment(q, source, c, pictures)}]
        PROVE  \A n \in DOMAIN chunks : \A a \in made'[n] :
                 HasPictures(source, n) /\ a.pictures = RunOf(source, n)
    <3> DEFINE b == Fragment(q, source, c, pictures)
    <3>1. p \in Pipes(source)
      BY <1>0, PreparedType
    <3> HIDE DEF p
    <3>2. p.rate \in {None, source.rate}
      BY <3>1 DEF Pipes, PipeType
    <3>2a. /\ pictures # <<>> /\ i \in DOMAIN SegmentPlan(source)
           /\ pictures = PacketsRead(source, MediaWindows(source, p, SegmentPlan(source)[i]),
                                     SegmentPlan(source)[i])[1]
      BY <1>0, <2>4
    <3>4. b.pictures = [n \in DOMAIN pictures |-> pictures[n].offset]
      BY DEF Fragment
    <3> HIDE DEF b, pictures
    <3>3. /\ HasPictures(source, i)
          /\ [n \in DOMAIN pictures |-> pictures[n].offset] = RunOf(source, i)
      BY <1>0, <3>2, <3>2a, PicturesRead
    <3>5. \A n \in DOMAIN chunks : \A a \in made'[n] : a \in made[n] \/ (n = i /\ a = b)
      BY <1>0, <2>4 DEF b
    <3>6. QED
      BY <1>0, <3>3, <3>4, <3>5
  <2>5. QED
    BY <2>1, <2>2, <2>3, <2>4
<1>4. CASE Break
  BY <1>0, <1>4 DEF Break
<1>5. CASE NewWorker
  BY <1>0, <1>5 DEF NewWorker
<1>6. CASE UNCHANGED vars
  BY <1>0, <1>6 DEF vars
<1>7. QED
  BY <1>3, <1>4, <1>5, <1>6 DEF Next

\* It holds at first.
LEMMA PicturesRunInit == Init => PicturesRun
<1> SUFFICES ASSUME Init PROVE PicturesRun
  OBVIOUS
<1>1. \A i \in DOMAIN chunks : made[i] = {}
  BY DEF Init
<1>2. QED
  BY <1>1, PipeTypedInit DEF PicturesRun

\* The runs of neighbouring segments follow one another.
LEMMA RunsFollow == PicturesRun => PicturesFollow
<1> SUFFICES ASSUME PicturesRun, NEW i \in DOMAIN chunks, NEW a \in made[i]
             PROVE  /\ \A b \in made[i] : a.pictures = b.pictures
                    /\ \A n \in 2 .. Len(a.pictures) : a.pictures[n] = a.pictures[n - 1] + 1
                    /\ i + 1 \in DOMAIN chunks =>
                         \A b \in made[i + 1] : Head(b.pictures) = Last(a.pictures) + 1
                    /\ IsLast(i) => Last(a.pictures) = source.pictures
                    /\ i = 1 => Head(a.pictures) = 1
  BY DEF PicturesFollow
<1>0. /\ source \in Sources /\ chunks = SegmentPlan(source)
      /\ \A k \in DOMAIN chunks : \A b \in made[k] : HasPictures(source, k) /\ b.pictures = RunOf(source, k)
  BY DEF PicturesRun, PipeTyped, IInv
<1>1. ASSUME NEW k, HasPictures(source, k)
      PROVE  LET run == RunOf(source, k)
             IN  /\ \A n \in 2 .. Len(run) : run[n] = run[n - 1] + 1
                 /\ Head(run) = FirstPicture(source, k) /\ Last(run) = LastPicture(source, k)
  <2> DEFINE lo == FirstPicture(source, k)
             hi == LastPicture(source, k)
             run == RunOf(source, k)
  <2>1. lo \in Nat /\ hi \in Nat /\ lo <= hi
    BY <1>1 DEF HasPictures
  <2>2. run = [n \in 1 .. hi - lo + 1 |-> lo + n - 1]
    BY DEF RunOf
  <2> HIDE DEF lo, hi, run
  <2>3. run \in Seq(Nat) /\ Len(run) = hi - lo + 1 /\ \A n \in 1 .. hi - lo + 1 : run[n] = lo + n - 1
    BY <2>1, <2>2
  <2>4. \A n \in 2 .. Len(run) : run[n] = run[n - 1] + 1
    <3>1. TAKE n \in 2 .. Len(run)
    <3>2. n \in 1 .. hi - lo + 1 /\ n - 1 \in 1 .. hi - lo + 1
      BY <2>1, <2>3
    <3>3. run[n] = lo + n - 1 /\ run[n - 1] = lo + (n - 1) - 1
      BY <2>3, <3>2
    <3>4. QED
      BY <2>1, <3>2, <3>3
  <2>5. Head(run) = lo /\ Last(run) = hi
    <3>1. 1 \in 1 .. hi - lo + 1 /\ hi - lo + 1 \in 1 .. hi - lo + 1
      BY <2>1
    <3>2. run[1] = lo /\ run[hi - lo + 1] = hi
      BY <2>1, <2>3, <3>1
    <3>3. QED
      BY <2>3, <3>2 DEF Last
  <2>6. QED
    BY <2>4, <2>5 DEF lo, hi, run
<1>2. /\ \A n \in 2 .. Len(a.pictures) : a.pictures[n] = a.pictures[n - 1] + 1
      /\ Head(a.pictures) = FirstPicture(source, i) /\ Last(a.pictures) = LastPicture(source, i)
      /\ HasPictures(source, i)
  BY <1>0, <1>1
<1>3. ASSUME i + 1 \in DOMAIN chunks, NEW b \in made[i + 1]
      PROVE  Head(b.pictures) = Last(a.pictures) + 1
  <2>1. Head(b.pictures) = FirstPicture(source, i + 1)
    BY <1>0, <1>1, <1>3
  <2>2. LastPicture(source, i) + 1 = FirstPicture(source, i + 1)
    BY <1>0, <1>3, PicturesMeet
  <2>3. QED
    BY <1>2, <2>1, <2>2
<1>4. IsLast(i) => LastPicture(source, i) = source.pictures
  BY <1>0, PicturesMeet DEF IsLast
<1>5. i = 1 => FirstPicture(source, i) = 1
  BY <1>2 DEF HasPictures
<1>6. QED
  BY <1>0, <1>2, <1>3, <1>4, <1>5

\* Every picture of the track belongs to one segment and all of them are published
\* in decode order, whoever made the segments, for any source.
THEOREM PicturesInOrder == Spec => []PicturesFollow
<1>1. Spec => []PicturesRun
  BY PicturesRunInit, PicturesRunNext, PTL DEF Spec
<1>2. QED
  BY <1>1, RunsFollow, PTL

-----------------------------------------------------------------------------
(***************************************************************************)
(* The pictures of a re-encoded segment.  A session that has had the       *)
(* packets up to some number holds a few of them and has made frames of    *)
(* the others, and everything it has made a frame of is shown before all   *)
(* that it holds or has still to get.                                      *)
(***************************************************************************)
\* The frames of a batch.
FrameType == [picture : Nat, due : Nat, at : Nat, sync : BOOLEAN]
\* Frames are in the order of their times.
Ascends(frames) == \A m, n \in DOMAIN frames : m < n => frames[m].at < frames[n].at

\* Such frames stay as they are when they are sorted.
LEMMA AscendingStay ==
  ASSUME NEW frames \in Seq(FrameType), Ascends(frames)
  PROVE  InOrder(frames) = frames
<1> DEFINE N == Len(frames)
           at == [n \in 1 .. N |-> frames[n].at]
           before(k) == {j \in DOMAIN frames : \/ frames[j].at < frames[k].at
                                               \/ frames[j].at = frames[k].at /\ j < k}
           nth(n) == CHOOSE k \in DOMAIN frames : Cardinality(before(k)) = n - 1
<1>1. N \in Nat /\ DOMAIN frames = 1 .. N
  OBVIOUS
<1>2. InOrder(frames) = [n \in DOMAIN frames |-> frames[nth(n)]]
  BY DEF InOrder
<1>3. at \in [1 .. N -> Nat]
  <2>1. \A f \in FrameType : f.at \in Nat
    BY DEF FrameType
  <2>2. QED
    BY <2>1
<1>4. \A m, n \in 1 .. N : m < n => at[m] < at[n]
  BY <1>1 DEF Ascends
<1> HIDE DEF N, at
<1>5. ASSUME NEW k \in 1 .. N PROVE Cardinality(before(k)) = k - 1
  <2>1. before(k) = {j \in 1 .. N : at[j] < at[k] \/ (at[j] = at[k] /\ j < k)}
    BY <1>1 DEF at, N
  <2> HIDE DEF before
  <2>3. before(k) = 1 .. k - 1
    BY <1>1, <1>3, <1>4, <2>1
  <2>2. Cardinality(1 .. k - 1) = k - 1
    <3>1. k - 1 \in Int /\ 1 \in Int /\ k \in Nat /\ k > 0
      BY <1>1
    <3>2. Cardinality(1 .. k - 1) = IF 1 > k - 1 THEN 0 ELSE (k - 1) - 1 + 1
      BY <3>1, FS_Interval
    <3>3. QED
      BY <3>1, <3>2
  <2>4. QED
    BY <2>2, <2>3
<1>6. ASSUME NEW n \in 1 .. N PROVE nth(n) = n
  <2>1. \A k \in DOMAIN frames : Cardinality(before(k)) = n - 1 <=> k = n
    BY <1>1, <1>5
  <2> HIDE DEF before
  <2>2. QED
    BY <1>1, <2>1
<1> HIDE DEF nth
<1>7. InOrder(frames) = [n \in DOMAIN frames |-> frames[n]]
  BY <1>1, <1>2, <1>6
<1>8. QED
  BY <1>1, <1>7

\* Packets that numbers and times tell apart.
Distinct(Q) ==
  /\ IsFiniteSet(Q) /\ \A p \in Q : PictureLike(p)
  /\ \A p, q \in Q : p # q => p.offset # q.offset /\ p.pts # q.pts
\* Sessions that decode some of the packets Q.
SessionType(Q) ==
  [held : SUBSET Q, pending : SUBSET Q, frames : Seq(FrameType), encoded : Seq(FrameType)]
FramesOf(d) == ToSet(d.encoded) \cup ToSet(d.frames)
\* A frame is shown at its own time, before everything that is still to come.
Timely(f, d, Q, o) ==
  f.at = f.due /\ \A q \in Q : q \in d.held \/ q.offset > o => f.at < q.pts
\* A session that has had those of the packets that are numbered up to o: they are held
\* or they have become frames, in the order of their times.
InStep(d, Q, o) ==
  /\ d \in SessionType(Q) /\ d.pending = d.held
  /\ \A p \in d.held : p.offset <= o
  /\ \A f \in FramesOf(d) : /\ Timely(f, d, Q, o)
                            /\ \E p \in Q \ d.held : p.offset = f.picture /\ p.offset <= o
  /\ \A p \in Q \ d.held : p.offset <= o => \E f \in FramesOf(d) : f.picture = p.offset
  /\ Ascends(d.encoded) /\ Ascends(d.frames)
  /\ \A f \in ToSet(d.encoded), g \in ToSet(d.frames) : f.at < g.at
  /\ d.encoded # <<>> => d.encoded[1].sync

\* The earliest of some packets is before the others.
LEMMA EarliestIs ==
  ASSUME NEW S, S # {}, \A p \in S : PictureLike(p),
         \A p, q \in S : p # q => p.pts # q.pts
  PROVE  Earliest(S) \in S /\ \A q \in S : q # Earliest(S) => Earliest(S).pts < q.pts
<1> DEFINE times == {p.pts : p \in S}
           m == SmallestOf(times)
<1>1. \A p \in S : p.pts \in Nat
  BY DEF PictureLike
<1>2. times \in SUBSET Nat /\ times # {}
  BY <1>1
<1>3. m \in times /\ \A x \in times : m <= x
  <2> HIDE DEF times
  <2>1. QED
    BY <1>2, Smallest
<1> HIDE DEF m
<1>4. PICK x \in S : \A q \in S : x.pts <= q.pts
  BY <1>3
<1> DEFINE e == CHOOSE p \in S : \A q \in S : p.pts <= q.pts
<1>5. e \in S /\ \A q \in S : e.pts <= q.pts
  BY <1>4
<1>6. e = Earliest(S)
  BY DEF Earliest
<1> HIDE DEF e
<1>7. \A q \in S : q # e => e.pts < q.pts
  <2>1. TAKE q \in S
  <2>2. HAVE q # e
  <2>3. e.pts \in Nat /\ q.pts \in Nat /\ e.pts <= q.pts /\ e.pts # q.pts
    BY <1>1, <1>5, <2>2
  <2>4. QED
    BY <2>3
<1>8. QED
  BY <1>5, <1>6, <1>7

\* A frame more, behind the others.
LEMMA AppendAscends ==
  ASSUME NEW frames \in Seq(FrameType), NEW f \in FrameType, Ascends(frames),
         \A g \in ToSet(frames) : g.at < f.at
  PROVE  /\ Append(frames, f) \in Seq(FrameType) /\ Ascends(Append(frames, f))
         /\ ToSet(Append(frames, f)) = ToSet(frames) \cup {f}
<1> DEFINE more == Append(frames, f)
           N == Len(frames)
<1>1. N \in Nat /\ DOMAIN frames = 1 .. N
  OBVIOUS
<1>2. /\ more \in Seq(FrameType) /\ DOMAIN more = 1 .. N + 1
      /\ more[N + 1] = f /\ \A n \in 1 .. N : more[n] = frames[n]
  OBVIOUS
<1>3. \A n \in 1 .. N : frames[n] \in ToSet(frames)
  BY <1>1 DEF ToSet
<1> HIDE DEF more, N
<1>4. Ascends(more)
  <2>1. ASSUME NEW m \in 1 .. N + 1, NEW n \in 1 .. N + 1, m < n PROVE more[m].at < more[n].at
    <3>1. m \in 1 .. N
      BY <1>1, <2>1
    <3>2. CASE n = N + 1
      BY <1>2, <1>3, <3>1, <3>2
    <3>3. CASE n \in 1 .. N
      BY <1>1, <1>2, <2>1, <3>1, <3>3 DEF Ascends
    <3>4. QED
      BY <1>1, <3>2, <3>3
  <2>2. QED
    BY <1>2, <2>1 DEF Ascends
<1>5. ToSet(more) = ToSet(frames) \cup {f}
  <2>1. ToSet(more) = {more[n] : n \in 1 .. N + 1} /\ ToSet(frames) = {frames[n] : n \in 1 .. N}
    BY <1>1, <1>2 DEF ToSet
  <2>2. \A n \in 1 .. N + 1 : n \in 1 .. N \/ n = N + 1
    BY <1>1
  <2>3. \A n \in 1 .. N : n \in 1 .. N + 1
    BY <1>1
  <2>4. N + 1 \in 1 .. N + 1
    BY <1>1
  <2>5. QED
    BY <1>2, <2>1, <2>2, <2>3, <2>4
<1>6. QED
  BY <1>2, <1>4, <1>5 DEF more

\* A picture that the decoder returns becomes a frame.
LEMMA ReturnedInStep ==
  ASSUME NEW s, NEW Q, Distinct(Q), NEW o \in Nat, NEW d, InStep(d, Q, o), d.held # {},
         \A q \in Q : q.offset > o => Earliest(d.held).pts < q.pts
  PROVE  /\ InStep(Returned(d, s), Q, o) /\ Earliest(d.held) \in d.held
         /\ Returned(d, s).held = d.held \ {Earliest(d.held)}
<1> DEFINE x == Earliest(d.held)
           f == [picture |-> x.offset, due |-> x.pts, at |-> x.pts, sync |-> x.key]
           e == Returned(d, s)
<1>1. /\ \A p \in Q : PictureLike(p)
      /\ \A p, q \in Q : p # q => p.offset # q.offset /\ p.pts # q.pts
  BY DEF Distinct
<1>2. /\ d \in SessionType(Q) /\ d.pending = d.held
      /\ \A p \in d.held : p.offset <= o
      /\ \A g \in FramesOf(d) : /\ Timely(g, d, Q, o)
                                /\ \E p \in Q \ d.held : p.offset = g.picture /\ p.offset <= o
      /\ \A p \in Q \ d.held : p.offset <= o => \E g \in FramesOf(d) : g.picture = p.offset
      /\ Ascends(d.encoded) /\ Ascends(d.frames)
      /\ \A g \in ToSet(d.encoded), h \in ToSet(d.frames) : g.at < h.at
      /\ d.encoded # <<>> => d.encoded[1].sync
  BY DEF InStep
<1>3. /\ d.held \in SUBSET Q /\ d.pending \in SUBSET Q
      /\ d.frames \in Seq(FrameType) /\ d.encoded \in Seq(FrameType)
  BY <1>2 DEF SessionType
<1>4. x \in d.held /\ \A q \in d.held : q # x => x.pts < q.pts
  <2>1. (\A p \in d.held : PictureLike(p)) /\ \A p, q \in d.held : p # q => p.pts # q.pts
    BY <1>1, <1>3
  <2>2. QED
    BY <2>1, EarliestIs
<1>5. PictureLike(x) /\ x \in Q /\ x.offset <= o
  BY <1>1, <1>2, <1>3, <1>4
<1>6. e = [d EXCEPT !.held = d.held \ {x}, !.pending = d.pending \ {x},
                    !.frames = Append(d.frames, f)]
  <2>1. (IF s.byOrder THEN Earliest(d.pending) ELSE x) = x
    BY <1>2
  <2>2. QED
    BY <2>1 DEF Returned
<1> HIDE DEF e, x
<1>7. f \in FrameType
  BY <1>5 DEF FrameType, PictureLike
<1>8. f.picture = x.offset /\ f.due = x.pts /\ f.at = x.pts
  OBVIOUS
<1> HIDE DEF f
<1>9. /\ e.held = d.held \ {x} /\ e.pending = d.pending \ {x}
      /\ e.frames = Append(d.frames, f) /\ e.encoded = d.encoded
  BY <1>2, <1>6 DEF SessionType
<1>10. \A g \in FramesOf(d) : g.at < x.pts
  BY <1>2, <1>4, <1>5 DEF Timely
<1>11. /\ e.frames \in Seq(FrameType) /\ Ascends(e.frames)
       /\ ToSet(e.frames) = ToSet(d.frames) \cup {f}
  <2>1. \A g \in ToSet(d.frames) : g.at < f.at
    BY <1>8, <1>10 DEF FramesOf
  <2>2. QED
    BY <1>2, <1>3, <1>7, <1>9, <2>1, AppendAscends
<1>12. FramesOf(e) = FramesOf(d) \cup {f}
  BY <1>9, <1>11 DEF FramesOf
<1>13. e \in SessionType(Q)
  <2>1. d.held \ {x} \in SUBSET Q /\ d.pending \ {x} \in SUBSET Q
    BY <1>3
  <2>2. Append(d.frames, f) \in Seq(FrameType)
    BY <1>9, <1>11
  <2>3. QED
    BY <1>2, <1>6, <2>1, <2>2 DEF SessionType
<1>14. \A p \in e.held : p.offset <= o
  BY <1>2, <1>9
<1>15. \A g \in FramesOf(e) : /\ Timely(g, e, Q, o)
                              /\ \E p \in Q \ e.held : p.offset = g.picture /\ p.offset <= o
  <2>1. ASSUME NEW g \in FramesOf(d)
        PROVE  /\ Timely(g, e, Q, o)
               /\ \E p \in Q \ e.held : p.offset = g.picture /\ p.offset <= o
    BY <1>2, <1>9 DEF Timely
  <2>2. Timely(f, e, Q, o)
    BY <1>4, <1>8, <1>9 DEF Timely, x
  <2>3. \E p \in Q \ e.held : p.offset = f.picture /\ p.offset <= o
    BY <1>5, <1>8, <1>9
  <2>4. QED
    BY <1>12, <2>1, <2>2, <2>3
<1>16. \A p \in Q \ e.held : p.offset <= o => \E g \in FramesOf(e) : g.picture = p.offset
  BY <1>2, <1>8, <1>9, <1>12
<1>17. \A g \in ToSet(e.encoded), h \in ToSet(e.frames) : g.at < h.at
  BY <1>2, <1>8, <1>9, <1>10, <1>11 DEF FramesOf
<1>18. InStep(e, Q, o)
  <2>1. e.pending = e.held
    BY <1>2, <1>9
  <2>2. Ascends(e.encoded) /\ (e.encoded # <<>> => e.encoded[1].sync)
    BY <1>2, <1>9
  <2>3. QED
    BY <1>11, <1>13, <1>14, <1>15, <1>16, <1>17, <2>1, <2>2 DEF InStep
<1>19. QED
  BY <1>4, <1>9, <1>18 DEF e, x

\* Packets with the numbers, times and keys of pictures of a source.
Tracked(s, Q) ==
  \A p \in Q : /\ p.offset \in DOMAIN AllPictures(s) /\ p.pts = AllPictures(s)[p.offset].pts
               /\ p.key = AllPictures(s)[p.offset].key

\* A decoder that holds back more than it has to has a picture that is shown before all
\* those to come.
LEMMA NoneEarlier ==
  ASSUME NEW s \in Sources, NEW Q, Distinct(Q), Tracked(s, Q), NEW H \in SUBSET Q,
         Cardinality(H) > s.hold, NEW q \in Q, \A p \in H : p.offset < q.offset
  PROVE  Earliest(H).pts < q.pts
<1> DEFINE all == AllPictures(s)
           late == ShownAfter(all, q.offset)
           number == [p \in H |-> p.offset]
           x == Earliest(H)
<1>1. /\ s.hold \in Nat
      /\ q.offset \in DOMAIN all => Cardinality(late) <= s.hold
  BY PicturesAssumption
<1>2. /\ IsFiniteSet(Q) /\ \A p \in Q : p.pts \in Nat /\ p.offset \in Nat
      /\ \A p, r \in Q : p # r => p.offset # r.offset /\ p.pts # r.pts
  BY DEF Distinct, PictureLike
<1>3. DOMAIN all = 1 .. s.pictures /\ s.pictures \in Nat
  BY AllPicturesAre
<1>4. IsFiniteSet(H) /\ Cardinality(H) \in Nat /\ H # {}
  <2>1. IsFiniteSet(H)
    BY <1>2, FS_Subset
  <2>2. Cardinality(H) \in Nat
    BY <2>1, FS_CardinalityType
  <2>3. H # {}
    <3>1. ASSUME H = {} PROVE FALSE
      <4>1. Cardinality(H) = 0
        BY <3>1, FS_EmptySet
      <4>2. QED
        BY <1>1, <4>1
    <3>2. QED
      BY <3>1
  <2>4. QED
    BY <2>1, <2>2, <2>3
<1>5. x \in H /\ \A p \in H : p # x => x.pts < p.pts
  <2>1. (\A p \in H : PictureLike(p)) /\ \A p, r \in H : p # r => p.pts # r.pts
    BY <1>2 DEF Distinct
  <2>2. QED
    BY <1>4, <2>1, EarliestIs
<1> HIDE DEF x
<1>6. SUFFICES ASSUME ~(x.pts < q.pts) PROVE FALSE
  BY DEF x
<1>7. ASSUME NEW p \in H PROVE p.pts > q.pts
  <2>2. p.pts \in Nat /\ q.pts \in Nat /\ x.pts \in Nat /\ p.offset \in Nat /\ q.offset \in Nat
    BY <1>2, <1>5
  <2>3. p # q /\ p.offset < q.offset
    BY <2>2
  <2>4. p.pts # q.pts
    BY <1>2, <2>3
  <2>5. p = x \/ x.pts < p.pts
    BY <1>5
  <2>6. QED
    BY <1>6, <2>2, <2>4, <2>5
<1>8. ASSUME NEW p \in H PROVE p.offset \in late
  <2>1. /\ p.offset \in DOMAIN all /\ p.pts = all[p.offset].pts
        /\ q.offset \in DOMAIN all /\ q.pts = all[q.offset].pts
    BY DEF Tracked
  <2>3. p.offset \in Nat /\ q.offset \in Nat /\ p.offset < q.offset
    BY <1>2
  <2> HIDE DEF all
  <2>5. p.offset > 0
    BY <1>3, <2>1
  <2>6. p.offset \in 1 .. q.offset - 1
    BY <2>3, <2>5
  <2>7. all[p.offset].pts > all[q.offset].pts
    BY <1>7, <2>1
  <2>8. QED
    BY <2>6, <2>7 DEF ShownAfter
<1>9. q.offset \in DOMAIN all
  BY DEF Tracked
<1>10. IsFiniteSet(late)
  <2>2. q.offset \in Nat
    BY <1>2
  <2>3. IsFiniteSet(1 .. q.offset - 1)
    BY <2>2, FS_Interval
  <2>4. late \in SUBSET (1 .. q.offset - 1)
    BY DEF ShownAfter
  <2> HIDE DEF late
  <2>5. QED
    BY <2>3, <2>4, FS_Subset
<1>11. number \in Injection(H, late)
  <2>1. number \in [H -> late]
    BY <1>8
  <2>2. \A p, r \in H : number[p] = number[r] => p = r
    BY <1>2
  <2> HIDE DEF number, late
  <2>3. QED
    BY <2>1, <2>2 DEF Injection, IsInjective
<1> HIDE DEF number, late
<1>12. Cardinality(H) <= Cardinality(late) /\ Cardinality(late) \in Nat
  BY <1>10, <1>11, FS_Injection, FS_CardinalityType
<1>13. QED
  BY <1>1, <1>4, <1>9, <1>12

\* A packet that is sent is in step, too, and the decoder holds back no more than it has to.
LEMMA SentInStep ==
  ASSUME NEW s \in Sources, NEW Q, Distinct(Q), Tracked(s, Q), NEW o \in Nat,
         NEW d, InStep(d, Q, o), Cardinality(d.held) <= s.hold,
         NEW x \in Q, x.offset = o + 1
  PROVE  /\ InStep(Sent(d, s, x, TRUE), Q, o + 1)
         /\ Cardinality(Sent(d, s, x, TRUE).held) <= s.hold
<1> DEFINE e == [d EXCEPT !.pending = d.pending \cup {x}, !.held = d.held \cup {x}]
           N == o + 1
<1>1. /\ IsFiniteSet(Q)
      /\ \A p, q \in Q : p # q => p.offset # q.offset /\ p.pts # q.pts
      /\ \A p \in Q : p.offset \in Nat
  BY DEF Distinct, PictureLike
<1>2. /\ d \in SessionType(Q) /\ d.pending = d.held
      /\ \A p \in d.held : p.offset <= o
      /\ \A f \in FramesOf(d) : /\ Timely(f, d, Q, o)
                                /\ \E p \in Q \ d.held : p.offset = f.picture /\ p.offset <= o
      /\ \A p \in Q \ d.held : p.offset <= o => \E f \in FramesOf(d) : f.picture = p.offset
      /\ Ascends(d.encoded) /\ Ascends(d.frames)
      /\ \A f \in ToSet(d.encoded), g \in ToSet(d.frames) : f.at < g.at
      /\ d.encoded # <<>> => d.encoded[1].sync
  BY DEF InStep
<1>3. d.held \in SUBSET Q
  BY <1>2 DEF SessionType
<1>4. Sent(d, s, x, TRUE) = IF Cardinality(e.held) > s.hold THEN Returned(e, s) ELSE e
  BY DEF Sent
<1>5. /\ e \in SessionType(Q) /\ e.held = d.held \cup {x} /\ e.pending = d.pending \cup {x}
      /\ e.frames = d.frames /\ e.encoded = d.encoded
  BY <1>2 DEF SessionType
<1> HIDE DEF e
<1>6. \A q \in Q : (q \in e.held \/ q.offset > N) => (q \in d.held \/ q.offset > o)
  BY <1>1, <1>5
<1>7. \A q \in Q : q.offset <= N => q.offset <= o \/ q = x
  BY <1>1
<1>8. N \in Nat /\ \A q \in Q : q.offset <= o => q.offset <= N
  BY <1>1
<1> HIDE DEF N
<1>9. FramesOf(e) = FramesOf(d)
  BY <1>5 DEF FramesOf
<1>10. InStep(e, Q, N)
  <2>1. \A p \in e.held : p.offset <= N
    BY <1>2, <1>3, <1>5, <1>8 DEF N
  <2>2. ASSUME NEW f \in FramesOf(d)
        PROVE  Timely(f, e, Q, N) /\ \E p \in Q \ e.held : p.offset = f.picture /\ p.offset <= N
    <3>1. Timely(f, e, Q, N)
      BY <1>2, <1>6 DEF Timely
    <3>2. PICK p \in Q \ d.held : p.offset = f.picture /\ p.offset <= o
      BY <1>2
    <3>3. p # x
      BY <1>1, <3>2
    <3>4. QED
      BY <1>5, <1>8, <3>1, <3>2, <3>3
  <2>3. \A p \in Q \ e.held : p.offset <= N => \E f \in FramesOf(d) : f.picture = p.offset
    BY <1>2, <1>5, <1>7
  <2>4. e.pending = e.held
    BY <1>2, <1>5
  <2>5. QED
    BY <1>2, <1>5, <1>9, <2>1, <2>2, <2>3, <2>4 DEF InStep
<1>11. /\ IsFiniteSet(d.held) /\ IsFiniteSet(e.held)
       /\ Cardinality(d.held) \in Nat /\ Cardinality(e.held) = Cardinality(d.held) + 1
  <2>1. IsFiniteSet(d.held)
    BY <1>1, <1>3, FS_Subset
  <2>2. Cardinality(d.held) \in Nat
    BY <2>1, FS_CardinalityType
  <2>3. x \notin d.held
    BY <1>1, <1>2, <1>3
  <2>4. IsFiniteSet(d.held \cup {x}) /\ Cardinality(d.held \cup {x}) = Cardinality(d.held) + 1
    BY <2>1, <2>3, FS_AddElement
  <2>5. QED
    BY <1>5, <2>1, <2>2, <2>4
<1>12. s.hold \in Nat
  BY PicturesAssumption
<1>13. CASE ~(Cardinality(e.held) > s.hold)
  <2>1. Sent(d, s, x, TRUE) = e
    BY <1>4, <1>13
  <2>2. Cardinality(e.held) <= s.hold
    BY <1>11, <1>12, <1>13
  <2>3. QED
    BY <1>10, <2>1, <2>2 DEF N
<1>14. CASE Cardinality(e.held) > s.hold
  <2> DEFINE r == Returned(e, s)
  <2>1. e.held # {}
    BY <1>5
  <2>2. e.held \in SUBSET Q
    BY <1>3, <1>5
  <2>3. ASSUME NEW q \in Q, q.offset > N PROVE Earliest(e.held).pts < q.pts
    <3>1. \A p \in e.held : p.offset < q.offset
      <4>1. \A p \in e.held : p.offset <= N /\ p.offset \in Nat
        BY <1>1, <1>10, <2>2 DEF InStep
      <4>2. QED
        BY <1>1, <1>8, <2>3, <4>1
    <3>2. QED
      BY <1>14, <2>2, <3>1, NoneEarlier
  <2>4. /\ InStep(r, Q, N) /\ Earliest(e.held) \in e.held
        /\ r.held = e.held \ {Earliest(e.held)}
    BY <1>8, <1>10, <2>1, <2>3, ReturnedInStep
  <2> HIDE DEF r
  <2>5. Cardinality(r.held) = Cardinality(e.held) - 1
    BY <1>11, <2>4, FS_RemoveElement
  <2>6. Cardinality(r.held) <= s.hold
    BY <1>11, <1>12, <2>5
  <2>7. QED
    BY <1>4, <1>14, <2>4, <2>6 DEF N, r
<1>15. QED
  BY <1>13, <1>14

\* Frames behind frames.
LEMMA ConcatAscends ==
  ASSUME NEW a \in Seq(FrameType), NEW b \in Seq(FrameType), Ascends(a), Ascends(b),
         \A f \in ToSet(a), g \in ToSet(b) : f.at < g.at
  PROVE  a \o b \in Seq(FrameType) /\ Ascends(a \o b) /\ ToSet(a \o b) = ToSet(a) \cup ToSet(b)
<1> DEFINE c == a \o b
           M == Len(a)
           N == Len(b)
<1>1. /\ M \in Nat /\ DOMAIN a = 1 .. M /\ N \in Nat /\ DOMAIN b = 1 .. N
      /\ c \in Seq(FrameType) /\ DOMAIN c = 1 .. M + N
      /\ \A n \in 1 .. M : c[n] = a[n]
      /\ \A n \in 1 .. N : c[M + n] = b[n]
  OBVIOUS
<1>2. /\ \A n \in 1 .. M : a[n] \in ToSet(a)
      /\ \A n \in 1 .. N : b[n] \in ToSet(b)
  BY <1>1 DEF ToSet
<1> HIDE DEF c, M, N
<1>3. \A n \in 1 .. M + N : n \in 1 .. M \/ (n - M \in 1 .. N /\ n = M + (n - M))
  BY <1>1
<1>4. ASSUME NEW m \in 1 .. M + N, NEW n \in 1 .. M + N, m < n PROVE c[m].at < c[n].at
  <2>1. CASE m \in 1 .. M /\ n \in 1 .. M
    BY <1>1, <1>4, <2>1 DEF Ascends
  <2>2. CASE m \in 1 .. M /\ n - M \in 1 .. N /\ n = M + (n - M)
    <3>1. c[m] = a[m] /\ c[n] = b[n - M]
      BY <1>1, <2>2
    <3>2. QED
      BY <1>2, <2>2, <3>1
  <2>3. CASE m - M \in 1 .. N /\ n - M \in 1 .. N /\ m = M + (m - M) /\ n = M + (n - M)
    <3>1. c[m] = b[m - M] /\ c[n] = b[n - M] /\ m - M < n - M
      BY <1>1, <1>4, <2>3
    <3>2. QED
      BY <1>1, <2>3, <3>1 DEF Ascends
  <2>4. ~(m \notin 1 .. M /\ n \in 1 .. M)
    BY <1>1, <1>4
  <2>5. QED
    BY <1>3, <2>1, <2>2, <2>3, <2>4
<1>5. Ascends(c)
  BY <1>1, <1>4 DEF Ascends
<1>6. ToSet(c) = ToSet(a) \cup ToSet(b)
  <2>1. ASSUME NEW f \in ToSet(c) PROVE f \in ToSet(a) \cup ToSet(b)
    <3>1. PICK n \in 1 .. M + N : f = c[n]
      BY <1>1 DEF ToSet
    <3>2. QED
      BY <1>1, <1>2, <1>3, <3>1
  <2>2. ASSUME NEW f \in ToSet(a) PROVE f \in ToSet(c)
    <3>1. PICK n \in 1 .. M : f = a[n]
      BY <1>1 DEF ToSet
    <3>2. n \in 1 .. M + N /\ c[n] = f
      BY <1>1, <3>1
    <3>3. QED
      BY <1>1, <3>2 DEF ToSet
  <2>3. ASSUME NEW f \in ToSet(b) PROVE f \in ToSet(c)
    <3>1. PICK n \in 1 .. N : f = b[n]
      BY <1>1 DEF ToSet
    <3>2. M + n \in 1 .. M + N /\ c[M + n] = f
      BY <1>1, <3>1
    <3>3. QED
      BY <1>1, <3>2 DEF ToSet
  <2>4. QED
    BY <2>1, <2>2, <2>3
<1>7. QED
  BY <1>1, <1>5, <1>6 DEF c

\* F leads from good values to good values, n counts its steps.
Carries(good, F, S, N) ==
  \A n \in 1 .. N : \A x \in S : <<n - 1, x>> \in good => <<n, F[n][x]>> \in good
\* A sequence of values that F leads to.
Follows(g, F, base, S, N) ==
  g[0] = base /\ \A n \in 1 .. N : g[n - 1] \in S => g[n] = F[n][g[n - 1]]

\* A step that leads from good values to good values can be taken again and again, and
\* every value it leads to is good.
LEMMA GoodIteration ==
  ASSUME NEW S, NEW base \in S, NEW N \in Nat, NEW F,
         NEW good \in SUBSET ((0 .. N) \X S), <<0, base>> \in good, Carries(good, F, S, N)
  PROVE  /\ \E f \in [0 .. N -> S] : Follows(f, F, base, S, N)
         /\ \A g : Follows(g, F, base, S, N) => \A n \in 0 .. N : <<n, g[n]>> \in good
<1>0. \A n \in 1 .. N, x \in S : <<n - 1, x>> \in good => <<n, F[n][x]>> \in good
  BY DEF Carries
<1>1. ASSUME NEW g, g[0] = base,
             \A n \in 1 .. N : <<n - 1, g[n - 1]>> \in good => g[n] = F[n][g[n - 1]]
      PROVE  \A n \in 0 .. N : <<n, g[n]>> \in good
  <2> DEFINE P == {n \in 0 .. N : <<n, g[n]>> \in good}
  <2>1. 0 \in P
    BY <1>1
  <2>2. ASSUME NEW n \in 1 .. N, n - 1 \in P PROVE n \in P
    <3>1. <<n - 1, g[n - 1]>> \in good
      BY <2>2
    <3>2. g[n - 1] \in S
      BY <3>1
    <3>3. <<n, F[n][g[n - 1]]>> \in good
      BY <1>0, <3>1, <3>2
    <3>4. QED
      BY <1>1, <3>1, <3>3
  <2>3. P \in SUBSET (0 .. N)
    OBVIOUS
  <2> HIDE DEF P
  <2>4. P = 0 .. N
    BY ONLY <2>1, <2>2, <2>3, UpTo, N \in Nat
  <2>5. QED
    BY <2>4 DEF P
<1>2. \E f \in [0 .. N -> S] : f[0] = base /\ \A n \in 1 .. N : f[n] = F[n][f[n - 1]]
  <2> DEFINE G == [n \in 1 .. N |-> [x \in S |-> IF F[n][x] \in S THEN F[n][x] ELSE base]]
  <2>1. G \in [1 .. N -> [S -> S]]
    OBVIOUS
  <2>2. \A n \in 1 .. N, x \in S : F[n][x] \in S => G[n][x] = F[n][x]
    OBVIOUS
  <2> HIDE DEF G
  <2>3. PICK f \in [0 .. N -> S] : f[0] = base /\ \A n \in 1 .. N : f[n] = G[n][f[n - 1]]
    BY ONLY <2>1, base \in S, N \in Nat, Iteration
  <2>4. ASSUME NEW n \in 1 .. N, <<n - 1, f[n - 1]>> \in good PROVE f[n] = F[n][f[n - 1]]
    <3>1. f[n - 1] \in S
      BY <2>4
    <3>2. <<n, F[n][f[n - 1]]>> \in good
      BY <1>0, <2>4, <3>1
    <3>3. F[n][f[n - 1]] \in S
      BY <3>2
    <3>4. QED
      BY <2>2, <2>3, <3>1, <3>3
  <2>5. \A n \in 0 .. N : <<n, f[n]>> \in good
    BY <1>1, <2>3, <2>4
  <2>6. \A n \in 1 .. N : f[n] = F[n][f[n - 1]]
    <3>1. TAKE n \in 1 .. N
    <3>2. n - 1 \in 0 .. N
      OBVIOUS
    <3>3. QED
      BY <2>4, <2>5, <3>2
  <2>7. QED
    BY <2>3, <2>6
<1>3. ASSUME NEW g, g[0] = base, \A n \in 1 .. N : g[n - 1] \in S => g[n] = F[n][g[n - 1]]
      PROVE  \A n \in 0 .. N : <<n, g[n]>> \in good
  <2>1. \A n \in 1 .. N : <<n - 1, g[n - 1]>> \in good => g[n - 1] \in S
    OBVIOUS
  <2>2. \A n \in 1 .. N : <<n - 1, g[n - 1]>> \in good => g[n] = F[n][g[n - 1]]
    BY <1>3, <2>1
  <2>3. QED
    BY <1>1, <1>3, <2>2
<1>4. QED
  BY <1>2, <1>3 DEF Follows

\* A batch that is encoded stays in step.
LEMMA EncodedInStep ==
  ASSUME NEW Q, NEW o, NEW d, InStep(d, Q, o)
  PROVE  /\ InStep(Encoded(d), Q, o) /\ Encoded(d).held = d.held /\ Encoded(d).frames = <<>>
<1> DEFINE N == Len(d.frames)
           g == [n \in 1 .. N |->
                   [d.frames[n] EXCEPT !.sync = d.frames[n].sync \/ (d.encoded = <<>> /\ n = 1)]]
           e == Encoded(d)
<1>1. /\ d \in SessionType(Q) /\ d.pending = d.held
      /\ \A p \in d.held : p.offset <= o
      /\ \A f \in FramesOf(d) : /\ Timely(f, d, Q, o)
                                /\ \E p \in Q \ d.held : p.offset = f.picture /\ p.offset <= o
      /\ \A p \in Q \ d.held : p.offset <= o => \E f \in FramesOf(d) : f.picture = p.offset
      /\ Ascends(d.encoded) /\ Ascends(d.frames)
      /\ \A f \in ToSet(d.encoded), h \in ToSet(d.frames) : f.at < h.at
      /\ d.encoded # <<>> => d.encoded[1].sync
  BY DEF InStep
<1>2. d.frames \in Seq(FrameType) /\ d.encoded \in Seq(FrameType)
  BY <1>1 DEF SessionType
<1>3. N \in Nat /\ DOMAIN d.frames = 1 .. N /\ \A n \in 1 .. N : d.frames[n] \in FrameType
  BY <1>2
<1>4. e = [d EXCEPT !.frames = <<>>, !.encoded = d.encoded \o g]
  <2>1. InOrder(d.frames) = d.frames
    BY <1>1, <1>2, AscendingStay
  <2>2. QED
    BY <1>3, <2>1 DEF Encoded
<1>5. ASSUME NEW n \in 1 .. N
      PROVE  /\ g[n] \in FrameType /\ g[n].at = d.frames[n].at /\ g[n].due = d.frames[n].due
             /\ g[n].picture = d.frames[n].picture
             /\ d.encoded = <<>> /\ n = 1 => g[n].sync
  BY <1>3 DEF FrameType
<1>6. g \in Seq(FrameType) /\ DOMAIN g = 1 .. N /\ Len(g) = N
  <2>1. g \in [1 .. N -> FrameType]
    BY <1>5
  <2> HIDE DEF g, N
  <2>2. QED
    BY <1>3, <2>1
<1> HIDE DEF g, e, N
<1>7. Ascends(g)
  BY <1>1, <1>3, <1>5, <1>6 DEF Ascends
<1>8. /\ \A n \in 1 .. N : d.frames[n] \in ToSet(d.frames) /\ g[n] \in ToSet(g)
      /\ \A f \in ToSet(g) : \E n \in 1 .. N : f = g[n]
      /\ \A f \in ToSet(d.frames) : \E n \in 1 .. N : f = d.frames[n]
  BY <1>3, <1>6 DEF ToSet
<1>9. \A f \in ToSet(d.encoded), h \in ToSet(g) : f.at < h.at
  BY <1>1, <1>5, <1>8
<1> DEFINE encoded == d.encoded \o g
<1>10. encoded \in Seq(FrameType) /\ Ascends(encoded) /\ ToSet(encoded) = ToSet(d.encoded) \cup ToSet(g)
  BY <1>1, <1>2, <1>6, <1>7, <1>9, ConcatAscends
<1>11. encoded # <<>> => encoded[1].sync
  <2>1. CASE d.encoded = <<>>
    <3>1. encoded = g
      BY <1>6, <2>1
    <3>2. g # <<>> => 1 \in 1 .. N
      BY <1>3, <1>6
    <3>3. QED
      BY <1>5, <2>1, <3>1, <3>2
  <2>2. CASE d.encoded # <<>>
    <3>1. encoded[1] = d.encoded[1]
      BY <1>2, <1>6, <2>2
    <3>2. QED
      BY <1>1, <2>2, <3>1
  <2>3. QED
    BY <2>1, <2>2
<1> HIDE DEF encoded
<1>12. /\ e \in SessionType(Q) /\ e.held = d.held /\ e.pending = d.pending
       /\ e.frames = <<>> /\ e.encoded = encoded
  <2>1. <<>> \in Seq(FrameType)
    OBVIOUS
  <2>2. e = [d EXCEPT !.frames = <<>>, !.encoded = encoded]
    BY <1>4 DEF encoded
  <2>3. QED
    BY <1>1, <1>10, <2>1, <2>2 DEF SessionType
<1>13. Ascends(e.frames) /\ ToSet(e.frames) = {}
  BY <1>12 DEF Ascends, ToSet
<1>14. FramesOf(e) = ToSet(d.encoded) \cup ToSet(g)
  BY <1>10, <1>12, <1>13 DEF FramesOf
<1>15. ASSUME NEW f \in FramesOf(e)
       PROVE  \E h \in FramesOf(d) : f.at = h.at /\ f.due = h.due /\ f.picture = h.picture
  <2>1. CASE f \in ToSet(d.encoded)
    BY <2>1 DEF FramesOf
  <2>2. CASE f \in ToSet(g)
    BY <1>5, <1>8, <2>2 DEF FramesOf
  <2>3. QED
    BY <1>14, <2>1, <2>2
<1>16. ASSUME NEW h \in FramesOf(d) PROVE \E f \in FramesOf(e) : f.picture = h.picture
  <2>1. CASE h \in ToSet(d.encoded)
    BY <1>14, <2>1
  <2>2. CASE h \in ToSet(d.frames)
    BY <1>5, <1>8, <1>14, <2>2
  <2>3. QED
    BY <2>1, <2>2 DEF FramesOf
<1>17. \A f \in FramesOf(e) : /\ Timely(f, e, Q, o)
                              /\ \E p \in Q \ e.held : p.offset = f.picture /\ p.offset <= o
  <2>1. TAKE f \in FramesOf(e)
  <2>2. PICK h \in FramesOf(d) : f.at = h.at /\ f.due = h.due /\ f.picture = h.picture
    BY <1>15
  <2>3. /\ Timely(h, d, Q, o)
        /\ \E p \in Q \ d.held : p.offset = h.picture /\ p.offset <= o
    BY <1>1
  <2>4. QED
    BY <1>12, <2>2, <2>3 DEF Timely
<1>18. \A p \in Q \ e.held : p.offset <= o => \E f \in FramesOf(e) : f.picture = p.offset
  <2>1. TAKE p \in Q \ e.held
  <2>2. HAVE p.offset <= o
  <2>3. PICK h \in FramesOf(d) : h.picture = p.offset
    BY <1>1, <1>12, <2>2
  <2>4. QED
    BY <1>16, <2>3
<1>19. InStep(e, Q, o)
  BY <1>1, <1>10, <1>11, <1>12, <1>13, <1>17, <1>18 DEF InStep
<1>20. QED
  BY <1>12, <1>19 DEF e

\* Draining returns every picture that is held.
LEMMA DrainedInStep ==
  ASSUME NEW s, NEW Q, Distinct(Q), NEW o \in Nat, NEW d, InStep(d, Q, o),
         \A q \in Q : q.offset <= o
  PROVE  InStep(Drained(d, s), Q, o) /\ Drained(d, s).held = {}
<1> DEFINE N == Cardinality(d.held)
           S == SessionType(Q)
           Left(x, n) == InStep(x, Q, o) /\ IsFiniteSet(x.held) /\ Cardinality(x.held) = N - n
           good == {c \in (0 .. N) \X S : Left(c[2], c[1])}
           F == [n \in 1 .. N |-> [x \in S |-> Returned(x, s)]]
           Is(f) == f = [n \in 0 .. N |-> IF n = 0 THEN d ELSE Returned(f[n - 1], s)]
           after == CHOOSE f : Is(f)
<1>1. Drained(d, s) = after[N]
  BY DEF Drained
<1>2. d \in S /\ d.held \in SUBSET Q /\ IsFiniteSet(Q) /\ \A q \in Q : q.offset \in Nat
  BY DEF InStep, SessionType, Distinct, PictureLike
<1>3. IsFiniteSet(d.held) /\ N \in Nat
  <2>1. IsFiniteSet(d.held)
    BY <1>2, FS_Subset
  <2>2. QED
    BY <2>1, FS_CardinalityType
<1>4. Left(d, 0)
  BY <1>3
<1>5. ASSUME NEW n \in 1 .. N, NEW x \in S, Left(x, n - 1) PROVE Returned(x, s) \in S /\ Left(Returned(x, s), n)
  <2> DEFINE r == Returned(x, s)
  <2>1. x.held # {}
    <3>1. ASSUME x.held = {} PROVE FALSE
      <4>1. Cardinality(x.held) = 0
        BY <3>1, FS_EmptySet
      <4>2. Cardinality(x.held) = N - (n - 1)
        BY <1>5
      <4> HIDE DEF N
      <4>3. QED
        BY <1>3, <4>1, <4>2
    <3>2. QED
      BY <3>1
  <2>2. \A q \in Q : q.offset > o => Earliest(x.held).pts < q.pts
    BY <1>2
  <2>3. /\ InStep(r, Q, o) /\ Earliest(x.held) \in x.held
        /\ r.held = x.held \ {Earliest(x.held)}
    BY <1>5, <2>1, <2>2, ReturnedInStep
  <2> HIDE DEF r
  <2>4. IsFiniteSet(r.held) /\ Cardinality(r.held) = Cardinality(x.held) - 1
    BY <1>5, <2>3, FS_RemoveElement
  <2>5. Cardinality(x.held) = N - (n - 1)
    BY <1>5
  <2>6. r \in S
    BY <2>3 DEF InStep
  <2> HIDE DEF N
  <2>7. Cardinality(r.held) = N - n
    BY <1>3, <2>4, <2>5
  <2>8. QED
    BY <2>3, <2>4, <2>6, <2>7 DEF r
<1> HIDE DEF N, Left, S
<1>6. good \in SUBSET ((0 .. N) \X S)
  OBVIOUS
<1>6a. <<0, d>> \in good
  BY <1>2, <1>3, <1>4
<1>6b. N \in Nat
  BY <1>3
<1>7. \A n \in 1 .. N, x \in S : F[n][x] = Returned(x, s)
  OBVIOUS
<1>8. \A n \in 1 .. N, x \in S : <<n - 1, x>> \in good => <<n, F[n][x]>> \in good
  <2>1. TAKE n \in 1 .. N, x \in S
  <2>2. HAVE <<n - 1, x>> \in good
  <2>3. Left(x, n - 1)
    BY <2>2
  <2>4. QED
    BY <1>5, <1>7, <2>3
<1>9. \A n, x : <<n, x>> \in good => x \in S /\ Left(x, n)
  OBVIOUS
<1> HIDE DEF F, good
<1>10. d \in S
  BY <1>2
<1>10a. Carries(good, F, S, N)
  BY <1>8 DEF Carries
<1>11. /\ \E f \in [0 .. N -> S] : Follows(f, F, d, S, N)
       /\ \A g : Follows(g, F, d, S, N) => \A n \in 0 .. N : <<n, g[n]>> \in good
  BY ONLY <1>6, <1>6a, <1>6b, <1>10, <1>10a, GoodIteration
<1>12. \A n \in 1 .. N : n - 1 \in 0 .. N
  BY <1>3
<1>13. Is(after)
  <2>1. PICK f \in [0 .. N -> S] : Follows(f, F, d, S, N)
    BY <1>11
  <2>2. f[0] = d /\ \A n \in 1 .. N : f[n] = Returned(f[n - 1], s)
    BY <1>7, <1>12, <2>1 DEF Follows
  <2>3. f = [n \in 0 .. N |-> IF n = 0 THEN d ELSE Returned(f[n - 1], s)]
    BY <1>3, <2>2
  <2>4. QED
    BY <2>3
<1> HIDE DEF after
<1>14. after[0] = d /\ \A n \in 1 .. N : after[n] = Returned(after[n - 1], s)
  BY <1>3, <1>13
<1>15. \A n \in 0 .. N : after[n] \in S /\ Left(after[n], n)
  <2>1. \A n \in 1 .. N : after[n - 1] \in S => after[n] = F[n][after[n - 1]]
    BY <1>7, <1>14
  <2>1a. Follows(after, F, d, S, N)
    BY <1>14, <2>1 DEF Follows
  <2>2. \A n \in 0 .. N : <<n, after[n]>> \in good
    BY <1>11, <2>1a
  <2>3. QED
    BY <1>9, <2>2
<1>16. QED
  <2>1. N \in 0 .. N
    BY <1>3
  <2>2. InStep(after[N], Q, o) /\ IsFiniteSet(after[N].held) /\ Cardinality(after[N].held) = 0
    BY <1>3, <1>15, <2>1 DEF Left
  <2>3. after[N].held = {}
    BY <2>2, FS_EmptySet
  <2>4. QED
    BY <1>1, <2>2, <2>3

\* The decoder is new, or it has had pictures before these.
Continues(v, lo) ==
  IF v.completed = None THEN v.since = None ELSE v.since \in 1 .. lo - 1
\* Pictures without references, to a decoder that has had those since one.
Lacking(s, since) == {n \in DOMAIN s.leading : s.leading[n] <= since}

\* What is skipped is what lacks references.
LEMMA SkipsLacking ==
  ASSUME NEW s \in Sources, NEW packets, NEW lo, NEW hi, Segment(s, packets, lo, hi),
         NEW v, Continues(v, lo), NEW n \in 1 .. hi - lo + 1
  PROVE  LET since == DecodesSince(v, packets)
         IN  /\ since \in 1 .. lo
             /\ Skips(s, v, packets, n) <=> lo + n - 1 \in Lacking(s, since)
             /\ ~Skips(s, v, packets, n) => HasReferences(s, since, packets[n])
<1> DEFINE all == AllPictures(s)
           since == DecodesSince(v, packets)
           o == lo + n - 1
           k == s.leading[o]
           keys == Keys(packets, n)
<1>1. /\ lo \in 1 .. s.pictures /\ hi \in lo .. s.pictures /\ all[lo].key
      /\ Len(packets) = hi - lo + 1 /\ DOMAIN packets = 1 .. hi - lo + 1
      /\ \A m \in 1 .. hi - lo + 1 : Depicts(s, packets[m], lo + m - 1)
  BY DEF Segment
<1>2. lo \in Nat /\ hi \in Nat /\ n \in Nat /\ lo > 0 /\ n > 0 /\ n <= hi - lo + 1 /\ o \in Nat
      /\ lo <= o
  <2>1. s.pictures \in Nat
    BY SourcesAssumption
  <2>2. QED
    BY <1>1, <2>1
<1>3. packets[n].offset = o
  BY <1>1 DEF Depicts
<1>4. packets[1].offset = lo /\ packets[1].key
  <2>1. 1 \in 1 .. hi - lo + 1 /\ lo + 1 - 1 = lo
    BY <1>1, <1>2
  <2>2. Depicts(s, packets[1], lo)
    BY <1>1, <2>1
  <2>3. QED
    BY <1>1, <2>2 DEF Depicts
<1>5. IF v.completed = None THEN since = lo ELSE since \in 1 .. lo - 1
  BY <1>2, <1>4 DEF Continues, DecodesSince, None
<1>6. ASSUME o \in DOMAIN s.leading
      PROVE  k \in lo .. o - 1 /\ all[k].key /\ \A m \in k + 1 .. o : ~all[m].key
  <2>1. LeadsUpTo(all, k, o)
    BY <1>6, PicturesAssumption
  <2>2. k \in 1 .. o - 1 /\ all[k].key /\ \A m \in k + 1 .. o : ~all[m].key
    BY <2>1 DEF LeadsUpTo
  <2> HIDE DEF k, o, all
  <2>3. ~(lo \in k + 1 .. o)
    BY <1>1, <2>2
  <2>4. QED
    BY <1>2, <2>2, <2>3
<1>7. /\ \A m \in 1 .. n : m \in keys <=> all[lo + m - 1].key
      /\ keys \in SUBSET (1 .. n) /\ 1 \in keys
  <2>1. keys = {m \in 1 .. n : packets[m].key}
    BY DEF Keys
  <2>2. ASSUME NEW m \in 1 .. n PROVE packets[m].key = all[lo + m - 1].key
    <3>1. m \in 1 .. hi - lo + 1
      BY <1>2
    <3>2. QED
      BY <1>1, <3>1 DEF Depicts
  <2>3. 1 \in 1 .. n
    BY <1>2
  <2> HIDE DEF keys
  <2>4. QED
    BY <1>4, <2>1, <2>2, <2>3
<1> HIDE DEF keys, all, since, k
<1>8. IsFiniteSet(keys) /\ Cardinality(keys) \in Nat /\ Cardinality(keys) > 0
  <2>1. IsFiniteSet(1 .. n)
    BY <1>2, FS_Interval
  <2>2. IsFiniteSet(keys)
    BY <1>7, <2>1, FS_Subset
  <2>3. Cardinality(keys) \in Nat
    BY <2>2, FS_CardinalityType
  <2>4. Cardinality(keys) # 0
    BY <1>7, <2>2, FS_EmptySet
  <2>5. QED
    BY <2>2, <2>3, <2>4
<1>9. ASSUME o \in DOMAIN s.leading PROVE Cardinality(keys) <= 1 <=> k = lo
  <2>1. k \in lo .. o - 1 /\ all[k].key /\ \A m \in k + 1 .. o : ~all[m].key
    BY <1>6, <1>9
  <2>2. ASSUME k = lo PROVE Cardinality(keys) = 1
    <3>1. ASSUME NEW m \in keys PROVE m = 1
      <4>1. m \in 1 .. n /\ all[lo + m - 1].key
        BY <1>7
      <4>2. ~(lo + m - 1 \in lo + 1 .. o)
        BY <2>1, <2>2, <4>1
      <4>3. QED
        BY <1>2, <4>1, <4>2
    <3>2. keys = {1}
      BY <1>7, <3>1
    <3>3. QED
      BY <3>2, FS_Singleton
  <2>3. ASSUME Cardinality(keys) <= 1 PROVE k = lo
    <3>1. Cardinality(keys) = 1
      BY <1>8, <2>3
    <3>2. PICK x : keys = {x}
      BY <1>8, <3>1, FS_Singleton
    <3> DEFINE m == k - lo + 1
    <3>3. m \in 1 .. n /\ lo + m - 1 = k
      BY <1>2, <2>1
    <3>4. m \in keys
      BY <1>7, <2>1, <3>3
    <3> HIDE DEF m
    <3>5. m = 1
      BY <1>7, <3>2, <3>4
    <3>6. QED
      BY <1>2, <2>1, <3>3, <3>5
  <2>4. QED
    BY <2>2, <2>3
<1>10. Skips(s, v, packets, n)
         <=> v.completed = None /\ o \in DOMAIN s.leading /\ Cardinality(keys) <= 1
  BY <1>3 DEF Skips, keys
<1>11. HasReferences(s, since, packets[n]) <=> (o \in DOMAIN s.leading => k > since)
  BY <1>3 DEF HasReferences, k
<1>12. o \in Lacking(s, since) <=> o \in DOMAIN s.leading /\ k <= since
  BY DEF Lacking, k
<1>13. since \in 1 .. lo
  BY <1>2, <1>5
<1> HIDE DEF o
<1>14. o \in DOMAIN s.leading => k \in Nat /\ lo <= k
  BY <1>2, <1>6
<1>15. CASE v.completed = None
  BY <1>2, <1>5, <1>9, <1>10, <1>11, <1>12, <1>13, <1>14, <1>15 DEF since, o
<1>16. CASE v.completed # None
  BY <1>2, <1>5, <1>10, <1>11, <1>12, <1>13, <1>14, <1>16 DEF since, o
<1>17. QED
  BY <1>15, <1>16

\* A packet that is skipped changes nothing.
LEMMA SkippedInStep ==
  ASSUME NEW Q, Distinct(Q), NEW o \in Int, NEW d, InStep(d, Q, o),
         \A q \in Q : q.offset # o + 1
  PROVE  InStep(d, Q, o + 1)
<1> DEFINE N == o + 1
<1>1. \A q \in Q : q.offset \in Nat
  BY DEF Distinct, PictureLike
<1>2. \A q \in Q : (q.offset <= N <=> q.offset <= o) /\ (q.offset > N <=> q.offset > o)
  BY <1>1
<1> HIDE DEF N
<1>3. d.held \in SUBSET Q
  BY DEF InStep, SessionType
<1>4. InStep(d, Q, N)
  <2>1. \A p \in d.held : p.offset <= N
    BY <1>2, <1>3 DEF InStep
  <2>2. \A f \in FramesOf(d) : /\ Timely(f, d, Q, N)
                               /\ \E p \in Q \ d.held : p.offset = f.picture /\ p.offset <= N
    <3>1. TAKE f \in FramesOf(d)
    <3>2. Timely(f, d, Q, o) /\ \E p \in Q \ d.held : p.offset = f.picture /\ p.offset <= o
      BY DEF InStep
    <3>3. Timely(f, d, Q, N)
      BY <1>2, <3>2 DEF Timely
    <3>4. QED
      BY <1>2, <3>2, <3>3
  <2>3. \A p \in Q \ d.held : p.offset <= N => \E f \in FramesOf(d) : f.picture = p.offset
    BY <1>2 DEF InStep
  <2>4. QED
    BY <2>1, <2>2, <2>3 DEF InStep
<1>5. QED
  BY <1>4 DEF N

\* The packets of a segment that are not skipped.
SentOf(s, v, packets) ==
  {packets[n] : n \in {m \in DOMAIN packets : ~Skips(s, v, packets, m)}}

\* They are told apart, and pictures of the source.
LEMMA SentAre ==
  ASSUME NEW s \in Sources, NEW packets, NEW lo, NEW hi, Segment(s, packets, lo, hi), NEW v
  PROVE  Distinct(SentOf(s, v, packets)) /\ Tracked(s, SentOf(s, v, packets))
<1> DEFINE all == AllPictures(s)
           Q == SentOf(s, v, packets)
           number == [q \in Q |-> q.offset]
<1>1. /\ lo \in 1 .. s.pictures /\ hi \in lo .. s.pictures
      /\ DOMAIN packets = 1 .. hi - lo + 1
      /\ \A m \in 1 .. hi - lo + 1 : Depicts(s, packets[m], lo + m - 1)
  BY DEF Segment
<1>2. /\ s.pictures \in Nat /\ DOMAIN all = 1 .. s.pictures
      /\ \A n \in 1 .. s.pictures : PictureLike(all[n])
  BY AllPicturesAre
<1>3. \A m, n \in 1 .. s.pictures : m # n => all[m].pts # all[n].pts
  BY <1>2, PicturesAssumption
<1> HIDE DEF all
<1>4. \A m \in 1 .. hi - lo + 1 : lo + m - 1 \in 1 .. s.pictures
  BY <1>1, <1>2
<1>5. ASSUME NEW q \in Q
      PROVE  /\ q.offset \in 1 .. s.pictures /\ q.offset - lo + 1 \in 1 .. hi - lo + 1
             /\ q = packets[q.offset - lo + 1]
             /\ q.pts = all[q.offset].pts /\ q.key = all[q.offset].key
  <2>1. PICK n \in 1 .. hi - lo + 1 : q = packets[n]
    BY <1>1 DEF SentOf
  <2>2. q.offset = lo + n - 1 /\ q.pts = all[q.offset].pts /\ q.key = all[q.offset].key
    BY <1>1, <2>1 DEF Depicts, all
  <2>3. q.offset - lo + 1 = n
    BY <1>1, <1>2, <2>2
  <2>4. QED
    BY <1>4, <2>1, <2>2, <2>3
<1>6. \A q \in Q : PictureLike(q)
  <2>1. TAKE q \in Q
  <2>2. PictureLike(all[q.offset]) /\ q.offset \in Nat
    BY <1>2, <1>5
  <2>3. QED
    BY <1>5, <2>2 DEF PictureLike
<1>7. \A p, q \in Q : p # q => p.offset # q.offset /\ p.pts # q.pts
  <2>1. TAKE p, q \in Q
  <2>2. HAVE p # q
  <2>3. p.offset # q.offset
    BY <1>5, <2>2
  <2>4. QED
    BY <1>3, <1>5, <2>3
<1>8. IsFiniteSet(Q)
  <2>1. number \in [Q -> 1 .. s.pictures] /\ \A p, q \in Q : number[p] = number[q] => p = q
    BY <1>5, <1>7
  <2> HIDE DEF Q, number
  <2> DEFINE T == 1 .. s.pictures
  <2>2. number \in Injection(Q, T)
    BY <2>1 DEF Injection, IsInjective
  <2>3. IsFiniteSet(T)
    BY <1>2, FS_Interval
  <2> HIDE DEF T
  <2>4. QED
    BY <2>2, <2>3, FS_Injection
<1>9. Tracked(s, Q)
  BY <1>2, <1>5 DEF Tracked, all
<1>10. QED
  BY <1>6, <1>7, <1>8, <1>9 DEF Distinct

\* A packet of a segment: the session stays in step, and it holds nothing at the end.
LEMMA StepInStep ==
  ASSUME NEW s \in Sources, NEW packets, NEW lo, NEW hi, Segment(s, packets, lo, hi),
         NEW v, Continues(v, lo), NEW n \in 1 .. hi - lo + 1,
         NEW d, InStep(d, SentOf(s, v, packets), lo + n - 2), Cardinality(d.held) <= s.hold
  PROVE  LET x == Stepped(d, s, v, packets, n)
         IN  /\ InStep(x, SentOf(s, v, packets), lo + n - 1) /\ Cardinality(x.held) <= s.hold
             /\ n = hi - lo + 1 => x.held = {} /\ x.frames = <<>>
<1> DEFINE Q == SentOf(s, v, packets)
           before == lo + n - 2
           o == lo + n - 1
           p == packets[n]
           sent == IF Skips(s, v, packets, n) THEN d
                   ELSE Sent(d, s, p, HasReferences(s, DecodesSince(v, packets), p))
           x == Stepped(d, s, v, packets, n)
<1>1. /\ lo \in 1 .. s.pictures /\ hi \in lo .. s.pictures
      /\ Len(packets) = hi - lo + 1 /\ DOMAIN packets = 1 .. hi - lo + 1
      /\ \A m \in 1 .. hi - lo + 1 : Depicts(s, packets[m], lo + m - 1)
  BY DEF Segment
<1>2. /\ lo \in Nat /\ hi \in Nat /\ lo > 0 /\ n \in Nat /\ n > 0
      /\ before \in Nat /\ o \in Nat /\ o = before + 1 /\ s.pictures \in Nat
  <2>1. s.pictures \in Nat
    BY SourcesAssumption
  <2>2. QED
    BY <1>1, <2>1
<1>3. Distinct(Q) /\ Tracked(s, Q)
  BY SentAre
<1>4. s.hold \in Nat
  BY PicturesAssumption
<1>5. \A q \in Q : q.offset <= hi
  <2>1. TAKE q \in Q
  <2>2. PICK m \in 1 .. hi - lo + 1 : q = packets[m]
    BY <1>1 DEF SentOf
  <2>3. q.offset = lo + m - 1
    BY <1>1, <2>2 DEF Depicts
  <2>4. QED
    BY <1>2, <2>3
<1>6. x = IF n = hi - lo + 1 THEN Encoded(Drained(sent, s))
          ELSE IF n % s.batch = 0 THEN Encoded(sent) ELSE sent
  BY <1>1 DEF Stepped
<1>7. InStep(d, Q, before)
  OBVIOUS
<1> HIDE DEF Q, before, x
<1>8. InStep(sent, Q, o) /\ Cardinality(sent.held) <= s.hold
  <2>1. CASE Skips(s, v, packets, n)
    <3>1. ASSUME NEW q \in Q PROVE q.offset # before + 1
      <4>1. PICK m \in 1 .. hi - lo + 1 : q = packets[m] /\ ~Skips(s, v, packets, m)
        BY <1>1 DEF SentOf, Q
      <4>2. q.offset = lo + m - 1
        BY <1>1, <4>1 DEF Depicts
      <4>3. m # n
        BY <2>1, <4>1
      <4>4. QED
        BY <1>2, <4>2, <4>3
    <3>2. InStep(d, Q, before + 1)
      BY <1>2, <1>3, <1>7, <3>1, SkippedInStep
    <3>3. QED
      BY <1>2, <2>1, <3>2
  <2>2. CASE ~Skips(s, v, packets, n)
    <3>1. p \in Q
      BY <1>1, <2>2 DEF SentOf, Q
    <3>2. p.offset = before + 1
      BY <1>1, <1>2 DEF Depicts
    <3>3. HasReferences(s, DecodesSince(v, packets), p) = TRUE
      <4>1. HasReferences(s, DecodesSince(v, packets), p)
        BY <2>2, SkipsLacking
      <4>2. HasReferences(s, DecodesSince(v, packets), p) \in BOOLEAN
        BY DEF HasReferences
      <4>3. QED
        BY <4>1, <4>2
    <3>4. sent = Sent(d, s, p, TRUE)
      BY <2>2, <3>3
    <3> HIDE DEF sent, p
    <3>5. InStep(Sent(d, s, p, TRUE), Q, before + 1) /\ Cardinality(Sent(d, s, p, TRUE).held) <= s.hold
      BY <1>2, <1>3, <1>7, <3>1, <3>2, SentInStep
    <3>6. QED
      BY <1>2, <3>4, <3>5
  <2>3. QED
    BY <2>1, <2>2
<1> HIDE DEF sent
<1>9. CASE n = hi - lo + 1
  <2> DEFINE drained == Drained(sent, s)
  <2>1. \A q \in Q : q.offset <= o
    BY <1>2, <1>5, <1>9
  <2>2. InStep(drained, Q, o) /\ drained.held = {}
    BY <1>2, <1>3, <1>8, <2>1, DrainedInStep
  <2>3. x = Encoded(drained)
    BY <1>6, <1>9
  <2> HIDE DEF drained
  <2>4. InStep(x, Q, o) /\ x.held = {} /\ x.frames = <<>>
    BY <2>2, <2>3, EncodedInStep
  <2>5. Cardinality(x.held) <= s.hold
    BY <1>4, <2>4, FS_EmptySet
  <2>6. QED
    BY <2>4, <2>5 DEF Q, x
<1>10. CASE n # hi - lo + 1
  <2>1. InStep(Encoded(sent), Q, o) /\ Encoded(sent).held = sent.held
    BY <1>8, EncodedInStep
  <2>2. x = sent \/ x = Encoded(sent)
    BY <1>6, <1>10
  <2>3. InStep(x, Q, o) /\ Cardinality(x.held) <= s.hold
    BY <1>8, <2>1, <2>2
  <2>4. QED
    BY <1>10, <2>3 DEF Q, x
<1>11. QED
  BY <1>9, <1>10

\* The frames of a segment: all pictures but those that lack references, in order.
FramesShow(s, frames, since, lo, hi) ==
  /\ {f.picture : f \in ToSet(frames)} = (lo .. hi) \ Lacking(s, since)
  /\ frames # <<>> => frames[1].sync
  /\ \A n \in DOMAIN frames : frames[n].at = frames[n].due
  /\ \A n \in 2 .. Len(frames) : frames[n].at > frames[n - 1].at

\* A session whose pictures are all returned and encoded shows them.
LEMMA InStepShows ==
  ASSUME NEW s \in Sources, NEW packets, NEW lo, NEW hi, Segment(s, packets, lo, hi),
         NEW v, Continues(v, lo),
         NEW d, InStep(d, SentOf(s, v, packets), hi), d.held = {}, d.frames = <<>>
  PROVE  FramesShow(s, d.encoded, DecodesSince(v, packets), lo, hi)
<1> DEFINE Q == SentOf(s, v, packets)
           since == DecodesSince(v, packets)
           frames == d.encoded
           N == Len(frames)
<1>1. /\ lo \in 1 .. s.pictures /\ hi \in lo .. s.pictures /\ DOMAIN packets = 1 .. hi - lo + 1
      /\ \A m \in 1 .. hi - lo + 1 : Depicts(s, packets[m], lo + m - 1)
      /\ s.pictures \in Nat
  BY SourcesAssumption DEF Segment
<1>2. \A n \in 1 .. hi - lo + 1 : Skips(s, v, packets, n) <=> lo + n - 1 \in Lacking(s, since)
  BY SkipsLacking
<1> HIDE DEF since
<1>3. /\ d \in SessionType(Q) /\ Ascends(frames)
      /\ \A f \in FramesOf(d) : Timely(f, d, Q, hi) /\ \E p \in Q : p.offset = f.picture
      /\ \A p \in Q : p.offset <= hi => \E f \in FramesOf(d) : f.picture = p.offset
      /\ frames # <<>> => frames[1].sync
  BY DEF InStep
<1>4. FramesOf(d) = ToSet(frames)
  BY DEF FramesOf, ToSet
<1>5. frames \in Seq(FrameType)
  BY <1>3 DEF SessionType
<1>6. ASSUME NEW o
      PROVE  (\E p \in Q : p.offset = o) <=> o \in (lo .. hi) \ Lacking(s, since)
  <2>1. ASSUME NEW p \in Q, p.offset = o PROVE o \in (lo .. hi) \ Lacking(s, since)
    <3>1. PICK n \in 1 .. hi - lo + 1 : p = packets[n] /\ ~Skips(s, v, packets, n)
      BY <1>1 DEF SentOf
    <3>2. o = lo + n - 1
      BY <1>1, <2>1, <3>1 DEF Depicts
    <3>3. QED
      BY <1>1, <1>2, <3>1, <3>2
  <2>2. ASSUME o \in (lo .. hi) \ Lacking(s, since) PROVE \E p \in Q : p.offset = o
    <3> DEFINE n == o - lo + 1
    <3>1. n \in 1 .. hi - lo + 1 /\ lo + n - 1 = o
      BY <1>1, <2>2
    <3> HIDE DEF n
    <3>2. ~Skips(s, v, packets, n)
      BY <1>2, <2>2, <3>1
    <3>3. packets[n] \in Q
      BY <1>1, <3>1, <3>2 DEF SentOf
    <3>4. packets[n].offset = o
      BY <1>1, <3>1 DEF Depicts
    <3>5. QED
      BY <3>3, <3>4
  <2>3. QED
    BY <2>1, <2>2
<1> HIDE DEF Q
<1>7. \A p \in Q : p.offset <= hi
  <2>1. TAKE p \in Q
  <2>2. p.offset \in lo .. hi
    BY <1>6
  <2>3. QED
    BY <1>1, <2>2
<1>8. {f.picture : f \in ToSet(frames)} = (lo .. hi) \ Lacking(s, since)
  <2>1. \A f \in ToSet(frames) : f.picture \in (lo .. hi) \ Lacking(s, since)
    BY <1>3, <1>4, <1>6
  <2>2. \A o \in (lo .. hi) \ Lacking(s, since) : \E f \in ToSet(frames) : f.picture = o
    BY <1>3, <1>4, <1>6, <1>7
  <2>3. QED
    BY <2>1, <2>2
<1>9. \A n \in DOMAIN frames : frames[n].at = frames[n].due
  <2>1. TAKE n \in DOMAIN frames
  <2>2. frames[n] \in FramesOf(d)
    BY <1>4 DEF ToSet
  <2>3. QED
    BY <1>3, <2>2 DEF Timely
<1>10. \A n \in 2 .. Len(frames) : frames[n].at > frames[n - 1].at
  <2>1. TAKE n \in 2 .. Len(frames)
  <2>2. n \in DOMAIN frames /\ n - 1 \in DOMAIN frames /\ n - 1 < n
    BY <1>5
  <2>3. frames[n - 1].at < frames[n].at
    BY <1>3, <2>2 DEF Ascends
  <2>4. \A f \in FrameType : f.at \in Nat
    BY DEF FrameType
  <2>5. frames[n] \in FrameType /\ frames[n - 1] \in FrameType
    BY <1>5, <2>2
  <2>6. frames[n].at \in Nat /\ frames[n - 1].at \in Nat
    BY <2>4, <2>5
  <2>7. QED
    BY <2>3, <2>6
<1>11. QED
  BY <1>3, <1>8, <1>9, <1>10 DEF FramesShow, since

\* The frames of a segment show its pictures.
LEMMA PicturesDecoded ==
  ASSUME NEW s \in Sources, NEW packets, NEW lo, NEW hi, Segment(s, packets, lo, hi),
         NEW v, Continues(v, lo)
  PROVE  FramesShow(s, DecodedPictures(s, v, packets).encoded, DecodesSince(v, packets), lo, hi)
<1> DEFINE N == hi - lo + 1
           Q == SentOf(s, v, packets)
           S == SessionType(Q)
           Reached(x, n) == /\ InStep(x, Q, lo + n - 1) /\ Cardinality(x.held) <= s.hold
                            /\ n = N => x.held = {} /\ x.frames = <<>>
           good == {c \in (0 .. N) \X S : Reached(c[2], c[1])}
           F == [n \in 1 .. N |-> [x \in S |-> Stepped(x, s, v, packets, n)]]
           Is(f) == f = [n \in 0 .. Len(packets) |->
                           IF n = 0 THEN Opened ELSE Stepped(f[n - 1], s, v, packets, n)]
           after == CHOOSE f : Is(f)
<1>1. DecodedPictures(s, v, packets) = after[Len(packets)]
  BY DEF DecodedPictures
<1>2. /\ lo \in Nat /\ lo > 0 /\ hi \in Nat /\ Len(packets) = N /\ N \in Nat /\ N > 0
  <2>1. s.pictures \in Nat
    BY SourcesAssumption
  <2>2. QED
    BY <2>1 DEF Segment
<1>3. Opened \in S /\ Reached(Opened, 0)
  <2>1. /\ Opened.held = {} /\ Opened.pending = {} /\ Opened.frames = <<>>
        /\ Opened.encoded = <<>>
    BY DEF Opened
  <2>2. Opened \in S
    <3>1. <<>> \in Seq(FrameType)
      OBVIOUS
    <3>2. QED
      BY <3>1 DEF Opened, SessionType
  <2>3. FramesOf(Opened) = {} /\ ToSet(Opened.encoded) = {} /\ Ascends(<<>>)
    BY <2>1 DEF FramesOf, ToSet, Ascends
  <2>4. ASSUME NEW p \in Q PROVE ~(p.offset <= lo + 0 - 1)
    <3>1. PICK n \in 1 .. N : p = packets[n]
      BY DEF SentOf, Segment
    <3>2. p.offset = lo + n - 1
      BY <3>1 DEF Segment, Depicts
    <3>3. QED
      BY <1>2, <3>2
  <2>5. InStep(Opened, Q, lo + 0 - 1)
    <3> HIDE DEF Q
    <3>1. QED
      BY <2>1, <2>2, <2>3, <2>4 DEF InStep
  <2>6. Cardinality(Opened.held) <= s.hold
    <3>1. s.hold \in Nat
      BY PicturesAssumption
    <3>2. QED
      BY <2>1, <3>1, FS_EmptySet
  <2>7. QED
    BY <1>2, <2>2, <2>5, <2>6
<1>4. ASSUME NEW n \in 1 .. N, NEW x \in S, Reached(x, n - 1)
      PROVE  Stepped(x, s, v, packets, n) \in S /\ Reached(Stepped(x, s, v, packets, n), n)
  <2> DEFINE y == Stepped(x, s, v, packets, n)
  <2>1. lo + (n - 1) - 1 = lo + n - 2
    BY <1>2
  <2>2. InStep(x, Q, lo + n - 2) /\ Cardinality(x.held) <= s.hold
    BY <1>4, <2>1
  <2>3. /\ InStep(y, Q, lo + n - 1) /\ Cardinality(y.held) <= s.hold
        /\ n = N => y.held = {} /\ y.frames = <<>>
    BY <2>2, StepInStep
  <2>4. y \in S
    BY <2>3 DEF InStep
  <2>5. QED
    BY <2>3, <2>4
<1> HIDE DEF N, Reached, S
<1>5. good \in SUBSET ((0 .. N) \X S)
  OBVIOUS
<1>6. <<0, Opened>> \in good
  BY <1>2, <1>3
<1>7. \A n \in 1 .. N, x \in S : F[n][x] = Stepped(x, s, v, packets, n)
  OBVIOUS
<1>8. Carries(good, F, S, N)
  <2>1. ASSUME NEW n \in 1 .. N, NEW x \in S, <<n - 1, x>> \in good
        PROVE  <<n, F[n][x]>> \in good
    <3>1. Reached(x, n - 1)
      BY <2>1
    <3>2. QED
      BY <1>4, <1>7, <3>1
  <2>2. QED
    BY <2>1 DEF Carries
<1>9. \A n, x : <<n, x>> \in good => x \in S /\ Reached(x, n)
  OBVIOUS
<1> HIDE DEF F, good
<1>10. Opened \in S /\ N \in Nat
  BY <1>2, <1>3
<1>11. /\ \E f \in [0 .. N -> S] : Follows(f, F, Opened, S, N)
       /\ \A g : Follows(g, F, Opened, S, N) => \A n \in 0 .. N : <<n, g[n]>> \in good
  BY ONLY <1>5, <1>6, <1>8, <1>10, GoodIteration
<1>12. Is(after)
  <2>1. PICK f \in [0 .. N -> S] : Follows(f, F, Opened, S, N)
    BY <1>11
  <2>2. \A n \in 1 .. N : n - 1 \in 0 .. N
    BY <1>2
  <2>3. f[0] = Opened /\ \A n \in 1 .. N : f[n] = Stepped(f[n - 1], s, v, packets, n)
    BY <1>7, <2>1, <2>2 DEF Follows
  <2>4. f = [n \in 0 .. N |-> IF n = 0 THEN Opened ELSE Stepped(f[n - 1], s, v, packets, n)]
    BY <1>2, <2>3
  <2>5. Is(f)
    BY <1>2, <2>4
  <2>6. QED
    BY <2>5
<1> HIDE DEF after
<1>13. after[0] = Opened /\ \A n \in 1 .. N : after[n] = Stepped(after[n - 1], s, v, packets, n)
  BY <1>2, <1>12
<1>14. Follows(after, F, Opened, S, N)
  BY <1>7, <1>13 DEF Follows
<1>15. Reached(after[N], N)
  <2>1. N \in 0 .. N
    BY <1>2
  <2>2. QED
    BY <1>9, <1>11, <1>14, <2>1
<1>16. InStep(after[N], Q, hi) /\ after[N].held = {} /\ after[N].frames = <<>>
  <2>1. lo + N - 1 = hi
    BY <1>2 DEF N
  <2>2. QED
    BY <1>15, <2>1 DEF Reached
<1>17. QED
  <2>1. FramesShow(s, after[N].encoded, DecodesSince(v, packets), lo, hi)
    BY <1>16, InStepShows
  <2>2. QED
    BY <1>1, <1>2, <2>1

\* The segment the decoder has completed last is shown, and it was decoded since some
\* picture before it.
Shown(v, s, plan) ==
  LET lo == FirstPicture(s, v.completed)
      hi == LastPicture(s, v.completed)
  IN  IF v.completed = None THEN v.since = None
      ELSE /\ v.completed \in DOMAIN plan /\ v.since \in 1 .. lo /\ HasPictures(s, v.completed)
           /\ v.frames # <<>> /\ FramesShow(s, v.frames, v.since, lo, hi)

\* The fragments of the video pipeline are those of the run its segment has.
VideoShown == PicturesRun /\ Shown(video, source, chunks)

\* A prepared decoder is new, or it has had pictures before the segment's.
LEMMA PreparedContinues ==
  ASSUME NEW s \in Sources, NEW v, Shown(v, s, SegmentPlan(s)), NEW i \in DOMAIN SegmentPlan(s),
         HasPictures(s, i)
  PROVE  Continues(PreparedVideo(v, i), FirstPicture(s, i))
<1> DEFINE u == PreparedVideo(v, i)
           k == v.completed
<1>1. CASE u = NewVideo
  BY <1>1 DEF Continues, NewVideo
<1>2. CASE u # NewVideo
  <2>1. u = v /\ (k = None \/ k + 1 = i)
    BY <1>2 DEF PreparedVideo
  <2>2. CASE k = None
    BY <2>1, <2>2 DEF Continues, Shown
  <2>3. CASE k # None
    <3>1. /\ k \in DOMAIN SegmentPlan(s) /\ v.since \in 1 .. FirstPicture(s, k)
          /\ HasPictures(s, k) /\ k + 1 = i
      BY <2>1, <2>3 DEF Shown
    <3>2. LastPicture(s, k) + 1 = FirstPicture(s, i)
      BY <3>1, PicturesMeet
    <3>3. FirstPicture(s, k) \in Nat /\ LastPicture(s, k) \in Nat
          /\ FirstPicture(s, k) <= LastPicture(s, k) /\ FirstPicture(s, i) \in Nat
      BY <3>1 DEF HasPictures
    <3>4. v.since \in 1 .. FirstPicture(s, i) - 1
      BY <3>1, <3>2, <3>3
    <3>5. QED
      BY <2>1, <2>3, <3>4 DEF Continues
  <2>4. QED
    BY <2>2, <2>3
<1>3. QED
  BY <1>1, <1>2

\* Every step keeps it.
LEMMA VideoShownNext == VideoShown /\ [Next]_vars => VideoShown'
<1> SUFFICES ASSUME VideoShown, [Next]_vars PROVE VideoShown'
  OBVIOUS
<1>0. /\ source \in Sources /\ chunks = SegmentPlan(source) /\ pipe \in Pipes(source)
      /\ Shown(video, source, chunks)
  BY DEF VideoShown, PicturesRun, PipeTyped, IInv
<1>1. PicturesRun'
  BY PicturesRunNext DEF VideoShown
<1>2. SUFFICES Shown(video', source', chunks')
  BY <1>1 DEF VideoShown, Shown
<1>3. Shown(NewVideo, source, chunks) /\ Shown(PoisonedVideo, source, chunks)
  BY DEF Shown, NewVideo, PoisonedVideo
<1>4. ASSUME NEW i \in DOMAIN chunks, Transcode(i) PROVE Shown(video', source', chunks')
  <2> DEFINE p == Prepared(pipe, source, i)
             v == PreparedVideo(video, i)
             c == chunks[i]
             pictures == PacketsRead(source, MediaWindows(source, p, c), c)[1]
             d == DecodedPictures(source, v, pictures)
             since == DecodesSince(v, pictures)
             done == [completed |-> i, poisoned |-> FALSE, since |-> since, frames |-> d.encoded]
  <2>1. source' = source /\ chunks' = chunks
    BY <1>4, Zenon DEF Transcode
  <2>2. \/ video' = PoisonedVideo
        \/ pictures # <<>> /\ ~VideoFails(d) /\ video' \in {done, PoisonedVideo}
    BY <1>4, Zenon DEF Transcode, Prepare, Read, Render, Finish, Complete, Refuse, Spoiled
  <2>3. ASSUME pictures # <<>>, ~VideoFails(d) PROVE Shown(done, source, chunks)
    <3> DEFINE lo == FirstPicture(source, i)
               hi == LastPicture(source, i)
    <3>1. p.rate \in {None, source.rate}
      <4>1. p \in Pipes(source)
        BY <1>0, PreparedType
      <4> HIDE DEF p
      <4>2. QED
        BY <4>1 DEF Pipes, PipeType
    <3>2. /\ i \in DOMAIN SegmentPlan(source)
          /\ pictures = PacketsRead(source, MediaWindows(source, p, SegmentPlan(source)[i]),
                                    SegmentPlan(source)[i])[1]
      BY <1>0
    <3> HIDE DEF p, pictures
    <3>3. HasPictures(source, i) /\ Segment(source, pictures, lo, hi)
      BY <1>0, <2>3, <3>1, <3>2, PicturesRead
    <3>4. Continues(v, lo)
      BY <1>0, <3>2, <3>3, PreparedContinues
    <3> HIDE DEF v
    <3>5. FramesShow(source, d.encoded, since, lo, hi)
      BY <1>0, <3>3, <3>4, PicturesDecoded
    <3>6. since \in 1 .. lo
      <4>1. 1 \in 1 .. hi - lo + 1
        <5>1. lo \in Nat /\ hi \in Nat /\ lo <= hi
          BY <3>3 DEF HasPictures
        <5>2. QED
          BY <5>1
      <4>2. QED
        BY <1>0, <3>3, <3>4, <4>1, SkipsLacking
    <3>7. d.encoded # <<>>
      BY <2>3 DEF VideoFails
    <3>8. i # None
      <4>1. chunks \in Seq(PlannedChunks)
        BY <1>0, PlanIsGapless
      <4>2. QED
        BY <4>1 DEF None
    <3> HIDE DEF d, since
    <3>9. QED
      BY <3>3, <3>5, <3>6, <3>7, <3>8 DEF Shown
  <2> HIDE DEF d, pictures, v, done
  <2>4. QED
    BY <1>3, <2>1, <2>2, <2>3
<1>5. CASE Break
  <2>1. video' = PoisonedVideo /\ source' = source /\ chunks' = chunks
    BY <1>5, Zenon DEF Break, Spoiled
  <2>2. QED
    BY <1>3, <2>1
<1>6. CASE NewWorker
  <2>1. video' = NewVideo /\ source' = source /\ chunks' = chunks
    BY <1>6, Zenon DEF NewWorker
  <2>2. QED
    BY <1>3, <2>1
<1>7. CASE UNCHANGED vars
  BY <1>0, <1>7 DEF vars
<1>8. QED
  BY <1>4, <1>5, <1>6, <1>7 DEF Next

\* It holds at first.
LEMMA VideoShownInit == Init => VideoShown
<1> SUFFICES ASSUME Init PROVE VideoShown
  OBVIOUS
<1>1. video = NewVideo
  BY DEF Init
<1>2. QED
  BY <1>1, PicturesRunInit DEF VideoShown, Shown, NewVideo

\* What is shown is what the fragments have, but for what lacks references.
LEMMA RunsShown == VideoShown => PicturesShown
<1> SUFFICES ASSUME VideoShown, video.completed # None PROVE PicturesShown
  BY DEF PicturesShown
<1> DEFINE k == video.completed
           lo == FirstPicture(source, k)
           hi == LastPicture(source, k)
           frames == video.frames
           lacking == {n \in DOMAIN source.leading : source.leading[n] <= video.since}
<1>1. /\ k \in DOMAIN chunks /\ HasPictures(source, k) /\ frames # <<>>
      /\ FramesShow(source, frames, video.since, lo, hi)
  BY DEF VideoShown, Shown
<1>2. \A a \in made[k] : a.pictures = RunOf(source, k)
  BY <1>1 DEF VideoShown, PicturesRun
<1>3. lacking = Lacking(source, video.since)
  BY DEF Lacking
<1>4. ToSet(RunOf(source, k)) = lo .. hi
  <2>1. lo \in Nat /\ hi \in Nat
    BY <1>1 DEF HasPictures
  <2>2. RunOf(source, k) = [n \in 1 .. hi - lo + 1 |-> lo + n - 1]
    BY DEF RunOf
  <2> HIDE DEF lo, hi
  <2>3. ToSet(RunOf(source, k)) = {lo + n - 1 : n \in 1 .. hi - lo + 1}
    BY <2>2 DEF ToSet
  <2>4. \A o \in lo .. hi : o - lo + 1 \in 1 .. hi - lo + 1 /\ o = lo + (o - lo + 1) - 1
    BY <2>1
  <2>5. \A n \in 1 .. hi - lo + 1 : lo + n - 1 \in lo .. hi
    BY <2>1
  <2>6. QED
    BY <2>3, <2>4, <2>5
<1>5. /\ {f.picture : f \in ToSet(frames)} = (lo .. hi) \ lacking
      /\ frames[1].sync
      /\ \A n \in DOMAIN frames : frames[n].at = frames[n].due
      /\ \A n \in 2 .. Len(frames) : frames[n].at > frames[n - 1].at
  BY <1>1, <1>3 DEF FramesShow
<1> HIDE DEF lacking, lo, hi, frames
<1>6. \A a \in made[k] : {f.picture : f \in ToSet(frames)} = ToSet(a.pictures) \ lacking
  BY <1>2, <1>4, <1>5
<1>7. QED
  BY <1>5, <1>6 DEF PicturesShown, frames, lacking

\* A re-encoded segment shows each of its pictures once, at its own time and in the
\* order of the times, from a sync frame on, whatever the decoder holds back and however
\* the packets fall into batches, for any source.
THEOREM AllPicturesShown == Spec => []PicturesShown
<1>1. Spec => []VideoShown
  BY VideoShownInit, VideoShownNext, PTL DEF Spec
<1>2. QED
  BY <1>1, RunsShown, PTL

-----------------------------------------------------------------------------
(***************************************************************************)
(* The sound of a source, in the order of its times.                       *)
(***************************************************************************)
\* Milliseconds are their own thousandths of a second.
LEMMA MillisAre == ASSUME NEW ms \in Nat PROVE ToMillis(ms, MillisPerSecond) = ms
BY DEF ToMillis, MillisPerSecond

\* The packets of a source are numbered, and their times do not run backwards.
LEMMA AllPacketsAre ==
  ASSUME NEW s \in Sources
  PROVE  LET all == AllPackets(s)
         IN  /\ all \in Seq(PacketType)
             /\ \A n \in DOMAIN all : all[n].offset = n /\ PtsMs(all[n]) \in Nat
             /\ \A m, n \in DOMAIN all : m <= n => PtsMs(all[m]) <= PtsMs(all[n])
<1> DEFINE all == AllPackets(s)
<1>1. ASSUME all \in Seq(PacketType) PROVE \A n \in DOMAIN all : PtsMs(all[n]) \in Nat
  <2>1. \A packet \in PacketType : packet.pts \in Nat /\ packet.scale \in Nat
    BY DEF PacketType
  <2> HIDE DEF all
  <2>2. TAKE n \in DOMAIN all
  <2>3. all[n] \in PacketType
    BY <1>1
  <2>4. QED
    BY <2>1, <2>3, Times DEF PtsMs
<1>2. CASE s.mp4
  <2>1. /\ Numbered(s.audio)
        /\ \A m, n \in DOMAIN s.audio : m <= n => PtsMs(s.audio[m]) <= PtsMs(s.audio[n])
    BY <1>2, SourcesAssumption DEF MuxedTables
  <2>2. all = s.audio
    BY <1>2 DEF AllPackets
  <2>3. QED
    BY <1>1, <2>1, <2>2 DEF Numbered
<1>3. CASE ~s.mp4
  <2> DEFINE blocks == SoundBlocks(s)
  <2>1. blocks \in Seq(StampedType) /\ \A n \in DOMAIN blocks : blocks[n].track = "audio"
    BY <1>3, SoundBlocksType
  <2>2. /\ \A n \in DOMAIN blocks : blocks[n].id = n
        /\ \A m, n \in DOMAIN blocks : m <= n => blocks[m].ms <= blocks[n].ms
    BY <1>3, SourcesAssumption DEF MuxedFile, Numbers, SoundBlocks
  <2>3. all = PacketsOf(blocks)
    BY <1>3 DEF AllPackets, SoundBlocks
  <2> HIDE DEF blocks
  <2>4. /\ all \in Seq(PacketType) /\ Len(all) = Len(blocks)
        /\ \A n \in DOMAIN blocks : /\ all[n].scale = MillisPerSecond
                                    /\ all[n].offset = blocks[n].id /\ all[n].pts = blocks[n].ms
    BY <2>1, <2>3, SoundPackets
  <2> HIDE DEF all
  <2>5. DOMAIN all = DOMAIN blocks
    BY <2>1, <2>4
  <2>6. \A n \in DOMAIN blocks : blocks[n].ms \in Nat
    <3>1. \A b \in StampedType : b.ms \in Nat
      BY DEF StampedType
    <3>2. QED
      BY <2>1, <3>1
  <2>7. \A n \in DOMAIN all : PtsMs(all[n]) = blocks[n].ms /\ all[n].offset = n
    BY <2>2, <2>4, <2>5, <2>6, MillisAre DEF PtsMs
  <2>8. QED
    BY <1>1, <2>2, <2>4, <2>5, <2>7 DEF all
<1>4. QED
  BY <1>2, <1>3

\* What comes before a time are the first ones of what does not run backwards.
LEMMA EarlyOnes ==
  ASSUME NEW N \in Nat, NEW g \in [1 .. N -> Nat], NEW t \in Nat,
         \A m, n \in 1 .. N : m <= n => g[m] <= g[n]
  PROVE  \E k \in 0 .. N : \A n \in 1 .. N : g[n] < t <=> n <= k
<1> DEFINE early == {n \in 1 .. N : g[n] < t}
<1>1. CASE early = {}
  <2>1. \A n \in 1 .. N : g[n] < t <=> n <= 0
    BY <1>1
  <2>2. 0 \in 0 .. N
    OBVIOUS
  <2>3. QED
    BY <2>1, <2>2
<1>2. CASE early # {}
  <2>1. early \in SUBSET Nat /\ \A n \in early : n <= N
    OBVIOUS
  <2>2. PICK k \in early : \A n \in early : n <= k
    <3> HIDE DEF early
    <3>1. QED
      BY <1>2, <2>1, GreatestNat
  <2>3. k \in 1 .. N /\ g[k] < t /\ k \in 0 .. N
    BY <2>2
  <2>4. ASSUME NEW n \in 1 .. N PROVE g[n] < t <=> n <= k
    <3>1. g[n] \in Nat /\ g[k] \in Nat
      BY <2>3
    <3>2. g[n] < t => n <= k
      BY <2>2
    <3>3. n <= k => g[n] <= g[k]
      BY <2>3
    <3>4. QED
      BY <2>3, <3>1, <3>2, <3>3
  <2>5. QED
    BY <2>3, <2>4
<1>3. QED
  BY <1>1, <1>2

\* The size of an initial part, and of what lies in it.
LEMMA SizeOfFirst ==
  ASSUME NEW k \in Nat, NEW S \in SUBSET (1 .. k)
  PROVE  Cardinality(1 .. k) = k /\ Cardinality(S) \in Nat /\ Cardinality(S) <= k
<1>1. IsFiniteSet(1 .. k) /\ Cardinality(1 .. k) = k
  BY FS_Interval
<1>2. IsFiniteSet(S) /\ Cardinality(S) <= Cardinality(1 .. k)
  BY <1>1, FS_Subset
<1>3. QED
  BY <1>1, <1>2, FS_CardinalityType

\* What extract_indexed_time_range gives of packets in order is a run of them: those
\* before it are early, and those behind it are late.
LEMMA RangeIsRun ==
  ASSUME NEW s, NEW w, w.start \in Nat, w.end \in Nat, NEW packets \in Seq(PacketType),
         \A m, n \in DOMAIN packets : m <= n => PtsMs(packets[m]) <= PtsMs(packets[n]),
         RangeRead(s, packets, w) # <<>>
  PROVE  \E first, last \in Nat :
           /\ 1 <= first /\ first <= last /\ last <= Len(packets)
           /\ RangeRead(s, packets, w) = SubSeq(packets, first, last)
           /\ \A n \in 1 .. first - 1 : PtsMs(packets[n]) < w.start
           /\ \A n \in 1 .. Len(packets) : PtsMs(packets[n]) < w.end <=> n <= last
<1> DEFINE N == Len(packets)
           g == [n \in 1 .. N |-> PtsMs(packets[n])]
           over == {n \in DOMAIN packets :
                     PtsMs(packets[n]) + Larger(DurationMs(packets[n]), 1) <= w.start}
           inside == {n \in DOMAIN packets : PtsMs(packets[n]) < w.end}
           first == IF s.codec = "opus" THEN 1 ELSE Cardinality(over) + 1
           last == Cardinality(inside)
<1>1. N \in Nat /\ DOMAIN packets = 1 .. N
  OBVIOUS
<1>2. \A n \in 1 .. N : PtsMs(packets[n]) \in Nat /\ DurationMs(packets[n]) \in Nat
  <2>1. \A packet \in PacketType :
          packet.pts \in Nat /\ packet.duration \in Nat /\ packet.scale \in Nat
    BY DEF PacketType
  <2>2. TAKE n \in 1 .. N
  <2>3. packets[n] \in PacketType
    BY <1>1
  <2>4. QED
    BY <2>1, <2>3, Times DEF PtsMs, DurationMs
<1>3. /\ g \in [1 .. N -> Nat] /\ \A n \in 1 .. N : g[n] = PtsMs(packets[n])
      /\ \A m, n \in 1 .. N : m <= n => g[m] <= g[n]
  BY <1>1, <1>2
<1>4. RangeRead(s, packets, w) = IF Cardinality(over) = N THEN <<>>
                                ELSE SubSeq(packets, first, last)
  BY DEF RangeRead
<1> HIDE DEF g, N
<1>5. PICK a \in 0 .. N : \A n \in 1 .. N : g[n] < w.start <=> n <= a
  BY <1>1, <1>3, EarlyOnes
<1>6. PICK b \in 0 .. N : \A n \in 1 .. N : g[n] < w.end <=> n <= b
  BY <1>1, <1>3, EarlyOnes
<1>7. over \subseteq 1 .. a
  <2>1. ASSUME NEW n \in over PROVE n \in 1 .. a
    <3>1. n \in 1 .. N /\ PtsMs(packets[n]) + Larger(DurationMs(packets[n]), 1) <= w.start
      BY <1>1
    <3>2. PtsMs(packets[n]) < w.start
      BY <1>2, <3>1 DEF Larger
    <3>3. QED
      BY <1>3, <1>5, <3>1, <3>2
  <2>2. QED
    BY <2>1, Zenon
<1>8. inside = 1 .. b
  <2>1. ASSUME NEW n \in inside PROVE n \in 1 .. b
    BY <1>1, <1>3, <1>6
  <2>2. ASSUME NEW n \in 1 .. b PROVE n \in inside
    BY <1>1, <1>3, <1>6
  <2>3. QED
    BY <2>1, <2>2
<1> HIDE DEF over, inside
<1>9. Cardinality(over) \in Nat /\ Cardinality(over) <= a /\ Cardinality(inside) = b
  BY <1>7, <1>8, SizeOfFirst
<1> DEFINE k == Cardinality(over)
<1>10. /\ k \in Nat /\ k <= a /\ last = b /\ first \in Nat /\ 1 <= first /\ first <= a + 1
  BY <1>9
<1>11. RangeRead(s, packets, w) = SubSeq(packets, first, last)
  BY <1>4
<1> HIDE DEF k, first, last
<1>12. first <= last
  <2>1. SUFFICES ASSUME last < first PROVE FALSE
    BY <1>10
  <2>2. SubSeq(packets, first, last) = <<>>
    BY <1>10, <2>1
  <2>3. QED
    BY <1>11, <2>2
<1>13. \A n \in 1 .. first - 1 : PtsMs(packets[n]) < w.start
  <2>1. \A n \in 1 .. first - 1 : n \in 1 .. N /\ n <= a
    BY <1>1, <1>10
  <2>2. QED
    BY <1>3, <1>5, <2>1
<1>14. \A n \in 1 .. N : PtsMs(packets[n]) < w.end <=> n <= last
  BY <1>3, <1>6, <1>10
<1>15. last \in Nat /\ last <= N
  BY <1>10
<1>16. QED
  BY <1>10, <1>11, <1>12, <1>13, <1>14, <1>15 DEF N

\* A packet that is the n-th of its source, but for its duration.
Like(s, packet, n) ==
  LET all == AllPackets(s)
  IN  packet.offset = n /\ packet.pts = all[n].pts /\ packet.scale = all[n].scale

\* Packets are the lo-th .. hi-th of their source; those before them are early and those
\* behind them late.
RunOfSound(s, packets, w, lo, hi) ==
  LET all == AllPackets(s)
  IN  /\ packets \in Seq(PacketType)
      /\ 1 <= lo /\ lo <= hi /\ hi <= Len(all) /\ Len(packets) = hi - lo + 1
      /\ \A m \in 1 .. Len(packets) : Like(s, packets[m], lo + m - 1)
      /\ \A n \in DOMAIN all : n < lo => PtsMs(all[n]) < w.start
      /\ \A n \in DOMAIN all : PtsMs(all[n]) < w.end => n <= hi

\* The blocks of the sound inside a window are a run.
LEMMA WithinIsRun ==
  ASSUME NEW s \in Sources, ~s.mp4, NEW start \in Nat, NEW end \in Nat, start <= end,
         Within(s, start, end) # <<>>
  PROVE  \E lo, hi \in Nat :
           LET blocks == SoundBlocks(s)
               own == Within(s, start, end)
           IN  /\ 1 <= lo /\ lo <= hi /\ hi <= Len(blocks) /\ Len(own) = hi - lo + 1
               /\ \A m \in 1 .. Len(own) : own[m] = blocks[lo + m - 1]
               /\ \A n \in DOMAIN blocks : (start <= blocks[n].ms /\ blocks[n].ms < end)
                                             <=> (lo <= n /\ n <= hi)
               /\ \A n \in DOMAIN blocks : n < lo => blocks[n].ms < start
<1> DEFINE blocks == SoundBlocks(s)
           own == Within(s, start, end)
           N == Len(blocks)
           I == {n \in DOMAIN blocks : start <= blocks[n].ms /\ blocks[n].ms < end}
           g == [n \in 1 .. N |-> blocks[n].ms]
<1>1. blocks \in Seq(StampedType)
  BY SoundBlocksType
<1>2. \A m, n \in DOMAIN blocks : m <= n => blocks[m].ms <= blocks[n].ms
  BY SourcesAssumption DEF MuxedFile, SoundBlocks
<1>3. own = Kept(blocks, I)
  BY DEF Within
<1> HIDE DEF blocks, own
<1>4. N \in Nat /\ DOMAIN blocks = 1 .. N
  BY <1>1
<1>5. \A n \in 1 .. N : blocks[n].ms \in Nat
  <2>1. \A b \in StampedType : b.ms \in Nat
    BY DEF StampedType
  <2>2. QED
    BY <1>1, <1>4, <2>1
<1>6. /\ g \in [1 .. N -> Nat] /\ \A n \in 1 .. N : g[n] = blocks[n].ms
      /\ \A m, n \in 1 .. N : m <= n => g[m] <= g[n]
  BY <1>2, <1>4, <1>5
<1> HIDE DEF g, N
<1>7. PICK a \in 0 .. N : \A n \in 1 .. N : g[n] < start <=> n <= a
  BY <1>4, <1>6, EarlyOnes
<1>8. PICK b \in 0 .. N : \A n \in 1 .. N : g[n] < end <=> n <= b
  BY <1>4, <1>6, EarlyOnes
<1>9. \A n \in 1 .. N : n \in I <=> (a < n /\ n <= b)
  <2>1. TAKE n \in 1 .. N
  <2>2. g[n] = blocks[n].ms /\ g[n] \in Nat
    BY <1>6
  <2>3. n \in I <=> (start <= g[n] /\ g[n] < end)
    BY <1>4, <2>2
  <2>4. QED
    BY <1>7, <1>8, <2>2, <2>3
<1>10. a < b
  <2>1. SUFFICES ASSUME b <= a PROVE FALSE
    BY <1>4, <1>7, <1>8
  <2>2. \A n \in 1 .. N : n \notin I
    BY <1>4, <1>7, <1>8, <1>9, <2>1
  <2> HIDE DEF I
  <2>3. Kept(blocks, I) = <<>>
    BY <1>1, <2>2, KeptNone DEF N
  <2>4. QED
    BY <1>3, <2>3 DEF own
<1> DEFINE lo == a + 1
<1>11. /\ lo \in Nat /\ b \in Nat /\ 1 <= lo /\ lo <= b /\ b <= N /\ lo <= b + 1
  BY <1>4, <1>7, <1>8, <1>10
<1>12. \A n \in 1 .. N : n \in I <=> n \in lo .. b
  BY <1>4, <1>7, <1>8, <1>9
<1> HIDE DEF I
<1>13. Kept(blocks, I) = Kept(blocks, lo .. b)
  BY <1>1, <1>12, KeptAgrees DEF N
<1>14. \A n \in 1 .. N : n < lo => blocks[n].ms < start
  BY <1>4, <1>6, <1>7
<1>15. \A n \in 1 .. N : (start <= blocks[n].ms /\ blocks[n].ms < end) <=> (lo <= n /\ n <= b)
  BY <1>4, <1>7, <1>8, <1>9 DEF I
<1> HIDE DEF lo
<1>16. PICK l \in Nat : l = lo
  BY <1>11
<1>17. LET k == Kept(blocks, l .. b)
       IN  /\ k \in Seq(StampedType) /\ Len(k) = b - l + 1
           /\ \A m \in 1 .. b - l + 1 : k[m] = blocks[l + m - 1]
  <2>1. 1 <= l /\ l <= b + 1 /\ b <= Len(blocks) /\ b \in Nat
    BY <1>11, <1>16 DEF N
  <2>2. QED
    BY ONLY <1>1, <2>1, KeptRun, ZenonT(60)
<1>18. Len(own) = b - l + 1 /\ \A m \in 1 .. Len(own) : own[m] = blocks[l + m - 1]
  BY <1>3, <1>13, <1>16, <1>17
<1>19. 1 <= l /\ l <= b /\ b <= N /\ b \in Nat
  BY <1>11, <1>16
<1>20. QED
  BY <1>4, <1>14, <1>15, <1>16, <1>18, <1>19 DEF own, blocks, N

\* Nothing in a window is early or late.
LEMMA AllInside ==
  ASSUME NEW s, NEW w, w.start \in Nat, w.end \in Nat, NEW packets \in Seq(PacketType),
         \A n \in DOMAIN packets : w.start <= PtsMs(packets[n]) /\ PtsMs(packets[n]) < w.end,
         \A m, n \in DOMAIN packets : m <= n => PtsMs(packets[m]) <= PtsMs(packets[n]),
         RangeRead(s, packets, w) # <<>>
  PROVE  RangeRead(s, packets, w) = packets
<1>1. PICK first \in Nat, last \in Nat :
           /\ 1 <= first /\ first <= last /\ last <= Len(packets)
           /\ RangeRead(s, packets, w) = SubSeq(packets, first, last)
           /\ \A n \in 1 .. first - 1 : PtsMs(packets[n]) < w.start
           /\ \A n \in 1 .. Len(packets) : PtsMs(packets[n]) < w.end <=> n <= last
  BY RangeIsRun
<1> DEFINE N == Len(packets)
<1>2. N \in Nat /\ DOMAIN packets = 1 .. N
  OBVIOUS
<1>3. \A n \in 1 .. N : PtsMs(packets[n]) \in Nat
  <2>1. \A packet \in PacketType : packet.pts \in Nat /\ packet.scale \in Nat
    BY DEF PacketType
  <2>2. TAKE n \in 1 .. N
  <2>3. packets[n] \in PacketType
    BY <1>2
  <2>4. QED
    BY <2>1, <2>3, Times DEF PtsMs
<1>4. last = N
  <2>1. N \in 1 .. N
    BY <1>1, <1>2
  <2>2. N <= last
    BY <1>1, <1>2, <2>1
  <2>3. last <= N /\ last \in Nat
    BY <1>1
  <2> HIDE DEF N
  <2>4. QED
    BY <1>2, <2>2, <2>3
<1>5. first = 1
  <2>1. SUFFICES ASSUME first # 1 PROVE FALSE
    OBVIOUS
  <2>2. 1 \in 1 .. first - 1 /\ 1 \in 1 .. N
    BY <1>1, <1>2, <2>1
  <2>3. PtsMs(packets[1]) < w.start /\ w.start <= PtsMs(packets[1])
    BY <1>1, <1>2, <2>2
  <2>4. QED
    BY <1>3, <2>2, <2>3
<1>6. SubSeq(packets, 1, N) = packets
  OBVIOUS
<1>7. QED
  BY <1>1, <1>4, <1>5, <1>6

\* What is decoded for a segment is a run of the source's sound.
LEMMA RangeOfSound ==
  ASSUME NEW s \in Sources, NEW i \in DOMAIN SegmentPlan(s), NEW p, p.rate \in {None, s.rate}
  PROVE  LET c == SegmentPlan(s)[i]
             w == InputWindow(p, s, c)
             range == RangeRead(s, PacketsRead(s, MediaWindows(s, p, c), c)[2], w)
         IN  range # <<>> => \E lo, hi \in Nat : RunOfSound(s, range, w, lo, hi)
<1> DEFINE c == SegmentPlan(s)[i]
           w == InputWindow(p, s, c)
           packets == PacketsRead(s, MediaWindows(s, p, c), c)[2]
           range == RangeRead(s, packets, w)
           all == AllPackets(s)
<1>1. w.start \in Nat /\ w.end \in Nat /\ w.start <= w.end
  <2>1. c.start \in Nat /\ EndOf(c) \in Nat /\ c.start <= EndOf(c)
    <3>1. c.start \in Nat /\ EndOf(c) \in Nat
      BY PlanIsGapless
    <3>2. c.duration \in Nat
      <4>1. SegmentPlan(s) \in Seq(PlannedChunks)
        BY PlanIsGapless
      <4>2. \A x \in PlannedChunks : x.duration \in Nat
        BY DEF PlannedChunks
      <4>3. QED
        BY <4>1, <4>2
    <3>3. QED
      BY <3>1, <3>2 DEF EndOf
  <2> HIDE DEF c
  <2>2. w.start \in Nat /\ w.end \in Nat /\ w.start <= c.start /\ EndOf(c) < w.end
    BY <2>1, SoundAround
  <2>3. QED
    BY <2>1, <2>2
<1>2. IF s.mp4 THEN packets = s.audio
      ELSE packets = <<>> \/ packets = PacketsOf(Within(s, w.start, w.end))
  BY SoundRead
<1>3. /\ all \in Seq(PacketType)
      /\ \A n \in DOMAIN all : all[n].offset = n /\ PtsMs(all[n]) \in Nat
      /\ \A m, n \in DOMAIN all : m <= n => PtsMs(all[m]) <= PtsMs(all[n])
  BY AllPacketsAre
<1> SUFFICES ASSUME range # <<>> PROVE \E lo, hi \in Nat : RunOfSound(s, range, w, lo, hi)
  OBVIOUS
<1> HIDE DEF w, c, packets
<1>4. CASE s.mp4
  <2>1. packets = all
    BY <1>2, <1>4 DEF AllPackets
  <2>2. \E lo, hi \in Nat :
           /\ 1 <= lo /\ lo <= hi /\ hi <= Len(packets)
           /\ RangeRead(s, packets, w) = SubSeq(packets, lo, hi)
           /\ \A n \in 1 .. lo - 1 : PtsMs(packets[n]) < w.start
           /\ \A n \in 1 .. Len(packets) : PtsMs(packets[n]) < w.end <=> n <= hi
    <3>1. packets \in Seq(PacketType) /\ RangeRead(s, packets, w) # <<>>
      BY <1>3, <2>1
    <3>2. \A m, n \in DOMAIN packets : m <= n => PtsMs(packets[m]) <= PtsMs(packets[n])
      BY <1>3, <2>1
    <3> HIDE DEF all
    <3>3. QED
      BY ONLY <1>1, <3>1, <3>2, RangeIsRun
  <2>3. PICK lo \in Nat, hi \in Nat :
           /\ 1 <= lo /\ lo <= hi /\ hi <= Len(all)
           /\ range = SubSeq(all, lo, hi)
           /\ \A n \in 1 .. lo - 1 : PtsMs(all[n]) < w.start
           /\ \A n \in 1 .. Len(all) : PtsMs(all[n]) < w.end <=> n <= hi
    BY <2>1, <2>2
  <2> HIDE DEF all, range
  <2>4. DOMAIN all = 1 .. Len(all) /\ Len(all) \in Nat
    BY <1>3
  <2>5. /\ range \in Seq(PacketType) /\ Len(range) = hi - lo + 1
        /\ \A m \in 1 .. Len(range) : range[m] = all[lo + m - 1] /\ lo + m - 1 \in 1 .. Len(all)
    BY <1>3, <2>3, <2>4
  <2>6. \A m \in 1 .. Len(range) : Like(s, range[m], lo + m - 1)
    <3>1. TAKE m \in 1 .. Len(range)
    <3>2. range[m] = all[lo + m - 1] /\ lo + m - 1 \in DOMAIN all
      BY <2>4, <2>5
    <3>3. QED
      BY <1>3, <3>2 DEF Like, all
  <2>7. \A n \in DOMAIN all : n < lo => PtsMs(all[n]) < w.start
    BY <2>3, <2>4
  <2>8. \A n \in DOMAIN all : PtsMs(all[n]) < w.end => n <= hi
    BY <2>3, <2>4
  <2>9. RunOfSound(s, range, w, lo, hi)
    BY <2>3, <2>5, <2>6, <2>7, <2>8 DEF RunOfSound, all
  <2>10. QED
    BY <2>9
<1>5. CASE ~s.mp4
  <2> DEFINE blocks == SoundBlocks(s)
             own == Within(s, w.start, w.end)
  <2>1. packets = <<>> \/ packets = PacketsOf(own)
    BY <1>2, <1>5
  <2>2. packets # <<>>
    <3>1. ASSUME packets = <<>> PROVE range = <<>>
      <4>1. DOMAIN packets = {}
        BY <3>1
      <4>2. {n \in DOMAIN packets :
                 PtsMs(packets[n]) + Larger(DurationMs(packets[n]), 1) <= w.start} = {}
        BY <4>1
      <4>3. Cardinality({}) = 0 /\ Len(packets) = 0
        BY <3>1, FS_EmptySet
      <4>4. QED
        BY <4>2, <4>3 DEF RangeRead
    <3>2. QED
      BY <3>1
  <2>3. /\ blocks \in Seq(StampedType) /\ own \in Seq(StampedType)
        /\ \A n \in DOMAIN blocks : blocks[n].track = "audio"
        /\ \A n \in DOMAIN own : own[n].track = "audio"
    BY <1>5, SoundBlocksType, WithinType
  <2>4. all = PacketsOf(blocks)
    BY <1>5 DEF AllPackets, SoundBlocks
  <2>5. /\ packets \in Seq(PacketType) /\ Len(packets) = Len(own)
        /\ \A n \in DOMAIN own :
             /\ packets[n].scale = MillisPerSecond /\ packets[n].offset = own[n].id
             /\ packets[n].pts = own[n].ms
    BY <2>1, <2>2, <2>3, SoundPackets
  <2>6. /\ Len(all) = Len(blocks)
        /\ \A n \in DOMAIN blocks : /\ all[n].scale = MillisPerSecond
                                    /\ all[n].offset = blocks[n].id /\ all[n].pts = blocks[n].ms
    BY <2>3, <2>4, SoundPackets
  <2>7. own # <<>>
    <3> HIDE DEF own
    <3>1. QED
      BY <2>2, <2>3, <2>5
  <2>8. PICK lo \in Nat, hi \in Nat :
           /\ 1 <= lo /\ lo <= hi /\ hi <= Len(blocks) /\ Len(own) = hi - lo + 1
           /\ \A m \in 1 .. Len(own) : own[m] = blocks[lo + m - 1]
           /\ \A n \in DOMAIN blocks : (w.start <= blocks[n].ms /\ blocks[n].ms < w.end)
                                         <=> (lo <= n /\ n <= hi)
           /\ \A n \in DOMAIN blocks : n < lo => blocks[n].ms < w.start
    BY <1>1, <1>5, <2>7, WithinIsRun
  <2> HIDE DEF blocks, own, all
  <2>9. /\ DOMAIN blocks = 1 .. Len(blocks) /\ DOMAIN own = 1 .. Len(own)
        /\ DOMAIN all = 1 .. Len(blocks) /\ DOMAIN packets = 1 .. Len(own)
        /\ Len(blocks) \in Nat /\ Len(own) \in Nat
    BY <1>3, <2>3, <2>5, <2>6
  <2>10. \A n \in DOMAIN blocks : /\ blocks[n].ms \in Nat /\ PtsMs(all[n]) = blocks[n].ms
    <3>1. \A b \in StampedType : b.ms \in Nat
      BY DEF StampedType
    <3>2. \A n \in DOMAIN blocks : blocks[n].ms \in Nat
      BY <2>3, <3>1
    <3>3. QED
      BY <2>6, <3>2, MillisAre DEF PtsMs
  <2>11. \A m \in 1 .. Len(own) : /\ lo + m - 1 \in DOMAIN all /\ lo + m - 1 \in DOMAIN blocks
                                  /\ own[m] = blocks[lo + m - 1] /\ lo <= lo + m - 1
                                  /\ lo + m - 1 <= hi
    BY <2>8, <2>9
  <2>12. \A m \in 1 .. Len(own) : /\ packets[m].pts = all[lo + m - 1].pts
                                  /\ packets[m].scale = all[lo + m - 1].scale
                                  /\ packets[m].offset = lo + m - 1
                                  /\ PtsMs(packets[m]) = PtsMs(all[lo + m - 1])
    <3>1. TAKE m \in 1 .. Len(own)
    <3>2. lo + m - 1 \in DOMAIN all /\ lo + m - 1 \in DOMAIN blocks /\ own[m] = blocks[lo + m - 1]
      BY <2>11
    <3>3. all[lo + m - 1].offset = lo + m - 1
      BY <1>3, <3>2
    <3>4. /\ packets[m].pts = all[lo + m - 1].pts /\ packets[m].scale = all[lo + m - 1].scale
          /\ packets[m].offset = lo + m - 1
      BY <2>5, <2>6, <2>9, <3>2, <3>3
    <3>5. QED
      BY <3>4 DEF PtsMs
  <2>13. \A n \in DOMAIN packets : w.start <= PtsMs(packets[n]) /\ PtsMs(packets[n]) < w.end
    <3>1. TAKE n \in DOMAIN packets
    <3>2. /\ lo + n - 1 \in DOMAIN blocks /\ lo <= lo + n - 1 /\ lo + n - 1 <= hi
          /\ PtsMs(packets[n]) = PtsMs(all[lo + n - 1])
      BY <2>9, <2>11, <2>12
    <3>3. PtsMs(packets[n]) = blocks[lo + n - 1].ms
      BY <2>10, <3>2
    <3>4. QED
      BY <2>8, <3>2, <3>3
  <2>14. \A m, n \in DOMAIN packets : m <= n => PtsMs(packets[m]) <= PtsMs(packets[n])
    <3>1. TAKE m, n \in DOMAIN packets
    <3>2. /\ PtsMs(packets[m]) = PtsMs(all[lo + m - 1]) /\ lo + m - 1 \in DOMAIN all
          /\ PtsMs(packets[n]) = PtsMs(all[lo + n - 1]) /\ lo + n - 1 \in DOMAIN all
      BY <2>9, <2>11, <2>12
    <3>3. m <= n => lo + m - 1 <= lo + n - 1
      BY <2>9
    <3>4. QED
      BY <1>3, <3>2, <3>3
  <2>15. range = packets
    BY <1>1, <2>5, <2>13, <2>14, AllInside
  <2> HIDE DEF range
  <2>16. \A m \in 1 .. Len(range) : Like(s, range[m], lo + m - 1)
    BY <2>5, <2>12, <2>15 DEF Like, all
  <2>17. \A n \in DOMAIN all : n < lo => PtsMs(all[n]) < w.start
    BY <2>8, <2>9, <2>10
  <2>18. \A n \in DOMAIN all : PtsMs(all[n]) < w.end => n <= hi
    <3>1. TAKE n \in DOMAIN all
    <3>2. SUFFICES ASSUME PtsMs(all[n]) < w.end, hi < n PROVE FALSE
      BY <2>9
    <3>3. n \in DOMAIN blocks /\ n \in Nat /\ blocks[n].ms < w.end /\ blocks[n].ms \in Nat
      BY <2>9, <2>10, <3>2
    <3>4. blocks[n].ms < w.start
      BY <1>1, <2>8, <3>2, <3>3
    <3>5. hi \in DOMAIN blocks /\ w.start <= blocks[hi].ms /\ blocks[hi].ms \in Nat
      BY <2>8, <2>9, <2>10
    <3>6. PtsMs(all[hi]) <= PtsMs(all[n]) /\ PtsMs(all[hi]) = blocks[hi].ms
          /\ PtsMs(all[n]) = blocks[n].ms
      BY <1>3, <2>9, <2>10, <3>2, <3>3, <3>5
    <3>7. QED
      BY <1>1, <3>3, <3>4, <3>5, <3>6
  <2>19. RunOfSound(s, range, w, lo, hi)
    BY <2>5, <2>6, <2>8, <2>15, <2>16, <2>17, <2>18 DEF RunOfSound, all
  <2>20. QED
    BY <2>19
<1>6. QED
  BY <1>4, <1>5 DEF range, packets, w, c

-----------------------------------------------------------------------------
(***************************************************************************)
(* Sound in its place: every sample a pipeline holds is shifted by the     *)
(* rounding of some packet's time, and so would be the next one.           *)
(***************************************************************************)
\* The shifts of sound.
Shifts(s) == Drifts(s) \cup {Silence, Cold}

\* A pipeline that has decoded up to its last packet, without a gap.
InPlace(p, s) ==
  /\ p.pcm \in Seq(RunType(Shifts(s))) /\ p.runs \in Seq(RunType(Shifts(s)))
  /\ p.last = None => p.skip = s.skip /\ p.clock = None /\ ~p.warm
  /\ p.last # None => /\ p.last \in Nat /\ p.skip = 0 /\ p.warm /\ p.clock \in Nat
                      /\ p.clock - (s.lead + p.last * s.samples) \in Drifts(s)

\* A pipeline in place has the type of one.
LEMMA InPlaceType ==
  ASSUME NEW s, NEW p \in Pipes(s), InPlace(p, s)
  PROVE  p \in PipeType(s, Shifts(s))
<1> DEFINE S == Seq(RunType(Shifts(s)))
           I == Seq(RunType(Int))
<1>1. p.pcm \in S /\ p.runs \in S
  BY DEF InPlace
<1>2. p \in [rate : {None, s.rate}, clock : Int, skip : Nat, warm : BOOLEAN, pcm : I,
             anchor : Int, next : Int, runs : I, frames : Int, last : Int,
             completed : Int, poisoned : BOOLEAN]
  BY DEF Pipes, PipeType
<1> HIDE DEF S, I
<1>3. p \in [rate : {None, s.rate}, clock : Int, skip : Nat, warm : BOOLEAN, pcm : S,
             anchor : Int, next : Int, runs : S, frames : Int, last : Int,
             completed : Int, poisoned : BOOLEAN]
  BY <1>1, <1>2
<1>4. QED
  BY <1>3 DEF PipeType, S

\* Drifts are whole numbers of samples.
LEMMA DriftType ==
  ASSUME NEW s \in Sources, NEW packet \in PacketType, NEW dropped \in Nat
  PROVE  Drift(s, packet, dropped) \in Int
<1> DEFINE x == packet.pts
           scale == packet.scale
           n == packet.offset
<1>1. x \in Nat /\ scale \in Nat /\ n \in Nat
  BY DEF PacketType
<1>2. s.rate \in Nat /\ s.lead \in Nat /\ s.samples \in Nat
  BY SourceType
<1> DEFINE early == ToSamples(dropped, s.rate, scale)
<1>3. early \in Nat
  BY <1>1, <1>2, NaturalSamples
<1> DEFINE units == x + early
<1>4. units \in Nat
  BY <1>1, <1>3
<1> HIDE DEF units
<1>5. ToSamples(units, scale, s.rate) \in Nat
  BY <1>1, <1>2, <1>4, NaturalSamples
<1>6. Drift(s, packet, dropped) = ToSamples(units, scale, s.rate) - (Place(s, packet) + dropped)
  BY DEF Drift, units
<1>7. Place(s, packet) \in Int
  <2>1. (n - 1) * s.samples \in Int
    BY <1>1, <1>2
  <2>2. QED
    BY <1>2, <2>1 DEF Place
<1>8. QED
  BY <1>5, <1>6, <1>7

\* A packet that is one of its source drifts like it.
LEMMA LikeDrifts ==
  ASSUME NEW s \in Sources, NEW packet, NEW n \in DOMAIN AllPackets(s), Like(s, packet, n),
         NEW dropped
  PROVE  Drift(s, packet, dropped) \in StampDrifts(s, dropped)
<1> DEFINE all == AllPackets(s)
<1>1. all[n].offset = n /\ n \in DOMAIN all
  BY AllPacketsAre
<1>2. packet.offset = all[n].offset /\ packet.pts = all[n].pts /\ packet.scale = all[n].scale
  BY <1>1 DEF Like
<1>3. Drift(s, packet, dropped) = Drift(s, all[n], dropped)
  BY <1>2 DEF Drift, Place
<1>4. all[n] \in ToSet(all)
  BY <1>1 DEF ToSet
<1>5. QED
  BY <1>3, <1>4 DEF StampDrifts

\* The sound of a packet that follows the last one is in its place, too: it starts at the
\* packet's own time, or where the last one ends.
LEMMA DecodedInPlace ==
  ASSUME NEW s \in Sources, NEW p \in Pipes(s), InPlace(p, s), NEW packet \in PacketType,
         packet.offset \in DOMAIN AllPackets(s), Like(s, packet, packet.offset),
         p.last # None => packet.offset = p.last + 1,
         p.last = None => p.skip < s.samples
  PROVE  InPlace(Decoded(p, s, packet), s) /\ Decoded(p, s, packet).last = packet.offset
<1> DEFINE dropped == Smaller(p.skip, s.samples)
           advance == ToSamples(dropped, s.rate, packet.scale)
           from == Stamp(p, s, packet.pts + advance, packet.scale)
           to == from + s.samples - dropped
           base == from - (Place(s, packet) + dropped)
           shift == IF p.warm \/ packet.offset = 1 THEN base ELSE Cold
           run == [from |-> from, to |-> to, shift |-> shift]
           sample == ToSamples(packet.pts + advance, packet.scale, s.rate)
           R == RunType(Shifts(s))
           q == Decoded(p, s, packet)
<1>1. packet.scale \in Nat /\ packet.pts \in Nat /\ packet.offset \in Nat
  BY DEF PacketType
<1>2. /\ p.skip \in Nat /\ p.clock \in Int /\ p.pcm \in Seq(R) /\ p.runs \in Seq(R)
      /\ p.warm \in BOOLEAN
  BY DEF Pipes, PipeType, InPlace
<1>3. s.samples \in Nat /\ s.lead \in Nat /\ s.skip \in Nat /\ s.rate \in Nat
  BY SourceType
<1>4. /\ dropped = p.skip /\ dropped \in {0, s.skip} /\ dropped \in Nat
      /\ s.samples - dropped \in Nat
  BY <1>2, <1>3 DEF Smaller, InPlace
<1>5. Place(s, packet) = s.lead + (packet.offset - 1) * s.samples
  BY DEF Place
<1>6. Place(s, packet) \in Int
  <2>1. (packet.offset - 1) * s.samples \in Int
    BY <1>1, <1>3
  <2>2. QED
    BY <1>3, <1>5, <2>1
<1>7. sample - (Place(s, packet) + dropped) = Drift(s, packet, dropped)
  BY DEF Drift
<1>8. Drift(s, packet, dropped) \in StampDrifts(s, dropped) /\ Drift(s, packet, dropped) \in Int
  <2> HIDE DEF dropped
  <2>1. QED
    BY <1>4, LikeDrifts, DriftType
<1>9. from = IF \/ p.clock = None \/ sample - p.clock > MsToSamples(DiscontinuityMs, s.rate)
                \/ p.clock - sample > MsToSamples(DiscontinuityMs, s.rate)
             THEN sample ELSE p.clock
  BY DEF Stamp
<1>10. advance \in Nat
  <2> HIDE DEF dropped
  <2>1. QED
    BY <1>1, <1>3, <1>4, NaturalSamples
<1>11. sample \in Nat
  <2> DEFINE units == packet.pts + advance
  <2>1. units \in Nat
    BY <1>1, <1>10
  <2> HIDE DEF units
  <2>2. ToSamples(units, packet.scale, s.rate) \in Nat
    BY <1>1, <1>3, <2>1, NaturalSamples
  <2>3. QED
    BY <2>2 DEF units
<1>12. q.pcm = Append(p.pcm, run) /\ q.runs = p.runs /\ q.last = packet.offset
       /\ q.skip = p.skip - dropped /\ q.warm = TRUE /\ q.clock = to
  BY DEF Decoded, Pipes, PipeType
<1> HIDE DEF dropped, advance, from, sample, q
<1>13. base \in Drifts(s) /\ from \in Nat
  <2>1. CASE p.last = None
    <3>1. from = sample /\ dropped = s.skip
      BY <1>4, <1>9, <2>1 DEF InPlace
    <3>2. base = Drift(s, packet, dropped)
      BY <1>7, <3>1
    <3> HIDE DEF base
    <3>3. QED
      BY <1>8, <1>11, <3>1, <3>2 DEF Drifts
  <2>2. CASE p.last # None
    <3> DEFINE limit == MsToSamples(DiscontinuityMs, s.rate)
               place == Place(s, packet)
    <3>1. /\ p.last \in Nat /\ p.skip = 0 /\ p.clock \in Nat
          /\ p.clock - (s.lead + p.last * s.samples) \in Drifts(s)
      BY <2>2 DEF InPlace
    <3>2. packet.offset - 1 = p.last /\ dropped = 0
      BY <1>1, <1>4, <2>2, <3>1
    <3>3. place = s.lead + p.last * s.samples
      BY <1>5, <3>2
    <3>4. base = from - (place + 0) /\ sample - (place + 0) \in StampDrifts(s, 0)
      BY <1>7, <1>8, <3>2
    <3>5. p.clock - place \in Drifts(s)
      BY <3>1, <3>3
    <3>6. p.clock # None
      BY <3>1 DEF None
    <3> HIDE DEF limit, place, base
    <3>7. base = from - place /\ sample - place \in StampDrifts(s, 0) /\ place \in Int
      <4>1. place \in Int
        BY <1>6 DEF place
      <4>2. place + 0 = place
        BY <4>1
      <4>3. QED
        BY <3>4, <4>1, <4>2
    <3>8. from \in {sample, p.clock}
      BY <1>9
    <3>9. CASE Steady(s)
      <4>1. p.clock - place \in StampDrifts(s, s.skip)
        BY <3>5, <3>9 DEF Drifts
      <4> DEFINE x == p.clock - place
                 y == sample - place
      <4>2. y - x <= limit /\ x - y <= limit
        BY <3>7, <3>9, <4>1 DEF Steady, limit
      <4>3. y - x = sample - p.clock /\ x - y = p.clock - sample
        BY <1>11, <3>1, <3>7
      <4>4. limit \in Nat
        <5>1. DiscontinuityMs \in Nat /\ MillisPerSecond \in Nat
          BY DEF DiscontinuityMs, MillisPerSecond
        <5>2. QED
          BY <1>3, <5>1, NaturalSamples DEF limit, MsToSamples
      <4> HIDE DEF x, y
      <4>5. ~(sample - p.clock > limit) /\ ~(p.clock - sample > limit)
        BY <1>11, <3>1, <4>2, <4>3, <4>4
      <4>6. from = p.clock
        BY <1>9, <3>6, <4>5 DEF limit
      <4>7. QED
        BY <3>1, <3>5, <3>7, <4>6
    <3>10. CASE ~Steady(s)
      <4>1. sample - place \in Drifts(s)
        BY <3>7, <3>10 DEF Drifts
      <4>2. QED
        BY <1>11, <3>1, <3>5, <3>7, <3>8, <4>1
    <3>11. QED
      BY <3>9, <3>10
  <2>3. QED
    BY <2>1, <2>2
<1>14. from \in Int /\ to \in Nat
  BY <1>2, <1>3, <1>4, <1>13
<1>15. to - (s.lead + packet.offset * s.samples) = base
  <2> DEFINE n == packet.offset
             k == s.samples
             x == n * k
             y == (n - 1) * k
  <2>1. n \in Int /\ k \in Int
    BY <1>1, <1>3
  <2>2. x = y + k /\ x \in Int /\ y \in Int
    BY <2>1
  <2>3. base = from - ((s.lead + y) + dropped)
    BY <1>5
  <2> HIDE DEF x, y, base
  <2>4. (from + k - dropped) - (s.lead + x) = base
    BY <1>3, <1>4, <1>14, <2>1, <2>2, <2>3
  <2>5. QED
    BY <2>4 DEF x
<1> HIDE DEF base, to
<1>16. run \in R
  <2>1. shift \in Shifts(s)
    BY <1>13 DEF Shifts
  <2> HIDE DEF shift
  <2>2. QED
    BY <1>14, <2>1 DEF RunType
<1> HIDE DEF run, R
<1>17. Append(p.pcm, run) \in Seq(R)
  BY <1>2, <1>16
<1>18. packet.offset # None
  BY <1>1 DEF None
<1>19. q.skip = 0
  BY <1>2, <1>4, <1>12
<1>20. q.clock - (s.lead + q.last * s.samples) \in Drifts(s)
  BY <1>12, <1>13, <1>15
<1>21. q.pcm \in Seq(R) /\ q.runs \in Seq(R)
  BY <1>2, <1>12, <1>17
<1>22. InPlace(q, s)
  BY <1>1, <1>12, <1>14, <1>18, <1>19, <1>20, <1>21 DEF InPlace, R
<1>23. QED
  BY <1>12, <1>22 DEF q

\* New packets are the ones of a source from a place on that a pipeline reaches without a
\* gap, as far as what is read goes.
GoesOn(s, p, fresh, a, hi) ==
  /\ fresh \in Seq(PacketType)
  /\ \A m \in 1 .. Len(fresh) : a + m - 1 \in DOMAIN AllPackets(s) /\ Like(s, fresh[m], a + m - 1)
  /\ p.last # None => a = p.last + 1
  /\ p.last = None => fresh # <<>>
  /\ fresh # <<>> => a + Len(fresh) - 1 = hi
  /\ fresh = <<>> => hi <= p.last

\* Packets that a pipeline has not seen go on where it stopped, if what is read starts no
\* later than that.
LEMMA FreshGoesOn ==
  ASSUME NEW s \in Sources, NEW p, p.last # None => p.last \in Nat,
         NEW packets, NEW w, NEW lo \in Nat, NEW hi \in Nat, RunOfSound(s, packets, w, lo, hi),
         p.last # None => lo <= p.last + 1
  PROVE  \E a \in Nat : GoesOn(s, p, NewPackets(p, packets), a, hi)
<1> DEFINE all == AllPackets(s)
           I == {n \in DOMAIN packets : p.last = None \/ packets[n].offset > p.last}
           L == Len(packets)
           fresh == NewPackets(p, packets)
           b == IF p.last = None THEN 1 ELSE p.last - lo + 2
           a == lo + b - 1
<1>1. /\ packets \in Seq(PacketType) /\ 1 <= lo /\ lo <= hi /\ hi <= Len(all)
      /\ L = hi - lo + 1 /\ \A m \in 1 .. L : Like(s, packets[m], lo + m - 1)
  BY DEF RunOfSound
<1>2. L \in Nat /\ DOMAIN packets = 1 .. L
  BY <1>1
<1>3. \A m \in 1 .. L : packets[m].offset = lo + m - 1
  BY <1>1 DEF Like
<1>4. DOMAIN all = 1 .. Len(all) /\ Len(all) \in Nat
  BY AllPacketsAre
<1>5. b \in Nat /\ 1 <= b /\ a \in Nat
  OBVIOUS
<1>6. \A n \in 1 .. L : n \in I <=> b <= n
  <2>1. TAKE n \in 1 .. L
  <2>2. n \in I <=> p.last = None \/ lo + n - 1 > p.last
    BY <1>2, <1>3
  <2> HIDE DEF I
  <2>3. QED
    BY <1>2, <2>2
<1>7. fresh = Kept(packets, I)
  BY DEF NewPackets
<1>8. p.last # None => a = p.last + 1
  OBVIOUS
<1> HIDE DEF I, all, fresh
<1>9. CASE b <= L
  <2>1. \A n \in 1 .. L : n \in I <=> n \in b .. L
    BY <1>2, <1>5, <1>6
  <2>2. Kept(packets, I) = Kept(packets, b .. L)
    BY <1>1, <2>1, KeptAgrees
  <2> HIDE DEF b
  <2>3. PICK from \in Nat : from = b
    BY <1>5
  <2>4. PICK to \in Nat : to = L
    BY <1>2
  <2>5. 1 <= from /\ from <= to + 1 /\ to <= Len(packets)
    BY <1>5, <1>9, <2>3, <2>4
  <2>6. LET k == Kept(packets, from .. to)
        IN  /\ k \in Seq(PacketType) /\ Len(k) = to - from + 1
            /\ \A m \in 1 .. to - from + 1 : k[m] = packets[from + m - 1]
    BY ONLY <1>1, <2>5, KeptRun
  <2>7. /\ fresh \in Seq(PacketType) /\ Len(fresh) = L - b + 1
        /\ \A m \in 1 .. Len(fresh) : fresh[m] = packets[b + m - 1]
    BY <1>7, <2>2, <2>3, <2>4, <2>6
  <2> HIDE DEF L
  <2>8. ASSUME NEW m \in 1 .. Len(fresh)
        PROVE  a + m - 1 \in DOMAIN all /\ Like(s, fresh[m], a + m - 1)
    <3>1. b + m - 1 \in 1 .. L /\ fresh[m] = packets[b + m - 1] /\ m \in Nat
      BY <1>2, <1>5, <2>7
    <3>2. Like(s, fresh[m], lo + (b + m - 1) - 1)
      BY <1>1, <3>1
    <3>3. lo + (b + m - 1) - 1 = a + m - 1 /\ a + m - 1 \in 1 .. Len(all)
      BY <1>1, <1>4, <1>5, <3>1
    <3>4. QED
      BY <1>4, <3>2, <3>3
  <2>9. Len(fresh) >= 1 /\ a + Len(fresh) - 1 = hi
    BY <1>1, <1>2, <1>5, <1>9, <2>7
  <2>10. fresh # <<>>
    BY <2>9
  <2> HIDE DEF a
  <2>11. GoesOn(s, p, fresh, a, hi)
    BY <1>8, <2>7, <2>8, <2>9, <2>10 DEF GoesOn, all
  <2>12. QED
    BY <1>5, <2>11 DEF fresh
<1>10. CASE L < b
  <2>1. \A n \in 1 .. L : n \notin I
    BY <1>2, <1>5, <1>6, <1>10
  <2>2. fresh = <<>>
    BY <1>1, <1>7, <2>1, KeptNone
  <2>3. p.last # None /\ p.last \in Nat
    BY <1>1, <1>10
  <2>4. hi <= p.last
    BY <1>1, <1>10, <2>3
  <2>5. fresh \in Seq(PacketType) /\ 1 .. Len(fresh) = {}
    BY <2>2
  <2> HIDE DEF a, b
  <2>6. GoesOn(s, p, fresh, a, hi)
    BY <1>8, <2>2, <2>3, <2>4, <2>5 DEF GoesOn
  <2>7. QED
    BY <1>5, <2>6 DEF fresh
<1>11. b <= L \/ L < b
  BY <1>2, <1>5
<1>12. QED
  BY <1>9, <1>10, <1>11

\* Decoding them keeps a pipeline in place, and takes it as far as they go.
LEMMA DecodesInPlace ==
  ASSUME NEW s \in Sources, NEW p \in Pipes(s), InPlace(p, s), NEW packets,
         NEW a \in Nat, NEW hi \in Nat, GoesOn(s, p, NewPackets(p, packets), a, hi),
         ~DecodeFails(p, s, packets)
  PROVE  LET q == DecodedAll(p, s, packets)
         IN  q \in Pipes(s) /\ InPlace(q, s) /\ q.last # None /\ hi <= q.last
<1> DEFINE fresh == NewPackets(p, packets)
           N == Len(fresh)
           q == DecodedAll(p, s, packets)
<1>1. /\ fresh \in Seq(PacketType)
      /\ \A m \in 1 .. N : a + m - 1 \in DOMAIN AllPackets(s) /\ Like(s, fresh[m], a + m - 1)
      /\ p.last # None => a = p.last + 1
      /\ p.last = None => fresh # <<>>
      /\ fresh # <<>> => a + N - 1 = hi
      /\ fresh = <<>> => hi <= p.last
  BY DEF GoesOn
<1>2. fresh # <<>> => ~(p.skip >= s.samples)
  BY DEF DecodeFails
<1>3. PICK after \in [0 .. N -> Pipes(s)] : Decoding(after, p, s, fresh) /\ q = after[N]
  BY <1>1, DecodesAll, Zenon
<1>4. after[0] = p /\ \A n \in 1 .. N : after[n] = Decoded(after[n - 1], s, fresh[n])
  BY <1>3 DEF Decoding
<1>5. N \in Nat
  BY <1>1
<1>6. p.skip \in Int /\ s.samples \in Int
  BY SourceType DEF Pipes, PipeType
<1> HIDE DEF q, fresh
<1> DEFINE P == {n \in 0 .. N : InPlace(after[n], s) /\ (n > 0 => after[n].last = a + n - 1)}
<1>7. 0 \in P
  BY <1>4, <1>5
<1>8. ASSUME NEW n \in 1 .. N, n - 1 \in P PROVE n \in P
  <2> DEFINE x == after[n - 1]
             packet == fresh[n]
  <2>1. x \in Pipes(s) /\ InPlace(x, s) /\ (n - 1 > 0 => x.last = a + n - 2)
    <3>1. n - 1 \in 0 .. N
      BY <1>5
    <3>2. n - 1 > 0 => x.last = a + (n - 1) - 1
      BY <1>8
    <3>3. a + (n - 1) - 1 = a + n - 2
      BY <1>5
    <3>4. QED
      BY <1>3, <1>8, <3>1, <3>2, <3>3
  <2>2. n - 1 = 0 => x = p
    BY <1>4
  <2>3. /\ packet \in PacketType /\ packet.offset = a + n - 1
        /\ packet.offset \in DOMAIN AllPackets(s) /\ Like(s, packet, packet.offset)
    <3>1. packet \in PacketType
      BY <1>1, <1>5
    <3>2. a + n - 1 \in DOMAIN AllPackets(s) /\ Like(s, packet, a + n - 1)
      BY <1>1
    <3>3. packet.offset = a + n - 1
      BY <3>2 DEF Like
    <3>4. QED
      BY <3>1, <3>2, <3>3
  <2>4. after[n] = Decoded(x, s, packet)
    BY <1>4
  <2>5. fresh # <<>>
    BY <1>1, <1>5
  <2> HIDE DEF x, packet, P
  <2>6. x.last # None => packet.offset = x.last + 1
    <3>1. CASE n = 1
      BY <1>1, <2>2, <2>3, <3>1
    <3>2. CASE n # 1
      BY <1>5, <2>1, <2>3, <3>2
    <3>3. QED
      BY <3>1, <3>2
  <2>7. x.last = None => x.skip < s.samples
    <3>1. CASE n = 1
      BY <1>2, <1>6, <2>2, <2>5, <3>1
    <3>2. CASE n # 1
      <4>1. x.last \in Nat
        BY <1>5, <2>1, <3>2
      <4>2. QED
        BY <4>1 DEF None
    <3>3. QED
      BY <3>1, <3>2
  <2>8. InPlace(Decoded(x, s, packet), s) /\ Decoded(x, s, packet).last = packet.offset
    BY ONLY s \in Sources, <2>1, <2>3, <2>6, <2>7, DecodedInPlace
  <2>9. QED
    BY <1>5, <2>3, <2>4, <2>8 DEF P
<1>9. P = 0 .. N
  <2>1. P \in SUBSET (0 .. N)
    OBVIOUS
  <2> HIDE DEF P
  <2>2. QED
    BY ONLY <1>5, <1>7, <1>8, <2>1, UpTo
<1>10. InPlace(q, s) /\ (N > 0 => q.last = a + N - 1) /\ q \in Pipes(s)
  <2>1. N \in P
    BY <1>5, <1>9
  <2>2. QED
    BY <1>3, <1>5, <2>1
<1>11. CASE fresh = <<>>
  <2>1. N = 0 /\ q = p
    BY <1>3, <1>4, <1>11
  <2>2. p.last # None /\ hi <= p.last
    BY <1>1, <1>11
  <2>3. QED
    BY <1>10, <2>1, <2>2 DEF q
<1>12. CASE fresh # <<>>
  <2>1. N > 0 /\ a + N - 1 = hi
    BY <1>1, <1>5, <1>12
  <2>2. q.last = hi
    BY <1>10, <2>1
  <2>3. hi # None
    BY DEF None
  <2>4. QED
    BY <1>10, <2>2, <2>3 DEF q
<1>13. QED
  BY <1>11, <1>12

\* A new pipeline has nothing out of place,
LEMMA NewInPlace ==
  ASSUME NEW s \in Sources
  PROVE  InPlace(NewPipeline(s), s) /\ NewPipeline(s).last = None
<1>1. <<>> \in Seq(RunType(Shifts(s)))
  OBVIOUS
<1> DEFINE S == Seq(RunType(Shifts(s)))
<1>2. <<>> \in S
  BY <1>1
<1> HIDE DEF S
<1>3. QED
  BY <1>2, Zenon DEF InPlace, NewPipeline, S

\* nor has one after it was fed.
LEMMA RenderedInPlace ==
  ASSUME NEW s \in Sources, NEW p, NEW packets, NEW c, c.start \in Nat, EndOf(c) \in Nat,
         NEW last \in BOOLEAN, NEW q \in Pipes(s), InPlace(q, s), q = DecodedAll(p, s, packets)
  PROVE  LET r == Rendered(p, s, c, packets, last)
         IN  InPlace(r, s) /\ r.last = q.last
<1> DEFINE r == Rendered(p, s, c, packets, last)
           D == Shifts(s)
<1>1. q \in PipeType(s, D) /\ Silence \in D
  BY InPlaceType DEF Shifts
<1> HIDE DEF D
<1>2. r \in Feeds(q, s, D)
  BY <1>1, RenderedType
<1> HIDE DEF r
<1>3. r.pcm \in Seq(RunType(D)) /\ r.runs \in Seq(RunType(D))
  BY <1>2 DEF Feeds, PipeType
<1>4. r.clock = q.clock /\ r.skip = q.skip /\ r.warm = q.warm /\ r.last = q.last
  BY <1>2 DEF Feeds
<1>5. InPlace(r, s)
  BY <1>3, <1>4, Zenon DEF InPlace, D
<1>6. QED
  BY <1>4, <1>5 DEF r

\* Sound that is shifted by the rounding of a time, or is silence, or a decoder that warms up.
SoundPlaced(s, sound) == \A n \in DOMAIN sound : sound[n].shift \in Shifts(s)

\* What is heard of runs that are in place is.
LEMMA HeardPlaced ==
  ASSUME NEW s, NEW runs \in Seq(RunType(Shifts(s))), NEW from, NEW to
  PROVE  SoundPlaced(s, Heard(runs, from, to))
<1> DEFINE R == RunType(Shifts(s))
           I == {n \in DOMAIN runs : runs[n].to > from /\ runs[n].from < to}
           inside == Kept(runs, I)
           heard == Heard(runs, from, to)
<1>1. heard = [n \in DOMAIN inside |->
                 [inside[n] EXCEPT !.from = Larger(@, from), !.to = Smaller(@, to)]]
  BY DEF Heard
<1>2. \A r \in R : /\ DOMAIN r = {"from", "to", "shift"} /\ r.shift \in Shifts(s)
  BY DEF RunType
<1>3. runs \in Seq(R)
  OBVIOUS
<1> HIDE DEF R, I
<1>4. inside \in Seq(R)
  BY <1>3, KeptType
<1> HIDE DEF inside, heard
<1>5. ASSUME NEW n \in DOMAIN heard PROVE heard[n].shift \in Shifts(s)
  <2>0. DOMAIN heard = DOMAIN inside
    BY <1>1
  <2>1. n \in DOMAIN inside /\ inside[n] \in R
    BY <1>4, <2>0
  <2>2. heard[n] = [inside[n] EXCEPT !.from = Larger(@, from), !.to = Smaller(@, to)]
    BY <1>1, <2>1
  <2>3. heard[n].shift = inside[n].shift
    BY <1>2, <2>1, <2>2
  <2>4. QED
    BY <1>2, <2>1, <2>3
<1>6. QED
  BY <1>5 DEF SoundPlaced, heard

\* A pipeline has decoded all of the sound before the end of a segment.
Reaches(p, s, i) ==
  LET all == AllPackets(s)
  IN  /\ i \in DOMAIN SegmentPlan(s) /\ p.last # None
      /\ \A n \in DOMAIN all : PtsMs(all[n]) < EndOf(SegmentPlan(s)[i]) => n <= p.last

\* A pipeline may go on with a segment: it is new or has reached its start.
Ready(p, s, i) == p.last = None \/ (i - 1 \in DOMAIN SegmentPlan(s) /\ Reaches(p, s, i - 1))

\* What is read for a segment goes on where a pipeline that is ready for it stopped.
LEMMA SegmentGoesOn ==
  ASSUME NEW s \in Sources, NEW i \in DOMAIN SegmentPlan(s), NEW p \in Pipes(s),
         InPlace(p, s), Ready(p, s, i)
  PROVE  LET c == SegmentPlan(s)[i]
             w == InputWindow(p, s, c)
             range == RangeRead(s, PacketsRead(s, MediaWindows(s, p, c), c)[2], w)
         IN  range # <<>> =>
               \E lo, hi, a \in Nat : /\ RunOfSound(s, range, w, lo, hi)
                                      /\ GoesOn(s, p, NewPackets(p, range), a, hi)
<1> DEFINE c == SegmentPlan(s)[i]
           w == InputWindow(p, s, c)
           range == RangeRead(s, PacketsRead(s, MediaWindows(s, p, c), c)[2], w)
           all == AllPackets(s)
<1> SUFFICES ASSUME range # <<>>
             PROVE  \E lo, hi, a \in Nat : /\ RunOfSound(s, range, w, lo, hi)
                                           /\ GoesOn(s, p, NewPackets(p, range), a, hi)
  OBVIOUS
<1>1. p.rate \in {None, s.rate}
  BY DEF Pipes, PipeType
<1>2. c.start \in Nat /\ EndOf(c) \in Nat
  BY PlanIsGapless
<1>3. PICK lo \in Nat, hi \in Nat : RunOfSound(s, range, w, lo, hi)
  BY <1>1, RangeOfSound
<1> HIDE DEF c
<1>4. w.start \in Nat /\ w.end \in Nat /\ w.start <= c.start /\ EndOf(c) < w.end
  BY <1>1, <1>2, SoundAround
<1> HIDE DEF w, range, all
<1>5. /\ all \in Seq(PacketType) /\ DOMAIN all = 1 .. Len(all) /\ Len(all) \in Nat
      /\ \A n \in DOMAIN all : PtsMs(all[n]) \in Nat
  BY AllPacketsAre DEF all
<1>6. /\ lo <= hi /\ hi <= Len(all)
      /\ \A n \in DOMAIN all : n < lo => PtsMs(all[n]) < w.start
  BY <1>3 DEF RunOfSound, all
<1>7. p.last # None => p.last \in Nat
  BY DEF InPlace
<1>8. p.last # None => lo <= p.last + 1
  <2>1. SUFFICES ASSUME p.last # None, p.last + 1 < lo PROVE FALSE
    BY <1>7
  <2> DEFINE d == SegmentPlan(s)[i - 1]
             n == p.last + 1
  <2>2. i - 1 \in DOMAIN SegmentPlan(s) /\ \A m \in DOMAIN all : PtsMs(all[m]) < EndOf(d) => m <= p.last
    BY <2>1 DEF Ready, Reaches, all
  <2>3. EndOf(d) = c.start
    <3>1. SegmentPlan(s) \in Seq(PlannedChunks)
      BY PlanIsGapless
    <3>2. i \in Int /\ (i - 1) + 1 = i
      BY <3>1
    <3>3. QED
      BY <2>2, <3>2, PlanIsGapless DEF c
  <2> HIDE DEF d
  <2>4. n \in DOMAIN all /\ ~(n <= p.last)
    BY <1>5, <1>6, <1>7, <2>1
  <2>5. PtsMs(all[n]) < w.start /\ PtsMs(all[n]) \in Nat
    BY <1>5, <1>6, <2>1, <2>4
  <2>6. PtsMs(all[n]) < EndOf(d)
    BY <1>2, <1>4, <2>3, <2>5
  <2>7. QED
    BY <2>2, <2>4, <2>6
<1>9. PICK a \in Nat : GoesOn(s, p, NewPackets(p, range), a, hi)
  BY <1>3, <1>7, <1>8, FreshGoesOn
<1>10. QED
  BY <1>3, <1>9

\* One segment: a pipeline that is ready for it goes on without a gap, and reaches its end.
LEMMA RenderReaches ==
  ASSUME NEW s \in Sources, NEW i \in DOMAIN SegmentPlan(s), NEW p \in Pipes(s),
         InPlace(p, s), Ready(p, s, i), NEW last \in BOOLEAN
  PROVE  LET c == SegmentPlan(s)[i]
             range == RangeRead(s, PacketsRead(s, MediaWindows(s, p, c), c)[2], InputWindow(p, s, c))
             r == Rendered(p, s, c, range, last)
         IN  range # <<>> /\ ~DecodeFails(p, s, range) => InPlace(r, s) /\ Reaches(r, s, i)
<1> DEFINE c == SegmentPlan(s)[i]
           w == InputWindow(p, s, c)
           range == RangeRead(s, PacketsRead(s, MediaWindows(s, p, c), c)[2], w)
           r == Rendered(p, s, c, range, last)
           q == DecodedAll(p, s, range)
           all == AllPackets(s)
<1> SUFFICES ASSUME range # <<>>, ~DecodeFails(p, s, range) PROVE InPlace(r, s) /\ Reaches(r, s, i)
  OBVIOUS
<1>1. p.rate \in {None, s.rate}
  BY DEF Pipes, PipeType
<1>2. c.start \in Nat /\ EndOf(c) \in Nat
  BY PlanIsGapless
<1>3. PICK lo, hi, a \in Nat : /\ RunOfSound(s, range, w, lo, hi)
                               /\ GoesOn(s, p, NewPackets(p, range), a, hi)
  BY SegmentGoesOn
<1> HIDE DEF c
<1>4. w.start \in Nat /\ w.end \in Nat /\ EndOf(c) < w.end
  BY <1>1, <1>2, SoundAround
<1> HIDE DEF w, range, q, r, all
<1>5. /\ all \in Seq(PacketType) /\ DOMAIN all = 1 .. Len(all) /\ Len(all) \in Nat
      /\ \A n \in DOMAIN all : PtsMs(all[n]) \in Nat
  BY AllPacketsAre DEF all
<1>6. \A n \in DOMAIN all : PtsMs(all[n]) < w.end => n <= hi
  BY <1>3 DEF RunOfSound, all
<1>7. q \in Pipes(s) /\ InPlace(q, s) /\ q.last # None /\ hi <= q.last
  BY <1>3, DecodesInPlace DEF q
<1>8. InPlace(r, s) /\ r.last = q.last
  BY <1>2, <1>7, RenderedInPlace DEF q, r
<1>9. \A n \in DOMAIN all : PtsMs(all[n]) < EndOf(c) => n <= r.last
  <2>1. TAKE n \in DOMAIN all
  <2>2. SUFFICES ASSUME PtsMs(all[n]) < EndOf(c) PROVE n <= r.last
    OBVIOUS
  <2>3. PtsMs(all[n]) \in Nat /\ n \in Int
    BY <1>5
  <2>4. PtsMs(all[n]) < w.end
    BY <1>2, <1>4, <2>2, <2>3
  <2>5. n <= hi
    BY <1>6, <2>4
  <2>6. r.last \in Nat
    BY <1>7, <1>8 DEF InPlace
  <2>7. QED
    BY <1>7, <1>8, <2>3, <2>5, <2>6
<1>10. Reaches(r, s, i)
  BY <1>7, <1>8, <1>9 DEF Reaches, all, c
<1>11. QED
  BY <1>8, <1>10

(***************************************************************************)
(* The invariant: the current worker's pipeline is in place and has        *)
(* decoded the sound of the segment it completed, and every fragment's     *)
(* sound is in its place.                                                  *)
(***************************************************************************)
SoundInPlace ==
  /\ PipeTyped /\ InPlace(pipe, source)
  /\ IF pipe.completed = None THEN pipe.last = None ELSE Reaches(pipe, source, pipe.completed)
  /\ \A i \in DOMAIN chunks : \A a \in made[i] : SoundPlaced(source, a.sound)

\* A pipeline that is prepared for a segment is in place, and ready.
LEMMA PreparedInPlace ==
  ASSUME NEW s \in Sources, NEW p \in Pipes(s), InPlace(p, s), NEW i \in Int,
         IF p.completed = None THEN p.last = None ELSE Reaches(p, s, p.completed)
  PROVE  /\ Prepared(p, s, i) \in Pipes(s) /\ InPlace(Prepared(p, s, i), s)
         /\ Ready(Prepared(p, s, i), s, i)
<1>1. CASE Prepared(p, s, i) = NewPipeline(s)
  <2>1. NewPipeline(s) \in Pipes(s)
    BY NewPipelineType DEF Pipes
  <2>2. QED
    BY <1>1, <2>1, NewInPlace DEF Ready
<1>2. CASE Prepared(p, s, i) = p /\ (p.completed = None \/ p.completed + 1 = i)
  <2>1. p.completed \in Int
    BY DEF Pipes, PipeType
  <2>2. p.completed + 1 = i => p.completed = i - 1
    BY <2>1
  <2>3. Ready(p, s, i)
    BY <1>2, <2>2 DEF Ready, Reaches
  <2>4. QED
    BY <1>2, <2>3
<1>3. QED
  BY <1>1, <1>2 DEF Prepared

\* Every step keeps it.
LEMMA SoundInPlaceNext == SoundInPlace /\ [Next]_vars => SoundInPlace'
<1> SUFFICES ASSUME SoundInPlace, [Next]_vars PROVE SoundInPlace'
  OBVIOUS
<1>0. /\ source \in Sources /\ chunks = SegmentPlan(source) /\ pipe \in Pipes(source)
      /\ DOMAIN made = DOMAIN chunks /\ InPlace(pipe, source)
      /\ IF pipe.completed = None THEN pipe.last = None ELSE Reaches(pipe, source, pipe.completed)
      /\ \A i \in DOMAIN chunks : \A a \in made[i] : SoundPlaced(source, a.sound)
  BY DEF SoundInPlace, PipeTyped, IInv
<1>1. PipeTyped'
  BY PipeTypedNext DEF SoundInPlace
<1>2. /\ InPlace(NewPipeline(source), source) /\ NewPipeline(source).last = None
      /\ NewPipeline(source).completed = None
  BY <1>0, NewInPlace DEF NewPipeline
<1>3. InPlace(Poisoned, source) /\ Poisoned.last = None /\ Poisoned.completed = None
  <2>1. NewPipeline(source) \in Pipes(source)
    BY <1>0, NewPipelineType DEF Pipes
  <2> DEFINE p == NewPipeline(source)
             x == Poisoned
  <2>2. /\ x.pcm = p.pcm /\ x.runs = p.runs /\ x.last = p.last /\ x.skip = p.skip
        /\ x.clock = p.clock /\ x.warm = p.warm /\ x.completed = p.completed
    BY <2>1 DEF Poisoned, Pipes, PipeType
  <2> HIDE DEF p, x
  <2>3. InPlace(x, source)
    BY <1>2, <2>2, Zenon DEF InPlace, p
  <2>4. QED
    BY <1>2, <2>2, <2>3 DEF p, x
<1>4. ASSUME NEW i \in DOMAIN chunks, Transcode(i) PROVE SoundInPlace'
  <2> DEFINE p == Prepared(pipe, source, i)
             c == chunks[i]
             packets == PacketsRead(source, MediaWindows(source, p, c), c)
             range == RangeRead(source, packets[2], InputWindow(p, source, c))
             q == Rendered(p, source, c, range, IsLast(i))
             b == Fragment(q, source, c, packets[1])
  <2>1. UNCHANGED <<source, chunks>>
    BY <1>4, Zenon DEF Transcode
  <2>2. \/ pipe' = Poisoned /\ made' = made
        \/ /\ range # <<>> /\ ~DecodeFails(p, source, range)
           /\ pipe' = [q EXCEPT !.completed = i]
           /\ made' = [made EXCEPT ![i] = @ \cup {b}]
    BY <1>4, Zenon DEF Transcode, Prepare, Read, Render, Finish, Complete, Refuse, Spoiled, Renders
  <2>3. CASE pipe' = Poisoned /\ made' = made
    BY <1>0, <1>1, <1>3, <2>1, <2>3 DEF SoundInPlace
  <2>4. CASE /\ range # <<>> /\ ~DecodeFails(p, source, range)
             /\ pipe' = [q EXCEPT !.completed = i]
             /\ made' = [made EXCEPT ![i] = @ \cup {b}]
    <3>1. i \in Int /\ i # None /\ i \in DOMAIN SegmentPlan(source)
      <4>1. chunks \in Seq(PlannedChunks)
        BY <1>0, PlanIsGapless
      <4>2. QED
        BY <1>0, <4>1 DEF None
    <3>2. p \in Pipes(source) /\ InPlace(p, source) /\ Ready(p, source, i)
      BY <1>0, <3>1, PreparedInPlace
    <3>3. IsLast(i) \in BOOLEAN
      BY DEF IsLast
    <3>4. c = SegmentPlan(source)[i]
      BY <1>0
    <3> HIDE DEF p
    <3>5. InPlace(q, source) /\ Reaches(q, source, i)
      BY <1>0, <2>4, <3>1, <3>2, <3>3, <3>4, RenderReaches
    <3>6. SoundPlaced(source, b.sound)
      <4> DEFINE from == CodedStart(c, source.rate) - FrameSamples
                 to == CodedEnd(c, source.rate)
      <4>1. b.sound = Heard(q.runs, from, to)
        BY DEF Fragment
      <4>2. q.runs \in Seq(RunType(Shifts(source)))
        BY <3>5 DEF InPlace
      <4> HIDE DEF from, to, b, q
      <4>3. SoundPlaced(source, Heard(q.runs, from, to))
        BY <4>2, HeardPlaced
      <4>4. QED
        BY <4>1, <4>3
    <3>7. q \in PipeType(source, Int)
      <4>1. packets[2] \in Seq(PacketType)
        BY <1>0, <3>2, <3>4, SoundReadType, SMTT(30) DEF Pipes, PipeType
      <4>2. range \in Seq(PacketType)
        <5> HIDE DEF packets
        <5>1. QED
          BY <4>1, RangeType
      <4>3. c.start \in Nat /\ EndOf(c) \in Nat
        BY <1>0, PlanIsGapless
      <4>4. Silence \in Int
        BY DEF Silence
      <4> HIDE DEF range, c
      <4>5. DecodedAll(p, source, range) \in PipeType(source, Int)
        BY <1>0, <3>2, <4>2, DecodedAllType DEF Pipes
      <4>6. q \in Feeds(DecodedAll(p, source, range), source, Int)
        BY <1>0, <3>3, <4>3, <4>4, <4>5, RenderedType
      <4>7. QED
        BY <4>6 DEF Feeds
    <3> HIDE DEF q, b, range, packets, c
    <3> DEFINE x == [q EXCEPT !.completed = i]
    <3>8. /\ x.pcm = q.pcm /\ x.runs = q.runs /\ x.last = q.last /\ x.skip = q.skip
          /\ x.clock = q.clock /\ x.warm = q.warm /\ x.completed = i
      BY <3>7 DEF PipeType
    <3> HIDE DEF x
    <3>9. InPlace(x, source)
      BY <3>5, <3>8, Zenon DEF InPlace
    <3>10. Reaches(x, source, i)
      BY <3>5, <3>8, Zenon DEF Reaches
    <3>11. \A n \in DOMAIN chunks : \A a \in made'[n] : SoundPlaced(source, a.sound)
      <4>1. \A n \in DOMAIN chunks : \A a \in made'[n] : a \in made[n] \/ a = b
        BY <1>0, <2>4
      <4>2. QED
        BY <1>0, <3>6, <4>1
    <3>12. pipe' = x
      BY <2>4 DEF x
    <3>13. QED
      BY <1>1, <2>1, <3>1, <3>8, <3>9, <3>10, <3>11, <3>12 DEF SoundInPlace
  <2>5. QED
    BY <2>2, <2>3, <2>4
<1>5. CASE Break
  <2>1. pipe' = Poisoned /\ UNCHANGED <<source, chunks, made>>
    BY <1>5, Zenon DEF Break, Spoiled
  <2>2. QED
    BY <1>0, <1>1, <1>3, <2>1 DEF SoundInPlace
<1>6. CASE NewWorker
  <2>1. pipe' = NewPipeline(source) /\ UNCHANGED <<source, chunks, made>>
    BY <1>6, Zenon DEF NewWorker
  <2>2. QED
    BY <1>0, <1>1, <1>2, <2>1 DEF SoundInPlace
<1>7. CASE UNCHANGED vars
  BY <1>0, <1>1, <1>7 DEF vars, SoundInPlace
<1>8. QED
  BY <1>4, <1>5, <1>6, <1>7 DEF Next

\* It holds at first.
LEMMA SoundInPlaceInit == Init => SoundInPlace
<1> SUFFICES ASSUME Init PROVE SoundInPlace
  OBVIOUS
<1>1. /\ source \in Sources /\ pipe = NewPipeline(source)
      /\ \A i \in DOMAIN chunks : made[i] = {}
  BY DEF Init
<1>2. PipeTyped
  BY PipeTypedInit
<1>3. InPlace(pipe, source) /\ pipe.last = None
  BY <1>1, NewInPlace
<1>4. pipe.completed = None
  BY <1>1 DEF NewPipeline
<1>5. QED
  BY <1>1, <1>2, <1>3, <1>4 DEF SoundInPlace

\* The drifts of a source are no further apart than its spread.
LEMMA DriftsApart ==
  ASSUME NEW s \in Sources, NEW x \in Drifts(s), NEW y \in Drifts(s)
  PROVE  x - y <= Spread(s)
<1> DEFINE all == AllPackets(s)
           N == Len(all)
           other == IF Steady(s) THEN s.skip ELSE 0
           kinds == {s.skip, other}
           f(d) == [n \in 0 .. N - 1 |-> Drift(s, all[n + 1], d)]
           D == Drifts(s)
<1>1. all \in Seq(PacketType) /\ s.skip \in Nat /\ other \in Nat
  BY AllPacketsAre, SourceType
<1>2. D = {Drift(s, packet, dropped) : packet \in ToSet(all), dropped \in kinds}
  <2>1. \A d : StampDrifts(s, d) = {Drift(s, packet, d) : packet \in ToSet(all)}
    BY DEF StampDrifts
  <2>2. D = StampDrifts(s, s.skip) \cup StampDrifts(s, other)
    BY DEF Drifts
  <2> HIDE DEF all, other, D
  <2>3. QED
    BY <2>1, <2>2
<1> HIDE DEF all, other
<1>3. N \in Nat /\ DOMAIN all = 1 .. N /\ \A n \in 1 .. N : all[n] \in PacketType
  BY <1>1
<1>4. ToSet(all) = {all[n] : n \in 1 .. N}
  BY <1>3 DEF ToSet
<1> HIDE DEF D, N
<1>5. \A z \in D : \E n \in 1 .. N, d \in kinds : z = Drift(s, all[n], d)
  BY <1>2, <1>4
<1>6. \A n \in 1 .. N, d \in kinds : Drift(s, all[n], d) \in D
  BY <1>2, <1>4
<1>7. D \subseteq Int
  <2>1. \A n \in 1 .. N, d \in kinds : Drift(s, all[n], d) \in Int
    BY <1>1, <1>3, DriftType
  <2>2. QED
    BY <1>5, <2>1
<1>8. N > 0
  <2>1. x \in D
    BY DEF D
  <2>2. QED
    BY <1>3, <1>5, <2>1
<1>9. \A d \in kinds : f(d) \in [0 .. N - 1 -> Int]
  <2>1. \A d \in kinds, n \in 0 .. N - 1 : Drift(s, all[n + 1], d) \in Int
    <3>1. \A n \in 0 .. N - 1 : n + 1 \in 1 .. N
      BY <1>3
    <3>2. QED
      BY <1>6, <1>7, <3>1
  <2>2. QED
    BY <2>1
<1>10. \A d \in kinds : \A n \in 1 .. N : n - 1 \in 0 .. N - 1 /\ f(d)[n - 1] = Drift(s, all[n], d)
  <2>1. \A n \in 1 .. N : n - 1 \in 0 .. N - 1 /\ (n - 1) + 1 = n
    BY <1>3
  <2>2. QED
    BY <2>1
<1>11. \A d \in kinds : \A n \in 0 .. N - 1 : f(d)[n] \in D
  <2>1. \A n \in 0 .. N - 1 : n + 1 \in 1 .. N
    BY <1>3
  <2>2. QED
    BY <1>6, <2>1
<1>12. ASSUME NEW g \in [0 .. N - 1 -> Int], NEW h \in [0 .. N - 1 -> Int],
              \A n \in 0 .. N - 1 : g[n] \in D /\ h[n] \in D,
              \A z \in D : \E n \in 0 .. N - 1 : z = g[n] \/ z = h[n]
       PROVE  /\ \E low \in D : \A z \in D : low <= z
              /\ \E high \in D : \A z \in D : high >= z
  <2>1. PICK k \in Nat : k = N - 1
    BY <1>3, <1>8
  <2>2. g \in [0 .. k -> Int] /\ h \in [0 .. k -> Int]
    BY <2>1
  <2>3. PICK m \in 0 .. k : \A n \in 0 .. k : g[m] <= g[n]
    BY <2>2, Lowest
  <2>4. PICK n \in 0 .. k : \A j \in 0 .. k : h[n] <= h[j]
    BY <2>2, Lowest
  <2>5. PICK u \in 0 .. k : \A j \in 0 .. k : g[u] >= g[j]
    BY <2>2, Highest
  <2>6. PICK v \in 0 .. k : \A j \in 0 .. k : h[v] >= h[j]
    BY <2>2, Highest
  <2>7. \A j \in 0 .. k : g[j] \in Int /\ h[j] \in Int /\ g[j] \in D /\ h[j] \in D
    BY <1>12, <2>1, <2>2
  <2>8. ASSUME NEW z \in D
        PROVE  /\ g[m] <= z \/ h[n] <= z
               /\ g[u] >= z \/ h[v] >= z
               /\ z \in Int
    <3>1. PICK j \in 0 .. k : z = g[j] \/ z = h[j]
      BY <1>12, <2>1
    <3>2. QED
      BY <2>3, <2>4, <2>5, <2>6, <2>7, <3>1
  <2>9. \E low \in D : \A z \in D : low <= z
    <3>1. CASE g[m] <= h[n]
      <4>1. \A z \in D : g[m] <= z
        BY <2>7, <2>8, <3>1
      <4>2. QED
        BY <2>7, <4>1
    <3>2. CASE ~(g[m] <= h[n])
      <4>1. \A z \in D : h[n] <= z
        BY <2>7, <2>8, <3>2
      <4>2. QED
        BY <2>7, <4>1
    <3>3. QED
      BY <3>1, <3>2
  <2>10. \E high \in D : \A z \in D : high >= z
    <3>1. CASE g[u] >= h[v]
      <4>1. \A z \in D : g[u] >= z
        BY <2>7, <2>8, <3>1
      <4>2. QED
        BY <2>7, <4>1
    <3>2. CASE ~(g[u] >= h[v])
      <4>1. \A z \in D : h[v] >= z
        BY <2>7, <2>8, <3>2
      <4>2. QED
        BY <2>7, <4>1
    <3>3. QED
      BY <3>1, <3>2
  <2>11. QED
    BY <2>9, <2>10
<1>13. /\ \E low \in D : \A z \in D : low <= z
       /\ \E high \in D : \A z \in D : high >= z
  <2> DEFINE g == f(other)
             h == f(s.skip)
  <2>1. g \in [0 .. N - 1 -> Int] /\ h \in [0 .. N - 1 -> Int]
    BY <1>9
  <2>2. \A n \in 0 .. N - 1 : g[n] \in D /\ h[n] \in D
    BY <1>11
  <2>3. \A z \in D : \E n \in 0 .. N - 1 : z = g[n] \/ z = h[n]
    <3>1. TAKE z \in D
    <3>2. PICK n \in 1 .. N, d \in kinds : z = Drift(s, all[n], d)
      BY <1>5
    <3>3. n - 1 \in 0 .. N - 1 /\ z = f(d)[n - 1]
      BY <1>10, <3>2
    <3>4. z = g[n - 1] \/ z = h[n - 1]
      BY <3>3
    <3>5. QED
      BY <3>3, <3>4
  <2> HIDE DEF g, h
  <2>4. QED
    BY ONLY <1>12, <2>1, <2>2, <2>3
<1>14. SmallestOf(D) \in D /\ \A z \in D : SmallestOf(D) <= z
  BY <1>13 DEF SmallestOf
<1>15. LargestOf(D) \in D /\ \A z \in D : LargestOf(D) >= z
  BY <1>13 DEF LargestOf
<1>16. x \in D /\ y \in D
  BY DEF D
<1> DEFINE low == SmallestOf(D)
           high == LargestOf(D)
<1>17. low \in Int /\ high \in Int /\ x \in Int /\ y \in Int /\ low <= y /\ x <= high
  BY <1>7, <1>14, <1>15, <1>16
<1>18. Spread(s) = high - low
  BY DEF Spread, D
<1> HIDE DEF low, high
<1>19. QED
  BY <1>17, <1>18

\* Sound in its place is where the source has it, but for the rounding of its times.
LEMMA InPlaceIsRounding == SoundInPlace => SeamsAreRounding
<1> SUFFICES ASSUME SoundInPlace PROVE SeamsAreRounding
  OBVIOUS
<1> DEFINE runs == UNION {UNION {ToSet(a.sound) : a \in made[i]} : i \in DOMAIN chunks}
           heard == {r.shift : r \in {x \in runs : x.shift \notin {Silence, Cold}}}
<1>1. source \in Sources /\ \A i \in DOMAIN chunks : \A a \in made[i] : SoundPlaced(source, a.sound)
  BY DEF SoundInPlace, PipeTyped, IInv
<1>2. ASSUME NEW r \in runs PROVE r.shift \in Shifts(source)
  <2>0. PICK i \in DOMAIN chunks : r \in UNION {ToSet(a.sound) : a \in made[i]}
    OBVIOUS
  <2>1. PICK a \in made[i] : r \in ToSet(a.sound)
    BY <2>0
  <2>2. PICK n \in DOMAIN a.sound : r = a.sound[n]
    BY <2>1 DEF ToSet
  <2>3. QED
    BY <1>1, <2>2 DEF SoundPlaced
<1> HIDE DEF runs
<1>3. heard \subseteq Drifts(source)
  BY <1>2 DEF Shifts
<1> HIDE DEF heard
<1>4. \A x, y \in heard : x - y <= Spread(source)
  BY <1>1, <1>3, DriftsApart
<1>5. QED
  BY <1>4 DEF SeamsAreRounding, heard, runs

\* Whatever is asked for, in any order and by any workers, wherever they stop, all sound
\* but what the pipeline makes up lies where the source has it, up to the rounding of the
\* source's time stamps.
THEOREM SeamsRounded == Spec => []SeamsAreRounding
<1>1. Init => SoundInPlace
  BY SoundInPlaceInit
<1>2. SoundInPlace /\ [Next]_vars => SoundInPlace'
  BY SoundInPlaceNext
<1>3. SoundInPlace => SeamsAreRounding
  BY InPlaceIsRounding
<1>4. QED
  BY <1>1, <1>2, <1>3, PTL DEF Spec

-----------------------------------------------------------------------------
(***************************************************************************)
(* Sums and products with rounding, as the samples of a time.              *)
(***************************************************************************)
\* Products keep an order.
LEMMA ProductOrder ==
  ASSUME NEW a \in Int, NEW b \in Int, a <= b, NEW k \in Nat
  PROVE  a * k \in Int /\ b * k \in Int /\ a * k <= b * k
<1>1. b - a \in Nat /\ b = a + (b - a)
  OBVIOUS
<1> DEFINE d == b - a
<1>2. d \in Nat /\ b = a + d
  BY <1>1
<1> HIDE DEF d
<1>3. d * k \in Nat /\ a * k \in Int
  BY <1>2
<1>4. b * k = a * k + d * k
  BY <1>2
<1>5. QED
  BY <1>3, <1>4

\* Times are rounded to the nearest sample.
LEMMA RoundedSamples ==
  ASSUME NEW units \in Nat, NEW scale \in Nat, scale > 0, NEW rate \in Nat
  PROVE  LET x == ToSamples(units, scale, rate)
             half == scale \div 2
         IN  /\ x \in Nat /\ half \in Nat /\ 2 * half <= scale /\ scale <= 2 * half + 1
             /\ units * rate \in Nat
             /\ x * scale <= units * rate + half
             /\ units * rate + half < x * scale + scale
<1> DEFINE x == ToSamples(units, scale, rate)
           whole == units \div scale
           part == units % scale
           half == scale \div 2
           rest == part * rate + half
           y == rest \div scale
<1>1. whole \in Nat /\ part \in Nat /\ units = scale * whole + part
  OBVIOUS
<1>2. half \in Nat /\ 2 * half <= scale /\ scale <= 2 * half + 1
  OBVIOUS
<1>3. x = whole * rate + y /\ x \in Nat
  BY NaturalSamples DEF ToSamples
<1> HIDE DEF x, whole, part, half
<1>4. rest \in Nat /\ part * rate \in Nat /\ whole * rate \in Nat
  BY <1>1, <1>2
<1>5. rest = part * rate + half
  OBVIOUS
<1> HIDE DEF rest
<1>6. y \in Nat /\ y * scale <= rest /\ rest < y * scale + scale
  <2>1. y \in Nat /\ rest = scale * y + (rest % scale) /\ rest % scale \in 0 .. scale - 1
    BY <1>4
  <2> HIDE DEF y
  <2>2. scale * y = y * scale /\ y * scale \in Nat
    BY <2>1
  <2>3. QED
    BY <1>4, <2>1, <2>2
<1> HIDE DEF y
<1>7. x * scale = (whole * rate) * scale + y * scale
  <2> DEFINE w == whole * rate
  <2>1. w \in Nat /\ x = w + y
    BY <1>3, <1>4
  <2> HIDE DEF w
  <2>2. x * scale = w * scale + y * scale
    BY <1>6, <2>1
  <2>3. QED
    BY <2>2 DEF w
<1>8. units * rate = (whole * rate) * scale + part * rate
  <2>1. units * rate = (scale * whole) * rate + part * rate
    BY <1>1
  <2>2. (scale * whole) * rate = (whole * rate) * scale
    BY <1>1
  <2>3. QED
    BY <2>1, <2>2
<1>9. (whole * rate) * scale \in Nat
  BY <1>4
<1> DEFINE a == (whole * rate) * scale
           b == part * rate
           c == y * scale
<1>10. a \in Nat /\ b \in Nat /\ c \in Nat
  BY <1>4, <1>6, <1>9
<1>11. x * scale = a + c /\ units * rate = a + b /\ c <= b + half /\ b + half < c + scale
  BY <1>5, <1>6, <1>7, <1>8
<1> HIDE DEF a, b, c
<1>12. QED
  BY <1>2, <1>3, <1>10, <1>11 DEF x, half

\* Of two times in different units, the earlier one is no later in samples.
LEMMA RoundedOrder ==
  ASSUME NEW u \in Nat, NEW s \in Nat, s > 0, NEW v \in Nat, NEW t \in Nat, t > 0,
         NEW rate \in Nat, u * t <= v * s
  PROVE  ToSamples(u, s, rate) <= ToSamples(v, t, rate)
<1> DEFINE x == ToSamples(u, s, rate)
           y == ToSamples(v, t, rate)
           g == s \div 2
           h == t \div 2
<1>1. /\ x \in Nat /\ g \in Nat /\ 2 * g <= s /\ u * rate \in Nat /\ x * s <= u * rate + g
  BY RoundedSamples
<1>2. /\ y \in Nat /\ h \in Nat /\ t <= 2 * h + 1 /\ v * rate \in Nat
      /\ v * rate + h < y * t + t
  BY RoundedSamples
<1> HIDE DEF x, y, g, h
<1> SUFFICES ASSUME y + 1 <= x PROVE FALSE
  BY <1>1, <1>2 DEF x, y
<1> DEFINE ur == u * rate
           vr == v * rate
           st == s * t
           z == y + 1
<1>3. /\ ur \in Nat /\ vr \in Nat /\ st \in Nat /\ z \in Nat /\ z <= x
  BY <1>1, <1>2
<1>4. z * st <= ur * t + g * t
  <2>1. x * s \in Int /\ ur + g \in Int /\ x * s <= ur + g
    BY <1>1
  <2> DEFINE m == x * s
             n == ur + g
  <2>2. m * t <= n * t
    <3> HIDE DEF m, n
    <3>1. QED
      BY <2>1, ProductOrder DEF m, n
  <2>3. m * t = x * st
    BY <1>1
  <2>4. n * t = ur * t + g * t
    BY <1>1
  <2>5. z * st <= x * st
    <3> HIDE DEF z, st
    <3>1. QED
      BY <1>1, <1>3, ProductOrder
  <2>6. z * st \in Int /\ x * st \in Int /\ m * t \in Int /\ n * t \in Int
    <3> HIDE DEF z, st, m, n
    <3>1. QED
      BY <1>1, <1>3, <2>1 DEF m, n
  <2> DEFINE A == z * st
             B == x * st
             C == ur * t + g * t
  <2>7. A \in Int /\ B \in Int /\ C \in Int /\ A <= B /\ B <= C
    BY <2>2, <2>3, <2>4, <2>5, <2>6
  <2> HIDE DEF A, B, C
  <2>8. A <= C
    BY <2>7
  <2>9. QED
    BY <2>8 DEF A, C
<1>5. vr * s + (h + 1) * s <= z * st
  <2> DEFINE m == vr + (h + 1)
             n == z * t
  <2>1. z * t = y * t + t /\ y * t \in Int
    BY <1>2
  <2>2. m \in Int /\ n \in Int /\ m <= n
    <3> HIDE DEF z, vr
    <3> DEFINE o == y * t
    <3>1. o \in Int /\ n = o + t /\ vr + h < o + t
      BY <1>2, <2>1 DEF vr
    <3> HIDE DEF o, n
    <3>2. QED
      BY <1>2, <1>3, <3>1
  <2>3. m * s <= n * s
    <3> HIDE DEF m, n
    <3>1. QED
      BY <2>2, ProductOrder
  <2>4. m * s = vr * s + (h + 1) * s
    BY <1>2, <1>3
  <2>5. n * s = z * st
    BY <1>3
  <2>6. QED
    BY <2>3, <2>4, <2>5
<1>6. ur * t <= vr * s
  <2> DEFINE m == u * t
             n == v * s
  <2>1. m \in Int /\ n \in Int /\ m <= n
    OBVIOUS
  <2>2. m * rate <= n * rate
    <3> HIDE DEF m, n
    <3>1. QED
      BY <2>1, ProductOrder
  <2>3. m * rate = ur * t /\ n * rate = vr * s
    OBVIOUS
  <2>4. QED
    BY <2>2, <2>3
<1>7. g * t < (h + 1) * s
  <2> DEFINE m == 2 * g
             n == s
             k == 2 * h + 1
  <2>1. (2 * g) * t <= s * t
    BY <1>1, ProductOrder
  <2>2. t * s <= (2 * h + 1) * s
    BY <1>2, ProductOrder
  <2>3. (2 * h + 1) * s < (2 * (h + 1)) * s
    <3>1. (2 * (h + 1)) * s = (2 * h + 1) * s + s
      BY <1>2
    <3>2. (2 * h + 1) * s \in Int
      BY <1>2
    <3>3. QED
      BY <3>1, <3>2
  <2>4. (2 * g) * t = 2 * (g * t) /\ (2 * (h + 1)) * s = 2 * ((h + 1) * s) /\ t * s = s * t
    BY <1>1, <1>2
  <2>5. g * t \in Int /\ (h + 1) * s \in Int /\ s * t \in Int /\ (2 * h + 1) * s \in Int
    BY <1>1, <1>2
  <2> DEFINE A == g * t
             B == (h + 1) * s
             C == s * t
             E == (2 * h + 1) * s
  <2>6. A \in Int /\ B \in Int /\ C \in Int /\ E \in Int
        /\ 2 * A <= C /\ C <= E /\ E < 2 * B
    BY <2>1, <2>2, <2>3, <2>4, <2>5
  <2> HIDE DEF A, B, C, E
  <2>7. A < B
    BY <2>6
  <2>8. QED
    BY <2>7 DEF A, B
<1>8. /\ ur * t \in Int /\ vr * s \in Int /\ g * t \in Int /\ (h + 1) * s \in Int /\ z * st \in Int
  <2> HIDE DEF ur, vr, st, z
  <2>1. QED
    BY <1>1, <1>2, <1>3
<1> DEFINE A == ur * t
           B == vr * s
           C == g * t
           E == (h + 1) * s
           G == z * st
<1>9. /\ A \in Int /\ B \in Int /\ C \in Int /\ E \in Int /\ G \in Int
      /\ G <= A + C /\ B + E <= G /\ A <= B /\ C < E
  BY <1>4, <1>5, <1>6, <1>7, <1>8
<1> HIDE DEF A, B, C, E, G
<1>10. QED
  BY <1>9

-----------------------------------------------------------------------------
(***************************************************************************)
(* The samples of a time.  A packet whose time stamp lies before another   *)
(* time is not later in samples, and where a packet lies is known to the   *)
(* rounding of its stamp.                                                  *)
(***************************************************************************)
\* A packet that is shown before a time in milliseconds is no later than it in samples,
LEMMA EarlierSamples ==
  ASSUME NEW packet \in PacketType, NEW ms \in Nat, PtsMs(packet) < ms, NEW rate \in Nat
  PROVE  ToSamples(packet.pts, packet.scale, rate) <= MsToSamples(ms, rate)
<1> DEFINE u == packet.pts
           s == packet.scale
           whole == u * 1000
<1>1. u \in Nat /\ s \in Nat
  BY DEF PacketType
<1>2. MsToSamples(ms, rate) = ToSamples(ms, 1000, rate) /\ ToSamples(ms, 1000, rate) \in Nat
  <2>1. PICK k \in Nat : k = 1000
    OBVIOUS
  <2>2. ToSamples(ms, k, rate) \in Nat
    BY NaturalSamples
  <2>3. QED
    BY <2>1, <2>2 DEF MsToSamples, MillisPerSecond
<1>3. CASE s = 0
  BY <1>2, <1>3 DEF ToSamples
<1>4. CASE s # 0
  <2>1. whole \in Nat /\ whole \div s < ms
    BY <1>1, <1>4 DEF PtsMs, ToMillis, MillisPerSecond
  <2> HIDE DEF whole, u, s
  <2>2. whole < ms * s
    <3> DEFINE q == whole \div s
    <3>1. q \in Nat /\ whole < s * q + s
      BY <1>1, <1>4, <2>1
    <3>2. q + 1 \in Int /\ q + 1 <= ms
      BY <2>1, <3>1
    <3> DEFINE m == q + 1
    <3>3. m * s <= ms * s
      <4>1. m \in Int /\ m <= ms
        BY <3>2
      <4> HIDE DEF m
      <4>2. QED
        BY <1>1, <4>1, ProductOrder
    <3> HIDE DEF q
    <3>4. m * s = s * q + s /\ s * q \in Int /\ ms * s \in Int
      BY <1>1, <3>1
    <3> DEFINE x == s * q + s
               y == ms * s
    <3>5. x \in Int /\ y \in Int /\ whole < x /\ x <= y
      BY <1>1, <3>1, <3>3, <3>4
    <3> HIDE DEF x, y
    <3>6. whole < y
      BY <2>1, <3>5
    <3>7. QED
      BY <3>6 DEF y
  <2>3. u * 1000 <= ms * s
    BY <1>1, <2>1, <2>2 DEF whole
  <2>4. QED
    BY <1>1, <1>2, <1>4, <2>3, RoundedOrder DEF u, s
<1>5. QED
  BY <1>3, <1>4

\* and one that is not is no earlier.
LEMMA LaterSamples ==
  ASSUME NEW packet \in PacketType, NEW ms \in Nat, ms > 0, ms <= PtsMs(packet), NEW rate \in Nat
  PROVE  MsToSamples(ms, rate) <= ToSamples(packet.pts, packet.scale, rate)
<1> DEFINE u == packet.pts
           s == packet.scale
           whole == u * 1000
<1>1. u \in Nat /\ s \in Nat
  BY DEF PacketType
<1>2. MsToSamples(ms, rate) = ToSamples(ms, 1000, rate)
  BY DEF MsToSamples, MillisPerSecond
<1>3. s # 0
  BY DEF PtsMs, ToMillis
<1>4. whole \in Nat /\ ms <= whole \div s
  BY <1>1, <1>3 DEF PtsMs, ToMillis, MillisPerSecond
<1> HIDE DEF whole, u, s
<1>5. ms * s <= whole
  <2> DEFINE q == whole \div s
  <2>1. q \in Nat /\ s * q <= whole /\ ms <= q
    BY <1>1, <1>3, <1>4
  <2> HIDE DEF q
  <2>2. ms * s <= q * s
    BY <1>1, <2>1, ProductOrder
  <2>3. q * s = s * q /\ s * q \in Int /\ ms * s \in Int
    BY <1>1, <2>1
  <2>4. QED
    BY <1>4, <2>1, <2>2, <2>3
<1>6. ms * s <= u * 1000
  BY <1>1, <1>4, <1>5 DEF whole
<1>7. QED
  BY <1>1, <1>2, <1>3, <1>6, RoundedOrder DEF u, s

\* Milliseconds in samples, exactly and in order.
LEMMA MillisInSamples ==
  ASSUME NEW ms, NEW rate, ms \in Nat, rate \in Nat
  PROVE  /\ MsToSamples(ms, rate) \in Nat /\ ms * rate \in Nat
         /\ 1000 * MsToSamples(ms, rate) <= ms * rate + 500
         /\ ms * rate < 1000 * MsToSamples(ms, rate) + 500
<1> DEFINE x == ToSamples(ms, 1000, rate)
<1>1. x = MsToSamples(ms, rate)
  BY DEF MsToSamples, MillisPerSecond
<1>2. 1000 \in Nat /\ 1000 > 0 /\ 1000 \div 2 = 500
  OBVIOUS
<1>3. /\ x \in Nat /\ ms * rate \in Nat
      /\ x * 1000 <= ms * rate + 500 /\ ms * rate + 500 < x * 1000 + 1000
  BY ONLY <1>2, ms \in Nat, rate \in Nat, RoundedSamples
<1> HIDE DEF x
<1>4. QED
  BY <1>1, <1>3

\* So later is not earlier.
LEMMA MillisOrder ==
  ASSUME NEW a \in Nat, NEW b \in Nat, a <= b, NEW rate \in Nat
  PROVE  MsToSamples(a, rate) <= MsToSamples(b, rate)
<1>1. 1000 \in Nat /\ 1000 > 0 /\ a * 1000 <= b * 1000
  OBVIOUS
<1>2. ToSamples(a, 1000, rate) <= ToSamples(b, 1000, rate)
  BY ONLY <1>1, a \in Nat, b \in Nat, rate \in Nat, RoundedOrder
<1>3. QED
  BY <1>2 DEF MsToSamples, MillisPerSecond

\* The rounding of a source's times is that of a millisecond, and the shifts that tell
\* sounds apart are far beyond it.
LEMMA RoundingIs ==
  ASSUME NEW s \in Sources
  PROVE  /\ RoundingMs(s) \in Nat /\ 1000 * RoundingMs(s) <= s.rate + 500
         /\ RoundingMs(s) < 1000 /\ s.rate <= 96000
<1>1. s.rate \in Nat /\ s.rate <= 96000
  BY SourceType, SoundAssumption DEF HighestAacRate
<1>2. 1 \in Nat /\ 1 * s.rate = s.rate
  BY <1>1
<1>3. MsToSamples(1, s.rate) \in Nat /\ 1000 * MsToSamples(1, s.rate) <= 1 * s.rate + 500
  BY ONLY <1>1, <1>2, MillisInSamples
<1>4. QED
  BY <1>1, <1>2, <1>3 DEF RoundingMs

\* No packet is longer than the slack.
LEMMA PacketLength ==
  ASSUME NEW s \in Sources
  PROVE  s.samples \in Nat /\ s.samples > 0 /\ 1000 * s.samples <= 250 * s.rate + 500
<1>1. /\ s.samples > 0 /\ s.samples <= MsToSamples(SlackMs, s.rate)
      /\ s.samples \in Nat /\ s.rate \in Nat
  BY SourceType, SoundAssumption
<1>2. SlackMs = 250
  BY DEF SlackMs
<1>3. 1000 * MsToSamples(250, s.rate) <= 250 * s.rate + 500 /\ MsToSamples(250, s.rate) \in Nat
  BY <1>1, MillisInSamples
<1>4. QED
  BY <1>1, <1>2, <1>3

\* Drifts are no more than the rounding, so the clock never goes back to the stamps.
LEMMA DriftsSmall ==
  ASSUME NEW s \in Sources
  PROVE  /\ Steady(s) /\ Drifts(s) = StampDrifts(s, s.skip)
         /\ \A x \in StampDrifts(s, s.skip) \cup StampDrifts(s, 0) :
              /\ x \in Int /\ -RoundingMs(s) <= x /\ x <= RoundingMs(s)
              /\ x # Silence /\ x # Cold
<1> DEFINE R == RoundingMs(s)
           limit == MsToSamples(DiscontinuityMs, s.rate)
<1>1. R \in Nat /\ R < 1000 /\ 1000 * R <= s.rate + 500
  BY RoundingIs
<1>2. ASSUME NEW k \in Nat, NEW x \in StampDrifts(s, k) PROVE x \in Int
  <2>1. AllPackets(s) \in Seq(PacketType)
    BY AllPacketsAre
  <2>2. \A packet \in ToSet(AllPackets(s)) : packet \in PacketType
    BY <2>1 DEF ToSet
  <2>3. QED
    BY <1>2, <2>2, DriftType DEF StampDrifts
<1>3. \A x \in StampDrifts(s, s.skip) \cup StampDrifts(s, 0) : x \in Int /\ -R <= x /\ x <= R
  <2>1. s.skip \in Nat /\ 0 \in Nat
    BY SourceType
  <2>2. QED
    BY <1>2, <2>1, SoundAssumption
<1>4. 2 * R <= limit /\ limit \in Nat
  <2>1. 100 \in Nat /\ s.rate \in Nat /\ s.rate >= 8000
    BY SourceType DEF LowestRate
  <2>2. 100 * s.rate < 1000 * MsToSamples(100, s.rate) + 500 /\ MsToSamples(100, s.rate) \in Nat
    BY <2>1, MillisInSamples
  <2>3. limit = MsToSamples(100, s.rate)
    BY DEF DiscontinuityMs
  <2> HIDE DEF R, limit
  <2>4. QED
    BY <1>1, <2>1, <2>2, <2>3
<1> HIDE DEF R, limit
<1>5. Steady(s)
  <2>1. ASSUME NEW x \in StampDrifts(s, s.skip), NEW y \in StampDrifts(s, 0)
        PROVE  y - x <= limit /\ x - y <= limit
    <3>1. x \in Int /\ -R <= x /\ x <= R /\ y \in Int /\ -R <= y /\ y <= R
      BY <1>3
    <3>2. QED
      BY <1>1, <1>4, <3>1
  <2>2. QED
    BY <2>1 DEF Steady, limit
<1>6. Drifts(s) = StampDrifts(s, s.skip)
  BY <1>5 DEF Drifts
<1>7. \A x \in Int : -R <= x /\ x <= R => x # Silence /\ x # Cold
  BY <1>1 DEF Silence, Cold
<1>8. QED
  BY <1>3, <1>5, <1>6, <1>7 DEF R

\* The sample the n-th packet belongs to.
PlaceOf(s, n) == s.lead + (n - 1) * s.samples

\* A packet's time is near its place.
LEMMA NearPlace ==
  ASSUME NEW s \in Sources, NEW n \in DOMAIN AllPackets(s)
  PROVE  LET x == ToSamples(AllPackets(s)[n].pts, AllPackets(s)[n].scale, s.rate)
         IN  /\ x \in Nat /\ PlaceOf(s, n) \in Int
             /\ x <= PlaceOf(s, n) + RoundingMs(s) /\ PlaceOf(s, n) <= x + RoundingMs(s)
<1> DEFINE packet == AllPackets(s)[n]
           x == ToSamples(packet.pts, packet.scale, s.rate)
           zero == ToSamples(0, s.rate, packet.scale)
<1>1. packet \in PacketType /\ packet.offset = n /\ n \in Nat
  <2>1. AllPackets(s) \in Seq(PacketType) /\ packet.offset = n
    BY AllPacketsAre
  <2> HIDE DEF packet
  <2>2. QED
    BY <2>1 DEF packet
<1>2. packet.pts \in Nat /\ packet.scale \in Nat
  BY <1>1 DEF PacketType
<1>3. s.rate \in Nat /\ s.rate > 0 /\ s.lead \in Nat /\ s.samples \in Nat
  BY SourceType
<1>4. Like(s, packet, n)
  BY <1>1 DEF Like
<1>5. Drift(s, packet, 0) \in StampDrifts(s, 0)
  BY <1>4, LikeDrifts
<1>6. Place(s, packet) = PlaceOf(s, n)
  BY <1>1 DEF Place, PlaceOf
<1> HIDE DEF packet
<1>7. zero = 0
  <2> DEFINE r == s.rate
             k == packet.scale
  <2>1. r \in Nat /\ r > 0 /\ k \in Nat
    BY <1>2, <1>3
  <2> HIDE DEF r, k
  <2>2. 0 \div r = 0 /\ 0 % r = 0 /\ (r \div 2) \div r = 0
    BY <2>1
  <2>3. (0 \div r) * k + ((0 % r) * k + r \div 2) \div r = 0
    BY <2>1, <2>2
  <2>4. ToSamples(0, r, k) = 0
    BY <2>1, <2>3 DEF ToSamples
  <2>5. QED
    BY <2>4 DEF r, k
<1>8. x \in Nat
  BY <1>2, <1>3, NaturalSamples
<1>9. PlaceOf(s, n) \in Int
  <2>1. (n - 1) * s.samples \in Int
    BY <1>1, <1>3
  <2>2. QED
    BY <1>3, <2>1 DEF PlaceOf
<1>10. Drift(s, packet, 0) = x - PlaceOf(s, n)
  <2>1. packet.pts + zero = packet.pts /\ PlaceOf(s, n) + 0 = PlaceOf(s, n)
    BY <1>2, <1>7, <1>9
  <2>2. QED
    BY <1>6, <2>1 DEF Drift
<1> HIDE DEF x
<1>11. -RoundingMs(s) <= x - PlaceOf(s, n) /\ x - PlaceOf(s, n) <= RoundingMs(s)
  BY <1>5, <1>10, DriftsSmall
<1>12. RoundingMs(s) \in Nat
  BY RoundingIs
<1>13. QED
  BY <1>8, <1>9, <1>11, <1>12 DEF x, packet

-----------------------------------------------------------------------------
(***************************************************************************)
(* How far the windows reach: the preroll to packets well before the       *)
(* segment, the lookahead to its end.                                      *)
(***************************************************************************)
\* What is divided upwards is no less than what goes into it.
LEMMA DivUpAtLeast ==
  ASSUME NEW a \in Nat, NEW b \in Nat, b > 0, NEW k \in Nat, k * b <= a
  PROVE  DivUpBy(a, b) \in Nat /\ k <= DivUpBy(a, b)
<1> DEFINE x == a + b - 1
           q == x \div b
<1>1. x \in Nat
  OBVIOUS
<1>2. q \in Nat /\ x < b * q + b
  <2> HIDE DEF x
  <2>1. QED
    BY <1>1
<1>3. DivUpBy(a, b) = q
  BY DEF DivUpBy
<1> HIDE DEF q
<1>4. k <= q
  <2>1. SUFFICES ASSUME q + 1 <= k PROVE FALSE
    BY <1>2
  <2> DEFINE m == q + 1
  <2>2. m * b <= k * b
    <3>1. m \in Int /\ m <= k
      BY <1>2, <2>1
    <3> HIDE DEF m
    <3>2. QED
      BY <3>1, ProductOrder
  <2>3. m * b = b * q + b /\ b * q \in Int /\ k * b \in Int
    BY <1>2
  <2>4. QED
    BY <1>2, <2>2, <2>3
<1>5. QED
  BY <1>2, <1>3, <1>4

\* The preroll: a pipeline that starts in the middle of the sound reads at least two
\* packets more than it needs, whatever rate the header gives.
LEMMA PrerollReaches ==
  ASSUME NEW s \in Sources, NEW c, c.start \in Nat, EndOf(c) \in Nat, NEW p, p.rate = None,
         InputWindow(p, s, c).start > 0
  PROVE  /\ InputWindow(p, s, c).start \in Nat
         /\ MsToSamples(InputWindow(p, s, c).start, s.rate) + 2 * s.samples + 2 * RoundingMs(s)
              <= WindowStart(c, s.rate)
         /\ WindowStart(c, s.rate) \in Nat /\ 0 < WindowStart(c, s.rate)
<1> DEFINE rate == PlanningRate(p, s)
           behind == DivUpBy(34816000, rate)
           w == InputWindow(p, s, c)
           d == behind + 250
<1>1. rate \in Nat /\ rate > 0 /\ rate <= 48000
  <2>1. s.header \in Nat
    BY SourceType
  <2>2. QED
    BY <2>1 DEF PlanningRate, LowestRate, HighestRate, Smaller, Larger
<1>2. behind \in Nat /\ 725 <= behind
  <2>1. 725 * rate <= 34816000
    BY <1>1
  <2> HIDE DEF rate
  <2>2. QED
    BY <1>1, <2>1, DivUpAtLeast
<1>3. w.start = Minus(c.start, d)
  <2>1. (PrerollFrames + 2) * FrameSamples * MillisPerSecond = 34816000 /\ SlackMs = 250
    BY DEF PrerollFrames, FrameSamples, MillisPerSecond, SlackMs
  <2>2. QED
    BY <2>1 DEF InputWindow
<1> HIDE DEF behind, rate
<1>4. d \in Nat /\ 975 <= d
  BY <1>2
<1> HIDE DEF d
<1>5. w.start \in Nat /\ c.start = w.start + d
  BY <1>3, <1>4 DEF Minus, Larger
<1> DEFINE a == w.start
           r == s.rate
           R == RoundingMs(s)
           n == s.samples
           X == MsToSamples(c.start, r)
           Y == MsToSamples(a, r)
<1>6. r \in Nat /\ r >= 8000
  BY SourceType DEF LowestRate
<1>7. R \in Nat /\ 1000 * R <= r + 500 /\ n \in Nat /\ 1000 * n <= 250 * r + 500
  BY RoundingIs, PacketLength
<1>8. WindowStart(c, s.rate) = X
  BY DEF WindowStart
<1> HIDE DEF w, a
<1>9. a \in Nat /\ c.start = a + d
  BY <1>5 DEF a
<1> HIDE DEF r, R, n
<1>10. /\ X \in Nat /\ c.start * r < 1000 * X + 500
       /\ Y \in Nat /\ 1000 * Y <= a * r + 500 /\ a * r \in Nat
  BY <1>6, <1>9, MillisInSamples
<1> HIDE DEF X, Y
<1>11. c.start * r = a * r + d * r
  BY <1>4, <1>6, <1>9
<1>12. 975 * r <= d * r /\ d * r \in Int
  BY <1>4, <1>6, ProductOrder
<1> DEFINE ar == a * r
           dr == d * r
<1>13. /\ ar \in Nat /\ dr \in Int /\ 975 * r <= dr /\ ar + dr < 1000 * X + 500
       /\ 1000 * Y <= ar + 500
  BY <1>10, <1>11, <1>12
<1> HIDE DEF ar, dr
<1>14. Y + 2 * n + 2 * R <= X
  BY <1>6, <1>7, <1>10, <1>13
<1>15. 0 < X
  BY <1>6, <1>10, <1>13
<1>16. QED
  BY <1>8, <1>9, <1>10, <1>14, <1>15 DEF Y, r, R, n, a, w

\* The lookahead: what is read goes further than the window's end by twice the rounding.
LEMMA LookaheadReaches ==
  ASSUME NEW s \in Sources, NEW c, c.start \in Nat, EndOf(c) \in Nat,
         NEW p, p.rate \in {None, s.rate}
  PROVE  /\ InputWindow(p, s, c).end \in Nat /\ InputWindow(p, s, c).end > 0
         /\ MsToSamples(InputWindow(p, s, c).end, s.rate) \in Nat
         /\ WindowEnd(c, s.rate) \in Nat
         /\ WindowEnd(c, s.rate) + 2 * RoundingMs(s)
              <= MsToSamples(InputWindow(p, s, c).end, s.rate)
<1> DEFINE rate == PlanningRate(p, s)
           ahead == DivUpBy(4096000, rate)
           w == InputWindow(p, s, c)
           e == EndOf(c)
<1>1. rate \in Nat /\ rate > 0 /\ rate <= 96000
  <2>1. s.header \in Nat /\ s.rate \in Nat /\ s.rate > 0 /\ s.rate <= 96000
    BY SourceType, RoundingIs
  <2>2. QED
    BY <2>1 DEF PlanningRate, LowestRate, HighestRate, Smaller, Larger
<1>2. ahead \in Nat /\ 42 <= ahead
  <2>1. 42 * rate <= 4096000
    BY <1>1
  <2> HIDE DEF rate
  <2>2. QED
    BY <1>1, <2>1, DivUpAtLeast
<1>3. w.end = e + ahead
  <2>1. LookaheadFrames * FrameSamples * MillisPerSecond = 4096000
    BY DEF LookaheadFrames, FrameSamples, MillisPerSecond
  <2>2. QED
    BY <2>1 DEF InputWindow
<1> HIDE DEF ahead, rate, w, e
<1> DEFINE b == w.end
           r == s.rate
           R == RoundingMs(s)
           X == MsToSamples(e, r)
           Y == MsToSamples(b, r)
<1>4. r \in Nat /\ r >= 8000
  BY SourceType DEF LowestRate
<1>5. R \in Nat /\ 1000 * R <= r + 500
  BY RoundingIs
<1>6. e \in Nat /\ b \in Nat /\ b > 0 /\ b = e + ahead
  BY <1>2, <1>3 DEF e
<1>7. WindowEnd(c, s.rate) = X
  BY DEF WindowEnd, e
<1> HIDE DEF b, r, R
<1>8. /\ X \in Nat /\ 1000 * X <= e * r + 500 /\ e * r \in Nat
      /\ Y \in Nat /\ b * r < 1000 * Y + 500
  BY <1>4, <1>6, MillisInSamples
<1> HIDE DEF X, Y
<1>9. b * r = e * r + ahead * r
  BY <1>2, <1>4, <1>6
<1>10. 42 * r <= ahead * r /\ ahead * r \in Int
  BY <1>2, <1>4, ProductOrder
<1> DEFINE er == e * r
           hr == ahead * r
<1>11. /\ er \in Nat /\ hr \in Int /\ 42 * r <= hr /\ er + hr < 1000 * Y + 500
       /\ 1000 * X <= er + 500
  BY <1>8, <1>9, <1>10
<1> HIDE DEF er, hr
<1>12. X + 2 * R <= Y
  BY <1>4, <1>5, <1>8, <1>11
<1>13. QED
  BY <1>6, <1>7, <1>8, <1>12 DEF Y, r, R, b, w

\* Aligning moves at most outwards.
LEMMA AlignedOrder ==
  ASSUME NEW x \in Int
  PROVE  AlignedDown(x) \in Int /\ AlignedDown(x) <= x /\ AlignedEnd(x) \in Int /\ x <= AlignedEnd(x)
<1>1. AlignedDown(x) = (x \div 1024) * 1024
  BY DEF AlignedDown, FrameSamples
<1>2. AlignedEnd(x) = ((x + 1024 - 1) \div 1024) * 1024
  BY DEF AlignedEnd, DivUpBy, FrameSamples
<1>3. QED
  BY <1>1, <1>2

\* The bounds of a window in order.
LEMMA WindowOrder ==
  ASSUME NEW c, c.start \in Nat, EndOf(c) \in Nat, c.start <= EndOf(c), NEW rate, rate \in Nat
  PROVE  /\ WindowStart(c, rate) \in Nat /\ WindowEnd(c, rate) \in Nat
         /\ WindowStart(c, rate) <= WindowEnd(c, rate)
         /\ FedUntil(c, rate) \in Int /\ FedUntil(c, rate) = CodedEnd(c, rate) + FrameSamples
         /\ PrerollStart(c, rate) \in Int /\ PrerollStart(c, rate) <= WindowStart(c, rate)
         /\ WindowEnd(c, rate) < FedUntil(c, rate)
         /\ WindowStart(c, rate) > 0 =>
              WindowStart(c, rate) <= CodedStart(c, rate) - FrameSamples
<1> DEFINE a == WindowStart(c, rate)
           b == WindowEnd(c, rate)
<1>1. a \in Nat /\ b \in Nat /\ FedUntil(c, rate) \in Int /\ PrerollStart(c, rate) \in Int
  BY WindowType
<1>2. a <= b
  BY MillisOrder DEF WindowStart, WindowEnd
<1>3. /\ FedUntil(c, rate) = AlignedEnd(b) + 2048 /\ CodedEnd(c, rate) = AlignedEnd(b) + 1024
      /\ PrerollStart(c, rate) = AlignedDown(Minus(a, 32768))
      /\ CodedStart(c, rate) = IF a = 0 THEN 0 ELSE AlignedEnd(a) + 1024
  BY DEF FedUntil, CodedEnd, PrerollStart, CodedStart, FrameSamples, PrerollFrames
<1> HIDE DEF a, b
<1>4. /\ AlignedEnd(b) \in Int /\ b <= AlignedEnd(b) /\ AlignedEnd(a) \in Int /\ a <= AlignedEnd(a)
  BY <1>1, AlignedOrder
<1> DEFINE early == Minus(a, 32768)
<1>5. early \in Int /\ early <= a
  BY <1>1 DEF Minus, Larger
<1> HIDE DEF early
<1>6. AlignedDown(early) \in Int /\ AlignedDown(early) <= early
  BY <1>5, AlignedOrder
<1>7. PrerollStart(c, rate) <= a
  BY <1>1, <1>3, <1>5, <1>6 DEF early
<1>8. FrameSamples = 1024
  BY DEF FrameSamples
<1>9. b < FedUntil(c, rate) /\ FedUntil(c, rate) = CodedEnd(c, rate) + 1024
  BY <1>1, <1>3, <1>4
<1>10. a > 0 => a <= CodedStart(c, rate) - 1024
  BY <1>1, <1>3, <1>4
<1>11. QED
  BY <1>1, <1>2, <1>7, <1>8, <1>9, <1>10 DEF a, b

-----------------------------------------------------------------------------
(***************************************************************************)
(* What is decoded joins what there was.                                   *)
(***************************************************************************)
\* Nothing that ends so early is heard of the segments that start at b or later.
Unheard(to, b) == 0 < b /\ to <= b
\* Silence that ends so early lies before the sound, or is not heard.
Opens(s, to, b) == to <= SoundFrom(s) + RoundingMs(s) \/ Unheard(to, b)

\* A frame of PCM: it is not empty, and if the decoder was still warming up it is not heard.
Sounding(r, b) == r.from < r.to /\ r.shift # Silence /\ (r.shift = Cold => Unheard(r.to, b))
\* The frames follow each other without a gap, the last one up to the clock.
Seamless(p, b) ==
  /\ \A n \in DOMAIN p.pcm : Sounding(p.pcm[n], b)
  /\ \A n \in 2 .. Len(p.pcm) : p.pcm[n].from = p.pcm[n - 1].to
  /\ p.pcm # <<>> => p.pcm[Len(p.pcm)].to = p.clock
\* The encoder's PCM goes on where it stopped, or begins early enough.
Waiting(p) == IF p.pcm = <<>> THEN p.clock ELSE p.pcm[1].from
Joins(p, s, b) ==
  IF p.anchor = None THEN p.pcm # <<>> /\ Opens(s, p.pcm[1].from, b) ELSE Waiting(p) <= p.next

\* What is left alone while packets are decoded.
SameFeed(q, p) == q.anchor = p.anchor /\ q.next = p.next /\ q.runs = p.runs

\* What a packet adds to the PCM, after the last one or as the first one.
AddsRun(q, p, s, n, run) ==
  /\ run \in RunType(Int) /\ q.pcm = Append(p.pcm, run) /\ q.clock = run.to
  /\ run.from < run.to /\ run.shift # Silence
  /\ p.last # None => run.from = p.clock /\ run.shift # Cold
  /\ p.last = None => /\ run.from <= PlaceOf(s, n) + s.skip + RoundingMs(s)
                      /\ run.to = run.from + s.samples - s.skip
                      /\ n = 1 => run.shift # Cold

\* A packet's sound starts where the last one ends.
LEMMA DecodedAdds ==
  ASSUME NEW s \in Sources, NEW p \in Pipes(s), InPlace(p, s), NEW packet \in PacketType,
         packet.offset \in DOMAIN AllPackets(s), Like(s, packet, packet.offset),
         p.last # None => packet.offset = p.last + 1,
         p.last = None => p.skip < s.samples
  PROVE  LET q == Decoded(p, s, packet)
         IN  /\ SameFeed(q, p) /\ q.rate = s.rate
             /\ \E run : AddsRun(q, p, s, packet.offset, run)
<1> DEFINE dropped == Smaller(p.skip, s.samples)
           advance == ToSamples(dropped, s.rate, packet.scale)
           from == Stamp(p, s, packet.pts + advance, packet.scale)
           to == from + s.samples - dropped
           base == from - (Place(s, packet) + dropped)
           shift == IF p.warm \/ packet.offset = 1 THEN base ELSE Cold
           run == [from |-> from, to |-> to, shift |-> shift]
           sample == ToSamples(packet.pts + advance, packet.scale, s.rate)
           q == Decoded(p, s, packet)
           place == Place(s, packet)
           R == RoundingMs(s)
<1>1. packet.scale \in Nat /\ packet.pts \in Nat /\ packet.offset \in Nat
  BY DEF PacketType
<1>2. p.skip \in Nat /\ p.clock \in Int /\ p.warm \in BOOLEAN
  BY DEF Pipes, PipeType
<1>3. /\ s.samples \in Nat /\ s.samples > 0 /\ s.lead \in Nat /\ s.skip \in Nat /\ s.rate \in Nat
  BY SourceType, PacketLength
<1>4. /\ dropped = p.skip /\ dropped \in {0, s.skip} /\ dropped \in Nat /\ dropped < s.samples
      /\ p.last = None => dropped = s.skip
      /\ p.last # None => dropped = 0
  BY <1>2, <1>3 DEF Smaller, InPlace
<1>5. place = s.lead + (packet.offset - 1) * s.samples
  BY DEF Place
<1>6. place \in Int /\ place = PlaceOf(s, packet.offset)
  <2>1. (packet.offset - 1) * s.samples \in Int
    BY <1>1, <1>3
  <2>2. QED
    BY <1>3, <1>5, <2>1 DEF PlaceOf
<1>7. sample - (place + dropped) = Drift(s, packet, dropped)
  BY DEF Drift
<1>8. Drift(s, packet, dropped) \in StampDrifts(s, dropped) /\ Drift(s, packet, dropped) \in Int
  <2> HIDE DEF dropped
  <2>1. QED
    BY <1>4, LikeDrifts, DriftType
<1>9. from = IF \/ p.clock = None \/ sample - p.clock > MsToSamples(DiscontinuityMs, s.rate)
                \/ p.clock - sample > MsToSamples(DiscontinuityMs, s.rate)
             THEN sample ELSE p.clock
  BY DEF Stamp
<1>10. advance \in Nat
  <2> HIDE DEF dropped
  <2>1. QED
    BY <1>1, <1>3, <1>4, NaturalSamples
<1>11. sample \in Nat
  <2> DEFINE units == packet.pts + advance
  <2>1. units \in Nat
    BY <1>1, <1>10
  <2> HIDE DEF units
  <2>2. ToSamples(units, packet.scale, s.rate) \in Nat
    BY <1>1, <1>3, <2>1, NaturalSamples
  <2>3. QED
    BY <2>2 DEF units
<1>12. /\ q.pcm = Append(p.pcm, run) /\ q.clock = to /\ q.rate = s.rate
       /\ q.anchor = p.anchor /\ q.next = p.next /\ q.runs = p.runs
  BY DEF Decoded, Pipes, PipeType
<1>13. R \in Nat
  BY RoundingIs
<1> HIDE DEF dropped, advance, from, sample, q, place, R
<1>14. CASE p.last = None
  <2>1. from = sample /\ dropped = s.skip
    BY <1>4, <1>9, <1>14 DEF InPlace
  <2>2. base = Drift(s, packet, dropped)
    BY <1>7, <2>1 DEF place
  <2> DEFINE x == from - (place + dropped)
  <2>3. base = x /\ x \in StampDrifts(s, s.skip)
    BY <1>8, <2>1, <2>2 DEF place
  <2>4. x \in Int /\ x <= R /\ x # Silence /\ x # Cold
    BY <2>3, DriftsSmall DEF R
  <2> HIDE DEF base
  <2>5. shift \in Int /\ shift # Silence /\ (packet.offset = 1 => shift # Cold)
    BY <2>3, <2>4 DEF Silence, Cold
  <2> HIDE DEF shift
  <2>6. from \in Int /\ from <= place + s.skip + R /\ to \in Int /\ from < to
        /\ to = from + s.samples - s.skip
    BY <1>3, <1>4, <1>6, <1>11, <1>13, <2>1, <2>4
  <2> HIDE DEF to
  <2>7. run \in RunType(Int) /\ run.from = from /\ run.to = to /\ run.shift = shift
    BY <2>5, <2>6 DEF RunType
  <2> HIDE DEF run
  <2>8. AddsRun(q, p, s, packet.offset, run)
    BY <1>6, <1>12, <1>14, <2>5, <2>6, <2>7 DEF AddsRun, R
  <2>9. QED
    BY <1>12, <2>8 DEF SameFeed, q
<1>15. CASE p.last # None
  <2> DEFINE limit == MsToSamples(DiscontinuityMs, s.rate)
             x == p.clock - place
             y == sample - place
  <2>1. /\ p.last \in Nat /\ p.clock \in Nat /\ p.warm
        /\ p.clock - (s.lead + p.last * s.samples) \in Drifts(s)
    BY <1>15 DEF InPlace
  <2>2. packet.offset - 1 = p.last /\ dropped = 0
    BY <1>1, <1>4, <1>15, <2>1
  <2>3. place = s.lead + p.last * s.samples
    BY <1>5, <2>2
  <2>4. x \in StampDrifts(s, s.skip)
    BY <2>1, <2>3, DriftsSmall
  <2>5. y \in StampDrifts(s, 0)
    <3>1. sample - (place + 0) \in StampDrifts(s, 0)
      BY <1>7, <1>8, <2>2
    <3>2. place + 0 = place
      BY <1>6
    <3>3. QED
      BY <3>1, <3>2
  <2>6. y - x <= limit /\ x - y <= limit
    BY <2>4, <2>5, DriftsSmall DEF Steady
  <2>7. y - x = sample - p.clock /\ x - y = p.clock - sample
    BY <1>6, <1>11, <2>1
  <2>8. limit \in Nat
    <3>1. DiscontinuityMs \in Nat
      BY DEF DiscontinuityMs
    <3>2. QED
      BY <1>3, <3>1, MillisInSamples
  <2>9. x \in Int /\ x # Silence /\ x # Cold
    BY <2>4, DriftsSmall
  <2>10. p.clock # None
    BY <2>1 DEF None
  <2> DEFINE z == x
  <2>11. x = z
    OBVIOUS
  <2> HIDE DEF x, y
  <2>12. ~(sample - p.clock > limit) /\ ~(p.clock - sample > limit)
    BY <1>11, <2>1, <2>6, <2>7, <2>8
  <2> HIDE DEF limit
  <2>13. from = p.clock
    BY <1>9, <2>10, <2>12 DEF limit
  <2>14. base = x
    <3>1. base = from - (place + 0) /\ place + 0 = place
      BY <1>6, <2>2 DEF place
    <3>2. QED
      BY <2>13, <3>1 DEF x
  <2> HIDE DEF base
  <2>15. shift = x
    BY <2>1, <2>14
  <2> HIDE DEF shift
  <2>16. from \in Int /\ to \in Int /\ from < to
    BY <1>3, <2>1, <2>2, <2>13
  <2> HIDE DEF to
  <2>17. run \in RunType(Int) /\ run.from = from /\ run.to = to /\ run.shift = shift
    BY <2>9, <2>15, <2>16 DEF RunType
  <2> HIDE DEF run
  <2>18. AddsRun(q, p, s, packet.offset, run)
    BY <1>12, <1>15, <2>9, <2>13, <2>15, <2>16, <2>17 DEF AddsRun
  <2>19. QED
    BY <1>12, <2>18 DEF SameFeed, q
<1>16. QED
  BY <1>14, <1>15

\* Frames that follow each other still do when one that starts at the clock is added.
LEMMA AddedJoins ==
  ASSUME NEW s \in Sources, NEW p \in Pipes(s), NEW q \in Pipes(s), NEW b \in Int, NEW n,
         p.last # None, Seamless(p, b), Joins(p, s, b), SameFeed(q, p),
         NEW run, AddsRun(q, p, s, n, run)
  PROVE  Seamless(q, b) /\ Joins(q, s, b)
<1> DEFINE R == RunType(Int)
           N == Len(p.pcm)
<1>1. /\ run \in R /\ q.pcm = Append(p.pcm, run) /\ q.clock = run.to
      /\ run.from < run.to /\ run.shift # Silence /\ run.from = p.clock /\ run.shift # Cold
  BY DEF AddsRun
<1>2. p.pcm \in Seq(R)
  BY DEF Pipes, PipeType
<1> HIDE DEF R
<1>3. N \in Nat /\ DOMAIN p.pcm = 1 .. N /\ (p.pcm = <<>> <=> N = 0)
  BY <1>2
<1>4. /\ Len(q.pcm) = N + 1 /\ DOMAIN q.pcm = 1 .. N + 1 /\ q.pcm # <<>>
      /\ q.pcm[N + 1] = run /\ \A m \in 1 .. N : q.pcm[m] = p.pcm[m]
  BY <1>1, <1>2
<1> HIDE DEF N
<1>5. Sounding(run, b)
  BY <1>1 DEF Sounding
<1>6. \A m \in DOMAIN q.pcm : Sounding(q.pcm[m], b)
  <2>1. TAKE m \in DOMAIN q.pcm
  <2>2. m \in 1 .. N \/ m = N + 1
    BY <1>3, <1>4
  <2>3. \A k \in 1 .. N : Sounding(p.pcm[k], b)
    BY <1>3 DEF Seamless
  <2>4. QED
    BY <1>4, <1>5, <2>2, <2>3
<1>7. \A m \in 2 .. Len(q.pcm) : q.pcm[m].from = q.pcm[m - 1].to
  <2>1. TAKE m \in 2 .. Len(q.pcm)
  <2>2. CASE m \in 2 .. N
    <3>1. p.pcm[m].from = p.pcm[m - 1].to
      BY <2>2 DEF Seamless, N
    <3>2. q.pcm[m] = p.pcm[m] /\ q.pcm[m - 1] = p.pcm[m - 1]
      BY <1>3, <1>4, <2>2
    <3>3. QED
      BY <3>1, <3>2
  <2>3. CASE m = N + 1
    <3>1. m - 1 = N /\ N \in 1 .. N /\ p.pcm # <<>>
      BY <1>3, <1>4, <2>3
    <3>2. q.pcm[m - 1] = p.pcm[N] /\ p.pcm[N].to = p.clock
      BY <1>4, <3>1 DEF Seamless, N
    <3>3. QED
      BY <1>1, <1>4, <2>3, <3>2
  <2>4. QED
    BY <1>3, <1>4, <2>2, <2>3
<1>8. Seamless(q, b)
  BY <1>1, <1>4, <1>6, <1>7 DEF Seamless
<1>9. Waiting(q) = Waiting(p)
  <2>1. CASE p.pcm = <<>>
    BY <1>1, <1>3, <1>4, <2>1 DEF Waiting
  <2>2. CASE p.pcm # <<>>
    <3>1. 1 \in 1 .. N
      BY <1>3, <2>2
    <3>2. QED
      BY <1>4, <2>2, <3>1 DEF Waiting
  <2>3. QED
    BY <2>1, <2>2
<1>10. Joins(q, s, b)
  <2>1. p.anchor = None => p.pcm # <<>> /\ Opens(s, Waiting(p), b)
    BY DEF Joins, Waiting
  <2>2. p.anchor # None => Waiting(p) <= p.next
    BY DEF Joins
  <2>3. q.anchor = p.anchor /\ q.next = p.next
    BY DEF SameFeed
  <2>4. q.pcm[1].from = Waiting(q)
    BY <1>4 DEF Waiting
  <2>5. QED
    BY <1>4, <1>9, <2>1, <2>2, <2>3, <2>4 DEF Joins
<1>11. QED
  BY <1>8, <1>10

-----------------------------------------------------------------------------
(***************************************************************************)
(* A pipeline that goes on, and one that starts, decode sound that joins.  *)
(***************************************************************************)
\* A new pipeline that starts with a packet begins early enough for the sound from b on.
EarlyEnough(s, n, b) ==
  n = 1 \/ (0 < b /\ PlaceOf(s, n) + s.samples + RoundingMs(s) <= b)

\* The first packet of a new pipeline.
LEMMA FirstJoins ==
  ASSUME NEW s \in Sources, NEW q \in Pipes(s), NEW b \in Int, NEW n \in Nat,
         EarlyEnough(s, n, b), SameFeed(q, NewPipeline(s)),
         NEW run, AddsRun(q, NewPipeline(s), s, n, run)
  PROVE  Seamless(q, b) /\ Joins(q, s, b)
<1> DEFINE p == NewPipeline(s)
<1>1. p.pcm = <<>> /\ p.last = None /\ p.anchor = None
  BY DEF NewPipeline
<1>2. /\ run \in RunType(Int) /\ q.pcm = Append(<<>>, run) /\ q.clock = run.to
      /\ run.from < run.to /\ run.shift # Silence
      /\ run.from <= PlaceOf(s, n) + s.skip + RoundingMs(s)
      /\ run.to = run.from + s.samples - s.skip
      /\ n = 1 => run.shift # Cold
  BY <1>1 DEF AddsRun
<1>3. q.anchor = None
  BY <1>1 DEF SameFeed
<1> HIDE DEF p
<1>4. q.pcm = <<run>> /\ DOMAIN q.pcm = {1} /\ Len(q.pcm) = 1 /\ q.pcm[1] = run /\ q.pcm # <<>>
  BY <1>2
<1>5. run.from \in Int /\ run.to \in Int
  BY <1>2 DEF RunType
<1>6. /\ s.samples \in Nat /\ s.skip \in Nat /\ s.lead \in Nat /\ RoundingMs(s) \in Nat
      /\ PlaceOf(s, n) \in Int
  <2>1. s.samples \in Nat /\ s.skip \in Nat /\ s.lead \in Nat
    BY SourceType
  <2>2. (n - 1) * s.samples \in Int
    BY <2>1
  <2>3. QED
    BY <2>1, <2>2, RoundingIs DEF PlaceOf
<1>7. CASE n = 1
  <2>1. PlaceOf(s, n) = s.lead
    BY <1>6, <1>7 DEF PlaceOf
  <2>2. Opens(s, run.from, b)
    BY <1>2, <1>5, <1>6, <2>1 DEF Opens, SoundFrom
  <2>3. Sounding(run, b)
    BY <1>2, <1>7 DEF Sounding
  <2>4. QED
    BY <1>2, <1>3, <1>4, <2>2, <2>3 DEF Seamless, Joins
<1>8. CASE n # 1
  <2> DEFINE place == PlaceOf(s, n)
             R == RoundingMs(s)
  <2>1. 0 < b /\ place + s.samples + R <= b
    BY <1>8 DEF EarlyEnough
  <2>2. run.from <= place + s.skip + R
    BY <1>2
  <2>3. place \in Int /\ R \in Nat
    BY <1>6
  <2> HIDE DEF place, R
  <2>4. run.to <= b /\ run.from <= b
    BY <1>2, <1>5, <1>6, <2>1, <2>2, <2>3
  <2>5. Unheard(run.from, b) /\ Unheard(run.to, b)
    BY <2>1, <2>4 DEF Unheard
  <2>6. Sounding(run, b) /\ Opens(s, run.from, b)
    BY <1>2, <2>5 DEF Sounding, Opens
  <2>7. QED
    BY <1>2, <1>3, <1>4, <2>6 DEF Seamless, Joins
<1>9. QED
  BY <1>7, <1>8

\* A pipeline whose PCM joins what it has fed: a new one that starts early enough, or one
\* that goes on.
Joined(p, s, b) ==
  /\ p.rate = s.rate /\ Seamless(p, b) /\ Joins(p, s, b)
Starts(p, s, a, b) ==
  IF p.last = None THEN p = NewPipeline(s) /\ EarlyEnough(s, a, b) ELSE Joined(p, s, b)

\* Decoding packets that go on keeps a pipeline joined.
LEMMA DecodesJoined ==
  ASSUME NEW s \in Sources, NEW p \in Pipes(s), InPlace(p, s), NEW packets,
         NEW a \in Nat, NEW hi \in Nat, GoesOn(s, p, NewPackets(p, packets), a, hi),
         ~DecodeFails(p, s, packets), NEW b \in Int, Starts(p, s, a, b)
  PROVE  LET q == DecodedAll(p, s, packets)
         IN  SameFeed(q, p) /\ Joined(q, s, b)
<1> DEFINE fresh == NewPackets(p, packets)
           N == Len(fresh)
           q == DecodedAll(p, s, packets)
<1>1. /\ fresh \in Seq(PacketType)
      /\ \A m \in 1 .. N : a + m - 1 \in DOMAIN AllPackets(s) /\ Like(s, fresh[m], a + m - 1)
      /\ p.last # None => a = p.last + 1
      /\ p.last = None => fresh # <<>>
  BY DEF GoesOn
<1>2. fresh # <<>> => ~(p.skip >= s.samples)
  BY DEF DecodeFails
<1>3. PICK after \in [0 .. N -> Pipes(s)] : Decoding(after, p, s, fresh) /\ q = after[N]
  BY <1>1, DecodesAll, Zenon
<1>4. after[0] = p /\ \A n \in 1 .. N : after[n] = Decoded(after[n - 1], s, fresh[n])
  BY <1>3 DEF Decoding
<1>5. N \in Nat
  BY <1>1
<1>6. p.skip \in Int /\ s.samples \in Int
  BY SourceType DEF Pipes, PipeType
<1>7. p.last # None => Joined(p, s, b)
  BY DEF Starts
<1>8. p.last = None => p = NewPipeline(s) /\ EarlyEnough(s, a, b)
  BY DEF Starts
<1> HIDE DEF q, fresh
<1> DEFINE Good(n, x) == /\ InPlace(x, s) /\ SameFeed(x, p)
                         /\ IF n = 0 THEN x = p ELSE x.last = a + n - 1 /\ Joined(x, s, b)
           P == {n \in 0 .. N : Good(n, after[n])}
<1>9. 0 \in P
  BY <1>4, <1>5 DEF SameFeed
<1>10. ASSUME NEW n \in 1 .. N, n - 1 \in P PROVE n \in P
  <2> DEFINE x == after[n - 1]
             y == after[n]
             packet == fresh[n]
  <2>1. x \in Pipes(s) /\ y \in Pipes(s)
    <3>1. n - 1 \in 0 .. N /\ n \in 0 .. N
      BY <1>5
    <3>2. QED
      BY <1>3, <3>1
  <2>2. InPlace(x, s) /\ SameFeed(x, p)
    BY <1>10
  <2>3. n = 1 => x = p
    BY <1>10
  <2>4. n # 1 => x.last = a + n - 2 /\ Joined(x, s, b)
    <3>1. n # 1 => n - 1 # 0
      BY <1>5
    <3>2. n # 1 => x.last = a + (n - 1) - 1 /\ Joined(x, s, b)
      BY <1>10, <3>1
    <3>3. a + (n - 1) - 1 = a + n - 2
      BY <1>5
    <3>4. QED
      BY <3>2, <3>3
  <2>5. /\ packet \in PacketType /\ packet.offset = a + n - 1
        /\ packet.offset \in DOMAIN AllPackets(s) /\ Like(s, packet, packet.offset)
    <3>1. packet \in PacketType
      BY <1>1, <1>5
    <3>2. a + n - 1 \in DOMAIN AllPackets(s) /\ Like(s, packet, a + n - 1)
      BY <1>1
    <3>3. packet.offset = a + n - 1
      BY <3>2 DEF Like
    <3>4. QED
      BY <3>1, <3>2, <3>3
  <2>6. y = Decoded(x, s, packet)
    BY <1>4
  <2>7. fresh # <<>>
    BY <1>1, <1>5
  <2> HIDE DEF x, y, packet, P
  <2>8. x.last # None => packet.offset = x.last + 1
    <3>1. CASE n = 1
      BY <1>1, <2>3, <2>5, <3>1
    <3>2. CASE n # 1
      BY <1>5, <2>4, <2>5, <3>2
    <3>3. QED
      BY <3>1, <3>2
  <2>9. n # 1 => x.last # None
    <3>1. n # 1 => x.last \in Nat
      BY <1>5, <2>4
    <3>2. QED
      BY <3>1 DEF None
  <2>10. x.last = None => x.skip < s.samples
    BY <1>2, <1>6, <2>3, <2>7, <2>9
  <2>11. InPlace(Decoded(x, s, packet), s) /\ Decoded(x, s, packet).last = packet.offset
    BY ONLY s \in Sources, <2>1, <2>2, <2>5, <2>8, <2>10, DecodedInPlace
  <2>12. /\ SameFeed(Decoded(x, s, packet), x) /\ Decoded(x, s, packet).rate = s.rate
         /\ \E run : AddsRun(Decoded(x, s, packet), x, s, packet.offset, run)
    BY ONLY s \in Sources, <2>1, <2>2, <2>5, <2>8, <2>10, DecodedAdds
  <2>13. PICK run : AddsRun(y, x, s, packet.offset, run)
    BY <2>6, <2>12
  <2>14. Seamless(y, b) /\ Joins(y, s, b)
    <3>1. CASE x.last = None
      <4>1. n = 1 /\ x = NewPipeline(s) /\ EarlyEnough(s, a, b)
        BY <1>8, <2>3, <2>9, <3>1
      <4>2. packet.offset = a
        BY <2>5, <4>1
      <4>3. SameFeed(y, NewPipeline(s)) /\ AddsRun(y, NewPipeline(s), s, a, run)
        BY <2>6, <2>12, <2>13, <4>1, <4>2
      <4>4. QED
        BY <2>1, <4>1, <4>3, FirstJoins
    <3>2. CASE x.last # None
      <4>1. Joined(x, s, b)
        BY <1>7, <2>3, <2>4, <3>2
      <4>2. Seamless(x, b) /\ Joins(x, s, b) /\ SameFeed(y, x)
        BY <2>6, <2>12, <4>1 DEF Joined
      <4>3. QED
        BY <2>1, <2>13, <3>2, <4>2, AddedJoins
    <3>3. QED
      BY <3>1, <3>2
  <2>15. SameFeed(y, p) /\ Joined(y, s, b)
    BY <2>2, <2>6, <2>12, <2>14 DEF SameFeed, Joined
  <2>16. n # 0 /\ n \in 0 .. N
    BY <1>5
  <2>17. Good(n, y)
    BY <2>5, <2>6, <2>11, <2>15, <2>16
  <2>18. QED
    BY <2>16, <2>17 DEF P, y
<1>11. P = 0 .. N
  <2>1. P \in SUBSET (0 .. N)
    OBVIOUS
  <2> HIDE DEF P
  <2>2. QED
    BY ONLY <1>5, <1>9, <1>10, <2>1, UpTo
<1>12. Good(N, q)
  <2>1. N \in P
    BY <1>5, <1>11
  <2>2. QED
    BY <1>3, <2>1
<1>13. CASE fresh = <<>>
  <2>1. N = 0
    BY <1>13
  <2>2. q = p /\ p.last # None
    BY <1>1, <1>12, <1>13, <2>1
  <2>3. QED
    BY <1>7, <2>2 DEF q, SameFeed
<1>14. CASE fresh # <<>>
  <2>1. N # 0
    BY <1>1, <1>5, <1>14
  <2>2. QED
    BY <1>12, <2>1 DEF q
<1>15. QED
  BY <1>13, <1>14

-----------------------------------------------------------------------------
(***************************************************************************)
(* What is fed ends where the encoder is, frame by frame.                  *)
(***************************************************************************)
\* The frames before the first one that crosses a bound end before it.
LEMMA FirstBeyondEnds ==
  ASSUME NEW D, NEW pcm \in Seq(RunType(D)), NEW bound \in Int
  PROVE  LET kept == FirstBeyond(pcm, bound)
         IN  /\ kept \in 1 .. Len(pcm) + 1
             /\ kept <= Len(pcm) => pcm[kept].to > bound
             /\ \A n \in 1 .. Len(pcm) : n < kept => pcm[n].to <= bound
<1> DEFINE S == {Len(pcm) + 1} \cup {n \in DOMAIN pcm : pcm[n].to > bound}
           kept == FirstBeyond(pcm, bound)
<1>1. Len(pcm) \in Nat /\ DOMAIN pcm = 1 .. Len(pcm)
  OBVIOUS
<1>2. S \in SUBSET Nat /\ S # {} /\ S \subseteq 1 .. Len(pcm) + 1
  BY <1>1
<1>3. kept = SmallestOf(S)
  BY DEF FirstBeyond
<1>4. \A n \in 1 .. Len(pcm) : pcm[n].to \in Int
  <2>1. \A r \in RunType(D) : r.to \in Int
    BY DEF RunType
  <2>2. QED
    BY <1>1, <2>1
<1>5. /\ \A n \in 1 .. Len(pcm) : n \in S <=> pcm[n].to > bound
  BY <1>1
<1> HIDE DEF S, kept
<1>6. kept \in S /\ \A n \in S : kept <= n
  BY <1>2, <1>3, Smallest
<1>7. kept \in 1 .. Len(pcm) + 1
  BY <1>2, <1>6
<1>8. kept <= Len(pcm) => pcm[kept].to > bound
  BY <1>1, <1>5, <1>6, <1>7
<1>9. \A n \in 1 .. Len(pcm) : n < kept => pcm[n].to <= bound
  <2>1. TAKE n \in 1 .. Len(pcm)
  <2>2. n \in S => kept <= n
    BY <1>6
  <2>3. n < kept => n \notin S
    BY <1>7, <2>2
  <2>4. QED
    BY <1>4, <1>5, <2>3
<1>10. QED
  BY <1>7, <1>8, <1>9 DEF kept

-----------------------------------------------------------------------------
(***************************************************************************)
(* What is fed.                                                            *)
(***************************************************************************)
\* A run may end there: silence lies before the sound, and a cold one is not heard.
MayEnd(s, to, shift, b) ==
  /\ shift = Cold => Unheard(to, b)
  /\ shift = Silence => Opens(s, to, b)
\* All runs may end where they do, the last one with sound.
FineRuns(p, s, b) == \A n \in DOMAIN p.runs : MayEnd(s, p.runs[n].to, p.runs[n].shift, b)
EndsInSound(p) == p.runs # <<>> => p.runs[Len(p.runs)].shift # Silence

\* What is fed ends there, and its runs may end where they do.
FedUpTo(x, q, s, to, shift, b) ==
  /\ FineRuns(x, s, b) /\ x.next = to /\ x.pcm = q.pcm /\ x.anchor = q.anchor
  /\ x.runs # <<>> /\ x.runs[Len(x.runs)].shift = shift

\* A run that may end there is fed.
LEMMA FedFine ==
  ASSUME NEW s, NEW q \in PipeType(s, Int), NEW to, to \in Int, NEW shift, shift \in Int, NEW b,
         FineRuns(q, s, b), MayEnd(s, to, shift, b)
  PROVE  FedUpTo(Fed(q, to, shift), q, s, to, shift, b)
<1> DEFINE R == RunType(Int)
           joins == q.runs # <<>> /\ Last(q.runs).shift = shift
           from == IF joins THEN Last(q.runs).from ELSE q.next
           run == [from |-> from, to |-> to, shift |-> shift]
           before == IF joins THEN Front(q.runs) ELSE q.runs
           runs == Append(before, run)
           x == Fed(q, to, shift)
<1>1. q.runs \in Seq(R) /\ q.next \in Int
  BY DEF PipeType
<1>2. x.next = to /\ x.runs = runs /\ x.pcm = q.pcm /\ x.anchor = q.anchor
  BY DEF Fed, PipeType
<1>3. run.to = to /\ run.shift = shift
  OBVIOUS
<1> HIDE DEF x, R
<1>4. before \in Seq(R) /\ \A n \in 1 .. Len(before) : before[n] = q.runs[n] /\ n \in 1 .. Len(q.runs)
  <2>1. CASE joins
    <3>1. before = SubSeq(q.runs, 1, Len(q.runs) - 1)
      BY <2>1 DEF Front
    <3>2. q.runs # <<>> /\ Len(q.runs) \in Nat /\ Len(q.runs) >= 1
      BY <1>1, <2>1
    <3> HIDE DEF joins, before
    <3>3. QED
      BY <1>1, <3>1, <3>2
  <2>2. CASE ~joins
    BY <1>1, <2>2
  <2>3. QED
    BY <2>1, <2>2
<1> HIDE DEF run, before, joins
<1>5. /\ Len(runs) = Len(before) + 1 /\ DOMAIN runs = 1 .. Len(before) + 1
      /\ runs[Len(before) + 1] = run /\ \A n \in 1 .. Len(before) : runs[n] = before[n]
      /\ runs # <<>> /\ Len(before) \in Nat
  BY <1>4
<1> HIDE DEF runs
<1>6. \A n \in 1 .. Len(q.runs) : MayEnd(s, q.runs[n].to, q.runs[n].shift, b)
  BY <1>1 DEF FineRuns
<1>7. \A n \in DOMAIN runs : MayEnd(s, runs[n].to, runs[n].shift, b)
  <2>1. TAKE n \in DOMAIN runs
  <2>2. n \in 1 .. Len(before) \/ n = Len(before) + 1
    BY <1>5
  <2>3. CASE n \in 1 .. Len(before)
    <3>1. runs[n] = q.runs[n] /\ n \in 1 .. Len(q.runs)
      BY <1>4, <1>5, <2>3
    <3>2. QED
      BY <1>6, <3>1
  <2>4. CASE n = Len(before) + 1
    BY <1>3, <1>5, <2>4
  <2>5. QED
    BY <2>2, <2>3, <2>4
<1>8. FineRuns(x, s, b)
  BY <1>2, <1>7 DEF FineRuns
<1>9. x.runs # <<>> /\ x.runs[Len(x.runs)] = run
  BY <1>2, <1>5
<1>10. QED
  BY <1>2, <1>3, <1>8, <1>9 DEF x, FedUpTo

\* One frame is fed up to a bound, if silence may end where it starts, or need not.
LEMMA FedFrameFine ==
  ASSUME NEW s, NEW p, NEW q, q \in Feeds(p, s, Int), NEW f, f \in RunType(Int), NEW bound \in Int,
         NEW b \in Int, FineRuns(q, s, b), EndsInSound(q), Sounding(f, b),
         f.from <= q.next \/ bound <= f.from \/ Opens(s, f.from, b)
  PROVE  LET x == FedFrame(q, f, bound)
         IN  /\ FineRuns(x, s, b) /\ EndsInSound(x) /\ x.pcm = q.pcm /\ x.anchor = q.anchor
             /\ x.next >= q.next
             /\ IF q.next < f.from /\ bound <= f.from THEN x = q
                ELSE x.next >= f.from /\ x.next >= Smaller(f.to, bound)
<1> DEFINE from == Larger(f.from, q.next)
           to == Smaller(f.to, bound)
           y == IF from > q.next THEN Fed(q, from, Silence) ELSE q
           x == FedFrame(q, f, bound)
<1>1. /\ f.from \in Int /\ f.to \in Int /\ f.shift \in Int /\ f.from < f.to
      /\ f.shift # Silence /\ (f.shift = Cold => Unheard(f.to, b))
  BY DEF RunType, Sounding
<1>2. q.next \in Int /\ q \in PipeType(s, Int)
  BY DEF Feeds, PipeType
<1>3. /\ from \in Int /\ to \in Int /\ from >= f.from /\ from >= q.next /\ from \in {f.from, q.next}
      /\ to <= f.to /\ to <= bound /\ to \in {f.to, bound}
  BY <1>1, <1>2 DEF Larger, Smaller
<1>4. x = IF from >= to THEN q ELSE Fed(y, to, f.shift)
  BY DEF FedFrame
<1> HIDE DEF from, x
<1>5. CASE from >= to
  <2>1. x = q
    BY <1>4, <1>5
  <2>2. ~(q.next < f.from /\ bound <= f.from) => q.next >= f.from /\ q.next >= to
    BY <1>1, <1>2, <1>3, <1>5
  <2>3. q.next >= q.next
    BY <1>2
  <2>4. QED
    BY <2>1, <2>2, <2>3 DEF x
<1>6. CASE from < to
  <2>1. x = Fed(y, to, f.shift)
    BY <1>3, <1>4, <1>6
  <2>2. MayEnd(s, to, f.shift, b)
    BY <1>1, <1>3 DEF MayEnd, Unheard
  <2>3. /\ y \in PipeType(s, Int) /\ FineRuns(y, s, b) /\ y.pcm = q.pcm /\ y.anchor = q.anchor
    <3>1. CASE from > q.next
      <4>1. y = Fed(q, from, Silence)
        BY <3>1
      <4>2. from = f.from /\ ~(bound <= f.from) /\ ~(f.from <= q.next)
        BY <1>1, <1>2, <1>3, <1>6, <3>1
      <4>3. MayEnd(s, from, Silence, b) /\ Silence \in Int
        BY <4>2 DEF MayEnd, Silence, Cold
      <4> HIDE DEF y
      <4>4. FineRuns(y, s, b) /\ y.pcm = q.pcm /\ y.anchor = q.anchor
        <5> DEFINE z == Fed(q, from, Silence)
        <5>1. /\ q \in PipeType(s, Int) /\ from \in Int /\ Silence \in Int
              /\ FineRuns(q, s, b) /\ MayEnd(s, from, Silence, b)
          BY <1>2, <1>3, <4>3
        <5>2. FedUpTo(z, q, s, from, Silence, b)
          BY <5>1, FedFine
        <5>3. QED
          BY <4>1, <5>2 DEF FedUpTo
      <4>5. y \in Feeds(p, s, Int)
        BY <1>3, <4>1, <4>3, FedType
      <4>6. QED
        BY <4>4, <4>5 DEF Feeds
    <3>2. CASE ~(from > q.next)
      BY <1>2, <3>2
    <3>3. QED
      BY <3>1, <3>2
  <2> HIDE DEF y, to
  <2>4. /\ FineRuns(x, s, b) /\ x.next = to /\ x.pcm = y.pcm /\ x.anchor = y.anchor
        /\ x.runs # <<>> /\ x.runs[Len(x.runs)].shift = f.shift
    <3> DEFINE z == Fed(y, to, f.shift)
    <3>1. /\ y \in PipeType(s, Int) /\ to \in Int /\ f.shift \in Int
          /\ FineRuns(y, s, b) /\ MayEnd(s, to, f.shift, b)
      BY <1>1, <1>3, <2>2, <2>3
    <3>2. FedUpTo(z, y, s, to, f.shift, b)
      BY <3>1, FedFine
    <3>3. QED
      BY <2>1, <3>2 DEF FedUpTo
  <2>5. EndsInSound(x)
    BY <1>1, <2>4 DEF EndsInSound
  <2>6. to >= q.next /\ to >= f.from /\ to >= to /\ ~(bound <= f.from)
    BY <1>1, <1>2, <1>3, <1>6
  <2>7. QED
    BY <2>3, <2>4, <2>5, <2>6 DEF x, to
<1>7. QED
  BY <1>3, <1>5, <1>6

-----------------------------------------------------------------------------
(***************************************************************************)
(* Feeding up to a bound leaves no gap.                                    *)
(***************************************************************************)
\* The PCM begins too late for all of what is to be fed.
Late(q, bound) == q.pcm # <<>> /\ q.next < q.pcm[1].from /\ bound <= q.pcm[1].from

\* Feeding up to a bound leaves no gap: what is left starts where the encoder is.
LEMMA FedBeforeJoins ==
  ASSUME NEW s, NEW p, NEW q \in Feeds(p, s, Int), NEW bound \in Int, NEW b \in Int,
         Seamless(q, b), FineRuns(q, s, b), EndsInSound(q),
         q.pcm = <<>> => q.clock <= q.next,
         q.pcm # <<>> => q.pcm[1].from <= q.next \/ Opens(s, q.pcm[1].from, b)
  PROVE  LET x == FedBefore(q, FirstBeyond(q.pcm, bound), bound)
         IN  /\ Seamless(x, b) /\ FineRuns(x, s, b) /\ EndsInSound(x)
             /\ x.anchor = q.anchor /\ x.clock = q.clock
             /\ IF Late(q, bound) THEN x.runs = q.runs /\ x.next = q.next
                ELSE Waiting(x) <= x.next /\ x.next >= Smaller(x.clock, bound)
<1> DEFINE kept == FirstBeyond(q.pcm, bound)
           used == Smaller(kept, Len(q.pcm))
           N == Len(q.pcm)
           Z == Feeds(p, s, Int)
           rest == SubSeq(q.pcm, kept, N)
           R == RunType(Int)
           late == Late(q, bound)
           pcm == q.pcm
<1>1. q.pcm \in Seq(R) /\ q.next \in Int /\ q.clock \in Int
  BY DEF Feeds, PipeType
<1>2. N \in Nat /\ DOMAIN q.pcm = 1 .. N /\ (q.pcm = <<>> <=> N = 0)
  BY <1>1
<1>3. /\ kept \in 1 .. N + 1 /\ (kept <= N => q.pcm[kept].to > bound)
      /\ \A n \in 1 .. N : n < kept => q.pcm[n].to <= bound
  BY <1>1, FirstBeyondEnds
<1>4. /\ \A n \in 1 .. N : /\ q.pcm[n] \in R /\ q.pcm[n].from \in Int /\ q.pcm[n].to \in Int
                          /\ Sounding(q.pcm[n], b) /\ q.pcm[n].from < q.pcm[n].to
      /\ \A n \in 2 .. N : q.pcm[n].from = q.pcm[n - 1].to
      /\ N > 0 => q.pcm[N].to = q.clock
  <2>1. \A r \in R : r.from \in Int /\ r.to \in Int
    BY DEF RunType
  <2>2. \A n \in 1 .. N : q.pcm[n] \in R
    BY <1>1
  <2>3. /\ \A n \in DOMAIN q.pcm : Sounding(q.pcm[n], b)
        /\ \A n \in 2 .. N : q.pcm[n].from = q.pcm[n - 1].to
        /\ q.pcm # <<>> => q.pcm[N].to = q.clock
    BY DEF Seamless
  <2>4. \A n \in 1 .. N : Sounding(q.pcm[n], b) /\ q.pcm[n].from < q.pcm[n].to
    BY <1>2, <2>3 DEF Sounding
  <2> HIDE DEF R
  <2>5. QED
    BY <1>2, <2>1, <2>2, <2>3, <2>4
<1> HIDE DEF kept
<1>5. /\ used \in 0 .. N /\ (kept <= N => used = kept) /\ (kept = N + 1 => used = N)
      /\ used = Smaller(kept, Len(q.pcm))
  BY <1>2, <1>3 DEF Smaller
<1> HIDE DEF used
<1>6. Silence \in Int
  BY DEF Silence
<1> HIDE DEF N, R
<1>7. PICK after \in [0 .. used -> Z] :
        /\ Feeding(after, q, bound, used)
        /\ FedBefore(q, kept, bound) = [after[used] EXCEPT !.pcm = rest]
  <2>1. /\ kept \in 1 .. Len(q.pcm) + 1 /\ used = Smaller(kept, Len(q.pcm)) /\ Silence \in Int
        /\ q \in Feeds(p, s, Int) /\ bound \in Int
    BY <1>3, <1>5, <1>6 DEF N
  <2>2. FedInSteps(FedBefore(q, kept, bound), q, bound, used, SubSeq(q.pcm, kept, Len(q.pcm)),
                   Feeds(p, s, Int))
    BY <2>1, FeedsOneByOne
  <2>3. QED
    BY <2>2 DEF FedInSteps, N
<1>8. /\ after[0] = q
      /\ \A n \in 1 .. used : after[n] = FedFrame(after[n - 1], q.pcm[n], bound)
  BY <1>7 DEF Feeding
<1> HIDE DEF late
<1> DEFINE Same(x) == /\ FineRuns(x, s, b) /\ EndsInSound(x)
                      /\ x.anchor = q.anchor /\ x.next >= q.next
           Good(n, x) ==
             /\ Same(x)
             /\ IF n = 0 THEN x = q
                ELSE IF late THEN x = q /\ bound <= pcm[n].to /\ q.next < pcm[n].to
                ELSE x.next >= pcm[1].from /\ x.next >= Smaller(pcm[n].to, bound)
           P == {n \in 0 .. used : Good(n, after[n])}
<1>9. 0 \in P
  BY <1>1, <1>5, <1>8
<1> HIDE DEF Z
<1>10. ASSUME NEW n \in 1 .. used, n - 1 \in P PROVE n \in P
  <2> DEFINE x == after[n - 1]
             y == after[n]
             f == pcm[n]
  <2>1. Good(n - 1, x)
    BY <1>10
  <2>2. y = FedFrame(x, f, bound)
    BY <1>8
  <2>3. x \in Feeds(p, s, Int) /\ x.next \in Int
    <3>1. n - 1 \in 0 .. used
      BY <1>5
    <3>2. x \in Feeds(p, s, Int)
      BY <1>7, <3>1 DEF Z
    <3>3. QED
      BY <3>2 DEF Feeds, PipeType
  <2>4. n \in 1 .. N
    BY <1>2, <1>5
  <2>5. f \in RunType(Int) /\ f.from \in Int /\ f.to \in Int /\ Sounding(f, b) /\ f.from < f.to
    BY <1>4, <2>4 DEF R
  <2> HIDE DEF x, y, P, Good
  <2>6. Same(x)
    BY <2>1 DEF Good
  <2>7. CASE n = 1
    <3>1. x = q /\ f = pcm[1] /\ pcm # <<>>
      BY <1>2, <2>1, <2>4, <2>7 DEF Good
    <3>2. f.from <= x.next \/ bound <= f.from \/ Opens(s, f.from, b)
      BY <3>1
    <3> HIDE DEF f
    <3>3. /\ FineRuns(y, s, b) /\ EndsInSound(y) /\ y.pcm = x.pcm /\ y.anchor = x.anchor
          /\ y.next >= x.next
          /\ IF x.next < f.from /\ bound <= f.from THEN y = x
             ELSE y.next >= f.from /\ y.next >= Smaller(f.to, bound)
      BY <2>2, <2>3, <2>5, <2>6, <3>2, FedFrameFine
    <3>4. late <=> x.next < f.from /\ bound <= f.from
      BY <3>1 DEF late, Late
    <3>5. Same(y)
      BY <3>1, <3>3
    <3>6. late => y = q /\ bound <= f.to /\ q.next < f.to
      BY <1>1, <2>5, <3>1, <3>3, <3>4
    <3>7. ~late => y.next >= f.from /\ y.next >= Smaller(f.to, bound)
      BY <3>3, <3>4
    <3>8. Good(n, y)
      BY <2>7, <3>1, <3>5, <3>6, <3>7 DEF Good, f
    <3>9. QED
      BY <3>8 DEF P, y
  <2>8. CASE n # 1
    <3> DEFINE g == pcm[n - 1]
    <3>1. n - 1 # 0 /\ n \in 2 .. N /\ n - 1 \in 1 .. N
      BY <1>2, <2>4, <2>8
    <3>2. f.from = g.to
      BY <1>4, <3>1
    <3>3. /\ late => x = q /\ bound <= g.to /\ q.next < g.to
          /\ ~late => x.next >= pcm[1].from /\ x.next >= Smaller(g.to, bound)
      BY <2>1, <3>1 DEF Good
    <3>4. pcm[1].from \in Int
      BY <1>2, <1>4, <3>1
    <3> HIDE DEF f, g
    <3>5. f.from <= x.next \/ bound <= f.from \/ Opens(s, f.from, b)
      <4>1. f.from <= x.next \/ bound <= f.from
        BY <2>3, <2>5, <3>2, <3>3 DEF Smaller
      <4>2. QED
        BY <4>1
    <3>6. /\ FineRuns(y, s, b) /\ EndsInSound(y) /\ y.pcm = x.pcm /\ y.anchor = x.anchor
          /\ y.next >= x.next
          /\ IF x.next < f.from /\ bound <= f.from THEN y = x
             ELSE y.next >= f.from /\ y.next >= Smaller(f.to, bound)
      BY <2>2, <2>3, <2>5, <2>6, <3>5, FedFrameFine
    <3>7. y.next \in Int
      <4>1. n \in 0 .. used
        BY <1>5
      <4>2. y \in Feeds(p, s, Int)
        BY <1>7, <4>1 DEF Z, y
      <4>3. QED
        BY <4>2 DEF Feeds, PipeType
    <3>8. Same(y)
      <4>1. x.next >= q.next
        BY <2>6
      <4>2. y.next >= q.next
        BY <1>1, <2>3, <3>6, <3>7, <4>1
      <4>3. QED
        BY <2>6, <3>6, <4>2
    <3>9. late => y = q /\ bound <= f.to /\ q.next < f.to
      <4>1. SUFFICES ASSUME late PROVE y = q /\ bound <= f.to /\ q.next < f.to
        OBVIOUS
      <4>2. x.next < f.from /\ bound <= f.from /\ x = q
        BY <3>2, <3>3, <4>1
      <4>3. y = q
        BY <3>6, <4>2
      <4>4. QED
        BY <1>1, <2>5, <4>2, <4>3
    <3>10. ~late => y.next >= pcm[1].from /\ y.next >= Smaller(f.to, bound)
      <4>1. SUFFICES ASSUME ~late PROVE y.next >= pcm[1].from /\ y.next >= Smaller(f.to, bound)
        OBVIOUS
      <4>2. y.next >= pcm[1].from
        BY <2>3, <3>3, <3>4, <3>6, <3>7, <4>1
      <4>3. y.next >= Smaller(f.to, bound)
        <5>1. CASE x.next < f.from /\ bound <= f.from
          <6>1. x.next >= bound
            BY <2>3, <2>5, <3>2, <3>3, <4>1, <5>1 DEF Smaller
          <6>2. QED
            BY <2>3, <2>5, <3>6, <3>7, <6>1 DEF Smaller
        <5>2. CASE ~(x.next < f.from /\ bound <= f.from)
          BY <3>6, <5>2
        <5>3. QED
          BY <5>1, <5>2
      <4>4. QED
        BY <4>2, <4>3
    <3>11. Good(n, y)
      BY <3>1, <3>8, <3>9, <3>10 DEF Good, f
    <3>12. QED
      BY <3>11 DEF P, y
  <2>9. QED
    BY <2>7, <2>8
<1>11. P = 0 .. used
  <2>1. P \in SUBSET (0 .. used)
    OBVIOUS
  <2>2. used \in Nat
    BY <1>2, <1>5
  <2> HIDE DEF P
  <2>3. QED
    BY ONLY <1>9, <1>10, <2>1, <2>2, UpTo
<1> DEFINE y == after[used]
           x == [y EXCEPT !.pcm = rest]
<1>12. Good(used, y) /\ y \in Feeds(p, s, Int)
  <2>1. used \in 0 .. used
    BY <1>2, <1>5
  <2>2. used \in P
    BY <1>11, <2>1
  <2>3. QED
    BY <1>7, <2>1, <2>2 DEF Z
<1> HIDE DEF P, Good, y
<1>13. FedBefore(q, kept, bound) = x
  BY <1>7 DEF y
<1>14. /\ x.pcm = rest /\ x.next = y.next /\ x.runs = y.runs /\ x.anchor = y.anchor
       /\ x.clock = q.clock /\ y.next \in Int
  <2>1. q.clock = p.clock
    BY DEF Feeds
  <2>2. QED
    BY <1>12, <2>1 DEF Feeds, PipeType
<1> HIDE DEF x
<1>15. FineRuns(x, s, b) /\ EndsInSound(x) /\ x.anchor = q.anchor
  <2>1. Same(y)
    BY <1>12 DEF Good
  <2>2. QED
    BY <1>14, <2>1 DEF FineRuns, EndsInSound
<1>16. CASE kept = N + 1
  <2>1. rest = <<>> /\ used = N
    BY <1>1, <1>2, <1>5, <1>16 DEF N
  <2>2. Seamless(x, b)
    <3>1. x.pcm = <<>>
      BY <1>14, <2>1
    <3>2. DOMAIN x.pcm = {} /\ 2 .. Len(x.pcm) = {}
      BY <3>1
    <3>3. QED
      BY <3>1, <3>2 DEF Seamless
  <2>3. Waiting(x) = q.clock
    BY <1>14, <2>1 DEF Waiting
  <2>4. CASE N = 0
    <3>1. y = q /\ pcm = <<>>
      BY <1>2, <1>12, <2>1, <2>4 DEF Good
    <3>2. ~Late(q, bound)
      BY <3>1 DEF Late
    <3>3. Smaller(q.clock, bound) <= q.next
      BY <1>1, <3>1 DEF Smaller
    <3>4. QED
      BY <1>13, <1>14, <1>15, <2>2, <2>3, <3>1, <3>2, <3>3 DEF kept
  <2>5. CASE N # 0
    <3>1. /\ late => y = q
          /\ ~late => y.next >= Smaller(pcm[N].to, bound)
      BY <1>12, <2>1, <2>5 DEF Good
    <3>2. N \in 1 .. N /\ N < kept /\ N > 0
      BY <1>2, <1>16, <2>5
    <3>3. pcm[N].to = q.clock /\ pcm[N].to <= bound
      BY <1>3, <1>4, <3>2
    <3>4. Smaller(q.clock, bound) = q.clock
      BY <1>1, <3>3 DEF Smaller
    <3>5. ~late => Waiting(x) <= x.next /\ x.next >= Smaller(x.clock, bound)
      BY <1>1, <1>14, <2>3, <3>1, <3>3, <3>4
    <3>6. late => x.runs = q.runs /\ x.next = q.next
      BY <1>14, <3>1
    <3>7. QED
      BY <1>13, <1>14, <1>15, <2>2, <3>5, <3>6 DEF kept, late
  <2>6. QED
    BY <2>4, <2>5
<1>17. CASE kept # N + 1
  <2>1. kept \in 1 .. N /\ used = kept /\ used # 0 /\ kept <= N
    BY <1>2, <1>3, <1>5, <1>17
  <2>2. /\ Len(rest) = N - kept + 1 /\ rest # <<>> /\ DOMAIN rest = 1 .. N - kept + 1
        /\ \A n \in 1 .. N - kept + 1 : rest[n] = pcm[kept + n - 1]
    <3>1. rest = SubSeq(pcm, kept, N) /\ pcm \in Seq(R) /\ N = Len(pcm) /\ N \in Nat
      BY <1>1, <1>2 DEF N
    <3> HIDE DEF rest, pcm
    <3>2. QED
      BY <2>1, <3>1
  <2> HIDE DEF rest
  <2>3. Seamless(x, b)
    <3>1. \A n \in DOMAIN x.pcm : Sounding(x.pcm[n], b)
      <4>1. TAKE n \in DOMAIN x.pcm
      <4>2. kept + n - 1 \in 1 .. N /\ x.pcm[n] = pcm[kept + n - 1]
        BY <1>2, <1>14, <2>1, <2>2
      <4>3. QED
        BY <1>4, <4>2
    <3>2. \A n \in 2 .. Len(x.pcm) : x.pcm[n].from = x.pcm[n - 1].to
      <4>1. TAKE n \in 2 .. Len(x.pcm)
      <4>2. /\ kept + n - 1 \in 2 .. N /\ x.pcm[n] = pcm[kept + n - 1]
            /\ x.pcm[n - 1] = pcm[kept + (n - 1) - 1] /\ kept + (n - 1) - 1 = (kept + n - 1) - 1
        BY <1>2, <1>14, <2>1, <2>2
      <4>3. QED
        BY <1>4, <4>2
    <3>3. x.pcm[Len(x.pcm)].to = x.clock
      <4>1. Len(x.pcm) = N - kept + 1 /\ x.pcm[N - kept + 1] = pcm[kept + (N - kept + 1) - 1]
        <5> DEFINE n == N - kept + 1
        <5>1. n \in 1 .. n /\ n = N - kept + 1
          BY <1>2, <2>1
        <5> HIDE DEF n
        <5>2. rest[n] = pcm[kept + n - 1] /\ Len(rest) = n
          BY <2>2, <5>1
        <5>3. x.pcm[n] = pcm[kept + n - 1] /\ Len(x.pcm) = n
          BY <1>14, <5>2
        <5>4. QED
          BY <5>1, <5>3
      <4>2. kept + (N - kept + 1) - 1 = N /\ N > 0
        BY <1>2, <2>1
      <4>3. QED
        BY <1>4, <1>14, <4>1, <4>2
    <3>4. QED
      BY <3>1, <3>2, <3>3 DEF Seamless
  <2>4. Waiting(x) = pcm[kept].from
    <3>1. x.pcm[1] = pcm[kept + 1 - 1] /\ kept + 1 - 1 = kept
      BY <1>2, <1>14, <2>1, <2>2
    <3>2. QED
      BY <1>14, <2>2, <3>1 DEF Waiting
  <2>5. late => x.runs = q.runs /\ x.next = q.next
    BY <1>12, <1>14, <2>1 DEF Good
  <2>6. ~late => Waiting(x) <= x.next /\ x.next >= Smaller(x.clock, bound)
    <3>1. SUFFICES ASSUME ~late PROVE Waiting(x) <= x.next /\ x.next >= Smaller(x.clock, bound)
      OBVIOUS
    <3>2. y.next >= pcm[1].from /\ y.next >= Smaller(pcm[kept].to, bound)
      BY <1>12, <2>1, <3>1 DEF Good
    <3>3. pcm[kept].to \in Int /\ pcm[kept].to > bound
      BY <1>3, <1>4, <2>1
    <3>4. y.next >= bound
      BY <3>2, <3>3 DEF Smaller
    <3>5. pcm[kept].from <= y.next
      <4>1. CASE kept = 1
        BY <3>2, <4>1
      <4>2. CASE kept # 1
        <5>1. kept \in 2 .. N /\ kept - 1 \in 1 .. N /\ kept - 1 < kept
          BY <1>2, <2>1, <4>2
        <5>2. pcm[kept].from = pcm[kept - 1].to /\ pcm[kept - 1].to <= bound
          BY <1>3, <1>4, <5>1
        <5>3. pcm[kept - 1].to \in Int
          BY <1>4, <5>1
        <5>4. QED
          BY <1>14, <3>4, <5>2, <5>3
      <4>3. QED
        BY <4>1, <4>2
    <3>6. QED
      BY <1>1, <1>14, <2>4, <3>4, <3>5 DEF Smaller
  <2>7. QED
    BY <1>13, <1>14, <1>15, <2>3, <2>5, <2>6 DEF kept, late
<1>18. QED
  BY <1>16, <1>17

-----------------------------------------------------------------------------
(***************************************************************************)
(* A segment is fed without a gap, and silence where the source has none.  *)
(***************************************************************************)
\* The encoder has begun, or has been fed nothing.
Begins(p) == IF p.anchor = None THEN p.next = None /\ p.runs = <<>> ELSE p.next # None

\* What a pipeline feeds goes on where it stopped, and silence is where the source has none.
Sound(p, s, b) == Joined(p, s, b) /\ FineRuns(p, s, b) /\ EndsInSound(p) /\ Begins(p)

\* A run that differs from the last one is a run of its own.
LEMMA FedApart ==
  ASSUME NEW s, NEW q \in PipeType(s, Int), NEW to, NEW shift,
         q.runs # <<>> => q.runs[Len(q.runs)].shift # shift
  PROVE  Fed(q, to, shift).runs = Append(q.runs, [from |-> q.next, to |-> to, shift |-> shift])
<1>1. ~(q.runs # <<>> /\ Last(q.runs).shift = shift)
  BY DEF Last
<1>2. QED
  BY <1>1 DEF Fed, PipeType

\* feed_pcm: what is fed reaches the bound or the end of the PCM, or the PCM begins late.
LEMMA FedPcmSound ==
  ASSUME NEW s \in Sources, NEW q \in Pipes(s), NEW c, c.start \in Nat, EndOf(c) \in Nat,
         c.start <= EndOf(c), NEW last \in BOOLEAN, NEW b \in Int, Sound(q, s, b)
  PROVE  LET x == FedPcm(q, c, last)
             bound == IF last THEN WindowEnd(c, s.rate) ELSE FedUntil(c, s.rate)
         IN  /\ x \in Feeds(q, s, Int) /\ Seamless(x, b) /\ FineRuns(x, s, b) /\ EndsInSound(x)
             /\ x.anchor # None /\ x.clock = q.clock
             /\ \/ Waiting(x) <= x.next /\ x.next >= Smaller(x.clock, bound)
                \/ /\ x.runs = <<>> /\ x.next = PrerollStart(c, s.rate) /\ Opens(s, bound, b)
<1> DEFINE bound == IF last THEN WindowEnd(c, s.rate) ELSE FedUntil(c, s.rate)
           start == PrerollStart(c, s.rate)
           y == Begun(q, start)
           x == FedPcm(q, c, last)
<1>1. s.rate \in Nat /\ s.rate # None
  BY SourceType DEF None
<1>2. bound \in Int /\ start \in Nat
  <2>1. WindowEnd(c, s.rate) \in Nat /\ FedUntil(c, s.rate) \in Int /\ start \in Int
        /\ WindowStart(c, s.rate) \in Nat
    BY <1>1, WindowOrder
  <2>2. start >= 0
    <3> DEFINE early == Minus(WindowStart(c, s.rate), 32768)
    <3>1. early \in Nat
      BY <2>1 DEF Minus, Larger
    <3>2. start = (early \div 1024) * 1024
      BY DEF PrerollStart, AlignedDown, FrameSamples, PrerollFrames
    <3> HIDE DEF early
    <3>3. QED
      BY <3>1, <3>2
  <2>3. QED
    BY <2>1, <2>2
<1>3. /\ q.rate = s.rate /\ Seamless(q, b) /\ Joins(q, s, b) /\ FineRuns(q, s, b)
      /\ EndsInSound(q) /\ Begins(q)
  BY DEF Sound, Joined
<1>4. q.anchor \in Int /\ q.next \in Int /\ q.clock \in Int /\ q \in PipeType(s, Int)
  BY DEF Pipes, PipeType
<1>5. x = FedBefore(y, FirstBeyond(y.pcm, bound), bound)
  <2>1. y.pcm = q.pcm
    BY DEF Begun, Pipes, PipeType
  <2>2. QED
    BY <1>1, <1>3, <2>1, Zenon DEF FedPcm
<1> HIDE DEF bound, start
<1>6. /\ y.pcm = q.pcm /\ y.runs = q.runs /\ y.clock = q.clock
      /\ y.anchor = (IF q.anchor = None THEN start ELSE q.anchor)
      /\ y.next = (IF q.next = None THEN start ELSE q.next)
  BY DEF Begun, Pipes, PipeType
<1>7. y \in Feeds(q, s, Int)
  BY <1>2, <1>4, FeedsItself, BegunType
<1>13. x \in Feeds(q, s, Int)
  <2>1. Silence \in Int
    BY DEF Silence
  <2>2. QED
    BY <1>4, <2>1, FedPcmType
<1> HIDE DEF x, y
<1>8. y.anchor # None
  BY <1>2, <1>6 DEF None
<1>9. Seamless(y, b) /\ FineRuns(y, s, b) /\ EndsInSound(y)
  BY <1>3, <1>6 DEF Seamless, FineRuns, EndsInSound
<1>10. CASE q.anchor = None
  <2>1. /\ q.pcm # <<>> /\ Opens(s, q.pcm[1].from, b) /\ q.next = None /\ q.runs = <<>>
    BY <1>3, <1>10 DEF Joins, Begins
  <2>2. y.next = start /\ y.pcm # <<>> /\ Opens(s, y.pcm[1].from, b) /\ y.runs = <<>>
    BY <1>6, <2>1
  <2>3. /\ Seamless(x, b) /\ FineRuns(x, s, b) /\ EndsInSound(x)
        /\ x.anchor = y.anchor /\ x.clock = y.clock
        /\ IF Late(y, bound) THEN x.runs = y.runs /\ x.next = y.next
           ELSE Waiting(x) <= x.next /\ x.next >= Smaller(x.clock, bound)
    BY <1>2, <1>5, <1>7, <1>9, <2>2, FedBeforeJoins
  <2>4. Late(y, bound) => Opens(s, bound, b)
    <3> DEFINE from == y.pcm[1].from
    <3>1. from \in Int
      <4>1. q.pcm \in Seq(RunType(Int))
        BY DEF Pipes, PipeType
      <4>2. q.pcm[1] \in RunType(Int)
        BY <2>1, <4>1
      <4>3. QED
        BY <1>6, <4>2 DEF RunType
    <3>2. SoundFrom(s) + RoundingMs(s) \in Int
      BY SourceType, RoundingIs DEF SoundFrom
    <3>3. Late(y, bound) => bound <= from
      BY DEF Late
    <3> HIDE DEF from
    <3>4. Opens(s, from, b)
      BY <2>2 DEF from
    <3>5. QED
      BY <1>2, <3>1, <3>2, <3>3, <3>4 DEF Opens, Unheard
  <2>5. QED
    BY <1>6, <1>8, <1>13, <2>2, <2>3, <2>4 DEF x, bound, start
<1>11. CASE q.anchor # None
  <2>1. Waiting(q) <= q.next /\ q.next # None
    BY <1>3, <1>11 DEF Joins, Begins
  <2>2. y.next = q.next /\ (y.pcm = <<>> => y.clock <= y.next)
        /\ (y.pcm # <<>> => y.pcm[1].from <= y.next)
    BY <1>6, <2>1 DEF Waiting
  <2>3. /\ Seamless(x, b) /\ FineRuns(x, s, b) /\ EndsInSound(x)
        /\ x.anchor = y.anchor /\ x.clock = y.clock
        /\ IF Late(y, bound) THEN x.runs = y.runs /\ x.next = y.next
           ELSE Waiting(x) <= x.next /\ x.next >= Smaller(x.clock, bound)
    BY <1>2, <1>5, <1>7, <1>9, <2>2, FedBeforeJoins
  <2>4. ~Late(y, bound)
    <3>1. y.pcm # <<>> => y.pcm[1].from \in Int
      <4>1. q.pcm \in Seq(RunType(Int))
        BY DEF Pipes, PipeType
      <4>2. q.pcm # <<>> => q.pcm[1] \in RunType(Int)
        BY <4>1
      <4>3. QED
        BY <1>6, <4>2 DEF RunType
    <3>2. QED
      BY <1>4, <2>2, <3>1 DEF Late
  <2>5. QED
    BY <1>6, <1>8, <1>13, <2>3, <2>4 DEF x, bound, start
<1>12. QED
  BY <1>10, <1>11

\* A run of sound or of silence where it may be.
Proper(s, r, b) ==
  \/ MayEnd(s, r.to, r.shift, b)
  \/ r.shift = Silence /\ r.from >= SoundTo(s) - RoundingMs(s)
ProperRuns(s, runs, b) == \A n \in DOMAIN runs : Proper(s, runs[n], b)

\* The clock has reached the end of the sound, or of the window.
AtEnd(s, p, c) == p.clock >= SoundTo(s) - RoundingMs(s) \/ p.clock >= WindowEnd(c, s.rate)

\* render: what is fed for a segment that is not the last one goes on without a gap, if
\* it reaches far enough,
LEMMA RenderedSound ==
  ASSUME NEW s \in Sources, NEW p, NEW packets, NEW c, c.start \in Nat, EndOf(c) \in Nat,
         c.start <= EndOf(c), NEW b \in Int, NEW q \in Pipes(s), q = DecodedAll(p, s, packets),
         Sound(q, s, b), Rendered(p, s, c, packets, FALSE).next >= CodedEnd(c, s.rate) + FrameSamples
  PROVE  LET r == Rendered(p, s, c, packets, FALSE)
         IN  Sound(r, s, b) /\ r.anchor # None /\ ProperRuns(s, r.runs, b)
<1> DEFINE x == FedPcm(q, c, FALSE)
           r == Rendered(p, s, c, packets, FALSE)
           bound == FedUntil(c, s.rate)
<1>1. /\ x \in Feeds(q, s, Int) /\ Seamless(x, b) /\ FineRuns(x, s, b) /\ EndsInSound(x)
      /\ x.anchor # None /\ x.clock = q.clock
      /\ \/ Waiting(x) <= x.next /\ x.next >= Smaller(x.clock, bound)
         \/ /\ x.runs = <<>> /\ x.next = PrerollStart(c, s.rate) /\ Opens(s, bound, b)
  BY FedPcmSound
<1>2. r = Flushed(x, FALSE)
  BY DEF Rendered, FedToEnd
<1> HIDE DEF x
<1>3. /\ r.next = x.next /\ r.runs = x.runs /\ r.pcm = x.pcm /\ r.clock = x.clock
      /\ r.anchor = x.anchor /\ r.rate = q.rate
  BY <1>1, <1>2 DEF Flushed, Feeds, PipeType
<1> HIDE DEF r
<1>4. r.next \in Int
  BY <1>1, <1>3 DEF Feeds, PipeType
<1>5. s.rate \in Nat
  BY SourceType
<1>6. /\ WindowStart(c, s.rate) \in Nat /\ WindowEnd(c, s.rate) \in Nat
      /\ WindowStart(c, s.rate) <= WindowEnd(c, s.rate)
      /\ bound \in Int /\ bound = CodedEnd(c, s.rate) + FrameSamples
      /\ PrerollStart(c, s.rate) \in Int /\ PrerollStart(c, s.rate) <= WindowStart(c, s.rate)
      /\ WindowEnd(c, s.rate) < bound
  BY <1>5, WindowOrder
<1>7. r.next >= bound /\ r.next # None
  <2>1. r.next >= bound
    BY <1>6 DEF r
  <2>2. QED
    BY <1>4, <1>6, <2>1 DEF None
<1>8. Waiting(x) <= x.next
  BY <1>1, <1>3, <1>4, <1>6, <1>7
<1>9. Joined(r, s, b)
  <2>1. q.rate = s.rate
    BY DEF Sound, Joined
  <2>2. Seamless(r, b)
    BY <1>1, <1>3 DEF Seamless
  <2>3. Joins(r, s, b)
    BY <1>1, <1>3, <1>8 DEF Joins, Waiting
  <2>4. QED
    BY <1>3, <2>1, <2>2, <2>3 DEF Joined
<1>10. FineRuns(r, s, b) /\ EndsInSound(r) /\ Begins(r)
  BY <1>1, <1>3, <1>7 DEF FineRuns, EndsInSound, Begins
<1>11. ProperRuns(s, r.runs, b)
  BY <1>10 DEF ProperRuns, Proper, FineRuns
<1>12. QED
  BY <1>1, <1>3, <1>9, <1>10, <1>11 DEF Sound, r

\* and what is fed for the last one is followed by silence where the sound has ended.
LEMMA RenderedLast ==
  ASSUME NEW s \in Sources, NEW p, NEW packets, NEW c, c.start \in Nat, EndOf(c) \in Nat,
         c.start <= EndOf(c), NEW b \in Int, NEW q \in Pipes(s), q = DecodedAll(p, s, packets),
         Sound(q, s, b), AtEnd(s, q, c)
  PROVE  ProperRuns(s, Rendered(p, s, c, packets, TRUE).runs, b)
<1> DEFINE x == FedPcm(q, c, TRUE)
           r == Rendered(p, s, c, packets, TRUE)
           end == WindowEnd(c, s.rate)
           y == FedSilence(x, c)
           run == [from |-> x.next, to |-> end, shift |-> Silence]
<1>1. /\ x \in Feeds(q, s, Int) /\ Seamless(x, b) /\ FineRuns(x, s, b) /\ EndsInSound(x)
      /\ x.anchor # None /\ x.clock = q.clock
      /\ \/ Waiting(x) <= x.next /\ x.next >= Smaller(x.clock, end)
         \/ /\ x.runs = <<>> /\ x.next = PrerollStart(c, s.rate) /\ Opens(s, end, b)
  BY FedPcmSound
<1>2. r = Flushed(y, TRUE)
  BY DEF Rendered, FedToEnd
<1> HIDE DEF x
<1>3. /\ x.rate = s.rate /\ s.rate # None /\ s.rate \in Nat /\ x.next \in Int /\ x.clock \in Int
      /\ x \in PipeType(s, Int)
  <2>1. q.rate = s.rate
    BY DEF Sound, Joined
  <2>2. s.rate \in Nat /\ s.rate # None
    BY SourceType DEF None
  <2>3. QED
    BY <1>1, <2>1, <2>2 DEF Feeds, PipeType
<1>4. y = IF x.next < end THEN Fed(x, end, Silence) ELSE x
  BY <1>3 DEF FedSilence
<1>5. end \in Int /\ SoundTo(s) - RoundingMs(s) \in Int
  <2>1. end \in Nat
    BY <1>3, WindowOrder
  <2>2. Len(AllPackets(s)) \in Nat
    <3>1. AllPackets(s) \in Seq(PacketType)
      BY AllPacketsAre
    <3>2. QED
      BY <3>1
  <2>3. s.lead \in Nat /\ s.samples \in Nat /\ RoundingMs(s) \in Nat
    BY SourceType, RoundingIs
  <2>4. Len(AllPackets(s)) * s.samples \in Nat
    BY <2>2, <2>3
  <2>5. QED
    BY <2>1, <2>3, <2>4 DEF SoundTo
<1> HIDE DEF end, y, r
<1>6. r.runs = y.runs
  <2>1. y \in PipeType(s, Int)
    <3>1. Silence \in Int
      BY DEF Silence
    <3>2. Fed(x, end, Silence) \in Feeds(q, s, Int)
      BY <1>1, <1>5, <3>1, FedType
    <3>3. QED
      BY <1>1, <1>4, <3>2 DEF Feeds
  <2>2. QED
    BY <1>2, <2>1 DEF Flushed, PipeType
<1>7. ProperRuns(s, x.runs, b)
  BY <1>1 DEF ProperRuns, Proper, FineRuns
<1>8. CASE ~(x.next < end)
  BY <1>4, <1>6, <1>7, <1>8 DEF r
<1>9. CASE x.next < end
  <2>1. x.runs # <<>> => x.runs[Len(x.runs)].shift # Silence
    BY <1>1 DEF EndsInSound
  <2>2. y.runs = Append(x.runs, run)
    <3>1. y = Fed(x, end, Silence)
      BY <1>4, <1>9
    <3>2. Silence \in Int
      BY DEF Silence
    <3>3. y.runs = Append(x.runs, [from |-> x.next, to |-> end, shift |-> Silence])
      BY <1>3, <1>5, <2>1, <3>1, <3>2, FedApart
    <3>4. QED
      BY <3>3
  <2>3. Proper(s, run, b)
    <3>1. CASE x.next >= Smaller(x.clock, end)
      <4>1. x.next >= x.clock /\ x.clock < end
        BY <1>3, <1>5, <1>9, <3>1 DEF Smaller
      <4>2. x.clock >= SoundTo(s) - RoundingMs(s)
        BY <1>1, <1>3, <1>5, <4>1 DEF AtEnd, end
      <4>3. run.from >= SoundTo(s) - RoundingMs(s)
        BY <1>3, <1>5, <4>1, <4>2
      <4>4. QED
        BY <4>3 DEF Proper
    <3>2. CASE Opens(s, end, b)
      BY <3>2 DEF Proper, MayEnd, Silence, Cold
    <3>3. QED
      BY <1>1, <3>1, <3>2
  <2>4. x.runs \in Seq(RunType(Int))
    BY <1>3 DEF PipeType
  <2> HIDE DEF run
  <2>5. ProperRuns(s, Append(x.runs, run), b)
    <3> DEFINE N == Len(x.runs)
               more == Append(x.runs, run)
    <3>1. /\ DOMAIN more = 1 .. N + 1 /\ more[N + 1] = run /\ N \in Nat
          /\ \A n \in 1 .. N : more[n] = x.runs[n] /\ n \in DOMAIN x.runs
      BY <2>4
    <3> HIDE DEF N, more
    <3>2. ASSUME NEW n \in DOMAIN more PROVE Proper(s, more[n], b)
      <4>1. n \in 1 .. N \/ n = N + 1
        BY <3>1
      <4>2. QED
        BY <1>7, <2>3, <3>1, <4>1 DEF ProperRuns
    <3>3. QED
      BY <3>2 DEF ProperRuns, more
  <2>6. QED
    BY <1>6, <2>2, <2>5 DEF r
<1>10. QED
  BY <1>8, <1>9

-----------------------------------------------------------------------------
(***************************************************************************)
(* What is published of a segment is heard, and true.                      *)
(***************************************************************************)
\* Sound without a decoder that warms up, and without silence in the middle of the source's.
TrueSound(s, sound) ==
  \A n \in DOMAIN sound :
    /\ sound[n].shift # Cold
    /\ sound[n].shift = Silence => \/ sound[n].to <= SoundFrom(s) + RoundingMs(s)
                                   \/ sound[n].from >= SoundTo(s) - RoundingMs(s)

\* What is heard from the start of a segment on is of that kind.
LEMMA HeardTrue ==
  ASSUME NEW s \in Sources, NEW runs \in Seq(RunType(Int)), NEW b \in Int, NEW from \in Int,
         NEW to \in Int, ProperRuns(s, runs, b), 0 < b => b <= from
  PROVE  TrueSound(s, Heard(runs, from, to))
<1> DEFINE R == RunType(Int)
           I == {n \in DOMAIN runs : runs[n].to > from /\ runs[n].from < to}
           inside == Kept(runs, I)
           heard == Heard(runs, from, to)
           low == SoundFrom(s) + RoundingMs(s)
           high == SoundTo(s) - RoundingMs(s)
<1>1. heard = [n \in DOMAIN inside |->
                 [inside[n] EXCEPT !.from = Larger(@, from), !.to = Smaller(@, to)]]
  BY DEF Heard
<1>2. low \in Int /\ high \in Int
  <2>1. Len(AllPackets(s)) \in Nat
    <3>1. AllPackets(s) \in Seq(PacketType)
      BY AllPacketsAre
    <3>2. QED
      BY <3>1
  <2>2. s.lead \in Nat /\ s.skip \in Nat /\ s.samples \in Nat /\ RoundingMs(s) \in Nat
    BY SourceType, RoundingIs
  <2>3. Len(AllPackets(s)) * s.samples \in Nat
    BY <2>1, <2>2
  <2>4. /\ SoundFrom(s) \in Int /\ SoundTo(s) \in Int
    BY <2>2, <2>3 DEF SoundFrom, SoundTo
  <2>5. QED
    BY <2>2, <2>4
<1>3. runs \in Seq(R)
  OBVIOUS
<1> HIDE DEF R, I
<1>4. \A m \in DOMAIN inside : \E n \in I \cap DOMAIN runs : inside[m] = runs[n]
  BY <1>3, KeptFrom
<1> USE DEF R, I
<1> HIDE DEF inside, heard
<1>5. ASSUME NEW m \in DOMAIN heard
      PROVE  /\ heard[m].shift # Cold
             /\ heard[m].shift = Silence => heard[m].to <= low \/ heard[m].from >= high
  <2>1. m \in DOMAIN inside
    BY <1>1
  <2>2. PICK n \in I \cap DOMAIN runs : inside[m] = runs[n]
    BY <1>4, <2>1
  <2> DEFINE r == runs[n]
             h == heard[m]
  <2>3. r \in R /\ r.to > from /\ Proper(s, r, b)
    BY <1>3, <2>2 DEF ProperRuns
  <2>4. h = [r EXCEPT !.from = Larger(@, from), !.to = Smaller(@, to)]
    BY <1>1, <2>1, <2>2
  <2> HIDE DEF r, h
  <2>5. /\ h.shift = r.shift /\ h.from = Larger(r.from, from) /\ h.to = Smaller(r.to, to)
        /\ r.from \in Int /\ r.to \in Int
    BY <2>3, <2>4 DEF RunType
  <2>6. h.from \in Int /\ h.to \in Int /\ r.from <= h.from /\ h.to <= r.to
    BY <2>5 DEF Larger, Smaller
  <2>7. ~Unheard(r.to, b)
    BY <2>3, <2>5 DEF Unheard
  <2>8. r.shift # Cold /\ (r.shift = Silence => r.to <= low \/ r.from >= high)
    <3>1. CASE MayEnd(s, r.to, r.shift, b)
      BY <2>7, <3>1 DEF MayEnd, Opens
    <3>2. CASE r.shift = Silence /\ r.from >= high
      BY <3>2 DEF Silence, Cold
    <3>3. QED
      BY <2>3, <3>1, <3>2 DEF Proper
  <2> HIDE DEF low, high
  <2>9. h.shift = Silence => h.to <= low \/ h.from >= high
    BY <1>2, <2>5, <2>6, <2>8
  <2>10. QED
    BY <2>5, <2>8, <2>9 DEF h
<1>6. QED
  BY <1>5 DEF TrueSound, heard

\* A pipeline that is fine for the sound from b on is so from any later place on.
LEMMA SoundLater ==
  ASSUME NEW s \in Sources, NEW p \in Pipes(s), NEW a \in Int, NEW b \in Int, a <= b,
         Sound(p, s, a)
  PROVE  Sound(p, s, b)
<1>1. \A to \in Int : Unheard(to, a) => Unheard(to, b)
  BY DEF Unheard
<1>2. \A to \in Int : Opens(s, to, a) => Opens(s, to, b)
  BY <1>1 DEF Opens
<1>3. /\ p.pcm \in Seq(RunType(Int)) /\ p.runs \in Seq(RunType(Int))
  BY DEF Pipes, PipeType
<1>4. /\ \A n \in DOMAIN p.pcm : p.pcm[n].from \in Int /\ p.pcm[n].to \in Int
      /\ \A n \in DOMAIN p.runs : p.runs[n].to \in Int
  <2>1. \A r \in RunType(Int) : r.from \in Int /\ r.to \in Int
    BY DEF RunType
  <2> DEFINE R == RunType(Int)
  <2>2. (\A n \in DOMAIN p.pcm : p.pcm[n] \in R) /\ (\A n \in DOMAIN p.runs : p.runs[n] \in R)
    <3>1. p.pcm \in Seq(R) /\ p.runs \in Seq(R)
      BY <1>3
    <3> HIDE DEF R
    <3>2. QED
      BY <3>1
  <2>3. QED
    BY <2>1, <2>2
<1>5. p.rate = s.rate /\ Seamless(p, a) /\ Joins(p, s, a) /\ FineRuns(p, s, a)
      /\ EndsInSound(p) /\ Begins(p)
  BY DEF Sound, Joined
<1>6. Seamless(p, b)
  <2>1. ASSUME NEW n \in DOMAIN p.pcm PROVE Sounding(p.pcm[n], b)
    <3>1. Sounding(p.pcm[n], a) /\ p.pcm[n].to \in Int
      BY <1>4, <1>5 DEF Seamless
    <3>2. QED
      BY <1>1, <3>1 DEF Sounding
  <2>2. QED
    BY <1>5, <2>1 DEF Seamless
<1>7. Joins(p, s, b)
  <2>1. CASE p.anchor = None
    <3>1. p.pcm # <<>> /\ Opens(s, p.pcm[1].from, a)
      BY <1>5, <2>1 DEF Joins
    <3>2. 1 \in DOMAIN p.pcm
      BY <1>3, <3>1
    <3>3. Opens(s, p.pcm[1].from, b)
      BY <1>2, <1>4, <3>1, <3>2
    <3>4. QED
      BY <2>1, <3>1, <3>3 DEF Joins
  <2>2. CASE p.anchor # None
    BY <1>5, <2>2 DEF Joins
  <2>3. QED
    BY <2>1, <2>2
<1>8. FineRuns(p, s, b)
  <2>1. ASSUME NEW n \in DOMAIN p.runs PROVE MayEnd(s, p.runs[n].to, p.runs[n].shift, b)
    <3>1. MayEnd(s, p.runs[n].to, p.runs[n].shift, a) /\ p.runs[n].to \in Int
      BY <1>4, <1>5 DEF FineRuns
    <3>2. QED
      BY <1>1, <1>2, <3>1 DEF MayEnd
  <2>2. QED
    BY <2>1 DEF FineRuns
<1>9. QED
  BY <1>5, <1>6, <1>7, <1>8 DEF Sound, Joined

\* A new pipeline starts with a packet that is early enough for its segment.
LEMMA StartsEarly ==
  ASSUME NEW s \in Sources, NEW c, c.start \in Nat, EndOf(c) \in Nat, NEW p, p.rate = None,
         NEW packets, NEW lo \in Nat, NEW hi \in Nat,
         RunOfSound(s, packets, InputWindow(p, s, c), lo, hi)
  PROVE  EarlyEnough(s, lo, WindowStart(c, s.rate))
<1> DEFINE all == AllPackets(s)
           w == InputWindow(p, s, c)
           n == lo - 1
<1>1. 1 <= lo /\ lo <= hi /\ hi <= Len(all) /\ \A m \in DOMAIN all : m < lo => PtsMs(all[m]) < w.start
  BY DEF RunOfSound
<1> SUFFICES ASSUME lo # 1 PROVE EarlyEnough(s, lo, WindowStart(c, s.rate))
  BY DEF EarlyEnough
<1>2. all \in Seq(PacketType) /\ \A m \in DOMAIN all : PtsMs(all[m]) \in Nat
  BY AllPacketsAre
<1>3. n \in DOMAIN all /\ n < lo /\ n \in Nat
  <2>1. DOMAIN all = 1 .. Len(all) /\ Len(all) \in Nat
    BY <1>2
  <2> HIDE DEF all
  <2>2. QED
    BY <1>1, <2>1
<1>4. all[n] \in PacketType /\ PtsMs(all[n]) < w.start /\ PtsMs(all[n]) \in Nat
  <2> HIDE DEF all
  <2>1. QED
    BY <1>1, <1>2, <1>3
<1>5. w.start \in Nat /\ w.start > 0
  <2>1. w.start \in Nat
    BY SoundAround
  <2> HIDE DEF w, all
  <2>2. QED
    BY <1>4, <2>1
<1> DEFINE R == RoundingMs(s)
           x == ToSamples(all[n].pts, all[n].scale, s.rate)
           y == MsToSamples(w.start, s.rate)
           b == WindowStart(c, s.rate)
           place == PlaceOf(s, n)
<1>6. y + 2 * s.samples + 2 * R <= b /\ b \in Nat /\ 0 < b
  BY <1>5, PrerollReaches
<1>7. s.rate \in Nat /\ s.samples \in Nat /\ s.lead \in Nat /\ R \in Nat
  BY SourceType, RoundingIs
<1>8. x <= y
  <2> DEFINE packet == all[n]
             ms == w.start
  <2>1. packet \in PacketType /\ ms \in Nat /\ PtsMs(packet) < ms
    BY <1>4, <1>5
  <2> HIDE DEF packet, ms
  <2>2. ToSamples(packet.pts, packet.scale, s.rate) <= MsToSamples(ms, s.rate)
    BY <1>7, <2>1, EarlierSamples
  <2>3. QED
    BY <2>2 DEF packet, ms
<1>9. y \in Nat
  BY <1>5, <1>7, MillisInSamples
<1>10. x \in Nat /\ place \in Int /\ place <= x + R
  BY <1>3, NearPlace
<1>11. PlaceOf(s, lo) = place + s.samples
  <2>1. (lo - 1) * s.samples = (lo - 2) * s.samples + s.samples /\ (lo - 2) * s.samples \in Int
    BY <1>7
  <2>2. n - 1 = lo - 2
    OBVIOUS
  <2>3. QED
    BY <1>7, <2>1, <2>2 DEF PlaceOf
<1> HIDE DEF x, y, b, place, R
<1>12. PlaceOf(s, lo) + s.samples + R <= b
  BY <1>6, <1>7, <1>8, <1>9, <1>10, <1>11
<1>13. QED
  BY <1>6, <1>12 DEF EarlyEnough, b, R

\* A pipeline has decoded the packets up to one.
DecodedUpTo(q, s, hi) == q \in Pipes(s) /\ InPlace(q, s) /\ q.last # None /\ hi <= q.last

\* A pipeline that has decoded what is read for a segment has reached the segment's end, or
\* that of the sound.
LEMMA ClockAtEnd ==
  ASSUME NEW s \in Sources, NEW c, c.start \in Nat, EndOf(c) \in Nat,
         NEW p, p.rate \in {None, s.rate}, NEW packets, NEW lo, lo \in Nat, NEW hi, hi \in Nat,
         RunOfSound(s, packets, InputWindow(p, s, c), lo, hi),
         NEW q, DecodedUpTo(q, s, hi)
  PROVE  AtEnd(s, q, c)
<1> DEFINE all == AllPackets(s)
           w == InputWindow(p, s, c)
           N == Len(all)
           R == RoundingMs(s)
           here == s.lead + q.last * s.samples
           clock == q.clock
           last == q.last
<1>0. q \in Pipes(s) /\ InPlace(q, s) /\ q.last # None /\ hi <= q.last
  BY DEF DecodedUpTo
<1>1. \A m \in DOMAIN all : PtsMs(all[m]) < w.end => m <= hi
  BY DEF RunOfSound
<1>2. /\ all \in Seq(PacketType) /\ \A m \in DOMAIN all : PtsMs(all[m]) \in Nat
      /\ DOMAIN all = 1 .. N /\ N \in Nat
  BY AllPacketsAre
<1>3. s.rate \in Nat /\ s.samples \in Nat /\ s.lead \in Nat /\ R \in Nat
  BY SourceType, RoundingIs
<1>4. last \in Nat /\ clock \in Nat /\ clock - here \in Drifts(s)
  BY <1>0 DEF InPlace
<1>5. here \in Nat
  <2>1. last * s.samples \in Nat
    BY <1>3, <1>4
  <2>2. QED
    BY <1>3, <2>1
<1>6. here - R <= clock
  <2>1. -R <= clock - here
    BY <1>4, DriftsSmall
  <2> HIDE DEF here, R, clock
  <2>2. QED
    BY <1>3, <1>4, <1>5, <2>1
<1>7. CASE N <= last
  <2>1. N * s.samples <= last * s.samples /\ N * s.samples \in Int
    BY <1>2, <1>3, <1>4, <1>7, ProductOrder
  <2>2. SoundTo(s) = s.lead + N * s.samples
    BY DEF SoundTo
  <2>3. last * s.samples \in Int
    BY <1>3, <1>4
  <2> DEFINE A == N * s.samples
             B == last * s.samples
  <2>4. A \in Int /\ B \in Int /\ A <= B /\ SoundTo(s) = s.lead + A /\ here = s.lead + B
    BY <2>1, <2>2, <2>3
  <2> HIDE DEF A, B, here, R, clock
  <2>5. clock >= SoundTo(s) - R
    BY <1>3, <1>4, <1>5, <1>6, <2>4
  <2>6. QED
    BY <2>5 DEF AtEnd, R, clock
<1>8. CASE last < N
  <2> DEFINE n == last + 1
             x == ToSamples(all[n].pts, all[n].scale, s.rate)
             y == MsToSamples(w.end, s.rate)
             e == WindowEnd(c, s.rate)
  <2>1. n \in DOMAIN all /\ ~(n <= hi)
    BY <1>0, <1>2, <1>4, <1>8
  <2>2. w.end \in Nat /\ w.end > 0 /\ y \in Nat /\ e \in Nat /\ e + 2 * R <= y
    BY LookaheadReaches
  <2>3. all[n] \in PacketType /\ w.end <= PtsMs(all[n])
    <3>1. ~(PtsMs(all[n]) < w.end) /\ PtsMs(all[n]) \in Nat
      BY <1>1, <1>2, <2>1
    <3>2. all[n] \in PacketType
      BY <1>2, <2>1
    <3> HIDE DEF w
    <3>3. QED
      BY <2>2, <3>1, <3>2
  <2>4. y <= x
    <3> DEFINE packet == all[n]
               ms == w.end
    <3>1. packet \in PacketType /\ ms \in Nat /\ ms > 0 /\ ms <= PtsMs(packet)
      BY <2>2, <2>3
    <3> HIDE DEF packet, ms
    <3>2. MsToSamples(ms, s.rate) <= ToSamples(packet.pts, packet.scale, s.rate)
      BY <1>3, <3>1, LaterSamples
    <3>3. QED
      BY <3>2 DEF packet, ms
  <2>5. x \in Nat /\ PlaceOf(s, n) \in Int /\ x <= PlaceOf(s, n) + R
    BY <2>1, NearPlace
  <2>6. PlaceOf(s, n) = here
    <3>1. n - 1 = last
      BY <1>4
    <3>2. QED
      BY <3>1 DEF PlaceOf
  <2> HIDE DEF x, y, e, here, R, clock, n
  <2>7. clock >= e
    BY <1>3, <1>4, <1>5, <1>6, <2>2, <2>4, <2>5, <2>6
  <2>8. QED
    BY <2>7 DEF AtEnd, clock, e
<1>9. QED
  BY <1>2, <1>4, <1>7, <1>8

-----------------------------------------------------------------------------
(***************************************************************************)
(* The invariant: the sound goes on where it stopped, in the pipeline and  *)
(* from segment to segment.                                                *)
(***************************************************************************)
\* A new pipeline decodes all that is read.
LEMMA NewStartsWithAll ==
  ASSUME NEW s \in Sources, NEW p, p.last = None, NEW packets, NEW w, NEW lo \in Nat,
         NEW hi \in Nat, RunOfSound(s, packets, w, lo, hi),
         NEW a \in Nat, GoesOn(s, p, NewPackets(p, packets), a, hi)
  PROVE  a = lo
<1> DEFINE fresh == NewPackets(p, packets)
           L == Len(packets)
<1>1. /\ packets \in Seq(PacketType) /\ lo <= hi /\ L = hi - lo + 1
      /\ \A m \in 1 .. L : Like(s, packets[m], lo + m - 1)
  BY DEF RunOfSound
<1>2. L \in Nat /\ DOMAIN packets = 1 .. L /\ 1 \in 1 .. L
  BY <1>1
<1>3. fresh = Kept(packets, 1 .. L)
  <2>1. {n \in DOMAIN packets : p.last = None \/ packets[n].offset > p.last} = 1 .. L
    BY <1>2
  <2>2. QED
    BY <2>1 DEF NewPackets
<1>4. LET k == Kept(packets, 1 .. L)
      IN  /\ k \in Seq(PacketType) /\ Len(k) = L - 1 + 1
          /\ \A m \in 1 .. L - 1 + 1 : k[m] = packets[1 + m - 1]
  <2>1. PICK from \in Nat : from = 1
    OBVIOUS
  <2>2. PICK to \in Nat : to = L
    BY <1>2
  <2>3. 1 <= from /\ from <= to + 1 /\ to <= Len(packets)
    BY <1>2, <2>1, <2>2
  <2>4. LET k == Kept(packets, from .. to)
        IN  /\ k \in Seq(PacketType) /\ Len(k) = to - from + 1
            /\ \A m \in 1 .. to - from + 1 : k[m] = packets[from + m - 1]
    <3>1. packets \in Seq(PacketType)
      BY <1>1
    <3>2. QED
      BY ONLY <2>3, <3>1, KeptRun
  <2>5. QED
    BY <2>1, <2>2, <2>4
<1>5. /\ fresh \in Seq(PacketType)
      /\ \A m \in 1 .. Len(fresh) : Like(s, fresh[m], a + m - 1)
  BY DEF GoesOn
<1> HIDE DEF fresh, L
<1>6. Len(fresh) = L /\ fresh[1] = packets[1]
  BY <1>2, <1>3, <1>4
<1>7. Like(s, packets[1], a + 1 - 1) /\ Like(s, packets[1], lo + 1 - 1)
  BY <1>1, <1>2, <1>5, <1>6
<1>8. QED
  BY <1>7 DEF Like

\* A pipeline is new, or fine for the sound from b on.
Flows(p, s, b) == IF p.last = None THEN p = NewPipeline(s) ELSE Sound(p, s, b)

\* One segment: what is fed for it is sound without a gap and silence around the source's.
LEMMA RenderFlows ==
  ASSUME NEW s \in Sources, NEW i \in DOMAIN SegmentPlan(s), NEW p \in Pipes(s),
         InPlace(p, s), Ready(p, s, i), NEW last \in BOOLEAN,
         Flows(p, s, WindowStart(SegmentPlan(s)[i], s.rate))
  PROVE  LET c == SegmentPlan(s)[i]
             b == WindowStart(c, s.rate)
             range == RangeRead(s, PacketsRead(s, MediaWindows(s, p, c), c)[2], InputWindow(p, s, c))
             r == Rendered(p, s, c, range, last)
         IN  /\ range # <<>> /\ ~DecodeFails(p, s, range)
             /\ last \/ r.next >= CodedEnd(c, s.rate) + FrameSamples
             => ProperRuns(s, r.runs, b) /\ (~last => Sound(r, s, b))
<1> DEFINE c == SegmentPlan(s)[i]
           b == WindowStart(c, s.rate)
           w == InputWindow(p, s, c)
           range == RangeRead(s, PacketsRead(s, MediaWindows(s, p, c), c)[2], w)
           r == Rendered(p, s, c, range, last)
           q == DecodedAll(p, s, range)
<1> SUFFICES ASSUME range # <<>>, ~DecodeFails(p, s, range),
                    last \/ r.next >= CodedEnd(c, s.rate) + FrameSamples
             PROVE  ProperRuns(s, r.runs, b) /\ (~last => Sound(r, s, b))
  OBVIOUS
<1>1. p.rate \in {None, s.rate}
  BY DEF Pipes, PipeType
<1>2. c.start \in Nat /\ EndOf(c) \in Nat /\ c.start <= EndOf(c)
  <2>1. c.start \in Nat /\ EndOf(c) \in Nat
    BY PlanIsGapless
  <2>2. c.duration \in Nat
    <3>1. SegmentPlan(s) \in Seq(PlannedChunks)
      BY PlanIsGapless
    <3>2. \A x \in PlannedChunks : x.duration \in Nat
      BY DEF PlannedChunks
    <3>3. QED
      BY <3>1, <3>2
  <2>3. QED
    BY <2>1, <2>2 DEF EndOf
<1>3. PICK lo \in Nat, hi \in Nat, a \in Nat :
        RunOfSound(s, range, w, lo, hi) /\ GoesOn(s, p, NewPackets(p, range), a, hi)
  BY SegmentGoesOn
<1>4. Flows(p, s, b)
  OBVIOUS
<1> HIDE DEF c
<1>5. b \in Int
  <2>1. s.rate \in Nat
    BY SourceType
  <2>2. QED
    BY <1>2, <2>1, WindowOrder
<1> HIDE DEF b
<1>6. Starts(p, s, a, b)
  <2>1. CASE p.last = None
    <3>1. p = NewPipeline(s) /\ a = lo /\ p.rate = None
      BY <1>3, <1>4, <2>1, NewStartsWithAll DEF Flows, NewPipeline
    <3>2. EarlyEnough(s, lo, b)
      BY <1>2, <1>3, <3>1, StartsEarly DEF b
    <3>3. QED
      BY <2>1, <3>1, <3>2 DEF Starts
  <2>2. CASE p.last # None
    BY <1>4, <2>2 DEF Flows, Starts, Sound
  <2>3. QED
    BY <2>1, <2>2
<1> HIDE DEF range, w
<1>7. q \in Pipes(s) /\ InPlace(q, s) /\ q.last # None /\ hi <= q.last
  BY <1>3, DecodesInPlace
<1>8. SameFeed(q, p) /\ Joined(q, s, b)
  BY <1>3, <1>5, <1>6, DecodesJoined
<1>9. AtEnd(s, q, c)
  <2>1. RunOfSound(s, range, InputWindow(p, s, c), lo, hi)
    BY <1>3 DEF w
  <2> HIDE DEF q, r
  <2>2. DecodedUpTo(q, s, hi)
    BY <1>7 DEF DecodedUpTo
  <2>3. QED
    BY <1>1, <1>2, <2>1, <2>2, ClockAtEnd
<1> HIDE DEF q, r
<1>10. FineRuns(p, s, b) /\ EndsInSound(p) /\ Begins(p)
  <2>1. CASE p.last = None
    <3>1. p.runs = <<>> /\ p.anchor = None /\ p.next = None
      BY <1>4, <2>1 DEF Flows, NewPipeline
    <3>2. DOMAIN p.runs = {}
      BY <3>1
    <3>3. QED
      BY <3>1, <3>2 DEF FineRuns, EndsInSound, Begins
  <2>2. CASE p.last # None
    BY <1>4, <2>2 DEF Flows, Sound
  <2>3. QED
    BY <2>1, <2>2
<1>11. Sound(q, s, b)
  BY <1>8, <1>10 DEF Sound, SameFeed, FineRuns, EndsInSound, Begins
<1>12. CASE last
  <2>1. last = TRUE
    BY <1>12
  <2>2. ProperRuns(s, Rendered(p, s, c, range, TRUE).runs, b)
    BY <1>2, <1>5, <1>7, <1>9, <1>11, RenderedLast DEF q
  <2>3. QED
    BY <2>1, <2>2 DEF r
<1>13. CASE ~last
  <2>1. last = FALSE
    BY <1>13
  <2>2. Rendered(p, s, c, range, FALSE).next >= CodedEnd(c, s.rate) + FrameSamples
    BY <2>1 DEF r
  <2>3. /\ Sound(Rendered(p, s, c, range, FALSE), s, b)
        /\ ProperRuns(s, Rendered(p, s, c, range, FALSE).runs, b)
    BY <1>2, <1>5, <1>7, <1>11, <2>2, RenderedSound DEF q
  <2>4. QED
    BY <2>1, <2>3 DEF r
<1>14. QED
  BY <1>12, <1>13

\* A pipeline that goes on with the next segment has what that one needs.
FlowsOn(p, s) ==
  LET plan == SegmentPlan(s)
  IN  /\ p.completed = None => p = NewPipeline(s) \/ p.poisoned
      /\ p.completed # None /\ p.completed + 1 \in DOMAIN plan =>
           Sound(p, s, WindowStart(plan[p.completed], s.rate))

(***************************************************************************)
(* The invariant: the sound is in its place, the current worker's pipeline *)
(* can go on with the next segment without a gap, and no fragment has      *)
(* anything made up where the source has sound.                            *)
(***************************************************************************)
SoundFlows ==
  /\ SoundInPlace /\ FlowsOn(pipe, source)
  /\ \A i \in DOMAIN chunks : \A a \in made[i] : TrueSound(source, a.sound)

\* A pipeline that is prepared for a segment flows into it.
LEMMA PreparedFlows ==
  ASSUME NEW s \in Sources, NEW p \in Pipes(s), InPlace(p, s), FlowsOn(p, s),
         NEW i \in DOMAIN SegmentPlan(s),
         IF p.completed = None THEN p.last = None ELSE Reaches(p, s, p.completed)
  PROVE  Flows(Prepared(p, s, i), s, WindowStart(SegmentPlan(s)[i], s.rate))
<1> DEFINE plan == SegmentPlan(s)
           b == WindowStart(plan[i], s.rate)
<1>1. NewPipeline(s).last = None
  BY DEF NewPipeline
<1>2. CASE Prepared(p, s, i) = NewPipeline(s)
  BY <1>1, <1>2 DEF Flows
<1>3. CASE Prepared(p, s, i) = p /\ ~p.poisoned /\ p.completed = None
  BY <1>1, <1>3 DEF Flows, FlowsOn
<1>4. CASE Prepared(p, s, i) = p /\ p.completed # None /\ p.completed + 1 = i
  <2> DEFINE k == p.completed
             a == WindowStart(plan[k], s.rate)
  <2>1. k \in DOMAIN plan /\ p.last # None /\ k + 1 \in DOMAIN plan
    BY <1>4 DEF Reaches
  <2>2. Sound(p, s, a)
    BY <1>4, <2>1 DEF FlowsOn
  <2>3. plan[k].start \in Nat /\ plan[i].start \in Nat /\ plan[k].start < plan[i].start
    BY <1>4, <2>1, PlanIsGapless
  <2>4. s.rate \in Nat
    BY SourceType
  <2>5. a \in Nat /\ b \in Nat /\ a <= b
    <3> DEFINE x == plan[k].start
               y == plan[i].start
    <3>1. x \in Nat /\ y \in Nat /\ x <= y
      BY <2>3
    <3> HIDE DEF x, y
    <3>2. MsToSamples(x, s.rate) \in Nat /\ MsToSamples(y, s.rate) \in Nat
      BY <2>4, <3>1, MillisInSamples
    <3>3. MsToSamples(x, s.rate) <= MsToSamples(y, s.rate)
      BY <2>4, <3>1, MillisOrder
    <3>4. QED
      BY <3>2, <3>3 DEF WindowStart, x, y
  <2> HIDE DEF a, b, k
  <2>6. Sound(p, s, b)
    BY <2>2, <2>5, SoundLater
  <2>7. QED
    BY <1>4, <2>1, <2>6 DEF Flows, b
<1>5. QED
  BY <1>2, <1>3, <1>4 DEF Prepared

-----------------------------------------------------------------------------
(***************************************************************************)
(* Every step keeps it, so nothing is made up.                             *)
(***************************************************************************)
\* Every step keeps it.
LEMMA SoundFlowsNext == SoundFlows /\ [Next]_vars => SoundFlows'
<1> SUFFICES ASSUME SoundFlows, [Next]_vars PROVE SoundFlows'
  OBVIOUS
<1>0. /\ source \in Sources /\ chunks = SegmentPlan(source) /\ pipe \in Pipes(source)
      /\ DOMAIN made = DOMAIN chunks /\ InPlace(pipe, source) /\ FlowsOn(pipe, source)
      /\ IF pipe.completed = None THEN pipe.last = None ELSE Reaches(pipe, source, pipe.completed)
      /\ \A i \in DOMAIN chunks : \A a \in made[i] : TrueSound(source, a.sound)
  BY DEF SoundFlows, SoundInPlace, PipeTyped, IInv
<1>1. SoundInPlace'
  BY SoundInPlaceNext DEF SoundFlows
<1>2. FlowsOn(NewPipeline(source), source)
  <2>1. NewPipeline(source).completed = None
    BY DEF NewPipeline
  <2>2. QED
    BY <2>1 DEF FlowsOn
<1>3. FlowsOn(Poisoned, source)
  <2> DEFINE p == NewPipeline(source)
             x == Poisoned
  <2>1. p \in Pipes(source) /\ p.completed = None
    BY <1>0, NewPipelineType DEF Pipes, NewPipeline
  <2>2. x.completed = p.completed /\ x.poisoned = TRUE
    <3> HIDE DEF p
    <3>1. x = [p EXCEPT !.poisoned = TRUE]
      BY DEF Poisoned, p
    <3> HIDE DEF x
    <3>2. QED
      BY <2>1, <3>1 DEF Pipes, PipeType
  <2> HIDE DEF p, x
  <2>3. QED
    BY <2>1, <2>2 DEF FlowsOn, x
<1>4. ASSUME NEW i \in DOMAIN chunks, Transcode(i) PROVE SoundFlows'
  <2> DEFINE p == Prepared(pipe, source, i)
             c == chunks[i]
             packets == PacketsRead(source, MediaWindows(source, p, c), c)
             range == RangeRead(source, packets[2], InputWindow(p, source, c))
             q == Rendered(p, source, c, range, IsLast(i))
             f == Fragment(q, source, c, packets[1])
             b == WindowStart(c, source.rate)
  <2>1. UNCHANGED <<source, chunks>>
    BY <1>4, Zenon DEF Transcode
  <2>2. \/ pipe' = Poisoned /\ made' = made
        \/ /\ range # <<>> /\ ~DecodeFails(p, source, range)
           /\ IsLast(i) \/ q.next >= CodedEnd(c, source.rate) + FrameSamples
           /\ pipe' = [q EXCEPT !.completed = i]
           /\ made' = [made EXCEPT ![i] = @ \cup {f}]
    BY <1>4, Zenon DEF Transcode, Prepare, Read, Render, Finish, Complete, Refuse, Spoiled, Renders
  <2>3. CASE pipe' = Poisoned /\ made' = made
    BY <1>0, <1>1, <1>3, <2>1, <2>3 DEF SoundFlows
  <2>4. CASE /\ range # <<>> /\ ~DecodeFails(p, source, range)
             /\ IsLast(i) \/ q.next >= CodedEnd(c, source.rate) + FrameSamples
             /\ pipe' = [q EXCEPT !.completed = i]
             /\ made' = [made EXCEPT ![i] = @ \cup {f}]
    <3>1. i \in Int /\ i # None /\ i \in DOMAIN SegmentPlan(source)
          /\ (i + 1 \in DOMAIN SegmentPlan(source) => ~IsLast(i))
      <4>1. chunks \in Seq(PlannedChunks)
        BY <1>0, PlanIsGapless
      <4>2. QED
        BY <1>0, <4>1 DEF None, IsLast
    <3>2. p \in Pipes(source) /\ InPlace(p, source) /\ Ready(p, source, i)
      BY <1>0, <3>1, PreparedInPlace
    <3>3. IsLast(i) \in BOOLEAN
      BY DEF IsLast
    <3>4. c = SegmentPlan(source)[i] /\ c.start \in Nat /\ EndOf(c) \in Nat /\ source.rate \in Nat
      BY <1>0, PlanIsGapless, SourceType
    <3>5. Flows(p, source, b)
      BY <1>0, <3>1, <3>4, PreparedFlows
    <3> HIDE DEF p
    <3>6. ProperRuns(source, q.runs, b) /\ (~IsLast(i) => Sound(q, source, b))
      BY <1>0, <2>4, <3>1, <3>2, <3>3, <3>4, <3>5, RenderFlows
    <3>7. q \in PipeType(source, Int)
      <4>1. packets[2] \in Seq(PacketType)
        BY <1>0, <3>2, <3>4, SoundReadType, SMTT(30) DEF Pipes, PipeType
      <4>2. range \in Seq(PacketType)
        <5> HIDE DEF packets
        <5>1. QED
          BY <4>1, RangeType
      <4>3. Silence \in Int
        BY DEF Silence
      <4> HIDE DEF range, c
      <4>4. DecodedAll(p, source, range) \in PipeType(source, Int)
        BY <1>0, <3>2, <4>2, DecodedAllType DEF Pipes
      <4>5. q \in Feeds(DecodedAll(p, source, range), source, Int)
        BY <1>0, <3>3, <3>4, <4>3, <4>4, RenderedType
      <4>6. QED
        BY <4>5 DEF Feeds
    <3> HIDE DEF q, range, packets
    <3>8. TrueSound(source, f.sound)
      <4> DEFINE from == CodedStart(c, source.rate) - FrameSamples
                 to == CodedEnd(c, source.rate)
      <4>1. f.sound = Heard(q.runs, from, to)
        BY DEF Fragment
      <4>2. q.runs \in Seq(RunType(Int))
        BY <3>7 DEF PipeType
      <4>3. c.start <= EndOf(c)
        <5>1. SegmentPlan(source) \in Seq(PlannedChunks)
          BY <1>0, PlanIsGapless
        <5>2. c \in PlannedChunks
          BY <3>1, <3>4, <5>1
        <5> HIDE DEF c
        <5>3. c.duration \in Nat
          BY <5>2 DEF PlannedChunks
        <5>4. QED
          BY <3>4, <5>3 DEF EndOf
      <4>4. b \in Nat /\ from \in Int /\ to \in Int /\ (0 < b => b <= from)
        <5> HIDE DEF c
        <5>1. CodedStart(c, source.rate) \in Int /\ to \in Int
          <6>1. WindowStart(c, source.rate) \in Nat /\ WindowEnd(c, source.rate) \in Nat
            BY <3>4, WindowType
          <6>2. /\ AlignedEnd(WindowStart(c, source.rate)) \in Int
                /\ AlignedEnd(WindowEnd(c, source.rate)) \in Int
            BY <6>1, AlignedType
          <6>3. QED
            BY <6>2 DEF CodedStart, CodedEnd, FrameSamples
        <5>2. b \in Nat /\ (b > 0 => b <= CodedStart(c, source.rate) - FrameSamples)
          BY <3>4, <4>3, WindowOrder
        <5>3. FrameSamples \in Int
          BY DEF FrameSamples
        <5> HIDE DEF b, to
        <5>4. QED
          BY <5>1, <5>2, <5>3
      <4> HIDE DEF from, to, b, f
      <4>5. TrueSound(source, Heard(q.runs, from, to))
        BY <1>0, <3>6, <4>2, <4>4, HeardTrue
      <4>6. QED
        BY <4>1, <4>5
    <3> HIDE DEF f
    <3> DEFINE x == [q EXCEPT !.completed = i]
    <3>9. /\ x.pcm = q.pcm /\ x.runs = q.runs /\ x.clock = q.clock /\ x.rate = q.rate
          /\ x.anchor = q.anchor /\ x.next = q.next /\ x.completed = i
      BY <3>7 DEF PipeType
    <3> HIDE DEF x
    <3>10. Sound(q, source, b) => Sound(x, source, b)
      BY <3>9, Zenon DEF Sound, Joined, Seamless, Joins, Waiting, FineRuns, EndsInSound, Begins
    <3>11. FlowsOn(x, source)
      <4>1. x.completed = i /\ i # None
        BY <3>1, <3>9
      <4>2. i + 1 \in DOMAIN SegmentPlan(source) => Sound(x, source, b)
        BY <3>1, <3>6, <3>10
      <4>3. b = WindowStart(SegmentPlan(source)[i], source.rate)
        BY <3>4
      <4> HIDE DEF b
      <4>4. QED
        BY <4>1, <4>2, <4>3 DEF FlowsOn
    <3>12. \A n \in DOMAIN chunks : \A a \in made'[n] : TrueSound(source, a.sound)
      <4>1. \A n \in DOMAIN chunks : \A a \in made'[n] : a \in made[n] \/ a = f
        BY <1>0, <2>4
      <4>2. QED
        BY <1>0, <3>8, <4>1
    <3>13. pipe' = x
      BY <2>4 DEF x
    <3>14. QED
      BY <1>1, <2>1, <3>11, <3>12, <3>13 DEF SoundFlows
  <2>5. QED
    BY <2>2, <2>3, <2>4
<1>5. CASE Break
  <2>1. pipe' = Poisoned /\ UNCHANGED <<source, chunks, made>>
    BY <1>5, Zenon DEF Break, Spoiled
  <2>2. QED
    BY <1>0, <1>1, <1>3, <2>1 DEF SoundFlows
<1>6. CASE NewWorker
  <2>1. pipe' = NewPipeline(source) /\ UNCHANGED <<source, chunks, made>>
    BY <1>6, Zenon DEF NewWorker
  <2>2. QED
    BY <1>0, <1>1, <1>2, <2>1 DEF SoundFlows
<1>7. CASE UNCHANGED vars
  BY <1>0, <1>1, <1>7 DEF vars, SoundFlows
<1>8. QED
  BY <1>4, <1>5, <1>6, <1>7 DEF Next

\* It holds at first.
LEMMA SoundFlowsInit == Init => SoundFlows
<1> SUFFICES ASSUME Init PROVE SoundFlows
  OBVIOUS
<1>1. /\ pipe = NewPipeline(source) /\ \A i \in DOMAIN chunks : made[i] = {}
  BY DEF Init
<1>2. SoundInPlace
  BY SoundInPlaceInit
<1>3. pipe.completed = None
  BY <1>1 DEF NewPipeline
<1>4. FlowsOn(pipe, source)
  BY <1>1, <1>3 DEF FlowsOn
<1>5. QED
  BY <1>1, <1>2, <1>4 DEF SoundFlows

\* So nothing is made up where the source has sound.
LEMMA FlowsNothingMadeUp == SoundFlows => NothingMadeUp
<1> SUFFICES ASSUME SoundFlows, NEW i \in DOMAIN chunks, NEW a \in made[i], NEW r \in ToSet(a.sound)
             PROVE  /\ r.shift # Cold
                    /\ r.shift = Silence => \/ r.to <= SoundFrom(source) + RoundingMs(source)
                                            \/ r.from >= SoundTo(source) - RoundingMs(source)
  BY DEF NothingMadeUp
<1>1. TrueSound(source, a.sound)
  BY DEF SoundFlows
<1>2. PICK n \in DOMAIN a.sound : r = a.sound[n]
  BY DEF ToSet
<1>3. QED
  BY <1>1, <1>2 DEF TrueSound

\* Whatever is asked for, in any order and by any workers, wherever they stop, no listener
\* hears a decoder that warms up, nor silence where the source has sound.
THEOREM NothingIsMadeUp == Spec => []NothingMadeUp
<1>1. Init => SoundFlows
  BY SoundFlowsInit
<1>2. SoundFlows /\ [Next]_vars => SoundFlows'
  BY SoundFlowsNext
<1>3. SoundFlows => NothingMadeUp
  BY FlowsNothingMadeUp
<1>4. QED
  BY <1>1, <1>2, <1>3, PTL DEF Spec
=============================================================================
