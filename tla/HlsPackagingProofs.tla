------------------------- MODULE HlsPackagingProofs -------------------------
(***************************************************************************)
(* Packaging calls, for any sources, jobs, limits and number of calls.     *)
(* First the windows of SegmentWindows: they are a numbered timeline       *)
(* without gaps, none is short, and every frame lies in exactly one.  A    *)
(* list that is the timeline of from .. to keeps that shape under the      *)
(* three things the code does to it: append, stretch, absorb the first.    *)
(* Next what is in a segment, from the operators of MediaMux alone: its    *)
(* stamps advance, it fits the limits checked before anything was read,    *)
(* a fragment's clock keeps to its packets, reads deliver what was asked.  *)
(* Then the calls.  A call plans as SegmentWindows says, so its windows    *)
(* are a timeline.  What makes a package complete is the order of a call's *)
(* publications and that the directory only grows: Written is what a call  *)
(* has published at the point where it stands.                             *)
(***************************************************************************)
EXTENDS HlsPackaging, PlanningProofs

-----------------------------------------------------------------------------
(***************************************************************************)
(* Windows.                                                                *)
(***************************************************************************)
WindowType == [index : Nat, start : Nat, end : Nat]

Timeline(ws, from, to) ==
  /\ ws \in Seq(WindowType) /\ ws # <<>>
  /\ ws[1].start = from /\ ws[Len(ws)].end = to
  /\ \A n \in 1 .. Len(ws) : ws[n].start < ws[n].end
  /\ \A n \in 1 .. Len(ws) - 1 : ws[n].end = ws[n + 1].start
  /\ \A n, m \in 1 .. Len(ws) : n < m => ws[n].end <= ws[m].start
  /\ \A t \in Nat : from <= t /\ t < to =>
       \E n \in 1 .. Len(ws) : ws[n].start <= t /\ t < ws[n].end

\* The lengths of a timeline, and of its windows, are positive.
LEMMA TimelineSpan ==
  ASSUME NEW ws, NEW from \in Nat, NEW to \in Nat, Timeline(ws, from, to)
  PROVE  /\ Len(ws) \in Nat \ {0}
         /\ \A n \in 1 .. Len(ws) : ws[n] \in WindowType
         /\ from < to
  <1>1. Len(ws) \in Nat \ {0}
    BY DEF Timeline
  <1>2. \A n \in 1 .. Len(ws) : ws[n] \in WindowType
    BY DEF Timeline
  <1>3. from < to
    <2>1. CASE Len(ws) = 1
      BY <2>1, <1>1 DEF Timeline
    <2>2. CASE Len(ws) > 1
      <3>1. ws[1].end <= ws[Len(ws)].start
        BY <2>2, <1>1 DEF Timeline
      <3>2. ws[1].start < ws[1].end /\ ws[Len(ws)].start < ws[Len(ws)].end
        BY <1>1 DEF Timeline
      <3>3. ws[1] \in WindowType /\ ws[Len(ws)] \in WindowType
        BY <1>1, <1>2
      <3>. QED BY <3>1, <3>2, <3>3 DEF Timeline, WindowType
    <2>. QED BY <2>1, <2>2, <1>1
  <1>. QED BY <1>1, <1>2, <1>3

\* One window is the timeline of its own span.
LEMMA TimelineOfOne ==
  ASSUME NEW w \in WindowType, w.start < w.end
  PROVE  Timeline(Append(<<>>, w), w.start, w.end)
  BY DEF Timeline, WindowType

\* A window that starts where a timeline ends extends it.
LEMMA TimelineAppend ==
  ASSUME NEW ws, NEW from \in Nat, NEW to \in Nat, Timeline(ws, from, to),
         NEW w \in WindowType, w.start = to, w.start < w.end
  PROVE  Timeline(Append(ws, w), from, w.end)
  <1>. DEFINE us == Append(ws, w)
              l == Len(ws)
  <1>1. /\ l \in Nat \ {0} /\ us \in Seq(WindowType) /\ us # <<>> /\ Len(us) = l + 1
        /\ us[l + 1] = w /\ \A n \in 1 .. l : us[n] = ws[n] /\ ws[n] \in WindowType
    BY TimelineSpan DEF Timeline
  <1>2. us[1].start = from /\ us[Len(us)].end = w.end
    BY <1>1 DEF Timeline
  <1>3. \A n \in 1 .. l : ws[n].end <= to
    <2>. SUFFICES ASSUME NEW n \in 1 .. l PROVE ws[n].end <= to
      OBVIOUS
    <2>1. CASE n = l
      BY <2>1, <1>1 DEF Timeline, WindowType
    <2>2. CASE n < l
      <3>1. ws[n].end <= ws[l].start /\ ws[l].start < ws[l].end /\ ws[l].end = to
        BY <2>2, <1>1 DEF Timeline
      <3>2. ws[n] \in WindowType /\ ws[l] \in WindowType
        BY <1>1
      <3>. QED BY <3>1, <3>2 DEF WindowType
    <2>. QED BY <2>1, <2>2, <1>1
  <1>4. \A n \in 1 .. l + 1 : us[n].start < us[n].end
    BY <1>1 DEF Timeline
  <1>5. \A n \in 1 .. l : us[n].end = us[n + 1].start
    <2>. SUFFICES ASSUME NEW n \in 1 .. l PROVE us[n].end = us[n + 1].start
      OBVIOUS
    <2>1. CASE n = l
      BY <2>1, <1>1 DEF Timeline
    <2>2. CASE n < l
      BY <2>2, <1>1 DEF Timeline
    <2>. QED BY <2>1, <2>2, <1>1
  <1>6. ASSUME NEW n \in 1 .. l + 1, NEW m \in 1 .. l + 1, n < m
        PROVE  us[n].end <= us[m].start
    <2>1. CASE m = l + 1
      BY <2>1, <1>6, <1>1, <1>3
    <2>2. CASE m <= l
      BY <2>2, <1>6, <1>1 DEF Timeline
    <2>. QED BY <2>1, <2>2, <1>1
  <1>7. ASSUME NEW t \in Nat, from <= t, t < w.end
        PROVE  \E n \in 1 .. l + 1 : us[n].start <= t /\ t < us[n].end
    <2>1. CASE t < to
      <3>1. PICK n \in 1 .. l : ws[n].start <= t /\ t < ws[n].end
        BY <2>1, <1>7, <1>1 DEF Timeline
      <3>. QED BY <3>1, <1>1
    <2>2. CASE to <= t
      BY <2>2, <1>7, <1>1 DEF WindowType
    <2>. QED BY <2>1, <2>2
  <1>. QED BY <1>1, <1>2, <1>4, <1>5, <1>6, <1>7 DEF Timeline

\* A timeline whose last window is given a later end.
LEMMA TimelineStretch ==
  ASSUME NEW ws, NEW from \in Nat, NEW to \in Nat, Timeline(ws, from, to),
         NEW w \in WindowType, w.start = to, w.start < w.end
  PROVE  /\ Timeline(Absorb(ws, w), from, w.end)
         /\ Len(Absorb(ws, w)) = Len(ws)
         /\ \A n \in 1 .. Len(ws) : /\ Absorb(ws, w)[n].start = ws[n].start
                                    /\ n < Len(ws) => Absorb(ws, w)[n].end = ws[n].end
  <1>. DEFINE us == Absorb(ws, w)
              l == Len(ws)
  <1>1. /\ l \in Nat \ {0} /\ ws \in Seq(WindowType)
        /\ \A n \in 1 .. l : ws[n] \in WindowType
    BY TimelineSpan DEF Timeline
  <1>2. us \in Seq(WindowType) /\ us # <<>> /\ Len(us) = l
    <2>. DEFINE v == [ws[l] EXCEPT !.end = w.end]
    <2>1. v \in WindowType /\ l \in 1 .. Len(ws)
      <3>1. l \in 1 .. Len(ws)
        BY <1>1
      <3>2. ws[l] \in WindowType
        BY <3>1, <1>1
      <3>. QED BY <3>1, <3>2 DEF WindowType
    <2>2. us = [ws EXCEPT ![l] = v]
      BY DEF Absorb
    <2>. HIDE DEF v, us
    <2>3. us \in Seq(WindowType) /\ Len(us) = l
      BY <1>1, <2>1, <2>2, ExceptSeq
    <2>. QED BY <1>1, <2>3, EmptySeq
  <1>3. /\ us[l].start = ws[l].start /\ us[l].end = w.end
        /\ \A n \in 1 .. l : n < l => us[n] = ws[n]
    BY <1>1 DEF Absorb, WindowType
  <1>4. to \in Nat /\ w.end \in Nat /\ to < w.end /\ ws[l].end = to /\ ws[l].start < to
    BY <1>1 DEF Timeline, WindowType
  <1>5. \A n \in 1 .. l : us[n].start = ws[n].start /\ (n < l => us[n].end = ws[n].end)
    BY <1>1, <1>3
  <1>6. \A n \in 1 .. l : us[n].start < us[n].end
    <2>. SUFFICES ASSUME NEW n \in 1 .. l PROVE us[n].start < us[n].end
      OBVIOUS
    <2>1. CASE n = l
      BY <2>1, <1>1, <1>3, <1>4 DEF WindowType
    <2>2. CASE n < l
      BY <2>2, <1>3 DEF Timeline
    <2>. QED BY <2>1, <2>2, <1>1
  <1>7. \A n \in 1 .. l - 1 : us[n].end = us[n + 1].start
    BY <1>1, <1>5 DEF Timeline
  <1>8. \A n, m \in 1 .. l : n < m => us[n].end <= us[m].start
    BY <1>1, <1>5 DEF Timeline
  <1>9. ASSUME NEW t \in Nat, from <= t, t < w.end
        PROVE  \E n \in 1 .. l : us[n].start <= t /\ t < us[n].end
    <2>1. CASE t < to
      <3>1. PICK n \in 1 .. l : ws[n].start <= t /\ t < ws[n].end
        BY <2>1, <1>9 DEF Timeline
      <3>2. CASE n = l
        BY <3>1, <3>2, <1>9, <1>3, <1>4
      <3>3. CASE n < l
        BY <3>1, <3>3, <1>3
      <3>. QED BY <3>2, <3>3, <1>1
    <2>2. CASE to <= t
      BY <2>2, <1>9, <1>1, <1>3, <1>4 DEF WindowType
    <2>. QED BY <2>1, <2>2, <1>4
  <1>10. us[1].start = from /\ us[l].end = w.end
    BY <1>1, <1>3, <1>5 DEF Timeline
  <1>. QED BY <1>2, <1>5, <1>6, <1>7, <1>8, <1>9, <1>10 DEF Timeline

\* The list in which the second window has taken in the first.
LEMMA FirstAbsorbedShape ==
  ASSUME NEW ws \in Seq(WindowType), Len(ws) > 1, Length(ws[1]) < MinSegmentMs
  PROVE  LET us == FirstAbsorbed(ws)
         IN  /\ us \in Seq(WindowType) /\ Len(us) = Len(ws) - 1
             /\ us[1].start = ws[1].start /\ us[1].end = ws[2].end
             /\ \A n \in 2 .. Len(ws) - 1 : us[n] = ws[n + 1]
  <1>. DEFINE ts == Tail(ws)
              w == [ws[2] EXCEPT !.start = ws[1].start]
              us == [ts EXCEPT ![1] = w]
  <1>1. FirstAbsorbed(ws) = us
    BY DEF FirstAbsorbed
  <1>2. Len(ws) \in Nat /\ ws # <<>>
    BY LenProperties
  <1>3. ws[1] \in WindowType /\ ws[2] \in WindowType
    BY <1>2, ElementOfSeq
  <1>4. w \in WindowType /\ w.start = ws[1].start /\ w.end = ws[2].end
    BY <1>3 DEF WindowType
  <1>5. /\ ts \in Seq(WindowType) /\ Len(ts) = Len(ws) - 1
        /\ \A n \in 1 .. Len(ws) - 1 : ts[n] = ws[n + 1]
    BY <1>2, HeadTailProperties
  <1>. HIDE DEF ts, w
  <1>6. 1 \in 1 .. Len(ts)
    BY <1>2, <1>5
  <1>7. /\ us \in Seq(WindowType) /\ Len(us) = Len(ts)
        /\ \A n \in 1 .. Len(ts) : us[n] = IF n = 1 THEN w ELSE ts[n]
    BY <1>4, <1>5, <1>6, ExceptSeq
  <1>. HIDE DEF us
  <1>8. us[1] = w
    BY <1>6, <1>7
  <1>9. \A n \in 2 .. Len(ws) - 1 : us[n] = ws[n + 1]
    BY <1>2, <1>5, <1>7
  <1>. QED BY <1>1, <1>4, <1>5, <1>7, <1>8, <1>9

\* Giving the first window to the second keeps the span.
LEMMA TimelineFirst ==
  ASSUME NEW ws, NEW from \in Nat, NEW to \in Nat, Timeline(ws, from, to), Len(ws) > 1,
         NEW us \in Seq(WindowType), Len(us) = Len(ws) - 1,
         us[1].start = ws[1].start, us[1].end = ws[2].end,
         \A n \in 2 .. Len(ws) - 1 : us[n] = ws[n + 1]
  PROVE  Timeline(us, from, to)
  <1>. DEFINE l == Len(ws)
  <1>1. /\ l \in Nat /\ l >= 2 /\ us # <<>> /\ Len(us) = l - 1
        /\ \A n \in 1 .. l : ws[n] \in WindowType
    BY TimelineSpan, EmptySeq DEF Timeline
  <1>2. ws[1] \in WindowType /\ ws[2] \in WindowType
    BY <1>1
  <1>3. ASSUME NEW n \in 1 .. l - 1 PROVE us[n].end = ws[n + 1].end
    BY <1>1
  <1>4. ASSUME NEW n \in 2 .. l - 1 PROVE us[n].start = ws[n + 1].start
    BY <1>1
  <1>5. us[1].start = from /\ us[l - 1].end = to
    BY <1>1, <1>3 DEF Timeline
  <1>6. ws[1].start < ws[1].end /\ ws[1].end = ws[2].start /\ ws[2].start < ws[2].end
    BY <1>1 DEF Timeline
  <1>7. ASSUME NEW n \in 1 .. l - 1 PROVE us[n].start < us[n].end
    <2>1. CASE n = 1
      BY <2>1, <1>2, <1>6 DEF WindowType
    <2>2. CASE n > 1
      <3>1. us[n].start = ws[n + 1].start /\ us[n].end = ws[n + 1].end /\ n + 1 \in 1 .. l
        BY <2>2, <1>1, <1>3, <1>4
      <3>2. ws[n + 1].start < ws[n + 1].end
        BY <3>1 DEF Timeline
      <3>. QED BY <3>1, <3>2
    <2>. QED BY <2>1, <2>2, <1>1
  <1>8. ASSUME NEW n \in 1 .. l - 2 PROVE us[n].end = us[n + 1].start
    BY <1>1, <1>3, <1>4 DEF Timeline
  <1>9. ASSUME NEW n \in 1 .. l - 1, NEW m \in 1 .. l - 1, n < m
        PROVE  us[n].end <= us[m].start
    <2>1. us[n].end = ws[n + 1].end /\ us[m].start = ws[m + 1].start
      BY <1>9, <1>1, <1>3, <1>4
    <2>. QED BY <2>1, <1>9, <1>1 DEF Timeline
  <1>10. ASSUME NEW t \in Nat, from <= t, t < to
         PROVE  \E n \in 1 .. l - 1 : us[n].start <= t /\ t < us[n].end
    <2>1. PICK n \in 1 .. l : ws[n].start <= t /\ t < ws[n].end
      BY <1>10 DEF Timeline
    <2>2. CASE n <= 2
      <3>1. n = 1 \/ n = 2
        BY <2>2, <1>1
      <3>2. ws[1].start <= t /\ t < ws[2].end
        BY SMTT(40), <2>1, <3>1, <1>2, <1>6 DEF WindowType
      <3>3. 1 \in 1 .. l - 1
        BY <1>1
      <3>. QED BY <3>2, <3>3
    <2>3. CASE n > 2
      <3>1. n - 1 \in 2 .. l - 1 /\ us[n - 1] = ws[n]
        BY <2>3, <1>1
      <3>. QED BY <2>1, <3>1, <1>1
    <2>. QED BY <2>2, <2>3, <1>1
  <1>. QED BY <1>1, <1>5, <1>7, <1>8, <1>9, <1>10 DEF Timeline

\* Numbering changes nothing but the indexes.
LEMMA TimelineRenumbered ==
  ASSUME NEW ws, NEW from \in Nat, NEW to \in Nat, Timeline(ws, from, to)
  PROVE  /\ Timeline(Renumbered(ws), from, to)
         /\ Len(Renumbered(ws)) = Len(ws)
         /\ \A n \in 1 .. Len(ws) : /\ Renumbered(ws)[n].index = n - 1
                                    /\ Renumbered(ws)[n].start = ws[n].start
                                    /\ Renumbered(ws)[n].end = ws[n].end
  <1>. DEFINE us == Renumbered(ws)
              l == Len(ws)
  <1>1. /\ l \in Nat \ {0} /\ ws \in Seq(WindowType)
        /\ \A n \in 1 .. l : ws[n] \in WindowType
    BY TimelineSpan DEF Timeline
  <1>2. us \in Seq(WindowType) /\ Len(us) = l
    <2>1. us = [n \in 1 .. l |-> [ws[n] EXCEPT !.index = n - 1]]
      BY <1>1 DEF Renumbered
    <2>2. ASSUME NEW n \in 1 .. l
          PROVE  [ws[n] EXCEPT !.index = n - 1] \in WindowType
      <3>1. ws[n] \in WindowType /\ n - 1 \in Nat
        BY <1>1
      <3>. QED BY <3>1 DEF WindowType
    <2>3. us \in [1 .. l -> WindowType]
      BY <2>1, <2>2
    <2>4. us \in Seq(WindowType)
      BY <2>3, <1>1, SeqDef
    <2>. QED BY <2>3, <2>4, <1>1, LenProperties
  <1>3. \A n \in 1 .. l : /\ us[n].index = n - 1
                          /\ us[n].start = ws[n].start /\ us[n].end = ws[n].end
    BY <1>1 DEF Renumbered, WindowType
  <1>. HIDE DEF us
  <1>4. us # <<>>
    BY <1>1, <1>2
  <1>5. us[1].start = from /\ us[Len(us)].end = to
    BY <1>1, <1>2, <1>3 DEF Timeline
  <1>6. ASSUME NEW n \in 1 .. l PROVE us[n].start < us[n].end
    BY <1>3 DEF Timeline
  <1>7. ASSUME NEW n \in 1 .. l - 1 PROVE us[n].end = us[n + 1].start
    BY <1>1, <1>3 DEF Timeline
  <1>8. ASSUME NEW n \in 1 .. l, NEW m \in 1 .. l, n < m PROVE us[n].end <= us[m].start
    BY <1>8, <1>3 DEF Timeline
  <1>9. ASSUME NEW t \in Nat, from <= t, t < to
        PROVE  \E n \in 1 .. l : us[n].start <= t /\ t < us[n].end
    BY <1>9, <1>3 DEF Timeline
  <1>10. Timeline(us, from, to)
    BY <1>2, <1>4, <1>5, <1>6, <1>7, <1>8, <1>9 DEF Timeline
  <1>. QED BY <1>2, <1>3, <1>10 DEF us
-----------------------------------------------------------------------------
(***************************************************************************)
(* The inductive invariant.  While a planner scans, the windows it has cut *)
(* are the timeline from the first packet to the open window's start; while*)
(* it collapses, those it has kept are the timeline of the cut ones passed.*)
(***************************************************************************)
PlanTypeOK ==
  /\ phase \in [Planners -> {"idle", "scan", "collapse", "planned"}]
  /\ video \in [Planners -> Seq(PacketType)]
  /\ target \in [Planners -> Nat] /\ pos \in [Planners -> Nat]
  /\ start \in [Planners -> Nat] /\ latest \in [Planners -> Nat]
  /\ cut \in [Planners -> Seq(WindowType)]
  /\ windows \in [Planners -> Seq(WindowType)]

First(k) == PtsMs(video[k][1])
Numbered(ws) == \A n \in 1 .. Len(ws) : ws[n].index = n - 1
EndsBy(k, n, time) == \A p \in 1 .. n : EndMs(video[k][p]) <= time

Scanning(k) ==
  /\ video[k] # <<>> /\ windows[k] = <<>> /\ target[k] > 0
  /\ pos[k] >= 2 /\ pos[k] <= Len(video[k]) + 1
  /\ EndsBy(k, pos[k] - 1, latest[k])
  /\ cut[k] = <<>> => start[k] = First(k)
  /\ cut[k] # <<>> => Timeline(cut[k], First(k), start[k])
  /\ Numbered(cut[k])

Collapsing(k) ==
  /\ video[k] # <<>> /\ EndsBy(k, Len(video[k]), TrackEnd(k))
  /\ Timeline(cut[k], First(k), TrackEnd(k)) /\ Numbered(cut[k])
  /\ pos[k] >= 1 /\ pos[k] <= Len(cut[k]) + 1
  /\ pos[k] = 1 => windows[k] = <<>>
  /\ pos[k] > 1 => /\ Timeline(windows[k], First(k), cut[k][pos[k] - 1].end)
                   /\ \A n \in 2 .. Len(windows[k]) : Length(windows[k][n]) >= MinSegmentMs

Finalised(k) ==
  /\ video[k] # <<>> /\ EndsBy(k, Len(video[k]), TrackEnd(k))
  /\ Timeline(windows[k], First(k), TrackEnd(k)) /\ Numbered(windows[k])
  /\ Len(windows[k]) > 1 =>
       \A n \in 1 .. Len(windows[k]) : Length(windows[k][n]) >= MinSegmentMs

PlanInv ==
  /\ PlanTypeOK
  /\ \A k \in Planners : /\ phase[k] = "scan" => Scanning(k)
                         /\ phase[k] = "collapse" => Collapsing(k)
                         /\ phase[k] = "planned" => Finalised(k)

\* The times of a packet in milliseconds are natural numbers.
LEMMA PacketTimes ==
  ASSUME NEW p \in PacketType
  PROVE  PtsMs(p) \in Nat /\ DurationMs(p) \in Nat /\ EndMs(p) = PtsMs(p) + DurationMs(p)
  <1>1. ASSUME NEW units \in Nat, NEW scale \in Nat PROVE ToMillis(units, scale) \in Nat
    <2>. DEFINE ms == units * MillisPerSecond
    <2>1. ms \in Nat
      BY DEF MillisPerSecond
    <2>. HIDE DEF ms
    <2>2. ASSUME scale > 0 PROVE ms \div scale \in Nat
      BY <2>1, <2>2
    <2>. QED BY <2>2 DEF ToMillis, ms
  <1>. QED BY <1>1 DEF PacketType, PtsMs, DurationMs, EndMs

\* Nothing another planner does is seen by planner k.
LEMMA Untouched ==
  ASSUME NEW k \in Planners, PlanTypeOK,
         video'[k] = video[k], target'[k] = target[k], pos'[k] = pos[k],
         start'[k] = start[k], latest'[k] = latest[k], cut'[k] = cut[k],
         windows'[k] = windows[k]
  PROVE  /\ Scanning(k) => Scanning(k)'
         /\ Collapsing(k) => Collapsing(k)'
         /\ Finalised(k) => Finalised(k)'
  BY DEF Scanning, Collapsing, Finalised, EndsBy, First, Numbered, TrackEnd

\* Appending a window keeps a list numbered if it carries the next number.
LEMMA NumberedAppend ==
  ASSUME NEW ws \in Seq(WindowType), NEW w \in WindowType,
         Numbered(ws), w.index = Len(ws)
  PROVE  Numbered(Append(ws, w))
  BY DEF Numbered

\* What each action does to the planner that takes it.
LEMMA BeginKeeps ==
  ASSUME PlanInv, NEW k \in Planners, NEW packets \in Tracks, NEW requested \in Targets,
         BeginScan(k, packets, requested)
  PROVE  PlanTypeOK' /\ phase'[k] = "scan" /\ Scanning(k)'
  <1>1. /\ packets \in Seq(PacketType) /\ packets # <<>> /\ requested \in Nat
        /\ Len(packets) \in Nat \ {0} /\ packets[1] \in PacketType
    BY TracksAssumption, TargetsAssumption, EmptySeq, ElementOfSeq DEF BeginScan
  <1>2. PtsMs(packets[1]) \in Nat /\ EndMs(packets[1]) \in Nat
    BY <1>1, PacketTimes
  <1>3. Larger(requested, MinTargetMs) \in Nat /\ Larger(requested, MinTargetMs) > 0
    BY <1>1 DEF Larger, MinTargetMs
  <1>4. PlanTypeOK'
    BY <1>1, <1>2, <1>3, EmptySeq DEF PlanInv, PlanTypeOK, BeginScan
  <1>5. /\ phase'[k] = "scan" /\ video'[k] = packets /\ pos'[k] = 2
        /\ target'[k] = Larger(requested, MinTargetMs)
        /\ start'[k] = PtsMs(packets[1]) /\ latest'[k] = EndMs(packets[1])
        /\ cut'[k] = <<>> /\ windows'[k] = <<>>
    BY DEF PlanInv, PlanTypeOK, BeginScan
  <1>6. Numbered(<<>>)
    BY DEF Numbered
  <1>7. EndsBy(k, pos[k] - 1, latest[k])'
    BY <1>2, <1>5 DEF EndsBy
  <1>. QED BY <1>1, <1>3, <1>4, <1>5, <1>6, <1>7 DEF Scanning, First

\* A frame is passed; a window may end before it.
LEMMA ScanKeeps ==
  ASSUME PlanInv, NEW k \in Planners, Scan(k)
  PROVE  PlanTypeOK' /\ phase'[k] = "scan" /\ Scanning(k)'
  <1>. DEFINE packet == video[k][pos[k]]
              w == Window(Len(cut[k]), start[k], PtsMs(packet))
  <1>1. /\ Scanning(k) /\ phase[k] = "scan" /\ pos[k] <= Len(video[k])
        /\ pos[k] \in Nat /\ Len(video[k]) \in Nat /\ video[k] \in Seq(PacketType)
        /\ start[k] \in Nat /\ latest[k] \in Nat /\ cut[k] \in Seq(WindowType)
        /\ target[k] \in Nat /\ Len(cut[k]) \in Nat
    BY DEF PlanInv, PlanTypeOK, Scan
  <1>2. packet \in PacketType
    BY <1>1, ElementOfSeq DEF Scanning
  <1>3. PtsMs(packet) \in Nat /\ EndMs(packet) \in Nat
    BY <1>2, PacketTimes
  <1>. HIDE DEF packet
  <1>4. /\ w \in WindowType /\ w.index = Len(cut[k]) /\ w.start = start[k]
        /\ w.end = PtsMs(packet)
    BY <1>1, <1>3 DEF w, Window, WindowType
  <1>. HIDE DEF w
  <1>5. /\ phase' = phase /\ video' = video /\ target' = target /\ windows' = windows
        /\ pos' = [pos EXCEPT ![k] = pos[k] + 1]
        /\ latest' = [latest EXCEPT ![k] = Larger(latest[k], EndMs(packet))]
        /\ \/ /\ OpensWindow(k, packet)
              /\ cut' = [cut EXCEPT ![k] = Append(cut[k], w)]
              /\ start' = [start EXCEPT ![k] = PtsMs(packet)]
           \/ cut' = cut /\ start' = start
    BY DEF Scan, packet, w
  <1>6. Append(cut[k], w) \in Seq(WindowType) /\ Append(cut[k], w) # <<>>
    BY <1>1, <1>4
  <1>7. Larger(latest[k], EndMs(packet)) \in Nat
    BY <1>1, <1>3 DEF Larger
  <1>8. PlanTypeOK'
    <2>. USE DEF PlanInv, PlanTypeOK
    <2>1. /\ phase' \in [Planners -> {"idle", "scan", "collapse", "planned"}]
          /\ video' \in [Planners -> Seq(PacketType)] /\ target' \in [Planners -> Nat]
          /\ windows' \in [Planners -> Seq(WindowType)]
      BY <1>5
    <2>2. pos' \in [Planners -> Nat] /\ latest' \in [Planners -> Nat]
      BY <1>1, <1>5, <1>7
    <2>3. start' \in [Planners -> Nat] /\ cut' \in [Planners -> Seq(WindowType)]
      BY <1>3, <1>5, <1>6
    <2>. QED BY <2>1, <2>2, <2>3
  <1>9. /\ video'[k] = video[k] /\ windows'[k] = windows[k] /\ target'[k] = target[k]
        /\ pos'[k] = pos[k] + 1 /\ latest'[k] = Larger(latest[k], EndMs(packet))
    BY <1>5 DEF PlanInv, PlanTypeOK
  <1>10. EndsBy(k, pos[k] - 1, latest[k])'
    <2>. SUFFICES ASSUME NEW p \in 1 .. pos[k]
                  PROVE  EndMs(video[k][p]) <= latest'[k]
      BY <1>1, <1>9 DEF EndsBy
    <2>1. CASE p = pos[k]
      BY <2>1, <1>1, <1>3, <1>9 DEF Larger, packet
    <2>2. CASE p < pos[k]
      <3>1. EndMs(video[k][p]) <= latest[k]
        BY <2>2, <1>1 DEF Scanning, EndsBy
      <3>2. video[k][p] \in PacketType
        BY <2>2, <1>1, ElementOfSeq
      <3>3. EndMs(video[k][p]) \in Nat
        BY <3>2, PacketTimes
      <3>. QED BY <3>1, <3>3, <1>1, <1>3, <1>9 DEF Larger
    <2>. QED BY <2>1, <2>2, <1>1
  <1>11. /\ cut'[k] = <<>> => start'[k] = First(k)
         /\ cut'[k] # <<>> => Timeline(cut'[k], First(k), start'[k])
         /\ Numbered(cut'[k])
    <2>1. CASE cut' = cut /\ start' = start
      BY <2>1, <1>1 DEF Scanning
    <2>2. CASE /\ OpensWindow(k, packet)
               /\ cut' = [cut EXCEPT ![k] = Append(cut[k], w)]
               /\ start' = [start EXCEPT ![k] = PtsMs(packet)]
      <3>1. cut'[k] = Append(cut[k], w) /\ start'[k] = w.end
        BY <2>2, <1>4 DEF PlanInv, PlanTypeOK
      <3>2. w.start < w.end
        BY <2>2, <1>1, <1>3, <1>4 DEF OpensWindow, Minus, Larger, Scanning
      <3>3. Numbered(cut'[k])
        BY <3>1, <1>1, <1>4, NumberedAppend DEF Scanning
      <3>4. First(k) \in Nat
        <4>1. video[k][1] \in PacketType
          BY <1>1, EmptySeq, ElementOfSeq DEF Scanning
        <4>. QED BY <4>1, PacketTimes DEF First
      <3>5. Timeline(cut'[k], First(k), start'[k])
        <4>1. CASE cut[k] = <<>>
          BY <4>1, <3>1, <3>2, <1>1, <1>4, TimelineOfOne DEF Scanning
        <4>2. CASE cut[k] # <<>>
          BY <4>2, <3>1, <3>2, <3>4, <1>1, <1>4, TimelineAppend DEF Scanning
        <4>. QED BY <4>1, <4>2
      <3>. QED BY <3>1, <3>3, <3>5, <1>6
    <2>. QED BY <2>1, <2>2, <1>5
  <1>. QED BY <1>1, <1>5, <1>8, <1>9, <1>10, <1>11 DEF Scanning, First

\* The last window ends where the track does.
LEMMA CutLastKeeps ==
  ASSUME PlanInv, NEW k \in Planners, CutLast(k)
  PROVE  PlanTypeOK' /\ phase'[k] = "collapse" /\ Collapsing(k)'
  <1>. DEFINE w == Window(Len(cut[k]), start[k], TrackEnd(k))
  <1>1. /\ Scanning(k) /\ phase[k] = "scan" /\ pos[k] > Len(video[k])
        /\ pos[k] \in Nat /\ Len(video[k]) \in Nat /\ video[k] \in Seq(PacketType)
        /\ start[k] \in Nat /\ latest[k] \in Nat /\ cut[k] \in Seq(WindowType)
        /\ Len(cut[k]) \in Nat
    BY DEF PlanInv, PlanTypeOK, CutLast
  <1>2. TrackEnd(k) \in Nat /\ latest[k] <= TrackEnd(k) /\ start[k] < TrackEnd(k)
    BY <1>1 DEF TrackEnd, Larger
  <1>3. /\ w \in WindowType /\ w.index = Len(cut[k]) /\ w.start = start[k]
        /\ w.end = TrackEnd(k) /\ w.start < w.end
    BY <1>1, <1>2 DEF Window, WindowType
  <1>. HIDE DEF w
  <1>4. /\ phase' = [phase EXCEPT ![k] = "collapse"] /\ pos' = [pos EXCEPT ![k] = 1]
        /\ cut' = [cut EXCEPT ![k] = Append(cut[k], w)]
        /\ video' = video /\ target' = target /\ start' = start /\ latest' = latest
        /\ windows' = windows
    BY DEF CutLast, w
  <1>5. Append(cut[k], w) \in Seq(WindowType)
    BY <1>1, <1>3
  <1>6. PlanTypeOK'
    BY <1>4, <1>5 DEF PlanInv, PlanTypeOK
  <1>7. /\ phase'[k] = "collapse" /\ pos'[k] = 1 /\ cut'[k] = Append(cut[k], w)
        /\ video'[k] = video[k] /\ windows'[k] = <<>> /\ TrackEnd(k)' = TrackEnd(k)
    BY <1>1, <1>4 DEF PlanInv, PlanTypeOK, Scanning, TrackEnd
  <1>8. EndsBy(k, Len(video[k]), TrackEnd(k))'
    <2>. SUFFICES ASSUME NEW p \in 1 .. Len(video[k])
                  PROVE  EndMs(video[k][p]) <= TrackEnd(k)
      BY <1>7 DEF EndsBy
    <2>1. EndMs(video[k][p]) <= latest[k]
      BY <1>1 DEF Scanning, EndsBy
    <2>2. video[k][p] \in PacketType
      BY <1>1, ElementOfSeq
    <2>3. EndMs(video[k][p]) \in Nat
      BY <2>2, PacketTimes
    <2>. QED BY <2>1, <2>3, <1>1, <1>2
  <1>9. First(k) \in Nat
    <2>1. video[k][1] \in PacketType
      BY <1>1, EmptySeq, ElementOfSeq DEF Scanning
    <2>. QED BY <2>1, PacketTimes DEF First
  <1>10. Timeline(cut'[k], First(k), TrackEnd(k))
    <2>1. CASE cut[k] = <<>>
      BY <2>1, <1>1, <1>3, <1>7, TimelineOfOne DEF Scanning
    <2>2. CASE cut[k] # <<>>
      BY <2>2, <1>1, <1>3, <1>7, <1>9, TimelineAppend DEF Scanning
    <2>. QED BY <2>1, <2>2
  <1>11. Numbered(cut'[k])
    BY <1>1, <1>3, <1>7, NumberedAppend DEF Scanning
  <1>12. Len(cut'[k]) \in Nat
    BY <1>5, <1>7
  <1>13. First(k)' = First(k)
    BY <1>7 DEF First
  <1>. QED BY <1>1, <1>6, <1>7, <1>8, <1>10, <1>11, <1>12, <1>13 DEF Collapsing, Scanning

\* A window of at least MinSegmentMs gets no shorter by a later end.
LEMMA LongerWindow ==
  ASSUME NEW a \in Nat, NEW b \in Nat, NEW c \in Nat, b <= c, Minus(b, a) >= MinSegmentMs
  PROVE  Minus(c, a) >= MinSegmentMs
  BY DEF Minus, Larger, MinSegmentMs

\* A window is kept, or absorbed by the one before it.
LEMMA CollapseKeeps ==
  ASSUME PlanInv, NEW k \in Planners, Collapse(k)
  PROVE  PlanTypeOK' /\ phase'[k] = "collapse" /\ Collapsing(k)'
  <1>. DEFINE w == cut[k][pos[k]]
              out == windows[k]
              us == IF Length(w) < MinSegmentMs /\ out # <<>> THEN Absorb(out, w)
                    ELSE Append(out, w)
  <1>1. /\ Collapsing(k) /\ phase[k] = "collapse"
        /\ pos[k] \in Nat /\ pos[k] >= 1 /\ pos[k] <= Len(cut[k]) /\ Len(cut[k]) \in Nat
        /\ cut[k] \in Seq(WindowType) /\ out \in Seq(WindowType) /\ video[k] \in Seq(PacketType)
        /\ start[k] \in Nat /\ latest[k] \in Nat
    BY DEF PlanInv, PlanTypeOK, Collapse, Collapsing
  <1>2. /\ First(k) \in Nat /\ TrackEnd(k) \in Nat
    <2>1. video[k][1] \in PacketType
      BY <1>1, EmptySeq, ElementOfSeq DEF Collapsing
    <2>2. First(k) \in Nat
      BY <2>1, PacketTimes DEF First
    <2>3. TrackEnd(k) \in Nat
      BY <1>1 DEF TrackEnd, Larger
    <2>. QED BY <2>2, <2>3
  <1>3. w \in WindowType /\ w.start < w.end /\ w.start \in Nat /\ w.end \in Nat
    <2>1. pos[k] \in 1 .. Len(cut[k])
      BY <1>1
    <2>2. w \in WindowType
      BY <2>1, <1>1, ElementOfSeq
    <2>3. w.start < w.end
      BY <2>1, <1>1 DEF Collapsing, Timeline
    <2>. QED BY <2>2, <2>3 DEF WindowType
  <1>4. /\ pos[k] = 1 => out = <<>> /\ w.start = First(k)
        /\ pos[k] > 1 => /\ Timeline(out, First(k), w.start)
                         /\ \A n \in 2 .. Len(out) : Length(out[n]) >= MinSegmentMs
    <2>1. CASE pos[k] = 1
      BY <2>1, <1>1 DEF Collapsing, Timeline
    <2>2. CASE pos[k] > 1
      <3>1. pos[k] - 1 \in 1 .. Len(cut[k]) - 1
        BY <2>2, <1>1
      <3>2. cut[k][pos[k] - 1].end = cut[k][(pos[k] - 1) + 1].start
        BY <3>1, <1>1 DEF Collapsing, Timeline
      <3>3. (pos[k] - 1) + 1 = pos[k]
        BY <1>1
      <3>. QED BY <2>2, <3>2, <3>3, <1>1 DEF Collapsing
    <2>. QED BY <2>1, <2>2, <1>1
  <1>5. /\ phase' = phase /\ video' = video /\ target' = target /\ start' = start
        /\ latest' = latest /\ cut' = cut /\ pos' = [pos EXCEPT ![k] = pos[k] + 1]
        /\ windows' = [windows EXCEPT ![k] = us]
    BY DEF Collapse
  <1>. HIDE DEF w
  <1>6. /\ Timeline(us, First(k), w.end)
        /\ \A n \in 2 .. Len(us) : Length(us[n]) >= MinSegmentMs
    <2>1. CASE out = <<>>
      <3>1. us = Append(<<>>, w) /\ pos[k] = 1
        BY <2>1, <1>1, <1>4 DEF Timeline
      <3>2. Len(us) = 1
        <4>. HIDE DEF us, out
        <4>1. <<>> \in Seq(WindowType) /\ Len(<<>>) = 0
          OBVIOUS
        <4>2. Len(Append(<<>>, w)) = 0 + 1
          BY <1>3, <4>1, AppendProperties
        <4>. QED BY <3>1, <4>2
      <3>3. Timeline(us, First(k), w.end)
        BY <3>1, <1>3, <1>4, TimelineOfOne
      <3>. QED BY <3>2, <3>3
    <2>2. CASE out # <<>>
      <3>1. /\ Timeline(out, First(k), w.start)
            /\ \A n \in 2 .. Len(out) : Length(out[n]) >= MinSegmentMs
        BY <2>2, <1>1, <1>4
      <3>2. Len(out) \in Nat \ {0} /\ \A n \in 1 .. Len(out) : out[n] \in WindowType
        BY <3>1, <1>2, <1>3, TimelineSpan
      <3>3. CASE Length(w) < MinSegmentMs
        <4>. DEFINE vs == Absorb(out, w)
        <4>1. us = vs
          BY <3>3, <2>2
        <4>2. /\ Timeline(vs, First(k), w.end) /\ Len(vs) = Len(out)
              /\ \A n \in 1 .. Len(out) : /\ vs[n].start = out[n].start
                                          /\ n < Len(out) => vs[n].end = out[n].end
          BY <3>1, <1>2, <1>3, TimelineStretch
        <4>. HIDE DEF vs
        <4>3. ASSUME NEW n \in 2 .. Len(out) PROVE Length(vs[n]) >= MinSegmentMs
          <5>1. Length(out[n]) >= MinSegmentMs /\ vs[n].start = out[n].start
            BY <3>1, <3>2, <4>2
          <5>2. CASE n < Len(out)
            BY <5>1, <5>2, <4>2 DEF Length
          <5>3. CASE n = Len(out)
            <6>1. out[n].start \in Nat /\ out[n].end \in Nat
              BY <3>2 DEF WindowType
            <6>2. out[n].end = w.start /\ vs[n].end = w.end
              BY <5>3, <3>1, <4>2 DEF Timeline
            <6>3. Minus(w.end, out[n].start) >= MinSegmentMs
              BY <6>1, <6>2, <5>1, <1>3, LongerWindow DEF Length
            <6>. QED BY <6>2, <6>3, <5>1 DEF Length
          <5>. QED BY <5>2, <5>3, <3>2
        <4>. QED BY <4>1, <4>2, <4>3
      <3>4. CASE ~(Length(w) < MinSegmentMs)
        <4>1. us = Append(out, w)
          BY <3>4
        <4>2. Timeline(us, First(k), w.end)
          BY <4>1, <3>1, <1>2, <1>3, TimelineAppend
        <4>3. Length(w) >= MinSegmentMs
          BY <3>4, <1>3 DEF Length, Minus, Larger, MinSegmentMs
        <4>4. /\ Len(us) = Len(out) + 1 /\ us[Len(out) + 1] = w
              /\ \A n \in 1 .. Len(out) : us[n] = out[n]
          BY <4>1, <1>1, <1>3
        <4>. QED BY <4>2, <4>3, <4>4, <3>1, <3>2
      <3>. QED BY <3>3, <3>4
    <2>. QED BY <2>1, <2>2
  <1>7. us \in Seq(WindowType)
    BY <1>6 DEF Timeline
  <1>. HIDE DEF us
  <1>8. PlanTypeOK'
    BY <1>1, <1>5, <1>7 DEF PlanInv, PlanTypeOK
  <1>9. /\ phase'[k] = "collapse" /\ pos'[k] = pos[k] + 1 /\ windows'[k] = us
        /\ cut'[k] = cut[k] /\ video'[k] = video[k]
        /\ TrackEnd(k)' = TrackEnd(k) /\ First(k)' = First(k)
    BY <1>1, <1>5 DEF PlanInv, PlanTypeOK, TrackEnd, First
  <1>10. cut'[k][pos'[k] - 1] = w
    BY <1>1, <1>9 DEF w
  <1>11. EndsBy(k, Len(video[k]), TrackEnd(k))'
    BY <1>1, <1>9 DEF EndsBy, Collapsing
  <1>12. Timeline(cut[k], First(k), TrackEnd(k)) /\ Numbered(cut[k]) /\ video[k] # <<>>
    BY <1>1 DEF Collapsing
  <1>13. Timeline(cut'[k], First(k)', TrackEnd(k)') /\ Numbered(cut'[k]) /\ video'[k] # <<>>
    BY <1>9, <1>12
  <1>14. /\ pos'[k] >= 1 /\ pos'[k] # 1 /\ pos'[k] <= Len(cut'[k]) + 1
    BY <1>1, <1>9
  <1>15. /\ Timeline(windows'[k], First(k)', cut'[k][pos'[k] - 1].end)
         /\ \A n \in 2 .. Len(windows'[k]) : Length(windows'[k][n]) >= MinSegmentMs
    BY <1>6, <1>9, <1>10
  <1>16. Collapsing(k)'
    BY <1>11, <1>13, <1>14, <1>15 DEF Collapsing, Numbered
  <1>. QED BY <1>8, <1>9, <1>16

\* A short first window is absorbed by the second.
LEMMA PlanKeeps ==
  ASSUME PlanInv, NEW k \in Planners, Plan(k)
  PROVE  PlanTypeOK' /\ phase'[k] = "planned" /\ Finalised(k)'
  <1>. DEFINE out == windows[k]
              us == FirstAbsorbed(out)
  <1>1. /\ Collapsing(k) /\ phase[k] = "collapse"
        /\ pos[k] \in Nat /\ Len(cut[k]) \in Nat
        /\ cut[k] \in Seq(WindowType) /\ out \in Seq(WindowType) /\ video[k] \in Seq(PacketType)
        /\ start[k] \in Nat /\ latest[k] \in Nat
    BY DEF PlanInv, PlanTypeOK, Plan
  <1>2. /\ First(k) \in Nat /\ TrackEnd(k) \in Nat
    <2>1. video[k][1] \in PacketType
      BY <1>1, EmptySeq, ElementOfSeq DEF Collapsing
    <2>2. First(k) \in Nat
      BY <2>1, PacketTimes DEF First
    <2>3. TrackEnd(k) \in Nat
      BY <1>1 DEF TrackEnd, Larger
    <2>. QED BY <2>2, <2>3
  <1>3. /\ phase' = [phase EXCEPT ![k] = "planned"] /\ video' = video /\ target' = target
        /\ pos' = pos /\ start' = start /\ latest' = latest /\ cut' = cut
    BY DEF Plan
  <1>4. /\ video'[k] = video[k] /\ phase'[k] = "planned"
        /\ TrackEnd(k)' = TrackEnd(k) /\ First(k)' = First(k)
    BY <1>3 DEF PlanInv, PlanTypeOK, TrackEnd, First
  <1>5. EndsBy(k, Len(video[k]), TrackEnd(k))' /\ video'[k] # <<>>
    BY <1>1, <1>4 DEF EndsBy, Collapsing
  <1>6. SUFFICES ASSUME NEW ws \in Seq(WindowType), windows' = [windows EXCEPT ![k] = ws],
                        Timeline(ws, First(k), TrackEnd(k)), Numbered(ws),
                        Len(ws) > 1 =>
                          \A n \in 1 .. Len(ws) : Length(ws[n]) >= MinSegmentMs
                 PROVE  PlanTypeOK' /\ Finalised(k)'
    <2>1. CASE Len(cut[k]) = 1 /\ windows' = [windows EXCEPT ![k] = cut[k]]
      <3>1. Timeline(cut[k], First(k), TrackEnd(k)) /\ Numbered(cut[k]) /\ ~(Len(cut[k]) > 1)
        BY <2>1, <1>1 DEF Collapsing
      <3>. QED BY <3>1, <2>1, <1>1, <1>4, <1>6
    <2>2. CASE /\ Len(cut[k]) > 1 /\ pos[k] > Len(cut[k])
               /\ windows' = [windows EXCEPT ![k] = Renumbered(us)]
      <3>1. /\ Timeline(out, First(k), TrackEnd(k))
            /\ \A n \in 2 .. Len(out) : Length(out[n]) >= MinSegmentMs
        <4>1. pos[k] = Len(cut[k]) + 1 /\ pos[k] > 1
          BY <2>2, <1>1 DEF Collapsing
        <4>2. pos[k] - 1 = Len(cut[k]) /\ cut[k][Len(cut[k])].end = TrackEnd(k)
          BY <4>1, <1>1 DEF Collapsing, Timeline
        <4>. QED BY <4>1, <4>2, <1>1 DEF Collapsing
      <3>2. Len(out) \in Nat \ {0} /\ \A n \in 1 .. Len(out) : out[n] \in WindowType
        BY <3>1, <1>2, TimelineSpan
      <3>3. /\ Timeline(us, First(k), TrackEnd(k))
            /\ Len(us) > 1 => \A n \in 1 .. Len(us) : Length(us[n]) >= MinSegmentMs
        <4>1. CASE Len(out) > 1 /\ Length(out[1]) < MinSegmentMs
          <5>1. /\ us \in Seq(WindowType) /\ Len(us) = Len(out) - 1
                /\ us[1].start = out[1].start /\ us[1].end = out[2].end
                /\ \A n \in 2 .. Len(out) - 1 : us[n] = out[n + 1]
            BY <4>1, <1>1, FirstAbsorbedShape
          <5>. HIDE DEF us
          <5>2. Timeline(us, First(k), TrackEnd(k))
            BY <5>1, <4>1, <3>1, <1>2, TimelineFirst
          <5>3. ASSUME NEW n \in 1 .. Len(us) PROVE Length(us[n]) >= MinSegmentMs
            <6>1. CASE n = 1
              <7>1. out[1] \in WindowType /\ out[2] \in WindowType
                BY <4>1, <3>2
              <7>2. Length(out[2]) >= MinSegmentMs
                BY <4>1, <3>1, <3>2
              <7>3. out[1].start < out[1].end /\ out[1].end = out[2].start
                BY <4>1, <3>1, <3>2 DEF Timeline
              <7>4. Minus(out[2].end, out[1].start) >= MinSegmentMs
                BY SMTT(40), <7>1, <7>2, <7>3 DEF Length, Minus, Larger, WindowType, MinSegmentMs
              <7>. QED BY <6>1, <5>1, <7>4 DEF Length
            <6>2. CASE n > 1
              <7>1. n \in 2 .. Len(out) - 1 /\ n + 1 \in 2 .. Len(out)
                BY <6>2, <5>1, <3>2
              <7>2. us[n] = out[n + 1]
                BY <5>1, <7>1
              <7>3. Length(out[n + 1]) >= MinSegmentMs
                BY <3>1, <7>1
              <7>. QED BY <7>2, <7>3
            <6>. QED BY <6>1, <6>2, <5>1, <3>2
          <5>. QED BY <5>2, <5>3
        <4>2. CASE ~(Len(out) > 1 /\ Length(out[1]) < MinSegmentMs)
          <5>1. us = out
            BY <4>2 DEF FirstAbsorbed
          <5>2. ASSUME Len(out) > 1 PROVE Length(out[1]) >= MinSegmentMs
            BY <5>2, <4>2, <3>2 DEF Length, Minus, Larger, MinSegmentMs, WindowType
          <5>. QED BY <5>1, <5>2, <3>1, <3>2
        <4>. QED BY <4>1, <4>2
      <3>. HIDE DEF us
      <3>. DEFINE vs == Renumbered(us)
      <3>4. /\ Timeline(vs, First(k), TrackEnd(k)) /\ Len(vs) = Len(us)
            /\ \A n \in 1 .. Len(us) : /\ vs[n].index = n - 1
                                       /\ vs[n].start = us[n].start /\ vs[n].end = us[n].end
        BY <3>3, <1>2, TimelineRenumbered
      <3>. HIDE DEF vs
      <3>5. vs \in Seq(WindowType) /\ Numbered(vs)
        BY <3>4 DEF Timeline, Numbered
      <3>6. Len(vs) > 1 => \A n \in 1 .. Len(vs) : Length(vs[n]) >= MinSegmentMs
        BY <3>3, <3>4 DEF Length
      <3>7. windows' = [windows EXCEPT ![k] = vs]
        BY <2>2 DEF vs
      <3>. QED BY <3>4, <3>5, <3>6, <3>7, <1>4, <1>6
    <2>. QED BY <2>1, <2>2 DEF Plan
  <1>7. PlanTypeOK'
    BY <1>1, <1>3, <1>6 DEF PlanInv, PlanTypeOK
  <1>8. windows'[k] = ws
    BY <1>6 DEF PlanInv, PlanTypeOK
  <1>. QED BY <1>4, <1>5, <1>6, <1>7, <1>8 DEF Finalised, Numbered

\* A plan is dropped.
LEMMA DiscardKeeps ==
  ASSUME PlanInv, NEW k \in Planners, Discard(k)
  PROVE  PlanTypeOK' /\ phase'[k] = "idle"
  <1>1. <<>> \in Seq(PacketType) /\ <<>> \in Seq(WindowType) /\ MinTargetMs \in Nat
    BY EmptySeq DEF MinTargetMs
  <1>. QED BY <1>1 DEF PlanInv, PlanTypeOK, Discard
-----------------------------------------------------------------------------
\* The invariant is inductive: a step is one planner's, and the others keep theirs.
THEOREM Inductive == PlanningSpec => []PlanInv
  <1>1. PlanningInit => PlanInv
    BY EmptySeq DEF PlanningInit, PlanInv, PlanTypeOK, MinTargetMs
  <1>2. PlanInv /\ [PlanningNext]_planning => PlanInv'
    <2>. SUFFICES ASSUME PlanInv, [PlanningNext]_planning PROVE PlanInv'
      OBVIOUS
    <2>1. CASE UNCHANGED planning
      BY <2>1 DEF planning, PlanInv, PlanTypeOK, Scanning, Collapsing, Finalised, EndsBy, First,
                  TrackEnd, Numbered
    <2>2. ASSUME NEW k \in Planners,
                 PlanTypeOK' /\ (phase'[k] = "scan" => Scanning(k)')
                         /\ (phase'[k] = "collapse" => Collapsing(k)')
                         /\ (phase'[k] = "planned" => Finalised(k)'),
                 \A j \in Planners \ {k} :
                    /\ phase'[j] = phase[j] /\ video'[j] = video[j]
                    /\ target'[j] = target[j] /\ pos'[j] = pos[j]
                    /\ start'[j] = start[j] /\ latest'[j] = latest[j]
                    /\ cut'[j] = cut[j] /\ windows'[j] = windows[j]
          PROVE  PlanInv'
      <3>1. ASSUME NEW j \in Planners, j # k
            PROVE  /\ phase'[j] = "scan" => Scanning(j)'
                   /\ phase'[j] = "collapse" => Collapsing(j)'
                   /\ phase'[j] = "planned" => Finalised(j)'
        <4>1. /\ Scanning(j) => Scanning(j)'
              /\ Collapsing(j) => Collapsing(j)'
              /\ Finalised(j) => Finalised(j)'
          BY <2>2, <3>1, Untouched DEF PlanInv
        <4>. QED BY <4>1, <2>2, <3>1 DEF PlanInv
      <3>. QED BY <2>2, <3>1 DEF PlanInv
    <2>3. ASSUME NEW k \in Planners,
                 \/ \E packets \in Tracks, requested \in Targets :
                      BeginScan(k, packets, requested)
                 \/ Scan(k) \/ CutLast(k) \/ Collapse(k) \/ Plan(k) \/ Discard(k)
          PROVE  PlanInv'
      <3>1. \A j \in Planners \ {k} :
               /\ phase'[j] = phase[j] /\ video'[j] = video[j]
               /\ target'[j] = target[j] /\ pos'[j] = pos[j]
               /\ start'[j] = start[j] /\ latest'[j] = latest[j]
               /\ cut'[j] = cut[j] /\ windows'[j] = windows[j]
        BY <2>3 DEF PlanInv, PlanTypeOK, BeginScan, Scan, CutLast, Collapse, Plan, Discard
      <3>2. PlanTypeOK' /\ (phase'[k] = "scan" => Scanning(k)')
                    /\ (phase'[k] = "collapse" => Collapsing(k)')
                    /\ (phase'[k] = "planned" => Finalised(k)')
        BY <2>3, BeginKeeps, ScanKeeps, CutLastKeeps, CollapseKeeps, PlanKeeps, DiscardKeeps
      <3>. QED BY <2>2, <3>1, <3>2
    <2>. QED BY <2>1, <2>3 DEF PlanningNext
  <1>. QED BY <1>1, <1>2, PTL DEF PlanningSpec

\* What the invariant says of a finished plan, in one place.
LEMMA PlanShape ==
  ASSUME PlanInv, NEW k \in Planners, phase[k] = "planned"
  PROVE  /\ Finalised(k) /\ First(k) \in Nat /\ TrackEnd(k) \in Nat
         /\ windows[k] \in Seq(WindowType) /\ Len(windows[k]) \in Nat \ {0}
         /\ DOMAIN windows[k] = 1 .. Len(windows[k])
         /\ \A n \in DOMAIN windows[k] : windows[k][n] \in WindowType
         /\ DOMAIN video[k] = 1 .. Len(video[k])
         /\ \A p \in DOMAIN video[k] : video[k][p] \in PacketType
  <1>1. /\ Finalised(k) /\ windows[k] \in Seq(WindowType) /\ video[k] \in Seq(PacketType)
        /\ start[k] \in Nat /\ latest[k] \in Nat
    BY DEF PlanInv, PlanTypeOK
  <1>2. TrackEnd(k) \in Nat
    BY <1>1 DEF TrackEnd, Larger
  <1>3. video[k][1] \in PacketType
    BY <1>1, EmptySeq, ElementOfSeq DEF Finalised
  <1>4. First(k) \in Nat
    BY <1>3, PacketTimes DEF First
  <1>5. Len(windows[k]) \in Nat \ {0}
    BY <1>1, <1>2, <1>4, TimelineSpan DEF Finalised
  <1>6. DOMAIN windows[k] = 1 .. Len(windows[k]) /\ DOMAIN video[k] = 1 .. Len(video[k])
    BY <1>1
  <1>. QED BY <1>1, <1>2, <1>4, <1>5, <1>6, ElementOfSeq

\* Every plan is a numbered timeline over its track, for every track.
THEOREM Tiles == PlanningSpec => []WindowsTile
  <1>1. ASSUME PlanInv PROVE WindowsTile
    <2>. SUFFICES ASSUME NEW k \in Planners, phase[k] = "planned"
                  PROVE  LET plan == windows[k]
                         IN  /\ plan # <<>>
                             /\ plan[1].start = PtsMs(video[k][1])
                             /\ \A p \in DOMAIN video[k] :
                                  EndMs(video[k][p]) <= plan[Len(plan)].end
                             /\ \A n \in DOMAIN plan :
                                  plan[n].index = n - 1 /\ plan[n].start < plan[n].end
                             /\ \A n \in 1 .. Len(plan) - 1 : plan[n].end = plan[n + 1].start
      BY DEF WindowsTile
    <2>1. /\ Timeline(windows[k], First(k), TrackEnd(k)) /\ Numbered(windows[k])
          /\ EndsBy(k, Len(video[k]), TrackEnd(k))
      BY <1>1, PlanShape DEF Finalised
    <2>2. \A p \in DOMAIN video[k] : EndMs(video[k][p]) <= windows[k][Len(windows[k])].end
      BY <1>1, <2>1, PlanShape DEF EndsBy, Timeline
    <2>3. \A n \in DOMAIN windows[k] :
            windows[k][n].index = n - 1 /\ windows[k][n].start < windows[k][n].end
      BY <1>1, <2>1, PlanShape DEF Numbered, Timeline
    <2>. QED BY <2>1, <2>2, <2>3 DEF Timeline, First
  <1>. QED BY <1>1, Inductive, PTL

\* No segment of a longer plan is short, wherever the short windows were.
THEOREM LongEnough == PlanningSpec => []NoShortSegment
  <1>1. ASSUME PlanInv PROVE NoShortSegment
    BY <1>1, PlanShape DEF NoShortSegment, Finalised
  <1>. QED BY <1>1, Inductive, PTL

\* Every frame that is shown from the first one on is in exactly one segment.
THEOREM FramesOnce == PlanningSpec => []EveryFrameOnce
  <1>1. ASSUME PlanInv PROVE EveryFrameOnce
    <2>. SUFFICES ASSUME NEW k \in Planners, phase[k] = "planned",
                         NEW p \in DOMAIN video[k], DurationMs(video[k][p]) > 0,
                         PtsMs(video[k][p]) >= PtsMs(video[k][1])
                  PROVE  \E n \in DOMAIN windows[k] :
                           /\ Holds(windows[k][n], video[k][p])
                           /\ \A m \in DOMAIN windows[k] :
                                Holds(windows[k][m], video[k][p]) => m = n
      BY DEF EveryFrameOnce
    <2>. DEFINE t == PtsMs(video[k][p])
                ws == windows[k]
    <2>1. /\ Timeline(ws, First(k), TrackEnd(k)) /\ EndsBy(k, Len(video[k]), TrackEnd(k))
          /\ DOMAIN ws = 1 .. Len(ws) /\ Len(ws) \in Nat /\ TrackEnd(k) \in Nat
          /\ First(k) \in Nat /\ DOMAIN video[k] = 1 .. Len(video[k])
          /\ \A n \in DOMAIN ws : ws[n] \in WindowType
      BY <1>1, PlanShape DEF Finalised
    <2>2. video[k][p] \in PacketType
      BY <1>1, PlanShape
    <2>3. t \in Nat /\ t < EndMs(video[k][p]) /\ EndMs(video[k][p]) \in Nat
      BY <2>2, PacketTimes
    <2>4. EndMs(video[k][p]) <= TrackEnd(k)
      BY <2>1 DEF EndsBy
    <2>5. First(k) <= t /\ t < TrackEnd(k)
      BY <2>1, <2>3, <2>4 DEF First
    <2>. HIDE DEF t, ws
    <2>6. PICK n \in 1 .. Len(ws) : ws[n].start <= t /\ t < ws[n].end
      BY <2>1, <2>3, <2>5 DEF Timeline
    <2>7. ASSUME NEW m \in 1 .. Len(ws), ws[m].start <= t, t < ws[m].end
          PROVE  m = n
      <3>1. \A i \in 1 .. Len(ws) : ws[i].start \in Nat /\ ws[i].end \in Nat
        BY <2>1 DEF WindowType
      <3>2. \A i, j \in 1 .. Len(ws) : i < j => ws[i].end <= ws[j].start
        BY <2>1 DEF Timeline
      <3>3. /\ ws[m].start \in Nat /\ ws[m].end \in Nat
            /\ ws[n].start \in Nat /\ ws[n].end \in Nat
        BY <3>1
      <3>4. ~(m < n)
        <4>1. ASSUME m < n PROVE FALSE
          <5>1. ws[m].end <= ws[n].start
            BY ONLY <3>2, <4>1, m \in 1 .. Len(ws), n \in 1 .. Len(ws)
          <5>2. ws[n].start <= t /\ t < ws[m].end
            BY <2>6, <2>7
          <5>. QED BY ONLY <5>1, <5>2, <3>3, <2>3
        <4>. QED BY <4>1
      <3>5. ~(n < m)
        <4>1. ASSUME n < m PROVE FALSE
          <5>1. ws[n].end <= ws[m].start
            BY ONLY <3>2, <4>1, m \in 1 .. Len(ws), n \in 1 .. Len(ws)
          <5>2. ws[m].start <= t /\ t < ws[n].end
            BY <2>6, <2>7
          <5>. QED BY ONLY <5>1, <5>2, <3>3, <2>3
        <4>. QED BY <4>1
      <3>6. m \in Int /\ n \in Int
        BY <2>1
      <3>. QED BY ONLY <3>4, <3>5, <3>6
    <2>. QED BY <2>1, <2>6, <2>7 DEF Holds, t, ws
  <1>. QED BY <1>1, Inductive, PTL
-----------------------------------------------------------------------------
(***************************************************************************)
(* The samples of a transport stream: their stamps advance.                *)
(***************************************************************************)
SamplesOf(B) == [video : BOOLEAN, order : Nat, pts : Nat, dts : Nat, bytes : B, length : Int]
Stamps == Nat \cup {-1}
Sanitizing(B) == [done : Seq(SamplesOf(B)), video : Stamps, audio : Stamps]
SanitizeStep(x, s) ==
  LET t == Sanitize(IF s.video THEN x.video ELSE x.audio, s)
  IN  [done |-> Append(x.done, t),
       video |-> IF s.video THEN t.dts ELSE x.video,
       audio |-> IF s.video THEN x.audio ELSE t.dts]
Sanitizes(out, samples) ==
  /\ out[0] = [done |-> <<>>, video |-> -1, audio |-> -1]
  /\ \A n \in 1 .. Len(samples) : out[n] = SanitizeStep(out[n - 1], samples[n])
  /\ Sanitized(samples) = out[Len(samples)].done

\* A sanitised sample is a sample, decoded after the last one and not before it is shown.
LEMMA SanitizeType ==
  ASSUME NEW B, NEW s \in SamplesOf(B), NEW last \in Stamps
  PROVE  LET t == Sanitize(last, s)
         IN  /\ t \in SamplesOf(B) /\ t.video = s.video /\ t.length = s.length
             /\ t.dts > last /\ t.dts <= t.pts /\ t.dts \in Nat /\ t.pts \in Nat
<1>1. /\ s.video \in BOOLEAN /\ s.order \in Nat /\ s.pts \in Nat /\ s.dts \in Nat
      /\ s.bytes \in B /\ s.length \in Int
  BY DEF SamplesOf
<1> DEFINE dts == IF s.dts <= last THEN last + 1 ELSE s.dts
           pts == Larger(s.pts, dts)
<1>2. /\ dts \in Nat /\ pts \in Nat /\ dts > last /\ dts <= pts
  BY <1>1 DEF Larger, Stamps
<1> HIDE DEF dts, pts
<1>3. Sanitize(last, s) = [s EXCEPT !.dts = dts, !.pts = pts]
  BY DEF Sanitize, dts, pts
<1>4. [s EXCEPT !.dts = dts] \in SamplesOf(B)
  BY <1>1, <1>2 DEF SamplesOf
<1>5. Sanitize(last, s) \in SamplesOf(B)
  BY <1>2, <1>3, <1>4 DEF SamplesOf
<1>6. /\ Sanitize(last, s).video = s.video /\ Sanitize(last, s).length = s.length
      /\ Sanitize(last, s).dts = dts /\ Sanitize(last, s).pts = pts
  BY <1>1, <1>3 DEF SamplesOf
<1>7. QED
  BY <1>2, <1>5, <1>6

\* The state of the walk keeps its type.
LEMMA SanitizeStepType ==
  ASSUME NEW B, NEW s \in SamplesOf(B), NEW x \in Sanitizing(B)
  PROVE  SanitizeStep(x, s) \in Sanitizing(B)
<1> DEFINE last == IF s.video THEN x.video ELSE x.audio
           t == Sanitize(last, s)
<1>1. last \in Stamps /\ x.done \in Seq(SamplesOf(B)) /\ x.video \in Stamps /\ x.audio \in Stamps
  BY DEF Sanitizing, SamplesOf
<1>2. t \in SamplesOf(B) /\ t.dts \in Stamps
  BY <1>1, SanitizeType DEF Stamps
<1> HIDE DEF t
<1>3. Append(x.done, t) \in Seq(SamplesOf(B))
  BY <1>1, <1>2
<1>4. QED
  BY <1>1, <1>2, <1>3 DEF Sanitizing, SanitizeStep, t

\* The recursive function behind Sanitized, step by step.
LEMMA SanitizedIs ==
  ASSUME NEW B, NEW samples \in Seq(SamplesOf(B))
  PROVE  \E out \in [0 .. Len(samples) -> Sanitizing(B)] : Sanitizes(out, samples)
<1> DEFINE N == Len(samples)
           Z == Sanitizing(B)
           empty == [done |-> <<>>, video |-> -1, audio |-> -1]
           step(x, n) == SanitizeStep(x, samples[n])
           F == [n \in 1 .. N |-> [x \in Z |-> step(x, n)]]
           Is(f) == f = [n \in 0 .. N |-> IF n = 0 THEN empty ELSE step(f[n - 1], n)]
<1>1. N \in Nat /\ empty \in Z
  BY DEF Sanitizing, Stamps
<1>1a. F \in [1 .. N -> [Z -> Z]]
  BY SanitizeStepType
<1>2. \A n \in 1 .. N : n - 1 \in 0 .. N
  BY <1>1
<1>3. \A n \in 1 .. N, x \in Z : F[n][x] = step(x, n)
  OBVIOUS
<1>4. Sanitized(samples) = (CHOOSE f : Is(f))[N].done
  BY DEF Sanitized, SanitizeStep
<1> HIDE DEF F, N, Z, step, Is, empty
<1>5. PICK f \in [0 .. N -> Z] : f[0] = empty /\ \A n \in 1 .. N : f[n] = F[n][f[n - 1]]
  BY <1>1, <1>1a, Iteration
<1>6. Is(f)
  <2>1. \A n \in 1 .. N : f[n] = step(f[n - 1], n)
    BY <1>2, <1>3, <1>5
  <2>2. QED
    BY <1>5, <2>1 DEF Is
<1> DEFINE out == CHOOSE g : Is(g)
<1>7. Is(out)
  BY <1>6
<1> HIDE DEF out
<1>8. out[0] = empty /\ \A n \in 1 .. N : out[n] = step(out[n - 1], n)
  BY <1>1, <1>7 DEF Is
<1>9. \A n \in 0 .. N : out[n] \in Z
  <2>1. \A n \in 1 .. N : out[n - 1] \in Z => out[n] = F[n][out[n - 1]]
    BY <1>3, <1>8
  <2>2. QED
    BY <1>1, <1>1a, <1>8, <2>1, IterationIs
<1>10. out \in [0 .. N -> Z]
  BY <1>7, <1>9 DEF Is
<1>11. QED
  BY <1>4, <1>8, <1>10 DEF N, Z, out, step, empty, Sanitizes

\* Stamps that go up per stream, the last of each stream known.
Advancing(x) ==
  /\ \A n \in DOMAIN x.done :
       /\ x.done[n].dts <= x.done[n].pts
       /\ x.done[n].dts <= IF x.done[n].video THEN x.video ELSE x.audio
       /\ \A m \in 1 .. n - 1 : x.done[m].video = x.done[n].video =>
            x.done[m].dts < x.done[n].dts

\* A sample that is appended keeps the stamps of its stream advancing.
LEMMA StepAdvances ==
  ASSUME NEW B, NEW s \in SamplesOf(B), NEW x \in Sanitizing(B), Advancing(x)
  PROVE  Advancing(SanitizeStep(x, s))
<1> DEFINE last == IF s.video THEN x.video ELSE x.audio
           t == Sanitize(last, s)
           y == SanitizeStep(x, s)
           N == Len(x.done)
<1>1. last \in Stamps /\ x.done \in Seq(SamplesOf(B)) /\ x.video \in Stamps /\ x.audio \in Stamps
      /\ s.video \in BOOLEAN
  BY DEF Sanitizing, SamplesOf
<1>2. t \in SamplesOf(B) /\ t.video = s.video /\ t.dts > last /\ t.dts <= t.pts /\ t.dts \in Nat
      /\ t.pts \in Nat
  BY <1>1, SanitizeType
<1>3. /\ y.done = Append(x.done, t) /\ y.video = (IF s.video THEN t.dts ELSE x.video)
      /\ y.audio = (IF s.video THEN x.audio ELSE t.dts)
  BY DEF SanitizeStep
<1> HIDE DEF t, y
<1>4. N \in Nat /\ DOMAIN y.done = 1 .. N + 1 /\ y.done[N + 1] = t
      /\ \A n \in 1 .. N : y.done[n] = x.done[n]
  BY <1>1, <1>2, <1>3
<1>5. \A n \in 1 .. N : /\ x.done[n].dts \in Nat /\ x.done[n].video \in BOOLEAN
  <2>1. \A n \in 1 .. N : x.done[n] \in SamplesOf(B)
    BY <1>1
  <2>2. QED
    BY <2>1 DEF SamplesOf
<1>6. ASSUME NEW n \in 1 .. N + 1
      PROVE  /\ y.done[n].dts <= y.done[n].pts
             /\ y.done[n].dts <= IF y.done[n].video THEN y.video ELSE y.audio
             /\ \A m \in 1 .. n - 1 : y.done[m].video = y.done[n].video =>
                  y.done[m].dts < y.done[n].dts
  <2>1. CASE n = N + 1
    <3>1. \A m \in 1 .. N : x.done[m].dts <= IF x.done[m].video THEN x.video ELSE x.audio
      BY DEF Advancing
    <3>2. \A m \in 1 .. n - 1 : y.done[m].video = t.video => y.done[m].dts < t.dts
      <4>1. SUFFICES ASSUME NEW m \in 1 .. N, x.done[m].video = s.video
                     PROVE  x.done[m].dts < t.dts
        BY <1>2, <1>4, <2>1
      <4>2. x.done[m].dts <= last
        BY <3>1, <4>1
      <4>3. QED
        BY <1>1, <1>2, <1>5, <4>2 DEF Stamps
    <3>3. QED
      BY <1>1, <1>2, <1>3, <1>4, <2>1, <3>2
  <2>2. CASE n # N + 1
    <3>1. n \in 1 .. N /\ n \in DOMAIN x.done /\ \A m \in 1 .. n - 1 : m \in 1 .. N
      BY <1>1, <1>6, <2>2
    <3>2. /\ x.done[n].dts <= x.done[n].pts
          /\ x.done[n].dts <= IF x.done[n].video THEN x.video ELSE x.audio
          /\ \A m \in 1 .. n - 1 : x.done[m].video = x.done[n].video =>
               x.done[m].dts < x.done[n].dts
      BY <3>1 DEF Advancing
    <3>3. last <= t.dts /\ x.video <= y.video /\ x.audio <= y.audio
      BY <1>1, <1>2, <1>3 DEF Stamps
    <3>4. y.done[n].dts <= IF y.done[n].video THEN y.video ELSE y.audio
      <4>1. /\ x.done[n].dts \in Int /\ y.video \in Int /\ y.audio \in Int
            /\ x.video \in Int /\ x.audio \in Int
        BY <1>1, <1>2, <1>3, <1>5, <3>1 DEF Stamps
      <4>2. y.done[n] = x.done[n]
        BY <1>4, <3>1
      <4>3. QED
        BY ONLY <3>2, <3>3, <4>1, <4>2
    <3>5. QED
      BY <1>4, <3>1, <3>2, <3>4
  <2>3. QED
    BY <2>1, <2>2
<1>7. QED
  BY <1>4, <1>6 DEF Advancing, y

\* Decode times go up within each stream of a segment.
LEMMA SanitizedAdvances ==
  ASSUME NEW B, NEW samples \in Seq(SamplesOf(B))
  PROVE  LET s == Sanitized(samples)
         IN  /\ s \in Seq(SamplesOf(B)) /\ Len(s) = Len(samples)
             /\ \A n \in DOMAIN s :
                  /\ s[n].video = samples[n].video /\ s[n].length = samples[n].length
                  /\ s[n].dts <= s[n].pts
                  /\ \A m \in 1 .. n - 1 : s[m].video = s[n].video => s[m].dts < s[n].dts
<1>0. PICK out \in [0 .. Len(samples) -> Sanitizing(B)] : Sanitizes(out, samples)
  BY SanitizedIs, Zenon
<1> DEFINE N == Len(samples)
           Same(n) == /\ Len(out[n].done) = n
                      /\ \A m \in 1 .. n : /\ out[n].done[m].video = samples[m].video
                                           /\ out[n].done[m].length = samples[m].length
           P == {n \in 0 .. N : Advancing(out[n]) /\ Same(n)}
<1>1. N \in Nat
  OBVIOUS
<1>2. 0 \in P
  BY <1>0, <1>1 DEF Sanitizes, Advancing
<1>3. ASSUME NEW n \in 1 .. N, n - 1 \in P PROVE n \in P
  <2> DEFINE x == out[n - 1]
             s == samples[n]
             t == Sanitize(IF s.video THEN x.video ELSE x.audio, s)
  <2>0. n - 1 \in 0 .. N
    BY <1>1
  <2>a. s \in SamplesOf(B) /\ Advancing(x) /\ Same(n - 1)
    <3>1. s \in SamplesOf(B)
      OBVIOUS
    <3>2. n - 1 \in P
      BY <1>3
    <3> HIDE DEF Same
    <3>3. QED
      BY <3>1, <3>2
  <2>b. out[n] = SanitizeStep(x, s)
    BY <1>0 DEF Sanitizes
  <2>c. x \in Sanitizing(B)
    BY <2>0
  <2>1. x \in Sanitizing(B) /\ s \in SamplesOf(B) /\ Advancing(x) /\ Same(n - 1)
        /\ out[n] = SanitizeStep(x, s)
    BY <2>a, <2>b, <2>c
  <2>2. /\ x.video \in Stamps /\ x.audio \in Stamps
        /\ x.done \in Seq(SamplesOf(B)) /\ Len(x.done) = n - 1
    BY <2>1 DEF Sanitizing
  <2>3. t \in SamplesOf(B) /\ t.video = s.video /\ t.length = s.length
    BY <2>1, <2>2, SanitizeType
  <2>4. out[n].done = Append(x.done, t)
    BY <2>1 DEF SanitizeStep
  <2>5. Advancing(out[n])
    BY <2>1, StepAdvances
  <2> HIDE DEF t
  <2>6. Same(n)
    <3> HIDE DEF x
    <3>1. Len(Append(x.done, t)) = n
      BY <2>2, <2>3
    <3>2. ASSUME NEW m \in 1 .. n
          PROVE /\ out[n].done[m].video = samples[m].video
                /\ out[n].done[m].length = samples[m].length
      <4>1. CASE m = n
        BY <2>2, <2>3, <2>4, <4>1
      <4>2. CASE m # n
        <5>1. m \in 1 .. n - 1 /\ out[n].done[m] = x.done[m]
          BY <2>2, <2>3, <2>4, <4>2
        <5>2. QED
          BY <2>1, <5>1 DEF x
      <4>3. QED
        BY <4>1, <4>2
    <3>3. QED
      BY <2>4, <3>1, <3>2
  <2>7. QED
    BY <2>5, <2>6
<1>4. P = 0 .. N
  <2> HIDE DEF P, N
  <2>1. P \in SUBSET (0 .. N)
    BY DEF P
  <2>2. QED
    BY <1>1, <1>2, <1>3, <2>1, UpTo
<1>5. N \in P
  BY <1>1, <1>4
<1>6. Sanitized(samples) = out[N].done /\ out[N] \in Sanitizing(B)
  BY <1>0, <1>1 DEF Sanitizes
<1>7. out[N].done \in Seq(SamplesOf(B))
  BY <1>6 DEF Sanitizing
<1>8. QED
  BY <1>5, <1>6, <1>7 DEF Advancing

-----------------------------------------------------------------------------
(***************************************************************************)
(* Interleaving only changes the order of samples.                         *)
(***************************************************************************)
\* The values of g along a sequence.
Along(g, s) == [n \in DOMAIN s |-> g[s[n]]]

\* A measure along a sequence is a sequence of numbers,
LEMMA AlongType ==
  ASSUME NEW T, NEW g \in [T -> Int], NEW s \in Seq(T)
  PROVE  Along(g, s) \in Seq(Int) /\ Len(Along(g, s)) = Len(s)
BY DEF Along

\* adds up over a concatenation,
LEMMA AlongConcat ==
  ASSUME NEW T, NEW g \in [T -> Int], NEW s \in Seq(T), NEW t \in Seq(T)
  PROVE  Total(Along(g, s \o t)) = Total(Along(g, s)) + Total(Along(g, t))
<1>1. Along(g, s \o t) = Along(g, s) \o Along(g, t)
  <2> DEFINE Z == Int
             a == Along(g, s)
             b == Along(g, t)
             c == Along(g, s \o t)
  <2>1. /\ s \o t \in Seq(T) /\ Len(s \o t) = Len(s) + Len(t)
        /\ Len(s) \in Nat /\ Len(t) \in Nat
        /\ \A n \in 1 .. Len(s) + Len(t) :
             (s \o t)[n] = IF n <= Len(s) THEN s[n] ELSE t[n - Len(s)]
    BY ConcatProperties
  <2>2. Len(a) = Len(s) /\ Len(b) = Len(t) /\ a \in Seq(Z) /\ b \in Seq(Z) /\ c \in Seq(Z)
        /\ Len(c) = Len(s) + Len(t)
    BY <2>1, AlongType
  <2>3. ASSUME NEW n \in 1 .. Len(s) + Len(t)
        PROVE  c[n] = IF n <= Len(a) THEN a[n] ELSE b[n - Len(a)]
    <3>1. c[n] = g[(s \o t)[n]]
      BY <2>1 DEF Along
    <3>2. CASE n <= Len(s)
      <4>1. a[n] = g[s[n]] /\ (s \o t)[n] = s[n]
        BY <2>1, <3>2 DEF Along
      <4>2. QED
        BY <2>2, <3>1, <3>2, <4>1
    <3>3. CASE n > Len(s)
      <4>1. n - Len(s) \in 1 .. Len(t) /\ (s \o t)[n] = t[n - Len(s)] /\ ~(n <= Len(s))
        BY <2>1, <3>3
      <4>2. b[n - Len(s)] = g[t[n - Len(s)]]
        BY <4>1 DEF Along
      <4>3. QED
        BY <2>2, <3>1, <4>1, <4>2
    <3>4. QED
      BY <2>1, <3>2, <3>3
  <2> HIDE DEF a, b, c, Z
  <2>4. a \o b \in Seq(Z) /\ Len(a \o b) = Len(a) + Len(b)
        /\ \A n \in 1 .. Len(a) + Len(b) :
             (a \o b)[n] = IF n <= Len(a) THEN a[n] ELSE b[n - Len(a)]
    <3>1. a \in Seq(Z) /\ b \in Seq(Z)
      BY <2>2
    <3>2. QED
      BY ONLY <3>1, ConcatProperties
  <2>5. Len(c) = Len(a \o b) /\ \A n \in 1 .. Len(c) : c[n] = (a \o b)[n]
    BY <2>2, <2>3, <2>4
  <2>6. c = a \o b
    BY <2>2, <2>4, <2>5, SeqEqual
  <2>7. QED
    BY <2>6 DEF a, b, c
<1>2. QED
  BY <1>1, AlongType, TotalConcat

\* and over one item is its measure.
LEMMA AlongOne ==
  ASSUME NEW T, NEW g \in [T -> Int], NEW x \in T
  PROVE  Total(Along(g, <<x>>)) = g[x]
<1> DEFINE Z == Int
           y == g[x]
<1>1. Along(g, <<x>>) = <<y>> /\ y \in Z
  BY DEF Along
<1> HIDE DEF y
<1>2. <<y>> = Append(<<>>, y) /\ <<>> \in Seq(Int)
  OBVIOUS
<1>3. Total(<<y>>) = 0 + y
  BY <1>1, <1>2, TotalAppend, TotalEmpty
<1>4. QED
  BY <1>1, <1>3 DEF y

\* Inserting a sample adds it and loses none.
LEMMA InsertedTotal ==
  ASSUME NEW T, NEW sorted \in Seq(T), NEW x \in T
  PROVE  /\ Inserted(sorted, x) \in Seq(T)
         /\ \A g \in [T -> Int] :
              Total(Along(g, Inserted(sorted, x))) = Total(Along(g, sorted)) + g[x]
<1> DEFINE before == {n \in DOMAIN sorted : ~Precedes(x, sorted[n])}
           i == Cardinality(before) + 1
           N == Len(sorted)
           left == SubSeq(sorted, 1, i - 1)
           right == SubSeq(sorted, i, N)
<1>1. i - 1 \in 0 .. N /\ i \in 1 .. N + 1 /\ N \in Nat
  <2>0. N \in Nat /\ 1 \in Int
    OBVIOUS
  <2> HIDE DEF N
  <2>1. IsFiniteSet(1 .. N) /\ Cardinality(1 .. N) = N /\ N \in Nat
    BY <2>0, FS_Interval
  <2>2. before \subseteq 1 .. N
    BY DEF N
  <2> HIDE DEF before
  <2>3. Cardinality(before) \in Nat /\ Cardinality(before) <= N
    BY <2>1, <2>2, FS_Subset, FS_CardinalityType
  <2>4. QED
    BY <2>1, <2>3
<1>2. Inserted(sorted, x) = left \o <<x>> \o right
  BY DEF Inserted, InsertAt
<1> HIDE DEF i
<1>3. left \in Seq(T) /\ right \in Seq(T) /\ Len(left) = i - 1 /\ Len(right) = N - i + 1
  BY <1>1
<1>4. sorted = left \o right
  <2>1. SubSeq(sorted, 1, i - 1) \o SubSeq(sorted, (i - 1) + 1, N) = SubSeq(sorted, 1, N)
    <3>1. 1 \in 1 .. Len(sorted) + 1 /\ i - 1 \in 1 - 1 .. Len(sorted) /\ N \in i - 1 .. Len(sorted)
      BY <1>1
    <3>2. QED
      BY <3>1, ConcatAdjacentSubSeq
  <2>2. (i - 1) + 1 = i /\ SubSeq(sorted, 1, N) = sorted
    BY <1>1, SubSeqFull
  <2>3. QED
    BY <2>1, <2>2
<1> HIDE DEF left, right
<1>5. <<x>> \in Seq(T) /\ left \o <<x>> \in Seq(T) /\ left \o <<x>> \o right \in Seq(T)
  BY <1>3
<1>5a. \A g \in [T -> Int] : Total(Along(g, <<x>>)) = g[x]
  BY AlongOne
<1>6. ASSUME NEW g \in [T -> Int]
      PROVE Total(Along(g, Inserted(sorted, x))) = Total(Along(g, sorted)) + g[x]
  <2>1. /\ Total(Along(g, left)) \in Int /\ Total(Along(g, right)) \in Int /\ g[x] \in Int
    BY <1>3, AlongType, TotalType
  <2>2. Total(Along(g, sorted)) = Total(Along(g, left)) + Total(Along(g, right))
    BY <1>3, <1>4, AlongConcat
  <2>3. Total(Along(g, left \o <<x>>)) = Total(Along(g, left)) + g[x]
    <3> DEFINE one == <<x>>
    <3>1. one \in Seq(T) /\ Total(Along(g, one)) = g[x]
      BY <1>5, <1>5a
    <3> HIDE DEF one
    <3>2. Total(Along(g, left \o one)) = Total(Along(g, left)) + Total(Along(g, one))
      BY <1>3, <3>1, AlongConcat
    <3>3. QED
      BY <3>1, <3>2 DEF one
  <2>4. Total(Along(g, left \o <<x>> \o right))
          = Total(Along(g, left \o <<x>>)) + Total(Along(g, right))
    BY <1>3, <1>5, AlongConcat
  <2>5. QED
    BY <1>2, <2>1, <2>2, <2>3, <2>4
<1>7. QED
  BY <1>2, <1>5, <1>6

Interleaves(sorted, samples) ==
  /\ sorted[0] = <<>>
  /\ \A n \in 1 .. Len(samples) : sorted[n] = Inserted(sorted[n - 1], samples[n])
  /\ Interleaved(samples) = sorted[Len(samples)]

\* The recursive function behind Interleaved: an insertion sort.
LEMMA InterleavedIs ==
  ASSUME NEW T, NEW samples \in Seq(T)
  PROVE  \E sorted \in [0 .. Len(samples) -> Seq(T)] : Interleaves(sorted, samples)
<1> DEFINE N == Len(samples)
           Z == Seq(T)
           empty == <<>>
           step(x, n) == Inserted(x, samples[n])
           F == [n \in 1 .. N |-> [x \in Z |-> step(x, n)]]
           Is(f) == f = [n \in 0 .. N |-> IF n = 0 THEN empty ELSE step(f[n - 1], n)]
<1>1. N \in Nat /\ empty \in Z
  OBVIOUS
<1>1a. F \in [1 .. N -> [Z -> Z]]
  <2>1. ASSUME NEW n \in 1 .. N, NEW x \in Z PROVE step(x, n) \in Z
    <3>1. samples[n] \in T /\ x \in Seq(T)
      OBVIOUS
    <3>2. QED
      BY <3>1, InsertedTotal
  <2>2. QED
    BY <2>1
<1>2. \A n \in 1 .. N : n - 1 \in 0 .. N
  BY <1>1
<1>3. \A n \in 1 .. N, x \in Z : F[n][x] = step(x, n)
  OBVIOUS
<1>4. Interleaved(samples) = (CHOOSE f : Is(f))[N]
  BY DEF Interleaved
<1> HIDE DEF F, N, Z, step, Is, empty
<1>5. PICK f \in [0 .. N -> Z] : f[0] = empty /\ \A n \in 1 .. N : f[n] = F[n][f[n - 1]]
  BY <1>1, <1>1a, Iteration
<1>6. Is(f)
  <2>1. \A n \in 1 .. N : f[n] = step(f[n - 1], n)
    BY <1>2, <1>3, <1>5
  <2>2. QED
    BY <1>5, <2>1 DEF Is
<1> DEFINE sorted == CHOOSE g : Is(g)
<1>7. Is(sorted)
  BY <1>6
<1> HIDE DEF sorted
<1>8. sorted[0] = empty /\ \A n \in 1 .. N : sorted[n] = step(sorted[n - 1], n)
  BY <1>1, <1>7 DEF Is
<1>9. \A n \in 0 .. N : sorted[n] \in Z
  <2>1. \A n \in 1 .. N : sorted[n - 1] \in Z => sorted[n] = F[n][sorted[n - 1]]
    BY <1>3, <1>8
  <2>2. QED
    BY <1>1, <1>1a, <1>8, <2>1, IterationIs
<1>10. sorted \in [0 .. N -> Z]
  BY <1>7, <1>9 DEF Is
<1>11. QED
  BY <1>4, <1>8, <1>10 DEF N, Z, sorted, step, empty, Interleaves

\* Interleaving keeps every sample.
LEMMA InterleavedTotal ==
  ASSUME NEW T, NEW samples \in Seq(T)
  PROVE  /\ Interleaved(samples) \in Seq(T)
         /\ \A g \in [T -> Int] : Total(Along(g, Interleaved(samples))) = Total(Along(g, samples))
<1>1. PICK sorted \in [0 .. Len(samples) -> Seq(T)] : Interleaves(sorted, samples)
  BY InterleavedIs, Zenon
<1>2. Len(samples) \in 0 .. Len(samples) /\ Len(samples) \in Nat
  OBVIOUS
<1>3. Interleaved(samples) \in Seq(T)
  BY <1>1, <1>2 DEF Interleaves
<1>4. ASSUME NEW g \in [T -> Int]
      PROVE  Total(Along(g, Interleaved(samples))) = Total(Along(g, samples))
  <2> DEFINE N == Len(samples)
             f == [n \in 0 .. N |-> Total(Along(g, sorted[n]))]
  <2>1. f[0] = 0
    <3>1. Along(g, <<>>) = <<>>
      BY DEF Along
    <3>2. QED
      BY <1>1, <1>2, <3>1, TotalEmpty DEF Interleaves
  <2>2. Along(g, samples) \in Seq(Int) /\ Len(Along(g, samples)) = N
    BY AlongType
  <2>3. ASSUME NEW n \in 1 .. N PROVE f[n] = f[n - 1] + Along(g, samples)[n]
    <3>1. n - 1 \in 0 .. N /\ n \in 0 .. N
      BY <1>2
    <3> DEFINE u == sorted[n - 1]
               x == samples[n]
               v == sorted[n]
    <3>2. u \in Seq(T) /\ x \in T /\ v = Inserted(u, x)
      <4>1. v = Inserted(u, x)
        BY <1>1 DEF Interleaves
      <4>2. u \in Seq(T) /\ x \in T
        BY <3>1
      <4>3. QED
        BY <4>1, <4>2
    <3> HIDE DEF u, x, v
    <3>3. Total(Along(g, v)) = Total(Along(g, u)) + g[x]
      BY ONLY g \in [T -> Int], <3>2, InsertedTotal
    <3> USE DEF u, x, v
    <3>4. QED
      BY <3>1, <3>3 DEF Along
  <2> HIDE DEF f
  <2>4. Total(Along(g, samples)) = f[N]
    BY <2>1, <2>2, <2>3, TotalIs
  <2>5. QED
    BY <1>1, <1>2, <2>4 DEF Interleaves, f
<1>5. QED
  BY <1>3, <1>4

-----------------------------------------------------------------------------
(***************************************************************************)
(* The size of a transport stream and its estimate.                        *)
(***************************************************************************)
\* What is known of a track that is muxed: its packets' NAL units have a size
\* field each, of at most four bytes.
MuxTrack(track) ==
  /\ track.packets \in Seq(PacketType) /\ track.video \in BOOLEAN
  /\ track.lengthSize \in 1 .. 4 /\ track.nals \in Nat
  /\ track.private \in Nat /\ track.header \in {0, 7}
  /\ \A n \in DOMAIN track.packets : track.nals * track.lengthSize <= track.packets[n].size

\* The packets of a window are packets of the track.
LEMMA WindowPackets ==
  ASSUME NEW w, NEW packets \in Seq(PacketType)
  PROVE  /\ PacketsIn(w, packets) \in Seq(PacketType)
         /\ \A m \in DOMAIN PacketsIn(w, packets) : \E n \in DOMAIN packets :
              PacketsIn(w, packets)[m] = packets[n] /\ InWindow(packets[n], w)
<1> DEFINE I == {n \in DOMAIN packets : InWindow(packets[n], w)}
<1>1. PacketsIn(w, packets) = Kept(packets, I)
  BY DEF PacketsIn
<1>1a. I \subseteq DOMAIN packets /\ \A n \in I : InWindow(packets[n], w)
  OBVIOUS
<1> HIDE DEF I
<1>2. Kept(packets, I) \in Seq(PacketType)
  BY KeptType
<1>3. \A m \in DOMAIN Kept(packets, I) : \E n \in I \cap DOMAIN packets :
        Kept(packets, I)[m] = packets[n]
  BY KeptFrom
<1>4. QED
  BY <1>1, <1>1a, <1>2, <1>3

\* How many transport packets a payload takes is a number,
LEMMA TsPacketsType ==
  ASSUME NEW clock, NEW bytes \in Int
  PROVE  TsPackets(clock, bytes) \in Int
BY DEF TsPackets, DivUp, Minus, Larger, TsClockCapacity, TsCapacity

\* grows with the payload,
LEMMA TsPacketsGrow ==
  ASSUME NEW clock, NEW few \in Int, NEW many \in Int, few <= many
  PROVE  TsPackets(clock, few) <= TsPackets(clock, many)
BY DEF TsPackets, DivUp, Minus, Larger, TsClockCapacity, TsCapacity

\* and is no more than if each packet carried a clock.
LEMMA TsPacketsFit ==
  ASSUME NEW clock, NEW bytes \in Nat \ {0}
  PROVE  TsPackets(clock, bytes) <= DivUp(bytes, TsClockCapacity)
BY DEF TsPackets, DivUp, Minus, Larger, TsClockCapacity, TsCapacity

\* Start codes, parameter sets and headers are in the estimate of a packet.
LEMMA EstimateCovers ==
  ASSUME NEW track, MuxTrack(track), NEW p \in PacketType,
         track.nals * track.lengthSize <= p.size
  PROVE  /\ TsEstimate(track, p) \in Int /\ ElementaryBytes(track, p) \in Nat
         /\ TsPacketBytes * TsPackets(track.video, 19 + ElementaryBytes(track, p))
              <= TsEstimate(track, p)
<1> DEFINE size == p.size
           nals == track.nals
           field == track.lengthSize
           bytes == ElementaryBytes(track, p)
           room == size * DivUp(4, Larger(field, 1)) + track.private + PacketMargin
<1>1. /\ size \in Nat /\ nals \in Nat /\ field \in 0 .. 4 /\ track.private \in Nat
      /\ track.header \in {0, 7} /\ track.video \in BOOLEAN /\ p.key \in BOOLEAN
      /\ field = 0 => nals = 0
  BY DEF MuxTrack, PacketType
<1>2. nals * (4 - field) \in Nat /\ size + nals * (4 - field) <= size * DivUp(4, Larger(field, 1))
      /\ size <= size * DivUp(4, Larger(field, 1)) /\ size * DivUp(4, Larger(field, 1)) \in Nat
  <2>1. CASE field = 0
    <3>1. DivUp(4, Larger(field, 1)) = 4 /\ nals = 0
      BY <1>1, <2>1 DEF DivUp, Larger
    <3>2. QED
      BY <1>1, <2>1, <3>1
  <2>2. CASE field = 1
    <3>1. DivUp(4, Larger(field, 1)) = 4 /\ nals * 1 <= size
      BY <1>1, <2>2 DEF DivUp, Larger
    <3>2. QED
      BY <1>1, <2>2, <3>1
  <2>3. CASE field = 2
    <3>1. DivUp(4, Larger(field, 1)) = 2 /\ nals * 2 <= size
      BY <1>1, <2>3 DEF DivUp, Larger
    <3>2. QED
      BY <1>1, <2>3, <3>1
  <2>4. CASE field = 3
    <3>1. DivUp(4, Larger(field, 1)) = 2 /\ nals * 3 <= size
      BY <1>1, <2>4 DEF DivUp, Larger
    <3>2. QED
      BY <1>1, <2>4, <3>1
  <2>5. CASE field = 4
    <3>1. DivUp(4, Larger(field, 1)) = 1
      BY <1>1, <2>5 DEF DivUp, Larger
    <3>2. QED
      BY <1>1, <2>5, <3>1
  <2>6. QED
    BY <1>1, <2>1, <2>2, <2>3, <2>4, <2>5
<1> DEFINE codes == nals * (4 - field)
           grown == size * DivUp(4, Larger(field, 1))
<1>3. bytes = IF track.video THEN size + codes + (IF p.key THEN track.private ELSE 0)
              ELSE size + track.header
  BY DEF ElementaryBytes
<1>4. TsEstimate(track, p) = DivUp(room, TsClockCapacity) * TsPacketBytes
      /\ room = grown + track.private + PacketMargin
  BY DEF TsEstimate
<1>5. codes \in Nat /\ grown \in Nat /\ size + codes <= grown /\ size <= grown
  BY <1>2
<1> HIDE DEF codes, grown, room, size, bytes
<1>6. bytes \in Nat /\ 19 + bytes <= room /\ 19 + bytes \in Nat \ {0} /\ room \in Nat \ {0}
  BY <1>1, <1>3, <1>4, <1>5 DEF PacketMargin
<1>7. TsPackets(track.video, 19 + bytes) <= DivUp(19 + bytes, TsClockCapacity)
  BY <1>6, TsPacketsFit
<1>8. DivUp(19 + bytes, TsClockCapacity) <= DivUp(room, TsClockCapacity)
  BY <1>6 DEF DivUp, TsClockCapacity
<1>9. /\ DivUp(19 + bytes, TsClockCapacity) \in Int /\ DivUp(room, TsClockCapacity) \in Int
      /\ TsPackets(track.video, 19 + bytes) \in Int
  BY <1>6, TsPacketsType DEF DivUp, TsClockCapacity
<1>10. TsPacketBytes * TsPackets(track.video, 19 + bytes)
         <= DivUp(room, TsClockCapacity) * TsPacketBytes
  BY <1>7, <1>8, <1>9 DEF TsPacketBytes
<1>11. QED
  BY <1>4, <1>6, <1>9, <1>10 DEF TsPacketBytes, bytes

-----------------------------------------------------------------------------
\* The samples of a track's window.
SamplesIn(track, w) ==
  LET ps == PacketsIn(w, track.packets) IN [n \in DOMAIN ps |-> Sample(track, ps[n])]
Payloads(tracks) == {Payload(track, p) : track \in {tracks.video, tracks.audio}, p \in PacketType}

\* Stamps are natural numbers.
LEMMA To90kHzType ==
  ASSUME NEW units \in Nat, NEW scale \in Nat
  PROVE  To90kHz(units, scale) \in Nat
<1> DEFINE ticks == units * TsClock
<1>1. ticks \in Nat
  BY DEF TsClock
<1> HIDE DEF ticks
<1>2. ASSUME scale > 0 PROVE ticks \div scale \in Nat
  BY <1>1, <1>2
<1>3. QED
  BY <1>2 DEF To90kHz, ticks

\* A window's packets become as many samples.
LEMMA SamplesType ==
  ASSUME NEW tracks, NEW track \in {tracks.video, tracks.audio}, MuxTrack(track), NEW w
  PROVE  /\ SamplesIn(track, w) \in Seq(SamplesOf(Payloads(tracks)))
         /\ Len(SamplesIn(track, w)) = Len(PacketsIn(w, track.packets))
<1> DEFINE ps == PacketsIn(w, track.packets)
<1>1. ps \in Seq(PacketType)
  BY WindowPackets DEF MuxTrack
<1>2. ASSUME NEW p \in PacketType,  track.nals * track.lengthSize <= p.size
      PROVE  Sample(track, p) \in SamplesOf(Payloads(tracks))
  <2>1. p.pts \in Nat /\ p.dts \in Nat /\ p.scale \in Nat
    BY DEF PacketType
  <2>2. To90kHz(p.pts, p.scale) \in Nat /\ To90kHz(p.dts, p.scale) \in Nat /\ DtsMs(p) \in Nat
    BY <2>1, To90kHzType, Times DEF DtsMs
  <2>3. ElementaryBytes(track, p) \in Int
    BY <1>2, EstimateCovers
  <2>4. Payload(track, p) \in Payloads(tracks)
    BY DEF Payloads
  <2>5. track.video \in BOOLEAN
    BY DEF MuxTrack
  <2>6. QED
    BY <2>2, <2>3, <2>4, <2>5 DEF Sample, SamplesOf
<1>3. \A m \in DOMAIN ps : ps[m] \in PacketType /\ track.nals * track.lengthSize <= ps[m].size
  BY WindowPackets DEF MuxTrack
<1>4. \A m \in DOMAIN ps : Sample(track, ps[m]) \in SamplesOf(Payloads(tracks))
  BY <1>2, <1>3
<1>5. SamplesIn(track, w) = [n \in DOMAIN ps |-> Sample(track, ps[n])]
  BY DEF SamplesIn
<1> HIDE DEF ps
<1>6. DOMAIN ps = 1 .. Len(ps) /\ Len(ps) \in Nat
  BY <1>1
<1>7. QED
  BY <1>4, <1>5, <1>6 DEF ps

\* A transport segment is its two tracks interleaved and sanitised.
LEMMA TsSegmentIs ==
  ASSUME NEW tracks, NEW w
  PROVE  TsSegment(tracks, w)
           = Sanitized(Interleaved(SamplesIn(tracks.video, w) \o SamplesIn(tracks.audio, w)))
BY DEF TsSegment, SamplesIn

\* A transport stream's stamps advance, for any packets.
LEMMA SegmentAdvances ==
  ASSUME NEW tracks, MuxTrack(tracks.video), MuxTrack(tracks.audio), NEW w
  PROVE  LET s == TsSegment(tracks, w)
         IN  \A n \in DOMAIN s :
               /\ s[n].dts <= s[n].pts
               /\ \A m \in 1 .. n - 1 : s[m].video = s[n].video => s[m].dts < s[n].dts
<1> DEFINE B == Payloads(tracks)
           both == SamplesIn(tracks.video, w) \o SamplesIn(tracks.audio, w)
<1>1. both \in Seq(SamplesOf(B))
  <2>1. /\ SamplesIn(tracks.video, w) \in Seq(SamplesOf(B))
        /\ SamplesIn(tracks.audio, w) \in Seq(SamplesOf(B))
    BY SamplesType
  <2>2. QED
    BY <2>1
<1> HIDE DEF both, B
<1>2. Interleaved(both) \in Seq(SamplesOf(B))
  BY <1>1, InterleavedTotal
<1>3. QED
  BY <1>2, SanitizedAdvances, TsSegmentIs DEF both

\* A transport stream is not longer than its estimate, for any packets.
LEMMA SegmentFits ==
  ASSUME NEW tracks, MuxTrack(tracks.video), MuxTrack(tracks.audio), NEW w
  PROVE  /\ TsSegmentBytes(TsSegment(tracks, w)) \in Int
         /\ EstimatedOutput("ts", tracks, w) \in Int
         /\ TsSegmentBytes(TsSegment(tracks, w)) <= EstimatedOutput("ts", tracks, w)
<1> DEFINE B == Payloads(tracks)
           S == SamplesOf(B)
           pictures == SamplesIn(tracks.video, w)
           sounds == SamplesIn(tracks.audio, w)
           both == pictures \o sounds
           mixed == Interleaved(both)
           out == Sanitized(mixed)
           most == [s \in S |-> TsPackets(s.video, 19 + s.length)]
           sent == [n \in DOMAIN out |->
                      TsPackets(out[n].video, PesBytes(out[n].pts, out[n].dts, out[n].length))]
<1>1. pictures \in Seq(S) /\ sounds \in Seq(S) /\ both \in Seq(S)
  <2>1. pictures \in Seq(S) /\ sounds \in Seq(S)
    BY SamplesType
  <2> HIDE DEF pictures, sounds, S
  <2>2. QED
    BY <2>1
<1>2. most \in [S -> Int]
  <2>1. ASSUME NEW s \in S PROVE TsPackets(s.video, 19 + s.length) \in Int
    <3>1. s.length \in Int
      BY DEF SamplesOf
    <3>2. 19 + s.length \in Int
      BY <3>1
    <3>3. QED
      BY <3>2, TsPacketsType
  <2>2. QED
    BY <2>1
<1>3. mixed \in Seq(S) /\ Total(Along(most, mixed)) = Total(Along(most, both))
  BY <1>1, <1>2, InterleavedTotal
<1>4. /\ out \in Seq(S) /\ Len(out) = Len(mixed)
      /\ \A n \in DOMAIN out : out[n].video = mixed[n].video /\ out[n].length = mixed[n].length
  BY <1>3, SanitizedAdvances
<1> HIDE DEF mixed, out, both
\* What is sent of a sample is at most what the longest header makes of it.
<1>5. ASSUME NEW n \in 1 .. Len(out)
      PROVE  sent[n] \in Int /\ 1 * sent[n] <= Along(most, mixed)[n]
  <2> DEFINE s == out[n]
             pes == PesBytes(s.pts, s.dts, s.length)
  <2>1. n \in DOMAIN out /\ n \in DOMAIN mixed /\ s \in S /\ mixed[n] \in S
    BY <1>3, <1>4
  <2>2. s.length \in Int /\ pes \in Int /\ pes <= 19 + s.length /\ 19 + s.length \in Int
    BY <2>1 DEF SamplesOf, PesBytes
  <2>3. Along(most, mixed)[n] = TsPackets(s.video, 19 + s.length)
    BY <1>4, <2>1 DEF Along
  <2>4. sent[n] = TsPackets(s.video, pes)
    BY <2>1
  <2> HIDE DEF pes, sent, most
  <2>5. TsPackets(s.video, pes) <= TsPackets(s.video, 19 + s.length)
    BY <2>2, TsPacketsGrow
  <2>6. TsPackets(s.video, pes) \in Int
    BY <2>2, TsPacketsType
  <2>7. QED
    BY <2>3, <2>4, <2>5, <2>6
<1>6. /\ sent \in Seq(Int) /\ Len(sent) = Len(out)
      /\ Along(most, mixed) \in Seq(Int) /\ Len(Along(most, mixed)) = Len(mixed)
  <2>1. DOMAIN out = 1 .. Len(out) /\ Len(out) \in Nat
    BY <1>4
  <2>2. sent \in [1 .. Len(out) -> Int]
    BY <1>5, <2>1
  <2>3. sent \in Seq(Int) /\ Len(sent) = Len(out)
    BY ONLY <2>1, <2>2
  <2>4. QED
    BY <1>2, <1>3, <2>3, AlongType
<1> HIDE DEF sent
<1>7. 1 * Total(sent) <= Total(Along(most, mixed))
  BY <1>4, <1>5, <1>6, TotalGrows
<1>8. Total(Along(most, both)) = Total(Along(most, pictures)) + Total(Along(most, sounds))
  <2> HIDE DEF most, pictures, sounds, S
  <2>1. QED
    BY <1>1, <1>2, AlongConcat DEF both
\* The packets of a track's samples fit the estimates of its packets.
<1>9. ASSUME NEW track \in {tracks.video, tracks.audio}
      PROVE  /\ EstimatesIn("ts", track, w) \in Seq(Int)
             /\ TsPacketBytes * Total(Along(most, SamplesIn(track, w)))
                  <= Total(EstimatesIn("ts", track, w))
  <2> DEFINE ps == PacketsIn(w, track.packets)
             samples == SamplesIn(track, w)
             a == Along(most, samples)
             e == EstimatesIn("ts", track, w)
  <2>1. ps \in Seq(PacketType) /\ MuxTrack(track)
    BY WindowPackets DEF MuxTrack
  <2>2. samples \in Seq(S) /\ Len(samples) = Len(ps)
    BY <2>1, SamplesType
  <2>3. a \in Seq(Int) /\ Len(a) = Len(ps)
    BY <1>2, <2>2, AlongType
  <2>4. ASSUME NEW n \in 1 .. Len(ps)
        PROVE  e[n] \in Int /\ TsPacketBytes * a[n] <= e[n]
    <3>1. n \in DOMAIN ps /\ ps[n] \in PacketType
      BY <2>1
    <3>2. track.nals * track.lengthSize <= ps[n].size
      BY <2>1, <3>1, WindowPackets DEF MuxTrack
    <3>3. e[n] = TsEstimate(track, ps[n])
      BY <3>1 DEF EstimatesIn, Estimate
    <3>4. n \in DOMAIN samples /\ samples[n] = Sample(track, ps[n]) /\ samples[n] \in S
      BY <2>2, <3>1 DEF SamplesIn
    <3>5. samples[n].video = track.video /\ samples[n].length = ElementaryBytes(track, ps[n])
      BY <3>4 DEF Sample
    <3>6. a[n] = TsPackets(track.video, 19 + ElementaryBytes(track, ps[n]))
      BY <3>4, <3>5 DEF Along
    <3>7. QED
      BY <2>1, <3>1, <3>2, <3>3, <3>6, EstimateCovers
  <2>5. e \in Seq(Int) /\ Len(e) = Len(ps)
    <3>1. DOMAIN ps = 1 .. Len(ps) /\ Len(ps) \in Nat
      BY <2>1
    <3>2. e = [n \in 1 .. Len(ps) |-> e[n]]
      BY <3>1 DEF EstimatesIn
    <3> HIDE DEF e
    <3>3. e \in [1 .. Len(ps) -> Int]
      BY <2>4, <3>1, <3>2
    <3>4. e \in Seq(Int) /\ Len(e) = Len(ps)
      BY ONLY <3>1, <3>3
    <3>5. QED
      BY <3>4
  <2> HIDE DEF a, e, ps
  <2>6. TsPacketBytes \in Nat /\ \A n \in 1 .. Len(a) : TsPacketBytes * a[n] <= e[n]
    BY <2>3, <2>4 DEF TsPacketBytes
  <2>7. TsPacketBytes * Total(a) <= Total(e)
    BY <2>3, <2>5, <2>6, TotalGrows
  <2>8. QED
    BY <2>5, <2>7 DEF a, e
<1> DEFINE ev == EstimatesIn("ts", tracks.video, w)
           ea == EstimatesIn("ts", tracks.audio, w)
<1>10. EstimatedOutput("ts", tracks, w) = SegmentOverhead + (Total(ev) + Total(ea))
  BY <1>9, TotalConcat DEF EstimatedOutput
<1>11. TsSegmentBytes(out) = TsPacketBytes * (2 + Total(sent))
  BY DEF TsSegmentBytes, sent
<1>12. TsSegment(tracks, w) = out
  BY TsSegmentIs DEF out, mixed, both
<1>13. /\ Total(sent) \in Int /\ Total(ev) \in Int /\ Total(ea) \in Int
       /\ Total(Along(most, pictures)) \in Int /\ Total(Along(most, sounds)) \in Int
  <2>1. Total(sent) \in Int /\ Total(ev) \in Int /\ Total(ea) \in Int
    BY <1>6, <1>9, TotalType
  <2>2. Along(most, pictures) \in Seq(Int) /\ Along(most, sounds) \in Seq(Int)
    BY <1>1, <1>2, AlongType
  <2>3. QED
    BY <2>1, <2>2, TotalType
<1>14. /\ TsPacketBytes * Total(Along(most, pictures)) <= Total(ev)
       /\ TsPacketBytes * Total(Along(most, sounds)) <= Total(ea)
  BY <1>9
<1>15. Total(sent) <= Total(Along(most, pictures)) + Total(Along(most, sounds))
  BY <1>3, <1>7, <1>8, <1>13
<1> HIDE DEF ev, ea, most, pictures, sounds
<1>16. QED
  BY <1>10, <1>11, <1>12, <1>13, <1>14, <1>15 DEF TsPacketBytes, SegmentOverhead

-----------------------------------------------------------------------------
(***************************************************************************)
(* The reads of a window's packets.                                        *)
(***************************************************************************)
\* A read that holds its packets, and is not wider than them unless it has room.
Spans(room) ==
  {r \in [offset : Nat, span : Nat, payload : Nat, packets : Seq(PacketType)] :
     /\ r.payload <= r.span
     /\ r.span # r.payload => r.span <= room
     /\ \A m \in DOMAIN r.packets :
          /\ r.packets[m].offset >= r.offset
          /\ r.packets[m].offset + r.packets[m].size <= r.offset + r.span}

\* What makes a record a read: its payload fits its span, its packets lie in it.
LEMMA SpansIs ==
  ASSUME NEW room, NEW r \in [offset : Nat, span : Nat, payload : Nat, packets : Seq(PacketType)],
         r.payload <= r.span, r.span # r.payload => r.span <= room,
         \A m \in DOMAIN r.packets :
           /\ r.packets[m].offset >= r.offset
           /\ r.packets[m].offset + r.packets[m].size <= r.offset + r.span
  PROVE  r \in Spans(room)
BY Zenon DEF Spans

Unpacks(f, reads) ==
  /\ f[0] = <<>> /\ \A n \in 1 .. Len(reads) : f[n] = f[n - 1] \o reads[n].packets
  /\ Unpacked(reads) = f[Len(reads)]

\* The recursive function behind Unpacked.
LEMMA UnpackedIs ==
  ASSUME NEW room, NEW reads \in Seq(Spans(room))
  PROVE  \E f \in [0 .. Len(reads) -> Seq(PacketType)] : Unpacks(f, reads)
<1> DEFINE N == Len(reads)
           Z == Seq(PacketType)
           empty == <<>>
           step(x, n) == x \o reads[n].packets
           F == [n \in 1 .. N |-> [x \in Z |-> step(x, n)]]
           Is(f) == f = [n \in 0 .. N |-> IF n = 0 THEN empty ELSE step(f[n - 1], n)]
<1>1. N \in Nat /\ empty \in Z
  OBVIOUS
<1>1a. F \in [1 .. N -> [Z -> Z]]
  <2>1. ASSUME NEW n \in 1 .. N, NEW x \in Z PROVE step(x, n) \in Z
    <3>1. reads[n] \in Spans(room)
      OBVIOUS
    <3>2. reads[n].packets \in Seq(PacketType)
      BY <3>1 DEF Spans
    <3>3. QED
      BY <3>2
  <2>2. QED
    BY <2>1
<1>2. \A n \in 1 .. N : n - 1 \in 0 .. N
  BY <1>1
<1>3. \A n \in 1 .. N, x \in Z : F[n][x] = step(x, n)
  OBVIOUS
<1>4. Unpacked(reads) = (CHOOSE f : Is(f))[N]
  BY DEF Unpacked
<1> HIDE DEF F, N, Z, step, Is, empty
<1>5. PICK f \in [0 .. N -> Z] : f[0] = empty /\ \A n \in 1 .. N : f[n] = F[n][f[n - 1]]
  BY <1>1, <1>1a, Iteration
<1>6. Is(f)
  <2>1. \A n \in 1 .. N : f[n] = step(f[n - 1], n)
    BY <1>2, <1>3, <1>5
  <2>2. QED
    BY <1>5, <2>1 DEF Is
<1> DEFINE all == CHOOSE g : Is(g)
<1>7. Is(all)
  BY <1>6
<1> HIDE DEF all
<1>8. all[0] = empty /\ \A n \in 1 .. N : all[n] = step(all[n - 1], n)
  BY <1>1, <1>7 DEF Is
<1>9. \A n \in 0 .. N : all[n] \in Z
  <2>1. \A n \in 1 .. N : all[n - 1] \in Z => all[n] = F[n][all[n - 1]]
    BY <1>3, <1>8
  <2>2. QED
    BY <1>1, <1>1a, <1>8, <2>1, IterationIs
<1>10. all \in [0 .. N -> Z]
  BY <1>7, <1>9 DEF Is
<1>11. QED
  BY <1>4, <1>8, <1>10 DEF N, Z, all, step, empty, Unpacks

\* One read more.
LEMMA UnpackedLast ==
  ASSUME NEW room, NEW reads \in Seq(Spans(room)), NEW r \in Spans(room)
  PROVE  /\ Unpacked(reads) \in Seq(PacketType)
         /\ Unpacked(Append(reads, r)) = Unpacked(reads) \o r.packets
<1> DEFINE N == Len(reads)
           more == Append(reads, r)
<1>1. /\ more \in Seq(Spans(room)) /\ Len(more) = N + 1 /\ more[N + 1] = r /\ N \in Nat
      /\ \A n \in 1 .. N : more[n] = reads[n]
  OBVIOUS
<1> HIDE DEF more
<1>2. PICK f \in [0 .. Len(reads) -> Seq(PacketType)] : Unpacks(f, reads)
  BY UnpackedIs, Zenon
<1>3. PICK g \in [0 .. Len(more) -> Seq(PacketType)] : Unpacks(g, more)
  BY <1>1, UnpackedIs, Zenon
<1> DEFINE P == {n \in 0 .. N : f[n] = g[n]}
<1>4. 0 \in P
  BY <1>1, <1>2, <1>3 DEF Unpacks
<1>5. ASSUME NEW n \in 1 .. N, n - 1 \in P PROVE n \in P
  <2>1. f[n] = f[n - 1] \o reads[n].packets
    BY <1>2 DEF Unpacks
  <2>2. n \in 1 .. Len(more)
    BY <1>1
  <2>3. g[n] = g[n - 1] \o more[n].packets
    BY <1>3, <2>2 DEF Unpacks
  <2>4. f[n - 1] = g[n - 1] /\ more[n] = reads[n]
    BY <1>1, <1>5
  <2>5. f[n] = g[n]
    BY <2>1, <2>3, <2>4
  <2>6. QED
    BY <1>5, <2>5
<1>6. P = 0 .. N
  <2> HIDE DEF P, N
  <2>1. P \in SUBSET (0 .. N)
    BY DEF P
  <2>2. QED
    BY <1>1, <1>4, <1>5, <2>1, UpTo
<1>7. N \in P
  BY <1>1, <1>6
<1>8. Unpacked(reads) = f[N] /\ f[N] \in Seq(PacketType)
  BY <1>1, <1>2 DEF Unpacks
<1>9. Unpacked(more) = g[N + 1]
  BY <1>1, <1>3 DEF Unpacks
<1>10. g[N + 1] = g[(N + 1) - 1] \o more[N + 1].packets
  <2>1. N + 1 \in 1 .. Len(more)
    BY <1>1
  <2>2. QED
    BY <1>3, <2>1 DEF Unpacks
<1>11. (N + 1) - 1 = N
  BY <1>1
<1>12. QED
  BY <1>1, <1>7, <1>8, <1>9, <1>10, <1>11 DEF more

\* A read of one packet is a read,
LEMMA AloneType ==
  ASSUME NEW room, NEW p \in PacketType
  PROVE  Alone(p) \in Spans(room) /\ Alone(p).packets = <<p>>
<1>1. p.offset \in Nat /\ p.size \in Nat
  BY DEF PacketType
<1>2. <<p>> \in Seq(PacketType)
  OBVIOUS
<1>3. QED
  BY <1>1, <1>2 DEF Alone, Spans

\* and so is one that a packet may join.
LEMMA JoinedType ==
  ASSUME NEW room \in Int, NEW limits, NEW r \in Spans(room), NEW p \in PacketType,
         JoinsRead(limits, r, p, room)
  PROVE  Joined(r, p) \in Spans(room) /\ Joined(r, p).packets = Append(r.packets, p)
<1> DEFINE span == p.offset + p.size - r.offset
<1>1. /\ p.offset \in Nat /\ p.size \in Nat /\ r.offset \in Nat /\ r.span \in Nat /\ r.payload \in Nat
      /\ r.packets \in Seq(PacketType) /\ r.payload <= r.span
      /\ \A m \in DOMAIN r.packets :
           /\ r.packets[m].offset >= r.offset
           /\ r.packets[m].offset + r.packets[m].size <= r.offset + r.span
  BY DEF PacketType, Spans
<1>2. /\ p.offset - (r.offset + r.span) >= 0
      /\ \/ p.offset - (r.offset + r.span) = 0 /\ r.span = r.payload
         \/ span <= room
  BY DEF JoinsRead
<1>3. /\ span \in Nat /\ r.payload + p.size <= span /\ r.span <= span
      /\ span # r.payload + p.size => span <= room
  <2>1. /\ p.offset \in Nat /\ p.size \in Nat /\ r.offset \in Nat /\ r.span \in Nat
        /\ r.payload \in Nat /\ r.payload <= r.span
    BY <1>1
  <2>2. \A a, b, c, d, e \in Nat : a - (c + d) >= 0 /\ e <= d =>
          LET s == a + b - c
          IN  /\ s \in Nat /\ e + b <= s /\ d <= s
              /\ a - (c + d) = 0 /\ d = e => s = e + b
    OBVIOUS
  <2>3. QED
    BY <1>2, <2>1, <2>2
<1> HIDE DEF span
<1>4. Joined(r, p) = [offset |-> r.offset, span |-> span, payload |-> r.payload + p.size,
                      packets |-> Append(r.packets, p)]
  BY DEF Joined, span
<1> DEFINE more == Append(r.packets, p)
           N == Len(r.packets)
<1>5. /\ more \in Seq(PacketType) /\ N \in Nat /\ DOMAIN more = 1 .. N + 1 /\ more[N + 1] = p
      /\ \A m \in 1 .. N : more[m] = r.packets[m] /\ m \in DOMAIN r.packets
  BY <1>1
<1> HIDE DEF more, N
<1>6. ASSUME NEW m \in DOMAIN more
      PROVE  more[m].offset >= r.offset /\ more[m].offset + more[m].size <= r.offset + span
  <2>1. CASE m = N + 1
    <3>1. more[m] = p
      BY <1>5, <2>1
    <3>2. p.offset >= r.offset /\ p.offset + p.size <= r.offset + span
      BY <1>1, <1>2 DEF span
    <3>3. QED
      BY ONLY <3>1, <3>2
  <2>2. CASE m # N + 1
    <3>1. m \in 1 .. N /\ more[m] \in PacketType
      BY <1>5, <1>6, <2>2
    <3>2. more[m].offset \in Nat /\ more[m].size \in Nat
      BY <3>1 DEF PacketType
    <3>3. more[m].offset >= r.offset /\ more[m].offset + more[m].size <= r.offset + r.span
      BY <1>1, <1>5, <3>1
    <3>4. QED
      BY <1>1, <1>3, <3>2, <3>3
  <2>3. QED
    BY <2>1, <2>2
<1> DEFINE j == [offset |-> r.offset, span |-> span, payload |-> r.payload + p.size, packets |-> more]
<1>7. j \in [offset : Nat, span : Nat, payload : Nat, packets : Seq(PacketType)]
  BY <1>1, <1>3, <1>5
<1>8. /\ j.payload <= j.span
      /\ j.span # j.payload => j.span <= room
      /\ \A m \in DOMAIN j.packets :
           /\ j.packets[m].offset >= j.offset
           /\ j.packets[m].offset + j.packets[m].size <= j.offset + j.span
  BY <1>3, <1>6
<1>9. j \in Spans(room) /\ j.packets = more
  <2>1. j.packets = more
    OBVIOUS
  <2> HIDE DEF j
  <2>2. j \in Spans(room)
    BY <1>7, <1>8, SpansIs
  <2>3. QED
    BY <2>1, <2>2
<1>10. QED
  BY <1>4, <1>9 DEF more

\* A packet more is read, with the last read or by one of its own.
LEMMA WithPacketType ==
  ASSUME NEW room \in Int, NEW limits, NEW reads \in Seq(Spans(room)), NEW p \in PacketType
  PROVE  /\ WithPacket(reads, limits, p, room) \in Seq(Spans(room))
         /\ Unpacked(WithPacket(reads, limits, p, room)) = Append(Unpacked(reads), p)
         /\ Unpacked(reads) \in Seq(PacketType)
<1> DEFINE S == Spans(room)
<1>0. /\ Alone(p) \in S /\ Alone(p).packets = <<p>>
  BY AloneType
<1> HIDE DEF S
<1>0a. Unpacked(reads) \in Seq(PacketType)
       /\ \A q \in Seq(S), r \in S : Unpacked(Append(q, r)) = Unpacked(q) \o r.packets
  BY <1>0, UnpackedLast DEF S
<1>0b. \A q \in Seq(S) : Unpacked(q) \in Seq(PacketType)
  BY <1>0, UnpackedLast DEF S
<1>1. CASE reads # <<>> /\ JoinsRead(limits, reads[Len(reads)], p, room)
  <2> DEFINE N == Len(reads)
             last == reads[N]
             front == SubSeq(reads, 1, N - 1)
             joined == Joined(last, p)
  <2>1. N \in Nat \ {0} /\ last \in S
    BY <1>1 DEF S
  <2>1a. JoinsRead(limits, last, p, room)
    BY <1>1
  <2>2. joined \in S /\ joined.packets = Append(last.packets, p)
    <3> HIDE DEF last
    <3>1. QED
      BY <2>1, <2>1a, JoinedType DEF S
  <2>3. last.packets \in Seq(PacketType)
    BY <2>1 DEF S, Spans
  <2> HIDE DEF joined
  <2>4. /\ front \in Seq(S) /\ Len(front) = N - 1 /\ reads = Append(front, last)
    <3>1. reads \in Seq(S)
      BY DEF S
    <3>2. QED
      <4>1. N = Len(reads) /\ last = reads[N] /\ front = SubSeq(reads, 1, N - 1)
        OBVIOUS
      <4> HIDE DEF N, last, front
      <4>2. front \in Seq(S) /\ Len(front) = N - 1
        BY ONLY <2>1, <3>1, <4>1
      <4>3. \A n \in 1 .. N - 1 : front[n] = reads[n]
        BY ONLY <2>1, <3>1, <4>1
      <4>4. Append(front, last) \in Seq(S) /\ Len(Append(front, last)) = N
        BY ONLY <2>1, <4>2
      <4>5. \A n \in 1 .. N : Append(front, last)[n] = reads[n]
        BY ONLY <2>1, <4>1, <4>2, <4>3
      <4>6. reads = Append(front, last)
        BY ONLY <3>1, <4>1, <4>4, <4>5
      <4>7. QED
        BY ONLY <4>2, <4>6
  <2>4a. [reads EXCEPT ![N] = joined] = Append(front, joined)
    <3> DEFINE a == [reads EXCEPT ![N] = joined]
               b == Append(front, joined)
    <3>1. a \in Seq(S) /\ Len(a) = N /\ \A n \in 1 .. N : a[n] = IF n = N THEN joined ELSE reads[n]
      BY <2>1, <2>2 DEF S
    <3>2. \A n \in 1 .. N - 1 : front[n] = reads[n]
      BY <2>1 DEF S
    <3>3. b \in Seq(S) /\ Len(b) = N /\ \A n \in 1 .. N : b[n] = IF n = N THEN joined ELSE front[n]
      <4> HIDE DEF front
      <4>1. QED
        BY <2>1, <2>2, <2>4
    <3> HIDE DEF a, b, front
    <3>4. \A n \in 1 .. N : a[n] = b[n]
      BY <2>1, <3>1, <3>2, <3>3
    <3>5. a = b
      BY <3>1, <3>3, <3>4, SeqEqual
    <3>6. QED
      BY <3>5 DEF a, b
  <2>5. WithPacket(reads, limits, p, room) = Append(front, joined)
    BY <1>1, <2>4a DEF WithPacket, joined
  <2> HIDE DEF front, last, N
  <2>6. Unpacked(reads) = Unpacked(front) \o last.packets
    BY <1>0a, <2>1, <2>4
  <2>7. Unpacked(Append(front, joined)) = Unpacked(front) \o Append(last.packets, p)
    BY <1>0a, <2>2, <2>4
  <2>8. Unpacked(front) \o Append(last.packets, p) = Append(Unpacked(front) \o last.packets, p)
    <3>1. Unpacked(front) \in Seq(PacketType)
      BY <1>0b, <2>4, Zenon
    <3>2. \A u, v \in Seq(PacketType) : u \o Append(v, p) = Append(u \o v, p)
      OBVIOUS
    <3>3. QED
      BY <2>3, <3>1, <3>2
  <2>9. Append(front, joined) \in Seq(S)
    BY <2>2, <2>4
  <2>10. QED
    BY <1>0a, <2>5, <2>6, <2>7, <2>8, <2>9 DEF S
<1>2. CASE ~(reads # <<>> /\ JoinsRead(limits, reads[Len(reads)], p, room))
  <2> DEFINE one == Alone(p)
  <2>0. one \in S /\ one.packets = <<p>>
    BY <1>0
  <2>1. WithPacket(reads, limits, p, room) = Append(reads, one)
    BY <1>2 DEF WithPacket
  <2> HIDE DEF one
  <2>2. reads \in Seq(S)
    BY DEF S
  <2>3. Unpacked(Append(reads, one)) = Unpacked(reads) \o <<p>>
    BY <1>0a, <2>0, <2>2
  <2>4. Unpacked(reads) \o <<p>> = Append(Unpacked(reads), p)
    <3>1. \A u \in Seq(PacketType) : u \o <<p>> = Append(u, p)
      OBVIOUS
    <3>2. QED
      BY <1>0a, <3>1
  <2>5. Append(reads, one) \in Seq(S)
    BY <2>0, <2>2
  <2>6. QED
    BY <1>0a, <2>1, <2>3, <2>4, <2>5 DEF S
<1>3. QED
  BY <1>1, <1>2

RoomOf(packets, window) == Minus(window, Total([n \in DOMAIN packets |-> packets[n].size]))
ReadsOf(f, packets, limits, room) ==
  /\ f[0] = <<>>
  /\ \A n \in 1 .. Len(packets) : f[n] = WithPacket(f[n - 1], limits, packets[n], room)

\* The payload of a sequence of packets is a number.
LEMMA SizesTotal ==
  ASSUME NEW packets \in Seq(PacketType)
  PROVE  LET sizes == [n \in DOMAIN packets |-> packets[n].size]
         IN  sizes \in Seq(Int) /\ Len(sizes) = Len(packets) /\ Total(sizes) \in Int
<1> DEFINE sizes == [n \in DOMAIN packets |-> packets[n].size]
<1>1. DOMAIN packets = 1 .. Len(packets) /\ Len(packets) \in Nat
  OBVIOUS
<1>2. \A n \in 1 .. Len(packets) : packets[n] \in PacketType
  OBVIOUS
<1>3. \A n \in 1 .. Len(packets) : packets[n].size \in Int
  <2>1. \A p \in PacketType : p.size \in Int
    BY DEF PacketType
  <2>2. QED
    BY ONLY <1>2, <2>1
<1>4. sizes \in [1 .. Len(packets) -> Int]
  BY <1>1, <1>3
<1>5. sizes \in Seq(Int) /\ Len(sizes) = Len(packets)
  BY ONLY <1>1, <1>4
<1>6. QED
  BY <1>5, TotalType

\* The recursive function behind Reads.
LEMMA ReadsIs ==
  ASSUME NEW packets \in Seq(PacketType), NEW limits, NEW window \in Int
  PROVE  \E f \in [0 .. Len(packets) -> Seq(Spans(RoomOf(packets, window)))] :
           /\ ReadsOf(f, packets, limits, RoomOf(packets, window))
           /\ Reads(packets, limits, window) = f[Len(packets)]
<1> DEFINE room == RoomOf(packets, window)
           N == Len(packets)
           Z == Seq(Spans(room))
           empty == <<>>
           step(x, n) == WithPacket(x, limits, packets[n], room)
           F == [n \in 1 .. N |-> [x \in Z |-> step(x, n)]]
           Is(f) == f = [n \in 0 .. N |-> IF n = 0 THEN empty ELSE step(f[n - 1], n)]
<1>0. room \in Int
  BY SizesTotal DEF RoomOf, Minus, Larger
<1>1. N \in Nat /\ empty \in Z
  OBVIOUS
<1>1a. F \in [1 .. N -> [Z -> Z]]
  <2> HIDE DEF room
  <2>1. ASSUME NEW n \in 1 .. N, NEW x \in Z PROVE step(x, n) \in Z
    <3>1. packets[n] \in PacketType
      OBVIOUS
    <3>2. QED
      BY <1>0, <3>1, WithPacketType
  <2>2. QED
    BY <2>1
<1>2. \A n \in 1 .. N : n - 1 \in 0 .. N
  BY <1>1
<1>3. \A n \in 1 .. N, x \in Z : F[n][x] = step(x, n)
  OBVIOUS
<1>4. Reads(packets, limits, window) = (CHOOSE f : Is(f))[N]
  BY DEF Reads, RoomOf
<1> HIDE DEF F, N, Z, step, Is, empty, room
<1>5. PICK f \in [0 .. N -> Z] : f[0] = empty /\ \A n \in 1 .. N : f[n] = F[n][f[n - 1]]
  BY <1>1, <1>1a, Iteration
<1>6. Is(f)
  <2>1. \A n \in 1 .. N : f[n] = step(f[n - 1], n)
    BY <1>2, <1>3, <1>5
  <2>2. QED
    BY <1>5, <2>1 DEF Is
<1> DEFINE all == CHOOSE g : Is(g)
<1>7. Is(all)
  BY <1>6
<1> HIDE DEF all
<1>8. all[0] = empty /\ \A n \in 1 .. N : all[n] = step(all[n - 1], n)
  BY <1>1, <1>7 DEF Is
<1>9. \A n \in 0 .. N : all[n] \in Z
  <2>1. \A n \in 1 .. N : all[n - 1] \in Z => all[n] = F[n][all[n - 1]]
    BY <1>3, <1>8
  <2>2. QED
    BY <1>1, <1>1a, <1>8, <2>1, IterationIs
<1>10. all \in [0 .. N -> Z]
  BY <1>7, <1>9 DEF Is
<1>11. QED
  BY <1>4, <1>8, <1>10 DEF N, Z, all, step, empty, ReadsOf, room

\* The reads of a list of packets return them all in order.
LEMMA ReadsUnpack ==
  ASSUME NEW packets \in Seq(PacketType), NEW limits, NEW window \in Int
  PROVE  /\ Reads(packets, limits, window) \in Seq(Spans(RoomOf(packets, window)))
         /\ Unpacked(Reads(packets, limits, window)) = packets
<1> DEFINE room == RoomOf(packets, window)
           N == Len(packets)
<1>0. room \in Int
  BY SizesTotal DEF RoomOf, Minus, Larger
<1>1. PICK f \in [0 .. Len(packets) -> Seq(Spans(RoomOf(packets, window)))] :
           /\ ReadsOf(f, packets, limits, RoomOf(packets, window))
           /\ Reads(packets, limits, window) = f[Len(packets)]
  BY ReadsIs, Zenon
<1> HIDE DEF room
<1>2. /\ f \in [0 .. N -> Seq(Spans(room))] /\ f[0] = <<>>
      /\ \A n \in 1 .. N : f[n] = WithPacket(f[n - 1], limits, packets[n], room)
  BY <1>1 DEF room, ReadsOf
<1> DEFINE Got(n) == /\ Unpacked(f[n]) \in Seq(PacketType) /\ Len(Unpacked(f[n])) = n
                     /\ \A m \in 1 .. n : Unpacked(f[n])[m] = packets[m]
           P == {n \in 0 .. N : Got(n)}
<1>3. N \in Nat
  OBVIOUS
<1>4. 0 \in P
  <2>1. <<>> \in Seq(Spans(room)) /\ Len(<<>>) = 0
    OBVIOUS
  <2>2. PICK g \in [0 .. Len(<<>>) -> Seq(PacketType)] : Unpacks(g, <<>>)
    BY <2>1, UnpackedIs, Zenon
  <2>3. Unpacked(<<>>) = <<>>
    BY <2>1, <2>2 DEF Unpacks
  <2>4. QED
    BY <1>2, <1>3, <2>3
<1>5. ASSUME NEW n \in 1 .. N, n - 1 \in P PROVE n \in P
  <2>1. n - 1 \in 0 .. N /\ n \in 0 .. N /\ packets[n] \in PacketType
    BY <1>3
  <2>2. f[n - 1] \in Seq(Spans(room))
    BY <1>2, <2>1
  <2>3. f[n] = WithPacket(f[n - 1], limits, packets[n], room)
    BY <1>2
  <2>4. Unpacked(f[n]) = Append(Unpacked(f[n - 1]), packets[n])
    BY <1>0, <2>1, <2>2, <2>3, WithPacketType
  <2> DEFINE u == Unpacked(f[n - 1])
             v == Unpacked(f[n])
  <2>5. u \in Seq(PacketType) /\ Len(u) = n - 1 /\ \A m \in 1 .. n - 1 : u[m] = packets[m]
    BY <1>5
  <2>6. v = Append(u, packets[n])
    BY <2>4
  <2> HIDE DEF u, v
  <2>7. v \in Seq(PacketType) /\ Len(v) = n /\ \A m \in 1 .. n : v[m] = packets[m]
    BY <2>1, <2>5, <2>6
  <2>8. QED
    BY <2>1, <2>7 DEF v
<1>6. P = 0 .. N
  <2> HIDE DEF P, N
  <2>1. P \in SUBSET (0 .. N)
    BY DEF P
  <2>2. QED
    BY <1>3, <1>4, <1>5, <2>1, UpTo
<1>7. N \in P
  BY <1>3, <1>6
<1>8. Unpacked(f[N]) = packets
  <2> DEFINE v == Unpacked(f[N])
  <2>1. v \in Seq(PacketType) /\ Len(v) = Len(packets) /\ \A m \in 1 .. Len(v) : v[m] = packets[m]
    BY <1>7
  <2> HIDE DEF v
  <2>2. v = packets
    BY <2>1, SeqEqual
  <2>3. QED
    BY <2>2 DEF v
<1>9. f[N] \in Seq(Spans(room))
  BY <1>2, <1>3
<1>10. QED
  BY <1>1, <1>8, <1>9 DEF room

\* What is read through a buffer fits beside the result.
LEMMA ReadsFit ==
  ASSUME NEW packets \in Seq(PacketType), NEW limits, NEW window \in Int
  PROVE  LET reads == Reads(packets, limits, window)
             wanted == Total([m \in DOMAIN packets |-> packets[m].size])
         IN  /\ Unpacked(reads) = packets
             /\ \A r \in DOMAIN reads :
                  /\ \A m \in DOMAIN reads[r].packets :
                       LET p == reads[r].packets[m]
                       IN  /\ p.offset >= reads[r].offset
                           /\ p.offset + p.size <= reads[r].offset + reads[r].span
                  /\ reads[r].span # reads[r].payload => wanted + reads[r].span <= window
<1> DEFINE reads == Reads(packets, limits, window)
           wanted == Total([m \in DOMAIN packets |-> packets[m].size])
           room == RoomOf(packets, window)
<1>1. reads \in Seq(Spans(room)) /\ Unpacked(reads) = packets
  BY ReadsUnpack
<1>2. wanted \in Int /\ room = (IF window - wanted >= 0 THEN window - wanted ELSE 0)
  BY SizesTotal DEF RoomOf, Minus, Larger
<1> HIDE DEF reads, wanted, room
<1>3. ASSUME NEW r \in DOMAIN reads
      PROVE  /\ \A m \in DOMAIN reads[r].packets :
                  /\ reads[r].packets[m].offset >= reads[r].offset
                  /\ reads[r].packets[m].offset + reads[r].packets[m].size
                       <= reads[r].offset + reads[r].span
             /\ reads[r].span # reads[r].payload => wanted + reads[r].span <= window
  <2>1. reads[r] \in Spans(room)
    BY <1>1
  <2>2. /\ reads[r].payload <= reads[r].span /\ reads[r].payload \in Nat /\ reads[r].span \in Nat
        /\ reads[r].span # reads[r].payload => reads[r].span <= room
    BY <2>1 DEF Spans
  <2>3. reads[r].span # reads[r].payload => wanted + reads[r].span <= window
    BY <1>2, <2>2
  <2>4. QED
    BY <2>1, <2>3 DEF Spans
<1>4. QED
  BY <1>1, <1>3 DEF reads, wanted

-----------------------------------------------------------------------------
(***************************************************************************)
(* The times of a fragment.                                                *)
(***************************************************************************)
\* A track whose packets are in its own time scale, each decoded when the one before ends.
Contiguous(track) ==
  /\ track.packets \in Seq(PacketType) /\ track.timescale \in Nat
  /\ \A i \in DOMAIN track.packets : track.packets[i].scale = track.timescale
  /\ \A i \in 1 .. Len(track.packets) - 1 :
       track.packets[i + 1].dts = track.packets[i].dts + track.packets[i].duration

\* Rescaling to the same clock changes nothing.
LEMMA RescaleSame ==
  ASSUME NEW x \in Nat, NEW s \in Nat \ {0}
  PROVE  Rescale(x, s, s) = x
<1>1. (x * s) \div s = x
  <2>1. x * s \in Nat
    OBVIOUS
  <2>2. QED
    BY <2>1
<1>2. QED
  BY <1>1 DEF Rescale, Larger

\* The offsets of packets none of which is shown before it is decoded need no shift.
LEMMA NoLowering ==
  ASSUME NEW I, NEW e, e \in [I -> Int], \A i \in I : e[i] <= 0
  PROVE  Maximum({0} \cup {e[i] : i \in I}) = 0
<1> DEFINE S == {0} \cup {e[i] : i \in I}
<1>1. 0 \in S /\ \A y \in S : 0 >= y
  OBVIOUS
<1>2. \A x \in S : (\A y \in S : x >= y) => x = 0
  <2>1. \A x \in S : x \in Int /\ x <= 0
    OBVIOUS
  <2>2. QED
    BY <1>1, <2>1
<1> HIDE DEF S
<1>3. Maximum(S) = 0
  BY <1>1, <1>2 DEF Maximum
<1>4. QED
  BY <1>3 DEF S

\* In an unbroken fragment the writer's clock, which adds up durations, is at the
\* packet's own decode time.
LEMMA FragmentRuns ==
  ASSUME NEW track, Contiguous(track), NEW w, NEW id,
         Unbroken(track, PacketsIn(w, track.packets)),
         NEW n \in DOMAIN PacketsIn(w, track.packets)
  PROVE  LET ps == PacketsIn(w, track.packets)
             fragment == FragmentTrack(id, track, w)
         IN  /\ DecodeTime(fragment, n) = ps[n].dts
             /\ (\A m \in DOMAIN ps : ps[m].pts >= ps[m].dts) =>
                   DecodeTime(fragment, n) + fragment.samples[n].composition = ps[n].pts
<1> DEFINE packets == track.packets
           ps == PacketsIn(w, packets)
           N == Len(ps)
           scale == track.timescale
           fragment == FragmentTrack(id, track, w)
<1>1. /\ packets \in Seq(PacketType) /\ ps \in Seq(PacketType) /\ scale \in Nat \ {0}
      /\ \A i \in DOMAIN packets : packets[i].scale = scale
      /\ \A i \in 1 .. Len(packets) - 1 : packets[i + 1].dts = packets[i].dts + packets[i].duration
  <2>1. scale \in Nat /\ scale > 0
    BY DEF Contiguous, Unbroken
  <2>2. packets \in Seq(PacketType)
    BY DEF Contiguous
  <2>3. ps \in Seq(PacketType)
    BY <2>2, WindowPackets
  <2>4. /\ \A i \in DOMAIN packets : packets[i].scale = scale
        /\ \A i \in 1 .. Len(packets) - 1 :
             packets[i + 1].dts = packets[i].dts + packets[i].duration
    BY DEF Contiguous
  <2>5. QED
    BY ONLY <2>1, <2>2, <2>3, <2>4
<1>2. PICK first \in 1 .. Len(packets) - N + 1 : ps = SubSeq(packets, first, first + N - 1)
  BY DEF Unbroken
<1> HIDE DEF packets, ps, scale
<1>3. N \in Nat /\ DOMAIN ps = 1 .. N /\ n \in 1 .. N /\ Len(packets) \in Nat
  BY <1>1 DEF ps, packets
<1>4. \A m \in 1 .. N : /\ first + m - 1 \in 1 .. Len(packets)
                        /\ ps[m] = packets[first + m - 1]
  <2>1. ASSUME NEW m \in 1 .. N
        PROVE  first + m - 1 \in 1 .. Len(packets) /\ ps[m] = packets[first + m - 1]
    <3>1. first \in Int /\ first >= 1 /\ first + N - 1 <= Len(packets)
      BY <1>3
    <3>2. first + m - 1 \in 1 .. Len(packets)
      BY ONLY <1>3, <2>1, <3>1
    <3>3. ps[m] = SubSeq(packets, first, first + N - 1)[m]
      BY ONLY <1>2
    <3>4. SubSeq(packets, first, first + N - 1)[m] = packets[first + m - 1]
      BY ONLY <1>1, <1>3, <2>1, <3>1
    <3>5. QED
      BY ONLY <3>2, <3>3, <3>4
  <2>2. QED
    BY ONLY <2>1
<1>5. \A m \in 1 .. N : /\ ps[m] \in PacketType /\ ps[m].scale = scale /\ ps[m].duration > 0
                        /\ ps[m].pts \in Nat /\ ps[m].dts \in Nat /\ ps[m].duration \in Nat
  <2>1. ASSUME NEW m \in 1 .. N
        PROVE  ps[m] \in PacketType /\ ps[m].scale = scale /\ ps[m].duration > 0
    <3>1. ps[m] \in PacketType
      BY <1>1, <1>3
    <3>2. first + m - 1 \in DOMAIN packets
      BY <1>1, <1>4
    <3>3. ps[m].scale = scale
      BY <1>1, <1>4, <3>2
    <3>4. ps[m].duration > 0
      BY <1>3 DEF Unbroken, ps, packets
    <3>5. QED
      BY <3>1, <3>3, <3>4
  <2>2. QED
    BY <2>1 DEF PacketType
<1>6. \A m \in 1 .. N - 1 : ps[m + 1].dts = ps[m].dts + ps[m].duration
  <2>1. ASSUME NEW m \in 1 .. N - 1 PROVE ps[m + 1].dts = ps[m].dts + ps[m].duration
    <3>1. m \in 1 .. N /\ m + 1 \in 1 .. N
      BY <1>3
    <3> DEFINE i == first + m - 1
    <3>2. i \in 1 .. Len(packets) - 1 /\ i + 1 = first + (m + 1) - 1
      BY <1>3, <1>4, <3>1
    <3>3. ps[m] = packets[i] /\ ps[m + 1] = packets[i + 1]
      BY <1>4, <3>1, <3>2
    <3>4. packets[i + 1].dts = packets[i].dts + packets[i].duration
      BY <1>1, <3>2
    <3>5. QED
      BY <3>3, <3>4
  <2>2. QED
    BY <2>1
\* Nothing is rounded in the track's own scale.
<1>7. \A m \in 1 .. N : /\ SampleDuration(ps[m], scale) = ps[m].duration
                        /\ Composition(ps[m], scale) = ps[m].pts - ps[m].dts
                        /\ BaseTime(ps[m], scale) = ps[m].dts
  <2>1. ASSUME NEW m \in 1 .. N
        PROVE  /\ SampleDuration(ps[m], scale) = ps[m].duration
               /\ Composition(ps[m], scale) = ps[m].pts - ps[m].dts
               /\ BaseTime(ps[m], scale) = ps[m].dts
    <3>1. /\ Rescale(ps[m].duration, ps[m].scale, scale) = ps[m].duration
          /\ Rescale(ps[m].pts, ps[m].scale, scale) = ps[m].pts
          /\ Rescale(ps[m].dts, ps[m].scale, scale) = ps[m].dts
      BY <1>1, <1>5, RescaleSame
    <3>2. QED
      BY <1>5, <3>1 DEF SampleDuration, Composition, BaseTime, Larger
  <2>2. QED
    BY <2>1
<1> DEFINE down == [m \in 1 .. N |-> -Composition(ps[m], scale)]
           lowest == -Maximum({0} \cup {down[m] : m \in 1 .. N})
<1>8. /\ fragment.base = ps[1].dts
      /\ \A m \in 1 .. N : /\ fragment.samples[m].duration = ps[m].duration
                           /\ fragment.samples[m].composition = ps[m].pts - ps[m].dts - lowest
  <2>1. 1 \in 1 .. N
    BY <1>3
  <2>2. fragment.base = BaseTime(ps[1], scale)
    BY DEF FragmentTrack, ps, packets, scale
  <2>3. {down[m] : m \in 1 .. N} = {-Composition(ps[m], scale) : m \in DOMAIN ps}
    BY <1>3
  <2>4. \A m \in 1 .. N : /\ fragment.samples[m].duration = SampleDuration(ps[m], scale)
                          /\ fragment.samples[m].composition = Composition(ps[m], scale) - lowest
    <3> HIDE DEF down
    <3>1. fragment.samples = FragmentSamples(track, ps)
      BY DEF FragmentTrack, ps, packets, scale
    <3> DEFINE low == -Maximum({0} \cup {-Composition(ps[m], scale) : m \in DOMAIN ps})
    <3>2. lowest = low
      BY <2>3
    <3>3. FragmentSamples(track, ps)
            = [m \in DOMAIN ps |->
                 [duration |-> SampleDuration(ps[m], scale), size |-> ps[m].size,
                  sync |-> ps[m].key, composition |-> Composition(ps[m], scale) - low,
                  bytes |-> Payload(track, ps[m])]]
      BY Zenon DEF FragmentSamples, scale
    <3> DEFINE samples == fragment.samples
    <3> HIDE DEF low, lowest, fragment
    <3>4. samples = [m \in 1 .. N |->
                       [duration |-> SampleDuration(ps[m], scale), size |-> ps[m].size,
                        sync |-> ps[m].key, composition |-> Composition(ps[m], scale) - lowest,
                        bytes |-> Payload(track, ps[m])]]
      BY <1>3, <3>1, <3>2, <3>3
    <3>5. QED
      BY <3>4
  <2>5. QED
    BY <1>7, <2>1, <2>2, <2>4
<1> HIDE DEF fragment, lowest, N
\* The durations up to a sample add up to its decode time.
<1>9. DecodeTime(fragment, n) = ps[n].dts
  <2> DEFINE s == [m \in 1 .. n - 1 |-> fragment.samples[m].duration]
             f == [k \in 0 .. n - 1 |-> ps[k + 1].dts - ps[1].dts]
  <2>1. n - 1 \in Nat /\ \A k \in 0 .. n - 1 : k + 1 \in 1 .. N
    BY <1>3
  <2>2. s \in [1 .. n - 1 -> Int]
    <3>1. ASSUME NEW m \in 1 .. n - 1 PROVE fragment.samples[m].duration \in Int
      <4>1. m \in 1 .. N
        BY <1>3
      <4>2. QED
        BY <1>5, <1>8, <4>1
    <3>2. QED
      BY <3>1
  <2>3. s \in Seq(Int) /\ Len(s) = n - 1
    <3> HIDE DEF s
    <3>1. QED
      BY <2>1, <2>2
  <2>4. f[0] = 0
    <3>1. f[0] = ps[0 + 1].dts - ps[1].dts /\ 1 \in 1 .. N /\ 0 + 1 = 1
      BY <1>3, <2>1
    <3>2. QED
      BY <1>5, <3>1
  <2>5. ASSUME NEW k \in 1 .. n - 1 PROVE f[k] = f[k - 1] + s[k]
    <3>1. /\ k \in 1 .. N - 1 /\ k \in 1 .. N /\ k + 1 \in 1 .. N /\ 1 \in 1 .. N
          /\ k - 1 \in 0 .. n - 1 /\ k \in 0 .. n - 1 /\ (k - 1) + 1 = k
      BY <1>3
    <3>2. f[k] = ps[k + 1].dts - ps[1].dts /\ f[k - 1] = ps[k].dts - ps[1].dts
      BY <3>1
    <3>3. s[k] = ps[k].duration
      BY <1>8, <3>1
    <3>4. ps[k + 1].dts = ps[k].dts + ps[k].duration
      BY <1>6, <3>1
    <3>5. ps[k].dts \in Nat /\ ps[k].duration \in Nat /\ ps[1].dts \in Nat
      BY <1>5, <3>1
    <3> HIDE DEF f, s
    <3>6. QED
      BY <3>2, <3>3, <3>4, <3>5
  <2>6. f[n - 1] = ps[n].dts - ps[1].dts
    <3>1. n - 1 \in 0 .. n - 1 /\ (n - 1) + 1 = n
      BY <1>3
    <3>2. QED
      BY <3>1
  <2> HIDE DEF f, s
  <2>7. Total(s) = f[n - 1]
    BY <2>3, <2>4, <2>5, TotalIs
  <2>8. DecodeTime(fragment, n) = fragment.base + Total(s)
    BY DEF DecodeTime, s
  <2>9. ps[n].dts \in Nat /\ ps[1].dts \in Nat
    <3>1. 1 \in 1 .. N
      BY <1>3
    <3>2. QED
      BY <1>3, <1>5, <3>1
  <2>10. QED
    BY <1>8, <2>6, <2>7, <2>8, <2>9
<1>10. ASSUME \A m \in DOMAIN ps : ps[m].pts >= ps[m].dts
       PROVE  DecodeTime(fragment, n) + fragment.samples[n].composition = ps[n].pts
  <2>1. \A m \in 1 .. N : down[m] \in Int /\ down[m] <= 0
    <3>1. ASSUME NEW m \in 1 .. N PROVE down[m] \in Int /\ down[m] <= 0
      <4>1. ps[m].pts \in Nat /\ ps[m].dts \in Nat
        BY <1>5
      <4>2. ps[m].pts >= ps[m].dts
        BY <1>3, <1>10
      <4>3. down[m] = -Composition(ps[m], scale) /\ Composition(ps[m], scale) = ps[m].pts - ps[m].dts
        BY <1>7
      <4> HIDE DEF down
      <4>4. QED
        BY <4>1, <4>2, <4>3
    <3>2. QED
      BY <3>1
  <2>2. down \in [1 .. N -> Int]
    BY <2>1
  <2>3. lowest = -Maximum({0} \cup {down[m] : m \in 1 .. N})
    BY DEF lowest
  <2> HIDE DEF down
  <2>4. lowest = 0
    <3> DEFINE most == Maximum({0} \cup {down[m] : m \in 1 .. N})
    <3>1. most = 0
      BY <2>1, <2>2, NoLowering
    <3>2. -most = 0
      <4> HIDE DEF most
      <4>1. most \in Nat /\ most <= 0
        BY <3>1
      <4>2. QED
        BY ONLY <4>1
    <3>3. QED
      BY <2>3, <3>2, Zenon
  <2>5. fragment.samples[n].composition = ps[n].pts - ps[n].dts - lowest
    BY <1>3, <1>8
  <2>6. ps[n].pts \in Nat /\ ps[n].dts \in Nat
    BY <1>3, <1>5
  <2>7. QED
    BY <1>9, <2>4, <2>5, <2>6
<1>11. QED
  BY <1>9, <1>10 DEF fragment, ps, packets

-----------------------------------------------------------------------------
(***************************************************************************)
(* The bytes of a window and the bandwidth of a playlist.                  *)
(***************************************************************************)
LEMMA LocatedType ==
  ASSUME NEW ws \in Seq(WindowType), NEW place \in Nat, NEW pts
  PROVE  Located(ws, place, pts) \in Nat
<1> DEFINE before == {n \in DOMAIN ws : ws[n].end <= pts}
<1>1. before \in SUBSET (1 .. Len(ws)) /\ Len(ws) \in Nat
  OBVIOUS
<1> HIDE DEF before
<1>2. Cardinality(before) \in Nat
  <2>1. IsFiniteSet(1 .. Len(ws))
    BY <1>1, FS_Interval
  <2>2. IsFiniteSet(before)
    BY <1>1, <2>1, FS_Subset
  <2>3. QED
    BY <2>2, FS_CardinalityType
<1>3. QED
  BY <1>2 DEF Located, before

\* In a timeline the window of a time is found from wherever the search starts.
LEMMA Locates ==
  ASSUME NEW ws, NEW from, NEW to, Timeline(ws, from, to), NEW place, NEW pts \in Nat,
         NEW w \in DOMAIN ws, ws[w].start <= pts, pts < ws[w].end
  PROVE  Located(ws, place, pts) = w
<1>1. /\ DOMAIN ws = 1 .. Len(ws) /\ Len(ws) \in Nat
      /\ \A n \in 1 .. Len(ws) : ws[n].start \in Nat /\ ws[n].end \in Nat
      /\ \A n \in 1 .. Len(ws) : ws[n].start < ws[n].end
      /\ \A n, m \in 1 .. Len(ws) : n < m => ws[n].end <= ws[m].start
  <2>1. \A n \in 1 .. Len(ws) : ws[n] \in WindowType
    BY DEF Timeline
  <2>2. QED
    BY <2>1 DEF Timeline, WindowType
<1>2. ASSUME NEW n \in 1 .. Len(ws)
      PROVE  /\ ws[n].end <= pts <=> n < w
             /\ ws[n].start <= pts /\ pts < ws[n].end => n = w
  <2>1. w \in 1 .. Len(ws) /\ n \in Int /\ w \in Int
    BY <1>1
  <2>2. CASE n < w
    BY <1>1, <2>1, <2>2
  <2>3. CASE n = w
    BY <1>1, <2>3
  <2>4. CASE w < n
    BY <1>1, <2>1, <2>4
  <2>5. QED
    BY <2>1, <2>2, <2>3, <2>4
<1> DEFINE before == {n \in DOMAIN ws : ws[n].end <= pts}
<1>3. before = 1 .. w - 1
  BY <1>1, <1>2
<1>4. Cardinality(before) = w - 1
  <2> HIDE DEF before
  <2> DEFINE b == w - 1
  <2>1. b \in Nat /\ b \in Int /\ 1 \in Int
    BY <1>1
  <2> HIDE DEF b
  <2>2. Cardinality(1 .. b) = IF 1 > b THEN 0 ELSE b - 1 + 1
    BY <2>1, FS_Interval
  <2>3. Cardinality(1 .. b) = b
    BY <2>1, <2>2
  <2>4. QED
    BY <1>3, <2>3 DEF b
<1> HIDE DEF before
<1>5. Cardinality(before) + 1 = w
  BY <1>1, <1>4
<1>6. QED
  BY <1>1, <1>2, <1>5 DEF Located, before

\* Where every packet of a track is counted.
Counting(place, packets, ws) ==
  /\ \A n \in 1 .. Len(packets) : place[n] = Located(ws, place[n - 1], PtsMs(packets[n]))
  /\ BytesByWindow(packets, ws)
       = [w \in DOMAIN ws |->
            Total([n \in DOMAIN packets |->
                     IF place[n] = w /\ PtsMs(packets[n]) >= ws[w].start
                     THEN packets[n].size ELSE 0])]

\* The walk that counts a window's packets exists.
LEMMA Counted ==
  ASSUME NEW packets, NEW ws, ws \in Seq(WindowType), packets \in Seq(PacketType)
  PROVE  \E place : Counting(place, packets, ws)
<1> DEFINE N == Len(packets)
           Z == Nat
           one == 1
           step(x, n) == Located(ws, x, PtsMs(packets[n]))
           F == [n \in 1 .. N |-> [x \in Z |-> step(x, n)]]
           Is(f) == f = [n \in 0 .. N |-> IF n = 0 THEN one ELSE step(f[n - 1], n)]
           bytes(place) == [w \in DOMAIN ws |->
                           Total([n \in DOMAIN packets |->
                                    IF place[n] = w /\ PtsMs(packets[n]) >= ws[w].start
                                    THEN packets[n].size ELSE 0])]
<1>1. N \in Nat /\ one \in Z
  OBVIOUS
<1>2. F \in [1 .. N -> [Z -> Z]]
  BY LocatedType
<1>3. \A n \in 1 .. N : n - 1 \in 0 .. N
  BY <1>1
<1>4. \A n \in 1 .. N, x \in Z : F[n][x] = step(x, n)
  OBVIOUS
<1>5. BytesByWindow(packets, ws) = bytes(CHOOSE f : Is(f))
  BY DEF BytesByWindow
<1> HIDE DEF F, N, Z, step, Is, one, bytes
<1>6. PICK f \in [0 .. N -> Z] : f[0] = one /\ \A n \in 1 .. N : f[n] = F[n][f[n - 1]]
  BY ONLY <1>1, <1>2, Iteration
<1>7. Is(f)
  <2>1. \A n \in 1 .. N : f[n] = step(f[n - 1], n)
    BY <1>3, <1>4, <1>6
  <2>2. QED
    BY <1>6, <2>1 DEF Is
<1> DEFINE place == CHOOSE g : Is(g)
<1>8. Is(place)
  BY <1>7
<1> HIDE DEF place
<1>9. \A n \in 1 .. N : place[n] = step(place[n - 1], n)
  BY <1>1, <1>8 DEF Is
<1>10. BytesByWindow(packets, ws) = bytes(place)
  BY <1>5 DEF place
<1>11. QED
  BY <1>9, <1>10 DEF N, step, bytes, Counting

Weighed(g, s, I) == [n \in DOMAIN s |-> IF n \in I THEN g[s[n]] ELSE 0]

\* What is kept weighs what its places weigh in the whole.
LEMMA KeptIn ==
  ASSUME NEW T, NEW s \in Seq(T), NEW I, NEW g \in [T -> Int], NEW k, k = Kept(s, I)
  PROVE  Total(Along(g, k)) = Total(Weighed(g, s, I))
<1>1. Total([m \in DOMAIN k |-> g[k[m]]])
        = Total([n \in DOMAIN s |-> IF n \in I THEN g[s[n]] ELSE 0])
  BY KeptTotal
<1>2. QED
  BY <1>1, Zenon DEF Along, Weighed

\* Every packet of a window is counted for it, so that no window is counted short.
LEMMA BytesCover ==
  ASSUME NEW packets \in Seq(PacketType), NEW ws, NEW from, NEW to, Timeline(ws, from, to),
         NEW w \in DOMAIN ws
  PROVE  LET ps == PacketsIn(ws[w], packets)
         IN  /\ BytesByWindow(packets, ws)[w] \in Int
             /\ Total([n \in DOMAIN ps |-> ps[n].size]) <= BytesByWindow(packets, ws)[w]
<1> DEFINE N == Len(packets)
           I == {n \in DOMAIN packets : InWindow(packets[n], ws[w])}
           g == [p \in PacketType |-> p.size]
           ps == PacketsIn(ws[w], packets)
           few == [n \in DOMAIN packets |-> IF n \in I THEN g[packets[n]] ELSE 0]
<1>1. ws \in Seq(WindowType)
  BY DEF Timeline
<1>2. PICK place : Counting(place, packets, ws)
  BY <1>1, Counted, Zenon
<1> DEFINE many == [n \in DOMAIN packets |-> IF place[n] = w /\ PtsMs(packets[n]) >= ws[w].start
                                             THEN packets[n].size ELSE 0]
<1>3. BytesByWindow(packets, ws)[w] = Total(many)
  BY <1>2 DEF Counting
<1>4. N \in Nat /\ DOMAIN packets = 1 .. N /\ \A n \in 1 .. N : packets[n] \in PacketType
  OBVIOUS
<1>5. g \in [PacketType -> Int] /\ \A p \in PacketType : g[p] = p.size /\ p.size \in Nat
  BY DEF PacketType
<1>6. ASSUME NEW n \in 1 .. N
      PROVE  few[n] \in Int /\ many[n] \in Int /\ few[n] <= many[n]
  <2>1. packets[n] \in PacketType /\ packets[n].size \in Nat /\ g[packets[n]] = packets[n].size
    BY <1>4, <1>5
  <2>2. n \in DOMAIN packets
    BY <1>4
  <2>3. ASSUME n \in I PROVE place[n] = w /\ PtsMs(packets[n]) >= ws[w].start
    <3>1. ws[w].start <= PtsMs(packets[n]) /\ PtsMs(packets[n]) < ws[w].end
      BY <2>3 DEF InWindow
    <3>2. PtsMs(packets[n]) \in Nat
      BY <2>1, PacketTimes
    <3>3. place[n] = Located(ws, place[n - 1], PtsMs(packets[n]))
      BY <1>2 DEF Counting
    <3>4. place[n] = w
      BY <3>1, <3>2, <3>3, Locates
    <3>5. ws[w].start \in Nat
      <4>1. ws[w] \in WindowType
        BY <1>1
      <4>2. QED
        BY <4>1 DEF WindowType
    <3>6. QED
      BY <3>1, <3>2, <3>4, <3>5
  <2> HIDE DEF I, g
  <2>4. few[n] = (IF n \in I THEN packets[n].size ELSE 0)
    BY <2>1, <2>2
  <2>5. many[n] = IF place[n] = w /\ PtsMs(packets[n]) >= ws[w].start THEN packets[n].size ELSE 0
    BY <2>2
  <2> HIDE DEF few, many
  <2>6. QED
    BY <2>1, <2>3, <2>4, <2>5
<1>7. few \in [1 .. N -> Int] /\ many \in [1 .. N -> Int]
  <2>1. \A n \in 1 .. N : few[n] \in Int /\ many[n] \in Int
    BY <1>6
  <2>2. few = [n \in 1 .. N |-> few[n]] /\ many = [n \in 1 .. N |-> many[n]]
    BY <1>4
  <2> HIDE DEF few, many, N
  <2>3. QED
    BY <2>1, <2>2
<1> HIDE DEF few, many, N
<1>8. few \in Seq(Int) /\ many \in Seq(Int) /\ Len(few) = N /\ Len(many) = N
  BY <1>4, <1>7
<1>9. Total(few) <= Total(many) /\ Total(many) \in Int
  <2>1. 1 \in Nat /\ \A n \in 1 .. Len(few) : 1 * few[n] <= many[n]
    BY <1>6, <1>8
  <2>2. 1 * Total(few) <= Total(many)
    BY <1>8, <2>1, TotalGrows
  <2>3. Total(few) \in Int /\ Total(many) \in Int
    BY <1>8, TotalType
  <2>4. QED
    BY <2>2, <2>3
<1>10. Total([n \in DOMAIN ps |-> ps[n].size]) = Total(few)
  <2>1. ps = Kept(packets, I)
    BY DEF PacketsIn
  <2>2. Total(Along(g, ps)) = Total(few)
    <3>1. few = Weighed(g, packets, I)
      BY Zenon DEF few, Weighed
    <3> HIDE DEF I, g, ps
    <3>2. Total(Along(g, ps)) = Total(Weighed(g, packets, I))
      BY <1>5, <2>1, KeptIn
    <3>3. QED
      BY <3>1, <3>2
  <2>3. ps \in Seq(PacketType)
    BY WindowPackets
  <2> HIDE DEF ps, g
  <2>4. Along(g, ps) = [m \in DOMAIN ps |-> ps[m].size]
    <3>1. \A m \in DOMAIN ps : ps[m] \in PacketType
      BY <2>3
    <3>2. QED
      BY <1>5, <3>1 DEF Along
  <2>5. QED
    BY <2>2, <2>4
<1>11. QED
  BY <1>3, <1>9, <1>10
\* Division is monotonic.
LEMMA QuotientGrows ==
  ASSUME NEW a \in Int, NEW b \in Int, NEW d \in Nat \ {0}, a <= b
  PROVE  a \div d <= b \div d /\ a \div d \in Int
<1> DEFINE q == a \div d
           r == b \div d
<1>1. q \in Int /\ r \in Int /\ d * q <= a /\ b < d * (r + 1)
  OBVIOUS
<1> HIDE DEF q, r
<1>2. d * q < d * (r + 1)
  BY <1>1
<1>3. q < r + 1
  BY <1>1, <1>2
<1>4. QED
  BY <1>1, <1>3 DEF q, r

\* The largest of finitely many numbers is there, and none is larger.
LEMMA MaximumIs ==
  ASSUME NEW N \in Nat \ {0}, NEW f \in [1 .. N -> Int]
  PROVE  /\ Maximum({f[n] : n \in 1 .. N}) \in Int
         /\ \A n \in 1 .. N : f[n] <= Maximum({f[n_1] : n_1 \in 1 .. N})
<1> DEFINE h == [n \in 0 .. N - 1 |-> f[n + 1]]
           S == {f[n] : n \in 1 .. N}
<1>1. N - 1 \in Nat /\ h \in [0 .. N - 1 -> Int]
  OBVIOUS
<1>2. PICK m \in 0 .. N - 1 : \A n \in 0 .. N - 1 : h[m] >= h[n]
  <2> HIDE DEF h
  <2>1. QED
    BY <1>1, Highest
<1>3. f[m + 1] \in S
  BY <1>1
<1>4. \A y \in S : f[m + 1] >= y
  <2>1. ASSUME NEW n \in 1 .. N PROVE f[m + 1] >= f[n]
    <3>1. n - 1 \in 0 .. N - 1 /\ (n - 1) + 1 = n
      OBVIOUS
    <3>2. h[m] = f[m + 1] /\ h[n - 1] = f[n]
      BY <3>1
    <3>3. QED
      BY <1>2, <3>1, <3>2
  <2>2. QED
    BY <2>1
<1>5. S \subseteq Int /\ \A n \in 1 .. N : f[n] \in S
  OBVIOUS
<1> HIDE DEF S
<1>6. Maximum(S) \in S /\ \A y \in S : Maximum(S) >= y
  BY <1>3, <1>4 DEF Maximum
<1>7. Maximum(S) \in Int /\ \A n \in 1 .. N : f[n] <= Maximum(S)
  BY <1>5, <1>6
<1>8. QED
  BY <1>7 DEF S

\* The bandwidth of a playlist covers the packets of every window of a timeline.
LEMMA BandwidthCovers ==
  ASSUME NEW tracks, NEW ws, NEW from, NEW to, Timeline(ws, from, to),
         tracks.video.packets \in Seq(PacketType), tracks.audio.packets \in Seq(PacketType),
         NEW w \in DOMAIN ws
  PROVE  (CompressedBytes(tracks, ws[w]) * 8 * MillisPerSecond) \div WindowMs(ws[w])
           <= Bandwidth(tracks, ws)
<1> DEFINE N == Len(ws)
           pictures == BytesByWindow(tracks.video.packets, ws)
           sounds == BytesByWindow(tracks.audio.packets, ws)
           rate == [n \in 1 .. N |->
                      ((pictures[n] + sounds[n]) * 8 * MillisPerSecond) \div WindowMs(ws[n])]
           bytes == CompressedBytes(tracks, ws[w])
<1>1. DOMAIN ws = 1 .. N /\ N \in Nat \ {0} /\ w \in 1 .. N
  BY EmptySeq DEF Timeline
<1>2. \A n \in 1 .. N : WindowMs(ws[n]) \in Nat \ {0}
  <2>1. ASSUME NEW n \in 1 .. N PROVE WindowMs(ws[n]) \in Nat \ {0}
    <3>1. ws[n] \in WindowType
      BY DEF Timeline
    <3>2. ws[n].start \in Nat /\ ws[n].end \in Nat
      BY <3>1 DEF WindowType
    <3>3. QED
      BY <3>2 DEF WindowMs, Minus, Larger
  <2>2. QED
    BY <2>1
<1>3. \A n \in 1 .. N : pictures[n] \in Int /\ sounds[n] \in Int
  BY <1>1, BytesCover
<1>4. bytes \in Int /\ bytes <= pictures[w] + sounds[w]
  <2> DEFINE v == PacketsIn(ws[w], tracks.video.packets)
             a == PacketsIn(ws[w], tracks.audio.packets)
             g == [p \in PacketType |-> p.size]
  <2>1. v \in Seq(PacketType) /\ a \in Seq(PacketType)
    BY WindowPackets
  <2>2. g \in [PacketType -> Int] /\ \A p \in PacketType : g[p] = p.size
    BY DEF PacketType
  <2>3. Total([n \in DOMAIN v |-> v[n].size]) <= pictures[w]
    BY <1>1, BytesCover
  <2>4. Total([n \in DOMAIN a |-> a[n].size]) <= sounds[w]
    BY <1>1, BytesCover
  <2>5. bytes = Total([n \in DOMAIN (v \o a) |-> (v \o a)[n].size])
    BY DEF CompressedBytes
  <2> HIDE DEF v, a, g, pictures, sounds, bytes
  <2>6. v \o a \in Seq(PacketType)
    BY <2>1
  <2>7. \A s \in Seq(PacketType) : Along(g, s) = [n \in DOMAIN s |-> s[n].size]
    <3>1. ASSUME NEW s \in Seq(PacketType)
          PROVE  Along(g, s) = [n \in DOMAIN s |-> s[n].size]
      <4>1. \A n \in DOMAIN s : s[n] \in PacketType
        OBVIOUS
      <4>2. QED
        BY <2>2, <4>1 DEF Along
    <3>2. QED
      BY <3>1
  <2>8. bytes = Total(Along(g, v)) + Total(Along(g, a))
    <3>1. bytes = Total(Along(g, v \o a))
      BY <2>5, <2>6, <2>7
    <3>2. QED
      BY <2>1, <2>2, <3>1, AlongConcat
  <2>9. Total(Along(g, v)) <= pictures[w] /\ Total(Along(g, a)) <= sounds[w]
    BY <2>1, <2>3, <2>4, <2>7
  <2>10. Total(Along(g, v)) \in Int /\ Total(Along(g, a)) \in Int
    BY <2>1, <2>2, AlongType, TotalType
  <2>11. QED
    BY <1>1, <1>3, <2>8, <2>9, <2>10
<1> DEFINE peak == Maximum({rate[n] : n \in 1 .. N})
<1>5. Bandwidth(tracks, ws) = Larger(peak + peak \div 10, BandwidthFloor)
  <2>1. {rate[n] : n \in 1 .. N}
          = {((pictures[n] + sounds[n]) * 8 * MillisPerSecond) \div WindowMs(ws[n]) : n \in DOMAIN ws}
    BY <1>1
  <2>2. QED
    BY <2>1, Zenon DEF Bandwidth
<1> HIDE DEF pictures, sounds, bytes, N
<1>6. \A n \in 1 .. N : (pictures[n] + sounds[n]) * 8 * MillisPerSecond \in Int
  BY <1>3 DEF MillisPerSecond
<1>7. rate \in [1 .. N -> Int]
  BY <1>2, <1>6, QuotientGrows
<1>8. (bytes * 8 * MillisPerSecond) \div WindowMs(ws[w]) <= rate[w]
  <2>1. /\ bytes * 8 * MillisPerSecond \in Int
        /\ bytes * 8 * MillisPerSecond <= (pictures[w] + sounds[w]) * 8 * MillisPerSecond
    BY <1>1, <1>3, <1>4 DEF MillisPerSecond
  <2>2. QED
    BY <1>1, <1>2, <1>6, <2>1, QuotientGrows
<1>9. (bytes * 8 * MillisPerSecond) \div WindowMs(ws[w]) \in Int
  <2>1. bytes * 8 * MillisPerSecond \in Int
    BY <1>4 DEF MillisPerSecond
  <2> DEFINE a == bytes * 8 * MillisPerSecond
             d == WindowMs(ws[w])
  <2>2. a \in Int /\ a <= a /\ d \in Nat \ {0}
    BY <1>1, <1>2, <2>1
  <2> HIDE DEF a, d
  <2>3. a \div d \in Int
    BY <2>2, QuotientGrows
  <2>4. QED
    BY <2>3 DEF a, d
<1> HIDE DEF rate
<1>10. peak \in Int /\ rate[w] <= peak /\ rate[w] \in Int
  BY <1>1, <1>7, MaximumIs
<1> HIDE DEF peak
<1>11. QED
  <2> DEFINE few == (bytes * 8 * MillisPerSecond) \div WindowMs(ws[w])
  <2>1. few \in Int /\ few <= peak
    BY <1>8, <1>9, <1>10
  <2> HIDE DEF few
  <2>2. few <= Bandwidth(tracks, ws)
    <3>1. CASE peak >= 0
      BY <1>5, <1>10, <2>1, <3>1 DEF Larger, BandwidthFloor
    <3>2. CASE peak < 0
      BY <1>5, <1>10, <2>1, <3>2 DEF Larger, BandwidthFloor
    <3>3. QED
      BY <1>10, <3>1, <3>2
  <2>3. QED
    BY <2>2 DEF few, bytes

-----------------------------------------------------------------------------
(***************************************************************************)
(* Calls.                                                                  *)
(***************************************************************************)
CallPoints == {"idle", "plan", "init", "mux", "publish", "done", "failed"}
\* A call that writes: it has a plan, which does not change any more.
Writing(k) == pc[k] \in {"init", "mux", "publish"}
SourceType == [stamp : Nat, file : Files]

CallsTyped ==
  /\ pc \in [Writers -> CallPoints]
  /\ current \in SourceType
  /\ DOMAIN job = Writers /\ DOMAIN opened = Writers /\ DOMAIN at = Writers
  /\ DOMAIN until = Writers /\ DOMAIN pending = Writers /\ DOMAIN shown = Writers

Holding(name, content) == name \in DOMAIN disk /\ disk[name] = content

From(k) == IF job[k].op = "vod" THEN 1 ELSE job[k].first + 1
SegmentThere(k, n) ==
  Holding(SegmentName(job[k].format, windows[k][n]), SegmentOf(k, n, opened[k].file))
SegmentsThere(k, to) == \A n \in DOMAIN windows[k] : From(k) <= n /\ n <= to => SegmentThere(k, n)
WithInit(k) == job[k].op = "vod" /\ job[k].format = "m4s"
InitThere(k) == WithInit(k) => Holding(InitName, InitSegment(Selected(k)))

\* The segments a call is to write, and where it is among them.
Ranged(k) ==
  /\ job[k] \in JobType /\ job[k].op # "list" /\ phase[k] = "planned"
  /\ opened[k].file \in Files /\ Playable(opened[k].file)
  /\ at[k] \in DOMAIN windows[k] /\ From(k) <= at[k] /\ at[k] <= until[k]
  /\ until[k] = IF job[k].op = "vod" THEN Len(windows[k])
                ELSE Smaller(job[k].first + job[k].count, Len(windows[k]))

\* What a call is about to publish, and what it has published before.
PendingInit(k) ==
  /\ pending[k] = <<InitName, InitSegment(Selected(k))>>
  /\ WithInit(k) /\ at[k] = 1
PendingSegment(k) ==
  /\ pending[k] = <<SegmentName(job[k].format, windows[k][at[k]]),
                    SegmentOf(k, at[k], opened[k].file)>>
  /\ Muxes(k, at[k]) /\ InitThere(k) /\ SegmentsThere(k, at[k] - 1)
PendingMedia(k) ==
  /\ pending[k] = <<MediaName, MediaPlaylist(k)>>
  /\ job[k].op = "vod" /\ InitThere(k) /\ SegmentsThere(k, until[k])
PendingMaster(k) ==
  /\ pending[k] = <<MasterName, MasterPlaylist(k)>>
  /\ job[k].op = "vod" /\ InitThere(k) /\ SegmentsThere(k, until[k])
  /\ Holding(MediaName, MediaPlaylist(k))

Written(k) ==
  /\ pc[k] = "init" => WithInit(k) /\ at[k] = 1
  /\ pc[k] = "mux" => InitThere(k) /\ SegmentsThere(k, at[k] - 1)
  /\ pc[k] = "publish" => PendingInit(k) \/ PendingSegment(k) \/ PendingMedia(k)
                            \/ PendingMaster(k)

\* A call that returned success after writing.
Delivered(k) ==
  /\ Ranged(k) /\ SegmentsThere(k, until[k])
  /\ job[k].op = "vod" => /\ Holding(MediaName, MediaPlaylist(k))
                          /\ Holding(MasterName, MasterPlaylist(k))

CallAt(k) ==
  /\ pc[k] = "idle" => phase[k] = "idle"
  /\ pc[k] = "plan" => /\ job[k] \in JobType /\ job[k].op # "list"
                       /\ job[k].op = "batch" => job[k].count > 0
                       /\ opened[k].file \in Files /\ Playable(opened[k].file)
                       /\ target[k] > 0
  /\ Writing(k) => Ranged(k) /\ Written(k)
  /\ pc[k] = "done" => phase[k] = "idle" \/ Delivered(k)

IInv ==
  /\ CallsTyped
  /\ \A k \in Writers : CallAt(k)
  /\ PackageComplete

-----------------------------------------------------------------------------
(***************************************************************************)
(* Every call plans as SegmentWindows says.                                *)
(***************************************************************************)
LEMMA StepPlans ==
  ASSUME current \in SourceType, [PackagingNext]_packagingVars
  PROVE  [PlanningNext]_planning /\ current' \in SourceType
<1>1. CASE UNCHANGED packagingVars
  BY <1>1 DEF packagingVars, package
<1>2. ASSUME NEW k \in Writers, Open(k)
      PROVE  [PlanningNext]_planning /\ current' \in SourceType
  <2>1. current' = current
    BY <1>2 DEF Open
  <2>2. PICK j \in Jobs : OpenNothing(k, j) \/ OpenFails(k) \/ OpenPlan(k, j) \/ OpenPlaylist(k, j)
    BY <1>2, Zenon DEF Open
  <2>3. CASE OpenPlan(k, j)
    <3>1. BeginScan(k, TrackSets[current.file].video.packets, j.target)
      BY <2>3 DEF OpenPlan
    <3>2. current.file \in DOMAIN TrackSets
      BY <2>3 DEF OpenPlan, Playable, TrackSets, SourceType
    <3>3. j.target \in Targets /\ TrackSets[current.file].video.packets \in Tracks
      BY <3>2, JobsAssumption, TrackSetsAssumption DEF JobType
    <3>4. k \in Planners /\ phase[k] = "idle"
      BY <3>1 DEF BeginScan, Writers
    <3>5. PlanningNext
      BY <3>1, <3>3, <3>4, Zenon DEF PlanningNext
    <3>6. QED
      BY <2>1, <3>5
  <2>4. CASE OpenNothing(k, j) \/ OpenFails(k) \/ OpenPlaylist(k, j)
    BY <2>1, <2>4 DEF OpenNothing, OpenFails, OpenPlaylist
  <2>5. QED
    BY <2>2, <2>3, <2>4
<1>3. ASSUME NEW k \in Writers, PlanStep(k)
      PROVE  [PlanningNext]_planning /\ current' \in SourceType
  BY <1>3 DEF PlanStep, PlanningNext, Writers, package
<1>4. ASSUME NEW k \in Writers, Start(k) \/ MakeInit(k) \/ Mux(k) \/ Publish(k)
      PROVE  [PlanningNext]_planning /\ current' \in SourceType
  BY <1>4 DEF Start, MakeInit, Mux, Publish, Stay
<1>5. ASSUME NEW k \in Writers, Leave(k)
      PROVE  [PlanningNext]_planning /\ current' \in SourceType
  BY <1>5 DEF Leave, PlanningNext, Writers
<1>6. CASE Replace
  BY <1>6 DEF Replace, SourceType
<1>7. QED
  BY <1>1, <1>2, <1>3, <1>4, <1>5, <1>6 DEF PackagingNext

\* The calls of a package are planners that run at once, over tables that parse.
THEOREM ImplementsPlanning == PackagingSpec => PlanningSpec
<1>1. PackagingInit => PlanningInit /\ current \in SourceType
  BY DEF PackagingInit, SourceType
<1>2. current \in SourceType /\ [PackagingNext]_packagingVars
        => [PlanningNext]_planning /\ (current \in SourceType)'
  BY StepPlans
<1>3. QED
  BY <1>1, <1>2, PTL DEF PackagingSpec, PlanningSpec

\* The windows of every package are a numbered timeline without gap or overlap.
THEOREM PackageTiles == PackagingSpec => []WindowsTile
BY ImplementsPlanning, Tiles, PTL

\* No segment of a package of several is short.
THEOREM PackageLongEnough == PackagingSpec => []NoShortSegment
BY ImplementsPlanning, LongEnough, PTL

\* Every frame of a package's source is in exactly one segment.
THEOREM PackageFramesOnce == PackagingSpec => []EveryFrameOnce
BY ImplementsPlanning, FramesOnce, PTL

-----------------------------------------------------------------------------
(***************************************************************************)
(* The directory only grows, and what a call stands for does not change    *)
(* while it writes.                                                        *)
(***************************************************************************)
Grows == \A name \in DOMAIN disk : name \in DOMAIN disk' /\ disk'[name] = disk[name]

\* The plan and the task of a call.
Settled(j) ==
  /\ job'[j] = job[j] /\ opened'[j] = opened[j] /\ windows'[j] = windows[j]
  /\ phase'[j] = phase[j] /\ target'[j] = target[j]

\* A publication that is allowed takes nothing away.
LEMMA PutGrows ==
  ASSUME NEW name, NEW content, MayPublish(name, content), Put(name, content)
  PROVE  /\ Grows /\ DOMAIN disk' = DOMAIN disk \cup {name}
         /\ disk'[name] = content
BY DEF MayPublish, Put, Grows

\* A file of a call is the same file after a step.
LEMMA FilesKept ==
  ASSUME NEW j \in Writers, Settled(j)
  PROVE  /\ \A n, f : SegmentOf(j, n, f)' = SegmentOf(j, n, f)
         /\ \A n : Muxes(j, n)' <=> Muxes(j, n)
         /\ Selected(j)' = Selected(j) /\ From(j)' = From(j) /\ WithInit(j)' = WithInit(j)
         /\ MediaPlaylist(j)' = MediaPlaylist(j) /\ MasterPlaylist(j)' = MasterPlaylist(j)
<1>1. Selected(j)' = Selected(j)
  BY DEF Settled, Selected
<1>2. ASSUME NEW n, NEW f PROVE SegmentOf(j, n, f)' = SegmentOf(j, n, f)
  BY <1>1 DEF SegmentOf, Settled
<1>2a. ASSUME NEW n PROVE Muxes(j, n)' <=> Muxes(j, n)
  <2>1. /\ job'[j] = job[j] /\ windows'[j] = windows[j]
        /\ SegmentOf(j, n, opened[j].file)' = SegmentOf(j, n, opened[j].file)
    BY <1>2 DEF Settled
  <2>2. QED
    BY <1>1, <2>1 DEF Muxes
<1>3. From(j)' = From(j) /\ WithInit(j)' = WithInit(j)
  BY DEF Settled, From, WithInit
<1>4. MediaPlaylist(j)' = MediaPlaylist(j)
  BY DEF MediaPlaylist, Settled
<1>5. MasterPlaylist(j)' = MasterPlaylist(j)
  BY <1>1 DEF MasterPlaylist, Settled
<1>6. QED
  BY <1>1, <1>2, <1>2a, <1>3, <1>4, <1>5

\* Segments that are there stay there,
LEMMA SegmentsKept ==
  ASSUME NEW j \in Writers, Settled(j), Grows, NEW to, SegmentsThere(j, to)
  PROVE  SegmentsThere(j, to)'
<1>1. ASSUME NEW n \in DOMAIN windows[j], From(j) <= n, n <= to
      PROVE  SegmentThere(j, n)'
  <2> DEFINE name == SegmentName(job[j].format, windows[j][n])
             content == SegmentOf(j, n, opened[j].file)
  <2>1. Holding(name, content)
    BY <1>1 DEF SegmentsThere, SegmentThere
  <2>2. name' = name
    BY DEF Settled
  <2>3. content' = content
    BY FilesKept DEF Settled
  <2> HIDE DEF name, content
  <2>4. name \in DOMAIN disk' /\ disk'[name] = content
    BY <2>1 DEF Grows, Holding
  <2>5. Holding(name, content)'
    BY <2>2, <2>3, <2>4 DEF Holding
  <2>6. QED
    BY <2>5 DEF SegmentThere, name, content
<1>2. QED
  BY <1>1, FilesKept DEF SegmentsThere, Settled

\* as does the init segment,
LEMMA InitKept ==
  ASSUME NEW j \in Writers, Settled(j), Grows, InitThere(j)
  PROVE  InitThere(j)'
<1>1. WithInit(j)' = WithInit(j) /\ InitSegment(Selected(j))' = InitSegment(Selected(j))
  BY FilesKept
<1>2. QED
  BY <1>1 DEF InitThere, Holding, Grows

\* as do both playlists.
LEMMA PlaylistsKept ==
  ASSUME NEW j \in Writers, Settled(j), Grows
  PROVE  /\ Holding(MediaName, MediaPlaylist(j)) => Holding(MediaName, MediaPlaylist(j))'
         /\ Holding(MasterName, MasterPlaylist(j)) => Holding(MasterName, MasterPlaylist(j))'
<1>1. MediaPlaylist(j)' = MediaPlaylist(j) /\ MasterPlaylist(j)' = MasterPlaylist(j)
  BY FilesKept
<1>2. QED
  BY <1>1 DEF Holding, Grows

-----------------------------------------------------------------------------
(***************************************************************************)
(* One call takes a step, the others stay where they are.                  *)
(***************************************************************************)
Stays(j) ==
  /\ Settled(j) /\ pc'[j] = pc[j] /\ at'[j] = at[j] /\ until'[j] = until[j]
  /\ pending'[j] = pending[j]

\* A call that moves neither bound of its range stays in it.
LEMMA RangedKept ==
  ASSUME NEW j \in Writers, Settled(j), at'[j] = at[j], until'[j] = until[j], Ranged(j)
  PROVE  Ranged(j)'
BY FilesKept DEF Ranged, Settled

\* What a call is about to publish is unchanged when others move.
LEMMA PendingKept ==
  ASSUME NEW j \in Writers, Stays(j), Grows
  PROVE  /\ PendingInit(j) => PendingInit(j)'
         /\ PendingSegment(j) => PendingSegment(j)'
         /\ PendingMedia(j) => PendingMedia(j)'
         /\ PendingMaster(j) => PendingMaster(j)'
<1>1. Settled(j) /\ at'[j] = at[j] /\ until'[j] = until[j] /\ pending'[j] = pending[j]
  BY DEF Stays
<1>2. PendingInit(j) => PendingInit(j)'
  <2>1. InitSegment(Selected(j))' = InitSegment(Selected(j)) /\ WithInit(j)' = WithInit(j)
    BY <1>1, FilesKept
  <2>2. QED
    BY <1>1, <2>1 DEF PendingInit
<1>3. ASSUME PendingSegment(j) PROVE PendingSegment(j)'
  <2>1. InitThere(j)' /\ SegmentsThere(j, at[j] - 1)'
    BY <1>1, <1>3, InitKept, SegmentsKept DEF PendingSegment
  <2>2. SegmentOf(j, at[j], opened[j].file)' = SegmentOf(j, at[j], opened[j].file)
    BY <1>1, FilesKept DEF Settled
  <2>2a. Muxes(j, at[j])'
    BY <1>1, <1>3, FilesKept DEF PendingSegment
  <2>3. QED
    BY <1>1, <1>3, <2>1, <2>2, <2>2a DEF PendingSegment, Settled
<1>4. ASSUME PendingMedia(j) PROVE PendingMedia(j)'
  <2>1. InitThere(j)' /\ SegmentsThere(j, until[j])'
    BY <1>1, <1>4, InitKept, SegmentsKept DEF PendingMedia
  <2>2. MediaPlaylist(j)' = MediaPlaylist(j)
    BY <1>1, FilesKept
  <2>3. QED
    BY <1>1, <1>4, <2>1, <2>2 DEF PendingMedia, Settled
<1>5. ASSUME PendingMaster(j) PROVE PendingMaster(j)'
  <2>1. InitThere(j)' /\ SegmentsThere(j, until[j])'
    BY <1>1, <1>5, InitKept, SegmentsKept DEF PendingMaster
  <2>2. MasterPlaylist(j)' = MasterPlaylist(j) /\ Holding(MediaName, MediaPlaylist(j))'
    BY <1>1, <1>5, FilesKept, PlaylistsKept DEF PendingMaster
  <2>3. QED
    BY <1>1, <1>5, <2>1, <2>2 DEF PendingMaster, Settled
<1>6. QED
  BY <1>2, <1>3, <1>4, <1>5

\* So all that is known of a call is kept when others move.
LEMMA StayingKept ==
  ASSUME NEW j \in Writers, Stays(j), Grows, CallAt(j)
  PROVE  CallAt(j)'
<1>1. Settled(j) /\ pc'[j] = pc[j] /\ at'[j] = at[j] /\ until'[j] = until[j]
  BY DEF Stays
<1>2. ASSUME Writing(j) PROVE Ranged(j)' /\ Written(j)'
  <2>1. Ranged(j) /\ Written(j)
    BY <1>2 DEF CallAt
  <2>2. Ranged(j)'
    BY <1>1, <2>1, RangedKept
  <2>3. pc[j] = "init" => WithInit(j)' /\ at'[j] = 1
    BY <1>1, <2>1, FilesKept DEF Written
  <2>4. pc[j] = "mux" => InitThere(j)' /\ SegmentsThere(j, at[j] - 1)'
    BY <1>1, <2>1, InitKept, SegmentsKept DEF Written
  <2>5. pc[j] = "publish" => PendingInit(j)' \/ PendingSegment(j)' \/ PendingMedia(j)'
                               \/ PendingMaster(j)'
    BY <2>1, PendingKept DEF Written
  <2>6. QED
    BY <1>1, <2>2, <2>3, <2>4, <2>5 DEF Written
<1>3. ASSUME Delivered(j) PROVE Delivered(j)'
  <2>1. Ranged(j)'
    BY <1>1, <1>3, RangedKept DEF Delivered
  <2>2. SegmentsThere(j, until[j])'
    BY <1>1, <1>3, SegmentsKept DEF Delivered
  <2>3. job[j].op = "vod" => /\ Holding(MediaName, MediaPlaylist(j))'
                             /\ Holding(MasterName, MasterPlaylist(j))'
    BY <1>1, <1>3, PlaylistsKept DEF Delivered
  <2>4. QED
    BY <1>1, <2>1, <2>2, <2>3 DEF Delivered, Settled
<1>4. QED
  BY <1>1, <1>2, <1>3 DEF CallAt, Writing, Settled

\* A step of one call needs an argument for that call and the directory only.
LEMMA OneMoves ==
  ASSUME IInv, NEW k \in Writers, \A j \in Writers \ {k} : Stays(j), Grows,
         CallsTyped', CallAt(k)', PackageComplete'
  PROVE  IInv'
BY StayingKept DEF IInv

\* A step that publishes nothing leaves every package complete.
LEMMA DirectoryUntouched ==
  ASSUME PackageComplete, disk' = disk, promised' = promised
  PROVE  Grows /\ PackageComplete'
BY DEF Grows, PackageComplete

-----------------------------------------------------------------------------
(***************************************************************************)
(* The steps of a call.                                                    *)
(***************************************************************************)
LEMMA OpenKeeps ==
  ASSUME IInv, PlanInv, NEW k \in Writers, Open(k)
  PROVE  IInv'
<1>1. CallsTyped /\ CallAt(k) /\ PackageComplete
  BY DEF IInv
<1>2. /\ pc[k] = "idle" /\ phase[k] = "idle" /\ current' = current /\ disk' = disk
      /\ promised' = promised /\ at' = at /\ until' = until /\ pending' = pending
      /\ opened' = [opened EXCEPT ![k] = current]
  BY <1>1 DEF Open, CallAt
<1>3. PICK j \in Jobs : /\ job' = [job EXCEPT ![k] = j]
                        /\ \/ OpenNothing(k, j)
                           \/ /\ ~(j.op = "batch" /\ j.count = 0)
                              /\ OpenFails(k) \/ OpenPlan(k, j) \/ OpenPlaylist(k, j)
  BY Zenon DEF Open
<1>4. /\ \E l \in {"done", "failed", "plan"} : pc' = [pc EXCEPT ![k] = l]
      /\ DOMAIN shown' = DOMAIN shown
      /\ \/ UNCHANGED planning
         \/ BeginScan(k, TrackSets[current.file].video.packets, j.target)
  BY <1>3 DEF OpenNothing, OpenFails, OpenPlan, OpenPlaylist, Goto
<1>5. CallsTyped'
  BY <1>1, <1>2, <1>3, <1>4 DEF CallsTyped, CallPoints
<1>6. ASSUME NEW w \in Writers \ {k} PROVE Stays(w)
  <2>1. pc'[w] = pc[w] /\ job'[w] = job[w] /\ opened'[w] = opened[w]
    BY <1>1, <1>2, <1>3, <1>4 DEF CallsTyped
  <2>2. windows'[w] = windows[w] /\ phase'[w] = phase[w] /\ target'[w] = target[w]
    BY <1>4 DEF planning, BeginScan, PlanInv, PlanTypeOK, Writers
  <2>3. QED
    BY <1>2, <2>1, <2>2 DEF Stays, Settled
<1>7. CallAt(k)'
  <2>1. j \in JobType /\ job'[k] = j
    BY <1>1, <1>3, JobsAssumption DEF CallsTyped
  <2>2. CASE OpenPlan(k, j)
    <3>1. j.op # "list" /\ pc'[k] = "plan"
      BY <1>1, <2>2 DEF OpenPlan, Goto, CallsTyped
    <3>2. ~OpenNothing(k, j)
      BY <1>1, <3>1 DEF OpenNothing, Goto, CallsTyped
    <3>3. j.op = "batch" => j.count > 0
      BY <1>3, <2>1, <3>2 DEF JobType
    <3>4. opened'[k].file \in Files /\ Playable(opened'[k].file)
      BY <1>1, <1>2, <2>2 DEF OpenPlan, CallsTyped, SourceType
    <3>5. target'[k] > 0
      <4>1. j.target \in Nat
        BY <2>1, TargetsAssumption DEF JobType
      <4>2. target'[k] = Larger(j.target, MinTargetMs)
        BY <2>2 DEF OpenPlan, BeginScan, PlanInv, PlanTypeOK, Writers
      <4>3. QED
        BY <4>1, <4>2 DEF Larger, MinTargetMs
    <3>6. QED
      BY <2>1, <3>1, <3>3, <3>4, <3>5 DEF CallAt, Writing, Playable
  <2>3. CASE OpenNothing(k, j) \/ OpenPlaylist(k, j)
    <3>1. pc'[k] = "done" /\ phase'[k] = "idle"
      BY <1>1, <1>2, <2>3 DEF OpenNothing, OpenPlaylist, Goto, CallsTyped, planning
    <3>2. QED
      BY <3>1 DEF CallAt, Writing
  <2>4. CASE OpenFails(k)
    <3>1. pc'[k] = "failed"
      BY <1>1, <2>4 DEF OpenFails, Goto, CallsTyped
    <3>2. QED
      BY <3>1 DEF CallAt, Writing
  <2>5. QED
    BY <1>3, <2>2, <2>3, <2>4
<1>8. QED
  BY <1>1, <1>2, <1>5, <1>6, <1>7, OneMoves, DirectoryUntouched

\* A call plans at no other point than "plan".
LEMMA PlanStepKeeps ==
  ASSUME IInv, PlanInv, NEW k \in Writers, PlanStep(k)
  PROVE  IInv'
<1>1. CallsTyped /\ CallAt(k) /\ PackageComplete
  BY DEF IInv
<1>2. UNCHANGED package /\ (Scan(k) \/ CutLast(k) \/ Collapse(k) \/ Plan(k))
  BY DEF PlanStep
<1>3. phase[k] \in {"scan", "collapse"}
  BY <1>2 DEF Scan, CutLast, Collapse, Plan
<1>4. pc[k] \in {"plan", "failed"}
  BY <1>1, <1>3 DEF CallAt, Writing, CallsTyped, CallPoints, Ranged, Delivered
<1>5. CallsTyped' /\ pc' = pc /\ job' = job /\ disk' = disk /\ promised' = promised
  BY <1>1, <1>2 DEF package, CallsTyped
<1>6. CallAt(k)'
  <2>1. opened' = opened /\ target' = target
    BY <1>2 DEF package, Scan, CutLast, Collapse, Plan
  <2>2. QED
    BY <1>1, <1>4, <1>5, <2>1 DEF CallAt, Writing, Playable
<1>7. ASSUME NEW w \in Writers \ {k} PROVE Stays(w)
  <2>1. windows'[w] = windows[w] /\ phase'[w] = phase[w] /\ target'[w] = target[w]
    BY <1>2 DEF Scan, CutLast, Collapse, Plan, PlanInv, PlanTypeOK, Writers
  <2>2. QED
    BY <1>2, <2>1 DEF package, Stays, Settled
<1>8. QED
  BY <1>1, <1>5, <1>6, <1>7, OneMoves, DirectoryUntouched

\* The steps that only choose what comes next: the directory is left alone.
LEMMA ChoiceKeeps ==
  ASSUME IInv, NEW k \in Writers, NEW l \in CallPoints, pc' = [pc EXCEPT ![k] = l],
         UNCHANGED <<current, runs, job, opened, shown, disk, promised, planning>>,
         DOMAIN at' = Writers, DOMAIN until' = Writers, DOMAIN pending' = Writers,
         \A w \in Writers \ {k} : /\ at'[w] = at[w] /\ until'[w] = until[w]
                                  /\ pending'[w] = pending[w],
         CallAt(k)'
  PROVE  IInv'
<1>1. CallsTyped /\ PackageComplete
  BY DEF IInv
<1>2. CallsTyped'
  BY <1>1 DEF CallsTyped
<1>3. \A w \in Writers \ {k} : Stays(w)
  BY <1>1 DEF CallsTyped, Stays, Settled, planning
<1>4. QED
  BY <1>1, <1>2, <1>3, OneMoves, DirectoryUntouched

\* What is known of the windows of a plan.
LEMMA PlanOf ==
  ASSUME PlanInv, NEW k \in Writers, phase[k] = "planned"
  PROVE  Len(windows[k]) \in Nat \ {0} /\ DOMAIN windows[k] = 1 .. Len(windows[k])
BY PlanShape DEF Writers

\* A call begins its work with nothing published.
LEMMA StartKeeps ==
  ASSUME IInv, PlanInv, NEW k \in Writers, Start(k)
  PROVE  IInv'
<1>1. /\ CallsTyped /\ CallAt(k) /\ pc[k] = "plan" /\ phase[k] = "planned"
      /\ Len(windows[k]) \in Nat \ {0} /\ DOMAIN windows[k] = 1 .. Len(windows[k])
  BY PlanOf DEF IInv, Start
<1>2. /\ job[k] \in JobType /\ job[k].op # "list"
      /\ job[k].op = "batch" => job[k].count > 0
      /\ opened[k].file \in Files /\ Playable(opened[k].file)
  BY <1>1 DEF CallAt
<1>3. UNCHANGED <<current, runs, job, opened, shown, disk, promised, planning, pending>>
  BY DEF Start, Stay
<1>4. windows' = windows /\ phase' = phase
  BY <1>3 DEF planning
<1>5. From(k)' = From(k) /\ WithInit(k)' = WithInit(k)
  BY <1>3 DEF From, WithInit
<1>6. CASE job[k].op = "vod"
  <2> DEFINE l == IF job[k].format = "m4s" THEN "init" ELSE "mux"
  <2>1. /\ at' = [at EXCEPT ![k] = 1] /\ until' = [until EXCEPT ![k] = Len(windows[k])]
        /\ pc' = [pc EXCEPT ![k] = l]
    BY <1>6 DEF Start, Goto
  <2>2. at'[k] = 1 /\ until'[k] = Len(windows[k]) /\ pc'[k] = l /\ From(k) = 1
    BY <1>1, <1>6, <2>1 DEF CallsTyped, From
  <2>3. Ranged(k)'
    BY <1>1, <1>2, <1>3, <1>4, <1>5, <1>6, <2>2 DEF Ranged
  <2>4. l = "init" => WithInit(k)'
    BY <1>5, <1>6 DEF WithInit
  <2>5. l = "mux" => InitThere(k)' /\ SegmentsThere(k, 0)'
    <3>1. l = "mux" => ~WithInit(k)'
      BY <1>5, <1>6 DEF WithInit
    <3>2. SegmentsThere(k, 0)'
      BY <1>1, <1>4, <1>5, <2>2 DEF SegmentsThere
    <3>3. QED
      BY <3>1, <3>2 DEF InitThere
  <2>6. CallAt(k)'
    BY <2>2, <2>3, <2>4, <2>5 DEF CallAt, Writing, Written
  <2>7. QED
    BY <1>1, <1>3, <2>1, <2>6, ChoiceKeeps DEF CallsTyped, CallPoints
<1>7. CASE job[k].op # "vod" /\ job[k].first >= Len(windows[k])
  <2>1. pc' = [pc EXCEPT ![k] = "failed"] /\ UNCHANGED <<at, until>>
    BY <1>7 DEF Start, Goto
  <2>2. CallAt(k)'
    BY <1>1, <2>1 DEF CallsTyped, CallAt, Writing
  <2>3. QED
    BY <1>1, <1>3, <2>1, <2>2, ChoiceKeeps DEF CallsTyped, CallPoints
<1>8. CASE job[k].op # "vod" /\ ~(job[k].first >= Len(windows[k]))
  <2> DEFINE first == job[k].first + 1
             last == Smaller(job[k].first + job[k].count, Len(windows[k]))
  <2>1. /\ at' = [at EXCEPT ![k] = first] /\ until' = [until EXCEPT ![k] = last]
        /\ pc' = [pc EXCEPT ![k] = "mux"]
    BY <1>8 DEF Start, Goto
  <2>2. at'[k] = first /\ until'[k] = last /\ pc'[k] = "mux" /\ From(k) = first
    BY <1>1, <1>8, <2>1 DEF CallsTyped, From
  <2>3. job[k].first \in Nat /\ job[k].count \in Nat /\ job[k].count > 0
    BY <1>2, <1>8 DEF JobType
  <2>4. first \in 1 .. Len(windows[k]) /\ first <= last
    BY <1>1, <1>8, <2>3 DEF Smaller
  <2>5. Ranged(k)'
    BY <1>1, <1>2, <1>3, <1>4, <1>5, <1>8, <2>2, <2>4 DEF Ranged
  <2>6. InitThere(k)' /\ SegmentsThere(k, at[k] - 1)'
    <3>1. ~WithInit(k)'
      BY <1>5, <1>8 DEF WithInit
    <3>2. \A n \in DOMAIN windows[k] : ~(first <= n /\ n <= first - 1)
      BY <1>1, <2>4
    <3>3. SegmentsThere(k, at[k] - 1)'
      BY <1>4, <1>5, <2>2, <3>2 DEF SegmentsThere
    <3>4. QED
      BY <3>1, <3>3 DEF InitThere
  <2>7. CallAt(k)'
    BY <2>2, <2>5, <2>6 DEF CallAt, Writing, Written
  <2>8. QED
    BY <1>1, <1>3, <2>1, <2>7, ChoiceKeeps DEF CallsTyped, CallPoints
<1>9. QED
  BY <1>6, <1>7, <1>8

\* The init segment is built, or the call fails.
LEMMA MakeInitKeeps ==
  ASSUME IInv, NEW k \in Writers, MakeInit(k)
  PROVE  IInv'
<1>1. CallsTyped /\ CallAt(k) /\ pc[k] = "init"
  BY DEF IInv, MakeInit
<1>2. Ranged(k) /\ WithInit(k) /\ at[k] = 1
  BY <1>1 DEF CallAt, Writing, Written
<1>3. UNCHANGED <<current, runs, job, opened, shown, disk, promised, planning, at, until>>
  BY DEF MakeInit, Stay
<1>4. CASE /\ pending' = [pending EXCEPT ![k] = <<InitName, InitSegment(Selected(k))>>]
           /\ pc' = [pc EXCEPT ![k] = "publish"]
  <2>1. /\ pc'[k] = "publish" /\ Settled(k)
        /\ pending'[k] = <<InitName, InitSegment(Selected(k))>>
    BY <1>1, <1>3, <1>4 DEF CallsTyped, Settled, planning
  <2>2. Ranged(k)' /\ WithInit(k)' /\ InitSegment(Selected(k))' = InitSegment(Selected(k))
    BY <1>2, <1>3, <2>1, RangedKept, FilesKept
  <2>3. PendingInit(k)'
    BY <1>2, <1>3, <2>1, <2>2 DEF PendingInit
  <2>4. CallAt(k)'
    BY <2>1, <2>2, <2>3 DEF CallAt, Writing, Written
  <2>5. QED
    BY <1>1, <1>3, <1>4, <2>4, ChoiceKeeps DEF CallsTyped, CallPoints
<1>5. CASE pc' = [pc EXCEPT ![k] = "failed"] /\ pending' = pending
  <2>1. CallAt(k)'
    BY <1>1, <1>5 DEF CallsTyped, CallAt, Writing
  <2>2. QED
    BY <1>1, <1>3, <1>5, <2>1, ChoiceKeeps DEF CallsTyped, CallPoints
<1>6. QED
  BY <1>4, <1>5 DEF MakeInit, Made, Goto

\* A segment is cut from the source that was opened, although it is read now.
LEMMA MuxKeeps ==
  ASSUME IInv, NEW k \in Writers, Mux(k)
  PROVE  IInv'
<1>1. CallsTyped /\ CallAt(k) /\ pc[k] = "mux"
  BY DEF IInv, Mux
<1>2. Ranged(k) /\ InitThere(k) /\ SegmentsThere(k, at[k] - 1)
  BY <1>1 DEF CallAt, Writing, Written
<1>3. UNCHANGED <<current, runs, job, opened, shown, disk, promised, planning, at, until>>
  BY DEF Mux, Stay
<1> DEFINE file == <<SegmentName(job[k].format, windows[k][at[k]]),
                     SegmentOf(k, at[k], opened[k].file)>>
<1>4. CASE /\ pending' = [pending EXCEPT ![k] = file] /\ Muxes(k, at[k])
           /\ pc' = [pc EXCEPT ![k] = "publish"]
  <2>1. pc'[k] = "publish" /\ Settled(k) /\ Grows /\ pending'[k] = file
    BY <1>1, <1>3, <1>4 DEF CallsTyped, Settled, planning, Grows
  <2>2. Ranged(k)' /\ InitThere(k)' /\ SegmentsThere(k, at[k] - 1)'
    BY <1>2, <1>3, <2>1, RangedKept, InitKept, SegmentsKept
  <2>3. file' = file
    BY <1>3, <2>1, FilesKept DEF Settled
  <2>3a. Muxes(k, at[k])'
    BY <1>3, <1>4, <2>1, FilesKept
  <2>4. PendingSegment(k)'
    BY <1>3, <2>1, <2>2, <2>3, <2>3a DEF PendingSegment
  <2>5. CallAt(k)'
    BY <2>1, <2>2, <2>4 DEF CallAt, Writing, Written
  <2>6. QED
    BY <1>1, <1>3, <1>4, <2>5, ChoiceKeeps DEF CallsTyped, CallPoints
<1>5. CASE pc' = [pc EXCEPT ![k] = "failed"] /\ pending' = pending
  <2>1. CallAt(k)'
    BY <1>1, <1>5 DEF CallsTyped, CallAt, Writing
  <2>2. QED
    BY <1>1, <1>3, <1>5, <2>1, ChoiceKeeps DEF CallsTyped, CallPoints
<1>6. SourceSame(k) => current.file = opened[k].file
  BY DEF SourceSame
<1>7. QED
  BY <1>4, <1>5, <1>6 DEF Mux, Made, Goto

-----------------------------------------------------------------------------
(***************************************************************************)
(* A publication.                                                          *)
(***************************************************************************)
\* The names of the files of a package are told apart.
LEMMA Names ==
  ASSUME NEW format \in {"ts", "m4s"}, NEW w
  PROVE  /\ Segmental(SegmentName(format, w)) /\ ~Segmental(InitName)
         /\ ~Segmental(MediaName) /\ ~Segmental(MasterName)
         /\ SegmentName(format, w) # InitName /\ SegmentName(format, w) # MediaName
         /\ SegmentName(format, w) # MasterName
         /\ InitName # MediaName /\ InitName # MasterName /\ MediaName # MasterName
BY DEF Segmental, SegmentName, InitName, MediaName, MasterName

\* The call's file is at its path; the call keeps its task and its plan.
Puts(k) ==
  /\ Grows /\ Settled(k) /\ until'[k] = until[k]
  /\ pending[k][1] \in DOMAIN disk' /\ disk'[pending[k][1]] = pending[k][2]

\* After the init segment the first segment is due,
LEMMA InitPublished ==
  ASSUME CallsTyped, PlanInv, NEW k \in Writers, Ranged(k), PendingInit(k), Puts(k),
         Proceed(k, InitName)
  PROVE  CallAt(k)'
<1>1. ToSegment(k, InitName)
  BY Names DEF Proceed, Return, ToPlaylist, LastOne
<1>2. at'[k] = at[k] /\ pc'[k] = "mux" /\ at[k] = 1
  BY <1>1 DEF ToSegment, Goto, CallsTyped, PendingInit
<1>3. Ranged(k)'
  BY <1>2, RangedKept DEF Puts
<1>4. InitThere(k)'
  <2>1. InitSegment(Selected(k))' = InitSegment(Selected(k))
    BY FilesKept DEF Puts
  <2>2. InitName \in DOMAIN disk' /\ disk'[InitName] = InitSegment(Selected(k))
    BY DEF Puts, PendingInit
  <2>3. QED
    BY <2>1, <2>2 DEF InitThere, Holding
<1>5. SegmentsThere(k, 0)'
  <2>1. From(k)' = 1
    BY FilesKept DEF From, Puts, PendingInit, WithInit
  <2>2. DOMAIN windows'[k] \subseteq Nat
    BY PlanOf DEF Ranged, Puts, Settled
  <2>3. QED
    BY <2>1, <2>2 DEF SegmentsThere
<1>6. QED
  BY <1>2, <1>3, <1>4, <1>5 DEF CallAt, Writing, Written

\* after a segment the next one, or the media playlist, or nothing more,
LEMMA SegmentPublished ==
  ASSUME CallsTyped, PlanInv, NEW k \in Writers, Ranged(k), PendingSegment(k), Puts(k),
         Proceed(k, SegmentName(job[k].format, windows[k][at[k]]))
  PROVE  CallAt(k)'
<1> DEFINE name == SegmentName(job[k].format, windows[k][at[k]])
<1>1. /\ Segmental(name) /\ name # InitName /\ name # MediaName /\ name # MasterName
  BY Names DEF Ranged, JobType
<1>2. /\ DOMAIN windows[k] = 1 .. Len(windows[k]) /\ Len(windows[k]) \in Nat
      /\ at[k] \in 1 .. Len(windows[k]) /\ until[k] \in Nat /\ until[k] <= Len(windows[k])
  BY PlanOf DEF Ranged, JobType, Smaller
<1>3. windows'[k] = windows[k] /\ job'[k] = job[k] /\ until'[k] = until[k]
  BY DEF Puts, Settled
<1>4. InitThere(k)' /\ SegmentsThere(k, at[k] - 1) /\ From(k)' = From(k)
  BY InitKept, FilesKept DEF Puts, PendingSegment
\* The segment joins those before it.
<1>5. \A n \in DOMAIN windows[k] : From(k) <= n /\ n <= at[k] => SegmentThere(k, n)'
  <2>1. ASSUME NEW n \in DOMAIN windows[k], From(k) <= n, n <= at[k]
        PROVE  SegmentThere(k, n)'
    <3>1. SegmentOf(k, n, opened[k].file)' = SegmentOf(k, n, opened[k].file)
      BY FilesKept DEF Puts, Settled
    <3>2. CASE n = at[k]
      <4>1. /\ SegmentName(job[k].format, windows[k][n]) \in DOMAIN disk'
            /\ disk'[SegmentName(job[k].format, windows[k][n])]
                 = SegmentOf(k, n, opened[k].file)
        BY <3>2 DEF Puts, PendingSegment
      <4>2. QED
        BY <1>3, <3>1, <4>1 DEF SegmentThere, Holding
    <3>3. CASE n # at[k]
      <4>1. n <= at[k] - 1
        BY <1>2, <2>1, <3>3
      <4>2. SegmentThere(k, n)
        BY <1>4, <2>1, <4>1 DEF SegmentsThere
      <4>3. QED
        BY <1>3, <3>1, <4>2 DEF SegmentThere, Holding, Puts, Grows
    <3>4. QED
      BY <3>2, <3>3
  <2>2. QED
    BY <2>1
<1> HIDE DEF name
<1>6. CASE ToSegment(k, name)
  <2>1. /\ at[k] < until[k] /\ at'[k] = at[k] + 1 /\ pc'[k] = "mux"
    BY <1>1, <1>6 DEF ToSegment, Goto, CallsTyped
  <2>2. Ranged(k)'
    <3>1. at'[k] \in DOMAIN windows[k] /\ From(k) <= at'[k] /\ at'[k] <= until[k]
      BY <1>2, <2>1 DEF Ranged, From, JobType
    <3>2. QED
      BY <1>3, <1>4, <3>1 DEF Ranged, Puts, Settled
  <2>3. SegmentsThere(k, at[k] - 1)'
    <3>1. at'[k] - 1 = at[k]
      BY <1>2, <2>1
    <3>2. QED
      BY <1>3, <1>4, <1>5, <3>1 DEF SegmentsThere
  <2>4. QED
    BY <1>4, <2>1, <2>2, <2>3 DEF CallAt, Writing, Written
<1>7. ASSUME LastOne(k, name), at'[k] = at[k]
      PROVE  Ranged(k)' /\ SegmentsThere(k, until[k])'
  <2>1. until[k] = at[k]
    BY <1>2, <1>7 DEF LastOne, Ranged
  <2>2. SegmentsThere(k, until[k])'
    BY <1>3, <1>4, <1>5, <2>1 DEF SegmentsThere
  <2>3. QED
    BY <1>3, <1>7, <2>2, RangedKept DEF Puts
<1>8. CASE Return(k, name)
  <2>1. /\ LastOne(k, name) /\ job[k].op = "batch" /\ at'[k] = at[k] /\ pc'[k] = "done"
    BY <1>1, <1>8 DEF Return, Goto, CallsTyped
  <2>2. Delivered(k)'
    BY <1>3, <1>7, <2>1 DEF Delivered
  <2>3. QED
    BY <2>1, <2>2 DEF CallAt, Writing
<1>9. CASE ToPlaylist(k, name)
  <2>1. /\ LastOne(k, name) /\ job[k].op = "vod" /\ at'[k] = at[k] /\ pc'[k] = "publish"
        /\ pending'[k] = <<MediaName, MediaPlaylist(k)>>
    BY <1>1, <1>9 DEF ToPlaylist, Made, Goto, CallsTyped
  <2>2. PendingMedia(k)'
    <3>1. MediaPlaylist(k)' = MediaPlaylist(k)
      BY FilesKept DEF Puts
    <3>2. QED
      BY <1>3, <1>4, <1>7, <2>1, <3>1 DEF PendingMedia
  <2>3. QED
    BY <1>7, <2>1, <2>2 DEF CallAt, Writing, Written
<1>10. QED
  BY <1>6, <1>8, <1>9 DEF Proceed, name

\* after the media playlist the master playlist,
LEMMA MediaPublished ==
  ASSUME CallsTyped, NEW k \in Writers, Ranged(k), PendingMedia(k), Puts(k),
         Proceed(k, MediaName)
  PROVE  CallAt(k)'
<1>1. ToPlaylist(k, MediaName)
  BY Names DEF Proceed, Return, ToSegment, LastOne
<1>2. /\ at'[k] = at[k] /\ pc'[k] = "publish" /\ until'[k] = until[k]
      /\ pending'[k] = <<MasterName, MasterPlaylist(k)>>
  BY <1>1, Names DEF ToPlaylist, LastOne, Made, Goto, CallsTyped, Puts
<1>3. Ranged(k)' /\ InitThere(k)' /\ SegmentsThere(k, until[k])'
  BY <1>2, RangedKept, InitKept, SegmentsKept DEF Puts, PendingMedia
<1>4. MediaPlaylist(k)' = MediaPlaylist(k) /\ MasterPlaylist(k)' = MasterPlaylist(k)
  BY FilesKept DEF Puts
<1>5. Holding(MediaName, MediaPlaylist(k))'
  BY <1>4 DEF Puts, PendingMedia, Holding
<1>6. PendingMaster(k)'
  BY <1>2, <1>3, <1>4, <1>5 DEF PendingMaster, PendingMedia, Puts, Settled
<1>7. QED
  BY <1>2, <1>3, <1>6 DEF CallAt, Writing, Written

\* and after that the call is done.
LEMMA MasterPublished ==
  ASSUME CallsTyped, NEW k \in Writers, Ranged(k), PendingMaster(k), Puts(k),
         Proceed(k, MasterName)
  PROVE  CallAt(k)'
<1>1. Return(k, MasterName)
  BY Names DEF Proceed, ToPlaylist, ToSegment, LastOne
<1>2. at'[k] = at[k] /\ pc'[k] = "done" /\ until'[k] = until[k]
  BY <1>1 DEF Return, Goto, CallsTyped, Puts
<1>3. Ranged(k)' /\ SegmentsThere(k, until[k])'
  BY <1>2, RangedKept, SegmentsKept DEF Puts, PendingMaster
<1>4. Holding(MediaName, MediaPlaylist(k))'
  BY PlaylistsKept DEF Puts, PendingMaster
<1>5. MasterPlaylist(k)' = MasterPlaylist(k)
  BY FilesKept DEF Puts
<1>6. Holding(MasterName, MasterPlaylist(k))'
  BY <1>5 DEF Puts, PendingMaster, Holding
<1>7. Delivered(k)'
  BY <1>2, <1>3, <1>4, <1>6 DEF Delivered
<1>8. QED
  BY <1>2, <1>7 DEF CallAt, Writing

\* Before a media playlist is published, all it promises is there.
LEMMA PackageThere ==
  ASSUME PlanInv, NEW k \in Writers, Ranged(k), PendingMedia(k)
  PROVE  \A n \in DOMAIN PackageOf(k) : Holding(PackageOf(k)[n][1], PackageOf(k)[n][2])
<1> DEFINE segments == [n \in DOMAIN windows[k] |->
                          <<SegmentName(job[k].format, windows[k][n]),
                            SegmentOf(k, n, opened[k].file)>>]
           first == <<InitName, InitSegment(Selected(k))>>
<1>1. /\ DOMAIN windows[k] = 1 .. Len(windows[k]) /\ Len(windows[k]) \in Nat
      /\ From(k) = 1 /\ until[k] = Len(windows[k])
  BY PlanOf DEF Ranged, PendingMedia, From
<1>2. \A n \in DOMAIN segments : Holding(segments[n][1], segments[n][2])
  BY <1>1 DEF PendingMedia, SegmentsThere, SegmentThere
<1>3. CASE job[k].format = "ts"
  BY <1>2, <1>3 DEF PackageOf
<1>4. CASE job[k].format # "ts"
  <2>1. PackageOf(k) = <<first>> \o segments
    BY <1>4 DEF PackageOf
  <2>2. segments \in Seq({segments[n] : n \in 1 .. Len(windows[k])})
    <3> DEFINE N == Len(windows[k])
               contents == {segments[n] : n \in 1 .. N}
    <3>1. N \in Nat /\ DOMAIN segments = 1 .. N /\ segments = [n \in 1 .. N |-> segments[n]]
      BY <1>1
    <3> HIDE DEF segments, N
    <3>2. segments \in [1 .. N -> contents]
      BY <3>1
    <3>3. segments \in Seq(contents)
      BY <3>1, <3>2, SeqDef
    <3>4. QED
      BY <3>3 DEF N
  <2>3. Holding(first[1], first[2])
    BY <1>4 DEF PendingMedia, InitThere, WithInit, Ranged, JobType
  <2> HIDE DEF segments, first
  <2>4. \A n \in DOMAIN PackageOf(k) : PackageOf(k)[n] = first
                                         \/ \E m \in DOMAIN segments : PackageOf(k)[n] = segments[m]
    BY <2>1, <2>2
  <2>5. QED
    BY <1>2, <2>3, <2>4
<1>5. QED
  BY <1>3, <1>4

\* The promise of a media playlist is made when all of it is there, and kept.
LEMMA PromiseKept ==
  ASSUME IInv, PlanInv, NEW k \in Writers, Ranged(k), Written(k), pc[k] = "publish",
         MayPublish(pending[k][1], pending[k][2]), Put(pending[k][1], pending[k][2]),
         promised' = IF pending[k][1] = MediaName /\ pending[k][1] \in DOMAIN disk' \ DOMAIN disk
                     THEN PackageOf(k) ELSE promised
  PROVE  PackageComplete'
<1> DEFINE name == pending[k][1]
           content == pending[k][2]
<1>1. Grows /\ DOMAIN disk' = DOMAIN disk \cup {name}
  <2>1. MayPublish(name, content) /\ Put(name, content)
    OBVIOUS
  <2> HIDE DEF name, content
  <2>2. QED
    BY <2>1, PutGrows
<1>2. PackageComplete
  BY DEF IInv
<1>3. name = MediaName => PendingMedia(k)
  BY Names DEF Written, Ranged, JobType, PendingInit, PendingSegment, PendingMaster
<1>4. name = MasterName => PendingMaster(k)
  BY Names DEF Written, Ranged, JobType, PendingInit, PendingSegment, PendingMedia
<1>5. CASE name = MediaName /\ name \in DOMAIN disk' \ DOMAIN disk
  <2>1. promised' = PackageOf(k) /\ MediaName \in DOMAIN disk'
    BY <1>5
  <2>2. \A n \in DOMAIN PackageOf(k) : Holding(PackageOf(k)[n][1], PackageOf(k)[n][2])
    BY <1>3, <1>5, PackageThere
  <2>3. QED
    BY <1>1, <2>1, <2>2 DEF PackageComplete, Holding, Grows
<1>6. CASE ~(name = MediaName /\ name \in DOMAIN disk' \ DOMAIN disk)
  <2>1. promised' = promised /\ (MediaName \in DOMAIN disk' => MediaName \in DOMAIN disk)
    BY <1>1, <1>6
  <2>2. MasterName \in DOMAIN disk' => MediaName \in DOMAIN disk'
    <3>1. CASE name = MasterName
      BY <1>1, <1>4, <3>1 DEF PendingMaster, Holding, Grows
    <3>2. CASE name # MasterName
      BY <1>1, <1>2, <3>2 DEF PackageComplete, Grows
    <3>3. QED
      BY <3>1, <3>2
  <2> HIDE DEF name
  <2>3. QED
    BY <1>1, <1>2, <2>1, <2>2 DEF PackageComplete, Grows
<1>7. QED
  BY <1>5, <1>6

\* A publication keeps the invariant, whatever was published.
LEMMA PublishKeeps ==
  ASSUME IInv, PlanInv, NEW k \in Writers, Publish(k)
  PROVE  IInv'
<1> DEFINE name == pending[k][1]
           content == pending[k][2]
           grown == /\ Grows /\ DOMAIN disk' = DOMAIN disk \cup {name}
                    /\ disk'[name] = content
<1>1. CallsTyped /\ CallAt(k) /\ pc[k] = "publish"
  BY DEF IInv, Publish
<1>2. Ranged(k) /\ Written(k)
  BY <1>1 DEF CallAt, Writing
<1>3. UNCHANGED <<current, runs, job, opened, shown, until, planning>>
  BY DEF Publish, Stay
<1>4. Settled(k)
  BY <1>3 DEF Settled, planning
<1>5. promised' = IF name = MediaName /\ name \in DOMAIN disk' \ DOMAIN disk
                  THEN PackageOf(k) ELSE promised
  BY DEF Publish
<1>5a. ASSUME MayPublish(name, content), Put(name, content) PROVE grown
  <2> HIDE DEF name, content
  <2>1. QED
    BY <1>5a, PutGrows
\* Both ways to go on, and the two failures.
<1>6. CASE MayPublish(name, content) /\ Put(name, content) /\ Proceed(k, name)
  <2>1. Puts(k)
    BY <1>3, <1>4, <1>5a, <1>6 DEF Puts
  <2>2. CallAt(k)'
    <3>1. CASE PendingInit(k)
      BY <1>1, <1>2, <1>6, <2>1, <3>1, InitPublished DEF PendingInit
    <3>2. CASE PendingSegment(k)
      BY <1>1, <1>2, <1>6, <2>1, <3>2, SegmentPublished DEF PendingSegment
    <3>3. CASE PendingMedia(k)
      BY <1>1, <1>2, <1>6, <2>1, <3>3, MediaPublished DEF PendingMedia
    <3>4. CASE PendingMaster(k)
      BY <1>1, <1>2, <1>6, <2>1, <3>4, MasterPublished DEF PendingMaster
    <3>5. QED
      BY <1>1, <1>2, <3>1, <3>2, <3>3, <3>4 DEF Written
  <2>3. /\ \E l \in CallPoints : pc' = [pc EXCEPT ![k] = l]
        /\ DOMAIN at' = Writers /\ DOMAIN pending' = Writers
        /\ \A w \in Writers \ {k} : at'[w] = at[w] /\ pending'[w] = pending[w]
    BY <1>1, <1>6 DEF Proceed, Return, ToPlaylist, ToSegment, Made, Goto, CallsTyped, CallPoints
  <2>4. CallsTyped' /\ \A w \in Writers \ {k} : Stays(w)
    BY <1>1, <1>3, <2>3 DEF CallsTyped, Stays, Settled, planning
  <2>5. PackageComplete'
    BY <1>1, <1>2, <1>5, <1>6, PromiseKept
  <2>6. QED
    BY <2>1, <2>2, <2>4, <2>5, OneMoves DEF Puts
<1>7. CASE /\ MayPublish(name, content) /\ Put(name, content)
           /\ Goto(k, "failed") /\ UNCHANGED <<at, pending>>
  <2>1. CallAt(k)' /\ CallsTyped' /\ \A w \in Writers \ {k} : Stays(w)
    BY <1>1, <1>3, <1>7 DEF Goto, CallsTyped, CallPoints, CallAt, Writing, Stays, Settled, planning
  <2>2. PackageComplete' /\ Grows
    BY <1>1, <1>2, <1>5, <1>5a, <1>7, PromiseKept
  <2>3. QED
    BY <2>1, <2>2, OneMoves
<1>8. CASE Goto(k, "failed") /\ UNCHANGED <<at, pending, disk>>
  <2>1. CallAt(k)' /\ CallsTyped' /\ \A w \in Writers \ {k} : Stays(w)
    BY <1>1, <1>3, <1>8 DEF Goto, CallsTyped, CallPoints, CallAt, Writing, Stays, Settled, planning
  <2>2. promised' = promised
    BY <1>5, <1>8
  <2>3. QED
    BY <1>8, <2>1, <2>2, OneMoves, DirectoryUntouched DEF IInv
<1>9. QED
  BY <1>6, <1>7, <1>8 DEF Publish

\* A call that ends leaves what it published behind.
LEMMA LeaveKeeps ==
  ASSUME IInv, PlanInv, NEW k \in Writers, Leave(k)
  PROVE  IInv'
<1>1. CallsTyped /\ PackageComplete /\ PlanTypeOK
  BY DEF IInv, PlanInv
<1>2. /\ pc' = [pc EXCEPT ![k] = "idle"] /\ current' = current /\ disk' = disk
      /\ promised' = promised
      /\ at' = [at EXCEPT ![k] = 0] /\ until' = [until EXCEPT ![k] = 0]
      /\ pending' = [pending EXCEPT ![k] = NoFile] /\ shown' = [shown EXCEPT ![k] = <<>>]
      /\ job' = [job EXCEPT ![k] = NoJob] /\ opened' = [opened EXCEPT ![k] = NoSource]
  BY DEF Leave, Goto
<1>3. /\ phase'[k] = "idle"
      /\ \A w \in Writers \ {k} : /\ phase'[w] = phase[w] /\ windows'[w] = windows[w]
                                   /\ target'[w] = target[w]
  BY <1>1 DEF Leave, Discard, planning, PlanTypeOK, Writers
<1>4. CallsTyped'
  BY <1>1, <1>2 DEF CallsTyped, CallPoints
<1>5. CallAt(k)'
  BY <1>1, <1>2, <1>3 DEF CallAt, Writing, CallsTyped
<1>6. ASSUME NEW w \in Writers \ {k} PROVE Stays(w)
  <2>1. /\ pc'[w] = pc[w] /\ at'[w] = at[w] /\ until'[w] = until[w]
        /\ pending'[w] = pending[w] /\ job'[w] = job[w] /\ opened'[w] = opened[w]
    BY <1>1, <1>2 DEF CallsTyped
  <2>2. QED
    BY <1>3, <2>1 DEF Stays, Settled
<1>7. QED
  BY <1>1, <1>2, <1>4, <1>5, <1>6, OneMoves, DirectoryUntouched

\* What is at the source path does not matter to what is written.
LEMMA ReplaceKeeps ==
  ASSUME IInv, Replace
  PROVE  IInv'
<1>1. UNCHANGED <<planning, pc, job, opened, at, until, pending, shown, disk, promised>>
  BY DEF Replace
<1>2. CallsTyped'
  BY <1>1 DEF Replace, IInv, CallsTyped, SourceType
<1>3. \A w \in Writers : Stays(w)
  BY <1>1 DEF Stays, Settled, planning
<1>4. Grows /\ PackageComplete'
  BY <1>1, DirectoryUntouched DEF IInv
<1>5. QED
  BY <1>2, <1>3, <1>4, StayingKept DEF IInv

-----------------------------------------------------------------------------
(***************************************************************************)
(* The theorems.                                                           *)
(***************************************************************************)
LEMMA InitInvariant == PackagingInit => IInv
BY DEF PackagingInit, PlanningInit, IInv, CallsTyped, CallPoints, SourceType, CallAt, Writing,
       PackageComplete, Writers

\* Every step keeps the invariant.
LEMMA NextInvariant ==
  ASSUME IInv, PlanInv, [PackagingNext]_packagingVars
  PROVE  IInv'
<1>1. CASE UNCHANGED packagingVars
  <2>1. UNCHANGED <<planning, current, pc, job, opened, at, until, pending, shown, disk, promised>>
    BY <1>1 DEF packagingVars, package
  <2>2. CallsTyped' /\ \A w \in Writers : Stays(w)
    BY <2>1 DEF IInv, CallsTyped, Stays, Settled, planning
  <2>3. Grows /\ PackageComplete'
    BY <2>1, DirectoryUntouched DEF IInv
  <2>4. QED
    BY <2>2, <2>3, StayingKept DEF IInv
<1>2. QED
  BY <1>1, OpenKeeps, PlanStepKeeps, StartKeeps, MakeInitKeeps, MuxKeeps, PublishKeeps,
     LeaveKeeps, ReplaceKeeps DEF PackagingNext

\* What every call has published at the point where it stands.
THEOREM Invariance == PackagingSpec => []IInv
<1>1. PackagingSpec => []PlanInv
  BY ImplementsPlanning, Inductive, PTL
<1>2. IInv /\ PlanInv /\ [PackagingNext]_packagingVars => IInv'
  BY NextInvariant
<1>3. QED
  BY <1>1, <1>2, InitInvariant, PTL DEF PackagingSpec

\* A media playlist in the directory has all its segments beside it, of one plan
\* over one source, whoever wrote them and whichever call failed or died.
THEOREM Complete == PackagingSpec => []PackageComplete
<1>1. IInv => PackageComplete
  BY DEF IInv
<1>2. QED
  BY <1>1, Invariance, PTL

\* Success means that every file asked for is there, cut from the opened source.
THEOREM SuccessIsPublished == PackagingSpec => []DoneMeansPublished
<1>1. ASSUME IInv, PlanInv PROVE DoneMeansPublished
  <2> SUFFICES ASSUME NEW k \in Writers, pc[k] = "done", job[k].op # "list",
                      phase[k] = "planned"
      PROVE  /\ \A n \in DOMAIN windows[k] :
                  (job[k].op = "vod"
                     \/ (job[k].first < n /\ n <= job[k].first + job[k].count)) =>
                       SegmentThere(k, n)
             /\ job[k].op = "vod" => /\ disk[MediaName] = MediaPlaylist(k)
                                     /\ disk[MasterName] = MasterPlaylist(k)
    BY DEF DoneMeansPublished, SegmentThere, Holding
  <2>1. Delivered(k)
    BY <1>1 DEF IInv, CallAt
  <2>2. /\ DOMAIN windows[k] = 1 .. Len(windows[k]) /\ Len(windows[k]) \in Nat
        /\ job[k].first \in Nat /\ job[k].count \in Nat
    BY <1>1, <2>1, PlanOf DEF Delivered, Ranged, JobType
  <2>3. ASSUME NEW n \in DOMAIN windows[k],
               job[k].op = "vod" \/ (job[k].first < n /\ n <= job[k].first + job[k].count)
        PROVE  From(k) <= n /\ n <= until[k]
    BY <2>1, <2>2, <2>3 DEF Delivered, Ranged, From, Smaller
  <2>4. QED
    BY <2>1, <2>3 DEF Delivered, SegmentsThere, Holding
<1>2. PackagingSpec => []PlanInv
  BY ImplementsPlanning, Inductive, PTL
<1>3. QED
  BY <1>1, <1>2, Invariance, PTL

\* What from_boxes keeps of the boxes: a table of a box with a first sample has
\* that sample, and says whether it is a sync sample.
LEMMA TableReads ==
  ASSUME NEW boxes, 1 \in DOMAIN boxes.stsz
  PROVE  TableOf(boxes).sizes # <<>> /\ TableOf(boxes).keys[1] \in BOOLEAN
<1>1. TableOf(boxes).sizes = boxes.stsz
  BY DEF TableOf
<1>2. boxes.stsz # <<>>
  <2>1. 1 \notin DOMAIN <<>>
    OBVIOUS
  <2>2. QED
    BY <2>1
<1>3. TableOf(boxes).keys = [i \in DOMAIN boxes.stsz |->
         boxes.stss = NoBox \/ \E k \in DOMAIN boxes.stss : boxes.stss[k] = i]
  BY DEF TableOf
<1>4. TableOf(boxes).keys[1]
        = (boxes.stss = NoBox \/ \E k \in DOMAIN boxes.stss : boxes.stss[k] = 1)
  BY <1>3
<1>5. (boxes.stss = NoBox \/ \E k \in DOMAIN boxes.stss : boxes.stss[k] = 1) \in BOOLEAN
  OBVIOUS
<1>6. QED
  BY <1>1, <1>2, <1>4, <1>5

\* The chunks a call may plan are runs of its track's packets, by either planner,
\* for any table that parses.
THEOREM ChunksPartitioned == PackagingSpec => []ChunksTile
<1>1. ASSUME IInv, PlanInv PROVE ChunksTile
  <2> SUFFICES ASSUME NEW k \in Writers, JustPlanned(k)
      PROVE  LET packets == Selected(k).video.packets
                 clip == Content[opened[k].file].video
             IN  /\ Partition(PlanTrackChunks(packets, target[k]), packets, target[k])
                 /\ Partition(TableChunkPlan(TableOf(clip.boxes), clip.scale, target[k]),
                              packets, target[k])
    BY DEF ChunksTile
  <2> DEFINE f == opened[k].file
             clip == Content[f].video
             table == TableOf(clip.boxes)
             packets == IntoPackets(table, clip.scale)
  <2>1. f \in Files /\ Playable(f) /\ target[k] \in Nat /\ target[k] > 0
    BY <1>1 DEF IInv, CallAt, JustPlanned, PlanInv, PlanTypeOK, Writers
  <2>2. f \in DOMAIN TrackSets /\ Selected(k).video.packets = packets /\ packets # <<>>
    BY <2>1 DEF Playable, TrackSets, HlsTrack, Selected
  <2>3. packets \in Seq(PacketType)
    BY <2>2, TrackSetsAssumption, TracksAssumption DEF Selected
  <2>4. 1 \in DOMAIN clip.boxes.stsz
    <3>1. clip.boxes \in BoxesType /\ clip.scale \in Nat /\ WellFormed(clip.boxes)
      BY <2>1, ContentAssumption DEF ClipType, Playable, Parses
    <3> HIDE DEF clip, packets
    <3>2. Len(IntoPackets(TableOf(clip.boxes), clip.scale)) <= Len(clip.boxes.stsz)
      BY <3>1, TablePackets
    <3>3. Len(packets) <= Len(clip.boxes.stsz)
      BY <3>2 DEF packets, table
    <3>4. Len(packets) \in Nat /\ Len(packets) # 0 /\ Len(clip.boxes.stsz) \in Nat
          /\ DOMAIN clip.boxes.stsz = 1 .. Len(clip.boxes.stsz)
      BY <2>2, <2>3, <3>1, EmptySeq DEF BoxesType
    <3>5. QED
      BY <3>3, <3>4
  <2>5. table.sizes # <<>> /\ table.keys[1] \in BOOLEAN
    BY <2>4, TableReads
  <2> HIDE DEF table
  <2>6. Partition(PlanTrackChunks(packets, target[k]), packets, target[k])
    BY <2>1, <2>2, <2>3, PacketsPartitioned
  <2>7. Partition(TableChunkPlan(table, clip.scale, target[k]), packets, target[k])
    BY <2>1, <2>2, <2>3, <2>5, TablePartitioned
  <2>8. QED
    BY <2>2, <2>6, <2>7 DEF table
<1>2. PackagingSpec => []PlanInv
  BY ImplementsPlanning, Inductive, PTL
<1>3. QED
  BY <1>1, <1>2, Invariance, PTL

-----------------------------------------------------------------------------
(***************************************************************************)
(* What is in a segment, for any source that is playable.                  *)
(***************************************************************************)
\* The tracks of a playable source: packets of tables that parse.
LEMMA TracksKnown ==
  ASSUME NEW f \in Files, Playable(f), NEW t \in {"video", "audio"}
  PROVE  MuxTrack(TrackSets[f][t]) /\ Contiguous(TrackSets[f][t])
<1> DEFINE clip == Content[f][t]
           track == TrackSets[f][t]
<1>1. f \in DOMAIN TrackSets /\ track = HlsTrack(f, clip) /\ WellFormed(clip.boxes)
  BY DEF Playable, Parses, TrackSets
<1>2. clip \in ClipType
  BY ContentAssumption
<1>3. \A n \in DOMAIN track.packets : track.nals * track.lengthSize <= track.packets[n].size
  BY <1>1, SamplesAssumption
<1>1a. WellFormed(clip.boxes)
  BY <1>1
<1> HIDE DEF clip, track
<1>4. /\ clip.boxes \in BoxesType /\ clip.scale \in Nat /\ clip.video \in BOOLEAN
      /\ clip.lengthSize \in 1 .. 4 /\ clip.nals \in Nat /\ clip.private \in Nat
      /\ clip.header \in {0, 7}
  BY <1>2 DEF ClipType
<1>5. /\ track.packets = IntoPackets(TableOf(clip.boxes), clip.scale)
      /\ track.timescale = clip.scale /\ track.video = clip.video
      /\ track.lengthSize = clip.lengthSize /\ track.nals = clip.nals
      /\ track.private = clip.private /\ track.header = clip.header
  BY <1>1 DEF HlsTrack
<1>6. /\ track.packets \in Seq(PacketType)
      /\ \A i \in DOMAIN track.packets : track.packets[i].scale = track.timescale
      /\ \A i \in 1 .. Len(track.packets) - 1 :
           track.packets[i + 1].dts = track.packets[i].dts + track.packets[i].duration
  <2> DEFINE packets == IntoPackets(TableOf(clip.boxes), clip.scale)
  <2>1. /\ packets \in Seq(PacketType)
        /\ \A i \in DOMAIN packets : packets[i].scale = clip.scale
        /\ \A i \in 1 .. Len(packets) - 1 :
             packets[i + 1].dts = packets[i].dts + packets[i].duration
    BY <1>1a, <1>4, TablePackets
  <2> HIDE DEF packets
  <2>2. track.packets = packets
    BY <1>5 DEF packets
  <2>3. QED
    BY <1>5, <2>1, <2>2
<1>7. MuxTrack(track)
  BY <1>3, <1>4, <1>5, <1>6 DEF MuxTrack
<1>8. Contiguous(track)
  BY <1>4, <1>5, <1>6 DEF Contiguous
<1>9. QED
  BY <1>7, <1>8 DEF track

\* The same tracks, read from a file: only the bytes are of that file.
LEMMA TracksRead ==
  ASSUME NEW f \in Files, Playable(f), NEW g
  PROVE  LET tracks == ReadFrom(g, TrackSets[f])
         IN  /\ MuxTrack(tracks.video) /\ MuxTrack(tracks.audio)
             /\ Contiguous(tracks.video) /\ Contiguous(tracks.audio)
             /\ \A t \in {"video", "audio"} :
                  /\ tracks[t].packets = TrackSets[f][t].packets
                  /\ tracks[t].timescale = TrackSets[f][t].timescale
                  /\ tracks[t].lengthSize = TrackSets[f][t].lengthSize
                  /\ tracks[t].private = TrackSets[f][t].private
<1> DEFINE read == ReadFrom(g, TrackSets[f])
<1>1. f \in DOMAIN TrackSets /\ DOMAIN TrackSets[f] = {"video", "audio"}
  BY DEF Playable, TrackSets
<1>2. ASSUME NEW t \in {"video", "audio"}
      PROVE  /\ MuxTrack(read[t]) /\ Contiguous(read[t])
             /\ read[t].packets = TrackSets[f][t].packets
             /\ read[t].timescale = TrackSets[f][t].timescale
             /\ read[t].lengthSize = TrackSets[f][t].lengthSize
             /\ read[t].private = TrackSets[f][t].private
  <2> DEFINE track == TrackSets[f][t]
  <2>1. MuxTrack(track) /\ Contiguous(track)
    BY TracksKnown
  <2>2. track = HlsTrack(f, Content[f][t])
    BY <1>1 DEF TrackSets
  <2>3. read[t] = [track EXCEPT !.file = g, !.shared = Content[g].shared]
    BY <1>1 DEF ReadFrom
  <2> HIDE DEF track, read
  <2>4. /\ read[t].packets = track.packets /\ read[t].timescale = track.timescale
        /\ read[t].video = track.video /\ read[t].lengthSize = track.lengthSize
        /\ read[t].nals = track.nals /\ read[t].private = track.private
        /\ read[t].header = track.header
    BY <2>2, <2>3 DEF HlsTrack
  <2>5. MuxTrack(read[t]) /\ Contiguous(read[t])
    BY <2>1, <2>4 DEF MuxTrack, Contiguous
  <2>6. QED
    BY <2>4, <2>5 DEF track
<1>3. QED
  BY <1>2

\* What a call is about to publish under a segment's name is that segment.
LEMMA SegmentPending ==
  ASSUME IInv, NEW k \in Writers, NEW format \in {"ts", "m4s"}, Pending(k, format)
  PROVE  /\ opened[k].file \in Files /\ Playable(opened[k].file) /\ Muxes(k, at[k])
         /\ pending[k][2] = SegmentOf(k, at[k], opened[k].file)
<1>1. Ranged(k) /\ Written(k) /\ pc[k] = "publish" /\ Segmental(pending[k][1])
  BY DEF IInv, CallAt, Writing, Pending
<1>2. PendingSegment(k)
  BY <1>1, Names DEF Written, PendingInit, PendingMedia, PendingMaster
<1>3. QED
  BY <1>1, <1>2 DEF Ranged, PendingSegment

\* The decode times of every stream of a transport segment go up from sample to
\* sample, and nothing is shown before it is decoded, whatever the tables say.
THEOREM StampsGoUp == PackagingSpec => []StampsAdvance
<1>1. ASSUME IInv PROVE StampsAdvance
  <2> SUFFICES ASSUME NEW k \in Writers, Pending(k, "ts")
      PROVE  LET samples == pending[k][2]
             IN  \A n \in DOMAIN samples :
                   /\ samples[n].dts <= samples[n].pts
                   /\ \A m \in 1 .. n - 1 : samples[m].video = samples[n].video =>
                        samples[m].dts < samples[n].dts
    BY DEF StampsAdvance
  <2> DEFINE f == opened[k].file
             tracks == ReadFrom(f, TrackSets[f])
             w == windows[k][at[k]]
  <2>1. f \in Files /\ Playable(f) /\ pending[k][2] = SegmentOf(k, at[k], f)
    BY <1>1, SegmentPending
  <2>2. pending[k][2] = TsSegment(tracks, w)
    BY <2>1 DEF Pending, SegmentOf, Selected
  <2>3. MuxTrack(tracks.video) /\ MuxTrack(tracks.audio)
    BY <2>1, TracksRead
  <2> HIDE DEF tracks, w
  <2>4. QED
    BY <2>2, <2>3, SegmentAdvances
<1>2. QED
  BY <1>1, Invariance, PTL

\* A transport segment is never longer than what was admitted before its packets
\* were read, for any packets, NAL units and parameter sets.
THEOREM SegmentsFit == PackagingSpec => []OutputFits
<1>1. ASSUME IInv PROVE OutputFits
  <2> SUFFICES ASSUME NEW k \in Writers, Pending(k, "ts")
      PROVE  /\ TsSegmentBytes(pending[k][2]) <= OutputLimit
             /\ TsSegmentBytes(pending[k][2])
                  <= EstimatedOutput("ts", Selected(k), windows[k][at[k]])
    BY DEF OutputFits
  <2> DEFINE f == opened[k].file
             tracks == ReadFrom(f, TrackSets[f])
             w == windows[k][at[k]]
  <2>1. /\ f \in Files /\ Playable(f) /\ Muxes(k, at[k])
        /\ pending[k][2] = SegmentOf(k, at[k], f)
    BY <1>1, SegmentPending
  <2>2. pending[k][2] = TsSegment(tracks, w)
    BY <2>1 DEF Pending, SegmentOf, Selected
  <2>3. MuxTrack(tracks.video) /\ MuxTrack(tracks.audio)
    BY <2>1, TracksRead
  <2>4. EstimatedOutput("ts", Selected(k), w) <= OutputLimit
    BY <2>1 DEF Muxes, Pending
  <2>5. EstimatedOutput("ts", tracks, w) = EstimatedOutput("ts", Selected(k), w)
    <3>1. ASSUME NEW t \in {"video", "audio"}
          PROVE  EstimatesIn("ts", tracks[t], w) = EstimatesIn("ts", Selected(k)[t], w)
      <4>1. /\ tracks[t].packets = Selected(k)[t].packets
            /\ tracks[t].lengthSize = Selected(k)[t].lengthSize
            /\ tracks[t].private = Selected(k)[t].private
        BY <2>1, TracksRead DEF Selected
      <4> HIDE DEF tracks
      <4>2. QED
        BY <4>1 DEF EstimatesIn, Estimate, TsEstimate
    <3> HIDE DEF tracks
    <3>2. QED
      BY <3>1 DEF EstimatedOutput
  <2> HIDE DEF tracks, w
  <2>6. TsSegmentBytes(TsSegment(tracks, w)) <= EstimatedOutput("ts", tracks, w)
    BY <2>3, SegmentFits
  <2>7. /\ TsSegmentBytes(TsSegment(tracks, w)) \in Int
        /\ EstimatedOutput("ts", tracks, w) \in Int
    BY <2>3, SegmentFits
  <2>8. QED
    BY <2>2, <2>4, <2>5, <2>6, <2>7, LimitsAssumption DEF w
<1>2. QED
  BY <1>1, Invariance, PTL

\* Fragments run on: the decode times a player computes are those of the packets
\* for every source, time scale and window.
THEOREM FragmentsRunOn == PackagingSpec => []FragmentTimes
<1>1. ASSUME IInv PROVE FragmentTimes
  <2> SUFFICES ASSUME NEW k \in Writers, Pending(k, "m4s"), NEW t \in {1, 2}
      PROVE  LET track == IF t = 1 THEN Selected(k).video ELSE Selected(k).audio
                 ps == PacketsIn(windows[k][at[k]], track.packets)
                 fragment == pending[k][2].tracks[t]
             IN  Unbroken(track, ps) =>
                   \A n \in DOMAIN ps :
                     /\ DecodeTime(fragment, n) = ps[n].dts
                     /\ (\A m \in DOMAIN ps : ps[m].pts >= ps[m].dts) =>
                          DecodeTime(fragment, n) + fragment.samples[n].composition = ps[n].pts
    BY DEF FragmentTimes
  <2> DEFINE f == opened[k].file
             read == ReadFrom(f, TrackSets[f])
             w == windows[k][at[k]]
             kind == IF t = 1 THEN "video" ELSE "audio"
             ps == PacketsIn(w, Selected(k)[kind].packets)
  <2>1. f \in Files /\ Playable(f) /\ pending[k][2] = SegmentOf(k, at[k], f)
    BY <1>1, SegmentPending
  <2>2. pending[k][2] = Fragment(read, w)
    BY <2>1 DEF Pending, SegmentOf, Selected
  <2>3. pending[k][2].tracks[t] = FragmentTrack(t, read[kind], w)
    BY <2>2 DEF Fragment
  <2>4. /\ Contiguous(read[kind]) /\ read[kind].packets = Selected(k)[kind].packets
        /\ read[kind].timescale = Selected(k)[kind].timescale
    BY <2>1, TracksRead DEF Selected
  <2> HIDE DEF read, w
  <2>5. ASSUME Unbroken(Selected(k)[kind], ps), NEW n \in DOMAIN ps
        PROVE  LET fragment == FragmentTrack(t, read[kind], w)
               IN  /\ DecodeTime(fragment, n) = ps[n].dts
                   /\ (\A m \in DOMAIN ps : ps[m].pts >= ps[m].dts) =>
                        DecodeTime(fragment, n) + fragment.samples[n].composition = ps[n].pts
    <3>1. ps = PacketsIn(w, read[kind].packets)
      BY <2>4
    <3>2. Unbroken(read[kind], PacketsIn(w, read[kind].packets))
      BY <2>4, <2>5, <3>1 DEF Unbroken
    <3> HIDE DEF ps, kind
    <3>3. QED
      BY <2>4, <2>5, <3>1, <3>2, FragmentRuns
  <2>6. QED
    BY <2>3, <2>5 DEF w
<1>2. QED
  BY <1>1, Invariance, PTL

\* However the packets of any source lie in its file, the reads of a window return
\* all of them in order, and a read through a buffer fits beside the result.
THEOREM ReadsComplete == PackagingSpec => []ReadsDeliver
<1>1. ASSUME IInv PROVE ReadsDeliver
  <2> SUFFICES ASSUME NEW k \in Writers, JustPlanned(k), NEW n \in DOMAIN windows[k],
                      NEW t \in {"video", "audio"}
      PROVE  LET ps == PacketsIn(windows[k][n], Selected(k)[t].packets)
                 reads == Reads(ps, ReadLimits, CompressedLimit)
                 wanted == Total([m \in DOMAIN ps |-> ps[m].size])
             IN  /\ Unpacked(reads) = ps
                 /\ \A r \in DOMAIN reads :
                      /\ \A m \in DOMAIN reads[r].packets :
                           LET p == reads[r].packets[m]
                           IN  /\ p.offset >= reads[r].offset
                               /\ p.offset + p.size <= reads[r].offset + reads[r].span
                      /\ reads[r].span # reads[r].payload =>
                           wanted + reads[r].span <= CompressedLimit
    BY DEF ReadsDeliver
  <2> DEFINE ps == PacketsIn(windows[k][n], Selected(k)[t].packets)
  <2>1. opened[k].file \in Files /\ Playable(opened[k].file)
    BY <1>1 DEF IInv, CallAt, JustPlanned
  <2>2. Selected(k)[t].packets \in Seq(PacketType)
    BY <2>1, TracksKnown DEF Selected, MuxTrack
  <2>3. ps \in Seq(PacketType) /\ CompressedLimit \in Int
    BY <2>2, WindowPackets, LimitsAssumption
  <2> HIDE DEF ps
  <2>4. QED
    BY <2>3, ReadsFit DEF ps
<1>2. QED
  BY <1>1, Invariance, PTL

\* The bandwidth a playlist advertises covers the packets of every window, though
\* they are counted in decode order and cut by presentation.
THEOREM BandwidthSuffices == PackagingSpec => []BandwidthCoversPeak
<1>1. ASSUME IInv, PlanInv PROVE BandwidthCoversPeak
  <2> SUFFICES ASSUME NEW k \in Writers, JustPlanned(k), NEW n \in DOMAIN windows[k]
      PROVE  (CompressedBytes(Selected(k), windows[k][n]) * 8 * MillisPerSecond)
                 \div WindowMs(windows[k][n])
               <= Bandwidth(Selected(k), windows[k])
    BY DEF BandwidthCoversPeak
  <2>1. opened[k].file \in Files /\ Playable(opened[k].file) /\ phase[k] = "planned"
    BY <1>1 DEF IInv, CallAt, JustPlanned, Planned
  <2>2. /\ Selected(k).video.packets \in Seq(PacketType)
        /\ Selected(k).audio.packets \in Seq(PacketType)
    BY <2>1, TracksKnown DEF Selected, MuxTrack
  <2>3. PICK from, to : Timeline(windows[k], from, to)
    BY <1>1, <2>1, PlanShape DEF Writers, Finalised
  <2>4. QED
    BY <2>2, <2>3, BandwidthCovers
<1>2. PackagingSpec => []PlanInv
  BY ImplementsPlanning, Inductive, PTL
<1>3. QED
  BY <1>1, <1>2, Invariance, PTL
=============================================================================
