------------------------- MODULE PublicationProofs -------------------------
(***************************************************************************)
(* For any set of publishers, contents and inodes and any number of parts: *)
(* the path never shows a prefix, a successful call has published its      *)
(* bytes, and Publication implements WriteOnceFile.                        *)
(***************************************************************************)
EXTENDS Publication, TLAPS

\* No two calls have the same temporary file.
TempsAreOwned ==
  \A p, q \in Publishers :
    p # q /\ temp[p] # NoInode => temp[p] # temp[q]

\* A call owns a temporary file exactly from its creation to its return.
Holding == {"write", "link", "recheck", "unlink", "cleanup"}

OwnFile(p) ==
  /\ pc[p] \in Holding <=> temp[p] # NoInode
  /\ pc[p] \in Holding => body[temp[p]].content = call[p].content
  /\ pc[p] \in {"write", "link", "recheck"} => target # temp[p]
  /\ pc[p] \in {"link", "recheck", "unlink"} => Whole(temp[p])

Observed(p) ==
  /\ pc[p] # "idle" /\ target # NoInode => body[target].content \in held[p]
  /\ pc[p] = "unlink" => call[p].content \in held[p]
  /\ pc[p] = "cleanup" => result[p] # "ok"
  /\ pc[p] = "idle" /\ result[p] = "ok" => call[p].content \in held[p]

\* The strengthening: no call writes the file at the path, whatever is linked
\* was whole before it was linked, and a running call has observed whatever
\* the path holds now.
IInv ==
  /\ TypeOK
  /\ TempsAreOwned /\ NamesAccountedFor
  /\ \A p \in Publishers : OwnFile(p) /\ Observed(p)
  /\ target # NoInode => Whole(target)

\* What NamesAccountedFor says of one name and of one call.
LEMMA NamesOneByOne ==
  NamesAccountedFor <=>
    /\ \A f \in names : f \in stray \/ \E p \in Publishers : temp[p] = f /\ f # NoInode
    /\ \A p \in Publishers : temp[p] # NoInode => temp[p] \in names /\ temp[p] \notin stray
    /\ stray \subseteq names
BY DEF NamesAccountedFor

\* No step loses track of a temporary name: a call that ends gives its own name
\* up or leaves it behind, and a file is created under a name nobody has.
LEMMA StepNames == IInv /\ [Next]_vars => NamesAccountedFor'
<1> SUFFICES ASSUME IInv, [Next]_vars PROVE NamesAccountedFor'
  OBVIOUS
<1>1. /\ \A f \in names : f \in stray \/ \E p \in Publishers : temp[p] = f /\ f # NoInode
      /\ \A p \in Publishers : temp[p] # NoInode => temp[p] \in names /\ temp[p] \notin stray
      /\ stray \subseteq names
      /\ names \subseteq Inodes /\ temp \in [Publishers -> Inodes \cup {NoInode}]
      /\ TempsAreOwned
  BY NamesOneByOne DEF IInv, TypeOK
<1>2. CASE UNCHANGED <<temp, names, stray>>
  BY <1>2 DEF IInv, NamesAccountedFor
<1>3. ASSUME NEW p \in Publishers, NEW f \in Inodes, Free(f),
             temp' = [temp EXCEPT ![p] = f], names' = names \cup {f}, stray' = stray,
             temp[p] = NoInode
      PROVE  NamesAccountedFor'
  <2>1. \A q \in Publishers : temp'[q] = (IF q = p THEN f ELSE temp[q])
    BY <1>1, <1>3
  <2>2. f \notin names /\ f # NoInode
    BY <1>3, NoInodeAssumption DEF Free
  <2>3. QED
    BY <1>1, <1>3, <2>1, <2>2 DEF NamesAccountedFor
<1>4. ASSUME NEW p \in Publishers, temp' = [temp EXCEPT ![p] = NoInode],
             names' \in {names, names \ {temp[p]}},
             stray' = stray \cup (names' \cap {temp[p]})
      PROVE  NamesAccountedFor'
  <2>1. \A q \in Publishers : temp'[q] = (IF q = p THEN NoInode ELSE temp[q])
    BY <1>1, <1>4
  <2>2. \A q \in Publishers : q # p /\ temp[q] # NoInode => temp[q] # temp[p]
    BY <1>1 DEF TempsAreOwned
  <2>3. NoInode \notin names
    BY <1>1, NoInodeAssumption
  <2>4. QED
    BY <1>1, <1>4, <2>1, <2>2, <2>3 DEF NamesAccountedFor
<1>5. ASSUME NEW p \in Publishers, CreateTemp(p) PROVE NamesAccountedFor'
  <2>1. temp[p] = NoInode /\ stray' = stray
    BY <1>5 DEF CreateTemp, IInv, OwnFile, Holding
  <2>2. CASE Return(p, "error") /\ UNCHANGED <<names, body>>
    BY <1>1, <2>1, <2>2, <1>2 DEF Return
  <2>3. QED
    BY <1>3, <1>5, <2>1, <2>2 DEF CreateTemp
<1>6. ASSUME NEW p \in Publishers, Unlink(p) PROVE NamesAccountedFor'
  BY <1>2, <1>4, <1>6 DEF Unlink, Return, Fail
<1>7. ASSUME NEW p \in Publishers, Cleanup(p) PROVE NamesAccountedFor'
  BY <1>4, <1>7 DEF Cleanup, Return
<1>8. ASSUME NEW p \in Publishers, Crash(p) PROVE NamesAccountedFor'
  BY <1>4, <1>8 DEF Crash, Return
<1>9. ASSUME NEW p \in Publishers, Compare(p) \/ Exists(p) PROVE NamesAccountedFor'
  <2>1. temp[p] = NoInode /\ UNCHANGED <<names, stray>>
    BY <1>9 DEF Compare, Exists, IInv, OwnFile, Holding
  <2>2. temp' = temp
    BY <1>1, <1>9, <2>1 DEF Compare, Exists, Return
  <2>3. QED
    BY <1>2, <2>1, <2>2
<1>10. QED
  BY <1>2, <1>5, <1>6, <1>7, <1>8, <1>9
     DEF Next, Step, vars, Evict, Begin, Write, Link, Recheck

LEMMA InitIInv == Init => IInv
<1> SUFFICES ASSUME Init PROVE IInv
  OBVIOUS
<1>1. NoCall \in Calls
  BY ContentsAssumption DEF NoCall, Calls
<1>2. \A f \in Inodes : NewBody(NoCall) \in Bodies
  BY <1>1, PartsAssumption DEF NewBody, Bodies, Calls
<1>3. TypeOK
  BY <1>1, <1>2 DEF Init, TypeOK
<1>4. NamesAccountedFor
  BY DEF Init, NamesAccountedFor
<1>5. QED
  BY <1>3, <1>4 DEF Init, IInv, TempsAreOwned, OwnFile, Observed, Holding

LEMMA StepIInv == IInv /\ [Next]_vars => IInv'
<1> SUFFICES ASSUME IInv, [Next]_vars PROVE IInv'
  OBVIOUS
<1>0. NamesAccountedFor'
  BY StepNames
<1> USE PartsAssumption, NoInodeAssumption DEF TypeOK, IInv
<1>1. CASE UNCHANGED vars
  BY <1>0, <1>1 DEF vars, TempsAreOwned, OwnFile, Observed, Whole
<1>2. CASE Evict
  BY <1>0, <1>2 DEF Evict, SetTarget, TempsAreOwned, OwnFile, Observed, Whole, Holding
<1>3. ASSUME NEW p \in Publishers, Begin(p) PROVE IInv'
  <2>1. TypeOK'
    BY <1>3 DEF Begin, Goto, Calls, Bodies, Whole
  <2>2. TempsAreOwned' /\ (target # NoInode => Whole(target))'
    BY <1>3 DEF Begin, Goto, TempsAreOwned, OwnFile, Holding, Whole, Bodies
  <2>3. ASSUME NEW q \in Publishers PROVE OwnFile(q)'
    BY <1>3 DEF Begin, Goto, TempsAreOwned, OwnFile, Holding, Whole, Bodies
  <2>4. ASSUME NEW q \in Publishers PROVE Observed(q)'
    BY <1>3 DEF Begin, Goto, OwnFile, Observed, Holding, Bodies
  <2>5. QED
    BY <1>0, <2>1, <2>2, <2>3, <2>4
<1>4. ASSUME NEW p \in Publishers, Compare(p) PROVE IInv'
  <2>1. TypeOK'
    BY <1>4 DEF Compare, Goto, Return, Matches, Calls, Bodies, Whole
  <2>2. TempsAreOwned' /\ (target # NoInode => Whole(target))'
    BY <1>4 DEF Compare, Goto, Return, Matches, TempsAreOwned, OwnFile, Holding, Whole, Bodies
  <2>3. ASSUME NEW q \in Publishers PROVE OwnFile(q)'
    BY <1>4 DEF Compare, Goto, Return, Matches, TempsAreOwned, OwnFile, Holding, Whole, Bodies
  <2>4. ASSUME NEW q \in Publishers PROVE Observed(q)'
    BY <1>4 DEF Compare, Goto, Return, Matches, OwnFile, Observed, Holding, Bodies
  <2>5. QED
    BY <1>0, <2>1, <2>2, <2>3, <2>4
<1>5. ASSUME NEW p \in Publishers, Exists(p) PROVE IInv'
  <2>1. TypeOK'
    BY <1>5 DEF Exists, Goto, Return, Calls, Bodies, Whole
  <2>2. TempsAreOwned' /\ (target # NoInode => Whole(target))'
    BY <1>5 DEF Exists, Goto, Return, TempsAreOwned, OwnFile, Holding, Whole, Bodies
  <2>3. ASSUME NEW q \in Publishers PROVE OwnFile(q)'
    BY <1>5 DEF Exists, Goto, Return, TempsAreOwned, OwnFile, Holding, Whole, Bodies
  <2>4. ASSUME NEW q \in Publishers PROVE Observed(q)'
    BY <1>5 DEF Exists, Goto, Return, OwnFile, Observed, Holding, Bodies
  <2>5. QED
    BY <1>0, <2>1, <2>2, <2>3, <2>4
<1>6. ASSUME NEW p \in Publishers, CreateTemp(p) PROVE IInv'
  <2>0. NewBody(call[p]) \in Bodies
    BY DEF NewBody, Bodies, Calls
  <2>1. TypeOK'
    <3>1. CASE Return(p, "error") /\ UNCHANGED <<names, body>>
      BY <1>6, <3>1 DEF CreateTemp, Goto, Return
    <3>2. CASE \E f \in Inodes : /\ temp' = [temp EXCEPT ![p] = f]
                                 /\ names' = names \cup {f}
                                 /\ body' = [body EXCEPT ![f] = NewBody(call[p])]
                                 /\ Goto(p, "write")
                                 /\ UNCHANGED result
      BY <1>6, <2>0, <3>2 DEF CreateTemp, Goto
    <3>3. QED
      BY <1>6, <3>1, <3>2 DEF CreateTemp
  <2>2. TempsAreOwned' /\ (target # NoInode => Whole(target))'
    <3>1. TempsAreOwned'
      BY <1>6 DEF CreateTemp, Goto, Return, Free, TempsAreOwned
    <3>2. (target # NoInode => Whole(target))'
      BY <1>6 DEF CreateTemp, Goto, Return, Free, Whole
    <3>3. QED
      BY <3>1, <3>2
  <2>3. ASSUME NEW q \in Publishers PROVE OwnFile(q)'
    BY <1>6 DEF CreateTemp, Goto, Return, Free, NewBody, TempsAreOwned, OwnFile, Holding, Whole, Bodies
  <2>4. ASSUME NEW q \in Publishers PROVE Observed(q)'
    BY <1>6 DEF CreateTemp, Goto, Return, Free, NewBody, OwnFile, Observed, Holding, Bodies
  <2>5. QED
    BY <1>0, <2>1, <2>2, <2>3, <2>4
<1>7. ASSUME NEW p \in Publishers, Write(p) PROVE IInv'
  <2>1. TypeOK'
    <3>1. temp[p] \in Inodes /\ body[temp[p]] \in Bodies
      BY <1>7 DEF Write, OwnFile, Holding
    <3>2. body' \in [Inodes -> Bodies]
      <4>1. CASE UNCHANGED body
        BY <4>1
      <4>2. CASE ~Whole(temp[p]) /\ body' = [body EXCEPT ![temp[p]].written = @ + 1]
        <5>1. body[temp[p]].written + 1 \in 0..Parts
          <6>1. body[temp[p]].written \in 0..Parts /\ body[temp[p]].written # Parts
            BY <3>1, <4>2 DEF Bodies, Whole
          <6>2. QED
            BY <6>1
        <5>2. [body[temp[p]] EXCEPT !.written = body[temp[p]].written + 1] \in Bodies
          <6> DEFINE n == body[temp[p]].written + 1
          <6>1. n \in 0..Parts
            BY <5>1
          <6> HIDE DEF n
          <6>2. [body[temp[p]] EXCEPT !.written = n] \in Bodies
            BY <3>1, <6>1 DEF Bodies
          <6>3. QED
            BY <6>2 DEF n
        <5>3. body' = [body EXCEPT ![temp[p]] =
                        [body[temp[p]] EXCEPT !.written = body[temp[p]].written + 1]]
          BY <3>1, <4>2
        <5>4. QED
          BY <5>2, <5>3
      <4>3. QED
        BY <1>7, <4>1, <4>2 DEF Write
    <3>3. /\ pc' \in [Publishers -> {"idle", "compare", "exists", "create", "write",
                                     "link", "recheck", "unlink", "cleanup"}]
          /\ result' \in [Publishers -> {"none", "ok", "exists", "error"}]
      BY <1>7 DEF Write, Goto, Fail
    <3>4. UNCHANGED <<call, temp, names, target, held, stray>>
      BY <1>7 DEF Write
    <3>5. QED
      BY <3>2, <3>3, <3>4
  <2>2. TempsAreOwned' /\ (target # NoInode => Whole(target))'
    BY <1>7 DEF Write, Goto, Fail, TempsAreOwned, OwnFile, Holding, Whole, Bodies
  <2>3. ASSUME NEW q \in Publishers PROVE OwnFile(q)'
    BY <1>7 DEF Write, Goto, Fail, TempsAreOwned, OwnFile, Holding, Whole, Bodies
  <2>4. ASSUME NEW q \in Publishers PROVE Observed(q)'
    BY <1>7 DEF Write, Goto, Fail, OwnFile, Observed, Holding, Bodies
  <2>5. QED
    BY <1>0, <2>1, <2>2, <2>3, <2>4
<1>8. ASSUME NEW p \in Publishers, Link(p) PROVE IInv'
  <2>1. TypeOK'
    <3>1. body[temp[p]].content \in Contents
      BY <1>8 DEF Link, OwnFile, Holding, Calls
    <3>2. CASE UNCHANGED held
      BY <1>8, <3>2 DEF Link, Goto, Fail, SetTarget
    <3>3. CASE SetTarget(temp[p]) /\ Goto(p, "unlink") /\ UNCHANGED result
      BY <1>8, <3>1, <3>3 DEF Link, Goto, SetTarget
    <3>4. QED
      BY <1>8, <3>2, <3>3 DEF Link
  <2>2. TempsAreOwned' /\ (target # NoInode => Whole(target))'
    BY <1>8 DEF Link, Goto, Fail, SetTarget, TempsAreOwned, OwnFile, Holding, Whole, Bodies
  <2>3. ASSUME NEW q \in Publishers PROVE OwnFile(q)'
    BY <1>8 DEF Link, Goto, Fail, SetTarget, TempsAreOwned, OwnFile, Holding, Whole, Bodies
  <2>4. ASSUME NEW q \in Publishers PROVE Observed(q)'
    BY <1>8 DEF Link, Goto, Fail, SetTarget, OwnFile, Observed, Holding, Bodies
  <2>5. QED
    BY <1>0, <2>1, <2>2, <2>3, <2>4
<1>9. ASSUME NEW p \in Publishers, Recheck(p) PROVE IInv'
  <2>1. TypeOK'
    BY <1>9 DEF Recheck, Goto, Fail, Matches, Calls, Bodies, Whole
  <2>2. TempsAreOwned' /\ (target # NoInode => Whole(target))'
    BY <1>9 DEF Recheck, Goto, Fail, Matches, TempsAreOwned, OwnFile, Holding, Whole, Bodies
  <2>3. ASSUME NEW q \in Publishers PROVE OwnFile(q)'
    BY <1>9 DEF Recheck, Goto, Fail, Matches, TempsAreOwned, OwnFile, Holding, Whole, Bodies
  <2>4. ASSUME NEW q \in Publishers PROVE Observed(q)'
    BY <1>9 DEF Recheck, Goto, Fail, Matches, OwnFile, Observed, Holding, Bodies
  <2>5. QED
    BY <1>0, <2>1, <2>2, <2>3, <2>4
<1>10. ASSUME NEW p \in Publishers, Unlink(p) PROVE IInv'
  <2>1. TypeOK'
    BY <1>10 DEF Unlink, Goto, Return, Fail, Calls, Bodies, Whole
  <2>2. TempsAreOwned' /\ (target # NoInode => Whole(target))'
    BY <1>10 DEF Unlink, Goto, Return, Fail, TempsAreOwned, OwnFile, Holding, Whole, Bodies
  <2>3. ASSUME NEW q \in Publishers PROVE OwnFile(q)'
    BY <1>10 DEF Unlink, Goto, Return, Fail, TempsAreOwned, OwnFile, Holding, Whole, Bodies
  <2>4. ASSUME NEW q \in Publishers PROVE Observed(q)'
    BY <1>10 DEF Unlink, Goto, Return, Fail, OwnFile, Observed, Holding, Bodies
  <2>5. QED
    BY <1>0, <2>1, <2>2, <2>3, <2>4
<1>11. ASSUME NEW p \in Publishers, Cleanup(p) PROVE IInv'
  <2>1. TypeOK'
    BY <1>11 DEF Cleanup, Goto, Return, Calls, Bodies, Whole
  <2>2. TempsAreOwned' /\ (target # NoInode => Whole(target))'
    BY <1>11 DEF Cleanup, Goto, Return, TempsAreOwned, OwnFile, Holding, Whole, Bodies
  <2>3. ASSUME NEW q \in Publishers PROVE OwnFile(q)'
    BY <1>11 DEF Cleanup, Goto, Return, TempsAreOwned, OwnFile, Holding, Whole, Bodies
  <2>4. ASSUME NEW q \in Publishers PROVE Observed(q)'
    BY <1>11 DEF Cleanup, Goto, Return, OwnFile, Observed, Holding, Bodies
  <2>5. QED
    BY <1>0, <2>1, <2>2, <2>3, <2>4
<1>12. ASSUME NEW p \in Publishers, Crash(p) PROVE IInv'
  <2>1. TypeOK'
    BY <1>12 DEF Crash, Goto, Return, Calls, Bodies, Whole
  <2>2. TempsAreOwned' /\ (target # NoInode => Whole(target))'
    BY <1>12 DEF Crash, Goto, Return, TempsAreOwned, OwnFile, Holding, Whole, Bodies
  <2>3. ASSUME NEW q \in Publishers PROVE OwnFile(q)'
    BY <1>12 DEF Crash, Goto, Return, TempsAreOwned, OwnFile, Holding, Whole, Bodies
  <2>4. ASSUME NEW q \in Publishers PROVE Observed(q)'
    BY <1>12 DEF Crash, Goto, Return, OwnFile, Observed, Holding, Bodies
  <2>5. QED
    BY <1>0, <2>1, <2>2, <2>3, <2>4
<1>13. QED
  BY <1>1, <1>2, <1>3, <1>4, <1>5, <1>6, <1>7, <1>8, <1>9, <1>10, <1>11, <1>12 DEF Next, Step

LEMMA Invariance == Spec => []IInv
BY InitIInv, StepIInv, PTL DEF Spec

-----------------------------------------------------------------------------
\* Type correctness of the publication state.
THEOREM TypeCorrect == Spec => []TypeOK
<1>1. IInv => TypeOK
  BY DEF IInv
<1>2. QED
  BY <1>1, Invariance, PTL

\* The path holds nothing or a whole artifact that no call is still writing.
THEOREM PathNeverPartial == Spec => []NeverPartial
<1>1. IInv => NeverPartial
  <2> SUFFICES ASSUME IInv PROVE NeverPartial
    OBVIOUS
  <2>1. "partial" # Visible
    BY PartialAssumption DEF IInv, Visible, TypeOK, Bodies
  <2>2. \A p \in Publishers : pc[p] = "write" => target # temp[p]
    BY DEF IInv, OwnFile
  <2>3. QED
    BY <2>1, <2>2 DEF NeverPartial
<1>2. QED
  BY <1>1, Invariance, PTL

\* Whatever temporary names there are belong to a running call each, or were left
\* by a call that died or could not clean up and are never touched again.
THEOREM NamesNeverLost == Spec => []NamesAccountedFor
<1>1. IInv => NamesAccountedFor
  BY DEF IInv
<1>2. QED
  BY <1>1, Invariance, PTL

\* A call that returned Ok has had its own bytes at the path while it ran.
THEOREM OkIsPublished == Spec => []OkMeansPublished
<1>1. IInv => OkMeansPublished
  BY DEF IInv, OkMeansPublished, Observed
<1>2. QED
  BY <1>1, Invariance, PTL

\* A step that leaves the path alone leaves what readers see alone: no call
\* writes the published inode, and no created file is the published one.
LEMMA SameTargetSameView ==
  ASSUME IInv, [Next]_vars, target' = target
  PROVE  Visible' = Visible
<1> USE DEF IInv, TypeOK
<1>1. CASE \E p \in Publishers : CreateTemp(p)
  BY <1>1 DEF CreateTemp, Free, Visible, Whole
<1>2. CASE \E p \in Publishers : Write(p)
  BY <1>2 DEF Write, OwnFile, Visible, Whole
<1>3. CASE UNCHANGED body
  BY <1>3 DEF Visible, Whole
<1>4. QED
  BY <1>1, <1>2, <1>3 DEF Next, Step, vars, Evict, Begin, Compare, Exists, Link, Recheck,
                          Unlink, Cleanup, Crash

\* Every behaviour of the publishers is a behaviour of a write-once path.
THEOREM ImplementsWriteOnce == Spec => WriteOnce
<1>1. Init => Cell!Init
  BY DEF Init, Cell!Init, Visible
<1>2. IInv /\ [Next]_vars => [Cell!Next]_Visible
  <2> SUFFICES ASSUME IInv, [Next]_vars, Visible' # Visible PROVE Cell!Next
    BY DEF Cell!Next
  <2>1. CASE Evict
    BY <2>1, AbsentAssumption, PartialAssumption
       DEF Evict, SetTarget, Visible, Cell!Next, Cell!Evict, IInv, TypeOK, Bodies
  <2>2. ASSUME NEW p \in Publishers, Link(p), target' # target PROVE Cell!Next
    <3>1. /\ target = NoInode /\ target' = temp[p] /\ body' = body
          /\ pc[p] = "link"
      BY <2>2 DEF Link, SetTarget
    <3>2. temp[p] \in Inodes /\ Whole(temp[p])
      BY <3>1 DEF IInv, TypeOK, OwnFile, Holding
    <3>3. Visible = Absent /\ Visible' = body[temp[p]].content
      BY <3>1, <3>2, NoInodeAssumption DEF Visible, Whole
    <3>4. body[temp[p]].content \in Contents
      BY <3>2 DEF IInv, TypeOK, Bodies
    <3>5. QED
      BY <3>3, <3>4 DEF Cell!Next, Cell!Publish
  <2>3. CASE target' = target
    BY <2>3, SameTargetSameView
  <2>4. QED
    BY <2>1, <2>2, <2>3 DEF Next, Step, vars, Begin, Compare, Exists, CreateTemp, Write,
                            Recheck, Unlink, Cleanup, Crash
<1>3. QED
  BY <1>1, <1>2, Invariance, PTL DEF Spec, WriteOnce, Cell!Spec
=============================================================================
