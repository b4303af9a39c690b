----------------------- MODULE PlaybackSessionProofs -----------------------
(***************************************************************************)
(* What an open playback session returns comes from one version of a file, *)
(* for any number of files, writes, threads and calls.  Stamps only grow:  *)
(* whatever was read between two equal looks at a file's identity is of    *)
(* the version both looks saw.                                             *)
(***************************************************************************)
EXTENDS PlaybackSession, FiniteSetTheorems, TLAPS

\* S holds versions of v's file, none older than v and none still to come.
Since(S, v) ==
  \A u \in S : u[1] = v[1] /\ v[2] <= u[2] /\ u[2] <= stamp[v[1]]

One(S) == \E v \in Versions : S = {v}

\* What was opened is a version its file has had.
Opened == identity[1] = handle /\ identity[2] <= stamp[handle]

\* A metadata pass has read its file since its first look.
ViewAt ==
  /\ view.id[1] = view.inode /\ view.id[2] <= stamp[view.inode]
  /\ opc \in {"viewRead", "viewCheck"} => Since(view.seen, view.id)
  /\ opc = "viewCheck" => view.seen # {}
  /\ view.pass = 2 /\ opc \in {"view", "viewRead", "viewCheck", "validate"}
       => kind = "compact"
  /\ opc = "select" => kind # "resident"
  /\ opc \in {"file", "select"} => view.pass = 1

MetaAt ==
  opc \in {"validate", "select", "indexRead", "indexCheck", "open"} \/ view.pass = 2
    => One(meta)

\* The index is empty until its pass, then of one version; that of a Matroska
\* file is read from the handle since the opening.
IndexAt ==
  /\ view.pass = 1 /\ opc # "open" => index = {}
  /\ opc = "validate" /\ view.pass = 2 => One(index)
  /\ opc \in {"indexRead", "indexCheck"} =>
       view.pass = 2 /\ kind = "matroska" /\ Since(index, identity)
  /\ opc = "indexCheck" => index # {}
  /\ opc = "open" => One(index) /\ (kind = "matroska" => index = {identity})

\* A call reads the handle, and answers only when it is over.
CallAt(t) ==
  /\ opc # "open" => pc[t] = "idle" /\ result[t] = "none"
  /\ pc[t] # "idle" => result[t] = "none"
  /\ pc[t] \in {"validate", "lookup", "before"} => got[t] = {}
  /\ pc[t] \in {"before", "read"} => left[t] > 0
  /\ pc[t] \in {"read", "after"} => Since(got[t], identity)
  /\ pc[t] = "after" => got[t] # {}
  /\ result[t] = "ok" => got[t] = {identity}

IInv == TypeOK /\ Opened /\ ViewAt /\ MetaAt /\ IndexAt /\ \A t \in Threads : CallAt(t)

-----------------------------------------------------------------------------
\* Bytes read since a version was seen, until it is seen again, are its own.
LEMMA SeenTwice ==
  ASSUME SourceTypeOK, NEW i \in Inodes, NEW S \in SUBSET Versions,
         S # {}, Since(S, Version(i))
  PROVE  S = {Version(i)}
<1>1. \A u \in S : u = Version(i)
  <2>1. SUFFICES ASSUME NEW u \in S PROVE u = Version(i)
    OBVIOUS
  <2>2. u \in Inodes \X Nat /\ stamp[i] \in Nat
    BY DEF Versions, SourceTypeOK
  <2>3. u[1] = i /\ stamp[i] <= u[2] /\ u[2] <= stamp[i]
    BY DEF Since, Version
  <2>4. QED
    BY <2>2, <2>3 DEF Version
<1>2. QED
  BY <1>1

LEMMA VersionType ==
  ASSUME SourceTypeOK, NEW i \in Inodes
  PROVE  Version(i) \in Versions
BY DEF SourceTypeOK, Version, Versions

\* A set of versions that grows by the present one is still since v.
LEMMA SinceGrows ==
  ASSUME SourceTypeOK, NEW S \in SUBSET Versions, NEW v \in Versions,
         Since(S, v), v[2] <= stamp[v[1]]
  PROVE  Since(S \cup {Version(v[1])}, v)
<1>1. v[1] \in Inodes /\ v[2] \in Nat /\ stamp[v[1]] \in Nat
  BY DEF Versions, SourceTypeOK
<1>2. QED
  BY <1>1 DEF Since, Version

\* The world only moves stamps on.
LEMMA SinceStays ==
  ASSUME SourceTypeOK, NEW S \in SUBSET Versions, NEW v \in Versions,
         \A i \in Inodes : stamp'[i] \in Nat /\ stamp[i] <= stamp'[i], Since(S, v)
  PROVE  Since(S, v)'
<1>1. v[1] \in Inodes /\ stamp[v[1]] \in Nat /\ stamp'[v[1]] \in Nat
  BY DEF Versions, SourceTypeOK
<1>2. \A u \in S : u[2] \in Nat
  BY DEF Versions
<1>3. QED
  BY <1>1, <1>2 DEF Since

LEMMA Initially == Init => IInv
<1>1. SUFFICES ASSUME Init PROVE IInv
  OBVIOUS
<1>2. path \in Inodes /\ stamp[path] = 0 /\ Version(path) = <<path, 0>>
  BY <1>1 DEF Init, SourceInit, Version
<1>3. TypeOK
  <2>1. path \in Inodes /\ stamp \in [Inodes -> Nat] /\ Version(path) \in Versions
    BY <1>1, <1>2 DEF Init, SourceInit, Versions
  <2>2. SourceTypeOK
    BY <1>1, <2>1 DEF Init, SourceInit, SourceTypeOK, Containers, OpenPc
  <2>3. QED
    BY <1>1, <2>2 DEF Init, TypeOK, CallPc, Results
<1>4. QED
  BY <1>1, <1>2, <1>3 DEF Init, SourceInit, IInv, Opened, ViewAt, MetaAt, IndexAt, CallAt

LEMMA Inductive == IInv /\ [Next]_vars => IInv'
<1> SUFFICES ASSUME IInv, [Next]_vars PROVE IInv'
  OBVIOUS
<1> USE DEF IInv
<1>0. SourceTypeOK /\ TypeOK
  BY DEF TypeOK
<1>1. CASE OpenStep /\ UNCHANGED callVars
  <2>0. UNCHANGED callVars /\ opc # "open" /\ UNCHANGED world
    BY <1>1 DEF OpenStep, OpenFile, ViewOpen, ViewRead, ViewCheck, OpenValidate, Select,
       IndexRead, IndexCheck
  <2>f. ASSUME Failed PROVE IInv'
    <3>1. TypeOK'
      BY <1>0, <2>0, <2>f DEF Failed, TypeOK, SourceTypeOK, callVars, world, OpenPc
    <3>2. QED
      BY <3>1, <2>0, <2>f DEF Failed, Opened, ViewAt, MetaAt, IndexAt, CallAt, callVars, world, Since, One
  <2>i. \A t \in Threads : pc[t] = "idle" /\ result[t] = "none"
    BY <2>0 DEF CallAt
  <2>t. ASSUME SourceTypeOK' PROVE TypeOK' /\ \A t \in Threads : CallAt(t)'
    BY <2>i, <2>0, <2>t, <1>0 DEF TypeOK, CallAt, callVars
  <2> USE DEF Opening
  <2>1. CASE OpenFile
    <3>1. CASE Failed
      BY <3>1, <2>f
    <3>2. CASE ~Failed
      <4>1. /\ handle' = path /\ identity' = Version(path) /\ opc' = "view" /\ opc = "file"
            /\ UNCHANGED <<kind, view, meta, index, path, stamp, cancelled>>
        BY <3>2, <2>1, <2>0 DEF OpenFile, world
      <4>2. SourceTypeOK'
        BY <4>1, <1>0, VersionType DEF SourceTypeOK, OpenPc
      <4>3. QED
        BY <4>1, <4>2, <2>t, <2>i, <1>0 DEF Opened, ViewAt, MetaAt, IndexAt, Version, SourceTypeOK, Since, One
    <3>3. QED
      BY <3>1, <3>2
  <2>2. CASE ViewOpen
    <3>1. CASE Failed
      BY <3>1, <2>f
    <3>2. CASE ~Failed
      <4>1. /\ view' = [view EXCEPT !.inode = path, !.id = Version(path), !.seen = {}]
            /\ opc' = "viewRead" /\ opc = "view"
            /\ UNCHANGED <<kind, handle, identity, meta, index, path, stamp, cancelled>>
        BY <3>2, <2>2, <2>0 DEF ViewOpen, world
      <4>2. SourceTypeOK'
        BY <4>1, <1>0, VersionType DEF SourceTypeOK, OpenPc
      <4>3. /\ view'.pass = view.pass /\ view'.inode = path /\ view'.seen = {}
            /\ view'.id = <<path, stamp[path]>> /\ stamp[path] \in Nat
        BY <4>1, <1>0 DEF SourceTypeOK, Version
      <4>4. QED
        BY <4>1, <4>2, <4>3, <2>t, <2>i DEF Opened, ViewAt, MetaAt, IndexAt, Since, One
    <3>3. QED
      BY <3>1, <3>2
  <2>3. CASE ViewRead
    <3>1. CASE Failed
      BY <3>1, <2>f
    <3>2. CASE ~Failed
      <4>1. /\ view' = [view EXCEPT !.seen = @ \cup {Version(view.inode)}]
            /\ opc' \in {"viewRead", "viewCheck"} /\ opc = "viewRead"
            /\ UNCHANGED <<kind, handle, identity, meta, index, path, stamp, cancelled>>
        BY <3>2, <2>3, <2>0 DEF ViewRead, world
      <4>2. view.inode \in Inodes /\ view.id \in Versions /\ view.seen \in SUBSET Versions
        BY <1>0 DEF SourceTypeOK
      <4>3. SourceTypeOK'
        BY <4>1, <4>2, <1>0, VersionType DEF SourceTypeOK, OpenPc
      <4>4. Since(view.seen \cup {Version(view.inode)}, view.id)
        BY <4>1, <4>2, <1>0, SinceGrows DEF ViewAt
      <4>5. /\ view'.pass = view.pass /\ view'.inode = view.inode /\ view'.id = view.id
            /\ view'.seen = view.seen \cup {Version(view.inode)}
        BY <4>1, <1>0 DEF SourceTypeOK
      <4>6. ViewAt'
        BY <4>1, <4>4, <4>5 DEF ViewAt, Since
      <4>7. QED
        BY <4>1, <4>3, <4>5, <4>6, <2>t, <2>i DEF Opened, MetaAt, IndexAt, Since, One
    <3>3. QED
      BY <3>1, <3>2
  <2>4. CASE ViewCheck
    <3>1. CASE Failed
      BY <3>1, <2>f
    <3>2. CASE ~Failed
      <4>1. /\ UnchangedView /\ opc = "viewCheck" /\ opc' = "validate"
            /\ IF view.pass = 1 THEN meta' = view.seen /\ UNCHANGED index
               ELSE index' = view.seen /\ UNCHANGED meta
            /\ UNCHANGED <<kind, handle, identity, view, path, stamp, cancelled>>
        BY <3>2, <2>4, <2>0 DEF ViewCheck, world
      <4>2. /\ view.inode \in Inodes /\ view.seen \in SUBSET Versions
            /\ view.pass \in {1, 2} /\ view.id = Version(view.inode)
        BY <4>1, <1>0 DEF SourceTypeOK, UnchangedView
      <4>3. view.seen = {Version(view.inode)}
        BY <4>1, <4>2, <1>0, SeenTwice DEF ViewAt
      <4>4. One(view.seen)
        BY <4>2, <4>3, <1>0, VersionType DEF One
      <4>5. SourceTypeOK'
        BY <4>1, <4>2, <1>0 DEF SourceTypeOK, OpenPc
      <4>6. QED
        BY <4>1, <4>2, <4>4, <4>5, <2>t, <2>i DEF Opened, ViewAt, MetaAt, IndexAt, Since, One
    <3>3. QED
      BY <3>1, <3>2
  <2>5. CASE OpenValidate
    <3>1. CASE Failed
      BY <3>1, <2>f
    <3>2. CASE ~Failed
      <4>1. /\ opc = "validate" /\ opc' = (IF kind = "resident" \/ view.pass = 2 THEN "open" ELSE "select")
            /\ index' = (IF kind = "resident" THEN meta ELSE index)
            /\ UNCHANGED <<kind, handle, identity, view, meta, path, stamp, cancelled>>
        BY <3>2, <2>5, <2>0 DEF OpenValidate, world
      <4>2. SourceTypeOK'
        BY <4>1, <1>0 DEF SourceTypeOK, OpenPc
      <4>3. view.pass \in {1, 2}
        BY <1>0 DEF SourceTypeOK
      <4>4. QED
        BY <4>1, <4>2, <4>3, <2>t, <2>i DEF Opened, ViewAt, MetaAt, IndexAt, Since, One
    <3>3. QED
      BY <3>1, <3>2
  <2>6. CASE Select
    <3>1. CASE Failed
      BY <3>1, <2>f
    <3>2. CASE ~Failed
      <4>1. /\ opc = "select" /\ opc' = (IF kind = "compact" THEN "view" ELSE "indexRead")
            /\ view' = [view EXCEPT !.pass = 2]
            /\ UNCHANGED <<kind, handle, identity, meta, index, path, stamp, cancelled>>
        BY <3>2, <2>6, <2>0 DEF Select, world
      <4>2. SourceTypeOK'
        BY <4>1, <1>0 DEF SourceTypeOK, OpenPc
      <4>3. /\ view'.pass = 2 /\ view'.inode = view.inode /\ view'.id = view.id
            /\ view'.seen = view.seen
        BY <4>1, <1>0 DEF SourceTypeOK
      <4>4. kind \in {"compact", "matroska"} /\ index = {}
        BY <4>1, <1>0 DEF SourceTypeOK, Containers, ViewAt, IndexAt
      <4>5. QED
        BY <4>1, <4>2, <4>3, <4>4, <2>t, <2>i DEF Opened, ViewAt, MetaAt, IndexAt, Since, One
    <3>3. QED
      BY <3>1, <3>2
  <2>7. CASE IndexRead
    <3>1. CASE Failed
      BY <3>1, <2>f
    <3>2. CASE ~Failed
      <4>1. /\ opc = "indexRead" /\ opc' \in {"indexRead", "indexCheck"}
            /\ index' = index \cup {Version(handle)}
            /\ UNCHANGED <<kind, handle, identity, view, meta, path, stamp, cancelled>>
        BY <3>2, <2>7, <2>0 DEF IndexRead, world
      <4>2. handle \in Inodes /\ identity \in Versions /\ index \in SUBSET Versions
        BY <1>0 DEF SourceTypeOK
      <4>3. SourceTypeOK'
        BY <4>1, <4>2, <1>0, VersionType DEF SourceTypeOK, OpenPc
      <4>4. Since(index \cup {Version(handle)}, identity)
        BY <4>1, <4>2, <1>0, SinceGrows DEF Opened, IndexAt
      <4>5. view.pass = 2
        BY <4>1, <4>2 DEF IndexAt
      <4>6. QED
        BY <4>1, <4>3, <4>4, <2>t, <2>i DEF Opened, ViewAt, MetaAt, IndexAt, Since, One
    <3>3. QED
      BY <3>1, <3>2
  <2>8. CASE IndexCheck
    <3>1. CASE Failed
      BY <3>1, <2>f
    <3>2. CASE ~Failed
      <4>1. /\ opc = "indexCheck" /\ opc' = "open" /\ Valid
            /\ UNCHANGED <<kind, handle, identity, view, meta, index, path, stamp, cancelled>>
        BY <3>2, <2>8, <2>0 DEF IndexCheck, world
      <4>2. SourceTypeOK'
        BY <4>1, <1>0 DEF SourceTypeOK, OpenPc
      <4>3. handle \in Inodes /\ identity \in Versions /\ index \in SUBSET Versions
        BY <1>0 DEF SourceTypeOK
      <4>4. identity = Version(handle)
        BY <4>1 DEF Valid, Same
      <4>5. index = {identity}
        BY <4>1, <4>3, <4>4, <1>0, SeenTwice DEF IndexAt
      <4>6. One(index)
        BY <4>3, <4>5 DEF One
      <4>7. QED
        BY <4>1, <4>2, <4>5, <4>6, <2>t, <2>i DEF Opened, ViewAt, MetaAt, IndexAt, Since, One
    <3>3. QED
      BY <3>1, <3>2
  <2>9. QED
    BY <1>1, <2>1, <2>2, <2>3, <2>4, <2>5, <2>6, <2>7, <2>8 DEF OpenStep
<1>2. CASE WorldStep /\ UNCHANGED callVars
  <2>1. /\ UNCHANGED <<kind, opc, handle, identity, view, meta, index>>
        /\ UNCHANGED <<pc, left, got, result, stats, calls>>
    BY <1>2 DEF WorldStep, Rename, WriteInPlace, Cancel, source, callVars
  <2>2. /\ path' \in Inodes /\ cancelled' \in BOOLEAN
        /\ stamp' \in [Inodes -> Nat]
        /\ \A i \in Inodes : stamp'[i] \in Nat /\ stamp[i] \in Nat /\ stamp[i] <= stamp'[i]
    <3>1. CASE Rename
      BY <3>1, <1>0 DEF Rename, SourceTypeOK
    <3>2. CASE Cancel
      BY <3>2, <1>0 DEF Cancel, SourceTypeOK
    <3>3. ASSUME NEW i \in Inodes, WriteInPlace(i)
          PROVE  /\ path' \in Inodes /\ cancelled' \in BOOLEAN
                 /\ stamp' \in [Inodes -> Nat]
                 /\ \A j \in Inodes : stamp'[j] \in Nat /\ stamp[j] \in Nat /\ stamp[j] <= stamp'[j]
      BY <3>3, <1>0 DEF WriteInPlace, SourceTypeOK
    <3>4. QED
      BY <1>2, <3>1, <3>2, <3>3 DEF WorldStep
  <2>3. TypeOK'
    BY <1>0, <2>1, <2>2 DEF TypeOK, SourceTypeOK
  <2>4. /\ view.seen \in SUBSET Versions /\ view.id \in Versions /\ identity \in Versions
        /\ index \in SUBSET Versions /\ handle \in Inodes /\ view.inode \in Inodes
        /\ identity[2] \in Nat /\ view.id[2] \in Nat
        /\ \A t \in Threads : got[t] \in SUBSET Versions
    BY <1>0 DEF TypeOK, SourceTypeOK, Versions
  <2>5. Opened'
    BY <2>1, <2>2, <2>4 DEF Opened
  <2>6. ViewAt'
    <3>1. Since(view.seen, view.id) => Since(view.seen, view.id)'
      BY <1>0, <2>1, <2>2, <2>4, SinceStays
    <3>2. view'.id[1] = view'.inode /\ view'.id[2] <= stamp'[view'.inode]
      BY <2>1, <2>2, <2>4 DEF ViewAt
    <3>3. QED
      BY <2>1, <3>1, <3>2 DEF ViewAt
  <2>7. MetaAt'
    BY <2>1 DEF MetaAt, One
  <2>8. IndexAt'
    <3>1. Since(index, identity) => Since(index, identity)'
      BY <1>0, <2>1, <2>2, <2>4, SinceStays
    <3>2. QED
      BY <2>1, <3>1 DEF IndexAt, One
  <2>9. ASSUME NEW t \in Threads PROVE CallAt(t)'
    <3>1. Since(got[t], identity) => Since(got[t], identity)'
      BY <1>0, <2>1, <2>2, <2>4, SinceStays
    <3>2. QED
      BY <2>1, <3>1 DEF CallAt
  <2>10. QED
    BY <2>3, <2>5, <2>6, <2>7, <2>8, <2>9
<1>3. ASSUME NEW t \in Threads, Call(t) PROVE IInv'
  <2>1. UNCHANGED <<path, stamp, cancelled, kind, opc, handle, identity, view, meta, index>>
    BY <1>3 DEF Call, Segment, ValidateCall, Lookup, ValidateBefore, ReadSpan, ValidateAfter,
       sourceVars, world, source
  <2>2. SourceTypeOK' /\ Opened' /\ ViewAt' /\ MetaAt' /\ IndexAt'
    BY <2>1, <1>0 DEF SourceTypeOK, Opened, ViewAt, MetaAt, IndexAt, Since, One, Versions
  <2>3. /\ handle \in Inodes /\ identity \in Versions /\ got[t] \in SUBSET Versions
        /\ left[t] \in Nat /\ \A s \in Spans : s \in Nat /\ s > 0
    BY <1>0, SpansAssumption DEF TypeOK, SourceTypeOK
  <2>4. opc = "open"
    BY <1>3 DEF Call, Segment, ValidateCall, Lookup, ValidateBefore, ReadSpan, ValidateAfter, CallAt
  <2>s. \A u \in Threads : Since(got[u], identity) /\ got'[u] = got[u] => Since(got[u], identity)'
    BY <2>1 DEF Since
  <2>o. ASSUME NEW u \in Threads, u # t,
               pc'[u] = pc[u], left'[u] = left[u], got'[u] = got[u], result'[u] = result[u]
        PROVE  CallAt(u)'
    BY <2>o, <2>1, <2>s DEF CallAt
  <2> USE DEF Goto, Return
  <2>5. CASE Segment(t)
    <3>1. TypeOK'
      BY <2>5, <2>2, <1>0 DEF Segment, TypeOK, CallPc, Results
    <3>2. CallAt(t)'
      BY <2>5, <2>1, <2>4, <1>0 DEF Segment, CallAt, TypeOK
    <3>3. QED
      BY <3>1, <3>2, <2>2, <2>5, <2>o, <1>0 DEF Segment, TypeOK
  <2>6. CASE ValidateCall(t)
    <3>1. TypeOK'
      BY <2>6, <2>2, <1>0 DEF ValidateCall, TypeOK, CallPc, Results
    <3>2. CallAt(t)'
      BY <2>6, <2>1, <2>4, <1>0 DEF ValidateCall, CallAt, TypeOK
    <3>3. QED
      BY <3>1, <3>2, <2>2, <2>6, <2>o, <1>0 DEF ValidateCall, TypeOK
  <2>7. CASE Lookup(t)
    <3>1. TypeOK'
      BY <2>7, <2>2, <2>3, <1>0 DEF Lookup, TypeOK, CallPc, Results
    <3>2. CallAt(t)'
      BY <2>7, <2>1, <2>3, <2>4, <1>0 DEF Lookup, CallAt, TypeOK
    <3>3. QED
      BY <3>1, <3>2, <2>2, <2>7, <2>o, <1>0 DEF Lookup, TypeOK
  <2>8. CASE ValidateBefore(t)
    <3>1. TypeOK'
      BY <2>8, <2>2, <1>0 DEF ValidateBefore, TypeOK, CallPc, Results
    <3>2. CallAt(t)'
      BY <2>8, <2>1, <2>4, <1>0 DEF ValidateBefore, CallAt, TypeOK, Since
    <3>3. QED
      BY <3>1, <3>2, <2>2, <2>8, <2>o, <1>0 DEF ValidateBefore, TypeOK
  <2>9. CASE ReadSpan(t)
    <3>1. TypeOK'
      <4>1. left[t] > 0
        BY <2>9 DEF ReadSpan, CallAt
      <4>2. Version(handle) \in Versions
        BY <1>0, <2>3, VersionType
      <4>3. QED
        BY <2>9, <4>1, <4>2, <2>2, <2>3, <1>0 DEF ReadSpan, TypeOK, CallPc, Results
    <3>2. CallAt(t)'
      <4>1. Since(got[t] \cup {Version(handle)}, identity)
        BY <2>9, <2>3, <1>0, SinceGrows DEF ReadSpan, CallAt, Opened
      <4>2. CASE Return(t, "Source") /\ UNCHANGED <<got, left>>
        BY <4>2, <2>9, <2>1, <2>4, <1>0 DEF ReadSpan, CallAt, TypeOK
      <4>3. CASE ~(Return(t, "Source") /\ UNCHANGED <<got, left>>)
        <5>1. /\ got'[t] = got[t] \cup {Version(handle)} /\ left'[t] = left[t] - 1
              /\ pc'[t] = (IF left[t] = 1 THEN "after" ELSE "read")
              /\ result'[t] = "none" /\ left[t] > 0
          BY <4>3, <2>9, <1>0 DEF ReadSpan, CallAt, TypeOK
        <5>2. Since(got[t], identity)'
          BY <5>1, <4>1, <2>1 DEF Since
        <5>3. QED
          BY <5>1, <5>2, <2>3, <2>1, <2>4 DEF CallAt
      <4>4. QED
        BY <4>2, <4>3
    <3>3. QED
      BY <3>1, <3>2, <2>2, <2>9, <2>o, <1>0 DEF ReadSpan, TypeOK
  <2>10. CASE ValidateAfter(t)
    <3>1. TypeOK'
      BY <2>10, <2>2, <1>0 DEF ValidateAfter, TypeOK, CallPc, Results
    <3>2. CallAt(t)'
      <4>1. Valid => got[t] = {identity}
        <5>1. Valid => identity = Version(handle)
          BY DEF Valid, Same
        <5>2. Since(got[t], identity) /\ got[t] # {}
          BY <2>10 DEF ValidateAfter, CallAt
        <5>3. QED
          BY <5>1, <5>2, <2>3, <1>0, SeenTwice
      <4>2. QED
        BY <4>1, <2>10, <2>1, <2>4, <1>0 DEF ValidateAfter, CallAt, TypeOK
    <3>3. QED
      BY <3>1, <3>2, <2>2, <2>10, <2>o, <1>0 DEF ValidateAfter, TypeOK
  <2>11. QED
    BY <1>3, <2>5, <2>6, <2>7, <2>8, <2>9, <2>10 DEF Call
<1>4. CASE UNCHANGED vars
  BY <1>4 DEF vars, sourceVars, world, source, callVars, TypeOK, SourceTypeOK, Opened, ViewAt,
     MetaAt, IndexAt, CallAt, Since, One, Versions
<1>5. QED
  BY <1>1, <1>2, <1>3, <1>4 DEF Next

-----------------------------------------------------------------------------
\* The inductive invariant holds for any files, writes, threads and calls.
THEOREM Invariance == Spec => []IInv
<1>1. Init => IInv
  BY Initially
<1>2. IInv /\ [Next]_vars => IInv'
  BY Inductive
<1>3. QED
  BY <1>1, <1>2, PTL DEF Spec

\* Type correctness.
THEOREM TypeCorrect == Spec => []TypeOK
<1>1. IInv => TypeOK
  BY DEF IInv
<1>2. QED
  BY <1>1, Invariance, PTL

\* Neither metadata pass of MediaSource::open mixes versions, and the Matroska
\* index is that of the opened file.
THEOREM MetadataIsWhole == Spec => []UntornMetadata
<1>1. ASSUME NEW v PROVE Cardinality({v}) = 1
  BY FS_Singleton
<1>2. IInv => UntornMetadata
  BY <1>1 DEF IInv, MetaAt, IndexAt, One, UntornMetadata
<1>3. QED
  BY <1>2, Invariance, PTL

\* Every payload PlaybackSession::segment returns is of the opened version.
THEOREM PayloadIsWhole == Spec => []PayloadIsOriginal
<1>1. IInv => PayloadIsOriginal
  BY DEF IInv, CallAt, PayloadIsOriginal
<1>2. QED
  BY <1>1, Invariance, PTL
=============================================================================
