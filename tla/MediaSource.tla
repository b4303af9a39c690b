---------------------------- MODULE MediaSource ----------------------------
(***************************************************************************)
(* MediaSource (source.rs) opened by PlaybackSession::open_with_runtime    *)
(* (engine.rs): the media file is read through a retained handle, its      *)
(* metadata through paths opened anew (source/probe_reader.rs), and the    *)
(* identity of file and path is compared around every pass.  Meanwhile     *)
(* another process renames files over the path or writes in place, which   *)
(* changes the length or the modification time (no change is finer than    *)
(* the file system's time stamps).                                         *)
(***************************************************************************)
EXTENDS Naturals, FiniteSets

CONSTANTS Inodes,     \* files that take turns at the path
          MaxStamp    \* bound: writes in place to each file

VARIABLES path,       \* the file the path names
          stamp,      \* length and modification time of each file
          cancelled,  \* the control is cancelled or past its deadline
          kind,       \* how the container is indexed
          opc,        \* where the opening stands
          handle,     \* MediaSource::file
          identity,   \* MediaSource::identity
          view,       \* the metadata pass in progress: its file, its identity
                      \*   and the versions its bytes came from
          meta,       \* versions the resident metadata came from
          index       \* versions the packet index came from

world == <<path, stamp, cancelled>>
source == <<kind, opc, handle, identity, view, meta, index>>
sourceVars == <<world, source>>

Versions == Inodes \X Nat
\* MP4 metadata resident, MP4 reduced to headers, Matroska.
Containers == {"resident", "compact", "matroska"}
OpenPc == {"file", "view", "viewRead", "viewCheck", "validate", "select",
           "indexRead", "indexCheck", "open", "failed"}

\* MediaSourceIdentity::from_metadata.
Version(i) == <<i, stamp[i]>>

SourceTypeOK ==
  /\ path \in Inodes /\ stamp \in [Inodes -> Nat] /\ cancelled \in BOOLEAN
  /\ kind \in Containers /\ opc \in OpenPc
  /\ handle \in Inodes /\ identity \in Versions
  /\ view \in [pass : {1, 2}, inode : Inodes, id : Versions, seen : SUBSET Versions]
  /\ meta \in SUBSET Versions /\ index \in SUBSET Versions

SourceInit ==
  /\ path \in Inodes /\ stamp = [i \in Inodes |-> 0] /\ cancelled = FALSE
  /\ kind \in Containers /\ opc = "file"
  /\ handle = path /\ identity = Version(path)
  /\ view = [pass |-> 1, inode |-> path, id |-> Version(path), seen |-> {}]
  /\ meta = {} /\ index = {}

-----------------------------------------------------------------------------
\* The comparison in MediaSource::validate_current.
Same == Version(path) = identity /\ Version(handle) = identity

\* MediaSource::validate_current.
Valid == ~cancelled /\ Same

Opening(l) == opc' = l
Failed == opc' = "failed" /\ UNCHANGED <<kind, handle, identity, view, meta, index>>

\* File::open and the identity of the opened file.
OpenFile ==
  /\ opc = "file"
  /\ \/ /\ ~cancelled
        /\ handle' = path /\ identity' = Version(path)
        /\ Opening("view") /\ UNCHANGED <<kind, view, meta, index>>
     \/ Failed
  /\ UNCHANGED world

\* read_metadata_view opens whatever the path names now.
ViewOpen ==
  /\ opc = "view"
  /\ \/ /\ ~cancelled
        /\ view' = [view EXCEPT !.inode = path, !.id = Version(path), !.seen = {}]
        /\ Opening("viewRead") /\ UNCHANGED <<kind, handle, identity, meta, index>>
     \/ Failed
  /\ UNCHANGED world

\* One of its reads, followed by another or not.
ViewRead ==
  /\ opc = "viewRead"
  /\ \/ /\ view' = [view EXCEPT !.seen = @ \cup {Version(view.inode)}]
        /\ \E l \in {"viewRead", "viewCheck"} : Opening(l)
        /\ UNCHANGED <<kind, handle, identity, meta, index>>
     \/ Failed
  /\ UNCHANGED world

\* Slip: the metadata pass trusts that nothing changed under it.
UnchangedViewTrusted == TRUE

UnchangedView == Version(view.inode) = view.id /\ Version(path) = view.id

ViewCheck ==
  /\ opc = "viewCheck"
  /\ \/ /\ UnchangedView /\ ~cancelled
        /\ IF view.pass = 1 THEN meta' = view.seen /\ UNCHANGED index
           ELSE index' = view.seen /\ UNCHANGED meta
        /\ Opening("validate") /\ UNCHANGED <<kind, handle, identity, view>>
     \/ Failed
  /\ UNCHANGED world

\* The end of open_with_context and, in its second pass, of
\* mp4_metadata_for_tracks; resident metadata is indexed as it is.
OpenValidate ==
  /\ opc = "validate"
  /\ \/ /\ Valid
        /\ Opening(IF kind = "resident" \/ view.pass = 2 THEN "open" ELSE "select")
        /\ index' = IF kind = "resident" THEN meta ELSE index
        /\ UNCHANGED <<kind, handle, identity, view, meta>>
     \/ Failed
  /\ UNCHANGED world

\* mp4_metadata_for_tracks reads the selected tables of a compact MP4 by path;
\* MatroskaFileIndex::open walks the clusters through the retained handle.
Select ==
  /\ opc = "select"
  /\ \/ /\ Valid
        /\ Opening(IF kind = "compact" THEN "view" ELSE "indexRead")
        /\ view' = [view EXCEPT !.pass = 2]
        /\ UNCHANGED <<kind, handle, identity, meta, index>>
     \/ Failed
  /\ UNCHANGED world

IndexRead ==
  /\ opc = "indexRead"
  /\ \/ /\ ~cancelled
        /\ index' = index \cup {Version(handle)}
        /\ \E l \in {"indexRead", "indexCheck"} : Opening(l)
        /\ UNCHANGED <<kind, handle, identity, view, meta>>
     \/ Failed
  /\ UNCHANGED world

IndexCheck ==
  /\ opc = "indexCheck"
  /\ \/ Valid /\ Opening("open") /\ UNCHANGED <<kind, handle, identity, view, meta, index>>
     \/ Failed
  /\ UNCHANGED world

OpenStep ==
  \/ OpenFile \/ ViewOpen \/ ViewRead \/ ViewCheck \/ OpenValidate \/ Select
  \/ IndexRead \/ IndexCheck

-----------------------------------------------------------------------------
\* The rest of the world.
Rename ==
  /\ path' \in Inodes \ {path}
  /\ UNCHANGED <<stamp, cancelled, source>>

WriteInPlace(i) ==
  /\ stamp[i] < MaxStamp
  /\ stamp' = [stamp EXCEPT ![i] = @ + 1]
  /\ UNCHANGED <<path, cancelled, source>>

Cancel ==
  /\ ~cancelled /\ cancelled' = TRUE
  /\ UNCHANGED <<path, stamp, source>>

WorldStep == Rename \/ Cancel \/ \E i \in Inodes : WriteInPlace(i)

-----------------------------------------------------------------------------
\* No metadata pass of an open source mixes two versions, whatever was renamed
\* or written while it read, and a Matroska index comes from the opened one.
UntornMetadata ==
  opc = "open" =>
    /\ Cardinality(meta) = 1 /\ Cardinality(index) = 1
    /\ kind = "matroska" => index = {identity}

\* "Opens a source once and parses the selected packet index once" (engine.rs):
\* what an open source knows of the file comes from the version it opened.
OpenedOnce == opc = "open" => meta = {identity} /\ index = {identity}
=============================================================================
