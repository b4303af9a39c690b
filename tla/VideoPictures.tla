--------------------------- MODULE VideoPictures ---------------------------
(***************************************************************************)
(* The pictures of a re-encoded segment (transcode_h264_video_segment in   *)
(* transcode/segment.rs, transcode/video_decode.rs): packets go to a       *)
(* retained decoder in batches, the pictures it returns are put in the     *)
(* order they are shown in and encoded, and the segment's last batch       *)
(* drains the decoder.                                                     *)
(*                                                                         *)
(* A decoder is external.  It returns pictures in the order they are shown *)
(* in, the last ones only when it is drained, and makes no picture of a    *)
(* leading one (RASL) whose references it never had.  The sessions around  *)
(* it join its pictures with the times of packets: by a token (the         *)
(* hardware decoders, dav1d), or by taking the earliest time that waits    *)
(* (OpenH264, rust_h265).                                                  *)
(*                                                                         *)
(* Of a source s this needs the packets of a batch, the pictures the       *)
(* decoder holds back, whether the session goes byOrder, and leading: for  *)
(* every leading picture, the random access point that it leads up to.     *)
(***************************************************************************)
EXTENDS PacketTimeline, FiniteSets, SequencesExt

None == -1

\* completed is last_completed_index; since is the first picture of those the
\* decoder has had without a gap; frames are those of the segment completed.
NewVideo == [completed |-> None, poisoned |-> FALSE, since |-> None, frames |-> <<>>]

\* prepare_for: only the pipeline that completed the segment before goes on.
PreparedVideo(v, i) ==
  IF v.poisoned \/ (v.completed # None /\ v.completed + 1 # i) THEN NewVideo ELSE v

Keys(packets, n) == {m \in 1 .. n : packets[m].key}

\* Slip: leading pictures are skipped at the start of every segment.
SkipsAlways(s, v, packets, n) ==
  packets[n].offset \in DOMAIN s.leading /\ Cardinality(Keys(packets, n)) <= 1

\* skip_initial_rasl: a new decoder skips the leading pictures of its first
\* random access point.
Skips(s, v, packets, n) ==
  /\ v.completed = None /\ packets[n].offset \in DOMAIN s.leading
  /\ Cardinality(Keys(packets, n)) <= 1

\* The references of a leading picture come before its random access point.
HasReferences(s, since, packet) ==
  packet.offset \in DOMAIN s.leading => s.leading[packet.offset] > since

\* The decoder has had the pictures from here on, when it gets a segment.
DecodesSince(v, packets) == IF v.since = None THEN packets[1].offset ELSE v.since

-----------------------------------------------------------------------------
(***************************************************************************)
(* A session: the packets held as pictures, those whose times are pending, *)
(* the frames of the batch, and all that were encoded.                     *)
(***************************************************************************)
Opened == [held |-> {}, pending |-> {}, frames |-> <<>>, encoded |-> <<>>]

Earliest(packets) == CHOOSE p \in packets : \A q \in packets : p.pts <= q.pts

\* The decoder returns a picture, which gets the time of a packet.
Returned(d, s) ==
  LET picture == Earliest(d.held)
      timing == IF s.byOrder THEN Earliest(d.pending) ELSE picture
  IN  [d EXCEPT !.held = @ \ {picture}, !.pending = @ \ {timing},
                !.frames = Append(@, [picture |-> picture.offset, due |-> picture.pts,
                                      at |-> timing.pts, sync |-> timing.key])]

Sent(d, s, packet, decodable) ==
  LET sent == [d EXCEPT !.pending = @ \cup {packet},
                        !.held = IF decodable THEN @ \cup {packet} ELSE @]
  IN  IF Cardinality(sent.held) > s.hold THEN Returned(sent, s) ELSE sent

Drained(d, s) ==
  LET after[n \in 0 .. Cardinality(d.held)] ==
        IF n = 0 THEN d ELSE Returned(after[n - 1], s)
  IN  after[Cardinality(d.held)]

\* sort_by_key keeps the order of frames of the same time: the n-th frame is the one
\* that has n - 1 before it.
InOrder(frames) ==
  LET before(k) == {j \in DOMAIN frames : \/ frames[j].at < frames[k].at
                                          \/ frames[j].at = frames[k].at /\ j < k}
      nth(n) == CHOOSE k \in DOMAIN frames : Cardinality(before(k)) = n - 1
  IN  [n \in DOMAIN frames |-> frames[nth(n)]]

\* Slip: only frames that were keyframes become sync frames.
EncodedAsIs(d) == [d EXCEPT !.frames = <<>>, !.encoded = @ \o InOrder(d.frames)]

\* A batch's frames in the order of their times; the first frame of a segment
\* becomes a sync frame.
Encoded(d) ==
  LET sorted == InOrder(d.frames)
  IN  [d EXCEPT !.frames = <<>>,
                !.encoded = @ \o [n \in DOMAIN sorted |->
                  [sorted[n] EXCEPT !.sync = @ \/ (d.encoded = <<>> /\ n = 1)]]]

\* The segment's n-th packet; a batch ends with it, or the segment.
Stepped(d, s, v, packets, n) ==
  LET packet == packets[n]
      sent == IF Skips(s, v, packets, n) THEN d
              ELSE Sent(d, s, packet, HasReferences(s, DecodesSince(v, packets), packet))
  IN  IF n = Len(packets) THEN Encoded(Drained(sent, s))
      ELSE IF n % s.batch = 0 THEN Encoded(sent)
      ELSE sent
DecodedPictures(s, v, packets) ==
  LET after[n \in 0 .. Len(packets)] ==
        IF n = 0 THEN Opened ELSE Stepped(after[n - 1], s, v, packets, n)
  IN  after[Len(packets)]

\* A time left over after draining fails the segment, and so does one without a
\* picture.
VideoFails(d) == d.pending # {} \/ d.encoded = <<>>
=============================================================================
