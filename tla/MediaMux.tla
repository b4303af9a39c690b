------------------------------ MODULE MediaMux ------------------------------
(***************************************************************************)
(* What one HLS segment is made of (hls/mod.rs, hls/transport_stream.rs,   *)
(* fmp4/mod.rs, fmp4/validation.rs): the packets of a window, the stamps   *)
(* they get, the size that is checked before and the bytes written after.  *)
(* A track is a record of its packets, its timescale, whether it is the    *)
(* video track and, for the video codecs, the length in bytes of a NAL     *)
(* unit's size field, its NAL units per sample and its parameter sets; and *)
(* the file it is read from, which names the bytes of its samples.         *)
(***************************************************************************)
EXTENDS PacketTimeline, FiniteSets, SequencesExt

TsPacketBytes == 188
TsCapacity == 184           \* payload of a transport packet
TsClockCapacity == 176      \* payload of the one that carries the clock
TsClock == 90000
BandwidthFloor == 128000    \* bits per second

DivUp(a, b) == (a + b - 1) \div b
Maximum(S) == CHOOSE x \in S : \A y \in S : x >= y

To90kHz(units, scale) == IF scale = 0 THEN 0 ELSE (units * TsClock) \div scale

InWindow(p, w) == w.start <= PtsMs(p) /\ PtsMs(p) < w.end
\* packets_in_window and the filters of mux_segment and check_mux_budget.
PacketsIn(w, packets) == Kept(packets, {n \in DOMAIN packets : InWindow(packets[n], w)})

WindowMs(w) == Larger(Minus(w.end, w.start), 1)

-----------------------------------------------------------------------------
(***************************************************************************)
(* The advertised numbers.                                                 *)
(***************************************************************************)
\* target_duration_seconds_for_windows.
TargetDuration(windows) ==
  Maximum({1} \cup {DivUp(WindowMs(windows[n]), MillisPerSecond) : n \in DOMAIN windows})

\* Slip: the search never goes back.
OnlyForward(windows, at, pts) ==
  IF at \in DOMAIN windows /\ pts < windows[at].end THEN at
  ELSE Cardinality({n \in DOMAIN windows : windows[n].end <= pts}) + 1

\* The window a packet counts for, given the last one's: packets come in decode
\* order, so the search starts over when the presentation runs back.
Located(windows, at, pts) ==
  IF at \in DOMAIN windows /\ windows[at].start <= pts /\ pts < windows[at].end THEN at
  ELSE Cardinality({n \in DOMAIN windows : windows[n].end <= pts}) + 1

\* track_bytes_by_window.
BytesByWindow(packets, windows) ==
  LET at[n \in 0 .. Len(packets)] ==
        IF n = 0 THEN 1 ELSE Located(windows, at[n - 1], PtsMs(packets[n]))
      counted(n, w) == at[n] = w /\ PtsMs(packets[n]) >= windows[w].start
  IN  [w \in DOMAIN windows |->
         Total([n \in DOMAIN packets |->
                  IF counted(n, w) THEN packets[n].size ELSE 0])]

\* estimate_hls_bandwidth_bits_per_second.
Bandwidth(tracks, windows) ==
  LET video == BytesByWindow(tracks.video.packets, windows)
      audio == BytesByWindow(tracks.audio.packets, windows)
      peak == Maximum({((video[n] + audio[n]) * 8 * MillisPerSecond) \div WindowMs(windows[n])
                         : n \in DOMAIN windows})
  IN  Larger(peak + peak \div 10, BandwidthFloor)

-----------------------------------------------------------------------------
(***************************************************************************)
(* check_mux_budget: what a window may come to, before a byte is read.     *)
(***************************************************************************)
SegmentOverhead == 1024
PacketMargin == 64
FragmentMargin == 16

\* Slip: start codes longer than the size fields they replace are forgotten.
EstimateWithoutGrowth(track, p) ==
  DivUp(p.size + track.private + PacketMargin, TsClockCapacity) * TsPacketBytes

\* A NAL unit's size field becomes a start code of four bytes.
TsEstimate(track, p) ==
  DivUp(p.size * DivUp(4, Larger(track.lengthSize, 1)) + track.private + PacketMargin,
        TsClockCapacity) * TsPacketBytes

Estimate(format, track, p) ==
  IF format = "ts" THEN TsEstimate(track, p) ELSE p.size + FragmentMargin

EstimatesIn(format, track, w) ==
  LET ps == PacketsIn(w, track.packets)
  IN  [n \in DOMAIN ps |-> Estimate(format, track, ps[n])]

EstimatedOutput(format, tracks, w) ==
  SegmentOverhead + Total(EstimatesIn(format, tracks.video, w)
                          \o EstimatesIn(format, tracks.audio, w))
CompressedBytes(tracks, w) ==
  LET ps == PacketsIn(w, tracks.video.packets) \o PacketsIn(w, tracks.audio.packets)
  IN  Total([n \in DOMAIN ps |-> ps[n].size])

-----------------------------------------------------------------------------
(***************************************************************************)
(* A transport stream segment: mux_segment.                                *)
(***************************************************************************)
\* packet_to_payload: parameter sets before a keyframe, start codes for size
\* fields (none to replace if the sample has start codes already: no NAL units
\* count then); an ADTS header before an AAC frame.
ElementaryBytes(track, p) ==
  IF track.video
  THEN p.size + track.nals * (4 - track.lengthSize) + (IF p.key THEN track.private ELSE 0)
  ELSE p.size + track.header

\* pes_packet.
PesBytes(pts, dts, bytes) == 9 + (IF pts # dts THEN 10 ELSE 5) + bytes

\* write_ts_packets: video carries the clock in the first packet.
TsPackets(clock, bytes) ==
  LET first == IF clock THEN TsClockCapacity ELSE TsCapacity
  IN  1 + DivUp(Minus(bytes, first), TsCapacity)

\* The bytes a packet has in the file a track is read from; files may be equal
\* up to an offset.
Payload(track, p) ==
  <<IF p.offset + p.size <= track.shared THEN "common" ELSE track.file, p.offset, p.size>>

\* One sample of a stream.
Sample(track, p) ==
  [video |-> track.video, order |-> DtsMs(p),
   pts |-> To90kHz(p.pts, p.scale), dts |-> To90kHz(p.dts, p.scale),
   bytes |-> Payload(track, p), length |-> ElementaryBytes(track, p)]

\* sort_by_key is stable and puts video before audio of the same time: a sample
\* goes behind all those before it that it does not precede.
Precedes(x, y) == x.order < y.order \/ (x.order = y.order /\ x.video /\ ~y.video)
Inserted(sorted, x) ==
  InsertAt(sorted, Cardinality({n \in DOMAIN sorted : ~Precedes(x, sorted[n])}) + 1, x)
Interleaved(samples) ==
  LET sorted[n \in 0 .. Len(samples)] ==
        IF n = 0 THEN <<>> ELSE Inserted(sorted[n - 1], samples[n])
  IN  sorted[Len(samples)]

\* Slip: a sample keeps its stamps.
SanitizeNothing(last, s) == s

\* OutputTimestampSanitizer::sanitize; no sample yet is -1.
Sanitize(last, s) ==
  LET dts == IF s.dts <= last THEN last + 1 ELSE s.dts
  IN  [s EXCEPT !.dts = dts, !.pts = Larger(s.pts, dts)]

Sanitized(samples) ==
  LET out[n \in 0 .. Len(samples)] ==
        IF n = 0 THEN [done |-> <<>>, video |-> -1, audio |-> -1]
        ELSE LET video == samples[n].video
                 s == Sanitize(IF video THEN out[n - 1].video ELSE out[n - 1].audio,
                               samples[n])
             IN  [done |-> Append(out[n - 1].done, s),
                  video |-> IF video THEN s.dts ELSE out[n - 1].video,
                  audio |-> IF video THEN out[n - 1].audio ELSE s.dts]
  IN  out[Len(samples)].done

TsSegment(tracks, w) ==
  LET of(track) == LET ps == PacketsIn(w, track.packets)
                   IN  [n \in DOMAIN ps |-> Sample(track, ps[n])]
  IN  Sanitized(Interleaved(of(tracks.video) \o of(tracks.audio)))

\* The two tables, then every sample's packets.
TsSegmentBytes(samples) ==
  TsPacketBytes * (2 + Total([n \in DOMAIN samples |->
     TsPackets(samples[n].video,
               PesBytes(samples[n].pts, samples[n].dts, samples[n].length))]))

-----------------------------------------------------------------------------
(***************************************************************************)
(* A fragmented MP4 segment: mux_fmp4_segment.                             *)
(***************************************************************************)
SampleDuration(p, timescale) == Larger(Rescale(p.duration, p.scale, timescale), 1)

Composition(p, timescale) ==
  Rescale(p.pts, p.scale, timescale) - Rescale(p.dts, p.scale, timescale)

\* samples_from_packets_with_timescale: offsets below zero shift all of them.
FragmentSamples(track, ps) ==
  LET timescale == track.timescale
      lowest == -Maximum({0} \cup {-Composition(ps[n], timescale) : n \in DOMAIN ps})
  IN  [n \in DOMAIN ps |->
         [duration |-> SampleDuration(ps[n], timescale), size |-> ps[n].size,
          sync |-> ps[n].key, composition |-> Composition(ps[n], timescale) - lowest,
          bytes |-> Payload(track, ps[n])]]

\* Slip: a fragment starts when its first sample is shown.
ShownTime(p, timescale) == Rescale(p.pts, p.scale, timescale)

\* decode_time_for_timescale.
BaseTime(p, timescale) == Rescale(p.dts, p.scale, timescale)

FragmentTrack(id, track, w) ==
  LET ps == PacketsIn(w, track.packets)
  IN  [id |-> id,
       base |-> BaseTime(ps[1], track.timescale),
       samples |-> FragmentSamples(track, ps)]

Fragment(tracks, w) ==
  [sequence |-> w.index + 1,
   tracks |-> <<FragmentTrack(1, tracks.video, w),
                FragmentTrack(2, tracks.audio, w)>>]

\* validate_trafs on the header that was just written.
FragmentAccepted(fragment) ==
  \A t \in DOMAIN fragment.tracks :
    /\ fragment.tracks[t].samples # <<>>
    /\ fragment.tracks[t].samples[1].sync
    /\ \A n \in DOMAIN fragment.tracks[t].samples :
         LET s == fragment.tracks[t].samples[n]
         IN  s.duration > 0 /\ s.size > 0 /\ s.composition >= 0

\* fmp4_init_segment_for_tracks.
DefaultDuration(ps) == IF ps = <<>> THEN 1 ELSE Larger(ps[1].duration, 1)
InitSegment(tracks) ==
  [video |-> [timescale |-> tracks.video.timescale,
              duration |-> DefaultDuration(tracks.video.packets)],
   audio |-> [timescale |-> tracks.audio.timescale,
              duration |-> DefaultDuration(tracks.audio.packets)]]

-----------------------------------------------------------------------------
(***************************************************************************)
(* How the payload of a fragment is read (source.rs, read_packets_mode):   *)
(* packets that follow each other closely in the file come in one read.    *)
(***************************************************************************)
\* Slip: a gap of any size is read through.
JoinsAnyGap(limits, read, p, room) == p.offset >= read.offset + read.span

\* Whether the next packet joins the read of span bytes that wants payload.
JoinsRead(limits, read, p, room) ==
  LET gap == p.offset - (read.offset + read.span)
      span == p.offset + p.size - read.offset
  IN  /\ gap >= 0
      /\ \/ gap = 0 /\ read.span = read.payload
         \/ /\ gap <= limits.gap /\ span <= limits.span
            /\ span <= (read.payload + p.size) * limits.amplification
            /\ span <= room

\* A read: its offset and span, the bytes and the packets wanted of it.
Alone(p) == [offset |-> p.offset, span |-> p.size, payload |-> p.size, packets |-> <<p>>]
Joined(r, p) ==
  [offset |-> r.offset, span |-> p.offset + p.size - r.offset,
   payload |-> r.payload + p.size, packets |-> Append(r.packets, p)]

\* One more packet is read, with the last read or by one of its own.
WithPacket(reads, limits, p, room) ==
  IF reads # <<>> /\ JoinsRead(limits, reads[Len(reads)], p, room)
  THEN [reads EXCEPT ![Len(reads)] = Joined(reads[Len(reads)], p)]
  ELSE Append(reads, Alone(p))

\* The reads of a list of packets, after each of them.
Reads(packets, limits, window) ==
  LET room == Minus(window, Total([n \in DOMAIN packets |-> packets[n].size]))
      reads[n \in 0 .. Len(packets)] ==
        IF n = 0 THEN <<>> ELSE WithPacket(reads[n - 1], limits, packets[n], room)
  IN  reads[Len(packets)]
=============================================================================
