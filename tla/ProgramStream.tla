---------------------------- MODULE ProgramStream ----------------------------
(***************************************************************************)
(* The MPEG program stream muxer and demuxer                               *)
(* (src/media/format/ts/mpeg-ps-enc.c, mpeg-ps-dec.c, mpeg-psm.c,          *)
(* mpeg-pack-header.c, mpeg-system-header.c).                              *)
(*                                                                         *)
(* The muxer appends to a byte stream: pack header, now and then system    *)
(* header and stream map, then the PES packets of one frame.  The reader   *)
(* offers the demuxer any number of octets from where the last call        *)
(* stopped; the call answers how many it consumed.  A unit of the stream   *)
(* is a record with its size in octets.                                    *)
(***************************************************************************)
EXTENDS Pes, FiniteSetsExt

CONSTANTS Period,     \* 30: packs between two stream maps
          Codecs, Sizes, Kinds, Step, MaxFrames, MaxStreams

VARIABLES psm,        \* muxer: the streams, [sid, codec]
          psm_period, \* muxer: packs written since the map was due
          frames,     \* history: the frames written
          stream,     \* units written and not consumed
          dec,        \* demuxer: [count, streams, start]
          got         \* history: the frames handed out

vars == <<psm, psm_period, frames, stream, dec, got>>

NewPes == [pid |-> 0, codec |-> "private", sid |-> 0, len |-> 0, pts |-> 0, dts |-> 0,
           idr |-> FALSE, pkt |-> EmptyPacket]

TypeOK ==
    /\ Len(psm) <= MaxStreams /\ psm_period \in Nat
    /\ Len(frames) <= MaxFrames
    /\ dec.count <= MaxStreams /\ dec.start \in BOOLEAN

Init ==
    /\ psm = <<>> /\ psm_period = 0 /\ frames = <<>> /\ stream = <<>> /\ got = <<>>
    /\ dec = [count |-> 0, streams |-> [k \in 1..MaxStreams |-> NewPes], start |-> FALSE]

\* A muxer that takes streams without end.
ps_muxer_add_stream_NoLimit(codec) ==
    LET alike == Cardinality({k \in DOMAIN psm : IsVideo(psm[k].codec) <=> IsVideo(codec)})
    IN  /\ psm' = Append(psm, [sid |-> (IF IsVideo(codec) THEN 224 ELSE 192) + alike,
                               codec |-> codec])
        /\ psm_period' = 0
        /\ Len(psm) <= MaxStreams /\ UNCHANGED <<frames, stream, dec, got>>

\* ps_muxer_add_stream: video and audio streams are numbered apart; the map
\* goes out with the next pack.
ps_muxer_add_stream(codec) ==
    LET alike == Cardinality({k \in DOMAIN psm : IsVideo(psm[k].codec) <=> IsVideo(codec)})
    IN  /\ Len(psm) < MaxStreams
        /\ psm' = Append(psm, [sid |-> (IF IsVideo(codec) THEN 224 ELSE 192) + alike,
                               codec |-> codec])
        /\ psm_period' = 0
        /\ UNCHANGED <<frames, stream, dec, got>>

pack_header_write == [kind |-> "pack", octets |-> 14]
system_header_write == [kind |-> "system", octets |-> 12 + (3 * Len(psm))]
psm_write == [kind |-> "map", octets |-> 16 + (4 * Len(psm)), streams |-> psm]

\* The PES packets of a frame: each of at most MAX_PES_PACKET octets behind its
\* length field; only the first has the delimiter in front.
Units(s, f, fr) ==
    LET unit  == IF ~IsVideo(s.codec) THEN "no" ELSE IF fr.own THEN "own" ELSE "added"
        aud   == IF unit = "added" THEN AudLen(s.codec) ELSE 0
        hdr   == HeaderLen(fr.pts, fr.dts)
        room1 == MaxPes - (hdr - 6) - aud
        room  == MaxPes - (hdr - 6)
        count == IF fr.len <= room1 THEN 1 ELSE 1 + ((fr.len - room1 + room - 1) \div room)
        from(i) == IF i = 1 THEN 0 ELSE room1 + ((i - 2) * room)
        len(i)  == Min({fr.len - from(i), IF i = 1 THEN room1 ELSE room})
        front(i) == IF i = 1 THEN aud ELSE 0
    IN  [i \in 1..count |->
           [kind |-> "pes", sid |-> s.sid, octets |-> hdr + front(i) + len(i),
            header |-> pes_write_header(fr.pts, fr.dts, fr.idr, front(i) + len(i)),
            piece |-> [frame |-> f, from |-> from(i), len |-> len(i),
                       unit |-> IF i = 1 THEN unit ELSE "no"]]]

Octetsof(units) == FoldLeft(LAMBDA n, u : n + u.octets, 0, units)

\* ps_muxer_input, its write callback given the whole pack.
ps_muxer_input(k, fr) ==
    LET due  == psm_period % Period = 0
        pack == <<pack_header_write>>
                \o (IF due THEN <<system_header_write, psm_write>> ELSE <<>>)
                \o Units(psm[k], Len(frames) + 1, fr)
    IN  /\ stream' = stream \o pack
        /\ psm_period' = psm_period + 1

Write ==
    /\ Len(frames) < MaxFrames
    /\ \E k \in DOMAIN psm, len \in Sizes, kind \in Kinds :
          LET dts == (Len(frames) + 1) * Step
              fr  == [sid |-> psm[k].sid, codec |-> psm[k].codec, len |-> len,
                      own |-> "own" \in kind, idr |-> "idr" \in kind, dts |-> dts,
                      pts |-> IF "reordered" \in kind THEN dts + 1 ELSE dts]
          IN  /\ IsVideo(psm[k].codec) \/ (kind = {} /\ len + 8 <= MaxPes)
              /\ ps_muxer_input(k, fr)
              /\ frames' = Append(frames, fr)
    /\ UNCHANGED <<psm, dec, got>>

\* psm_read: the list is filled again from the first slot; what a slot holds
\* besides stays.
psm_read(d, u) ==
    [d EXCEPT !.count = Len(u.streams),
              !.streams = [k \in DOMAIN @ |->
                             IF k <= Len(u.streams)
                             THEN [@[k] EXCEPT !.codec = u.streams[k].codec,
                                               !.sid = u.streams[k].sid,
                                               !.pid = u.streams[k].sid]
                             ELSE @[k]]]

\* The PES packets of pes_packet_read: the stream of that id, when the map
\* named it.
pes_packet_read(acc, u) ==
    LET ks == {k \in 1..acc.dec.count : acc.dec.streams[k].sid = u.sid}
        k  == Min(ks)
        r  == pes_packet(pes_read_header(acc.dec.streams[k], u.sid, u.header), u.piece,
                         acc.dec.start)
    IN  IF ks = {} THEN acc
        ELSE [dec |-> [acc.dec EXCEPT !.streams[k] = r.pes, !.start = FALSE],
              got |-> acc.got \o r.out]

pack_header_read(acc) == [acc EXCEPT !.dec.start = TRUE]

Handle(acc, u) ==
    CASE u.kind = "pack"   -> pack_header_read(acc)
      [] u.kind = "system" -> acc
      [] u.kind = "map"    -> [acc EXCEPT !.dec = psm_read(acc.dec, u)]
      [] u.kind = "pes"    -> pes_packet_read(acc, u)

\* How many units a call with n octets consumes: those it has wholly.
Whole_Begun(units, n) == Max({0} \cup {k \in DOMAIN units : Octetsof(SubSeq(units, 1, k - 1)) < n})
Whole(units, n) == Max({0} \cup {k \in DOMAIN units : Octetsof(SubSeq(units, 1, k)) <= n})

\* ps_demuxer_input with n octets.  A unit cut by a call's end is offered again
\* whole by a later call; octets a call consumed without having them all are
\* lost to the piece.
Given(units, n, k) ==
    LET over == Octetsof(SubSeq(units, 1, k)) - n
    IN  IF k > 0 /\ over > 0 /\ units[k].kind = "pes"
        THEN [SubSeq(units, 1, k) EXCEPT ![k].piece.len = IF @ > over THEN @ - over ELSE 0]
        ELSE SubSeq(units, 1, k)

ps_demuxer_input(n) ==
    LET k == Whole(stream, n)
        r == FoldLeft(Handle, [dec |-> dec, got |-> got], Given(stream, n, k))
    IN  /\ k > 0
        /\ dec' = r.dec /\ got' = r.got
        /\ stream' = SubSeq(stream, k + 1, Len(stream))

\* The reader offers whole units, or the first octets of one more besides.
Read ==
    /\ \E k \in DOMAIN stream, more \in {0, 5} :
          /\ more = 0 \/ k < Len(stream)
          /\ ps_demuxer_input(Octetsof(SubSeq(stream, 1, k)) + more)
    /\ UNCHANGED <<psm, psm_period, frames>>

Next == (\E c \in Codecs : ps_muxer_add_stream(c)) \/ Write \/ Read

Spec == Init /\ [][Next]_vars

(***************************************************************************)
(* Properties                                                              *)
(***************************************************************************)

\* Which frames are still on their way or kept: of a video stream, the last
\* one waits for the next delimiter.
Waiting(f) == \A g \in DOMAIN frames : g > f => frames[g].sid # frames[f].sid

\* However the reader cuts the stream, ps_demuxer_input hands out the frames
\* the muxer was given, whole, once, in order within a stream and with their
\* own stamps; when the stream is consumed, all but the last of each video
\* stream are out.
PackFramesComeBack ==
    /\ \A i \in DOMAIN got :
          LET g == got[i]
              d == g.data[1]
              fr == frames[d.frame]
              b == IF fr.own THEN AudLen(fr.codec) ELSE 0
          IN  /\ Len(g.data) = 1
              /\ g.pid = fr.sid /\ g.codec = fr.codec /\ g.idr = fr.idr
              /\ g.pts = fr.pts % TimeMod /\ g.dts = fr.dts % TimeMod
              /\ d.from = b /\ d.from + d.len = fr.len
    /\ \A i, j \in DOMAIN got :
          i < j /\ got[i].pid = got[j].pid => got[i].data[1].frame < got[j].data[1].frame
    /\ stream = <<>> =>
          \A f \in DOMAIN frames :
             \/ \E i \in DOMAIN got : got[i].data[1].frame = f
             \/ IsVideo(frames[f].codec) /\ Waiting(f)

=============================================================================
