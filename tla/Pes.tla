-------------------------------- MODULE Pes --------------------------------
(***************************************************************************)
(* Packetized elementary streams: the PES header                           *)
(* (src/media/format/ts/mpeg-pes.c) and the way a demuxer puts frames back *)
(* together from PES payload (mpeg-packet.c, mpeg-ts-h264.c,               *)
(* mpeg-ts-h265.c).                                                        *)
(*                                                                         *)
(* Octets are not modelled one by one.  A piece of a frame is a record     *)
(* [frame, from, len, unit]: octets from .. from + len - 1 of that frame,  *)
(* where unit says whether an access unit delimiter stands before them     *)
(* ("added" by the muxer), is their own beginning ("own"), or not ("no").  *)
(* Sizes of headers and delimiters are the real ones.                      *)
(***************************************************************************)
EXTENDS Integers, Sequences, SequencesExt

CONSTANTS TimeMod,  \* 2^33: the width of PTS and DTS on the wire
          MaxPes    \* 0xFFFF: the largest PES_packet_length

Video == {"h264", "h265"}
IsVideo(codec) == codec \in Video
AudLen(codec) == IF codec = "h264" THEN 6 ELSE 7

\* The octets a piece occupies: its frame octets and the delimiter the muxer
\* put in front.
Octets(codec, piece) ==
    piece.len + (IF piece.unit = "added" THEN AudLen(codec) ELSE 0)

\* pes_write_header: 9 octets, 5 for the PTS, 5 for a DTS that differs.
HeaderLen(pts, dts) == 9 + 5 + (IF dts # pts THEN 5 ELSE 0)

\* PES_packet_length counts the octets after the length field; 0 is "not
\* bounded".
pes_write_header(pts, dts, idr, octets) ==
    LET after == HeaderLen(pts, dts) - 6 + octets
    IN  [hdr |-> HeaderLen(pts, dts), len |-> IF after > MaxPes THEN 0 ELSE after,
         pts |-> pts % TimeMod, dts |-> IF dts # pts THEN <<dts % TimeMod>> ELSE <<>>,
         idr |-> idr]

\* pes_read_header: without a DTS the DTS is the PTS, and the length becomes
\* the length of the payload alone.
pes_read_header(pes, sid, h) ==
    [pes EXCEPT !.sid = sid, !.pts = h.pts,
                !.dts = IF h.dts = <<>> THEN h.pts ELSE h.dts[1],
                !.idr = h.idr,
                !.len = IF h.len > 0 THEN h.len - (h.hdr - 6) ELSE 0]

\* A packet_t: pieces kept, the stamps saved with them, VCL NAL units seen.
EmptyPacket == [data |-> <<>>, pts |-> 0, dts |-> 0, idr |-> FALSE, vcl |-> 0]

Size(codec, data) == FoldLeft(LAMBDA n, p : n + Octets(codec, p), 0, data)

\* mpeg_packet_append: memcpy behind what is kept.  Adjacent octets of one
\* frame are one piece.
mpeg_packet_append(data, piece) ==
    IF /\ data # <<>> /\ piece.unit = "no"
       /\ Last(data).frame = piece.frame
       /\ Last(data).from + Last(data).len = piece.from
    THEN Append(Front(data), [Last(data) EXCEPT !.len = @ + piece.len])
    ELSE IF piece.len = 0 /\ piece.unit = "no" THEN data ELSE Append(data, piece)

\* mpeg_h264_is_new_access_unit: a delimiter opens one (the frames here open
\* with a delimiter, and their slices follow it).
is_new_access_unit(piece) == piece.unit # "no"

\* mpeg_h264_find_new_access_unit over the octets that just arrived: the
\* slice of a frame starts right behind the delimiter, so a piece that opens
\* a frame counts one VCL NAL unit.
mpeg_h264_find_new_access_unit(vcl, piece) ==
    [found |-> vcl > 0 /\ is_new_access_unit(piece),
     vcl   |-> IF piece.from = 0 /\ piece.len > 0 THEN 1 ELSE 0]

\* The H.265 search differs in the NAL unit types only.
mpeg_h265_find_new_access_unit(vcl, piece) ==
    mpeg_h264_find_new_access_unit(vcl, piece)

find(codec, vcl, piece) ==
    IF codec = "h264" THEN mpeg_h264_find_new_access_unit(vcl, piece)
                      ELSE mpeg_h265_find_new_access_unit(vcl, piece)

\* mpeg_packet_h264_h265_filter: the leading delimiters are not handed on.
mpeg_packet_h264_h265_filter(codec, data) ==
    LET bare(p) == IF p.unit = "own" /\ p.from = 0
                   THEN [p EXCEPT !.from = AudLen(codec), !.len = @ - AudLen(codec)]
                   ELSE p
        body == SelectSeq(data, LAMBDA p : p.len > 0)
    IN  [i \in DOMAIN body |-> [bare(body[i]) EXCEPT !.unit = "no"]]

Saved(pkt, pes) == [pkt EXCEPT !.pts = pes.pts, !.dts = pes.dts, !.idr = pes.idr]

Frame(pes, pkt, data) ==
    [pid |-> pes.pid, codec |-> pes.codec, pts |-> pkt.pts, dts |-> pkt.dts,
     idr |-> pkt.idr, data |-> data]

\* mpeg_packet_h264_h265: when the new octets open another access unit, what
\* was kept before is a frame, with the stamps saved before; then the stamps of
\* this PES are saved.
mpeg_packet_h264_h265_Late(pes, piece) ==
    LET pkt == pes.pkt
        f   == find(pes.codec, pkt.vcl, piece)
        new == Saved([pkt EXCEPT !.vcl = IF f.found THEN f.vcl ELSE pkt.vcl + f.vcl,
                                 !.data = IF f.found THEN <<piece>>
                                          ELSE mpeg_packet_append(pkt.data, piece)], pes)
    IN  [pes |-> [pes EXCEPT !.pkt = new],
         out |-> IF f.found
                 THEN <<Frame(pes, new, mpeg_packet_h264_h265_filter(pes.codec, pkt.data))>>
                 ELSE <<>>]

mpeg_packet_h264_h265(pes, piece) ==
    LET pkt == pes.pkt
        f   == find(pes.codec, pkt.vcl, piece)
        new == Saved([pkt EXCEPT !.vcl = IF f.found THEN f.vcl ELSE pkt.vcl + f.vcl,
                                 !.data = IF f.found THEN <<piece>>
                                          ELSE mpeg_packet_append(pkt.data, piece)], pes)
    IN  [pes |-> [pes EXCEPT !.pkt = new],
         out |-> IF f.found
                 THEN <<Frame(pes, pkt, mpeg_packet_h264_h265_filter(pes.codec, pkt.data))>>
                 ELSE <<>>]

\* The other streams: a change of DTS or the start of a PES ends the packet
\* kept, and so does reaching the length the PES header gave.
Timed(pes, piece, start) ==
    LET pkt   == pes.pkt
        old   == pkt.data # <<>> /\ (pkt.dts # pes.dts \/ start)
        data  == mpeg_packet_append(IF old THEN <<>> ELSE pkt.data, piece)
        saved == Saved([pkt EXCEPT !.data = data], pes)
        full  == pes.len > 0 /\ Size(pes.codec, data) >= pes.len
    IN  [pes |-> [pes EXCEPT !.pkt = IF full THEN [saved EXCEPT !.data = <<>>] ELSE saved],
         out |-> (IF old THEN <<Frame(pes, pkt, pkt.data)>> ELSE <<>>)
                 \o (IF full THEN <<Frame(pes, saved, data)>> ELSE <<>>)]

pes_packet(pes, piece, start) ==
    IF IsVideo(pes.codec) THEN mpeg_packet_h264_h265(pes, piece)
                          ELSE Timed(pes, piece, start)

=============================================================================
