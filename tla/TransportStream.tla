--------------------------- MODULE TransportStream ---------------------------
(***************************************************************************)
(* The MPEG transport stream muxer and demuxer                             *)
(* (src/media/format/ts/mpeg-ts-enc.c, mpeg-ts-dec.c, mpeg-pat.c,          *)
(* mpeg-pmt.c), joined by the packets one writes and the other reads.      *)
(*                                                                         *)
(* The application adds programs and streams and writes frames; its write  *)
(* callback may fail at any packet.  The demuxer may start listening in    *)
(* the middle.  The packet is scaled (PacketSize for 188) with headers of  *)
(* their real sizes.                                                       *)
(***************************************************************************)
EXTENDS Pes, FiniteSetsExt

CONSTANTS PacketSize,   \* TS_PACKET_SIZE
          PatPeriod,    \* PAT_PERIOD
          MaxStreams,   \* 4: pmt_t.streams
          Codecs,       \* the codecs the application adds
          Programs,     \* the program numbers it uses
          Sizes,        \* the sizes of the frames it writes
          Kinds,        \* the frames: delimiter of their own, IDR, PTS after DTS
          Step,         \* how much the clock advances from frame to frame
          MaxFrames,    \* bound: frames written
          MaxChanges    \* bound: programs and streams added or removed

VARIABLES pmts,         \* muxer: the programs, each with its streams
          pat_cc,       \* muxer: continuity counter of the PAT
          pat_period,   \* muxer: time of the last tables
          pid,          \* muxer: the next PID
          changes,
          frames,       \* history: the frames written
          wire,         \* packets written and not read yet
          dec,          \* demuxer: the programs it knows
          listening,    \* the demuxer is being fed
          late,         \* history: it started late or a write failed
          flushed,      \* ts_demuxer_flush was called and nothing came since
          got           \* history: the frames handed to the application

muxer == <<pmts, pat_cc, pat_period, pid, changes>>
vars == <<muxer, frames, wire, dec, listening, late, flushed, got>>

NoPcr == 0   \* 0x1FFF
FirstPid == 256

TypeOK ==
    /\ \A i \in DOMAIN pmts : Len(pmts[i].streams) <= MaxStreams
    /\ Len(frames) <= MaxFrames
    /\ \A i \in DOMAIN dec : dec[i].count <= MaxStreams
    /\ {listening, late, flushed} \subseteq BOOLEAN

Init ==
    /\ pmts = <<>> /\ pat_cc = 0 /\ pat_period = 0 /\ pid = FirstPid /\ changes = 0
    /\ frames = <<>> /\ wire = <<>> /\ dec = <<>> /\ flushed = FALSE /\ got = <<>>
    /\ listening \in BOOLEAN /\ late = ~listening

(***************************************************************************)
(* The muxer.                                                              *)
(***************************************************************************)

\* mpeg_ts_reset: the tables go out with the next frame.
mpeg_ts_reset_Not == pat_period' = pat_period
mpeg_ts_reset == pat_period' = 0

NewProgram(pn, p) == [pid |-> p, pn |-> pn, ver |-> 0, cc |-> 0, pcr |-> NoPcr, streams |-> <<>>]

NewStream(codec, p) == [pid |-> p, codec |-> codec, cc |-> 0,
                        sid |-> IF IsVideo(codec) THEN 224 ELSE 192]

\* mpeg_ts_add_program: a new number only; it takes a PID.
mpeg_ts_add_program(pn) ==
    /\ changes < MaxChanges /\ wire = <<>>
    /\ \A i \in DOMAIN pmts : pmts[i].pn # pn
    /\ pmts' = Append(pmts, NewProgram(pn, pid))
    /\ pid' = pid + 1
    /\ mpeg_ts_reset
    /\ changes' = changes + 1
    /\ UNCHANGED <<pat_cc, frames, wire, dec, listening, late, flushed, got>>

\* mpeg_ts_remove_program: the programs behind it move down.
mpeg_ts_remove_program(pn) ==
    /\ changes < MaxChanges /\ wire = <<>>
    /\ \E i \in DOMAIN pmts : pmts[i].pn = pn /\ pmts' = RemoveAt(pmts, i)
    /\ mpeg_ts_reset
    /\ changes' = changes + 1
    /\ UNCHANGED <<pat_cc, pid, frames, wire, dec, listening, late, flushed, got>>

\* mpeg_ts_pmt_add_stream: the version says that the streams changed.
mpeg_ts_pmt_add_stream(i, codec) ==
    /\ Len(pmts[i].streams) < MaxStreams
    /\ pmts' = [pmts EXCEPT ![i].streams = Append(@, NewStream(codec, pid)),
                            ![i].ver = (@ + 1) % 32]
    /\ pid' = pid + 1
    /\ mpeg_ts_reset
    /\ changes' = changes + 1
    /\ UNCHANGED <<pat_cc, frames, wire, dec, listening, late, flushed, got>>

\* mpeg_ts_add_program_stream: into the program of that number.
mpeg_ts_add_program_stream(pn, codec) ==
    /\ changes < MaxChanges /\ wire = <<>>
    /\ \E i \in DOMAIN pmts : pmts[i].pn = pn /\ mpeg_ts_pmt_add_stream(i, codec)

\* mpeg_ts_add_stream: into the first program, made when there is none.
mpeg_ts_add_stream(codec) ==
    /\ changes < MaxChanges /\ wire = <<>>
    /\ \/ /\ pmts # <<>>
          /\ mpeg_ts_pmt_add_stream(1, codec)
       \/ /\ pmts = <<>>
          /\ pmts' = <<[NewProgram(1, pid) EXCEPT !.streams = <<NewStream(codec, pid + 1)>>,
                                                  !.ver = 1]>>
          /\ pid' = pid + 2
          /\ mpeg_ts_reset
          /\ changes' = changes + 1
          /\ UNCHANGED <<pat_cc, frames, wire, dec, listening, late, flushed, got>>

\* mpeg_ts_write_section_header: a packet of its own for a table.
Section(p, cc, body) == [pid |-> p, cc |-> cc, start |-> TRUE, af |-> FALSE, aflen |-> 0,
                         body |-> body]

\* pat_write, pmt_write with pmt_write_descriptor: Opus goes as private data
\* with a registration descriptor.
pat_write == [i \in DOMAIN pmts |-> [pn |-> pmts[i].pn, pid |-> pmts[i].pid]]
pmt_write_descriptor(codec) == IF codec = "opus" THEN <<"Opus">> ELSE <<>>
pmt_write(program) ==
    [ver |-> program.ver,
     streams |-> [k \in DOMAIN program.streams |->
                    LET c == program.streams[k].codec
                    IN  [pid |-> program.streams[k].pid,
                         codec |-> IF c = "opus" THEN "private" ELSE c,
                         desc |-> pmt_write_descriptor(c)]]]

Tables(ps) ==
    <<Section(0, pat_cc, pat_write)>>
    \o [i \in DOMAIN ps |-> Section(ps[i].pid, ps[i].cc, pmt_write(ps[i]))]

\* One packet of a frame: its header octets, the piece it carries, and the
\* adaptation field that fills it.  fixed is the adaptation field it needs
\* anyway (its length octet, flags and PCR).
Packet_Short(s, cc, start, fixed, header, piece) ==
    LET used == 4 + fixed + (IF start THEN header.hdr ELSE 0) + Octets(s.codec, piece)
        pad  == PacketSize - used
    IN  [pid |-> s.pid, cc |-> cc, start |-> start, af |-> fixed > 0 \/ pad > 1,
         aflen |-> IF fixed > 0 \/ pad > 1 THEN fixed + pad - 1 ELSE 0,
         body |-> [header |-> IF start THEN <<header>> ELSE <<>>, sid |-> s.sid,
                   piece |-> piece]]

Packet(s, cc, start, fixed, header, piece) ==
    LET used == 4 + fixed + (IF start THEN header.hdr ELSE 0) + Octets(s.codec, piece)
        pad  == PacketSize - used
    IN  [pid |-> s.pid, cc |-> cc, start |-> start, af |-> fixed > 0 \/ pad > 0,
         aflen |-> IF fixed > 0 \/ pad > 0 THEN fixed + pad - 1 ELSE 0,
         body |-> [header |-> IF start THEN <<header>> ELSE <<>>, sid |-> s.sid,
                   piece |-> piece]]

\* ts_write_pes: the first packet carries the PES header, the delimiter and,
\* on the PCR PID, the clock; every other packet is payload only; the last one
\* is stuffed.
ts_write_pes(s, pcr, f, fr) ==
    LET unit   == IF ~IsVideo(s.codec) THEN "no" ELSE IF fr.own THEN "own" ELSE "added"
        aud    == IF unit = "added" THEN AudLen(s.codec) ELSE 0
        fixed  == IF pcr THEN 8 ELSE IF fr.idr THEN 2 ELSE 0
        header == pes_write_header(fr.pts, fr.dts, fr.idr, aud + fr.len)
        room1  == PacketSize - 4 - fixed - header.hdr - aud
        room   == PacketSize - 4
        count  == IF fr.len <= room1 THEN 1 ELSE 1 + ((fr.len - room1 + room - 1) \div room)
        from(i) == IF i = 1 THEN 0 ELSE room1 + ((i - 2) * room)
        len(i)  == Min({fr.len - from(i), IF i = 1 THEN room1 ELSE room})
    IN  [i \in 1..count |->
           Packet(s, (s.cc + i - 1) % 16, i = 1, IF i = 1 THEN fixed ELSE 0, header,
                  [frame |-> f, from |-> from(i), len |-> len(i),
                   unit |-> IF i = 1 THEN unit ELSE "no"])]

\* mpeg_ts_write: the PCR moves to a video stream; the tables go out when they
\* are due; the first failing write ends the call, with the counters already
\* advanced.  n is the number of packets the callback takes.
mpeg_ts_write(i, k, fr) ==
    LET program == pmts[i]
        s       == program.streams[k]
        take    == program.pcr = NoPcr \/ (IsVideo(s.codec) /\ program.pcr # s.pid)
        ps      == [pmts EXCEPT ![i].pcr = IF take THEN s.pid ELSE @]
        period  == IF take THEN 0 ELSE pat_period
        due     == period = 0 \/ period + PatPeriod <= fr.dts
        tables  == IF due THEN Tables(ps) ELSE <<>>
        pes     == ts_write_pes(s, ps[i].pcr = s.pid, Len(frames) + 1, fr)
        all     == tables \o pes
    IN  \E n \in 0..Len(all) :
            LET tried == Min({n + 1, Len(all)})
                t     == Min({tried, Len(tables)})
            IN  /\ wire' = SubSeq(all, 1, n)
                /\ late' = (late \/ n < Len(all))
                /\ pat_period' = IF due THEN fr.dts ELSE period
                /\ pat_cc' = (pat_cc + Min({t, 1})) % 16
                /\ pmts' = [j \in DOMAIN ps |->
                              [ps[j] EXCEPT
                                 !.cc = IF j + 1 <= t THEN (@ + 1) % 16 ELSE @,
                                 !.streams = IF j = i
                                   THEN [@ EXCEPT ![k].cc = (@ + tried - t) % 16]
                                   ELSE @]]

Write ==
    /\ wire = <<>> /\ Len(frames) < MaxFrames
    /\ \E i \in DOMAIN pmts : \E k \in DOMAIN pmts[i].streams : \E len \in Sizes :
       \E kind \in Kinds :
          LET s   == pmts[i].streams[k]
              dts == (Len(frames) + 1) * Step
              fr  == [pid |-> s.pid, codec |-> s.codec, len |-> len,
                      own |-> "own" \in kind, idr |-> "idr" \in kind,
                      dts |-> dts, pts |-> IF "reordered" \in kind THEN dts + 1 ELSE dts]
          IN  /\ IsVideo(s.codec) \/ kind = {}
              /\ mpeg_ts_write(i, k, fr)
              /\ frames' = Append(frames, fr)
    /\ flushed' = FALSE
    /\ UNCHANGED <<pid, changes, dec, listening, got>>

(***************************************************************************)
(* The demuxer.                                                            *)
(***************************************************************************)

NewPes == [pid |-> 0, codec |-> "private", sid |-> 0, len |-> 0, pts |-> 0, dts |-> 0,
           idr |-> FALSE, pkt |-> EmptyPacket]

\* pat_fetch with pat_alloc_pmt: a program of a new PID starts cleared.
pat_fetch(known, e) ==
    IF \E i \in DOMAIN known : known[i].pid = e.pid
    THEN [i \in DOMAIN known |->
            IF known[i].pid = e.pid THEN [known[i] EXCEPT !.pn = e.pn] ELSE known[i]]
    ELSE Append(known, [pid |-> e.pid, pn |-> e.pn, ver |-> 0, count |-> 0,
                        streams |-> [k \in 1..MaxStreams |-> NewPes]])

\* pat_read: the muxer never changes the version, so programs only come.
pat_read(known, body) == FoldLeft(pat_fetch, known, body)

\* pmt_read_descriptor: the registration of Opus.
pmt_read_descriptor(codec, desc) == IF desc = <<"Opus">> THEN "opus" ELSE codec

\* pmt_fetch: the stream of that PID, or the next slot, as it was left.
pmt_fetch(program, e) ==
    LET same == {k \in 1..program.count : program.streams[k].pid = e.pid}
        k    == IF same # {} THEN Min(same) ELSE program.count + 1
    IN  [program EXCEPT
           !.count = IF same # {} THEN @ ELSE @ + 1,
           !.streams[k].pid = e.pid,
           !.streams[k].codec = pmt_read_descriptor(e.codec, e.desc)]

\* pmt_read: another version clears the list and fills it again.
pmt_read(program, body) ==
    FoldLeft(pmt_fetch,
             [program EXCEPT !.count = IF program.ver # body.ver THEN 0 ELSE @,
                             !.ver = body.ver],
             body.streams)

\* adaptation_filed_read: the field's length octet is not in its length.
adaptation_filed_read(p) == IF p.af THEN p.aflen + 1 ELSE 0

\* The payload runs from behind the headers to the end of the packet.
PieceRead(s, p) ==
    LET left == PacketSize - 4 - adaptation_filed_read(p)
                - (IF p.start THEN p.body.header[1].hdr ELSE 0)
        aud  == IF p.body.piece.unit = "added" THEN AudLen(s.codec) ELSE 0
    IN  [p.body.piece EXCEPT !.len = left - aud]

\* A packet of stream k of program j.
StreamPacket(j, k, p) ==
    LET s == dec[j].streams[k]
        h == IF p.start THEN pes_read_header(s, p.body.sid, p.body.header[1]) ELSE s
        r == pes_packet(h, PieceRead(s, p), p.start)
    IN  IF ~p.start /\ s.sid = 0
        THEN UNCHANGED <<dec, got>>
        ELSE /\ dec' = [dec EXCEPT ![j].streams[k] = r.pes]
             /\ got' = got \o r.out

\* ts_demuxer_input
ts_demuxer_input(p) ==
    LET programs == {j \in DOMAIN dec : dec[j].pid = p.pid}
        streams  == {jk \in (DOMAIN dec) \X (1..MaxStreams) :
                       jk[2] <= dec[jk[1]].count /\ dec[jk[1]].streams[jk[2]].pid = p.pid}
    IN  IF p.pid = 0 THEN dec' = pat_read(dec, p.body) /\ UNCHANGED got
        ELSE IF programs # {}
        THEN /\ dec' = [j \in DOMAIN dec |-> IF j = Min(programs) THEN pmt_read(dec[j], p.body)
                                             ELSE dec[j]]
             /\ UNCHANGED got
        ELSE IF streams # {} THEN \E jk \in streams : StreamPacket(jk[1], jk[2], p)
        ELSE UNCHANGED <<dec, got>>

Receive ==
    /\ wire # <<>>
    /\ wire' = Tail(wire)
    /\ IF listening THEN ts_demuxer_input(Head(wire)) ELSE UNCHANGED <<dec, got>>
    /\ flushed' = FALSE
    /\ UNCHANGED <<muxer, frames, listening, late>>

\* The receiver tunes in between two packets.
Listen ==
    /\ ~listening /\ listening' = TRUE
    /\ UNCHANGED <<muxer, frames, wire, dec, late, flushed, got>>

\* ts_demuxer_flush: a delimiter, or nothing, behind what is kept of 5 octets
\* or more.
FlushPiece(s) == [frame |-> 0, from |-> 0, len |-> 0,
                  unit |-> IF IsVideo(s.codec) THEN "added" ELSE "no"]

FlushStream(acc, jk) ==
    LET s == acc.dec[jk[1]].streams[jk[2]]
        r == pes_packet(s, FlushPiece(s), FALSE)
    IN  IF jk[2] > acc.dec[jk[1]].count \/ Size(s.codec, s.pkt.data) < 5 THEN acc
        ELSE [dec |-> [acc.dec EXCEPT ![jk[1]].streams[jk[2]] = r.pes],
              got |-> acc.got \o r.out]

ts_demuxer_flush ==
    /\ wire = <<>> /\ ~flushed /\ listening
    /\ LET order == [n \in 1..(Len(dec) * MaxStreams) |->
                       <<((n - 1) \div MaxStreams) + 1, ((n - 1) % MaxStreams) + 1>>]
           r     == FoldLeft(FlushStream, [dec |-> dec, got |-> got], order)
       IN  dec' = r.dec /\ got' = r.got
    /\ flushed' = TRUE
    /\ UNCHANGED <<muxer, frames, wire, listening, late>>

Next ==
    \/ \E pn \in Programs : mpeg_ts_add_program(pn) \/ mpeg_ts_remove_program(pn)
    \/ \E c \in Codecs : mpeg_ts_add_stream(c)
    \/ \E pn \in Programs, c \in Codecs : mpeg_ts_add_program_stream(pn, c)
    \/ Write
    \/ Receive
    \/ Listen
    \/ ts_demuxer_flush

Spec == Init /\ [][Next]_vars

(***************************************************************************)
(* Properties                                                              *)
(***************************************************************************)

\* Every packet ts_write_pes makes is exactly TS_PACKET_SIZE octets, header,
\* adaptation field, PES header and payload together, and the continuity
\* counters of one PID follow each other up to the one the muxer holds next
\* (a failed write consumed one more).
PacketsWhole ==
    \A i \in DOMAIN wire :
       LET p == wire[i] IN
       p.pid \in {m.pid : m \in UNION {Range(pmts[j].streams) : j \in DOMAIN pmts}} =>
          /\ 4 + adaptation_filed_read(p)
             + (IF p.start THEN p.body.header[1].hdr ELSE 0)
             + Octets(frames[p.body.piece.frame].codec, p.body.piece) = PacketSize
          /\ p.af => p.aflen >= 0
          /\ i < Len(wire) => wire[i + 1].cc = (p.cc + 1) % 16

\* What a frame handed out must be: octets of one written frame of that
\* stream, from its beginning without the delimiter, with its own stamps; the
\* whole frame unless a write failed or the receiver came late.
Faithful(g) ==
    /\ Len(g.data) = 1
    /\ LET d  == g.data[1]
           fr == frames[d.frame]
           b  == IF fr.own THEN AudLen(fr.codec) ELSE 0
       IN  /\ g.pid = fr.pid /\ g.codec = fr.codec
           /\ g.pts = fr.pts % TimeMod /\ g.dts = fr.dts % TimeMod /\ g.idr = fr.idr
           /\ d.from = b
           /\ d.from + d.len <= fr.len
           /\ ~late => d.from + d.len = fr.len

Bounded(fr) == IsVideo(fr.codec) \/ fr.len + 8 <= MaxPes

\* The frames the demuxer hands out are frames the muxer was given, with their
\* own stamps, each at most once and in order; and after ts_demuxer_flush, when
\* no write failed and the receiver listened from the start, all of them that
\* the PES length can bound.
FramesComeBack ==
    /\ \A i \in DOMAIN got : Faithful(got[i])
    /\ \A i, j \in DOMAIN got :
          i < j /\ got[i].pid = got[j].pid => got[i].data[1].frame < got[j].data[1].frame
    /\ flushed /\ ~late =>
          {f \in DOMAIN frames : Bounded(frames[f])}
             \subseteq {got[i].data[1].frame : i \in DOMAIN got}

=============================================================================
