-------------------------------- MODULE Flv --------------------------------
(***************************************************************************)
(* An FLV file from the encoder's access units to the player's: the muxer  *)
(* (src/media/format/flv/flv-muxer.c), the file writer and reader          *)
(* (flv-writer.c, flv-reader.c, flv-header.c), the demuxer                 *)
(* (flv-demuxer.c) and the parser (flv-parser.c).                          *)
(*                                                                         *)
(* A tag is a record [type, codec, packet, key, cts, ts, body, i]; body is *)
(* a configuration record ("header"), NAL units or an audio payload        *)
(* ("data"), and i is the call that made it, which no code reads.  A file  *)
(* is the sequence of its tags; the last one may be torn by a crash.       *)
(***************************************************************************)
EXTENDS Integers, Sequences, SequencesExt, FiniteSets

(***************************************************************************)
(* H.264 and H.265 access units between their two framings: Annex B (start *)
(* codes) and the length-prefixed form of MP4 and FLV, with the store of   *)
(* parameter sets that goes with it (src/media/codec/mpeg4-avc,            *)
(* src/media/codec/mpeg4-hevc).                                            *)
(*                                                                         *)
(* A NAL unit is a record [t, id, ref, ver, len]: its kind ("vps", "sps",  *)
(* "pps", "idr" for an IDR or IRAP slice, "slice", "aud", "sei", "eos"),   *)
(* the identifier it carries and the one it refers to, a version that      *)
(* stands for the rest of its content, and its length in octets.  Start    *)
(* codes and emulation prevention are left out: an access unit is the      *)
(* sequence of its NAL units.  The memory of the store is modelled octet   *)
(* by octet, since that is where sets are moved.                           *)
(***************************************************************************)
CONSTANTS MaxArea,  \* 4 * 1024: the octets a store has for its sets
          MaxSets   \* 32, 256 or 64: the entries of one table of a store

\* The octets of a NAL unit, each told apart from every other.
OctetsOf(nal) == [k \in 1..nal.len |-> [nal |-> nal, k |-> k]]

\* struct mpeg4_avc_t and struct mpeg4_hevc_t: tables of [at, n] entries that
\* point into one area.  An H.265 store has the one table "nalu"; nalu = 0
\* says that no length size is known yet.
NoSets == [sps |-> <<>>, pps |-> <<>>, data |-> <<>>, profile |-> 0, nalu |-> 0]
NoArrays == [nalu |-> <<>>, data |-> <<>>, profile |-> 0]

Content(s, e) == SubSeq(s.data, e.at + 1, e.at + e.n)

\* What a parser of the octets an entry points to takes them for.
Parsed(s, e) == s.data[e.at + 1].nal

Cut(data, at, n) == SubSeq(data, 1, at) \o SubSeq(data, at + n + 1, Len(data))
Shifted(table, at, n) ==
    [i \in DOMAIN table |->
        [table[i] EXCEPT !.at = IF @ > at THEN @ - n ELSE @]]

\* A store that forgets to move the entries of the other table.
mpeg4_avc_remove_OneTable(s, e) ==
    [s EXCEPT !.data = Cut(@, e.at, e.n), !.sps = Shifted(@, e.at, e.n)]

mpeg4_avc_remove(s, e) ==
    [s EXCEPT !.data = Cut(@, e.at, e.n),
              !.sps = Shifted(@, e.at, e.n), !.pps = Shifted(@, e.at, e.n)]

mpeg4_hevc_remove(s, e) ==
    [s EXCEPT !.data = Cut(@, e.at, e.n), !.nalu = Shifted(@, e.at, e.n)]

\* The entry of a set stored behind all others.
Placed(s, nal) == [type |-> nal.t, at |-> Len(s.data), n |-> nal.len]

\* Entry i of a table gets the octets of nal, behind all others.
Replaced(s, table, i, nal, Drop(_, _)) ==
    LET e == s[table][i]
        t == Drop(s, e)
    IN  IF Content(s, e) = OctetsOf(nal) THEN [r |-> 0, s |-> s]
        ELSE IF nal.len > e.n /\ Len(s.data) + nal.len - e.n > MaxArea
        THEN [r |-> -1, s |-> s]
        ELSE [r |-> 1,
              s |-> [t EXCEPT ![table] = [j \in DOMAIN @ |-> IF j = i THEN Placed(t, nal) ELSE @[j]],
                              !.data = @ \o OctetsOf(nal)]]

Added(s, table, nal, entry) ==
    IF Len(s[table]) >= MaxSets \/ Len(s.data) + nal.len > MaxArea
    THEN [r |-> -1, s |-> s]
    ELSE [r |-> 1, s |-> [s EXCEPT ![table] = Append(@, entry),
                                   !.data = @ \o OctetsOf(nal)]]

\* The entry of a table with the identifiers of nal is replaced, else nal is
\* added.
Kept(s, table, nal, Same(_), Drop(_, _), entry) ==
    LET i == SelectInSeq(s[table], Same)
    IN  IF i # 0 THEN Replaced(s, table, i, nal, Drop)
        ELSE Added(s, table, nal, entry)

h264_sps_copy(s, nal) ==
    Kept(s, "sps", nal, LAMBDA e : Parsed(s, e).id = nal.id,
         mpeg4_avc_remove, Placed(s, nal))

h264_pps_copy(s, nal) ==
    Kept(s, "pps", nal,
         LAMBDA e : Parsed(s, e).id = nal.id /\ Parsed(s, e).ref = nal.ref,
         mpeg4_avc_remove, Placed(s, nal))

\* The profile and the level are those of the set that came last while there
\* is one.
mpeg4_avc_update(s, nal) ==
    LET c == CASE nal.t = "sps" -> h264_sps_copy(s, nal)
               [] nal.t = "pps" -> h264_pps_copy(s, nal)
               [] OTHER -> [r |-> 0, s |-> s]
    IN  IF nal.t = "sps" /\ Len(c.s.sps) = 1
        THEN [c EXCEPT !.s.profile = nal.ver] ELSE c

\* hevc_profile_tier_level answers -1 when it has found all sub-layers, and
\* hevc_sps_id takes that for a set without identifier (0xFF).
NoId == 255
hevc_vps_id(nal) == nal.id
hevc_sps_id(nal) == IF nal.layered THEN NoId ELSE nal.id
hevc_pps_id(nal) == nal.id

\* The parameter sets read on the way leave their profile in the store: the
\* new one first, then every entry of its kind up to the one that matches.
Scanned(s, nal, i) ==
    LET last == IF i = 0 THEN Len(s.nalu) ELSE i
        same == {j \in 1..last : s.nalu[j].type = nal.t}
    IN  IF nal.t = "pps" THEN s.profile
        ELSE IF same = {} THEN nal.ver
        ELSE Parsed(s, s.nalu[CHOOSE j \in same : \A k \in same : k <= j]).ver

SetCopy(s, nal, Id(_)) ==
    LET Same(e) == /\ e.type = nal.t
                   /\ Id(Parsed(s, e)) = Id(nal)
                   /\ Parsed(s, e).ref = nal.ref
        i == SelectInSeq(s.nalu, Same)
        read == [s EXCEPT !.profile = Scanned(s, nal, i)]
    IN  Kept(read, "nalu", nal, Same, mpeg4_hevc_remove, Placed(s, nal))

h265_vps_copy(s, nal) == SetCopy(s, nal, hevc_vps_id)
h265_sps_copy(s, nal) == SetCopy(s, nal, hevc_sps_id)
h265_pps_copy(s, nal) == SetCopy(s, nal, hevc_pps_id)

\* SEI units are only kept in a build with H265_FILTER_SEI; without it
\* h265_sei_clear finds none.
mpeg4_hevc_update(s, nal) ==
    CASE nal.t = "vps" -> h265_vps_copy(s, nal)
      [] nal.t = "sps" -> h265_sps_copy(s, nal)
      [] nal.t = "pps" -> h265_pps_copy(s, nal)
      [] OTHER -> [r |-> 0, s |-> s]

(***************************************************************************)
(* Annex B to length-prefixed.  out is the sequence of units written, vcl  *)
(* is 1 after an IDR slice and 2 after any other, update says that a set   *)
(* is new or changed, err that the frame must be dropped.                  *)
(***************************************************************************)
Handler(h, nal, Update(_, _)) ==
    LET c == Update(h.s, nal)
    IN  [s |-> c.s, out |-> Append(h.out, nal),
         update |-> h.update \/ c.r = 1, err |-> h.err \/ c.r < 0,
         vcl |-> CASE nal.t = "idr" -> 1 [] nal.t = "slice" -> 2 [] OTHER -> h.vcl]

h264_handler(h, nal) == Handler(h, nal, mpeg4_avc_update)
hevc_handler(h, nal) == Handler(h, nal, mpeg4_hevc_update)

Unhandled(s) == [s |-> s, out |-> <<>>, update |-> FALSE, err |-> FALSE, vcl |-> 0]

h264_annexbtomp4(s, frame) ==
    LET h == FoldLeft(h264_handler, Unhandled(s), frame)
    IN  [h EXCEPT !.s.nalu = 4, !.out = IF h.err THEN <<>> ELSE @]

h265_annexbtomp4(s, frame) ==
    LET h == FoldLeft(hevc_handler, Unhandled(s), frame)
    IN  [h EXCEPT !.out = IF h.err THEN <<>> ELSE @]

(***************************************************************************)
(* The decoder configuration records.  A record holds the octets of the    *)
(* sets; loading one lays them out anew in the area.                       *)
(***************************************************************************)
Contents(s, table) == [i \in DOMAIN table |-> Content(s, table[i])]
Laid(at, contents, types) ==
    [i \in DOMAIN contents |->
        [type |-> types[i],
         at |-> at + Len(FlattenSeq(SubSeq(contents, 1, i - 1))),
         n |-> Len(contents[i])]]

mpeg4_avc_decoder_configuration_record_save(s) ==
    [profile |-> s.profile, nalu |-> s.nalu,
     sps |-> Contents(s, s.sps), pps |-> Contents(s, s.pps)]

mpeg4_avc_decoder_configuration_record_load(rec) ==
    LET sps == FlattenSeq(rec.sps)
    IN  [profile |-> rec.profile, nalu |-> rec.nalu,
         sps |-> Laid(0, rec.sps, [i \in DOMAIN rec.sps |-> "sps"]),
         pps |-> Laid(Len(sps), rec.pps, [i \in DOMAIN rec.pps |-> "pps"]),
         data |-> sps \o FlattenSeq(rec.pps)]

\* A record that forgets the sets of a kind behind the first.
mpeg4_hevc_decoder_configuration_record_save_First(s) ==
    LET OfKind(t) == SelectSeq(s.nalu, LAMBDA e : e.type = t)
        kinds == SelectSeq(<<"vps", "sps", "pps">>, LAMBDA t : OfKind(t) # <<>>)
    IN  [profile |-> s.profile,
         arrays |-> [k \in DOMAIN kinds |->
                        [type |-> kinds[k],
                         nalus |-> SubSeq(Contents(s, OfKind(kinds[k])), 1, 1)]]]

\* One array per kind, in the order VPS, SPS, PPS; a kind without sets has
\* none.
mpeg4_hevc_decoder_configuration_record_save(s) ==
    LET OfKind(t) == SelectSeq(s.nalu, LAMBDA e : e.type = t)
        kinds == SelectSeq(<<"vps", "sps", "pps">>, LAMBDA t : OfKind(t) # <<>>)
    IN  [profile |-> s.profile,
         arrays |-> [k \in DOMAIN kinds |->
                        [type |-> kinds[k], nalus |-> Contents(s, OfKind(kinds[k]))]]]

mpeg4_hevc_decoder_configuration_record_load(rec) ==
    LET contents == FlattenSeq([k \in DOMAIN rec.arrays |-> rec.arrays[k].nalus])
        types == FlattenSeq([k \in DOMAIN rec.arrays |->
                    [j \in DOMAIN rec.arrays[k].nalus |-> rec.arrays[k].type]])
    IN  [profile |-> rec.profile, data |-> FlattenSeq(contents),
         nalu |-> Laid(0, contents, types)]

\* The unit that the octets of an entry are; octets that are none are told
\* apart by the version -1.
Unit(s, e) ==
    IF Content(s, e) = OctetsOf(Parsed(s, e)) THEN Parsed(s, e)
    ELSE [Parsed(s, e) EXCEPT !.ver = -1]

mpeg4_avc_to_nalu(s) ==
    [i \in DOMAIN (s.sps \o s.pps) |-> Unit(s, (s.sps \o s.pps)[i])]
mpeg4_hevc_to_nalu(s) == [i \in DOMAIN s.nalu |-> Unit(s, s.nalu[i])]

(***************************************************************************)
(* Length-prefixed to Annex B: the sets of the store are inserted once,    *)
(* for a key slice that no set precedes.  H.264 puts them at the head of   *)
(* the output and moves what is there; H.265 puts them where the slice is. *)
(* whole says that the loop came to the end of its input.                  *)
(***************************************************************************)
OctetsFrom(frame, i, prefix) ==
    FoldLeft(LAMBDA n, nal : n + prefix + nal.len, 0, SubSeq(frame, i, Len(frame)))

Converting == [out |-> <<>>, flag |-> FALSE, whole |-> TRUE, err |-> FALSE]

\* A converter that leaves the sets out when something precedes the slice.
h264_mp4toannexb_AtHeadOnly(s, frame) ==
    LET Step(a, nal) ==
            [a EXCEPT !.flag = @ \/ nal.t \in {"sps", "pps"} \/ nal.t = "idr",
                      !.out = Append(IF nal.t = "idr" /\ ~a.flag /\ @ = <<>>
                                     THEN mpeg4_avc_to_nalu(s) ELSE @, nal)]
    IN  FoldLeft(Step, Converting, frame)

h264_mp4toannexb(s, frame) ==
    LET sets == mpeg4_avc_to_nalu(s)
        Step(a, i) ==
            IF OctetsFrom(frame, i, s.nalu) <= s.nalu + 1 THEN [a EXCEPT !.whole = FALSE]
            ELSE LET nal == frame[i]
                     set == nal.t \in {"sps", "pps"}
                     ins == nal.t = "idr" /\ ~a.flag
                 IN  [a EXCEPT !.flag = @ \/ set \/ ins, !.err = @ \/ (ins /\ sets = <<>>),
                               !.out = Append(IF ins THEN sets \o @ ELSE @, nal)]
    IN  FoldLeft(Step, Converting, [i \in DOMAIN frame |-> i])

h265_mp4toannexb(s, frame) ==
    LET sets == mpeg4_hevc_to_nalu(s)
        Step(a, nal) ==
            LET flag == a.flag \/ nal.t \in {"vps", "sps", "pps"}
                ins == nal.t = "idr" /\ ~flag
            IN  [a EXCEPT !.flag = flag \/ ins, !.err = @ \/ (ins /\ sets = <<>>),
                          !.out = Append(IF ins THEN @ \o sets ELSE @, nal)]
    IN  FoldLeft(Step, Converting, frame)

-----------------------------------------------------------------------------
CONSTANTS TimeMod,    \* 2^32: the width of a tag's timestamp
          CtsMod,     \* 2^24: the width of the composition offset
          Codecs,     \* pairs <<video codec, audio codec>> of a file
          Frames,     \* per video codec, the access units an encoder makes
          Sounds,     \* per audio codec, the frames an encoder makes
          Offsets,    \* pts - dts of the frame of each call
          Step,       \* the time from one frame to the next
          MaxCalls,   \* calls of the muxer
          MaxResets,  \* calls of flv_muxer_reset
          MaxFails    \* calls in which a write fails

VARIABLES codec, mux, calls, dts, resets, given, missed, file, state, rd, dem, got, parsed

vars == <<codec, mux, calls, dts, resets, given, missed, file, state, rd, dem, got, parsed>>

Empty(c) == CASE c = "avc" -> NoSets [] c = "hevc" -> NoArrays

\* calloc, then flv_muxer_reset; the writer has written the file header.
Init == /\ codec \in Codecs
        /\ mux = [s |-> Empty(codec[1]), audio |-> FALSE, video |-> FALSE]
        /\ calls = 0 /\ dts = 0 /\ resets = <<>>
        /\ given = <<>> /\ missed = {}
        /\ file = <<>> /\ state = "open" /\ rd = 0
        /\ dem = [s |-> Empty(codec[1]), asc |-> 0, whole |-> TRUE]
        /\ got = <<>> /\ parsed = <<>>

(***************************************************************************)
(* The muxer.  handler is flv_writer_input; the write of tag fail of a     *)
(* call fails and leaves the file as it was, and the muxer then returns.   *)
(***************************************************************************)
flv_tag_header_write(tag) == [tag EXCEPT !.ts = @ % TimeMod]
flv_video_tag_header_write(key, packet, cts, ts, body) ==
    [type |-> "video", codec |-> codec[1], packet |-> packet, key |-> key,
     cts |-> cts % CtsMod, ts |-> ts, body |-> body, i |-> calls + 1]
flv_audio_tag_header_write(packet, ts, body) ==
    [type |-> "audio", codec |-> codec[2], packet |-> packet, key |-> FALSE,
     cts |-> 0, ts |-> ts, body |-> body, i |-> calls + 1]

\* flv_writer_input for each tag of a call, up to the one that fails.
flv_writer_input(tags, fail) ==
    /\ fail = 0 \/ (fail \in DOMAIN tags /\ Cardinality(missed) < MaxFails)
    /\ file' = file \o [k \in 1..(IF fail = 0 THEN Len(tags) ELSE fail - 1) |->
                            flv_tag_header_write(tags[k])]
    /\ missed' = IF fail = 0 THEN missed
                 ELSE missed \cup {<<calls + 1, tags[fail].packet>>,
                                   <<calls + 1, tags[Len(tags)].packet>>}

\* The sequence header, when it is due, then the frame, when it has a slice and
\* some sequence header has been made.
Video(header, record, h, off, fail) ==
    /\ mux' = [mux EXCEPT !.s = h.s, !.video = @ \/ header]
    /\ flv_writer_input(
          (IF header THEN <<flv_video_tag_header_write(TRUE, "header", 0, dts, record)>> ELSE <<>>)
          \o (IF h.vcl # 0 /\ (mux.video \/ header)
              THEN <<flv_video_tag_header_write(h.vcl = 1, "data", off, dts, h.out)>> ELSE <<>>),
          fail)

\* A muxer that writes its sequence header only once.
flv_muxer_h264_Once(h, off, fail) ==
    Video(~mux.video /\ h.s.sps # <<>> /\ h.s.pps # <<>>,
          mpeg4_avc_decoder_configuration_record_save(h.s), h, off, fail)

flv_muxer_h264(h, off, fail) ==
    Video(h.update /\ h.s.sps # <<>> /\ h.s.pps # <<>>,
          mpeg4_avc_decoder_configuration_record_save(h.s), h, off, fail)

flv_muxer_h265(h, off, fail) ==
    Video(h.update /\ Len(h.s.nalu) >= 3,
          mpeg4_hevc_decoder_configuration_record_save(h.s), h, off, fail)

\* A frame whose sets do not fit is dropped; the sets that did stay.
Dropped(h) ==
    /\ mux' = [mux EXCEPT !.s = h.s]
    /\ missed' = missed \cup {<<calls + 1, "header">>, <<calls + 1, "data">>}
    /\ UNCHANGED file

Called(units, sound, pts) ==
    /\ calls < MaxCalls /\ state = "open"
    /\ calls' = calls + 1
    /\ dts' = dts + Step
    /\ given' = Append(given, [units |-> units, sound |-> sound,
                               pts |-> pts % TimeMod, dts |-> dts % TimeMod])
    /\ UNCHANGED <<codec, resets, state, rd, dem, got, parsed>>

flv_muxer_avc(frame, off, fail) ==
    LET h == h264_annexbtomp4(mux.s, frame)
    IN  /\ codec[1] = "avc"
        /\ Called(frame, 0, dts + off)
        /\ IF h.out = <<>> THEN fail = 0 /\ Dropped(h) ELSE flv_muxer_h264(h, off, fail)

flv_muxer_hevc(frame, off, fail) ==
    LET h == h265_annexbtomp4(mux.s, frame)
    IN  /\ codec[1] = "hevc"
        /\ Called(frame, 0, dts + off)
        /\ IF h.out = <<>> THEN fail = 0 /\ Dropped(h) ELSE flv_muxer_h265(h, off, fail)

\* A sound is [asc, id]: the configuration its ADTS header states and its
\* payload.  Only the first header after a reset becomes a sequence header.
flv_muxer_aac(a, fail) ==
    /\ codec[2] = "aac"
    /\ Called(<<>>, a.id, dts)
    /\ flv_writer_input((IF mux.audio THEN <<>>
                         ELSE <<flv_audio_tag_header_write("header", dts, a.asc)>>)
                        \o <<flv_audio_tag_header_write("data", dts, a.id)>>, fail)
    /\ mux' = [mux EXCEPT !.audio = TRUE]

\* The first packet must be the OpusHead (asc # 0).
flv_muxer_opus(a, fail) ==
    /\ codec[2] = "opus"
    /\ Called(<<>>, a.id, dts)
    /\ IF ~mux.audio /\ a.asc = 0
       THEN fail = 0 /\ UNCHANGED <<mux, file>> /\ missed' = missed \cup {<<calls + 1, "data">>}
       ELSE /\ flv_writer_input(<<flv_audio_tag_header_write(
                    IF mux.audio THEN "data" ELSE "header", dts, a.id)>>, fail)
            /\ mux' = [mux EXCEPT !.audio = TRUE]

flv_muxer_mp3(a, fail) ==
    /\ codec[2] = "mp3"
    /\ Called(<<>>, a.id, dts)
    /\ flv_writer_input(<<flv_audio_tag_header_write("data", dts, a.id)>>, fail)
    /\ UNCHANGED mux

flv_muxer_reset ==
    /\ Len(resets) < MaxResets /\ state = "open" /\ calls > 0
    /\ mux' = [s |-> Empty(codec[1]), audio |-> FALSE, video |-> FALSE]
    /\ resets' = Append(resets, calls)
    /\ UNCHANGED <<codec, calls, dts, given, missed, file, state, rd, dem, got, parsed>>

\* flv_writer_destroy writes an end of sequence and closes the file.
flv_writer_destroy ==
    /\ state = "open" /\ state' = "closed"
    /\ file' = Append(file, [type |-> "video", codec |-> "avc", packet |-> "end", key |-> TRUE,
                             cts |-> 0, ts |-> 0, body |-> <<>>, i |-> 0])
    /\ UNCHANGED <<codec, mux, calls, dts, resets, given, missed, rd, dem, got, parsed>>

\* The process dies while it writes a tag: the last tag of the file lacks its
\* end.
Crash ==
    /\ state = "open" /\ state' = "torn"
    /\ UNCHANGED <<codec, mux, calls, dts, resets, given, missed, file, rd, dem, got, parsed>>

(***************************************************************************)
(* The player: one tag of a finished file at a time.                       *)
(***************************************************************************)
Signed(cts) == IF cts >= CtsMod \div 2 THEN cts - CtsMod ELSE cts

\* A reader of the header that does not extend the sign.
flv_video_tag_header_read_Unsigned(tag) == tag

flv_video_tag_header_read(tag) == [tag EXCEPT !.cts = Signed(@)]

Report(codecid, tag, cts, key, out) ==
    [name |-> codecid, i |-> tag.i, pts |-> (tag.ts + cts) % TimeMod, dts |-> tag.ts,
     key |-> key, out |-> out]

Answer(d, reports) == [dem |-> d, reports |-> reports]

\* An AAC payload gets back the ADTS header of the configuration in force.
flv_demuxer_audio(tag) ==
    CASE tag.packet = "header" ->
            Answer([dem EXCEPT !.asc = tag.body],
                   <<Report("config", tag, 0, FALSE, tag.body)>>)
      [] tag.codec = "aac" ->
            Answer(dem, <<Report("aac", tag, 0, FALSE, [asc |-> dem.asc, id |-> tag.body])>>)
      [] OTHER -> Answer(dem, <<Report(tag.codec, tag, 0, FALSE, tag.body)>>)

\* Data without a configuration, and units that do not convert, are refused.
flv_demuxer_video(raw) ==
    LET tag == flv_video_tag_header_read(raw)
        avc == codec[1] = "avc"
        c == IF avc THEN h264_mp4toannexb(dem.s, tag.body)
             ELSE h265_mp4toannexb(dem.s, tag.body)
    IN  CASE tag.packet = "header" ->
                Answer([dem EXCEPT !.s =
                            IF avc THEN mpeg4_avc_decoder_configuration_record_load(tag.body)
                            ELSE mpeg4_hevc_decoder_configuration_record_load(tag.body)],
                       <<Report("config", tag, tag.cts, FALSE, tag.body)>>)
          [] tag.packet = "end" -> Answer(dem, <<>>)
          [] (IF avc THEN dem.s.nalu = 0 ELSE dem.s.nalu = <<>>) \/ c.err -> Answer(dem, <<>>)
          [] OTHER -> Answer([dem EXCEPT !.whole = @ /\ c.whole],
                             <<Report(tag.codec, tag, tag.cts, tag.key, c.out)>>)

flv_demuxer_input(tag) ==
    IF tag.type = "audio" THEN flv_demuxer_audio(tag) ELSE flv_demuxer_video(tag)

\* The parser reports the body as it stands.  For MP3 the packet type it
\* tests was never assigned, and either branch may be taken.
flv_parser_audio(tag) ==
    {Report(name, tag, 0, FALSE, tag.body) :
        name \in CASE tag.codec = "mp3" -> {"mp3", "config"}
                   [] tag.packet = "header" -> {"config"}
                   [] OTHER -> {tag.codec}}
flv_parser_video(raw) ==
    LET tag == flv_video_tag_header_read(raw)
    IN  {CASE tag.packet = "header" -> Report("config", tag, 0, FALSE, tag.body)
           [] OTHER -> Report(tag.codec, tag, tag.cts, tag.key, tag.body)}
flv_parser_input(tag) ==
    IF tag.type = "audio" THEN flv_parser_audio(tag) ELSE flv_parser_video(tag)

\* What flv_reader_read finds: a torn tag is the end of the file.
Readable == Len(file) - (IF state = "torn" /\ file # <<>> THEN 1 ELSE 0)

flv_reader_read ==
    /\ state # "open" /\ rd < Readable
    /\ rd' = rd + 1
    /\ LET tag == file[rd + 1]
           a == flv_demuxer_input(tag)
       IN  /\ dem' = a.dem
           /\ got' = got \o a.reports
           /\ IF tag.packet = "end" THEN UNCHANGED parsed
              ELSE \E p \in flv_parser_input(tag) : parsed' = Append(parsed, p)
    /\ UNCHANGED <<codec, mux, calls, dts, resets, given, missed, file, state>>

Offset == Offsets[(calls % Len(Offsets)) + 1]

Next ==
    \/ \E fail \in 0..2 :
          \/ \E f \in Frames[codec[1]] :
                flv_muxer_avc(f, Offset, fail) \/ flv_muxer_hevc(f, Offset, fail)
          \/ \E a \in Sounds[codec[2]] :
                flv_muxer_aac(a, fail) \/ flv_muxer_opus(a, fail) \/ flv_muxer_mp3(a, fail)
    \/ flv_muxer_reset \/ flv_writer_destroy \/ Crash
    \/ flv_reader_read

Spec == Init /\ [][Next]_vars

(***************************************************************************)
(* Properties.                                                             *)
(***************************************************************************)
TypeOK == /\ codec \in Codecs
          /\ mux.audio \in BOOLEAN /\ mux.video \in BOOLEAN
          /\ calls = Len(given) /\ calls \in 0..MaxCalls
          /\ missed \subseteq (1..calls) \X {"header", "data"}
          /\ state \in {"open", "closed", "torn"}
          /\ rd \in 0..Len(file)

Table(s) == IF codec[1] = "avc" THEN s.sps \o s.pps ELSE s.nalu

\* However sets of different lengths replace one another, every entry of the
\* muxer's and of the demuxer's store points to the octets of its own set, and
\* the entries cover the area (mpeg4_avc_remove, mpeg4_hevc_remove).
SetsInPlace ==
    \A s \in {mux.s, dem.s} :
        /\ \A i \in DOMAIN Table(s) : Unit(s, Table(s)[i]).ver # -1
        /\ FoldLeft(LAMBDA n, e : n + e.n, 0, Table(s)) = Len(s.data)

IsSet(nal) == nal.t \in {"vps", "sps", "pps"}

\* The newest set of every kind and identifier among calls 1..i, since the
\* last flv_muxer_reset before call i.
Newest(i) ==
    LET from == {0} \cup {r \in {resets[k] : k \in DOMAIN resets} : r < i}
        first == CHOOSE r \in from : \A q \in from : q <= r
        units == FlattenSeq([k \in 1..(i - first) |-> given[first + k].units])
        last == {k \in DOMAIN units :
                    /\ IsSet(units[k])
                    /\ \A j \in (k + 1)..Len(units) :
                          ~(units[j].t = units[k].t /\ units[j].id = units[k].id)}
    IN  {units[k] : k \in last}

\* The position of the key slice that no parameter set precedes, or 0.
BareKey(f) ==
    LET k == SelectInSeq(f, LAMBDA nal : nal.t = "idr")
    IN  IF \E j \in 1..(k - 1) : IsSet(f[j]) THEN 0 ELSE k

\* What a decoder needs of frame f, given as call i: its own units and, before
\* a bare key slice, the newest sets (H.264: before everything else).
ComesBackAs(f, i, out) ==
    LET k == BareKey(f)
        at == IF codec[1] = "avc" THEN 0 ELSE k - 1
        n == Cardinality(Newest(i))
    IN  IF k = 0 THEN out = f
        ELSE /\ SubSeq(out, 1, at) \o SubSeq(out, at + n + 1, Len(out)) = f
             /\ ToSet(SubSeq(out, at + 1, at + n)) = Newest(i)

HeaderMissed == \E i \in 1..calls : <<i, "header">> \in missed

\* Whatever a player is given is what the encoder made: a video frame with its
\* time stamps, its key mark, its NAL units and the newest parameter sets when
\* it is a key frame without; sound with its payload.  This holds across
\* changed sets, resets, failed writes of frames and a crash, as long as no
\* sequence header was lost (flv-muxer.c marks it as sent before it is).
FlvFramesComeBack ==
    \A k \in DOMAIN got :
        LET g == got[k] x == given[g.i]
        IN  g.name # "config" =>
            /\ g.dts = x.dts
            /\ g.name \in {"avc", "hevc"} => /\ g.pts = x.pts
                                             /\ g.key = (\E j \in DOMAIN x.units : x.units[j].t = "idr")
                                             /\ HeaderMissed \/ ComesBackAs(x.units, g.i, g.out)
            /\ g.name = "aac" => g.out.id = x.sound
            /\ g.name \in {"opus", "mp3"} => g.out = x.sound

HasSlice(x) == \E j \in DOMAIN x : x[j].t \in {"idr", "slice"}
Kinds(sets) == {nal.t : nal \in sets}

\* A player that has read a whole file has had every frame that has a slice
\* and was given after its parameter sets, except those whose write failed.
FlvNoneMissing ==
    (state = "closed" /\ rd = Len(file) /\ ~HeaderMissed) =>
        \A i \in 1..calls :
            (/\ HasSlice(given[i].units)
             /\ {"sps", "pps"} \cup (IF codec[1] = "hevc" THEN {"vps"} ELSE {})
                    \subseteq Kinds(Newest(i))
             /\ <<i, "data">> \notin missed)
            => \E k \in DOMAIN got : got[k].i = i /\ got[k].name = codec[1]

\* h264_mp4toannexb asserts that it has come to the end of the units it was
\* given.
AllConverted == dem.whole

\* Parser and demuxer name every packet the same way, with the same stamps,
\* but for MP3, where the parser tests a field it never set.
ParserAgrees ==
    \A k \in DOMAIN parsed :
        parsed[k].name # "config" /\ codec[2] # "mp3" =>
            \A j \in DOMAIN got :
                got[j].i = parsed[k].i /\ got[j].name = parsed[k].name =>
                    got[j].pts = parsed[k].pts /\ got[j].key = parsed[k].key
=============================================================================
