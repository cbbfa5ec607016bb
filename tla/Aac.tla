-------------------------------- MODULE Aac ---------------------------------
(* codec/mpeg4-aac: the AAC configuration as a stream carries it from one    *)
(* container to the next: an encoder's AudioSpecificConfig is loaded, then   *)
(* saved and loaded again as ADTS header (flv_demuxer_audio), as             *)
(* AudioSpecificConfig (flv_muxer_aac) or as StreamMuxConfig.  Headers are   *)
(* sequences of bits with the widths of the code.  A failed assert answers   *)
(* Abort.                                                                    *)
EXTENDS Integers, Sequences, SequencesExt

CONSTANTS Configs,    \* what an encoder may send: [aot, freq, cc, core, how, pce]
          PceRoom,    \* the octets of aac->pce (64)
          Payloads, MaxHops

VARIABLES config,     \* the encoder's configuration
          aac,        \* struct mpeg4_aac_t, and the answer of the load that filled it
          ret,
          stale,      \* the bit that fills the buffers headers are saved into
          frame,      \* the last ADTS frame: [bits, ret, payload], or <<>>
          hops        \* history: the forms it went through

vars == <<config, aac, ret, stale, frame, hops>>

Abort == -2
ID_PCE == 5

Put(n, v) == [i \in 1..n |-> (v \div 2 ^ (n - i)) % 2]
Num(s) == FoldLeft(LAMBDA a, b : 2 * a + b, 0, s)
LOCAL Zeros(n) == [i \in 1..n |-> 0]
LOCAL Times(n, s) == FlattenSeq([i \in 1..n |-> s])
LOCAL Octets(n) == (n + 7) \div 8
LOCAL Whole(s) == s \o Zeros(8 * Octets(Len(s)) - Len(s))

------------------------------------------------------------------------------
(* A reader of from, at at, that may copy into the buffer to, filled up to   *)
(* pos; vals are the values read.  A read beyond the end gives 0 and stays.  *)
mpeg4_bits_init(from, at, to, pos) ==
    [from |-> from, at |-> at, error |-> FALSE, to |-> to, pos |-> pos, vals |-> <<>>]
LOCAL Fits(c, n) == c.at + n <= Len(c.from)
LOCAL Bits(c, n) == IF Fits(c, n) THEN SubSeq(c.from, c.at + 1, c.at + n) ELSE Zeros(n)
mpeg4_bits_read_n(c, n) ==
    [c EXCEPT !.at = IF Fits(c, n) THEN @ + n ELSE @, !.error = @ \/ ~Fits(c, n), !.vals = Append(@, Num(Bits(c, n)))]

(* The first octet written to keeps the bits that are set in it, the others  *)
(* are overwritten.                                                          *)
mpeg4_bits_write_n(to, pos, v) ==
    LET end == pos + Len(v)
        first == 8 * Octets(pos + 1)     \* where the first octet ends
        last == 8 * Octets(end)
        kept(k) == pos + k <= first /\ to[pos + k] = 1
    IN SubSeq(to, 1, pos) \o [k \in DOMAIN v |-> IF kept(k) THEN 1 ELSE v[k]]
       \o (IF end <= first THEN SubSeq(to, end + 1, last) ELSE Zeros(last - end))
       \o SubSeq(to, last + 1, Len(to))
mpeg4_bits_copy(c, n) ==
    LET r == mpeg4_bits_read_n(c, n)
        room == c.pos + n <= Len(c.to)
    IN IF ~room THEN r
       ELSE [r EXCEPT !.to = mpeg4_bits_write_n(c.to, c.pos, Bits(c, n)), !.pos = @ + n]
mpeg4_bits_aligment(c) == [c EXCEPT !.at = 8 * Octets(@), !.pos = 8 * Octets(@)]

LOCAL CopyAll(c, widths) == FoldLeft(mpeg4_bits_copy, c, widths)
LOCAL Read(c) == Last(c.vals)
LOCAL CopyIfSet(c, n) == IF Read(c) = 1 THEN mpeg4_bits_copy(c, n) ELSE c
LOCAL CopyIf(c, n) == CopyIfSet(mpeg4_bits_copy(c, 1), n)

(* The program configuration element is copied as it is read; the channels   *)
(* are counted on the way.                                                   *)
(* n holds the nine values in front, from counts the values before the names. *)
LOCAL PceComment(c) == CopyAll(c, Times(Read(c), <<8>>))
LOCAL PceNamed(a, n, from, named) ==
    LET pair(i) == named.vals[from + 2 * i - 1] = 1 \/ a.ps = 1
    IN [c |-> PceComment(mpeg4_bits_copy(mpeg4_bits_aligment(named), 8)),
        channels |-> FoldLeft(LAMBDA k, i : k + (IF pair(i) THEN 2 ELSE 1), n[7],
                              [i \in 1..(n[4] + n[5] + n[6]) |-> i]),
        abort |-> a.sampling_frequency_index # n[3] \/ a.profile # n[2] + 1]
LOCAL PceMixed(a, n, c) ==
    PceNamed(a, n, Len(c.vals),
             CopyAll(c, Times(n[4] + n[5] + n[6], <<1, 4>>) \o Times(n[7] + n[8], <<4>>) \o Times(n[9], <<1, 4>>)))
LOCAL PceHead(a, c) ==
    PceMixed(a, SubSeq(c.vals, Len(c.vals) - 8, Len(c.vals)), CopyIf(CopyIf(CopyIf(c, 4), 4), 3))
mpeg4_aac_pce_load(c, a) == PceHead(a, CopyAll(c, <<4, 2, 4, 4, 4, 4, 2, 3, 4>>))

LOCAL Loaded(a, r) ==    \* aac with its element
    [a EXCEPT !.channels = r.channels, !.pce = SubSeq(r.c.to, 1, 8 * Octets(r.c.pos))]
LOCAL PceBuffer == Zeros(8 * PceRoom)

------------------------------------------------------------------------------
(* AudioSpecificConfig                                                       *)
LOCAL Reads(c, widths) == FoldLeft(mpeg4_bits_read_n, c, widths)
LOCAL ReadIfSet(c, n) == IF Read(c) = 1 THEN mpeg4_bits_read_n(c, n) ELSE c
LOCAL ReadIf(c, n) == ReadIfSet(mpeg4_bits_read_n(c, 1), n)
(* Each of these two leaves one value, whichever form it has.                *)
LOCAL LongType(c) ==
    IF Read(c) # 31 THEN c
    ELSE [mpeg4_bits_read_n(c, 6) EXCEPT !.vals = Append(Front(c.vals), 32 + Last(@))]
mpeg4_aac_get_audio_object_type(c) == LongType(mpeg4_bits_read_n(c, 5))
LOCAL LongFrequency(c) == IF Read(c) # 15 THEN c ELSE [mpeg4_bits_read_n(c, 24) EXCEPT !.vals = c.vals]
mpeg4_aac_get_sampling_frequency(c) == LongFrequency(mpeg4_bits_read_n(c, 4))

(* g is reader, aac and whether an assertion failed; extended is the flag    *)
(* that the rest depends on.                                                 *)
LOCAL GaExtended(g, c) == [g EXCEPT !.c = c, !.abort = @ \/ Read(c) = 1]
LOCAL GaExtension(extended, g) ==
    IF ~extended THEN g
    ELSE GaExtended(g, Reads(g.c, (IF g.a.profile = 22 THEN <<5, 11>> ELSE <<>>)
                                  \o (IF g.a.profile \in {17, 19, 20, 23} THEN <<1, 1, 1>> ELSE <<>>) \o <<1>>))
LOCAL GaLayer(g) == IF g.a.profile \in {6, 20} THEN [g EXCEPT !.c = mpeg4_bits_read_n(@, 3)] ELSE g
LOCAL GaElement(a, r) == [c |-> r.c, a |-> Loaded(a, r), abort |-> r.abort]
LOCAL GaFlag(a, c) ==
    GaExtension(Read(c) = 1,
                GaLayer(IF a.channel_configuration = 0 THEN GaElement(a, mpeg4_aac_pce_load(c, a))
                        ELSE [c |-> c, a |-> a, abort |-> FALSE]))
mpeg4_aac_ga_specific_config_load(c, a) ==
    GaFlag(a, mpeg4_bits_read_n(ReadIf(mpeg4_bits_read_n(c, 1), 14), 1))

mpeg4_aac_celp_specific_config_load(c) ==
    LET base == mpeg4_bits_read_n(c, 1)
        mode == mpeg4_bits_read_n(base, 1)
        rates == Reads(mode, <<1, 1>>)
    IN IF Read(base) = 0 THEN mpeg4_bits_read_n(mode, 2)
       ELSE IF Read(mode) = 1 THEN mpeg4_bits_read_n(rates, 3) ELSE Reads(rates, <<5, 2, 1>>)

(* What may follow: the signalling of SBR, and of PS, behind a sync word.  A *)
(* slip: the place of the second sync word is not left room for.             *)
LOCAL Remain(c) == IF c.error THEN 0 ELSE Len(c.from) - c.at
mpeg4_aac_sync_extension_Narrow(c, a) ==
    LET sync == mpeg4_bits_read_n(c, 11)
        sbr == mpeg4_bits_read_n(mpeg4_aac_get_audio_object_type(sync), 1)
    IN IF Remain(c) < 16 \/ Read(sync) # 695 THEN [c |-> c, a |-> a]
       ELSE [c |-> mpeg4_aac_get_sampling_frequency(sbr), a |-> [a EXCEPT !.sbr = Read(sbr)]]
LOCAL SyncPs(a, c) == [c |-> c, a |-> [a EXCEPT !.ps = Read(c)]]
LOCAL SyncAgain(a, c) == IF Read(c) # 1352 THEN [c |-> c, a |-> a] ELSE SyncPs(a, mpeg4_bits_read_n(c, 1))
LOCAL SyncMore(a, c) == IF Remain(c) < 12 THEN [c |-> c, a |-> a] ELSE SyncAgain(a, mpeg4_bits_read_n(c, 11))
LOCAL SyncSbr(a, c) ==
    IF Read(c) = 0 THEN [c |-> c, a |-> [a EXCEPT !.sbr = 0]]
    ELSE SyncMore([a EXCEPT !.sbr = 1], mpeg4_aac_get_sampling_frequency(c))
LOCAL Sync22(a, c) ==
    [c |-> mpeg4_bits_read_n(IF Read(c) = 1 THEN mpeg4_aac_get_sampling_frequency(c) ELSE c, 4),
     a |-> [a EXCEPT !.sbr = Read(c)]]
LOCAL SyncType(a, c) ==
    CASE Read(c) = 5 -> SyncSbr(a, mpeg4_bits_read_n(c, 1))
      [] Read(c) = 22 -> Sync22(a, mpeg4_bits_read_n(c, 1))
      [] OTHER -> [c |-> c, a |-> a]
LOCAL SyncWord(a, c) ==
    IF Read(c) # 695 THEN [c |-> c, a |-> a] ELSE SyncType(a, mpeg4_aac_get_audio_object_type(c))
mpeg4_aac_sync_extension(c, a) ==
    IF Remain(c) < 16 THEN [c |-> c, a |-> a] ELSE SyncWord(a, mpeg4_bits_read_n(c, 11))

LOCAL GA == {1, 2, 3, 4, 6, 7, 17, 19, 20, 21, 22, 23}
LOCAL ER == {17, 19, 20, 21, 22, 23, 24, 25, 26, 27, 39}
LOCAL Ended(x) == [a |-> x.a, ret |-> IF x.c.error THEN -1 ELSE Octets(x.c.at)]
LOCAL Extension(explicit, c, a) == Ended(IF explicit THEN [c |-> c, a |-> a] ELSE mpeg4_aac_sync_extension(c, a))
LOCAL EpConfig(explicit, c, a) ==
    IF Read(c) \in {2, 3} THEN [a |-> a, ret |-> Abort] ELSE Extension(explicit, c, a)
LOCAL Specific(explicit, g) ==
    IF g.a.profile \notin GA \cup {8} \/ g.abort THEN [a |-> g.a, ret |-> Abort]
    ELSE IF g.a.profile \in ER THEN EpConfig(explicit, mpeg4_bits_read_n(g.c, 2), g.a)
    ELSE Extension(explicit, g.c, g.a)
LOCAL WithType(explicit, c, a) ==
    Specific(explicit, IF a.profile \in GA THEN mpeg4_aac_ga_specific_config_load(c, a)
                       ELSE [c |-> mpeg4_aac_celp_specific_config_load(c), a |-> a, abort |-> FALSE])
LOCAL InnerType(c, a) ==
    WithType(TRUE, IF Read(c) = 22 THEN mpeg4_bits_read_n(c, 4) ELSE c, [a EXCEPT !.profile = Read(c)])
LOCAL Headed(c, a0) ==      \* c.vals is object type, frequency and channels
    LET explicit == c.vals[1] \in {5, 29}
        a == [a0 EXCEPT !.profile = c.vals[1], !.sampling_frequency_index = c.vals[2],
                        !.channel_configuration = c.vals[3], !.sbr = IF explicit THEN 1 ELSE 0,
                        !.ps = IF c.vals[1] = 29 THEN 1 ELSE 0]
    IN IF explicit THEN InnerType(mpeg4_aac_get_audio_object_type(mpeg4_aac_get_sampling_frequency(c)), a)
       ELSE WithType(FALSE, c, a)
mpeg4_aac_audio_specific_config_load2(s, a0) ==
    Headed(mpeg4_bits_read_n(mpeg4_aac_get_sampling_frequency(mpeg4_aac_get_audio_object_type(
               mpeg4_bits_init(s, 0, PceBuffer, 0))), 4), a0)

LOCAL Fields(profile, freq, cc) ==
    [profile |-> profile, sampling_frequency_index |-> freq, channel_configuration |-> cc, channels |-> cc,
     sbr |-> 0, ps |-> 0, pce |-> <<>>]
LOCAL Plain(a, n) ==
    [a |-> a, ret |-> IF a.profile \in 1..30 /\ a.channel_configuration <= 7 /\ a.sampling_frequency_index <= 12
                      THEN n ELSE Abort]
mpeg4_aac_audio_specific_config_load(s) ==
    LET r == Plain(Fields(Num(SubSeq(s, 1, 5)), Num(SubSeq(s, 6, 9)), Num(SubSeq(s, 10, 13))), 2)
    IN IF r.ret = Abort \/ Len(s) <= 16 THEN r ELSE mpeg4_aac_audio_specific_config_load2(s, r.a)

mpeg4_aac_audio_specific_config_save(a) ==
    LET cc == IF a.pce # <<>> THEN 0 ELSE a.channel_configuration
    IN Put(5, a.profile) \o Put(4, a.sampling_frequency_index) \o Put(4, cc) \o Zeros(3)
       \o IF a.channel_configuration = 0 THEN a.pce ELSE <<>>

------------------------------------------------------------------------------
(* StreamMuxConfig: it is always said to be AAC-LC.                          *)
mpeg4_aac_stream_mux_config_save(a) ==
    Put(8, 64) \o Zeros(7) \o Put(5, 2) \o Put(4, a.sampling_frequency_index)
    \o Put(4, a.channel_configuration) \o Zeros(6) \o Put(8, 255) \o Zeros(6)
mpeg4_aac_stream_mux_config_load(s) ==
    Plain(Fields(Num(SubSeq(s, 16, 20)), Num(SubSeq(s, 21, 24)), Num(SubSeq(s, 25, 28))), 6)

------------------------------------------------------------------------------
(* ADTS.  The element is copied behind the header and its three bits of      *)
(* identification; the seven octets of the header are counted with it.  A    *)
(* slip: the copy begins where the identification does.                      *)
mpeg4_aac_adts_pce_save_NoId(a, room) ==
    LET r == mpeg4_aac_pce_load(mpeg4_bits_init(a.pce, 0, [i \in 1..(8 * (room - 7)) |-> stale], 0), a)
    IN [n |-> 7 + Octets(r.c.pos), bits |-> r.c.to, abort |-> FALSE]
LOCAL PceSaved(a, r) ==
    [n |-> IF r.c.error THEN 0 ELSE 7 + Octets(r.c.pos), bits |-> r.c.to,
     abort |-> r.abort \/ r.channels # a.channels]
mpeg4_aac_adts_pce_save(a, room) ==
    LET buffer == [i \in 1..(8 * (room - 7)) |-> stale]
        id == mpeg4_bits_write_n(buffer, 0, Put(3, ID_PCE))
    IN IF (Len(a.pce) \div 8) + 7 > room THEN [n |-> 0, bits |-> buffer, abort |-> FALSE]
       ELSE PceSaved(a, mpeg4_aac_pce_load(mpeg4_bits_init(a.pce, 0, id, 3), a))

(* The room is what flv_demuxer_audio gives; the payload goes where the      *)
(* answer says the header ends.                                              *)
LOCAL AdtsFrame(a, payload, e) ==
    LET len == payload + 7 + e.n
        head == Put(12, 4095) \o Put(4, 1) \o Put(2, (a.profile - 1) % 4) \o Put(4, a.sampling_frequency_index)
                \o Zeros(1) \o Put(3, a.channel_configuration) \o Zeros(4) \o Put(13, len) \o Put(11, 2047) \o Zeros(2)
        area == head \o e.bits \o [i \in 1..64 |-> stale]
    IN [bits |-> SubSeq(area, 1, 8 * (len - payload)) \o Zeros(8 * payload), payload |-> payload,
        ret |-> IF e.abort THEN Abort ELSE len - payload]
mpeg4_aac_adts_save(a, payload) ==
    IF payload + 7 >= 4096 THEN [bits |-> <<>>, payload |-> payload, ret |-> -1]
    ELSE AdtsFrame(a, payload,
                   IF a.channel_configuration = 0 /\ a.pce # <<>>
                   THEN mpeg4_aac_adts_pce_save(a, 7 + 1 + (Len(a.pce) \div 8))
                   ELSE [n |-> 0, bits |-> <<>>, abort |-> FALSE])

mpeg4_aac_adts_frame_length(s) == Num(SubSeq(s, 31, 43))

(* Only the frames of mpeg4_aac_adts_save are loaded: they have no checksum. *)
LOCAL AdtsElement(a, r) ==
    [a |-> Loaded(a, r), ret |-> IF r.abort THEN Abort ELSE IF r.c.error THEN -1 ELSE 7 + Octets(r.c.pos)]
mpeg4_aac_adts_load(s) ==
    LET r == Plain(Fields(Num(SubSeq(s, 17, 18)) + 1, Num(SubSeq(s, 19, 22)), Num(SubSeq(s, 24, 26))), 7)
        id == mpeg4_bits_read_n(mpeg4_bits_init(SubSeq(s, 57, Len(s)), 0, PceBuffer, 0), 3)
    IN IF r.ret = Abort \/ r.a.channel_configuration # 0 \/ Len(s) <= 56 \/ Read(id) # ID_PCE THEN r
       ELSE AdtsElement(r.a, mpeg4_aac_pce_load(id, r.a))

------------------------------------------------------------------------------
(* The encoder.                                                              *)
Pce(c) ==
    LET p == c.pce
        named(q) == FlattenSeq([i \in DOMAIN q |-> <<q[i]>> \o Put(4, i)])
        listed(n) == FlattenSeq([i \in 1..n |-> Put(4, i)])
    IN Put(4, 9) \o Put(2, c.aot - 1) \o Put(4, c.freq) \o Put(4, Len(p.front)) \o Zeros(4) \o Put(4, Len(p.back))
       \o Put(2, p.lfe) \o Put(3, p.data) \o Put(4, Len(p.cc))
       \o (IF p.mixed THEN Put(5, 19) \o Zeros(1) \o Put(4, 13) ELSE Zeros(3))
       \o named(p.front) \o named(p.back) \o listed(p.lfe) \o listed(p.data) \o named(p.cc)
Comment(c) == Put(8, c.pce.comment) \o FlattenSeq([i \in 1..c.pce.comment |-> Put(8, 170 + i)])

Top(c) ==
    LET outer == c.how \in {"sbr", "ps"}
    IN (IF outer THEN Put(5, IF c.how = "ps" THEN 29 ELSE 5) ELSE Put(5, c.aot)) \o Put(4, c.freq) \o Put(4, c.cc)
       \o (IF outer THEN Put(4, 3) \o Put(5, c.aot) \o (IF c.aot = 22 THEN Put(4, 2) ELSE <<>>) ELSE <<>>)
LOCAL Flag(c) == IF c.aot \in ER THEN 1 ELSE 0
UpToElement(c) ==
    LET ga == Zeros(1) \o (IF c.core THEN Put(15, 16384 + 5461) ELSE Zeros(1)) \o Put(1, Flag(c))
    IN IF c.cc = 0 THEN Whole(Top(c) \o ga \o Pce(c)) \o Comment(c) ELSE Top(c) \o ga
Encoded(c) ==
    LET rest == (IF c.aot = 20 THEN Zeros(3) ELSE <<>>)
                \o (IF Flag(c) = 1 THEN Zeros(CASE c.aot = 22 -> 17 [] c.aot = 21 -> 1 [] OTHER -> 4) \o Zeros(2) ELSE <<>>)
        celp == Top(c) \o (IF c.core THEN <<1, 1, 0, 0, 1, 0, 1>> ELSE <<0, 1, 1, 0>>)
        sync == CASE c.how = "syncsbr" -> Put(11, 695) \o Put(5, 5) \o <<1>> \o Put(4, 3)
                  [] c.how = "syncps" -> Put(11, 695) \o Put(5, 5) \o <<1>> \o Put(4, 3) \o Put(11, 1352) \o <<1>>
                  [] c.how = "sync22" -> Put(11, 695) \o Put(5, 22) \o <<1>> \o Put(4, 3) \o Put(4, 2)
                  [] OTHER -> <<>>
    IN Whole((IF c.aot = 8 THEN celp ELSE UpToElement(c) \o rest) \o sync)

LOCAL Begun(r) == aac = r.a /\ ret = r.ret
Init ==
    /\ config \in Configs /\ stale \in 0..1
    /\ Begun(mpeg4_aac_audio_specific_config_load(Encoded(config)))
    /\ frame = <<>> /\ hops = <<>>

LOCAL Hop(name, r) ==
    /\ ret > 0 /\ Len(hops) < MaxHops /\ hops' = Append(hops, name)
    /\ aac' = r.a /\ ret' = r.ret
    /\ UNCHANGED <<config, stale>>
Adts(payload) ==
    /\ frame' = mpeg4_aac_adts_save(aac, payload)
    /\ Hop("adts", IF frame'.ret < 0 THEN [a |-> aac, ret |-> frame'.ret] ELSE mpeg4_aac_adts_load(frame'.bits))
Asc == frame' = <<>> /\ Hop("asc", mpeg4_aac_audio_specific_config_load(mpeg4_aac_audio_specific_config_save(aac)))
Latm == frame' = <<>> /\ Hop("latm", mpeg4_aac_stream_mux_config_load(mpeg4_aac_stream_mux_config_save(aac)))

Next == (\E p \in Payloads : Adts(p)) \/ Asc \/ Latm
Spec == Init /\ [][Next]_vars

------------------------------------------------------------------------------
(* The length of the element once its octets are rounded up.                 *)
LOCAL Element(c) == Whole(Pce(c)) \o Comment(c)
LOCAL Kept(c) == c.cc = 0 /\ Len(Element(c)) <= 8 * PceRoom
LOCAL Channels(c, ps) ==
    IF c.cc # 0 THEN c.cc
    ELSE FoldLeft(LAMBDA k, b : k + (IF b = 1 \/ ps THEN 2 ELSE 1), c.pce.lfe, c.pce.front \o c.pce.back)

TypeOK ==
    /\ ret \in {Abort, -1} \cup Nat /\ Len(aac.pce) <= 8 * PceRoom /\ Len(aac.pce) % 8 = 0
    /\ aac.channel_configuration \in 0..7 /\ hops \in Seq({"adts", "asc", "latm"})

(* The loader of an AudioSpecificConfig (mpeg4_aac_audio_specific_config_load) *)
(* takes in all of it: the signalling of SBR and PS, before or behind, and   *)
(* the program configuration element bit for bit, wherever it begins; one    *)
(* that ends inside the element is refused.  However often the configuration *)
(* is then saved in one form and loaded from it, rate and channels stay, the *)
(* element too where the form has room for one, the buffer was clean and PS  *)
(* was not found out after the channels were counted (mpeg4_aac_pce_load),  *)
(* and the object type as far as the form can say it; the length in an ADTS      *)
(* header is that of header and payload together.                            *)
AacComesBack ==
    LET c == config
        had(h) == \E i \in DOMAIN hops : hops[i] = h
        clean == ~had("adts") \/ c.cc # 0 \/ (stale = 0 /\ c.how # "syncps")
    IN /\ hops = <<>> =>
            /\ ret = Len(Encoded(c)) \div 8
            /\ aac.profile = c.aot
            /\ c.how = "plain" <=> aac.sbr = 0
            /\ c.how \in {"ps", "syncps"} <=> aac.ps = 1
            /\ aac.channels = Channels(c, c.how = "ps")
            /\ c.cc = 0 /\ stale = 0 => \A n \in 3..(Octets(Len(UpToElement(c))) - 1) :
                 mpeg4_aac_audio_specific_config_load(SubSeq(Encoded(c), 1, 8 * n)).ret < 0
       /\ clean =>
            /\ hops # <<>> /\ (frame = <<>> \/ frame.payload < 4089) /\ (c.cc # 0 \/ Kept(c)) => ret > 0 /\ aac.sbr = 0 /\ aac.ps = 0
            /\ aac.sampling_frequency_index = c.freq /\ aac.channel_configuration = c.cc
            /\ c.aot <= 4 /\ ~had("latm") => aac.profile = c.aot
            /\ Kept(c) /\ ~had("latm") => aac.pce = Element(c) /\ (aac.ps = 0 => aac.channels = Channels(c, FALSE))
       /\ frame # <<>> /\ frame.ret > 0 =>
            /\ mpeg4_aac_adts_frame_length(frame.bits) = Len(frame.bits) \div 8
            /\ Len(frame.bits) \div 8 = frame.ret + frame.payload
            /\ c.cc # 0 => frame.ret = 7
==============================================================================
