----------------------------- MODULE MCFormats ------------------------------
(* Digests, ciphers, media streams and text codecs side by side; a behaviour *)
(* exercises the one that part names, and all share the variables w1 to w13. *)
EXTENDS Integers, Sequences

VARIABLES part, w1, w2, w3, w4, w5, w6, w7, w8, w9, w10, w11, w12, w13

shared == <<w1, w2, w3, w4, w5, w6, w7, w8, w9, w10, w11, w12, w13>>

(* The SHA families with small blocks: 6 or 7 octets, 2 or 3 of them for     *)
(* the length, which is counted in words of 16 or 32.                        *)
Families == {"SHA1", "SHA256", "SHA512"}
BlockSizes == [SHA1 |-> 6, SHA256 |-> 6, SHA512 |-> 7]
HashSizes == [SHA1 |-> 2, SHA256 |-> 2, SHA512 |-> 3]
LengthOctets == [SHA1 |-> 2, SHA256 |-> 2, SHA512 |-> 3]
WordMods == [SHA1 |-> 16, SHA256 |-> 16, SHA512 |-> 32]

(* A message long enough to overflow both length words; a key longer than a  *)
(* block.                                                                    *)
US == INSTANCE Hashing WITH
        Versions <- Families, BlockSize <- BlockSizes, HashSize <- HashSizes,
        LenOctets <- LengthOctets, WordMod <- WordMods, Kinds <- {"usha"}, KeyLens <- {2},
        Pieces <- {0, 1, 3, 8}, LastBits <- {0, 3, 8}, OkmLens <- {0}, InfoLen <- 2, MaxN <- 2,
        MaxOctets <- 40, MaxResets <- 1, Md5Block <- 4, Md5Octets <- 2, Md5Mod <- 64,
        kind <- w1, sha <- w2, mac <- w3, kdf <- w4, key <- w5, given <- w6, bits <- w7,
        last <- w8, resets <- w9,
        state <- w1, count <- w2, buffer <- w3, taken <- w4, digest <- w5
HM == INSTANCE Hashing WITH
        Versions <- {"SHA1", "SHA512"}, BlockSize <- BlockSizes, HashSize <- HashSizes,
        LenOctets <- LengthOctets, WordMod <- [SHA1 |-> 1024, SHA512 |-> 1024],
        Kinds <- {"hmac", "hkdf"}, KeyLens <- {2, 9},
        Pieces <- {1, 3}, LastBits <- {0, 3, 8}, OkmLens <- {0, 3, 5, 9}, InfoLen <- 2, MaxN <- 2,
        MaxOctets <- 5, MaxResets <- 2, Md5Block <- 4, Md5Octets <- 2, Md5Mod <- 64,
        kind <- w1, sha <- w2, mac <- w3, kdf <- w4, key <- w5, given <- w6, bits <- w7,
        last <- w8, resets <- w9,
        state <- w1, count <- w2, buffer <- w3, taken <- w4, digest <- w5
AE == INSTANCE Aes WITH
        Block <- 2, KeySizes <- {128, 100}, Cuts <- {1, 2, 3, 4}, MaxOctets <- 6,
        mode <- w1, nr <- w2, size <- w3, siv <- w4, soff <- w5, riv <- w6, roff <- w7,
        sent <- w8, wire <- w9, got <- w10

(* Frames that just fill a packet, run over it by one octet, and take        *)
(* several; a PES length that a frame may exceed; stamps that wrap.          *)
TS == INSTANCE TransportStream WITH
        TimeMod <- 8, MaxPes <- 70, PacketSize <- 48, PatPeriod <- 6, MaxStreams <- 2,
        Codecs <- {"h264", "opus"}, Programs <- {2}, Sizes <- {17, 59}, Step <- 3,
        MaxFrames <- 2, MaxChanges <- 2, Kinds <- {{}, {"own", "reordered"}, {"idr"}},
        pmts <- w1, pat_cc <- w2, pat_period <- w3, pid <- w4, changes <- w5, frames <- w6,
        wire <- w7, dec <- w8, listening <- w9, late <- w10, flushed <- w11, got <- w12
PS == INSTANCE ProgramStream WITH
        TimeMod <- 8, MaxPes <- 40, MaxStreams <- 2, Period <- 2, Codecs <- {"h264", "aac"},
        Sizes <- {30, 70}, Kinds <- {{}, {"own", "reordered"}}, Step <- 3, MaxFrames <- 2,
        psm <- w1, psm_period <- w2, frames <- w3, stream <- w4, dec <- w5, got <- w6

(* Access units: sets and a key slice, the sets changed in content and       *)
(* length, a bare key slice, another slice, sets alone with a second         *)
(* identifier.                                                               *)
Nal(t, id, ver, len) ==
    [t |-> t, id |-> id, ref |-> 0, ver |-> ver, len |-> len, layered |-> FALSE]
Idr == Nal("idr", 0, 0, 2)
Slice == Nal("slice", 0, 0, 2)
AccessUnits ==
    [avc |-> {<<Nal("sps", 0, 1, 5), Nal("pps", 0, 1, 2), Idr>>,
              <<Nal("sps", 0, 2, 6), Nal("pps", 0, 2, 3), Idr>>,
              <<Nal("aud", 0, 0, 2), Idr>>, <<Slice>>,
              <<Nal("sps", 1, 1, 5), Nal("pps", 1, 1, 3)>>},
     hevc |-> {<<Nal("vps", 0, 1, 3), Nal("sps", 0, 1, 5), Nal("pps", 0, 1, 3), Idr>>,
               <<Nal("vps", 0, 1, 3), Nal("sps", 0, 2, 6), Nal("pps", 0, 2, 4), Idr>>,
               <<Nal("aud", 0, 0, 2), Idr>>, <<Slice>>,
               <<Nal("sps", 1, 1, 5), Nal("pps", 1, 1, 4)>>}]
Sound(asc, id) == [asc |-> asc, id |-> id]
FL == INSTANCE Flv WITH
        MaxArea <- 21, MaxSets <- 5, TimeMod <- 64, CtsMod <- 16,
        Codecs <- {<<"avc", "aac">>, <<"hevc", "mp3">>, <<"avc", "opus">>},
        Frames <- AccessUnits,
        Sounds <- [aac |-> {Sound(1, 1)}, opus |-> {Sound(1, 1), Sound(0, 2)},
                   mp3 |-> {Sound(0, 1)}],
        Offsets <- <<5, -3, 0>>, Step <- 30, MaxCalls <- 3, MaxResets <- 1, MaxFails <- 1,
        codec <- w1, mux <- w2, calls <- w3, dts <- w4, resets <- w5, given <- w6,
        missed <- w7, file <- w8, state <- w9, rd <- w10, dem <- w11, got <- w12, parsed <- w13

(* Movies whose media data, or whose media data behind the moov box, passes  *)
(* the offsets of one word; fragments and segments of two tracks.            *)
Sample(kind, bytes, step, cts, key) ==
    [kind |-> kind, bytes |-> bytes, step |-> step, cts |-> cts, key |-> key]
MV == INSTANCE Mov WITH
        W <- 128, Fixed <- 3, Timebase <- 3, MaxTracks <- 2, MaxFiles <- 1, MaxSeeks <- 1,
        Formats <- {"mov", "faststart"}, Kinds <- {"video", "audio"}, MaxSamples <- 4,
        Frames <- {Sample("video", 58, 3, 2, TRUE), Sample("video", 1, 4, -2, FALSE),
                   Sample("audio", 1, 2, 0, TRUE)},
        Cuts <- {}, Times <- {0, 6},
        format <- w1, tracks <- w2, file <- w3, mdat_size <- w4, has_moov <- w5, saved <- w6,
        phase <- w7, reader <- w8, got <- w9, sent <- w10, heads <- w11, wide <- w12, seeks <- w13
FM == INSTANCE Mov WITH
        W <- 128, Fixed <- 3, Timebase <- 3, MaxTracks <- 2, MaxFiles <- 2, MaxSeeks <- 1,
        Formats <- {"fmp4", "segment"}, Kinds <- {"video", "audio"}, MaxSamples <- 3,
        Frames <- {Sample("video", 2, 2, 0, TRUE), Sample("video", 3, 4, -2, FALSE),
                   Sample("audio", 1, 2, 0, TRUE)},
        Cuts <- {1, 3, 14}, Times <- {3},
        format <- w1, tracks <- w2, file <- w3, mdat_size <- w4, has_moov <- w5, saved <- w6,
        phase <- w7, reader <- w8, got <- w9, sent <- w10, heads <- w11, wide <- w12, seeks <- w13

(* A live list of three; frames that come early, late, or from an earlier    *)
(* time; arrays that grow at the third segment.                              *)
Line(tag, v) == [tag |-> tag, v |-> v]
HL == INSTANCE Hls WITH
        Kinds <- {"ts", "fmp4"}, Duration <- 3, Gap <- 1, MaxSize <- 3, Second <- 2, Live <- 3,
        Steps <- {1, 2, -4}, MaxFrames <- 4, MaxFlushes <- 1, MaxRefused <- 1, MaxFiles <- 5,
        Rooms <- {8, 12}, Incr <- 1, MaxLines <- 5,
        Lines <- {Line("m3u", 0), Line("inf", 1), Line("uri", 7), Line("key", 3), Line("stream", 2),
                  Line("stream", 1), Line("comment", 0)},
        kind <- w1, cut <- w2, sent <- w3, flushes <- w4, refused <- w5, files <- w6, m3u8 <- w7,
        foreign <- w8

(* Fields that end inside, at and beyond an octet, and a buffer they overrun; *)
(* texts with every kind of character; URIs from several beginnings.         *)
Field(kind, n, v) == [kind |-> kind, n |-> n, v |-> v]
Te(n, v, te) == [kind |-> "te", n |-> n, v |-> v, te |-> te]
BI == INSTANCE Bits WITH
        Size <- 4, MaxFields <- 3,
        Fields <- {Field("n", 1, 1), Field("n", 3, 5), Field("n", 8, 129), Field("n", 11, 1029),
                   Field("n", 17, 65539), Field("ue", 1, 1), Field("ue", 5, 6), Field("se", 3, 3),
                   Field("se", 5, 5), Te(4, 4, 1), Te(4, 5, 0), Te(5, 7, 6)},
        data <- w1, bits <- w2, error <- w3, mode <- w4, written <- w5, got <- w6
TX == INSTANCE Texts WITH
        Octets <- {0, 1, 62, 155, 255}, Characters <- {97, 32, 37, 43, 200}, MaxLen <- 5,
        Rooms <- {3, 4, 7, 19},
        Beginnings <- {<<"a">>, <<"/">>, <<"[">>, <<"a", ":", "/", "/">>, <<"a", ":", "/", "/", "a", "@">>},
        UriCharacters <- {"a", "1", ":", "/", "?", "#", "@", "[", "]", " "}, MaxMore <- 4,
        QueryCharacters <- {"a", "=", "&"}, MaxQuery <- 7, what <- w1, text <- w2, more <- w3

(* Objects in arrays in objects, a string of the long form, and one too long *)
(* for the place it is asked into.                                           *)
Call(op, name, v) == [op |-> op, name |-> name, v |-> v]
Item(type, name, size, items) == [type |-> type, name |-> name, size |-> size, items |-> items]
AmfFields ==
    <<Item(0, <<20>>, 8, <<>>), Item(2, <<20, 21>>, 4, <<>>), Item(12, <<20, 21>>, 8, <<>>),
      Item(10, <<20>>, 8, <<Item(0, <<1>>, 8, <<>>), Item(3, <<2>>, 8, <<Item(0, <<21>>, 8, <<>>)>>)>>),
      Item(3, <<21>>, 0, <<Item(1, <<20>>, 8, <<>>), Item(0, <<21>>, 8, <<>>)>>)>>
AM == INSTANCE Amf WITH
        Base <- 2, NumberOctets <- 2, Room <- 30, MaxCalls <- 4, MaxDepth <- 3,
        Calls <- {Call("number", <<20>>, <<1, 2>>), Call("number", <<21>>, <<3, 4>>),
                  Call("boolean", <<20>>, <<1>>), Call("string", <<20, 21>>, <<20>>),
                  Call("string", <<20, 21>>, <<20, 20, 21, 21>>), Call("null", <<21>>, <<>>),
                  Call("undefined", <<20>>, <<>>), Call("object", <<21>>, <<>>),
                  Call("ecma", <<21>>, <<>>), Call("strict", <<20>>, <<2>>)},
        Items <- <<Item(2, <<1>>, 8, <<>>), Item(3, <<2>>, 8, AmfFields)>>,
        text <- w1, null <- w2, open <- w3, log <- w4, tops <- w5, calls <- w6

(* Every signalling of SBR and PS, object types of every kind, program       *)
(* elements that end inside an octet, behind another start, or do not fit.   *)
Element(front, back, lfe, data, cc, mixed, comment) ==
    [front |-> front, back |-> back, lfe |-> lfe, data |-> data, cc |-> cc, mixed |-> mixed, comment |-> comment]
NoElement == Element(<<>>, <<>>, 0, 0, <<>>, FALSE, 0)
Elements == {Element(<<1>>, <<>>, 0, 0, <<>>, FALSE, 0), Element(<<0, 1>>, <<0>>, 1, 1, <<1>>, TRUE, 2),
             Element(<<0>>, <<>>, 1, 0, <<>>, FALSE, 1), Element(<<1, 0>>, <<1>>, 0, 0, <<>>, TRUE, 14)}
Config(aot, cc, core, how, pce) ==
    [aot |-> aot, freq |-> 4, cc |-> cc, core |-> core, how |-> how, pce |-> pce]
AA == INSTANCE Aac WITH
        PceRoom <- 16, Payloads <- {5, 4089}, MaxHops <- 3,
        Configs <- {Config(2, 2, FALSE, h, NoElement) : h \in {"plain", "sbr", "ps", "syncsbr", "syncps", "sync22"}}
                   \cup {Config(a, 1, k, "plain", NoElement) : a \in {1, 4, 8, 17, 20, 21, 22, 23}, k \in BOOLEAN}
                   \cup {Config(22, 1, FALSE, "sbr", NoElement)}
                   \cup {Config(2, 0, k, h, e) : k \in BOOLEAN, h \in {"plain", "ps", "syncps"}, e \in Elements},
        config <- w1, aac <- w2, ret <- w3, stale <- w4, frame <- w5, hops <- w6

(* Every file of up to six characters; settings with a comment for a key, a  *)
(* blank in it or in front of the value, no value, or more than fits a line. *)
CF == INSTANCE LibConfig WITH
        LINE_SIZE <- 8, MaxText <- 6, MaxSets <- 2, Characters <- {"a", "b", "_", "#", "=", "\n"},
        Keys <- {<<"a">>, <<"b", "a">>, <<"#">>, <<"a", "_", "b">>},
        Values <- {<<"a">>, <<"a", "=", "_">>, <<"_", "b">>, <<>>, <<"a", "b", "a", "b">>},
        Opened <- {<<>>, <<"a", "=", "b">>, <<"a", "_", "=", "b", "\n">>, <<"b", "a", "=", "a", "\n", "a">>},
        cfg <- w1, file <- w2, saved <- w3, sets <- w4

AnyInit ==
    \/ part = "usha" /\ US!Init /\ w10 = 0 /\ w11 = 0 /\ w12 = 0 /\ w13 = 0
    \/ part = "hmac" /\ HM!Init /\ w10 = 0 /\ w11 = 0 /\ w12 = 0 /\ w13 = 0
    \/ /\ part = "md5" /\ US!md5_init
       /\ w6 = 0 /\ w7 = 0 /\ w8 = 0 /\ w9 = 0 /\ w10 = 0 /\ w11 = 0 /\ w12 = 0 /\ w13 = 0
    \/ part = "aes" /\ AE!Init /\ w11 = 0 /\ w12 = 0 /\ w13 = 0
    \/ part = "ts" /\ TS!Init /\ w13 = 0
    \/ /\ part = "ps" /\ PS!Init
       /\ w7 = 0 /\ w8 = 0 /\ w9 = 0 /\ w10 = 0 /\ w11 = 0 /\ w12 = 0 /\ w13 = 0
    \/ part = "flv" /\ FL!Init
    \/ part = "mov" /\ MV!Init
    \/ part = "fmp4" /\ FM!Init
    \/ part = "hls" /\ HL!Init /\ w9 = 0 /\ w10 = 0 /\ w11 = 0 /\ w12 = 0 /\ w13 = 0
    \/ /\ \/ part = "bits" /\ BI!Init
          \/ part = "amf" /\ AM!Init
          \/ part = "aac" /\ AA!Init
       /\ w7 = 0 /\ w8 = 0 /\ w9 = 0 /\ w10 = 0 /\ w11 = 0 /\ w12 = 0 /\ w13 = 0
    \/ /\ \/ part = "texts" /\ TX!Init /\ w4 = 0
          \/ part = "config" /\ CF!Init
       /\ w5 = 0 /\ w6 = 0 /\ w7 = 0 /\ w8 = 0 /\ w9 = 0 /\ w10 = 0 /\ w11 = 0 /\ w12 = 0 /\ w13 = 0
AnyNext ==
    /\ \/ part = "usha" /\ US!Next /\ UNCHANGED <<w10, w11, w12, w13>>
       \/ part = "hmac" /\ HM!Next /\ UNCHANGED <<w10, w11, w12, w13>>
       \/ part = "md5" /\ US!Md5Next /\ UNCHANGED <<w6, w7, w8, w9, w10, w11, w12, w13>>
       \/ part = "aes" /\ AE!Next /\ UNCHANGED <<w11, w12, w13>>
       \/ part = "ts" /\ TS!Next /\ UNCHANGED w13
       \/ part = "ps" /\ PS!Next /\ UNCHANGED <<w7, w8, w9, w10, w11, w12, w13>>
       \/ part = "flv" /\ FL!Next
       \/ part = "mov" /\ MV!Next
       \/ part = "fmp4" /\ FM!Next
       \/ part = "hls" /\ HL!Next /\ UNCHANGED <<w9, w10, w11, w12, w13>>
       \/ part = "bits" /\ BI!Next /\ UNCHANGED <<w7, w8, w9, w10, w11, w12, w13>>
       \/ part = "amf" /\ AM!Next /\ UNCHANGED <<w7, w8, w9, w10, w11, w12, w13>>
       \/ part = "aac" /\ AA!Next /\ UNCHANGED <<w7, w8, w9, w10, w11, w12, w13>>
       \/ part = "texts" /\ TX!Next /\ UNCHANGED <<w4, w5, w6, w7, w8, w9, w10, w11, w12, w13>>
       \/ part = "config" /\ CF!Next /\ UNCHANGED <<w5, w6, w7, w8, w9, w10, w11, w12, w13>>
    /\ UNCHANGED part
AnySpec == AnyInit /\ [][AnyNext]_<<part, shared>>

(* Tables, streams and files are well typed (mpeg_ts_enc_context_t,          *)
(* ps_muxer_t, flv_muxer_t).                                                 *)
AllTypeOK ==
    /\ part = "ts" => TS!TypeOK
    /\ part = "ps" => PS!TypeOK
    /\ part = "flv" => FL!TypeOK
    /\ part = "mov" => MV!TypeOK
    /\ part = "fmp4" => FM!TypeOK
    /\ part = "hls" => HL!TypeOK
    /\ part = "bits" => BI!TypeOK
    /\ part = "amf" => AM!TypeOK
    /\ part = "aac" => AA!TypeOK
    /\ part = "texts" => TX!TypeOK
    /\ part = "config" => CF!TypeOK

(* Whatever the pieces of a message, the digest given out is the standard's  *)
(* (SHAxxxInput, SHAxxxPadMessage, hmacResult, hkdfExpand, md5_update,       *)
(* md5_final), and the length words of a context are the bits it was given,  *)
(* until they overflow (SHAxxxAddLength); what is decrypted is what was      *)
(* encrypted, however both are cut into calls (aes_crypt_cbc,                *)
(* aes_crypt_cfb128).                                                        *)
CryptoStandard ==
    /\ part = "usha" => US!ResultIsStandard /\ US!LengthExact
    /\ part = "hmac" => HM!ResultIsStandard /\ HM!LengthExact
    /\ part = "md5" => US!DigestIsStandard
    /\ part = "aes" => AE!StreamComesBack

(* The frames a demuxer hands out are those the muxer was given, whole, in   *)
(* order and with their own stamps, and every transport packet is exactly as *)
(* long as a packet is (ts_write_pes); an MP4 file gives every sample of     *)
(* every track back (ts_demuxer_input, ps_demuxer_input, mov_reader_read).   *)
FramesComeBack ==
    /\ part = "ts" => TS!FramesComeBack /\ TS!PacketsWhole
    /\ part = "ps" => PS!PackFramesComeBack
    /\ part = "mov" => MV!SampleRight /\ MV!NoSampleLost
    /\ part = "fmp4" => FM!SampleRight /\ FM!NoSampleLost

(* A player gets the encoder's frames with the newest parameter sets, across *)
(* changes, resets, failed writes and a crash (flv_muxer_h264,               *)
(* flv_demuxer_video, flv_parser_video), and misses none of a whole file;    *)
(* the sets kept by muxer and demuxer stay where their entries point         *)
(* (mpeg4_avc_remove, mpeg4_hevc_remove).                                    *)
PlayerSees ==
    part = "flv" => FL!FlvFramesComeBack /\ FL!FlvNoneMissing /\ FL!ParserAgrees /\ FL!SetsInPlace

(* Seeking an MP4 file goes to the nearest key frames and samples, and the   *)
(* indexes of fragments and segments lead to them (mov_reader_seek,          *)
(* mov_write_tfra, mov_write_sidx).                                          *)
SeeksLand ==
    /\ part = "mov" => MV!SeekNearest
    /\ part = "fmp4" => FM!SeekNearest /\ FM!IndexesTrue

(* Every frame is in one segment, in order, and the segments tile the time   *)
(* line and begin with key frames (hls_media_input, hls_fmp4_input); a       *)
(* playlist numbers its segments for good, comes back from the parser as the *)
(* list it was, and one made elsewhere is read as its tags say               *)
(* (hls_m3u8_add, hls_m3u8_playlist, hls_parser_input).                      *)
PlaylistTrue ==
    part = "hls" => HL!SegmentsTile /\ HL!SequenceStable /\ HL!PlaylistComesBack /\ HL!ForeignReadRight

(* What was written into a buffer of bits, encoded or saved is read back as  *)
(* it was (bits_write_n, bits_read_n, amf_read_items, mpeg4_aac_adts_save,   *)
(* base64_encode, url_encode, cfg_write_to_file), and a command line, a      *)
(* sorted array, a URI, a query and a file of settings are taken apart into  *)
(* all that they hold (argv_split, bsearch, uri_parse, uri_query,            *)
(* cfg_create_from_file).                                                    *)
TextsTrue ==
    /\ part = "bits" => BI!FieldsComeBack
    /\ part = "amf" => AM!AmfComesBack
    /\ part = "aac" => AA!AacComesBack
    /\ part = "texts" => TX!CodesComeBack /\ TX!UrlComesBack /\ TX!WordsAndKeysFound
                       /\ TX!PartsTile /\ TX!FieldsFound
    /\ part = "config" => CF!HandReadRight /\ CF!SettingsComeBack
=============================================================================
