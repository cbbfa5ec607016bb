-------------------------------- MODULE Hls ---------------------------------
(* HTTP live streaming (hls-media, hls-fmp4, hls-m3u8, hls-parser): frames    *)
(* cut into segments, the segments listed in a playlist that slides, and the  *)
(* playlist read back.  kind tells which of the two cutters is at work.  A    *)
(* playlist is a sequence of lines [tag, v]; the handler that takes the       *)
(* segments is the caller's: it lists each one, and may refuse.               *)
EXTENDS Integers, Sequences, FiniteSetsExt, SequencesExt

CONSTANTS
    Kinds,      \* cutters looked at: "ts" (hls-media), "fmp4" (hls-fmp4)
    Duration,   \* the length asked for, in the units of dts
    Gap,        \* a pause longer than this is not counted (100 ms)
    MaxSize,    \* where hls-media cuts a segment in any case (N_TS_FILESIZE)
    Second,     \* the target duration is written in seconds (1000 ms)
    Live,       \* the playlist's length, 0 for all segments
    Steps,      \* dts of a frame, counted from the last one
    MaxFrames, MaxFlushes, MaxRefused, MaxFiles,
    Rooms,      \* sizes of the buffer for the playlist
    Incr,       \* how far the parser's array of segments grows
    Lines, MaxLines   \* lines of playlists made elsewhere

VARIABLES
    kind,
    cut,      \* struct hls_media_t or hls_fmp4_t, with the frames of the segment
    sent,     \* the frames that were accepted
    flushes, refused,   \* how often the caller flushed, and the handler refused
    files,    \* the segments delivered
    m3u8,     \* struct hls_m3u8_t
    foreign   \* a playlist made elsewhere

vars == <<kind, cut, sent, flushes, refused, files, m3u8, foreign>>

Unset == -1   \* PTS_NO_VALUE
Line(tag, v) == [tag |-> tag, v |-> v]

------------------------------------------------------------------------------
(* hls-m3u8.  A new segment of a full live list takes the place of the oldest *)
(* one, in its memory when the name fits there, else in new memory, if there  *)
(* is any.  A slip: a segment that is freed is not counted.                   *)
hls_m3u8_add_Uncounted(m, s, memory) ==
    LET full == Live # 0 /\ Len(m.segments) >= Live
        slid == IF full THEN [m EXCEPT !.segments = Tail(@), !.seq = IF memory = "reused" THEN @ + 1 ELSE @] ELSE m
    IN IF memory # "none" /\ (full \/ memory # "reused")
       THEN [ok |-> TRUE, m |-> [slid EXCEPT !.segments = Append(@, s @@ [n |-> m.seq + Len(m.segments)])]]
       ELSE [ok |-> FALSE, m |-> slid]

hls_m3u8_add(m, s, memory) ==
    LET full == Live # 0 /\ Len(m.segments) >= Live
        slid == IF full THEN [m EXCEPT !.segments = Tail(@), !.seq = @ + 1] ELSE m
        n == slid.seq + Len(slid.segments)
    IN IF memory # "none"
       THEN [ok |-> TRUE, m |-> [slid EXCEPT !.segments = Append(@, s @@ [n |-> n]),
                                             !.duration = Max({@, s.duration})]]
       ELSE [ok |-> FALSE, m |-> slid]

(* The text, and its length when each line counts one and the header three.   *)
LOCAL Seconds(duration) == (duration + Second - 1) \div Second
LOCAL Written(s) ==
    (IF s.disc THEN <<Line("disc", 0)>> ELSE <<>>) \o <<Line("inf", s.duration), Line("uri", s.file)>>

hls_m3u8_playlist(m, eof, room) ==
    LET head == <<Line("m3u", 0), Line("target", Seconds(m.duration)), Line("seq", m.seq)>>
                  \o (IF Live = 0 THEN <<Line("vod", 0)>> ELSE <<>>)
        body == (IF m.map THEN <<Line("map", 0)>> ELSE <<>>)
                  \o FoldLeft(LAMBDA a, s : a \o Written(s), <<>>, m.segments)
        n == Len(head) + Len(body)
        end == IF eof /\ room > n + 1 THEN <<Line("end", 0)>> ELSE <<>>
    IN [ok |-> room > n + Len(end), room |-> room - n, lines |-> head \o body \o end]

------------------------------------------------------------------------------
(* The cutters.  A segment ends before a frame that is due: a key frame, any  *)
(* frame once the file is too large, and any frame at all as long as the      *)
(* segment has no video.  A slip: the segment's video is forgotten.           *)
Forced(dts, data) == ~data \/ (cut.last # Unset /\ dts + Duration < cut.last)
Due(dts) == dts - cut.dts >= Duration

hls_media_due_AnyFrame(key, dts) == Due(dts)
hls_media_due(key, dts) ==
    \/ (Due(dts) \/ Duration = 0) /\ (key \/ cut.bytes >= MaxSize)
    \/ Due(dts) /\ cut.audio_only
hls_fmp4_due(key, dts) ==
    \/ (Due(dts) \/ Duration = 0) /\ key
    \/ Due(dts) /\ cut.audio_only

Segment(key, dts) == IF kind = "ts" THEN hls_media_due(key, dts) ELSE hls_fmp4_due(key, dts)

(* No segment has been begun yet.                                             *)
Fresh == IF kind = "ts" THEN cut.bytes = 0 ELSE cut.last = Unset

(* What the handler is told: up to the frame at hand, but not over a gap.  A  *)
(* slip: a pause is counted.                                                  *)
Lasted_OverGap(dts, data) == (IF Forced(dts, data) THEN cut.last ELSE dts) - cut.dts
Lasted(dts, data) == (IF Forced(dts, data) \/ dts > cut.last + Gap THEN cut.last ELSE dts) - cut.dts

LOCAL Frame(av, key, dts) == [i |-> Len(sent) + 1, av |-> av, key |-> key, dts |-> dts]

(* The segment that dts begins.                                               *)
Begun(dts) == [cut EXCEPT !.dts = dts, !.bytes = 0, !.audio_only = TRUE, !.frames = <<>>]

(* One frame more; without data the tables only, or nothing at all.           *)
hls_ts_write(c, av, key, dts, data) ==
    [c EXCEPT !.last = dts, !.audio_only = @ /\ av # "video",
              !.bytes = (IF @ = 0 THEN 1 ELSE @) + (IF data THEN 1 ELSE 0),
              !.frames = IF data THEN Append(@, Frame(av, key, dts)) ELSE @]
hls_fmp4_write(c, av, key, dts, data) ==
    IF ~data THEN c
    ELSE [c EXCEPT !.last = dts, !.audio_only = @ /\ av # "video", !.bytes = @ + 1,
                   !.frames = Append(@, Frame(av, key, dts))]

(* The caller's handler, which may refuse the segment or list it and mark it  *)
(* after a break.  As in the tests, one cutter is told when the list has no   *)
(* memory for the segment, the other is not.                                  *)
Outcomes == {"refused", "reused", "new", "none"}
hls_segment(s, how) ==
    LET entry == [file |-> Len(files) + 1, duration |-> s.duration, disc |-> s.forced]
        added == hls_m3u8_add(m3u8, entry, how)
    IN IF how = "refused" THEN [ok |-> FALSE, m |-> m3u8]
       ELSE [ok |-> kind = "ts" \/ added.ok, m |-> added.m]

(* hls_media_input and hls_fmp4_input; without data the segment is ended.     *)
hls_media_input(av, key, dts, data, how) ==
    LET begin == Fresh \/ Segment(key, dts) \/ Forced(dts, data)
        ends == begin /\ ~Fresh
        s == [frames |-> cut.frames, dts |-> cut.dts, duration |-> Lasted(dts, data), bytes |-> cut.bytes,
              forced |-> Forced(dts, data)]
        h == hls_segment(s, how)
    IN /\ cut.last # Unset => dts < cut.last + Duration
       /\ IF ends THEN how = "reused" => Live # 0 /\ Len(m3u8.segments) >= Live ELSE how = "new"
       /\ IF ends /\ ~h.ok
          THEN m3u8' = h.m /\ refused' = refused + 1 /\ UNCHANGED <<cut, files, sent>>
          ELSE /\ m3u8' = IF ends THEN h.m ELSE m3u8
               /\ files' = IF ends THEN Append(files, s) ELSE files
               /\ LET c == IF begin THEN Begun(dts) ELSE cut
                  IN cut' = IF kind = "ts" THEN hls_ts_write(c, av, key, dts, data)
                            ELSE hls_fmp4_write(c, av, key, dts, data)
               /\ sent' = IF data THEN Append(sent, Frame(av, key, dts)) ELSE sent
               /\ refused' = IF ends /\ how = "none" THEN refused + 1 ELSE refused

Input ==
    /\ Len(sent) < MaxFrames /\ refused < MaxRefused
    /\ \E f \in {<<"video", TRUE>>, <<"video", FALSE>>, <<"audio", FALSE>>}, step \in Steps, how \in Outcomes :
         LET dts == (IF cut.last = Unset THEN 0 ELSE cut.last) + step
         IN dts >= 0 /\ hls_media_input(f[1], f[2], dts, TRUE, how)
    /\ UNCHANGED <<kind, flushes, foreign>>

Flush ==
    /\ flushes < MaxFlushes /\ cut.last # Unset /\ refused < MaxRefused
    /\ flushes' = flushes + 1
    /\ \E how \in Outcomes : hls_media_input("video", FALSE, cut.last, FALSE, how)
    /\ UNCHANGED <<kind, foreign>>

(* Another program that lists its segments.                                   *)
Add ==
    /\ kind = "list" /\ Len(files) < MaxFiles
    /\ \E duration \in {1, 2}, how \in Outcomes \ {"refused"} :
         LET s == [frames |-> <<>>, dts |-> 0, duration |-> duration, bytes |-> 0, forced |-> duration = 1]
         IN /\ how = "reused" => Live # 0 /\ Len(m3u8.segments) >= Live
            /\ m3u8' = hls_segment(s, how).m
            /\ files' = Append(files, s)
    /\ UNCHANGED <<kind, cut, sent, flushes, refused, foreign>>

(* A playlist made elsewhere, a line more.                                    *)
Foreign(l) ==
    /\ kind = "none" /\ Len(foreign) < MaxLines
    /\ foreign' = Append(foreign, l)
    /\ UNCHANGED <<kind, cut, sent, flushes, refused, files, m3u8>>

Init ==
    /\ kind \in Kinds \cup {"list", "none"}
    /\ cut = [bytes |-> 0, dts |-> Unset, last |-> Unset, audio_only |-> FALSE, frames |-> <<>>]
    /\ sent = <<>> /\ flushes = 0 /\ refused = 0 /\ files = <<>>
    /\ m3u8 = [seq |-> 0, duration |-> 0, segments |-> <<>>, map |-> kind = "fmp4"]
    /\ foreign = <<>>

Next ==
    \/ kind \in Kinds /\ Input
    \/ kind \in Kinds /\ Flush
    \/ Add
    \/ \E l \in Lines : Foreign(l)

Spec == Init /\ [][Next]_vars

------------------------------------------------------------------------------
(* hls-parser.  p is struct hls_parser_t with what it fills: done, the        *)
(* segments (or variants) whose URI was met, and cur, the one at work.  The   *)
(* key of a segment is found through key_segment, a place in an array that    *)
(* moves when it grows: a copy from there is then of no certain value.        *)
PlaylistTags == {"inf", "disc", "key", "map", "target", "seq", "end", "vod"}
MasterTags == {"stream"}

LOCAL Blank(key) == [duration |-> 0, disc |-> FALSE, key |-> key, map |-> FALSE, uri |-> 0, bandwidth |-> 0]

(* A slip: the key is that of the tags of the segment alone.                  *)
hls_parser_fetch_segment_NoKey(p) ==
    IF p.cur # <<>> THEN p ELSE [p EXCEPT !.cur = <<Blank(0)>>]

hls_parser_fetch_segment(p) ==
    LET n == Len(p.done)
        grows == n >= p.capacity
        stale == p.stale \/ (grows /\ p.key_segment # 0)
        key == IF p.key_segment = 0 THEN 0 ELSE IF stale THEN -1 ELSE p.done[p.key_segment].key
    IN IF p.cur # <<>> THEN p
       ELSE [p EXCEPT !.capacity = IF grows THEN n + 1 + Max({Incr, n \div 4}) ELSE @,
                      !.stale = stale, !.cur = <<Blank(key)>>]

(* The handlers of the tags, by the fields that are told apart.               *)
LOCAL Told(p, s) == [p EXCEPT !.cur = <<s>>]
hls_ext_inf(p, v) == Told(p, [p.cur[1] EXCEPT !.duration = v])
hls_ext_x_discontinuity(p) == Told(p, [p.cur[1] EXCEPT !.disc = TRUE])
hls_ext_x_map(p) == Told(p, [p.cur[1] EXCEPT !.map = TRUE])
hls_ext_x_key(p, v) ==
    [Told(p, [p.cur[1] EXCEPT !.key = v]) EXCEPT !.key_segment = Len(p.done) + 1, !.stale = FALSE]
hls_ext_x_stream_inf(p, v) == Told(p, [p.cur[1] EXCEPT !.bandwidth = v])
hls_ext_x_targetduration(p, v) == [p EXCEPT !.target = v]
hls_ext_x_media_sequence(p, v) == [p EXCEPT !.seq = v]
hls_ext_x_playlist_type(p) == [p EXCEPT !.vod = TRUE]
hls_ext_x_endlist(p) == [p EXCEPT !.end = TRUE]

(* A tag of the other kind of playlist is an error, an unknown one is not.    *)
hls_parser_ontag(p0, l) ==
    LET p == [hls_parser_fetch_segment(p0) EXCEPT !.r = 0]
    IN IF l.tag \in (IF p.master THEN PlaylistTags ELSE MasterTags) THEN [p EXCEPT !.r = -1]
       ELSE
       CASE l.tag = "inf" -> hls_ext_inf(p, l.v)
         [] l.tag = "disc" -> hls_ext_x_discontinuity(p)
         [] l.tag = "map" -> hls_ext_x_map(p)
         [] l.tag = "key" -> hls_ext_x_key(p, l.v)
         [] l.tag = "stream" -> hls_ext_x_stream_inf(p, l.v)
         [] l.tag = "target" -> hls_ext_x_targetduration(p, l.v)
         [] l.tag = "seq" -> hls_ext_x_media_sequence(p, l.v)
         [] l.tag = "vod" -> hls_ext_x_playlist_type(p)
         [] l.tag = "end" -> hls_ext_x_endlist(p)
         [] OTHER -> p

hls_parser_onuri(p, l) ==
    IF p.cur = <<>> THEN [p EXCEPT !.r = -1]
    ELSE [p EXCEPT !.r = 0, !.done = Append(@, [p.cur[1] EXCEPT !.uri = l.v]), !.cur = <<>>]

(* Every line is looked at; the answer is that of the last one.               *)
hls_parser_input(lines, master) ==
    FoldLeft(LAMBDA p, l : IF l.tag = "comment" THEN p
                           ELSE IF l.tag = "uri" THEN hls_parser_onuri(p, l) ELSE hls_parser_ontag(p, l),
             [done |-> <<>>, cur |-> <<>>, key_segment |-> 0, stale |-> FALSE, capacity |-> 0, r |-> 0,
              target |-> 0, seq |-> 0, vod |-> FALSE, end |-> FALSE, master |-> master], lines)

hls_parser_probe(lines) ==
    LET i == SelectInSeq(lines, LAMBDA l : l.tag \in {"inf", "stream"})
    IN IF i = 0 THEN "unknown" ELSE IF lines[i].tag = "inf" THEN "playlist" ELSE "master"

hls_playlist_parse(lines) == hls_parser_input(lines, FALSE)
hls_master_parse(lines) == hls_parser_input(lines, TRUE)

hls_playlist_duration(p) == FoldLeft(LAMBDA a, s : a + s.duration, 0, p.done)

(* A slip: the last of the largest.                                           *)
hls_master_best_variant_Last(p) ==
    FoldLeft(LAMBDA b, i : IF b = 0 \/ p.done[i].bandwidth >= p.done[b].bandwidth THEN i ELSE b,
             0, [i \in DOMAIN p.done |-> i])

hls_master_best_variant(p) ==
    FoldLeft(LAMBDA b, i : IF b = 0 \/ p.done[i].bandwidth > p.done[b].bandwidth THEN i ELSE b,
             0, [i \in DOMAIN p.done |-> i])

------------------------------------------------------------------------------
TypeOK ==
    /\ kind \in {"ts", "fmp4", "list", "none"}
    /\ cut.bytes \in Nat /\ cut.dts \in Nat \cup {Unset} /\ cut.last \in Nat \cup {Unset}
    /\ m3u8.seq \in Nat /\ m3u8.duration \in Nat
    /\ Live # 0 => Len(m3u8.segments) <= Live

LOCAL FramesOf(fs) == FoldLeft(LAMBDA a, f : a \o f.frames, <<>>, fs)
LOCAL HasVideo(f) == \E i \in DOMAIN f.frames : f.frames[i].av = "video"

(* Every frame that hls_media_input or hls_fmp4_input accepted is in one      *)
(* segment, in order, whatever the handler refused; the next segment after    *)
(* one with video begins with a key frame, unless the caller forced it, the   *)
(* stamps went back or the file was too large; only a forced one is shorter   *)
(* than asked for; and the segments' times tile the time line: one ends where *)
(* the next begins, or at its last frame when a gap follows.                  *)
SegmentsTile ==
  kind \in Kinds =>
    /\ FramesOf(files) \o cut.frames = sent
    /\ \A k \in DOMAIN files :
         LET f == files[k]
             next == IF k < Len(files) THEN files[k + 1] ELSE [frames |-> cut.frames, dts |-> cut.dts]
         IN /\ f.duration >= 0
            /\ f.forced \/ next.dts - f.dts >= Duration
            /\ ~f.forced /\ f.frames # <<>> =>
                 f.dts + f.duration = IF next.dts > Last(f.frames).dts + Gap THEN Last(f.frames).dts ELSE next.dts
            /\ HasVideo(f) /\ ~f.forced /\ (kind = "ts" => f.bytes < MaxSize) /\ next.frames # <<>>
                 => next.frames[1].key

(* hls_m3u8_add: a segment keeps the media sequence number it was listed      *)
(* with, whatever leaves the list and whatever is refused for want of memory; *)
(* the list is in the order of the segments.                                  *)
SequenceStable ==
    \A i \in DOMAIN m3u8.segments :
        /\ m3u8.segments[i].n = m3u8.seq + i - 1
        /\ i > 1 => m3u8.segments[i - 1].file < m3u8.segments[i].file

(* What hls_m3u8_playlist wrote with success, hls_playlist_parse reads as the *)
(* list it was: the segments, their lengths and marks, the number of the      *)
(* first, the map on the first, a target duration that none of them exceeds,  *)
(* and the end unless no room was left for it.                                *)
PlaylistComesBack ==
    \A room \in Rooms, eof \in BOOLEAN :
        LET text == hls_m3u8_playlist(m3u8, eof, room)
            p == hls_playlist_parse(text.lines)
        IN text.ok =>
             /\ p.r = 0 /\ p.seq = m3u8.seq /\ p.vod = (Live = 0)
             /\ [i \in DOMAIN p.done |-> <<p.done[i].uri, p.done[i].duration, p.done[i].disc, p.done[i].map>>]
                  = [i \in DOMAIN m3u8.segments |-> LET s == m3u8.segments[i]
                                                    IN <<s.file, s.duration, s.disc, m3u8.map /\ i = 1>>]
             /\ \A i \in DOMAIN p.done : p.done[i].duration <= p.target * Second
             /\ hls_playlist_duration(p) = FoldLeft(LAMBDA a, s : a + s.duration, 0, m3u8.segments)
             /\ p.end = (eof /\ text.room > 1)

(* Lines of the list that belong to its k-th URI: those after the last one.   *)
LOCAL Uris(lines) == SelectSeq([i \in DOMAIN lines |-> i], LAMBDA i : lines[i].tag = "uri")

(* A playlist made elsewhere: each URI makes one segment with the tags since  *)
(* the URI before and with the last key declared up to it, as the comment in  *)
(* hls_ext_x_key has it, as long as the array of segments has not moved since *)
(* then; of a master playlist hls_master_best_variant takes the first of the  *)
(* largest bandwidth.  A URI without any tag before it is refused.            *)
ForeignReadRight ==
    kind = "none" =>
        LET what == hls_parser_probe(foreign)
            p == hls_parser_input(foreign, what = "master")
            u == Uris(foreign)
            from(k) == IF k = 1 THEN 0 ELSE u[k - 1]
            own(k, tag) == {i \in (from(k) + 1)..u[k] : foreign[i].tag = tag}
            told(S, none) == IF S = {} THEN none ELSE foreign[Max(S)].v
            keys(k) == {i \in 1..u[k] : foreign[i].tag = "key"}
            tagged(k) == \E i \in (from(k) + 1)..(u[k] - 1) : foreign[i].tag # "comment"
        IN (what # "unknown" /\ \A k \in DOMAIN u : tagged(k)) =>
             /\ Len(p.done) = Len(u)
             /\ what = "playlist" => \A k \in DOMAIN u :
                  LET s == p.done[k]
                  IN /\ s.uri = foreign[u[k]].v
                     /\ s.duration = told(own(k, "inf"), 0)
                     /\ s.disc = (own(k, "disc") # {})
                     /\ s.key \in {told(keys(k), 0)} \cup (IF k > Incr + 1 THEN {-1} ELSE {})
             /\ what = "master" /\ u # <<>> =>
                  LET b == hls_master_best_variant(p)
                  IN \A k \in DOMAIN u : /\ p.done[k].bandwidth = told(own(k, "stream"), 0)
                                         /\ p.done[k].bandwidth <= p.done[b].bandwidth
                                         /\ k < b => p.done[k].bandwidth < p.done[b].bandwidth
==============================================================================
