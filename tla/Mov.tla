-------------------------------- MODULE Mov ---------------------------------
(* MP4 files (mov-writer, fmp4-writer, mov-reader): samples of several tracks *)
(* are written as one movie (moov behind the media data, or moved in front    *)
(* of it), as fragments, or as segments with an initialisation segment of     *)
(* their own; the reader opens what the writer left and delivers samples in   *)
(* order or from a sought time on.  A file is a sequence of words of four     *)
(* octets: the two header words of a box, one word that holds the box's       *)
(* content, words that only take room, and the words of the samples.          *)
EXTENDS Integers, Sequences, FiniteSetsExt, SequencesExt

(* The sample tables of an MP4 file (mov-stts, mov-stco, mov-stsc, mov-stsz,  *)
(* mov-stss, mov-elst, mov-track): how a track's samples are compressed into  *)
(* the tables of its moov box and how the reader rebuilds the samples.        *)
(* Lengths and offsets count words of four octets; W stands for 2^32, the     *)
(* first offset (or time) that a field of one word cannot hold.  The boxes    *)
(* whose content no property tells apart count Fixed words per track.         *)
CONSTANTS W, Fixed

LOCAL Indexes(s) == [i \in 1..Len(s) |-> i]

(* A value stored in one word, and that word read as a signed number.         *)
Stored(v) == v % W
Signed(v) == IF v >= W \div 2 THEN v - W ELSE v

------------------------------------------------------------------------------
(* Writer.  first_chunk and samples_per_chunk of a sample serve all three     *)
(* builders; marks is the sequence of these two fields, and an entry with     *)
(* first = 0 belongs to the run (or chunk) of an earlier one.                 *)
Entries(marks) == SelectSeq(marks, LAMBDA m : m.first # 0)

(* Equal successive values make one run: first counts its members.            *)
LOCAL Run(a, v) ==
    IF a.head # 0 /\ a.marks[a.head].per = v
    THEN [a EXCEPT !.marks = Append([@ EXCEPT ![a.head].first = @ + 1], [first |-> 0, per |-> 0])]
    ELSE [head |-> Len(a.marks) + 1, marks |-> Append(a.marks, [first |-> 1, per |-> v])]

LOCAL Runs(values) == FoldLeft(Run, [head |-> 0, marks |-> <<>>], values).marks

(* A sample lasts until the next one; two at the same time, and the last one, *)
(* last 1.                                                                    *)
mov_build_stts(s) ==
    Runs([i \in DOMAIN s |->
            IF i < Len(s) /\ s[i + 1].dts > s[i].dts THEN Stored(s[i + 1].dts - s[i].dts) ELSE 1])

mov_build_ctts(s) == Runs([i \in DOMAIN s |-> Stored(s[i].pts - s[i].dts)])

(* Samples that follow one another in the file make one chunk.                *)
mov_build_stco(s) ==
    FoldLeft(LAMBDA a, i :
        IF a.head # 0 /\ s[a.head].offset + a.bytes = s[i].offset
        THEN [a EXCEPT !.bytes = @ + s[i].bytes,
                       !.marks = Append([@ EXCEPT ![a.head].per = @ + 1], [first |-> 0, per |-> 0])]
        ELSE [head |-> i, count |-> a.count + 1, bytes |-> s[i].bytes,
              marks |-> Append(a.marks, [first |-> a.count + 1, per |-> 1])],
        [head |-> 0, count |-> 0, bytes |-> 0, marks |-> <<>>], Indexes(s)).marks

(* Chunks with as many samples as the one before share its entry.             *)
mov_write_stsc(marks) ==
    FoldLeft(LAMBDA a, m : IF a # <<>> /\ Last(a).per = m.per THEN a ELSE Append(a, m),
             <<>>, Entries(marks))

(* One size for all samples, or a table.                                      *)
mov_write_stsz(s) ==
    LET vary == \E i \in 2..Len(s) : s[i].bytes # s[i - 1].bytes
    IN [count |-> Len(s), size |-> IF vary \/ s = <<>> THEN 0 ELSE s[1].bytes,
        sizes |-> IF vary THEN [i \in DOMAIN s |-> s[i].bytes] ELSE <<>>]

mov_write_stss(s) == SelectSeq(Indexes(s), LAMBDA i : s[i].key)

(* Offsets take two words once the last sample starts beyond the first W; a   *)
(* slip: once the first one does.                                             *)
mov_write_stco_First(s, marks, offset) ==
    LET co64 == s[1].offset + offset >= W
        heads == SelectSeq(Indexes(s), LAMBDA i : marks[i].first # 0)
    IN [co64 |-> co64, at |-> [j \in DOMAIN heads |-> Stored(s[heads[j]].offset + offset)]]

mov_write_stco(s, marks, offset) ==
    LET co64 == Last(s).offset + offset >= W
        heads == SelectSeq(Indexes(s), LAMBDA i : marks[i].first # 0)
    IN [co64 |-> co64,
        at |-> [j \in DOMAIN heads |->
                  IF co64 THEN s[heads[j]].offset + offset ELSE Stored(s[heads[j]].offset + offset)]]

(* What the track's stco grows by when the file's offsets grow by offset.     *)
mov_stco_size(t, marks, offset) ==
    LET last == Last(t.samples).offset + t.offset
    IN IF t.samples = <<>> THEN 0
       ELSE IF last >= W \/ last + offset < W THEN 0 ELSE Len(Entries(marks))

(* An empty edit of the length of the first presentation time, then the edit  *)
(* that shows the media from its first composition offset on.                 *)
mov_write_elst(t) ==
    LET delay == t.samples[1].pts
        time == t.samples[1].pts - t.samples[1].dts
        wide == t.duration >= W \/ delay >= W
        cut(v) == IF wide THEN v ELSE Stored(v)
    IN [wide |-> wide,
        edits |-> (IF delay > 0 THEN <<[length |-> cut(delay), media |-> -1]>> ELSE <<>>)
                    \o <<[length |-> cut(t.duration), media |-> IF time < 0 THEN 0 ELSE time]>>]

(* The builders run in this order, each on the marks of its own.              *)
mov_write_stbl(t) ==
    LET s == t.samples
        stts == mov_build_stts(s)
        ctts == mov_build_ctts(s)
        stco == mov_build_stco(s)
        offsets == IF s = <<>> THEN [co64 |-> FALSE, at |-> <<>>]
                   ELSE mov_write_stco(s, stco, t.offset)
        shifted == s # <<>> /\ (Len(Entries(ctts)) > 1 \/ ctts[1].per # 0)
    IN [stts |-> Entries(stts), ctts |-> IF shifted THEN Entries(ctts) ELSE <<>>,
        stss |-> IF t.kind = "video" THEN mov_write_stss(s) ELSE <<>>,
        stsc |-> mov_write_stsc(stco), stsz |-> mov_write_stsz(s),
        co64 |-> offsets.co64, stco |-> offsets.at, marks |-> stco]

mov_write_trak(t) ==
    [id |-> t.id, kind |-> t.kind, duration |-> Stored(t.duration), stbl |-> mov_write_stbl(t),
     elst |-> IF t.samples = <<>> THEN [wide |-> FALSE, edits |-> <<>>] ELSE mov_write_elst(t)]

(* The words a trak box takes.                                                *)
TrakSize(k) ==
    LET b == k.stbl
    IN Fixed + 2 * Len(b.stts) + Len(b.stss) + (IF b.ctts = <<>> THEN 0 ELSE 4 + 2 * Len(b.ctts))
         + 3 * Len(b.stsc) + Len(b.stsz.sizes) + Len(b.stco) * (IF b.co64 THEN 2 ELSE 1)
         + Len(k.elst.edits) * (IF k.elst.wide THEN 5 ELSE 3)

------------------------------------------------------------------------------
(* Reader.                                                                    *)
LOCAL Expanded(runs) ==
    FoldLeft(LAMBDA a, r : a \o [i \in 1..r.first |-> r.per], <<>>, runs)

(* The sizes, then the offset of every sample: chunk by chunk, as many as the *)
(* last stsc entry at or before the chunk says.                               *)
mov_read_stsz(z) == IF z.size # 0 THEN [i \in 1..z.count |-> z.size] ELSE z.sizes

mov_apply_stco(b, bytes) ==
    LET per(j) == b.stsc[Max({i \in DOMAIN b.stsc : b.stsc[i].first <= j})].per
        sample(a, k) == [at |-> a.at + bytes[Len(a.offsets) + 1], offsets |-> Append(a.offsets, a.at)]
        chunk(a, j) == FoldLeft(sample, [at |-> b.stco[j], offsets |-> a], [k \in 1..per(j) |-> k]).offsets
    IN FoldLeft(chunk, <<>>, Indexes(b.stco))

(* The first sample starts after the empty edit.                              *)
mov_apply_elst(edits) ==
    LET empty == SelectSeq(edits, LAMBDA e : e.media = -1)
    IN IF empty = <<>> THEN 0 ELSE Last(empty).length

mov_apply_stts(start, stts) ==
    FoldLeft(LAMBDA a, d : Append(a, Last(a) + d), <<start>>, Expanded(stts))

(* The offsets from decoding to presentation, raised until none is negative;  *)
(* a slip: the word is read as it is stored.                                  *)
mov_apply_ctts_Unsigned(dts, ctts) ==
    LET cts == Expanded(ctts)
    IN [i \in DOMAIN dts |-> IF ctts = <<>> THEN dts[i] ELSE dts[i] + cts[i]]

mov_apply_ctts(dts, ctts) ==
    LET deltas == {Signed(ctts[i].per) : i \in DOMAIN ctts}
        shift == Min({0} \cup (deltas \ {-1}))
        cts == Expanded(ctts)
    IN [i \in DOMAIN dts |-> IF ctts = <<>> THEN dts[i] ELSE dts[i] + (Signed(cts[i]) - shift)]

mov_apply_stss(stss, i) == \E j \in DOMAIN stss : stss[j] = i

mov_read_trak(k) ==
    LET b == k.stbl
        bytes == mov_read_stsz(b.stsz)
        offsets == mov_apply_stco(b, bytes)
        dts == SubSeq(mov_apply_stts(mov_apply_elst(k.elst.edits), b.stts), 1, b.stsz.count)
        pts == mov_apply_ctts(dts, b.ctts)
    IN [id |-> k.id, kind |-> k.kind, stss |-> b.stss, at |-> 1, tfdt |-> 0, duration |-> k.duration,
        edits |-> k.elst.edits,
        samples |-> IF b.stsz.count = 0 THEN <<>>
                    ELSE [i \in 1..b.stsz.count |->
                            [bytes |-> bytes[i], offset |-> offsets[i], dts |-> dts[i], pts |-> pts[i],
                             key |-> mov_apply_stss(b.stss, i)]]]

(* A video track without a table of key frames gets one from its samples.     *)
mov_index_build(r) ==
    IF r.stss # <<>> \/ r.kind # "video" THEN r
    ELSE [r EXCEPT !.stss = SelectSeq(Indexes(r.samples), LAMBDA i : r.samples[i].key)]

------------------------------------------------------------------------------
(* Seeking.                                                                   *)
LOCAL Apart(a, b) == IF a > b THEN a - b ELSE b - a

(* The place in times (a sequence that never decreases) where the binary      *)
(* search for clock stops; at least one is looked at.                         *)
Search(times, clock) ==
    LET look[lo \in 0..Len(times), hi \in 0..Len(times)] ==
          LET mid == (lo + hi) \div 2
              on == times[mid + 1]
          IN IF on > clock THEN IF lo < mid THEN look[lo, mid] ELSE mid
             ELSE IF on < clock THEN IF mid + 1 < hi THEN look[mid + 1, hi] ELSE mid
             ELSE mid
    IN look[0, Len(times)] + 1

(* The neighbours of that place are compared; a slip: only the earlier one.   *)
Nearest_Before(times, clock) ==
    LET mid == Search(times, clock)
        prev == IF mid > 1 THEN mid - 1 ELSE mid
    IN IF Apart(times[prev], clock) < Apart(times[mid], clock) THEN prev ELSE mid

LOCAL NearestOf(times, clock, mid) ==
    LET prev == IF mid > 1 THEN mid - 1 ELSE mid
        next == IF mid < Len(times) THEN mid + 1 ELSE mid
        near == IF Apart(times[prev], clock) < Apart(times[mid], clock) THEN prev ELSE mid
    IN IF Apart(times[next], clock) < Apart(times[near], clock) THEN next ELSE near
Nearest(times, clock) == NearestOf(times, clock, Search(times, clock))

(* The sample a track goes to: of the key frames, or of all samples.          *)
mov_stss_seek(r, clock) ==
    r.stss[Nearest([j \in DOMAIN r.stss |-> r.samples[r.stss[j]].dts], clock)]
mov_sample_seek(r, clock) ==
    IF r.samples = <<>> THEN r.at ELSE Nearest([i \in DOMAIN r.samples |-> r.samples[i].dts], clock)

-----------------------------------------------------------------------------
CONSTANTS Formats,     \* how the writer is created: "mov", "faststart", "fmp4", "segment"
          Kinds,       \* kinds of tracks: "video", "audio", "subtitle"
          Frames,      \* samples: [kind, bytes, step, cts, key]; step since the track's last dts
          Timebase,    \* AV_TRACK_TIMEBASE
          MaxTracks, MaxSamples, MaxFiles, MaxSeeks,
          Cuts,        \* words a crash takes from the end of a fragment
          Times        \* where to seek

VARIABLES format, tracks, file, mdat_size, has_moov, saved, phase, reader, got, sent, heads, wide, seeks

vars == <<format, tracks, file, mdat_size, has_moov, saved, phase, reader, got, sent, heads, wide, seeks>>
writer == <<format, tracks, file, mdat_size, has_moov, saved, sent, heads, wide>>

Unset == -(W * W)      \* INT64_MIN in start_dts and last_dts
Endless == W * W * W   \* UINT64_MAX, the size of the root box

LOCAL Total(f, S) == FoldSet(LAMBDA i, a : a + f[i], 0, S)
LOCAL Joined(seqs) == FoldLeft(LAMBDA a, s : a \o s, <<>>, seqs)

Word(k, v) == [k |-> k, v |-> v]
Pad(n) == [i \in 1..n |-> Word("pad", 0)]
Header(type, n) == <<Word("size", n), Word("type", type)>>
Box(type, info, n) == Header(type, n) \o <<Word("info", info)>> \o Pad(n - 3)
Nest(type, body) == Header(type, 2 + Len(body)) \o body
Data(t, n, bytes) == [j \in 1..bytes |-> Word("data", <<t, n, j>>)]

(* The file after words are written from offset at on.                        *)
mov_buffer_write(f, at, words) ==
    [i \in 1..Max({Len(f), at + Len(words)}) |-> IF i \in (at + 1)..(at + Len(words)) THEN words[i - at] ELSE f[i]]

(* A read that meets the end of the file leaves the rest of the buffer alone. *)
mov_buffer_read(buf, f, at, n) == [i \in 1..n |-> IF at + i <= Len(f) THEN f[at + i] ELSE buf[i]]

mov_write_ftyp == Box("ftyp", 0, 3)
mov_write_styp == Box("styp", 0, 3)

------------------------------------------------------------------------------
(* mov_add_track, mov_add_video, mov_add_audio and mov_add_subtitle: tracks   *)
(* are added before the first sample.                                         *)
mov_add_track(kind) ==
    [id |-> Len(tracks) + 1, kind |-> kind, samples |-> <<>>, offset |-> 0, duration |-> 0,
     start |-> Unset, last |-> Unset, gap |-> 0, frags |-> <<>>]

Add(kind) ==
    /\ phase = "open" /\ Len(tracks) < MaxTracks
    /\ \A t \in DOMAIN sent : sent[t] = <<>>
    /\ tracks' = Append(tracks, mov_add_track(kind))
    /\ sent' = Append(sent, <<>>)
    /\ UNCHANGED <<format, file, mdat_size, has_moov, saved, phase, reader, got, heads, wide, seeks>>

(* The sample that frame f makes on track t.                                  *)
LOCAL Made(t, f, offset) ==
    LET dts == (IF sent[t] = <<>> THEN 0 ELSE Last(sent[t]).dts) + f.step
    IN [n |-> Len(sent[t]) + 1, bytes |-> f.bytes, dts |-> dts, pts |-> dts + f.cts, key |-> f.key,
        offset |-> offset]

LOCAL MayWrite(t, f) ==
    /\ phase = "open" /\ f.kind = tracks[t].kind
    /\ Total([i \in DOMAIN sent |-> Len(sent[i])], DOMAIN sent) < MaxSamples

------------------------------------------------------------------------------
(* mov-writer.                                                                *)
movie == format \in {"mov", "faststart"}

mov_writer_create == mov_write_ftyp \o Header("free", 2) \o Header("mdat", 0)
mdat_offset == Len(mov_write_ftyp) + 2

mov_writer_write(t, f) ==
    /\ movie /\ MayWrite(t, f)
    /\ LET s == Made(t, f, Len(file))
       IN /\ tracks' = [tracks EXCEPT ![t].samples = Append(@, s),
                                      ![t].start = IF @ = Unset THEN s.dts ELSE @]
          /\ file' = file \o Data(t, s.n, s.bytes)
          /\ mdat_size' = mdat_size + s.bytes
          /\ sent' = [sent EXCEPT ![t] = Append(@, s)]
    /\ UNCHANGED <<format, has_moov, saved, phase, reader, got, heads, wide, seeks>>

(* moov: the header and one trak for each track that has samples.             *)
LOCAL Moov(traks, duration) ==
    Box("moov", [traks |-> traks, duration |-> Stored(duration)],
        3 + Total([i \in DOMAIN traks |-> TrakSize(traks[i])], DOMAIN traks))
mov_write_moov(ts, duration) ==
    Moov(SelectSeq([i \in DOMAIN ts |-> mov_write_trak(ts[i])], LAMBDA k : k.stbl.stsz.count > 0), duration)

(* The size of the media data; a large one takes the free box's room.         *)
Finished(f) ==
    IF mdat_size + 2 < W THEN mov_buffer_write(f, mdat_offset, Header("mdat", mdat_size + 2))
    ELSE mov_buffer_write(f, mdat_offset - 2, Header("mdat", 1) \o Header(0, mdat_size + 4))
Moved == IF mdat_size + 2 < W THEN mdat_offset ELSE mdat_offset - 2

(* The track lasts to its last sample and about one sample more.              *)
LOCAL Lasting(t) ==
    LET s == t.samples
        n == Len(s)
        span == s[n].dts - s[1].dts
    IN IF n < 1 THEN t
       ELSE [t EXCEPT !.duration =
               IF n = 1 THEN span
               ELSE span + (((span * 3) \div (n - 1)) \div 4) + ((s[n].dts - s[n - 1].dts) \div 4)]

(* The words the offset tables grow by when moov, of size words, is put in    *)
(* front: growing them moves the media further, until nothing changes.  A     *)
(* slip: their own growth is not counted.                                     *)
Grown_Once(ts, size, sz) ==
    Total([i \in DOMAIN ts |-> mov_stco_size(ts[i], mov_build_stco(ts[i].samples), size)], DOMAIN ts)

RECURSIVE Grown(_, _, _)
Grown(ts, size, sz) ==
    LET co64 == Total([i \in DOMAIN ts |-> mov_stco_size(ts[i], mov_build_stco(ts[i].samples), size + sz)],
                      DOMAIN ts)
    IN IF co64 = sz THEN sz ELSE Grown(ts, size, co64)

(* moov rotated to the front, a moov's length at a time with two buffers.     *)
RECURSIVE Rotated(_, _, _, _, _, _)
Rotated(f, i, from, bytes, out, next) ==
    IF i < from
    THEN LET g == mov_buffer_write(f, i, out)
         IN Rotated(g, i + bytes, from, bytes, next, mov_buffer_read(out, g, i + bytes, bytes))
    ELSE mov_buffer_write(f, i, SubSeq(out, 1, bytes - (i - from)))

mov_writer_move(f, to, from, bytes) ==
    Rotated(f, to, from, bytes, mov_buffer_read(<<>>, f, from, bytes), mov_buffer_read(<<>>, f, to, bytes))

(* The file that mov_writer_destroy leaves: moov, of size words, behind the   *)
(* media data, or in front of it with its offset tables grown by co64.        *)
LOCAL MovieKept(words, fits) ==
    saved' = <<[words |-> words, from |-> [t \in DOMAIN sent |-> 0],
                to |-> [t \in DOMAIN sent |-> Len(sent[t])], fits |-> fits]>>
LOCAL MoovInFront(media, moov, size) ==
    MovieKept(mov_writer_move(media \o moov, Moved, Len(media), Len(moov)), Len(moov) = size)
LOCAL MoovGrown(ts, duration, size) ==
    MoovInFront(Finished(file), mov_write_moov([i \in DOMAIN ts |-> [ts[i] EXCEPT !.offset = size]], duration), size)
LOCAL MoovBehind(ts, duration, moov) ==
    IF format = "mov" THEN MovieKept(Finished(file) \o moov, TRUE)
    ELSE MoovGrown(ts, duration, Len(moov) + Grown(ts, Len(moov), 0))
LOCAL MovieDone(ts, duration) == MoovBehind(ts, duration, mov_write_moov(ts, duration))
mov_writer_destroy ==
    /\ movie /\ phase = "open"
    /\ tracks' = [i \in DOMAIN tracks |-> Lasting(tracks[i])]
    /\ MovieDone(tracks', Max({0} \cup {tracks'[i].duration : i \in DOMAIN tracks'}))
    /\ file' = <<>> /\ phase' = "closed"
    /\ UNCHANGED <<format, mdat_size, has_moov, reader, got, sent, heads, wide, seeks>>

------------------------------------------------------------------------------
(* fmp4-writer.  The moov box has the tracks without samples; each fragment   *)
(* carries the tables of its own.                                             *)
LOCAL EmptyMoov(traks) ==
    Box("moov", [traks |-> traks, duration |-> 0],
        5 + Total([i \in DOMAIN traks |-> TrakSize(traks[i]) + 8], DOMAIN traks))
fmp4_write_moov(ts) == EmptyMoov([i \in DOMAIN ts |-> mov_write_trak([ts[i] EXCEPT !.samples = <<>>])])

(* A sample lasts until the next, the last one as long as the gap before the  *)
(* latest sample given to the track.                                          *)
LOCAL Lasts(t, i) ==
    Stored(IF i < Len(t.samples) THEN t.samples[i + 1].dts - t.samples[i].dts ELSE t.gap)

mov_write_tfhd(t) ==
    Box("tfhd", [id |-> t.id, dur |-> IF Len(t.samples) > 1 THEN Lasts(t, 1) ELSE Stored(t.gap),
                 size |-> t.samples[1].bytes, key |-> t.kind = "audio"], 8)

mov_write_tfdt(t) ==
    LET base == t.samples[1].dts - t.start
    IN Box("tfdt", base, IF base >= W \div 2 THEN 5 ELSE 4)

(* The samples of a fragment follow one another, so one run holds them all;   *)
(* a column that would repeat the default is left out.                        *)
mov_write_trun(t, moof) ==
    LET s == t.samples
        n == Len(s)
        first == mov_write_tfhd(t)[3].v
        column(vary, f(_)) == IF vary THEN [i \in DOMAIN s |-> f(i)] ELSE <<>>
        durs == column(\E i \in DOMAIN s : Lasts(t, i) # first.dur, LAMBDA i : Lasts(t, i))
        sizes == column(\E i \in DOMAIN s : s[i].bytes # first.size, LAMBDA i : s[i].bytes)
        ctss == column(\E i \in DOMAIN s : s[i].pts # s[i].dts, LAMBDA i : Stored(s[i].pts - s[i].dts))
    IN Box("trun", [count |-> n, at |-> Stored(moof + s[1].offset), first |-> s[1].key,
                    durs |-> durs, sizes |-> sizes, ctss |-> ctss],
           5 + (IF s[1].key THEN 1 ELSE 0) + Len(durs) + Len(sizes) + Len(ctss))

fmp4_write_traf(t, moof) == Nest("traf", mov_write_tfhd(t) \o mov_write_tfdt(t) \o mov_write_trun(t, moof))

(* The samples of the fragment, laid out track after track.                   *)
LOCAL Placed(ts) ==
    LET before(i) == Total([j \in DOMAIN ts |-> Total([k \in DOMAIN ts[j].samples |-> ts[j].samples[k].bytes],
                                                      DOMAIN ts[j].samples)], 1..(i - 1))
        at(i, j) == before(i) + Total([k \in DOMAIN ts[i].samples |-> ts[i].samples[k].bytes], 1..(j - 1))
    IN [i \in DOMAIN ts |->
          [ts[i] EXCEPT !.samples =
             [j \in DOMAIN ts[i].samples |-> [ts[i].samples[j] EXCEPT !.offset = at(i, j)]]]]

LOCAL Moof(used, moof) ==
    Nest("moof", Box("mfhd", 0, 4) \o Joined([i \in DOMAIN used |-> fmp4_write_traf(used[i], moof)]))
fmp4_write_moof(ts, moof) == Moof(SelectSeq(ts, LAMBDA t : t.samples # <<>>), moof)

mov_write_sidx(t, first, size) ==
    Box("sidx", [id |-> t.id, first |-> first, size |-> size,
                 pts |-> IF t.samples = <<>> THEN 0 ELSE t.samples[1].pts], 13)

(* What fmp4_write_fragment makes of the writer's state w: the headers when   *)
(* the file has none yet, the index of a segment, moof (written once to learn *)
(* its size, then with the place of the media data), and the media data.      *)
fmp4_write_fragment_AsGiven(w) ==
    IF w.mdat_size < 1 THEN w
    ELSE LET ts == w.tracks
             moof == fmp4_write_moof(ts, Len(fmp4_write_moof(ts, 0)) + 2)
             media == Joined([i \in DOMAIN ts |->
                        Joined([j \in DOMAIN ts[i].samples |->
                          Data(i, ts[i].samples[j].n, ts[i].samples[j].bytes)])])
         IN [w EXCEPT !.file = @ \o (IF w.has_moov THEN <<>> ELSE mov_write_ftyp \o fmp4_write_moov(ts))
                                 \o moof \o Header("mdat", w.mdat_size + 2) \o media,
                      !.has_moov = TRUE, !.mdat_size = 0,
                      !.tracks = [i \in DOMAIN ts |-> [ts[i] EXCEPT !.samples = <<>>]]]

LOCAL FragmentMedia(ts) ==
    Joined([i \in DOMAIN ts |-> Joined([j \in DOMAIN ts[i].samples |->
                                          Data(i, ts[i].samples[j].n, ts[i].samples[j].bytes)])])
LOCAL FragmentFront(w, ts, refsize) ==     \* what comes before moof
    (IF w.has_moov THEN <<>>
     ELSE IF format = "segment" THEN mov_write_styp ELSE mov_write_ftyp \o fmp4_write_moov(ts))
    \o (IF format # "segment" THEN <<>>
         ELSE Joined([i \in DOMAIN ts |->
                        mov_write_sidx(ts[i], 13 * (Len(ts) - i), refsize + w.mdat_size + 2)]))
LOCAL Fragment(w, ts, refsize, front) ==
    LET large == w.mdat_size + 2 >= W
        mdat == IF large THEN Header("mdat", 1) \o Header(0, w.mdat_size + 4)
                ELSE Header("mdat", w.mdat_size + 2)
        at == Len(w.file) + Len(front)
        entry(t) == IF t.samples = <<>> THEN <<>> ELSE <<[time |-> t.samples[1].dts, at |-> at]>>
    IN [file |-> w.file \o front \o fmp4_write_moof(ts, refsize + 2) \o mdat \o FragmentMedia(ts),
        has_moov |-> TRUE, mdat_size |-> 0,
        tracks |-> [i \in DOMAIN ts |->
                      [ts[i] EXCEPT !.samples = <<>>, !.offset = 0, !.frags = @ \o entry(ts[i])]],
        heads |-> w.heads \cup {<<i, ts[i].samples[1].n>> : i \in {j \in DOMAIN ts : ts[j].samples # <<>>}},
        wide |-> w.wide \/ large
                   \/ \E i \in DOMAIN ts : ts[i].samples # <<>>
                        /\ refsize + 2 + ts[i].samples[1].offset >= W \div 2]
LOCAL FragmentSized(w, ts, refsize) == Fragment(w, ts, refsize, FragmentFront(w, ts, refsize))
LOCAL FragmentPlaced(w, ts) == FragmentSized(w, ts, Len(fmp4_write_moof(ts, 0)))
fmp4_write_fragment(w) == IF w.mdat_size < 1 THEN w ELSE FragmentPlaced(w, Placed(w.tracks))

LOCAL Writer == [file |-> file, tracks |-> tracks, mdat_size |-> mdat_size, has_moov |-> has_moov,
                 heads |-> heads, wide |-> wide]
LOCAL Becomes(w) ==
    /\ file' = w.file /\ tracks' = w.tracks /\ mdat_size' = w.mdat_size /\ has_moov' = w.has_moov
    /\ heads' = w.heads /\ wide' = w.wide

(* A video key frame first writes out what is waiting, all tracks of it.      *)
LOCAL Takes(w, t, s) ==
    LET kept == [w.tracks[t] EXCEPT !.samples = Append(@, [s EXCEPT !.offset = w.mdat_size]),
                                    !.start = IF @ = Unset THEN s.dts ELSE @, !.last = s.dts]
    IN Becomes([w EXCEPT !.tracks = [i \in DOMAIN @ |-> IF i = t THEN kept ELSE @[i]],
                         !.mdat_size = @ + s.bytes])
fmp4_writer_write(t, f) ==
    /\ ~movie /\ MayWrite(t, f)
    /\ LET s == Made(t, f, 0)
           gap == IF s.dts > tracks[t].last /\ tracks[t].last # Unset THEN s.dts - tracks[t].last ELSE 0
           given == [Writer EXCEPT !.tracks[t].gap = gap]
       IN /\ Takes(IF f.kind = "video" /\ f.key THEN fmp4_write_fragment(given) ELSE given, t, s)
          /\ sent' = [sent EXCEPT ![t] = Append(@, s)]
    /\ UNCHANGED <<format, saved, phase, reader, got, seeks>>

(* The index at the end of a fragmented file.                                 *)
mov_write_tfra(t) == Box("tfra", [id |-> t.id, entries |-> t.frags], 6 + 5 * Len(t.frags))
fmp4_write_mfra(ts) ==
    LET body == Joined([i \in DOMAIN ts |-> mov_write_tfra(ts[i])])
    IN Header("mfra", 6 + Len(body)) \o body \o Box("mfro", 6 + Len(body), 4)

LOCAL Before == IF saved = <<>> THEN [t \in DOMAIN sent |-> 0] ELSE Last(saved).to
LOCAL Kept(words, to) == Append(saved, [words |-> words, from |-> Before, to |-> to, fits |-> TRUE])

(* What waits is written out; the caller then opens the next file, whose      *)
(* first fragment brings the headers again.                                   *)
LOCAL Saved(w) ==
    /\ w.file # <<>> /\ Len(saved) < MaxFiles
    /\ Becomes([w EXCEPT !.file = <<>>, !.has_moov = FALSE,
                         !.tracks = [i \in DOMAIN @ |->
                            IF format = "segment" THEN @[i] ELSE [@[i] EXCEPT !.frags = <<>>]]])
    /\ saved' = Kept(IF format = "segment" THEN w.file ELSE w.file \o fmp4_write_mfra(w.tracks),
                     [t \in DOMAIN sent |-> Len(sent[t])])
fmp4_writer_save_segment == ~movie /\ phase = "open" /\ Saved(fmp4_write_fragment(Writer))

Save == fmp4_writer_save_segment /\ UNCHANGED <<format, phase, reader, got, sent, seeks>>
fmp4_writer_destroy ==
    fmp4_writer_save_segment /\ phase' = "closed" /\ UNCHANGED <<format, reader, got, sent, seeks>>

fmp4_writer_init_segment == mov_write_ftyp \o fmp4_write_moov(tracks)

(* The program dies: of the file at hand the last words of the last fragment, *)
(* and every sample not yet written out, are lost.                            *)
Crash(c) ==
    /\ ~movie /\ phase = "open" /\ has_moov /\ c < Len(file)
    /\ saved' = Kept(SubSeq(file, 1, Len(file) - c),
                     [t \in DOMAIN sent |-> Len(sent[t]) - Len(tracks[t].samples)])
    /\ phase' = IF \A i \in (Len(file) - c + 1)..Len(file) : file[i].k = "data" THEN "cut" ELSE "torn"
    /\ file' = <<>>
    /\ UNCHANGED <<format, tracks, mdat_size, has_moov, reader, got, sent, heads, wide, seeks>>

------------------------------------------------------------------------------
(* mov-reader.  r is the reader as it parses: its tracks, the place of the    *)
(* moof box, the track that tfhd named with its defaults.                     *)
LOCAL FirstSuch(ts, id) == SelectInSeq(ts, LAMBDA t : t.id = id)

mov_read_tfhd(r, v) ==
    LET i == FirstSuch(r.tracks, v.id)
    IN IF i = 0 THEN [r EXCEPT !.failed = TRUE] ELSE [r EXCEPT !.cur = i, !.tfhd = v]

(* The base time, moved by an empty edit of the moov box.                     *)
mov_read_tfdt(r, base) ==
    [r EXCEPT !.tracks[r.cur].tfdt = base + mov_apply_elst(r.tracks[r.cur].edits)]

(* The samples of a run; the first one counts as a key frame when the run     *)
(* does not say otherwise.                                                    *)
mov_read_trun(r, v) ==
    LET t == r.tracks[r.cur]
        dur(i) == IF v.durs = <<>> THEN r.tfhd.dur ELSE v.durs[i]
        size(i) == IF v.sizes = <<>> THEN r.tfhd.size ELSE v.sizes[i]
        cts(i) == IF v.ctss = <<>> THEN 0 ELSE Signed(v.ctss[i])
        step(a, i) ==
          [at |-> a.at + size(i), dts |-> a.dts + dur(i),
           samples |-> Append(a.samples, [bytes |-> size(i), offset |-> a.at, dts |-> a.dts,
                                          pts |-> a.dts + cts(i), key |-> i = 1 \/ r.tfhd.key])]
        run == FoldLeft(step, [at |-> r.moof + Signed(v.at), dts |-> t.tfdt, samples |-> t.samples],
                        [i \in 1..v.count |-> i])
    IN [r EXCEPT !.tracks = [i \in DOMAIN @ |->
                    IF i = r.cur THEN [t EXCEPT !.samples = run.samples, !.tfdt = run.dts] ELSE @[i]]]

mov_read_moov(r, v) ==
    [r EXCEPT !.tracks = [i \in DOMAIN v.traks |-> mov_read_trak(v.traks[i])], !.duration = v.duration]

mov_read_tfra(r, v) == [r EXCEPT !.failed = FirstSuch(r.tracks, v.id) = 0]

(* A box whose content is read: the end of the file inside it is an error.    *)
Leaves == {"moov", "mfhd", "tfhd", "tfdt", "trun", "sidx", "tfra", "mfro"}
LOCAL Leaf(type, r, v) ==
    CASE type = "moov" -> mov_read_moov(r, v)
      [] type = "tfhd" -> mov_read_tfhd(r, v)
      [] type = "tfdt" -> mov_read_tfdt(r, v)
      [] type = "trun" -> mov_read_trun(r, v)
      [] type = "tfra" -> mov_read_tfra(r, v)
      [] OTHER -> r

(* The boxes from offset at to end.  The end of the file in a box's header    *)
(* just ends the reading, and so does the end of a box that is skipped.       *)
RECURSIVE mov_reader_box(_, _, _, _)
mov_reader_box(f, at, end, r) ==
    IF at + 2 >= end \/ r.failed \/ r.error THEN r
    ELSE IF at + 2 > Len(f) THEN [r EXCEPT !.error = TRUE]
    ELSE IF f[at + 1].k # "size" \/ f[at + 2].k # "type" THEN [r EXCEPT !.failed = TRUE]
    ELSE LET type == f[at + 2].v
             n == IF f[at + 1].v = 1 THEN f[at + 3].v ELSE f[at + 1].v
             next == IF type \in {"moof", "traf", "mfra"}
                     THEN mov_reader_box(f, at + 2, at + n, IF type = "moof" THEN [r EXCEPT !.moof = at] ELSE r)
                     ELSE IF type \in Leaves
                     THEN IF at + n > Len(f) THEN [r EXCEPT !.failed = TRUE] ELSE Leaf(type, r, f[at + 3].v)
                     ELSE r
         IN mov_reader_box(f, at + n, end, next)

LOCAL Opened(f, r) ==
    LET span(t) == IF t.duration # 0 \/ t.samples = <<>> THEN t.duration
                   ELSE Last(t.samples).dts - t.samples[1].dts
    IN [open |-> ~r.failed, tracks |-> [i \in DOMAIN r.tracks |-> mov_index_build(r.tracks[i])],
        duration |-> Max({r.duration} \cup {span(r.tracks[i]) : i \in DOMAIN r.tracks}), words |-> f]
mov_reader_init(f) ==
    Opened(f, mov_reader_box(f, 0, Endless,
                [tracks |-> <<>>, duration |-> 0, moof |-> 0, cur |-> 0, failed |-> FALSE, error |-> FALSE,
                 tfhd |-> [id |-> 0, dur |-> 0, size |-> 0, key |-> FALSE]]))

Closed == [open |-> FALSE, tracks |-> <<>>, duration |-> 0, words |-> <<>>, from |-> <<>>, to |-> <<>>]
Nothing == [what |-> "none", id |-> 0]

(* One of the files is opened; a segment behind the initialisation segment,   *)
(* and with those that follow it.                                             *)
mov_reader_create(k) ==
    LET f == IF format # "segment" THEN saved[k].words
             ELSE fmp4_writer_init_segment \o Joined([i \in 1..(Len(saved) - k + 1) |-> saved[k + i - 1].words])
    IN /\ phase \in {"closed", "cut", "torn"} /\ reader = Closed
       /\ reader' = mov_reader_init(f) @@ [from |-> saved[k].from,
                      to |-> IF format = "segment" THEN Last(saved).to ELSE saved[k].to]
       /\ got' = [what |-> "opened", id |-> 0]
       /\ UNCHANGED <<writer, phase, seeks>>

(* The track to read next: the one whose sample comes first in the file,      *)
(* unless a later track is a timebase behind.                                 *)
mov_reader_next ==
    LET on(i) == reader.tracks[i].samples[reader.tracks[i].at]
        left == SelectSeq([i \in DOMAIN reader.tracks |-> i],
                          LAMBDA i : reader.tracks[i].at <= Len(reader.tracks[i].samples))
    IN FoldLeft(LAMBDA b, i : IF b = 0 \/ on(b).dts - on(i).dts > Timebase \/ on(i).offset < on(b).offset
                              THEN i ELSE b, 0, left)

(* One sample is delivered; one that the file does not hold is an error, and  *)
(* stays the next one.                                                        *)
mov_reader_read ==
    /\ reader.open /\ got.what # "error"
    /\ LET i == mov_reader_next
           t == reader.tracks[i]
           s == t.samples[t.at]
       IN IF i = 0 THEN got.what # "end" /\ got' = [what |-> "end", id |-> 0] /\ UNCHANGED reader
          ELSE IF s.offset + s.bytes > Len(reader.words)
          THEN got' = [what |-> "error", id |-> 0] /\ UNCHANGED reader
          ELSE /\ got' = [what |-> "sample", id |-> t.id, at |-> t.at, pts |-> s.pts, dts |-> s.dts,
                          key |-> s.key, data |-> SubSeq(reader.words, s.offset + 1, s.offset + s.bytes)]
               /\ reader' = [reader EXCEPT !.tracks[i].at = @ + 1]
    /\ UNCHANGED <<writer, phase, seeks>>

(* Video tracks go to the nearest key frame, each from the time the one       *)
(* before went to; the other tracks to the sample nearest to the last.        *)
mov_reader_seek(clock) ==
    LET ts == reader.tracks
        keyed(i) == ts[i].kind = "video" /\ ts[i].stss # <<>>
        video(a, i) == IF ~keyed(i) THEN a
                       ELSE LET j == mov_stss_seek(ts[i], a.clock)
                            IN [clock |-> ts[i].samples[j].dts, at |-> a.at @@ (i :> j)]
        done == FoldLeft(video, [clock |-> clock, at |-> <<>>], [i \in DOMAIN ts |-> i])
    IN /\ reader.open /\ seeks < MaxSeeks
       /\ seeks' = seeks + 1
       /\ reader' = [reader EXCEPT !.tracks = [i \in DOMAIN ts |->
                       [ts[i] EXCEPT !.at = IF keyed(i) THEN done.at[i] ELSE mov_sample_seek(ts[i], done.clock)]]]
       /\ got' = [what |-> "sought", id |-> 0, asked |-> clock, clock |-> done.clock]
       /\ UNCHANGED <<writer, phase>>

Init ==
    /\ format \in Formats
    /\ tracks = <<>> /\ sent = <<>> /\ saved = <<>> /\ heads = {}
    /\ file = (IF format \in {"mov", "faststart"} THEN mov_writer_create ELSE <<>>)
    /\ mdat_size = 0 /\ has_moov = FALSE /\ wide = FALSE
    /\ phase = "open" /\ reader = Closed /\ got = Nothing /\ seeks = 0

Next ==
    \/ \E kind \in Kinds : Add(kind)
    \/ \E t \in DOMAIN tracks, f \in Frames : mov_writer_write(t, f) \/ fmp4_writer_write(t, f)
    \/ mov_writer_destroy
    \/ Save \/ fmp4_writer_destroy
    \/ \E c \in Cuts : Crash(c)
    \/ \E k \in DOMAIN saved : mov_reader_create(k)
    \/ mov_reader_read
    \/ \E clock \in Times : mov_reader_seek(clock)

Spec == Init /\ [][Next]_vars

------------------------------------------------------------------------------
TypeOK ==
    /\ format \in {"mov", "faststart", "fmp4", "segment"}
    /\ phase \in {"open", "closed", "cut", "torn"}
    /\ \A t \in DOMAIN tracks : tracks[t].id = t /\ tracks[t].kind \in {"video", "audio", "subtitle"}
    /\ mdat_size \in Nat /\ has_moov \in BOOLEAN /\ wide \in BOOLEAN /\ seeks \in 0..MaxSeeks
    /\ \A i \in DOMAIN file : file[i].k \in {"size", "type", "info", "pad", "data"}
    /\ got.what \in {"none", "opened", "sample", "end", "error", "sought"}

(* The reader's track of the writer's track t, 0 when it has none.            *)
LOCAL Of(t) == FirstSuch(reader.tracks, t)

(* A sample that mov_reader_read delivers is the one that was written at this *)
(* place of its track: its own words, wherever moov, fragments, segments or   *)
(* wider offset tables have moved them; its times as far from the track's     *)
(* first as they were (from the very start in fragments, so that a segment    *)
(* opened later agrees); a key frame never without its mark, and the mark on  *)
(* no other video frame, but the first of a fragment.  A fragment of 2^31     *)
(* octets or more is left out: trun reads its offset as a signed number.      *)
SampleRight ==
    got.what = "sample" /\ ~wide =>
        LET t == got.id
            from == reader.from[t]
            s == sent[t][from + got.at]
            first == reader.tracks[Of(t)].samples[1]
        IN /\ got.data = Data(t, from + got.at, s.bytes)
           /\ got.dts - first.dts = s.dts - sent[t][from + 1].dts
           /\ got.pts - first.pts = s.pts - sent[t][from + 1].pts
           /\ movie \/ got.dts = s.dts - sent[t][1].dts
           /\ tracks[t].kind = "video" =>
                /\ s.key => got.key
                /\ got.key => s.key \/ <<t, from + got.at>> \in heads

(* What mov_writer_destroy, fmp4_writer_save_segment or fmp4_writer_destroy   *)
(* left can be opened, holds every sample of every track written since the    *)
(* file was begun, and tells a duration that covers them; no read of it fails.*)
(* The moov that goes to the front has the size its offsets were made for     *)
(* (assert in mov_writer_destroy).  Of a file that was cut in its media data  *)
(* only the samples that lost words cannot be read.                           *)
NoSampleLost ==
    /\ \A k \in DOMAIN saved : saved[k].fits
    /\ reader # Closed /\ phase # "torn" => reader.open
    /\ reader.open /\ phase = "closed" =>
         /\ got.what # "error"
         /\ \A t \in DOMAIN sent :
              LET n == reader.to[t] - reader.from[t]
              IN n > 0 => /\ Of(t) # 0 /\ Len(reader.tracks[Of(t)].samples) = n
                          /\ reader.duration >= sent[t][reader.to[t]].dts - sent[t][reader.from[t] + 1].dts
         /\ got.what = "end" =>
              \A i \in DOMAIN reader.tracks : reader.tracks[i].at = Len(reader.tracks[i].samples) + 1
    /\ got.what = "error" =>
         LET t == reader.tracks[mov_reader_next]
             n == reader.from[t.id] + t.at
         IN ~ \E i \in DOMAIN reader.words :
                /\ reader.words[i].k = "data"
                /\ reader.words[i].v = <<t.id, n, sent[t.id][n].bytes>>

(* The top-level boxes of a file: their types and places.                     *)
RECURSIVE Boxes(_, _)
Boxes(f, at) ==
    IF at >= Len(f) THEN <<>>
    ELSE LET n == IF f[at + 1].v = 1 THEN f[at + 3].v ELSE f[at + 1].v
         IN <<[type |-> f[at + 2].v, at |-> at, n |-> n]>> \o Boxes(f, at + n)

(* The indexes lead where they say: every sidx of a segment from its end on   *)
(* to a moof box, and as far as the end of that fragment's media data; every  *)
(* tfra entry of a fragmented file to a moof box of this file with a fragment *)
(* of the track, one entry for each fragment.                                 *)
IndexesTrue ==
    got.what = "opened" /\ phase = "closed" /\ ~movie /\ ~wide =>
        \A k \in DOMAIN saved :
            LET f == saved[k].words
                bs == Boxes(f, 0)
                moofs == {i \in DOMAIN bs : bs[i].type = "moof"}
            IN /\ \A i \in DOMAIN bs : bs[i].type = "sidx" =>
                    \E m \in moofs : /\ bs[m].at = bs[i].at + 13 + f[bs[i].at + 3].v.first
                                     /\ bs[m].n + bs[m + 1].n = f[bs[i].at + 3].v.size
               /\ \A i \in DOMAIN f : f[i].k = "type" /\ f[i].v = "tfra" =>
                    LET v == f[i + 1].v
                        with == {m \in moofs : \E j \in (bs[m].at + 1)..(bs[m].at + bs[m].n) :
                                    f[j].k = "type" /\ f[j].v = "tfhd" /\ f[j + 1].v.id = v.id}
                    IN /\ {v.entries[e].at : e \in DOMAIN v.entries} = {bs[m].at : m \in with}
                       /\ Len(v.entries) = Cardinality(with)

(* After mov_reader_seek every video track with key frames stands at a key    *)
(* frame; for the first of them none is nearer to the time asked for.  The    *)
(* time it answers is that of the frame the last of them went to, and every   *)
(* other track stands at a sample that is not farther from it than any other. *)
SeekNearest ==
    got.what = "sought" =>
        LET ts == reader.tracks
            keyed == {i \in DOMAIN ts : ts[i].kind = "video" /\ \E j \in DOMAIN ts[i].samples : ts[i].samples[j].key}
            far(i, j, c) == IF ts[i].samples[j].dts > c THEN ts[i].samples[j].dts - c ELSE c - ts[i].samples[j].dts
        IN /\ \A i \in keyed : ts[i].samples[ts[i].at].key
           /\ IF keyed = {} THEN got.clock = got.asked
              ELSE /\ \A j \in DOMAIN ts[Min(keyed)].samples :
                        ts[Min(keyed)].samples[j].key =>
                            far(Min(keyed), ts[Min(keyed)].at, got.asked) <= far(Min(keyed), j, got.asked)
                   /\ got.clock = ts[Max(keyed)].samples[ts[Max(keyed)].at].dts
           /\ \A i \in DOMAIN ts \ keyed : \A j \in DOMAIN ts[i].samples :
                far(i, ts[i].at, got.clock) <= far(i, j, got.clock)
==============================================================================
