----------------------------- MODULE FileOutput -----------------------------
(***************************************************************************)
(* log/file_output.c: a log file that rotates by size or by time.  The     *)
(* bytes of the log are numbered in the order they are emitted; a file is  *)
(* the sequence of the numbers in it.  By size, file 0 is <name>.log and   *)
(* file i the backup <name>.log.(i-1); by time, file m is that of minute   *)
(* m.  What fwrite took is in the stream's buffer until it is flushed; a   *)
(* crash, possible anywhere, keeps any beginning of it.                    *)
(***************************************************************************)
EXTENDS Integers, Sequences, FiniteSets, SequencesExt

CONSTANTS Setups,          \* the arguments of log_output_create: police, file_size, num_files
          Lens,            \* lengths of the messages
          ROTATE_INTERVAL, \* ticks of the clock in a minute
          MaxByte, MaxTime \* bounds on the bytes emitted and on the clock

VARIABLES setup,           \* rotate_police, file_size, num_files
          file, data_offset, file_timestamp,  \* file_output_ctx: current_file_name, ...
          disk,            \* the files, NoFile where there is none
          buffer,          \* written and not flushed
          pc, rest,        \* place; bytes of the message that are still to be written
          idx,             \* i in do_file_rotate_by_size
          now,             \* log_get_ms
          last, faulty,    \* history: the last byte emitted; whether a call failed
          at               \* history: the time each byte was emitted

NoFile == <<0>>
NoName == -1
BySize == setup.police = "size"

ctx == <<file, data_offset, file_timestamp>>
history == <<last, faulty, at>>
vars == <<setup, ctx, disk, buffer, pc, rest, idx, now, history>>

Minute(t) == t \div ROTATE_INTERVAL
Names == 0 .. IF BySize THEN setup.num_files ELSE Minute(MaxTime)

TypeOK ==
    /\ setup \in Setups
    /\ file \in Names \cup {NoName} /\ data_offset \in 0 .. MaxByte
    /\ file_timestamp \in 0 .. MaxTime /\ now \in 0 .. MaxTime
    /\ disk \in [Names -> Seq(0 .. MaxByte)] /\ buffer \in Seq(1 .. MaxByte)
    /\ pc \in {"none", "idle", "write", "close", "stat", "rename", "fresh"}
    /\ rest \in 0 .. MaxByte /\ idx \in 0 .. setup.num_files
    /\ last \in 0 .. MaxByte /\ faulty \in BOOLEAN /\ at \in Seq(0 .. MaxTime)

Init ==
    /\ setup \in Setups
    /\ file = NoName /\ data_offset = 0 /\ file_timestamp = 0
    /\ disk = [n \in Names |-> NoFile] /\ buffer = << >>
    /\ pc = "none" /\ rest = 0 /\ idx = 0
    /\ now = 0 /\ last = 0 /\ faulty = FALSE /\ at = << >>

Exists(n) == disk[n] # NoFile
Goto(from, to) == pc = from /\ pc' = to

-----------------------------------------------------------------------------
(* file_ctx_init opens the file; file_ctx_uninit closes it.                *)

file_ctx_init ==
    /\ Goto("none", "close")
    /\ UNCHANGED <<setup, ctx, disk, buffer, rest, idx, now, history>>

Flushed == IF file = NoName THEN disk ELSE [disk EXCEPT ![file] = @ \o buffer]

file_ctx_uninit ==
    /\ Goto("idle", "none")
    /\ disk' = Flushed /\ buffer' = << >>
    /\ file' = NoName /\ data_offset' = 0 /\ file_timestamp' = 0
    /\ UNCHANGED <<setup, rest, idx, now, history>>

-----------------------------------------------------------------------------
(* file_emit                                                               *)

EmitBegin(len) ==
    /\ last + len <= MaxByte
    /\ Goto("idle", IF file = NoName THEN "close" ELSE "write")
    /\ rest' = len
    /\ UNCHANGED <<setup, ctx, disk, buffer, idx, now, history>>

(* Mutant: the size of the file is not looked at. *)
check_can_write_bytes_All == rest

(* Mutant: the difference is taken where there is none. *)
check_can_write_bytes_Minus ==
    IF BySize /\ setup.file_size > 0 THEN data_offset - setup.file_size ELSE rest

check_can_write_bytes ==
    IF BySize
    THEN IF setup.file_size = 0 THEN rest
         ELSE IF setup.file_size > data_offset THEN setup.file_size - data_offset ELSE 0
    ELSE IF now > file_timestamp /\ now - Minute(file_timestamp) * ROTATE_INTERVAL > ROTATE_INTERVAL
         THEN 0 ELSE rest

(* One turn of the loop: as many bytes as fit, then the next file.  What   *)
(* is written while the first file has room is not a turn of its own.      *)
EmitWrite ==
    LET left == check_can_write_bytes
        n == IF rest > left THEN left ELSE rest
    IN  /\ Goto("write", IF n = rest THEN "idle" ELSE "close")
        /\ buffer' = buffer \o [i \in 1 .. n |-> last + i]
        /\ data_offset' = data_offset + n /\ rest' = rest - n
        /\ last' = last + n /\ at' = at \o [i \in 1 .. n |-> now]
        /\ UNCHANGED <<setup, file, file_timestamp, disk, idx, now, faulty>>

(* fwrite fails: the message is given up, its bytes may be in the file.    *)
EmitFails ==
    /\ Goto("write", "idle") /\ check_can_write_bytes > 0
    /\ \E n \in 0 .. (IF rest > check_can_write_bytes THEN check_can_write_bytes ELSE rest) - 1 :
          /\ buffer' = buffer \o [i \in 1 .. n |-> last + i]
          /\ last' = last + n /\ at' = at \o [i \in 1 .. n |-> now]
    /\ rest' = 0 /\ faulty' = TRUE
    /\ UNCHANGED <<setup, ctx, disk, idx, now>>

(* The flush after FLUSH_INTERVAL, or when the stream's buffer is full.    *)
Flush ==
    /\ pc = "idle" /\ buffer # << >>
    /\ disk' = Flushed /\ buffer' = << >>
    /\ UNCHANGED <<setup, ctx, pc, rest, idx, now, history>>

-----------------------------------------------------------------------------
(* file_open_logfile                                                       *)

OpenClose ==
    /\ Goto("close", "stat")
    /\ disk' = Flushed /\ buffer' = << >> /\ file' = NoName
    /\ UNCHANGED <<setup, data_offset, file_timestamp, rest, idx, now, history>>

(* The file name is open with content bytes in it; file_emit goes on.      *)
Opened(name, content) ==
    /\ file' = name /\ disk' = [disk EXCEPT ![name] = content]
    /\ data_offset' = Len(content) /\ file_timestamp' = now
    /\ pc' = IF rest = 0 THEN "idle" ELSE "write"

Content(n) == IF Exists(n) THEN disk[n] ELSE << >>

file_rotate_by_time ==
    /\ ~BySize /\ pc = "stat"
    /\ Opened(Minute(now), Content(Minute(now)))
    /\ UNCHANGED <<setup, buffer, rest, idx, now, history>>

Full == setup.file_size > 0 /\ Exists(0) /\ setup.file_size <= Len(disk[0])

AppendOrCreate ==
    /\ BySize /\ pc = "stat" /\ ~Full
    /\ Opened(0, Content(0))
    /\ UNCHANGED <<setup, buffer, rest, idx, now, history>>

Truncate ==
    /\ BySize /\ pc = "stat" /\ Full /\ setup.num_files = 0
    /\ Opened(0, << >>)
    /\ UNCHANGED <<setup, buffer, rest, idx, now, history>>

(* How many backups there are without a gap, num_files at most; then the   *)
(* files are renamed from the oldest on.  With num_files backups the       *)
(* oldest is overwritten by the one before it.                             *)
BackupCount ==
    CHOOSE k \in 0 .. setup.num_files :
        /\ \A i \in 1 .. k : Exists(i)
        /\ k < setup.num_files => ~Exists(k + 1)

RotateBegin ==
    /\ BySize /\ Full /\ setup.num_files > 0 /\ Goto("stat", "rename")
    /\ idx' = IF BackupCount = setup.num_files THEN BackupCount - 1 ELSE BackupCount
    /\ UNCHANGED <<setup, ctx, disk, buffer, rest, now, history>>

(* Mutant: the newest file is renamed first. *)
Renamed_Up ==
    LET i == (setup.num_files - 1) - idx IN [disk EXCEPT ![i + 1] = disk[i], ![i] = NoFile]

(* Mutant: the file is copied and the old name stays. *)
Renamed_Keeps == [disk EXCEPT ![idx + 1] = disk[idx]]

Renamed == [disk EXCEPT ![idx + 1] = disk[idx], ![idx] = NoFile]

(* The result of rename is not looked at.                                  *)
RotateRename ==
    /\ pc = "rename"
    /\ \/ disk' = Renamed /\ UNCHANGED faulty
       \/ faulty' = TRUE /\ UNCHANGED disk
    /\ pc' = IF idx = 0 THEN "fresh" ELSE "rename"
    /\ idx' = IF idx = 0 THEN 0 ELSE idx - 1
    /\ UNCHANGED <<setup, ctx, buffer, rest, now, last, at>>

RotateFresh ==
    /\ pc = "fresh"
    /\ Opened(0, << >>)
    /\ UNCHANGED <<setup, buffer, rest, idx, now, history>>

(* A directory or file cannot be made or opened: file_ctx_init fails, or   *)
(* the message is given up and the next one tries again.  (A new file of   *)
(* file_rotate_by_time that fopen cannot open counts as open there, and    *)
(* the write to it is a Crash.)                                            *)
OpenFails ==
    /\ pc \in {"stat", "fresh"}
    /\ pc' = IF rest = 0 THEN "none" ELSE "idle"
    /\ rest' = 0 /\ faulty' = TRUE
    /\ UNCHANGED <<setup, ctx, disk, buffer, idx, now, last, at>>

-----------------------------------------------------------------------------
Crash ==
    /\ pc # "none" /\ pc' = "none"
    /\ \E n \in 0 .. Len(buffer) :
          /\ disk' = IF file = NoName THEN disk ELSE [disk EXCEPT ![file] = @ \o SubSeq(buffer, 1, n)]
          /\ last' = last - (Len(buffer) - n) /\ at' = SubSeq(at, 1, last')
    /\ buffer' = << >> /\ rest' = 0 /\ idx' = 0
    /\ file' = NoName /\ data_offset' = 0 /\ file_timestamp' = 0
    /\ UNCHANGED <<setup, now, faulty>>

Tick ==
    /\ ~BySize /\ now < MaxTime /\ now' = now + 1
    /\ UNCHANGED <<setup, ctx, disk, buffer, pc, rest, idx, history>>

EmitStep ==
    \/ EmitWrite \/ EmitFails
    \/ OpenClose \/ file_rotate_by_time \/ AppendOrCreate \/ Truncate
    \/ RotateBegin \/ RotateRename \/ RotateFresh \/ OpenFails

Next ==
    \/ file_ctx_init \/ file_ctx_uninit \/ \E len \in Lens : EmitBegin(len)
    \/ EmitStep \/ Flush \/ Crash \/ Tick

Spec == Init /\ [][Next]_vars

-----------------------------------------------------------------------------
Kept == LET all == [n \in Names |-> Content(n) \o IF n = file THEN buffer ELSE << >>]
            order == IF BySize THEN Reverse([i \in 1 .. Cardinality(Names) |-> i - 1])
                     ELSE [i \in 1 .. Cardinality(Names) |-> i - 1]
        IN  FlattenSeq([i \in DOMAIN order |-> all[order[i]]])

(* Read from the oldest file to the newest, the log holds the bytes in the *)
(* order they were emitted and none of them twice, whatever was renamed,   *)
(* failed or crashed half-way (do_file_rotate_by_size, file_emit).         *)
FilesInOrder == \A i \in 1 .. Len(Kept) - 1 : Kept[i] < Kept[i + 1]

(* As long as no call fails, only the oldest backup is ever dropped: the   *)
(* files hold every byte up to the last one, or the last num_files times   *)
(* file_size of them at least, also when the rotation was cut short by a   *)
(* crash (do_file_rotate_by_size).                                         *)
OnlyOldestDropped ==
    (~faulty /\ (BySize => setup.num_files > 0)) =>
        LET kept == Len(Kept) IN
        /\ kept = last \/ (BySize /\ kept >= setup.num_files * setup.file_size)
        /\ kept > 0 => Kept[1] = (last - kept) + 1 /\ Kept[kept] = last

(* No file grows past file_size as long as no call fails (file_emit).      *)
SizeBounded ==
    (~faulty /\ BySize /\ setup.file_size > 0) =>
        \A n \in Names : Len(Content(n)) + (IF n = file THEN Len(buffer) ELSE 0) <= setup.file_size

(* A file holds what was emitted in its minute, or at the first instant of *)
(* the next one (check_can_write_bytes).                                   *)
InItsMinute ==
    ~BySize => \A n \in Names : \A i \in DOMAIN Content(n) :
        at[Content(n)[i]] \in n * ROTATE_INTERVAL .. (n + 1) * ROTATE_INTERVAL

-----------------------------------------------------------------------------
(***************************************************************************)
(* log/mmap_output.c: the rotating log file written through a window that  *)
(* is mapped into memory.  Names, clock, history and the renaming of the   *)
(* backups are those of file_output.c, of which this code is a variant;    *)
(* data_offset is here mmap_offset, the end of the mapped window, and      *)
(* there is no stream buffer: what is copied into the window is in the     *)
(* file, also after a crash of the process.  Byte 0 fills the pages.       *)
(***************************************************************************)
CONSTANTS PageSize, map_size,
          MaxFile       \* bound: no file is opened again beyond this length

VARIABLES window,       \* mmap_window: its place in the file, size, data_offset, msync_offset
          refused       \* history: an emit returned less than its length though no call failed

NoWindow == [base |-> 0, size |-> 0, data |-> 0, sync |-> 0]
mvars == <<vars, window, refused>>

MmapTypeOK ==
    /\ setup \in Setups /\ file \in Names \cup {NoName} /\ disk \in [Names -> Seq(0 .. MaxByte)]
    /\ buffer = << >> /\ rest \in 0 .. MaxByte /\ last \in 0 .. MaxByte
    /\ pc \in {"none", "idle", "write", "map", "close", "stat", "rename", "fresh"}
    /\ window.data \in 0 .. window.size /\ window.sync \in 0 .. window.data
    /\ window.sync % PageSize = 0 /\ refused \in BOOLEAN
    /\ file # NoName /\ window.size > 0 => window.base + window.size <= Len(disk[file])

MmapInit == Init /\ window = NoWindow /\ refused = FALSE

PageUp(n) == (((n + PageSize) - 1) \div PageSize) * PageSize
Zeros(n) == [i \in 1 .. n |-> 0]

(* Mutant: the limit of the file is not looked at. *)
WindowSize_Whole(offset) == PageUp(map_size)

(* mmap_map_file: the window behind offset.  Past file_size the unsigned   *)
(* difference wraps and the window is not made smaller.                    *)
WindowSize(offset) ==
    LET off == PageUp(offset) IN
    IF setup.file_size > 0 /\ off <= setup.file_size /\ PageUp(map_size) > setup.file_size - off
    THEN PageUp(setup.file_size - off) ELSE PageUp(map_size)

(* Mutant: the next window begins where the last one did. *)
MmapAt_Again(offset) == IF offset > 0 THEN window.base ELSE 0

MmapAt(offset) == PageUp(offset)

(* The window of name, which holds content, behind offset; the emit goes   *)
(* on unless the file has no room behind the window.                       *)
mmap_map_file(name, content, offset) ==
    LET off == MmapAt(offset)
        size == WindowSize(offset)
        padded == [i \in 1 .. off + size |-> IF i <= Len(content) /\ i <= off THEN content[i] ELSE 0]
    IN  /\ size > 0
        /\ disk' = [disk EXCEPT ![name] = padded]
        /\ file' = name /\ data_offset' = off + size
        /\ window' = [base |-> off, size |-> size, data |-> 0, sync |-> 0]

(* check_can_write_bytes after the window was mapped.                      *)
NoRoom == BySize /\ setup.file_size > 0 /\ setup.file_size <= data_offset'

GoOn ==
    /\ pc' = IF rest = 0 \/ NoRoom THEN "idle" ELSE "write"
    /\ rest' = IF NoRoom THEN 0 ELSE rest
    /\ refused' = (refused \/ (rest > 0 /\ NoRoom))

(* mmap_unmap_file: nothing is cut off the file.                           *)
mmap_unmap_file == window' = NoWindow

-----------------------------------------------------------------------------
mmap_ctx_init ==
    /\ \A n \in Names : Len(disk[n]) <= MaxFile
    /\ file_ctx_init /\ UNCHANGED <<window, refused>>

mmap_ctx_uninit ==
    /\ Goto("idle", "none") /\ mmap_unmap_file
    /\ file' = NoName /\ data_offset' = 0 /\ file_timestamp' = 0
    /\ UNCHANGED <<setup, disk, buffer, rest, idx, now, history, refused>>

MmapEmitBegin(len) == EmitBegin(len) /\ UNCHANGED <<window, refused>>

mmap_check_can_write_bytes == check_can_write_bytes

(* mmap_msync_file: whole pages, when the window is full or it is time.    *)
Synced(w) ==
    {w} \cup IF w.data - w.sync >= PageSize
             THEN {[w EXCEPT !.sync = @ + ((w.data - w.sync) \div PageSize) * PageSize]} ELSE {}
mmap_msync_file(w) ==
    IF w.data = w.size /\ w.data - w.sync >= PageSize THEN Synced(w) \ {w} ELSE Synced(w)

(* Mutant: the room in the window is not looked at. *)
Turn_NoWindow == IF rest > mmap_check_can_write_bytes THEN mmap_check_can_write_bytes ELSE rest

(* How much one turn of mmap_emit copies.                                  *)
Turn == LET room == {rest, mmap_check_can_write_bytes, window.size - window.data}
        IN  CHOOSE n \in room : \A m \in room : n <= m

mmap_emit ==
    LET n == Turn
        from == window.base + window.data
    IN  /\ pc = "write"
        /\ pc' = IF n = rest THEN "idle"
                 ELSE IF mmap_check_can_write_bytes = 0 THEN "close" ELSE "map"
        /\ disk' = [disk EXCEPT ![file] =
                       [i \in DOMAIN @ |-> IF i \in from + 1 .. from + n THEN last + (i - from) ELSE @[i]]]
        /\ window' \in IF n > 0 THEN mmap_msync_file([window EXCEPT !.data = @ + n]) ELSE {window}
        /\ rest' = rest - n /\ last' = last + n /\ at' = at \o [i \in 1 .. n |-> now]
        /\ UNCHANGED <<setup, ctx, buffer, idx, now, faulty, refused>>

NextWindow ==
    /\ pc = "map"
    /\ mmap_map_file(file, disk[file], data_offset) /\ GoOn
    /\ UNCHANGED <<setup, file_timestamp, buffer, idx, now, history>>

(* ftruncate or mmap fails: there is no window, the emit gives up.         *)
MapFails ==
    /\ pc = "map" /\ pc' = "idle" /\ rest' = 0 /\ faulty' = TRUE
    /\ mmap_unmap_file /\ data_offset' = PageUp(data_offset)
    /\ UNCHANGED <<setup, file, file_timestamp, disk, buffer, idx, now, last, at, refused>>

-----------------------------------------------------------------------------
(* file_open_logfile                                                       *)

MmapClose ==
    /\ Goto("close", "stat") /\ mmap_unmap_file /\ file' = NoName
    /\ UNCHANGED <<setup, data_offset, file_timestamp, disk, buffer, rest, idx, now, history, refused>>

MmapOpened(name, content) ==
    /\ mmap_map_file(name, content, Len(content)) /\ GoOn
    /\ file_timestamp' = now
    /\ UNCHANGED <<setup, buffer, idx, now, history>>

mmap_rotate_by_time == ~BySize /\ pc = "stat" /\ MmapOpened(Minute(now), Content(Minute(now)))
MmapAppendOrCreate == BySize /\ pc = "stat" /\ ~Full /\ MmapOpened(0, Content(0))
MmapTruncate == BySize /\ pc = "stat" /\ Full /\ setup.num_files = 0 /\ MmapOpened(0, << >>)
MmapRotateBegin == RotateBegin /\ UNCHANGED <<window, refused>>
MmapRotateRename == RotateRename /\ UNCHANGED <<window, refused>>
(* Not truncated by open, but by ftruncate, and cleared.                   *)
MmapRotateFresh == pc = "fresh" /\ MmapOpened(0, << >>)
MmapOpenFails == OpenFails /\ file' = NoName /\ UNCHANGED <<window, refused>>

MmapCrash ==
    /\ pc # "none" /\ pc' = "none" /\ mmap_unmap_file
    /\ rest' = 0 /\ idx' = 0 /\ file' = NoName /\ data_offset' = 0 /\ file_timestamp' = 0
    /\ UNCHANGED <<setup, disk, buffer, now, history, refused>>

(* Someone removes the files of a log that is not open.                    *)
Cleared ==
    /\ pc = "none" /\ \E n \in Names : Len(disk[n]) > MaxFile
    /\ disk' = [n \in Names |-> NoFile]
    /\ UNCHANGED <<setup, ctx, buffer, pc, rest, idx, now, history, window, refused>>

MmapTick == Tick /\ UNCHANGED <<window, refused>>

MmapNext ==
    \/ mmap_ctx_init \/ mmap_ctx_uninit \/ \E len \in Lens : MmapEmitBegin(len)
    \/ mmap_emit \/ NextWindow \/ MapFails
    \/ MmapClose \/ mmap_rotate_by_time \/ MmapAppendOrCreate \/ MmapTruncate
    \/ MmapRotateBegin \/ MmapRotateRename \/ MmapRotateFresh \/ MmapOpenFails
    \/ MmapCrash \/ Cleared \/ MmapTick

MmapSpec == MmapInit /\ [][MmapNext]_mvars

-----------------------------------------------------------------------------
Bytes == SelectSeq(Kept, LAMBDA b : b # 0)

(* Read from the oldest file to the newest, and without the filling, the   *)
(* log holds bytes in the order they were emitted and none twice; unless a *)
(* call failed, they are the last ones, without a gap: a crash of the      *)
(* process loses nothing that was copied (mmap_emit,                       *)
(* do_file_rotate_by_size).                                                *)
MmapInOrder ==
    /\ \A i \in 1 .. Len(Bytes) - 1 : Bytes[i] < Bytes[i + 1]
    /\ (~faulty /\ (BySize => setup.num_files > 0) /\ Bytes # << >>) =>
           Bytes[1] = (last - Len(Bytes)) + 1 /\ Bytes[Len(Bytes)] = last

(* No file grows past file_size, rounded up to whole pages, and a file     *)
(* rotated by time or without a limit takes every message whole.  (One     *)
(* with a limit does not: check_can_write_bytes takes its room to begin    *)
(* behind the window, so that the last window stays empty and the message  *)
(* that reaches it is cut.)                                                *)
MmapBounded ==
    IF BySize /\ setup.file_size > 0
    THEN ~faulty => \A n \in Names : Len(Content(n)) <= PageUp(setup.file_size)
    ELSE ~refused
=============================================================================
