------------------------------- MODULE MCLog --------------------------------
(* The parts of the log library side by side: its lists and the threads      *)
(* that print, the rotating file, written through a stream or a mapped       *)
(* window, the message buffer, the format strings, the other outputs and     *)
(* simple_log.  A behaviour exercises the one that part names; the last      *)
(* three share the variables w1 to w11.                                      *)
EXTENDS LogCore, TLC

CONSTANTS ROTATE_INTERVAL, MaxByte, MaxTime,
          MarkLen, MaxLen,
          PageSize, map_size, MaxFile, MmapBytes

VARIABLES part,
          setup, file, data_offset, file_timestamp, disk, buffer, fpc, rest, idx, now,
          last, faulty, written,
          window, refused,
          size_real, size_max, start, text, cut, ideal,
          w1, w2, w3, w4, w5, w6, w7, w8, w9, w10, w11

filevars == <<setup, file, data_offset, file_timestamp, disk, buffer, fpc, rest, idx, now,
              last, faulty, written, window, refused>>
bufvars == <<size_real, size_max, start, text, cut, ideal>>
shared == <<w1, w2, w3, w4, w5, w6, w7, w8, w9, w10, w11>>

(* A level that is none stands for the end of the range.                   *)
LevelBounds == {-1, 1}

(* Two backups, one, none; no limit; a file for each minute.               *)
Setup(police, size, num) == [police |-> police, file_size |-> size, num_files |-> num]
Setups == {Setup("size", 2, 2), Setup("size", 3, 1), Setup("size", 2, 0), Setup("size", 0, 1),
           Setup("time", 0, 0)}
MmapSetups == {Setup("size", 5, 1), Setup("size", 4, 0), Setup("size", 0, 1), Setup("time", 0, 0)}

(* A buffer that may grow, one without a limit, one that may not grow.     *)
Sizes == {<<3, 6>>, <<2, 0>>, <<3, 3>>}

(* Formats to print with, and every short string of the symbols.           *)
LineFormats ==
    {<<"%", "d", "%", "m", "s", "x", "%", "p", "%", "m">>,
     <<"%", "d", "%", "u", "s", "%", "w", "d", "(", "x", ")", "%", "c", "%", "E", "(", "x", ")">>}
FormatStrings ==
    LineFormats \cup UNION {[1 .. n -> {"%", "w", "d", "(", ")", "m", "s", "E", "p", "x"}] : n \in 1 .. 3}
    \cup {<<"%">> \o f : f \in [1 .. 4 -> {"w", "d", "(", ")", "m", "s", "E"}]}

FO == INSTANCE FileOutput WITH pc <- fpc, at <- written, Lens <- {1, 3}
MO == INSTANCE FileOutput WITH pc <- fpc, at <- written, Lens <- {3}, MaxByte <- MmapBytes,
                               Setups <- MmapSetups
LF == INSTANCE LogFormat WITH
        Formats <- FormatStrings, Printed <- LineFormats, Tick <- 2,
        MaxPid <- 2, MaxLines <- 2, Lens <- {0, 1, 3}, Widths <- {0, 2, 4},
        str <- w1, pos <- w2, specs <- w3, failed <- w4, e <- w5, line <- w6, at <- w7,
        now <- w8, pid <- w9, began <- w10, lines <- w11
LO == INSTANCE LogOutputs WITH
        Types <- {"tcp", "udp", "syslog", "stdout", "stderr", "user"}, Lens <- {1, 2},
        LOG_DEBUG <- 1, MaxByte <- 4, Levels <- {1, 2},
        type <- w1, ctx <- w2, sockfd <- w3, open <- w4, ident <- w5, msg <- w6,
        total <- w7, sink <- w8, levels <- w9, last <- w10, accepted <- w11,
        handler <- w1, has <- w2, level <- w3, rule_level <- w4, named <- w5, made <- w6,
        default <- w7, broken <- w8

SharedInit ==
    CASE part = "format" -> LF!Init
      [] part = "outputs" -> LO!Init
      [] part = "simple" -> LO!SimpleInit /\ w9 = 0 /\ w10 = 0 /\ w11 = 0
      [] OTHER -> /\ w1 = 0 /\ w2 = 0 /\ w3 = 0 /\ w4 = 0 /\ w5 = 0 /\ w6 = 0 /\ w7 = 0
                  /\ w8 = 0 /\ w9 = 0 /\ w10 = 0 /\ w11 = 0

AnyInit ==
    /\ part \in {"core", "file", "mmap", "buf", "format", "outputs", "simple"}
    /\ Init /\ LF!BufInit /\ SharedInit
    /\ IF part = "mmap" THEN MO!MmapInit
       ELSE FO!Init /\ window = MO!NoWindow /\ refused = FALSE
    /\ part \notin {"file", "mmap"} => setup.police = "time"
    /\ part # "buf" => size_max = 0
AnyNext ==
    /\ \/ part = "core" /\ Next /\ UNCHANGED <<filevars, bufvars, shared>>
       \/ part = "file" /\ FO!Next /\ UNCHANGED <<vars, window, refused, bufvars, shared>>
       \/ part = "mmap" /\ MO!MmapNext /\ UNCHANGED <<vars, bufvars, shared>>
       \/ part = "buf" /\ LF!BufNext /\ UNCHANGED <<vars, filevars, shared>>
       \/ part = "format" /\ LF!Next /\ UNCHANGED <<vars, filevars, bufvars>>
       \/ part = "outputs" /\ LO!Next /\ UNCHANGED <<vars, filevars, bufvars>>
       \/ part = "simple" /\ LO!SimpleNext /\ UNCHANGED <<vars, filevars, bufvars, w9, w10, w11>>
    /\ UNCHANGED part
AnySpec == AnyInit /\ [][AnyNext]_<<part, vars, filevars, bufvars, shared>>

ASSUME LogAssumed == LogAssumption

Symmetry ==
    UNION {Permutations(Idents), Permutations(Rules), Permutations(Outputs), Permutations(Threads)}

(* The lists, threads, files, windows, buffers and outputs are well typed  *)
(* (struct log_handler, struct file_output_ctx, struct mmap_output_ctx,    *)
(* struct log_buf, struct sock_output_ctx, simple_log_ctx_t).              *)
AllTypeOK ==
    /\ TypeOK /\ LF!BufTypeOK
    /\ IF part = "mmap" THEN MO!MmapTypeOK ELSE FO!TypeOK
    /\ part = "outputs" => LO!TypeOK
    /\ part = "simple" => LO!SimpleTypeOK

(* From the oldest file to the newest the bytes are in order, none twice,  *)
(* despite failing calls and crashes, through a stream or a mapped window, *)
(* and with a stream only the oldest backup is dropped                     *)
(* (do_file_rotate_by_size of file_output.c and mmap_output.c).            *)
FilesInOrder ==
    IF part = "mmap" THEN MO!MmapInOrder
    ELSE FO!FilesInOrder /\ (part = "file" => FO!OnlyOldestDropped)

(* No file grows past file_size (file_emit, mmap_emit), and with one file  *)
(* for each minute a file holds what was emitted in its own                *)
(* (check_can_write_bytes).                                                *)
FilesBounded == IF part = "mmap" THEN MO!MmapBounded ELSE FO!SizeBounded /\ FO!InItsMinute

(* The text of a message is what was appended, cut only at the limit       *)
(* (buf_append), with room for the final zero (buf_resize); the specs tile *)
(* the format string (spec_create); the date and its fraction in a line    *)
(* are of one reading of the clock, the pid that of the writing process    *)
(* (spec_write_time, spec_write_ms, spec_write_pid).                       *)
LinesTrue ==
    /\ LF!TextIsIdeal /\ LF!SealFits
    /\ part = "format" => LF!FormatTiled /\ LF!LineCoherent

(* What an output says it took arrives, in order and with nothing behind a *)
(* cut message (sock_emit), no descriptor is lost (sock_ctx_uninit), and   *)
(* simple_log neither loses what it made nor mixes levels                  *)
(* (simple_log_set_level, simple_log_stop).                                *)
OutputsSound ==
    /\ part = "outputs" => LO!TakenArrives /\ LO!NoDescriptorLost
    /\ part = "simple" => LO!SimpleSound
=============================================================================
