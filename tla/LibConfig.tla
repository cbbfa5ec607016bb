------------------------------ MODULE LibConfig ------------------------------
(* config/libconfig.c: settings in a JSON object, read from and written to a *)
(* file of lines "key=value".  A text is a sequence of characters, one for   *)
(* each kind the parser tells apart; "_" is a blank, "\n" ends a line and    *)
(* "0" is the final zero.  The buffer of a line is never cleared: what an    *)
(* earlier, longer line has left in it stands behind the zero.               *)
EXTENDS Integers, Sequences, SequencesExt

CONSTANTS LINE_SIZE,           \* of the three buffers
          Keys, Values,        \* bound: what cfg_set is called with
          Characters, MaxText, \* bound: files written by hand
          Opened,              \* bound: those of them that a program opens
          MaxSets              \* bound: calls of cfg_set and cfg_remove

VARIABLES cfg,     \* cfg_ctx_t: the settings in order, each <<key, value>>
          file,    \* its text
          saved,   \* history: the settings the file was written from
          sets

vars == <<cfg, file, saved, sets>>

NoCfg == <<<<<<"none">>, <<>>>>>>
Overrun == <<<<<<"overrun">>, <<>>>>>>   \* the parser has left its buffer: anything may follow
ByHand == <<<<<<"by hand">>, <<>>>>>>

------------------------------------------------------------------------------
(* json_object_object_add and json_object_object_del: a key keeps its place. *)
json_object_object_add(c, k, v) ==
    IF \E i \in DOMAIN c : c[i][1] = k
    THEN [i \in DOMAIN c |-> IF c[i][1] = k THEN <<k, v>> ELSE c[i]]
    ELSE Append(c, <<k, v>>)
json_object_object_del(c, k) == SelectSeq(c, LAMBDA e : e[1] # k)

(* fgets: up to LINE_SIZE - 2 characters, to the end of a line.              *)
Chunk(text) ==
    LET ends == {i \in 1 .. Len(text) : text[i] = "\n" \/ i = Len(text) \/ i = LINE_SIZE - 2}
    IN  SubSeq(text, 1, CHOOSE i \in ends : \A j \in ends : i <= j)
Fgets(line, chunk) == chunk \o <<"0">> \o SubSeq(line, Len(chunk) + 2, LINE_SIZE)

(* Mutant: a blank that follows the key ends the line. *)
KeyStep_Blank(q, c) ==
    CASE c = "\n" -> [q EXCEPT !.last = "key", !.state = "linebreak"]
      [] c = "=" -> [q EXCEPT !.state = "wait_value"]
      [] c = "_" -> [q EXCEPT !.last = "key", !.state = "linebreak"]
      [] OTHER -> [q EXCEPT !.key = Append(@, c)]

KeyStep(q, c) ==
    CASE c = "\n" -> [q EXCEPT !.last = "key", !.state = "linebreak"]
      [] c = "=" -> [q EXCEPT !.state = "wait_value"]
      [] c = "_" -> [q EXCEPT !.state = "wait_equal"]
      [] OTHER -> [q EXCEPT !.key = Append(@, c)]

(* One character in a state of the parser; a line is over at "linebreak".    *)
Step(q, c) ==
    CASE q.state = "space" ->
           (CASE c = "_" -> q
              [] c = "#" -> [q EXCEPT !.last = "sharp", !.state = "linebreak"]
              [] c = "\n" -> [q EXCEPT !.state = "linebreak"]
              [] OTHER -> [q EXCEPT !.key = <<c>>, !.state = "key"])
      [] q.state = "key" -> KeyStep(q, c)
      [] q.state = "wait_equal" ->
           (CASE c = "_" -> q
              [] c = "=" -> [q EXCEPT !.state = "wait_value"]
              [] OTHER -> [q EXCEPT !.last = "wait_equal", !.state = "linebreak"])
      [] q.state = "wait_value" ->
           (CASE c = "_" -> q
              [] c = "\n" -> [q EXCEPT !.last = "wait_value", !.state = "linebreak"]
              [] OTHER -> [q EXCEPT !.value = <<c>>, !.state = "value"])
      [] q.state = "value" ->
           (CASE c = "\n" -> [q EXCEPT !.last = "value", !.state = "linebreak"]
              [] OTHER -> [q EXCEPT !.value = Append(@, c)])

RECURSIVE Scan(_, _, _)
Scan(line, p, q) ==
    IF q.state = "linebreak" \/ p > LINE_SIZE THEN q
    ELSE Scan(line, p + 1, Step(q, line[p]))

CString(s) == SubSeq(s, 1, CHOOSE n \in 0 .. Len(s) :
                              /\ n = Len(s) \/ s[n + 1] = "0"
                              /\ \A i \in 1 .. n : s[i] # "0")

(* The lines of a text, one after the other, into the settings c.            *)
RECURSIVE Lines(_, _, _)
Lines(text, line, c) ==
    IF text = <<>> THEN c
    ELSE LET chunk == Chunk(text)
             buffer == Fgets(line, chunk)
             q == Scan(buffer, 1, [state |-> "space", last |-> "space", key |-> <<>>, value |-> <<>>])
             rest == SubSeq(text, Len(chunk) + 1, Len(text))
         IN  IF q.state # "linebreak" THEN Overrun
             ELSE Lines(rest, buffer,
                        IF q.last = "value" THEN json_object_object_add(c, CString(q.key), CString(q.value))
                        ELSE c)

Load(text) == Lines(text, [i \in 1 .. LINE_SIZE |-> "0"], <<>>)

(* Mutant: no end of line behind a value. *)
cfg_do_write_to_file_Joined(text, e) == text \o e[1] \o <<"=">> \o e[2]

cfg_do_write_to_file(text, e) == text \o e[1] \o <<"=">> \o e[2] \o <<"\n">>

------------------------------------------------------------------------------
Init == cfg = NoCfg /\ file = <<>> /\ saved = ByHand /\ sets = 0

Open == cfg \notin {NoCfg, Overrun}

WriteByHand(c) ==
    /\ cfg = NoCfg /\ saved = ByHand /\ sets = 0 /\ Len(file) < MaxText
    /\ file' = Append(file, c)
    /\ UNCHANGED <<cfg, saved, sets>>

Closed == cfg = NoCfg /\ (saved = ByHand => file \in Opened)

cfg_create == Closed /\ cfg' = <<>> /\ UNCHANGED <<file, saved, sets>>

cfg_create_from_file == Closed /\ cfg' = Load(file) /\ UNCHANGED <<file, saved, sets>>

cfg_set(k, v) ==
    /\ Open /\ sets < MaxSets /\ sets' = sets + 1
    /\ cfg' = json_object_object_add(cfg, k, v)
    /\ UNCHANGED <<file, saved>>

cfg_remove(k) ==
    /\ Open /\ sets < MaxSets /\ sets' = sets + 1
    /\ cfg' = json_object_object_del(cfg, k)
    /\ UNCHANGED <<file, saved>>

(* A file that cannot be opened is left as it is.                            *)
cfg_write_to_file ==
    /\ Open
    /\ file' = FoldLeft(cfg_do_write_to_file, <<>>, cfg) /\ saved' = cfg
    /\ UNCHANGED <<cfg, sets>>

cfg_destroy == Open /\ cfg' = NoCfg /\ UNCHANGED <<file, saved, sets>>

Next ==
    \/ \E c \in Characters : WriteByHand(c)
    \/ cfg_create \/ cfg_create_from_file \/ cfg_write_to_file \/ cfg_destroy
    \/ \E k \in Keys : cfg_remove(k) \/ \E v \in Values : cfg_set(k, v)

Spec == Init /\ [][Next]_vars

TypeOK ==
    /\ Open => \A i \in DOMAIN cfg : DOMAIN cfg[i] = {1, 2}
    /\ sets \in 0 .. MaxSets

------------------------------------------------------------------------------
(* What a line says, read without the parser: the first word that is no      *)
(* comment, an equals sign, and the rest of the line.                        *)
LOCAL Skip(s, set) ==
    LET n == CHOOSE n \in 0 .. Len(s) :
               /\ n = Len(s) \/ s[n + 1] \notin set
               /\ \A i \in 1 .. n : s[i] \in set
    IN  SubSeq(s, n + 1, Len(s))
LOCAL Says(line) ==
    LET s == Skip(line, {"_"})
        after == Skip(Tail(s), Characters \ {"_", "="})
        word == SubSeq(s, 1, Len(s) - Len(after))
        eq == Skip(after, {"_"})
    IN  IF s = <<>> \/ Head(s) = "#" \/ eq = <<>> THEN <<>>
        ELSE IF Head(eq) # "=" \/ Skip(Tail(eq), {"_"}) = <<>> THEN <<>>
        ELSE <<<<word, Skip(Tail(eq), {"_"})>>>>
LOCAL Starts(text) == SelectSeq([i \in DOMAIN text |-> i], LAMBDA i : i = 1 \/ text[i - 1] = "\n")
LOCAL LineAt(text, i) ==
    SubSeq(text, i, (CHOOSE j \in i .. Len(text) : text[j] = "\n" /\ \A k \in i .. (j - 1) : text[k] # "\n") - 1)
LOCAL Means(text) ==
    FoldLeft(LAMBDA c, i : LET e == Says(LineAt(text, i))
                           IN  IF e = <<>> THEN c ELSE json_object_object_add(c, e[1][1], e[1][2]),
             <<>>, Starts(text))

(* A file written by hand is read as its lines say, the last of two settings *)
(* of a key counting, whatever earlier lines have left in the buffer, as     *)
(* long as every line is ended and fits (cfg_create_from_file).              *)
HandReadRight ==
    LET whole == file # <<>> /\ Last(file) = "\n"
                    /\ \A i \in ToSet(Starts(file)) : Len(LineAt(file, i)) <= LINE_SIZE - 3
    IN  (saved = ByHand /\ whole) => Load(file) = Means(file)

LOCAL Plain(e) ==
    /\ e[1] # <<>> /\ Head(e[1]) \notin {"_", "#"} /\ \A i \in 2 .. Len(e[1]) : e[1][i] \notin {"_", "="}
    /\ e[2] # <<>> /\ Head(e[2]) # "_"
    /\ Len(e[1]) + Len(e[2]) <= LINE_SIZE - 4

(* Settings that were made, changed and removed in any order come back from  *)
(* the file as they were, with keys of one word and values that neither are  *)
(* empty nor begin with a blank (cfg_write_to_file, cfg_create_from_file).   *)
SettingsComeBack ==
    (saved # ByHand /\ \A i \in DOMAIN saved : Plain(saved[i])) => Load(file) = saved
==============================================================================
