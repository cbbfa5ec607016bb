----------------------------- MODULE LogFormat ------------------------------
(***************************************************************************)
(* log/log_format.c: a format string is cut into specs, and a line is      *)
(* written spec by spec from the handler's event, whose time and pid are   *)
(* read once for a line and kept as text between lines.                    *)
(*                                                                         *)
(* A character is a symbol of Chars: "w" is a width such as -5.5, "x" any  *)
(* character that is no conversion.  The clock may move between two specs  *)
(* and the process may fork between two lines.                             *)
(***************************************************************************)
EXTENDS Integers, Sequences, SequencesExt, FiniteSets

CONSTANTS Formats,      \* the format strings tried
          Printed,      \* those that lines are printed with
          Tick,         \* instants in a second
          MaxTime, MaxPid, MaxLines  \* bounds

VARIABLES str, pos, specs, failed,   \* the format string and what was parsed of it
          e,                         \* handler->event
          line, at,                  \* the line so far, the spec to write next (0: no line)
          now, pid,                  \* the clock and getpid()
          began, lines               \* history: when the line began; how many were written

fvars == <<str, pos, specs, failed>>
vars == <<fvars, e, line, at, now, pid, began, lines>>

Fields == {"c", "H", "F", "U", "L", "M", "r", "n", "%"}
Others == {"t", "T", "V", "v", "C", "R"}

-----------------------------------------------------------------------------
(* spec_create: the spec that begins at p, and where it ends; << >> if the *)
(* string is in wrong format.                                              *)

At(s, i) == IF i <= Len(s) THEN s[i] ELSE "end"
FirstFrom(s, i, c) == LET at_ == {j \in i .. Len(s) : s[j] = c}
                      IN IF at_ = {} THEN 0 ELSE CHOOSE j \in at_ : \A k \in at_ : j <= k

Spec_(kind, arg, wide, next) == <<[kind |-> kind, arg |-> arg, reformat |-> wide], next>>

(* d, d(), d(fmt): without a closing bracket sscanf leaves p where it is.  *)
SpecTime(s, q, wide) ==
    LET close == FirstFrom(s, q + 2, ")") IN
    CASE At(s, q + 1) # "(" -> Spec_("d", <<"default">>, wide, q + 1)
      [] At(s, q + 1) = "(" /\ At(s, q + 2) = ")" -> Spec_("d", <<"default">>, wide, q + 3)
      [] close > q + 2 -> Spec_("d", SubSeq(s, q + 2, close - 1), wide, close + 1)
      [] OTHER -> << >>

SpecEnv(s, q, wide) ==
    LET close == FirstFrom(s, q + 2, ")") IN
    IF At(s, q + 1) = "(" /\ close > q + 2
    THEN Spec_("E", SubSeq(s, q + 2, close - 1), wide, close + 1) ELSE << >>

(* Mutant: one character of ms or us is skipped. *)
SpecFraction_One(s, q, wide) == Spec_(IF s[q] = "m" THEN "ms" ELSE "us", << >>, wide, q + 1)

SpecFraction(s, q, wide) == Spec_(IF s[q] = "m" THEN "ms" ELSE "us", << >>, wide, q + 2)

SpecLetter(s, q, wide) ==
    IF At(s, q) \in Fields \cup Others \cup {"p", "m"} THEN Spec_(s[q], << >>, wide, q + 1) ELSE << >>

SpecText(s, p) ==
    LET next == FirstFrom(s, p, "%")
        stop == IF next = 0 THEN Len(s) + 1 ELSE next
    IN  Spec_("text", SubSeq(s, p, stop - 1), FALSE, stop)

spec_create(s, p) ==
    LET wide == At(s, p + 1) = "w"
        q == IF wide THEN p + 2 ELSE p + 1
    IN  IF s[p] # "%" THEN SpecText(s, p)
        ELSE CASE At(s, q) = "d" -> SpecTime(s, q, wide)
               [] At(s, q) = "E" -> SpecEnv(s, q, wide)
               [] At(s, q) \in {"m", "u"} /\ At(s, q + 1) = "s" -> SpecFraction(s, q, wide)
               [] OTHER -> SpecLetter(s, q, wide)

(* log_format_create, one spec at a time.                                  *)
Parse ==
    LET s == spec_create(str, pos) IN
    /\ ~failed /\ pos <= Len(str)
    /\ IF s = << >> THEN failed' = TRUE /\ specs' = << >> /\ pos' = pos
       ELSE failed' = FALSE /\ specs' = Append(specs, [spec |-> s[1], from |-> pos]) /\ pos' = s[2]
    /\ UNCHANGED <<str, e, line, at, now, pid, began, lines>>

(* log_format_destroy, and the same string once more.                      *)
Destroy ==
    /\ at = 0 /\ (failed \/ pos > Len(str))
    /\ pos' = 1 /\ specs' = << >> /\ failed' = FALSE
    /\ UNCHANGED <<str, e, line, at, now, pid, began, lines>>

-----------------------------------------------------------------------------
(* Writing: <<event, piece>> for a spec.                                   *)

Sec(t) == t \div Tick + 1
Frac(t) == t % Tick

(* gettimeofday, unless the event has a time already.                      *)
Stamped(ev) == IF ev.sec = 0 THEN [ev EXCEPT !.sec = Sec(now), !.frac = Frac(now)] ELSE ev

(* Mutant: the text is made only once. *)
spec_write_time_Once(s, ev) ==
    LET st == Stamped(ev)
        new == IF st.ts = 0 THEN [st EXCEPT !.ts = st.sec, !.time_str = <<s.arg, st.sec>>] ELSE st
    IN  <<new, [what |-> "time", val |-> new.time_str[2]]>>

spec_write_time(s, ev) ==
    LET st == Stamped(ev)
        new == IF st.ts # st.sec THEN [st EXCEPT !.ts = st.sec, !.time_str = <<s.arg, st.sec>>] ELSE st
    IN  <<new, [what |-> "time", val |-> new.time_str[2]]>>

(* Mutant: the clock is read again. *)
Fraction_Again(s, ev) == <<Stamped(ev), [what |-> s.kind, val |-> Frac(now)]>>

Fraction(s, ev) == LET st == Stamped(ev) IN <<st, [what |-> s.kind, val |-> st.frac]>>
spec_write_ms(s, ev) == Fraction(s, ev)
spec_write_us(s, ev) == Fraction(s, ev)

spec_write_pid(s, ev) ==
    LET new == IF ev.pid # 0 THEN ev
               ELSE [ev EXCEPT !.pid = pid, !.last_pid = pid,
                               !.pid_str = IF ev.last_pid # pid THEN pid ELSE @]
    IN  <<new, [what |-> "pid", val |-> new.pid_str]>>

(* What stands in the event, and what is made for the spec alone.          *)
spec_write_field(s, ev) == <<ev, [what |-> s.kind, val |-> 0]>>
spec_write_made(s, ev) == <<ev, [what |-> s.kind, val |-> 0]>>
spec_write_message(s, ev) == <<ev, [what |-> "m", val |-> 0]>>
spec_write_str(s, ev) == <<ev, [what |-> "text", val |-> Len(s.arg)]>>

write_buf(s, ev) ==
    CASE s.kind = "text" -> spec_write_str(s, ev)
      [] s.kind = "d" -> spec_write_time(s, ev)
      [] s.kind = "ms" -> spec_write_ms(s, ev)
      [] s.kind = "us" -> spec_write_us(s, ev)
      [] s.kind = "p" -> spec_write_pid(s, ev)
      [] s.kind = "m" -> spec_write_message(s, ev)
      [] s.kind \in Fields -> spec_write_field(s, ev)
      [] OTHER -> spec_write_made(s, ev)

(* log_event_update                                                        *)
Update(ev) == [ev EXCEPT !.pid = 0, !.sec = 0]

BeginLine ==
    /\ at = 0 /\ lines < MaxLines /\ ~failed /\ pos > Len(str) /\ str \in Printed
    /\ e' = Update(e) /\ line' = << >> /\ at' = 1 /\ began' = now
    /\ UNCHANGED <<fvars, now, pid, lines>>

(* log_do_format: the next spec; one that fails leaves nothing, one that   *)
(* does not fit ends the line.                                             *)
WriteSpec ==
    /\ at \in 1 .. Len(specs)
    /\ LET w == write_buf(specs[at].spec, e) IN
       /\ e' = w[1]
       /\ \/ line' = Append(line, w[2]) /\ at' = at + 1
          \/ line' = line /\ at' = at + 1 /\ specs[at].spec.kind \in {"m", "E", "text"}
          \/ line' = Append(line, w[2]) /\ at' = Len(specs) + 1
    /\ UNCHANGED <<fvars, now, pid, began, lines>>

EndLine ==
    /\ at > 0 /\ at = Len(specs) + 1 /\ at' = 0 /\ lines' = lines + 1 /\ line' = << >>
    /\ began' = 0
    /\ UNCHANGED <<fvars, e, now, pid>>

Clock == now < MaxTime /\ str \in Printed /\ now' = now + 1 /\ UNCHANGED <<fvars, e, line, at, pid, began, lines>>
Fork == at = 0 /\ pid < MaxPid /\ str \in Printed /\ pid' = pid + 1 /\ UNCHANGED <<fvars, e, line, at, now, began, lines>>

Init ==
    /\ str \in Formats /\ pos = 1 /\ specs = << >> /\ failed = FALSE
    /\ e = [sec |-> 0, frac |-> 0, ts |-> 0, time_str |-> << << >>, 0>>,
            pid |-> 0, last_pid |-> 0, pid_str |-> 0]
    /\ line = << >> /\ at = 0 /\ now = 0 /\ pid = 1 /\ began = 0 /\ lines = 0

Next == Parse \/ Destroy \/ BeginLine \/ WriteSpec \/ EndLine \/ Clock \/ Fork
Spec == Init /\ [][Next]_vars

-----------------------------------------------------------------------------
(* The specs of a format tile it: each begins where the one before it      *)
(* ended, a text holds no %, and a conversion begins with one              *)
(* (spec_create's len and pnext).                                          *)
FormatTiled ==
    \A i \in DOMAIN specs :
        LET from == specs[i].from
            next == IF i = Len(specs) THEN pos ELSE specs[i + 1].from
        IN  /\ next > from /\ next <= Len(str) + 1
            /\ IF specs[i].spec.kind = "text"
               THEN /\ specs[i].spec.arg = SubSeq(str, from, next - 1)
                    /\ \A j \in from .. next - 1 : str[j] # "%"
               ELSE /\ str[from] = "%"
                    /\ specs[i].spec.kind \in {"ms", "us"} => str[next - 1] = "s"

(* The date, milliseconds and microseconds of a line are of one reading of *)
(* the clock, made while the line was written, and the pid is that of the  *)
(* process that writes, whatever the texts kept from the line before       *)
(* (spec_write_time, spec_write_ms, spec_write_us, spec_write_pid).        *)
LineCoherent ==
    /\ \A i \in DOMAIN line : line[i].what = "pid" => line[i].val = pid
    /\ at > 0 => \E t \in began .. now :
          \A i \in DOMAIN line :
              /\ line[i].what = "time" => line[i].val = Sec(t)
              /\ line[i].what \in {"ms", "us"} => line[i].val = Frac(t)

-----------------------------------------------------------------------------
(***************************************************************************)
(* log/log_buf.c: the buffer a message is formatted into.  It grows up to  *)
(* size_max; what does not fit is cut and the end overwritten by a mark.   *)
(* A string is a sequence of symbols: 1, 2, ... are its own characters,    *)
(* 0 and less are padding and the mark.                                    *)
(***************************************************************************)
CONSTANTS Sizes,      \* pairs of size_min and size_max, 0 for no limit
          Lens,       \* lengths of strings and of numbers
          Widths,     \* the widths of buf_adjust_append and of numbers
          MarkLen,    \* the length of truncate_str
          MaxLen      \* bound on the text without a limit

VARIABLES size_real, size_max, start, text,  \* struct log_buf; start: whether there is memory
          cut,        \* history: how the text was cut
          ideal       \* history: the text as if there were no limit

bufvars == <<size_real, size_max, start, text, cut, ideal>>

Zero == 0
Space == -1
Cut == -2
Mark == [i \in 1 .. MarkLen |-> Cut]
Pads(c, n) == [i \in 1 .. n |-> c]
Str(n) == [i \in 1 .. n |-> i]

BufTypeOK ==
    /\ size_real \in Nat /\ size_max \in Nat /\ start \in BOOLEAN
    /\ \A i \in DOMAIN text : text[i] \in Nat \cup {Zero, Space, Cut}
    /\ cut \in {"no", "append", "dec32"}

buf_create ==
    /\ \E s \in Sizes : size_real = s[1] /\ size_max = s[2]
    /\ start = TRUE /\ text = << >> /\ cut = "no" /\ ideal = << >>

BufInit == buf_create

(* The mark over the last characters; a shorter text has its beginning.    *)
buf_truncate(t) ==
    LET n == IF Len(t) < MarkLen THEN Len(t) ELSE MarkLen
    IN  SubSeq(t, 1, Len(t) - n) \o SubSeq(Mark, 1, n)

-----------------------------------------------------------------------------
(* buf_resize: whether the limit keeps the buffer from growing as asked,   *)
(* and the new size.                                                       *)
Limited(increment) == size_max # 0 /\ size_real + increment > size_max

NewSize(increment) ==
    IF size_max = 0 THEN size_real + (3 * increment) \div 2
    ELSE IF size_real + increment <= size_max THEN size_real + increment ELSE size_max

(* Mutant: the place of the final zero is not counted. *)
Missing_NoSeal(out) == Len(text) + Len(out) - size_real

(* How many bytes are missing: the last one is kept for the final zero.    *)
Missing(out) == Len(text) + Len(out) - (size_real - 1)

Fits(out) ==
    /\ Missing(out) <= 0
    /\ text' = text \o out
    /\ UNCHANGED <<size_real, start, cut>>

Grows(out) ==
    /\ Missing(out) > 0 /\ ~Limited(Missing(out))
    /\ size_real' = NewSize(Missing(out)) /\ text' = text \o out
    /\ UNCHANGED <<start, cut>>

(* Mutant: the limit's new memory is not used. *)
Cuts_Short(out) ==
    /\ Missing(out) > 0 /\ Limited(Missing(out))
    /\ size_real' = NewSize(Missing(out))
    /\ text' = buf_truncate(SubSeq(text \o out, 1, size_real - 1))
    /\ cut' = "append"
    /\ UNCHANGED start

Cuts(out) ==
    /\ Missing(out) > 0 /\ Limited(Missing(out))
    /\ size_real' = NewSize(Missing(out))
    /\ text' = buf_truncate(SubSeq(text \o out, 1, size_real' - 1))
    /\ cut' = "append"
    /\ UNCHANGED start

(* realloc fails: the buffer is gone.                                      *)
ReallocFails(out) ==
    /\ Missing(out) > 0 /\ NewSize(Missing(out)) > size_real
    /\ start' = FALSE /\ text' = << >>
    /\ UNCHANGED <<size_real, cut>>

Put(out) ==
    /\ start /\ cut = "no" /\ Len(text) + Len(out) <= MaxLen
    /\ Fits(out) \/ Grows(out) \/ Cuts(out) \/ ReallocFails(out)
    /\ ideal' = ideal \o out
    /\ UNCHANGED size_max

-----------------------------------------------------------------------------
buf_vprintf(n) == Put(Str(n))

buf_append(n) == n > 0 /\ Put(Str(n))

(* Padded with zeros to width.                                             *)
Number(n, width) == (IF width > n THEN Pads(Zero, width - n) ELSE << >>) \o Str(n)

buf_printf_dec64(n, width) == Put(Number(n, width))

buf_printf_hex(n, width) == Put(Number(n, width))

(* When the limit is met the tail stays where it was, and the mark         *)
(* overwrites what was there before.                                       *)
CutsBefore(out) ==
    /\ Missing(out) > 0 /\ Limited(Missing(out))
    /\ size_real' = NewSize(Missing(out)) /\ text' = buf_truncate(text) /\ cut' = "dec32"
    /\ UNCHANGED start

buf_printf_dec32(n, width) ==
    LET out == Number(n, width) IN
    /\ start /\ cut = "no" /\ Len(text) + Len(out) <= MaxLen
    /\ Fits(out) \/ Grows(out) \/ CutsBefore(out) \/ ReallocFails(out)
    /\ ideal' = ideal \o out
    /\ UNCHANGED size_max

(* At most out_width characters, padded to in_width.                       *)
Adjusted(n, left, zero, in_width, out_width) ==
    LET source == Str(IF out_width = 0 \/ n < out_width THEN n ELSE out_width)
        space == IF Len(source) >= in_width THEN 0 ELSE in_width - Len(source)
    IN  IF left THEN source \o Pads(Space, space)
        ELSE Pads(IF zero THEN Zero ELSE Space, space) \o source

buf_adjust_append(n, left, zero, in_width, out_width) ==
    n > 0 /\ Put(Adjusted(n, left, zero, in_width, out_width))

buf_restart ==
    /\ text' = << >> /\ cut' = "no" /\ ideal' = << >>
    /\ UNCHANGED <<size_real, size_max, start>>

BufNext ==
    \/ \E n \in Lens : buf_vprintf(n) \/ buf_append(n)
    \/ \E n \in Lens \ {0}, w \in Widths :
          buf_printf_dec32(n, w) \/ buf_printf_dec64(n, w) \/ buf_printf_hex(n, w)
    \/ \E n \in Lens, left, zero \in BOOLEAN, i, o \in Widths : buf_adjust_append(n, left, zero, i, o)
    \/ buf_restart

BufSpec == BufInit /\ [][BufNext]_bufvars

-----------------------------------------------------------------------------
(* There is always a byte left for the zero that buf_seal writes, and the  *)
(* buffer never grows past size_max (buf_resize).                          *)
SealFits == start => Len(text) < size_real /\ (size_max # 0 => size_real <= size_max)

(* The text is what was appended; if it had to be cut it is as long as the *)
(* limit allows and only the mark hides characters (buf_append and the     *)
(* others).  buf_printf_dec32 cuts without moving the tail: its text is    *)
(* shorter, yet still a beginning of what was appended under the mark.     *)
TextIsIdeal ==
    /\ (start /\ cut = "no") => text = ideal
    /\ (start /\ cut = "append") => text = buf_truncate(SubSeq(ideal, 1, size_max - 1))
    /\ (start /\ cut = "dec32") => \E n \in 0 .. Len(ideal) : text = buf_truncate(SubSeq(ideal, 1, n))
=============================================================================
