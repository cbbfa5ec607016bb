----------------------------- MODULE LogOutputs -----------------------------
(***************************************************************************)
(* The outputs of the log library that are no files: a TCP or UDP socket   *)
(* (sock_output.c), syslog (syslog_output.c), stdout and stderr            *)
(* (other_outputs.c) and a callback (user_output.c), one output at a time. *)
(*                                                                         *)
(* The bytes of the messages are numbered; sink is what the peer, the      *)
(* system log, the stream or the callback got.  send may take a part of    *)
(* the message, be interrupted, fail, or find the connection closed.       *)
(***************************************************************************)
EXTENDS Integers, Sequences, FiniteSets

CONSTANTS Types,        \* of {"tcp", "udp", "syslog", "stdout", "stderr", "user"}
          Lens,         \* lengths of the messages
          LOG_DEBUG,    \* the last level syslog knows
          MaxByte       \* bound: the bytes emitted to one output

VARIABLES type,         \* of the output that exists, "none" otherwise
          ctx,          \* output->ctx: "none", "live"
          sockfd,       \* the descriptor, -1 if there is none
          open,         \* the descriptors that are open
          ident,        \* syslog: who openlog points to: "none", "live", "freed"
          msg, total,   \* the message being sent: its first and last byte; bytes sent of it
          sink, levels, \* what arrived; the levels syslog was called with
          last,         \* history: bytes emitted
          accepted      \* history: the bytes that emit said it took

vars == <<type, ctx, sockfd, open, ident, msg, total, sink, levels, last, accepted>>
life == <<type, ctx, sockfd, open, ident>>

Socket == type \in {"tcp", "udp"}
NoMsg == <<0, 0>>
Idle == msg = NoMsg

TypeOK ==
    /\ type \in Types \cup {"none"} /\ ctx \in {"none", "live"}
    /\ sockfd \in {-1} \cup open /\ Cardinality(open) <= 1
    /\ ident \in {"none", "live", "freed"} /\ total \in 0 .. MaxByte
    /\ last \in 0 .. MaxByte

Init ==
    /\ type = "none" /\ ctx = "none" /\ sockfd = -1 /\ open = {} /\ ident = "none"
    /\ msg = NoMsg /\ total = 0 /\ sink = << >> /\ levels = {}
    /\ last = 0 /\ accepted = << >>

-----------------------------------------------------------------------------
(* Creating an output.  When sock_ctx_init fails it closes the socket and  *)
(* frees the context, and log_output_create frees the output.              *)

LeastFree == CHOOSE d \in 1 .. Cardinality(open) + 1 : d \notin open /\ \A c \in 1 .. d - 1 : c \in open

sock_ctx_init(t) ==
    /\ t \in {"tcp", "udp"}
    /\ \/ type' = t /\ ctx' = "live" /\ sockfd' = LeastFree /\ open' = open \cup {LeastFree}
       \/ UNCHANGED <<type, ctx, sockfd, open>>
    /\ UNCHANGED ident

syslog_ctx_init(t) ==
    /\ t = "syslog" /\ type' = t /\ ctx' = "live" /\ ident' = "live"
    /\ UNCHANGED <<sockfd, open>>

user_ctx_init(t) == t = "user" /\ type' = t /\ ctx' = "live" /\ UNCHANGED <<sockfd, open, ident>>
no_ctx_init(t) == t \in {"stdout", "stderr"} /\ type' = t /\ UNCHANGED <<ctx, sockfd, open, ident>>

Create(t) ==
    /\ type = "none"
    /\ sock_ctx_init(t) \/ syslog_ctx_init(t) \/ user_ctx_init(t) \/ no_ctx_init(t)
    /\ sink' = << >> /\ accepted' = << >> /\ levels' = {} /\ last' = 0
    /\ UNCHANGED <<msg, total>>

(* Mutant: the socket is left open. *)
sock_ctx_uninit_Leaves == Socket /\ ctx' = "none" /\ sockfd' = -1 /\ UNCHANGED <<open, ident>>

sock_ctx_uninit ==
    /\ Socket /\ ctx' = "none" /\ sockfd' = -1 /\ open' = open \ {sockfd}
    /\ UNCHANGED ident

(* The context of syslog is never freed; closelog forgets the ident.         *)
syslog_ctx_uninit ==
    /\ type = "syslog" /\ ctx' = "none" /\ ident' = "none"
    /\ UNCHANGED <<sockfd, open>>

user_ctx_uninit == type = "user" /\ ctx' = "none" /\ UNCHANGED <<sockfd, open, ident>>
no_ctx_uninit == type \in {"stdout", "stderr"} /\ UNCHANGED <<ctx, sockfd, open, ident>>

Destroy ==
    /\ type # "none" /\ Idle
    /\ sock_ctx_uninit \/ syslog_ctx_uninit \/ user_ctx_uninit \/ no_ctx_uninit
    /\ type' = "none"
    /\ UNCHANGED <<msg, total, sink, levels, last, accepted>>

-----------------------------------------------------------------------------
(* Emitting a message of n bytes.                                          *)

Message(n) == [i \in 1 .. n |-> last + i]
Room(n) == Idle /\ last + n <= MaxByte

SendBegin(n) ==
    /\ Socket /\ Room(n) /\ sockfd # -1
    /\ msg' = <<last + 1, last + n>> /\ total' = 0 /\ last' = last + n
    /\ UNCHANGED <<life, sink, levels, accepted>>

(* The connection was lost: nothing is sent any more.                      *)
SendRefused(n) ==
    /\ Socket /\ Room(n) /\ sockfd = -1 /\ last' = last + n
    /\ UNCHANGED <<life, msg, total, sink, levels, accepted>>

(* send takes k bytes; a datagram is taken whole.  EAGAIN and EINTR only   *)
(* go round the loop.                                                      *)
Sending == Socket /\ ~Idle
Rest == (msg[2] - msg[1]) + 1 - total
Sends(k) ==
    /\ Sending /\ k \in 1 .. Rest
    /\ type = "udp" => k = Rest
    /\ sink' = sink \o [i \in 1 .. k |-> (msg[1] + total + i) - 1]
    /\ total' = IF k = Rest THEN 0 ELSE total + k
    /\ msg' = IF k = Rest THEN NoMsg ELSE msg
    /\ accepted' = IF k = Rest THEN accepted \o [i \in 1 .. total + k |-> (msg[1] + i) - 1] ELSE accepted
    /\ UNCHANGED <<life, levels, last>>

(* Mutant: the socket stays after an error. *)
Closed_Stays == UNCHANGED <<sockfd, open>>

(* The socket is closed on an error and when the peer is gone.             *)
Closed == sockfd' = -1 /\ open' = open \ {sockfd}

SendFails ==
    /\ Sending /\ Closed
    /\ accepted' = accepted \o [i \in 1 .. total |-> (msg[1] + i) - 1]
    /\ msg' = NoMsg /\ total' = 0
    /\ UNCHANGED <<type, ctx, ident, sink, levels, last>>

(* fwrite of one item: whole or, as far as emit tells, not at all.         *)
StreamEmit(n) ==
    /\ Room(n) /\ last' = last + n
    /\ \/ sink' = sink \o Message(n) /\ accepted' = accepted \o Message(n)
       \/ \E k \in 0 .. n - 1 : sink' = sink \o SubSeq(Message(n), 1, k) /\ UNCHANGED accepted
    /\ UNCHANGED <<life, msg, total, levels>>
stdout_emit(n) == type = "stdout" /\ StreamEmit(n)
stderr_emit(n) == type = "stderr" /\ StreamEmit(n)

SyslogLevel(lvl) == IF lvl > LOG_DEBUG THEN LOG_DEBUG ELSE IF lvl < 0 THEN 0 ELSE lvl

syslog_emit(n, lvl) ==
    /\ type = "syslog" /\ Room(n) /\ last' = last + n
    /\ sink' = sink \o Message(n) /\ accepted' = accepted \o Message(n)
    /\ levels' = levels \cup {SyslogLevel(lvl)}
    /\ UNCHANGED <<life, msg, total>>

(* What the callback returns is what emit returns.                         *)
user_emit(n) ==
    /\ type = "user" /\ Room(n) /\ last' = last + n
    /\ \E k \in 0 .. n : /\ sink' = sink \o SubSeq(Message(n), 1, k)
                         /\ accepted' = accepted \o SubSeq(Message(n), 1, k)
    /\ UNCHANGED <<life, msg, total, levels>>

Emit(n) ==
    \/ SendBegin(n) \/ SendRefused(n)
    \/ stdout_emit(n) \/ stderr_emit(n) \/ user_emit(n)
    \/ \E lvl \in 0 .. LOG_DEBUG + 1 : syslog_emit(n, lvl)

Next ==
    \/ \E t \in Types : Create(t)
    \/ Destroy \/ \E n \in Lens : Emit(n)
    \/ \E k \in 1 .. MaxByte : Sends(k)
    \/ SendFails
Spec == Init /\ [][Next]_vars

-----------------------------------------------------------------------------
(* A peer gets what emit said it took and in order, and behind a message   *)
(* that was cut no byte of a later one (sock_emit closes the socket for    *)
(* good); the other outputs get at least what emit said it took.           *)
TakenArrives ==
    /\ \A i \in 1 .. Len(sink) - 1 : sink[i] < sink[i + 1]
    /\ Idle => {accepted[i] : i \in DOMAIN accepted} \subseteq {sink[i] : i \in DOMAIN sink}
    /\ Socket => \A i \in 1 .. Len(sink) - 1 : sink[i + 1] = sink[i] + 1

(* A descriptor is open exactly as long as a context names it: none is     *)
(* left behind by a failed call, a lost peer or the end of the output      *)
(* (sock_ctx_init, sock_emit, sock_ctx_uninit).                            *)
NoDescriptorLost == open = IF sockfd = -1 THEN {} ELSE {sockfd}

-----------------------------------------------------------------------------
(***************************************************************************)
(* log/simple_log.c: one handler with a rule for stdout and one for a      *)
(* file, each with a format and an output of its own, that are switched on *)
(* and off.  What the log library made is counted where it lives, in made; *)
(* each of its calls may fail.  A program switches the file on only after  *)
(* simple_log_init, which gives it its name.                               *)
(***************************************************************************)
CONSTANTS Levels

Which == {"stdout", "file"}
Parts == {"fmt", "output", "rule"}

VARIABLES handler,      \* g_simple_log_ctx.handler is set
          has,          \* has[w]: which of the fields of rules[w] are set
          level,        \* g_simple_log_ctx.level
          rule_level,   \* rule_level[w]: the level of the rule made for w
          named,        \* dir and log_name are set
          made,         \* the log library's objects: <<w, part>>
          default,      \* log_handler_set_default: "none", "live", "destroyed"
          broken        \* history: a call failed

simplevars == <<handler, has, level, rule_level, named, made, default, broken>>

SimpleTypeOK ==
    /\ handler \in BOOLEAN /\ has \in [Which -> SUBSET Parts] /\ named \in BOOLEAN
    /\ level \in Levels /\ rule_level \in [Which -> Levels] /\ made \subseteq Which \X Parts
    /\ default \in {"none", "live", "destroyed"} /\ broken \in BOOLEAN

SimpleInit ==
    /\ handler = FALSE /\ has = [w \in Which |-> {}] /\ level \in Levels
    /\ rule_level = [w \in Which |-> level] /\ named = FALSE /\ made = {} /\ default = "none"
    /\ broken = FALSE

(* simple_log_start: what is missing is made, in this order, up to the     *)
(* first that fails.  With a handler or without: a rule needs one.  The    *)
(* state s is [has, made, rule_level, broken].                             *)
Makes(s, w, part, lvl) ==
    [s EXCEPT !.has[w] = @ \cup {part}, !.made = @ \cup {<<w, part>>},
              !.rule_level[w] = IF part = "rule" THEN lvl ELSE @]
Fails(s) == [s EXCEPT !.broken = TRUE]
Getting(s, w, part, lvl) == IF part \in s.has[w] THEN {s} ELSE {Makes(s, w, part, lvl), Fails(s)}

simple_log_start(s, w, h, lvl) ==
    UNION {IF "fmt" \notin f.has[w] THEN {f}
           ELSE UNION {IF "output" \notin o.has[w] \/ ~h THEN {o} ELSE Getting(o, w, "rule", lvl)
                       : o \in Getting(f, w, "output", lvl)}
           : f \in Getting(s, w, "fmt", lvl)}

(* Mutant: the output is destroyed with the rule, the format is left. *)
simple_log_stop_Format(s, w) ==
    [s EXCEPT !.has[w] = {}, !.made = {m \in @ : m[1] # w \/ m[2] = "fmt"}]

simple_log_stop(s, w) == [s EXCEPT !.has[w] = {}, !.made = {m \in @ : m[1] # w}]

Ctx == [has |-> has, made |-> made, rule_level |-> rule_level, broken |-> broken]
Becomes(s) == has' = s.has /\ made' = s.made /\ rule_level' = s.rule_level /\ broken' = s.broken

(* simple_log_uninit; the rules of the handler are gone already.           *)
Stopped(s) == simple_log_stop(simple_log_stop(s, "stdout"), "file")

simple_log_uninit ==
    /\ Becomes(Stopped(Ctx))
    /\ named' = FALSE /\ handler' = FALSE
    /\ default' = IF handler /\ default = "live" THEN "destroyed" ELSE default
    /\ UNCHANGED level

(* A handler that was there is given up first, with all its rules.         *)
simple_log_init(lvl) ==
    LET s == IF handler THEN Stopped(Ctx) ELSE Ctx IN
    /\ level' = lvl
    /\ \/ /\ \E a \in simple_log_start(s, "stdout", TRUE, lvl) :
                \E b \in simple_log_start(a, "file", TRUE, lvl) : Becomes(b)
          /\ handler' = TRUE /\ named' = TRUE /\ default' = "live"
       \/ /\ Becomes(Fails(Stopped(s))) /\ handler' = FALSE /\ named' = FALSE
          /\ default' = IF handler /\ default = "live" THEN "destroyed" ELSE default

(* Mutant: only the rules are changed. *)
simple_log_set_level_Rules(lvl) ==
    /\ handler
    /\ rule_level' = [w \in Which |-> IF has[w] = Parts THEN lvl ELSE rule_level[w]]
    /\ UNCHANGED <<handler, has, level, named, made, default, broken>>

simple_log_set_level(lvl) ==
    /\ handler
    /\ rule_level' = [w \in Which |-> IF has[w] = Parts THEN lvl ELSE rule_level[w]]
    /\ level' = lvl
    /\ UNCHANGED <<handler, has, named, made, default, broken>>

simple_log_enable_stdout(enable) ==
    /\ IF enable THEN \E s \in simple_log_start(Ctx, "stdout", handler, level) : Becomes(s)
       ELSE Becomes(simple_log_stop(Ctx, "stdout"))
    /\ UNCHANGED <<handler, level, named, default>>

simple_log_enable_file(enable) ==
    /\ IF enable THEN named /\ \E s \in simple_log_start(Ctx, "file", handler, level) : Becomes(s)
       ELSE Becomes(simple_log_stop(Ctx, "file"))
    /\ UNCHANGED <<handler, level, named, default>>

SimpleNext ==
    \/ \E lvl \in Levels : simple_log_init(lvl) \/ simple_log_set_level(lvl)
    \/ simple_log_uninit
    \/ \E b \in BOOLEAN : simple_log_enable_stdout(b) \/ simple_log_enable_file(b)
SimpleSpec == SimpleInit /\ [][SimpleNext]_simplevars

-----------------------------------------------------------------------------
(* Whatever was switched on and off, failed or initialised again: nothing  *)
(* the library made is out of reach of the next call, a rule has its       *)
(* format, output and handler, and every rule has the level that was set   *)
(* last (simple_log_start, simple_log_stop, simple_log_set_level).         *)
SimpleSound ==
    /\ made = {m \in Which \X Parts : m[2] \in has[m[1]]}
    /\ \A w \in Which : "rule" \in has[w] => /\ has[w] = Parts /\ handler
                                             /\ rule_level[w] = level
    /\ handler => default = "live"
=============================================================================
