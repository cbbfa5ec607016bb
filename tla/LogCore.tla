------------------------------ MODULE LogCore -------------------------------
(***************************************************************************)
(* log/log.c: handlers, rules, formats and outputs, and the threads that   *)
(* print.  A rule sends what is printed through its handler to an output.  *)
(* log_vprintf holds the handler's mutex; the other calls hold none, and   *)
(* their callers are taken to keep these rules: what a thread is printing  *)
(* through is not changed, a format or output is destroyed after the rules *)
(* that use it, and the rules for one output belong to one handler.        *)
(***************************************************************************)
EXTENDS Integers, Sequences, FiniteSets

CONSTANTS Idents,       \* the identities of handlers
          Rules, Formats, Outputs, Threads,
          None,
          LOG_VERBOSE,  \* the highest level; LOG_EMERG is the lowest
          Bounds,       \* the level_begin and level_end that callers pass
          MaxPrint      \* bound on the messages

LogAssumption ==
    /\ IsFiniteSet(Rules) /\ LOG_VERBOSE \in Nat /\ MaxPrint \in Nat
    /\ None \notin Idents \cup Threads \cup Formats \cup Outputs

LOG_EMERG == 0
Levels == LOG_EMERG .. LOG_VERBOSE

VARIABLES handlers, formats, outputs,  \* handler_header, format_header, output_header
          rule_header,          \* the rules that exist
          rules,                \* each handler's rules
          rule,                 \* each rule: handler, format, output, level_begin, level_end
          count,                \* each output's stat.count_total
          mutex,                \* who holds each handler's mutex
          pc, at, level, r, saw,\* each thread in log_vprintf: handler, level, place in rules, count read
          emitted, printed      \* history: successful emits of each output; messages begun

lists == <<handlers, formats, outputs, rule_header, rules, rule>>
threads == <<pc, at, level, r, saw>>
vars == <<lists, count, mutex, threads, emitted, printed>>

NoRule == [handler |-> None, format |-> None, output |-> None,
           level_begin |-> LOG_EMERG, level_end |-> LOG_EMERG]
RuleType == [handler : Idents \cup {None}, format : Formats \cup {None},
             output : Outputs \cup {None}, level_begin : Levels, level_end : Levels]

TypeOK ==
    /\ handlers \subseteq Idents /\ formats \subseteq Formats /\ outputs \subseteq Outputs
    /\ rule_header \subseteq Rules /\ rule \in [Rules -> RuleType]
    /\ rules \in [Idents -> Seq(Rules)]
    /\ count \in [Outputs -> Nat] /\ emitted \in [Outputs -> Nat] /\ printed \in 0 .. MaxPrint
    /\ mutex \in [Idents -> Threads \cup {None}]
    /\ pc \in [Threads -> {"idle", "lock", "rules", "emit", "count"}]
    /\ at \in [Threads -> Idents \cup {None}] /\ level \in [Threads -> Levels]
    /\ r \in [Threads -> Nat] /\ saw \in [Threads -> Nat]

Init ==
    /\ handlers = {} /\ formats = {} /\ outputs = {} /\ rule_header = {}
    /\ rules = [h \in Idents |-> << >>] /\ rule = [x \in Rules |-> NoRule]
    /\ count = [o \in Outputs |-> 0] /\ emitted = [o \in Outputs |-> 0] /\ printed = 0
    /\ mutex = [h \in Idents |-> None]
    /\ pc = [t \in Threads |-> "idle"] /\ at = [t \in Threads |-> None]
    /\ level = [t \in Threads |-> LOG_EMERG] /\ r = [t \in Threads |-> 0]
    /\ saw = [t \in Threads |-> 0]

Busy(h) == \E t \in Threads : at[t] = h
Used(f) == \E x \in rule_header : rule[x].format = f \/ rule[x].output = f

(* list_del: the list s without its element x.                             *)
Without(s, x) ==
    LET i == CHOOSE j \in 1 .. Len(s) : s[j] = x
    IN  [k \in 1 .. Len(s) - 1 |-> IF k < i THEN s[k] ELSE s[k + 1]]

-----------------------------------------------------------------------------
log_handler_create(h) ==
    /\ handlers' = handlers \cup {h}
    /\ rules' = IF h \in handlers THEN rules ELSE [rules EXCEPT ![h] = << >>]
    /\ UNCHANGED <<formats, outputs, rule_header, rule, count, mutex, threads, emitted, printed>>

(* Mutant: the handler's rules stay in the list of all rules. *)
log_handler_destroy_Keeps(h) ==
    /\ h \in handlers /\ ~Busy(h)
    /\ handlers' = handlers \ {h} /\ rules' = [rules EXCEPT ![h] = << >>]
    /\ UNCHANGED <<formats, outputs, rule_header, rule, count, mutex, threads, emitted, printed>>

log_handler_destroy(h) ==
    LET gone == {x \in Rules : rule[x].handler = h} IN
    /\ h \in handlers /\ ~Busy(h)
    /\ handlers' = handlers \ {h} /\ rules' = [rules EXCEPT ![h] = << >>]
    /\ rule_header' = rule_header \ gone
    /\ rule' = [x \in Rules |-> IF x \in gone THEN NoRule ELSE rule[x]]
    /\ UNCHANGED <<formats, outputs, count, mutex, threads, emitted, printed>>

log_format_create(f) ==
    /\ f \notin formats /\ formats' = formats \cup {f}
    /\ UNCHANGED <<handlers, outputs, rule_header, rules, rule, count, mutex, threads, emitted, printed>>

log_format_destroy(f) ==
    /\ f \in formats /\ ~Used(f) /\ formats' = formats \ {f}
    /\ UNCHANGED <<handlers, outputs, rule_header, rules, rule, count, mutex, threads, emitted, printed>>

log_output_create(o) ==
    /\ o \notin outputs /\ outputs' = outputs \cup {o}
    /\ count' = [count EXCEPT ![o] = 0] /\ emitted' = [emitted EXCEPT ![o] = 0]
    /\ UNCHANGED <<handlers, formats, rule_header, rules, rule, mutex, threads, printed>>

log_output_destroy(o) ==
    /\ o \in outputs /\ ~Used(o) /\ outputs' = outputs \ {o}
    /\ UNCHANGED <<handlers, formats, rule_header, rules, rule, count, mutex, threads, emitted, printed>>

-----------------------------------------------------------------------------
(* An end of the range that is no level means all of them.                 *)
Begin(b) == IF b \in Levels THEN b ELSE LOG_VERBOSE
End(e) == IF e \in Levels THEN e ELSE LOG_EMERG

log_rule_set_level(x, b, e) ==
    /\ x \in rule_header /\ ~Busy(rule[x].handler)
    /\ rule' = [rule EXCEPT ![x].level_begin = Begin(b), ![x].level_end = End(e)]
    /\ UNCHANGED <<handlers, formats, outputs, rule_header, rules, count, mutex, threads, emitted, printed>>

log_rule_create(x, h, f, o, b, e) ==
    /\ x \notin rule_header /\ h \in handlers /\ f \in formats /\ o \in outputs
    /\ ~Busy(h) /\ \A y \in rule_header : rule[y].output = o => rule[y].handler = h
    /\ rule' = [rule EXCEPT ![x] = [handler |-> h, format |-> f, output |-> o,
                                    level_begin |-> Begin(b), level_end |-> End(e)]]
    /\ rule_header' = rule_header \cup {x}
    /\ rules' = [rules EXCEPT ![h] = Append(@, x)]
    /\ UNCHANGED <<handlers, formats, outputs, count, mutex, threads, emitted, printed>>

log_rule_destroy(x) ==
    LET h == rule[x].handler IN
    /\ x \in rule_header /\ ~Busy(h)
    /\ rules' = [rules EXCEPT ![h] = Without(@, x)]
    /\ rule_header' = rule_header \ {x} /\ rule' = [rule EXCEPT ![x] = NoRule]
    /\ UNCHANGED <<handlers, formats, outputs, count, mutex, threads, emitted, printed>>

log_cleanup ==
    /\ \A h \in Idents : ~Busy(h)
    /\ handlers' = {} /\ formats' = {} /\ outputs' = {} /\ rule_header' = {}
    /\ rules' = [h \in Idents |-> << >>] /\ rule' = [x \in Rules |-> NoRule]
    /\ UNCHANGED <<count, mutex, threads, emitted, printed>>

-----------------------------------------------------------------------------
(* log_vprintf by thread t                                                 *)

Goto(t, from, to) == pc[t] = from /\ pc' = [pc EXCEPT ![t] = to]
Clamp(lvl) == IF lvl > LOG_VERBOSE THEN LOG_VERBOSE ELSE IF lvl < LOG_EMERG THEN LOG_EMERG ELSE lvl

Call(t, h, lvl) ==
    /\ h \in handlers /\ printed < MaxPrint /\ Goto(t, "idle", "lock")
    /\ at' = [at EXCEPT ![t] = h] /\ level' = [level EXCEPT ![t] = Clamp(lvl)]
    /\ printed' = printed + 1
    /\ UNCHANGED <<lists, count, mutex, r, saw, emitted>>

(* Mutant: the mutex is not waited for. *)
Lock_Free(t) ==
    /\ Goto(t, "lock", "rules")
    /\ r' = [r EXCEPT ![t] = 1]
    /\ UNCHANGED <<lists, count, mutex, at, level, saw, emitted, printed>>

Lock(t) ==
    /\ Goto(t, "lock", "rules") /\ mutex[at[t]] = None
    /\ mutex' = [mutex EXCEPT ![at[t]] = t] /\ r' = [r EXCEPT ![t] = 1]
    /\ UNCHANGED <<lists, count, at, level, saw, emitted, printed>>

Rule(t) == rules[at[t]][r[t]]
More(t) == r[t] <= Len(rules[at[t]])
Matches(x, lvl) == rule[x].level_begin >= lvl /\ rule[x].level_end <= lvl

(* The rule does not apply, or the message formats to nothing.             *)
Skip(t) ==
    /\ pc[t] = "rules" /\ More(t)
    /\ r' = [r EXCEPT ![t] = @ + 1]
    /\ UNCHANGED <<lists, count, mutex, pc, at, level, saw, emitted, printed>>

Format(t) ==
    /\ Goto(t, "rules", "emit") /\ More(t) /\ Matches(Rule(t), level[t])
    /\ UNCHANGED <<lists, count, mutex, at, level, r, saw, emitted, printed>>

Emit(t) ==
    LET o == rule[Rule(t)].output IN
    \/ /\ Goto(t, "emit", "count")
       /\ saw' = [saw EXCEPT ![t] = count[o]] /\ emitted' = [emitted EXCEPT ![o] = @ + 1]
       /\ UNCHANGED <<lists, count, mutex, at, level, r, printed>>
    \/ /\ Goto(t, "emit", "rules") /\ r' = [r EXCEPT ![t] = @ + 1]
       /\ UNCHANGED <<lists, count, mutex, at, level, saw, emitted, printed>>

Count(t) ==
    /\ Goto(t, "count", "rules")
    /\ count' = [count EXCEPT ![rule[Rule(t)].output] = saw[t] + 1]
    /\ saw' = [saw EXCEPT ![t] = 0] /\ r' = [r EXCEPT ![t] = @ + 1]
    /\ UNCHANGED <<lists, mutex, at, level, emitted, printed>>

Unlock(t) ==
    /\ Goto(t, "rules", "idle") /\ ~More(t)
    /\ mutex' = [mutex EXCEPT ![at[t]] = None]
    /\ at' = [at EXCEPT ![t] = None] /\ level' = [level EXCEPT ![t] = LOG_EMERG]
    /\ r' = [r EXCEPT ![t] = 0]
    /\ UNCHANGED <<lists, count, saw, emitted, printed>>

Manage ==
    \/ \E h \in Idents : log_handler_create(h) \/ log_handler_destroy(h)
    \/ \E f \in Formats : log_format_create(f) \/ log_format_destroy(f)
    \/ \E o \in Outputs : log_output_create(o) \/ log_output_destroy(o)
    \/ \E x \in Rules, b, e \in Bounds :
          \/ log_rule_set_level(x, b, e)
          \/ \E h \in Idents, f \in Formats, o \in Outputs : log_rule_create(x, h, f, o, b, e)
    \/ \E x \in Rules : log_rule_destroy(x)
    \/ log_cleanup

Printing(t) ==
    \/ \E h \in Idents, lvl \in LOG_EMERG - 1 .. LOG_VERBOSE + 1 : Call(t, h, lvl)
    \/ Lock(t) \/ Skip(t) \/ Format(t) \/ Emit(t) \/ Count(t) \/ Unlock(t)

Next == Manage \/ \E t \in Threads : Printing(t)

Spec == Init /\ [][Next]_vars

-----------------------------------------------------------------------------
(* The two lists a rule is in agree: a rule is in the list of all rules    *)
(* exactly if it is, once, in the list of its own handler, which exists,   *)
(* and its format and output exist (log_rule_create, log_rule_destroy,     *)
(* log_handler_destroy, log_cleanup).                                      *)
RulesLinked ==
    /\ \A h \in Idents : rules[h] # << >> => h \in handlers
    /\ \A x \in Rules :
          Cardinality({p \in Idents \X (1 .. Cardinality(Rules)) :
                          p[2] <= Len(rules[p[1]]) /\ rules[p[1]][p[2]] = x})
              = IF x \in rule_header THEN 1 ELSE 0
    /\ \A x \in rule_header :
          /\ \E i \in DOMAIN rules[rule[x].handler] : rules[rule[x].handler][i] = x
          /\ rule[x].format \in formats /\ rule[x].output \in outputs

(* The statistics count every successful emit although the counters are    *)
(* not atomic: the handler's mutex covers them (log_vprintf).              *)
StatExact ==
    \A o \in Outputs :
        (\A t \in Threads : pc[t] = "count" => rule[Rule(t)].output # o) => count[o] = emitted[o]

(* No two threads are in the emit of one output, whose context has no lock *)
(* of its own (log_vprintf).                                               *)
OneEmitter ==
    \A s, t \in Threads :
        (pc[s] = "emit" /\ pc[t] = "emit" /\ rule[Rule(s)].output = rule[Rule(t)].output) => s = t

(* A rule is in the list of all rules exactly if it is in its handler's,   *)
(* and what it refers to exists (log_rule_create, log_handler_destroy); at *)
(* most one thread is in the emit of an output, and the statistics miss no *)
(* emit (log_vprintf).                                                     *)
RulesAndStatistics == RulesLinked /\ OneEmitter /\ StatExact
=============================================================================
