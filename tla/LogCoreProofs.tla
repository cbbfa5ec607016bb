---------------------------- MODULE LogCoreProofs ---------------------------
(***************************************************************************)
(* Proofs about LogCore for any number of handlers, rules, outputs and     *)
(* threads: the lists of rules agree, and the one mutex of a handler makes *)
(* the statistics exact and the emits of an output exclusive.              *)
(***************************************************************************)
EXTENDS LogCore, FiniteSetTheorems, TLAPS

(* A thread that prints holds its handler's mutex, its handler exists, and *)
(* the rule it is at is in the handler's list.                             *)
Printers ==
    \A t \in Threads :
        /\ IF pc[t] = "idle" THEN at[t] = None ELSE at[t] \in handlers
        /\ pc[t] \in {"rules", "emit", "count"} => mutex[at[t]] = t /\ r[t] >= 1
        /\ pc[t] \in {"emit", "count"} => More(t)

(* The rules that exist are those in the lists of their handlers, once     *)
(* each, and an output has the rules of one handler only.                  *)
Listed ==
    /\ \A h \in Idents : \A i \in 1 .. Len(rules[h]) :
          rules[h][i] \in rule_header /\ rule[rules[h][i]].handler = h
    /\ \A h \in Idents : \A i, j \in 1 .. Len(rules[h]) : rules[h][i] = rules[h][j] => i = j
    /\ \A x \in rule_header :
          /\ rule[x].handler \in handlers
          /\ rule[x].format \in formats /\ rule[x].output \in outputs
          /\ \E i \in 1 .. Len(rules[rule[x].handler]) : rules[rule[x].handler][i] = x
    /\ \A x, y \in rule_header : rule[x].output = rule[y].output => rule[x].handler = rule[y].handler

Out(t) == rule[Rule(t)].output

(* Between the emit and the counting of it the counter is one behind.      *)
Counted ==
    /\ StatExact
    /\ \A t \in Threads : pc[t] = "count" =>
          saw[t] = count[Out(t)] /\ emitted[Out(t)] = count[Out(t)] + 1

IInv == TypeOK /\ Printers /\ Listed /\ Counted
-----------------------------------------------------------------------------
(* What list_del leaves of a list without repetitions.                     *)
LEMMA Removed ==
    ASSUME NEW S, NEW s \in Seq(S), NEW i \in 1 .. Len(s),
           \A j, k \in 1 .. Len(s) : s[j] = s[k] => j = k
    PROVE  /\ Without(s, s[i]) \in Seq(S) /\ Len(Without(s, s[i])) = Len(s) - 1
           /\ \A k \in 1 .. Len(s) - 1 : Without(s, s[i])[k] = IF k < i THEN s[k] ELSE s[k + 1]
<1>1. (CHOOSE j \in 1 .. Len(s) : s[j] = s[i]) = i
  OBVIOUS
<1>. DEFINE u == [k \in 1 .. Len(s) - 1 |-> IF k < i THEN s[k] ELSE s[k + 1]]
<1>2. Without(s, s[i]) = u
  BY <1>1 DEF Without
<1>3. Len(s) - 1 \in Nat /\ \A k \in 1 .. Len(s) - 1 : u[k] \in S
  OBVIOUS
<1>4. u \in Seq(S) /\ Len(u) = Len(s) - 1
  BY <1>3
<1>. QED  BY <1>2, <1>4

(* The place of an element is kept, or moves down by one.                  *)
LEMMA StillThere ==
    ASSUME NEW S, NEW s \in Seq(S), NEW i \in 1 .. Len(s), NEW j \in 1 .. Len(s), i # j,
           \A m, k \in 1 .. Len(s) : s[m] = s[k] => m = k
    PROVE  \E k \in 1 .. Len(Without(s, s[i])) : Without(s, s[i])[k] = s[j]
<1>1. CASE j < i
  <2>1. j \in 1 .. Len(s) - 1
    BY <1>1
  <2>. QED  BY <1>1, <2>1, Removed, Zenon
<1>2. CASE j > i
  <2>1. j - 1 \in 1 .. Len(s) - 1 /\ ~(j - 1 < i) /\ (j - 1) + 1 = j
    BY <1>2
  <2>2. Without(s, s[i])[j - 1] = s[j]
    BY <2>1, Removed, Zenon
  <2>3. j - 1 \in 1 .. Len(Without(s, s[i]))
    BY <2>1, Removed
  <2>. QED  BY <2>2, <2>3
<1>. QED  BY <1>1, <1>2

(* The initial state, before any call.                                     *)
LEMMA InitIInv == ASSUME LogAssumption  PROVE Init => IInv
<1>. SUFFICES ASSUME Init  PROVE IInv
  OBVIOUS
<1>1. << >> \in Seq(Rules) /\ Len(<< >>) = 0
  OBVIOUS
<1>2. NoRule \in RuleType
  BY DEF LogAssumption, NoRule, RuleType, Levels, LOG_EMERG
<1>3. TypeOK
  BY <1>1, <1>2 DEF Init, TypeOK, LogAssumption, Levels, LOG_EMERG
<1>4. Printers
  BY DEF Init, Printers
<1>5. Listed
  BY <1>1 DEF Init, Listed
<1>6. Counted
  BY DEF Init, Counted, StatExact
<1>. QED  BY <1>3, <1>4, <1>5, <1>6 DEF IInv

-----------------------------------------------------------------------------
(* log_rule_create and log_rule_set_level store a range of levels.         *)
LEMMA LevelRange ==
    ASSUME LogAssumption, NEW b \in Bounds, NEW e \in Bounds
    PROVE  Begin(b) \in Levels /\ End(e) \in Levels
<1>1. LOG_VERBOSE \in Levels /\ LOG_EMERG \in Levels
  BY DEF LogAssumption, Levels, LOG_EMERG
<1>. QED  BY <1>1 DEF Begin, End

(* What the calls that manage rules, formats, outputs and handlers do to   *)
(* the types of the lists.                                                 *)
LEMMA ManageType == ASSUME LogAssumption, IInv, Manage  PROVE TypeOK'
<1>0. TypeOK /\ Listed /\ NoRule \in RuleType /\ << >> \in Seq(Rules)
  <2>1. << >> \in Seq(Rules)
    OBVIOUS
  <2>. QED  BY <2>1 DEF IInv, LogAssumption, NoRule, RuleType, Levels, LOG_EMERG
<1>1. ASSUME NEW h \in Idents, log_handler_create(h)  PROVE TypeOK'
  BY <1>0, <1>1 DEF log_handler_create, TypeOK, threads
<1>2. ASSUME NEW h \in Idents, log_handler_destroy(h)  PROVE TypeOK'
  BY <1>0, <1>2 DEF log_handler_destroy, TypeOK, threads
<1>3. ASSUME NEW f \in Formats, log_format_create(f) \/ log_format_destroy(f)  PROVE TypeOK'
  BY <1>0, <1>3 DEF log_format_create, log_format_destroy, TypeOK, threads
<1>4. ASSUME NEW o \in Outputs, log_output_create(o) \/ log_output_destroy(o)  PROVE TypeOK'
  BY <1>0, <1>4 DEF log_output_create, log_output_destroy, TypeOK, threads
<1>5. ASSUME NEW x \in Rules, NEW b \in Bounds, NEW e \in Bounds, log_rule_set_level(x, b, e)
      PROVE  TypeOK'
  <2>1. rule' \in [Rules -> RuleType]
    BY <1>0, <1>5, LevelRange, Zenon DEF log_rule_set_level, TypeOK, RuleType
  <2>. QED  BY <1>0, <1>5, <2>1 DEF log_rule_set_level, TypeOK, threads
<1>6. ASSUME NEW x \in Rules, NEW b \in Bounds, NEW e \in Bounds,
             NEW h \in Idents, NEW f \in Formats, NEW o \in Outputs, log_rule_create(x, h, f, o, b, e)
      PROVE  TypeOK'
  <2>1. rule' \in [Rules -> RuleType]
    BY <1>0, <1>6, LevelRange DEF log_rule_create, TypeOK, RuleType
  <2>2. rules' \in [Idents -> Seq(Rules)]
    BY <1>0, <1>6 DEF log_rule_create, TypeOK
  <2>. QED  BY <1>0, <1>6, <2>1, <2>2 DEF log_rule_create, TypeOK, threads
<1>7. ASSUME NEW x \in Rules, log_rule_destroy(x)  PROVE TypeOK'
  <2>. DEFINE h == rule[x].handler
  <2>1. h \in Idents /\ rules[h] \in Seq(Rules)
    BY <1>0, <1>7 DEF log_rule_destroy, Listed, TypeOK
  <2>2. PICK i \in 1 .. Len(rules[h]) : rules[h][i] = x
    BY <1>0, <1>7 DEF log_rule_destroy, Listed
  <2>3. \A j, k \in 1 .. Len(rules[h]) : rules[h][j] = rules[h][k] => j = k
    BY <1>0, <2>1 DEF Listed
  <2>4. Without(rules[h], x) \in Seq(Rules)
    BY <2>1, <2>2, <2>3, Removed, Zenon
  <2>5. rules' \in [Idents -> Seq(Rules)]
    BY <1>0, <1>7, <2>4, Zenon DEF log_rule_destroy, TypeOK
  <2>. QED  BY <1>0, <1>7, <2>5 DEF log_rule_destroy, TypeOK, threads
<1>8. ASSUME log_cleanup  PROVE TypeOK'
  BY <1>0, <1>8 DEF log_cleanup, TypeOK, threads
<1>. QED
  BY <1>1, <1>2, <1>3, <1>4, <1>5, <1>6, <1>7, <1>8 DEF Manage
(* The lists of rules agree after each call that manages them.             *)
LEMMA ManageListed == ASSUME LogAssumption, IInv, Manage  PROVE Listed'
<1>0. /\ Listed /\ handlers \subseteq Idents /\ rule_header \subseteq Rules
      /\ rule \in [Rules -> RuleType] /\ rules \in [Idents -> Seq(Rules)]
      /\ Len(<< >>) = 0 /\ None \notin Idents
  BY DEF IInv, TypeOK, LogAssumption
<1>1. ASSUME NEW h \in Idents, log_handler_create(h)  PROVE Listed'
  <2>1. CASE h \in handlers
    BY <1>0, <1>1, <2>1 DEF log_handler_create, Listed
  <2>2. CASE h \notin handlers
    <3>1. Len(rules[h]) = 0
      BY <1>0, <2>2 DEF Listed
    <3>2. rules[h] = << >>
      BY <1>0, <3>1
    <3>3. rules' = rules
      BY <1>0, <1>1, <2>2, <3>2 DEF log_handler_create
    <3>. QED  BY <1>0, <1>1, <3>3 DEF log_handler_create, Listed
  <2>. QED  BY <2>1, <2>2
<1>2. ASSUME NEW h \in Idents, log_handler_destroy(h)  PROVE Listed'
  <2>1. /\ handlers' = handlers \ {h} /\ UNCHANGED <<formats, outputs>>
        /\ rules' = [rules EXCEPT ![h] = << >>]
        /\ rule_header' = {x \in rule_header : rule[x].handler # h}
        /\ \A x \in rule_header' : rule'[x] = rule[x]
    BY <1>0, <1>2 DEF log_handler_destroy
  <2>2. /\ rules'[h] = << >> /\ \A g \in Idents \ {h} : rules'[g] = rules[g]
    BY <1>0, <2>1
  <2>3. \A g \in Idents : \A i \in 1 .. Len(rules'[g]) :
           rules'[g][i] \in rule_header' /\ rule'[rules'[g][i]].handler = g
    BY <1>0, <2>1, <2>2 DEF Listed
  <2>4. \A g \in Idents : \A i, j \in 1 .. Len(rules'[g]) : rules'[g][i] = rules'[g][j] => i = j
    BY <1>0, <2>2 DEF Listed
  <2>5. ASSUME NEW x \in rule_header'
        PROVE  /\ rule'[x].handler \in handlers'
               /\ rule'[x].format \in formats' /\ rule'[x].output \in outputs'
               /\ \E i \in 1 .. Len(rules'[rule'[x].handler]) : rules'[rule'[x].handler][i] = x
    BY <1>0, <2>1, <2>2, <2>5 DEF Listed
  <2>6. \A x, y \in rule_header' : rule'[x].output = rule'[y].output
                                      => rule'[x].handler = rule'[y].handler
    BY <1>0, <2>1 DEF Listed
  <2>. QED  BY <2>3, <2>4, <2>5, <2>6 DEF Listed
<1>3. ASSUME NEW f \in Formats, log_format_create(f) \/ log_format_destroy(f)  PROVE Listed'
  BY <1>0, <1>3 DEF log_format_create, log_format_destroy, Listed, Used
<1>4. ASSUME NEW o \in Outputs, log_output_create(o) \/ log_output_destroy(o)  PROVE Listed'
  BY <1>0, <1>4 DEF log_output_create, log_output_destroy, Listed, Used
<1>5. ASSUME NEW x \in Rules, NEW b \in Bounds, NEW e \in Bounds, log_rule_set_level(x, b, e)
      PROVE  Listed'
  <2>1. \A y \in Rules : /\ rule'[y].handler = rule[y].handler /\ rule'[y].format = rule[y].format
                         /\ rule'[y].output = rule[y].output
    BY <1>0, <1>5 DEF log_rule_set_level, RuleType
  <2>2. UNCHANGED <<handlers, formats, outputs, rule_header, rules>>
    BY <1>5 DEF log_rule_set_level
  <2>3. \A g \in Idents : \A i \in 1 .. Len(rules[g]) : rules[g][i] \in Rules
    BY <1>0
  <2>. QED  BY <1>0, <2>1, <2>2, <2>3 DEF Listed
<1>6. ASSUME NEW x \in Rules, NEW b \in Bounds, NEW e \in Bounds,
             NEW h \in Idents, NEW f \in Formats, NEW o \in Outputs, log_rule_create(x, h, f, o, b, e)
      PROVE  Listed'
  <2>. DEFINE n == Len(rules[h])
  <2>1. /\ x \notin rule_header /\ h \in handlers /\ f \in formats /\ o \in outputs
        /\ \A y \in rule_header : rule[y].output = o => rule[y].handler = h
        /\ rule'[x].handler = h /\ rule'[x].format = f /\ rule'[x].output = o
        /\ \A y \in rule_header : rule'[y] = rule[y]
        /\ rule_header' = rule_header \cup {x}
        /\ UNCHANGED <<handlers, formats, outputs>>
    BY <1>0, <1>6 DEF log_rule_create
  <2>2. /\ n \in Nat /\ Len(rules'[h]) = n + 1 /\ rules'[h][n + 1] = x
        /\ \A i \in 1 .. n : rules'[h][i] = rules[h][i]
        /\ \A g \in Idents \ {h} : rules'[g] = rules[g]
    BY <1>0, <1>6 DEF log_rule_create
  <2>. HIDE DEF n
  <2>3. \A i \in 1 .. n : rules[h][i] \in rule_header /\ rules[h][i] # x
    BY <1>0, <2>1 DEF Listed, n
  <2>4. \A g \in Idents : \A i \in 1 .. Len(rules'[g]) :
           rules'[g][i] \in rule_header' /\ rule'[rules'[g][i]].handler = g
    <3>1. \A i \in 1 .. n : rule[rules[h][i]].handler = h
      BY <1>0 DEF Listed, n
    <3>2. \A i \in 1 .. Len(rules'[h]) : i \in 1 .. n \/ i = n + 1
      BY <2>2
    <3>3. \A i \in 1 .. Len(rules'[h]) :
             rules'[h][i] \in rule_header' /\ rule'[rules'[h][i]].handler = h
      BY <2>1, <2>2, <2>3, <3>1, <3>2
    <3>. QED  BY <1>0, <2>1, <2>2, <3>3 DEF Listed
  <2>5. \A g \in Idents : \A i, j \in 1 .. Len(rules'[g]) : rules'[g][i] = rules'[g][j] => i = j
    <3>1. \A i, j \in 1 .. n : rules[h][i] = rules[h][j] => i = j
      BY <1>0 DEF Listed, n
    <3>2. \A i, j \in 1 .. Len(rules'[h]) : rules'[h][i] = rules'[h][j] => i = j
      BY <2>2, <2>3, <3>1
    <3>. QED  BY <1>0, <2>2, <3>2 DEF Listed
  <2>6. ASSUME NEW y \in rule_header'
        PROVE  /\ rule'[y].handler \in handlers'
               /\ rule'[y].format \in formats' /\ rule'[y].output \in outputs'
               /\ \E i \in 1 .. Len(rules'[rule'[y].handler]) : rules'[rule'[y].handler][i] = y
    <3>1. CASE y = x
      <4>1. n + 1 \in 1 .. Len(rules'[h])
        BY <2>2
      <4>. QED  BY <2>1, <2>2, <3>1, <4>1
    <3>2. CASE y \in rule_header
      <4>1. /\ rule[y].handler \in handlers /\ rule[y].handler \in Idents
            /\ rule[y].format \in formats /\ rule[y].output \in outputs
            /\ rule'[y] = rule[y]
        BY <1>0, <2>1, <3>2 DEF Listed
      <4>2. PICK i \in 1 .. Len(rules[rule[y].handler]) : rules[rule[y].handler][i] = y
        BY <1>0, <3>2 DEF Listed
      <4>3. CASE rule[y].handler = h
        <5>1. i \in 1 .. n /\ rules[h][i] = y
          BY <4>2, <4>3 DEF n
        <5>2. i \in 1 .. Len(rules'[h]) /\ rules'[h][i] = y
          BY <2>2, <5>1
        <5>. QED  BY <2>1, <4>1, <4>3, <5>2
      <4>4. CASE rule[y].handler # h
        BY <2>1, <2>2, <4>1, <4>2, <4>4
      <4>. QED  BY <4>3, <4>4
    <3>. QED  BY <2>1, <3>1, <3>2
  <2>7. \A y, z \in rule_header' : rule'[y].output = rule'[z].output
                                      => rule'[y].handler = rule'[z].handler
    BY <1>0, <2>1 DEF Listed
  <2>. QED  BY <2>4, <2>5, <2>6, <2>7 DEF Listed
<1>7. ASSUME NEW x \in Rules, log_rule_destroy(x)  PROVE Listed'
  <2>. DEFINE h == rule[x].handler
  <2>1. h \in Idents /\ rules[h] \in Seq(Rules) /\ x \in rule_header
    BY <1>0, <1>7 DEF log_rule_destroy, Listed
  <2>2. PICK i \in 1 .. Len(rules[h]) : rules[h][i] = x
    BY <1>0, <1>7 DEF log_rule_destroy, Listed
  <2>3. \A j, k \in 1 .. Len(rules[h]) : rules[h][j] = rules[h][k] => j = k
    BY <1>0, <2>1 DEF Listed
  <2>4. /\ UNCHANGED <<handlers, formats, outputs>> /\ rule_header' = rule_header \ {x}
        /\ \A y \in rule_header' : rule'[y] = rule[y]
        /\ rules'[h] = Without(rules[h], x)
        /\ \A g \in Idents \ {h} : rules'[g] = rules[g]
    BY <1>0, <1>7, <2>1 DEF log_rule_destroy
  <2>5. /\ Len(rules[h]) \in Nat /\ Len(rules'[h]) = Len(rules[h]) - 1
        /\ \A k \in 1 .. Len(rules'[h]) : rules'[h][k] = IF k < i THEN rules[h][k] ELSE rules[h][k + 1]
    <3>1. /\ Len(Without(rules[h], rules[h][i])) = Len(rules[h]) - 1
          /\ \A k \in 1 .. Len(rules[h]) - 1 : Without(rules[h], rules[h][i])[k]
                                                  = IF k < i THEN rules[h][k] ELSE rules[h][k + 1]
      BY <2>1, <2>2, <2>3, Removed, Zenon
    <3>2. Len(rules[h]) \in Nat
      BY <2>1
    <3>. QED  BY <2>2, <2>4, <3>1, <3>2
  <2>6. ASSUME NEW k \in 1 .. Len(rules'[h])
        PROVE  \E m \in 1 .. Len(rules[h]) : m # i /\ (m = k \/ m = k + 1) /\ (m = k <=> k < i)
                                               /\ rules'[h][k] = rules[h][m]
    <3>1. CASE k < i
      BY <2>5, <3>1
    <3>2. CASE ~(k < i)
      <4>1. k + 1 \in 1 .. Len(rules[h]) /\ k + 1 # i /\ k + 1 # k
        BY <2>2, <2>5, <3>2
      <4>. QED  BY <2>5, <3>2, <4>1
    <3>. QED  BY <3>1, <3>2
  <2>7. \A g \in Idents : \A k \in 1 .. Len(rules'[g]) :
           rules'[g][k] \in rule_header' /\ rule'[rules'[g][k]].handler = g
    <3>1. ASSUME NEW k \in 1 .. Len(rules'[h])
          PROVE  rules'[h][k] \in rule_header' /\ rule'[rules'[h][k]].handler = h
      <4>1. PICK m \in 1 .. Len(rules[h]) : m # i /\ rules'[h][k] = rules[h][m]
        BY <2>6
      <4>2. rules[h][m] # x /\ rules[h][m] \in rule_header /\ rule[rules[h][m]].handler = h
        BY <1>0, <2>1, <2>2, <2>3, <4>1 DEF Listed
      <4>. QED  BY <2>4, <4>1, <4>2
    <3>2. ASSUME NEW g \in Idents \ {h}, NEW k \in 1 .. Len(rules'[g])
          PROVE  rules'[g][k] \in rule_header' /\ rule'[rules'[g][k]].handler = g
      <4>1. rules[g][k] \in rule_header /\ rule[rules[g][k]].handler = g
        BY <1>0, <2>4 DEF Listed
      <4>. QED  BY <2>4, <4>1
    <3>. QED  BY <3>1, <3>2
  <2>8. \A g \in Idents : \A j, k \in 1 .. Len(rules'[g]) : rules'[g][j] = rules'[g][k] => j = k
    <3>1. ASSUME NEW j \in 1 .. Len(rules'[h]), NEW k \in 1 .. Len(rules'[h]), rules'[h][j] = rules'[h][k]
          PROVE  j = k
      <4>1. PICK m \in 1 .. Len(rules[h]) : /\ m # i /\ (m = j \/ m = j + 1) /\ (m = j <=> j < i)
                                            /\ rules'[h][j] = rules[h][m]
        BY <2>6, Zenon
      <4>2. PICK n \in 1 .. Len(rules[h]) : /\ n # i /\ (n = k \/ n = k + 1) /\ (n = k <=> k < i)
                                            /\ rules'[h][k] = rules[h][n]
        BY <2>6
      <4>3. m = n
        BY <2>3, <3>1, <4>1, <4>2, Zenon
      <4>. QED  BY <4>1, <4>2, <4>3, <2>5
    <3>. QED  BY <1>0, <2>4, <3>1 DEF Listed
  <2>9. ASSUME NEW y \in rule_header'
        PROVE  /\ rule'[y].handler \in handlers'
               /\ rule'[y].format \in formats' /\ rule'[y].output \in outputs'
               /\ \E k \in 1 .. Len(rules'[rule'[y].handler]) : rules'[rule'[y].handler][k] = y
    <3>1. /\ rule[y].handler \in handlers /\ rule[y].handler \in Idents
          /\ rule[y].format \in formats /\ rule[y].output \in outputs
          /\ rule'[y] = rule[y] /\ y # x
      BY <1>0, <2>4 DEF Listed
    <3>2. PICK j \in 1 .. Len(rules[rule[y].handler]) : rules[rule[y].handler][j] = y
      BY <1>0, <2>4 DEF Listed
    <3>3. CASE rule[y].handler = h
      <4>1. \E k \in 1 .. Len(Without(rules[h], x)) : Without(rules[h], x)[k] = y
        <5>1. j \in 1 .. Len(rules[h]) /\ rules[h][j] = y /\ i # j
          BY <2>2, <3>1, <3>2, <3>3
        <5>2. \E k \in 1 .. Len(Without(rules[h], rules[h][i])) :
                 Without(rules[h], rules[h][i])[k] = rules[h][j]
          BY <2>1, <2>2, <2>3, <5>1, StillThere, Zenon
        <5>. QED  BY <2>2, <5>1, <5>2
      <4>. QED  BY <2>4, <3>1, <3>3, <4>1
    <3>4. CASE rule[y].handler # h
      BY <2>4, <3>1, <3>2, <3>4
    <3>. QED  BY <3>3, <3>4
  <2>10. \A y, z \in rule_header' : rule'[y].output = rule'[z].output
                                       => rule'[y].handler = rule'[z].handler
    BY <1>0, <2>4 DEF Listed
  <2>. HIDE DEF h
  <2>. QED  BY <2>7, <2>8, <2>9, <2>10 DEF Listed
<1>8. ASSUME log_cleanup  PROVE Listed'
  BY <1>0, <1>8 DEF log_cleanup, Listed
<1>. QED
  BY <1>1, <1>2, <1>3, <1>4, <1>5, <1>6, <1>7, <1>8 DEF Manage
-----------------------------------------------------------------------------
(* A call that leaves alone what threads print through, and starts         *)
(* counters only of outputs without rules, disturbs no thread.             *)
LEMMA Undisturbed ==
    ASSUME IInv, UNCHANGED <<threads, mutex>>,
           \A h \in handlers : Busy(h) =>
               /\ h \in handlers' /\ rules'[h] = rules[h]
               /\ \A i \in 1 .. Len(rules[h]) : rule'[rules[h][i]].output = rule[rules[h][i]].output,
           \A o \in Outputs :
               \/ count'[o] = count[o] /\ emitted'[o] = emitted[o]
               \/ o \notin outputs /\ count'[o] = emitted'[o]
    PROVE  Printers' /\ Counted'
<1>0. /\ TypeOK /\ Printers /\ Listed /\ Counted
      /\ pc' = pc /\ at' = at /\ r' = r /\ saw' = saw /\ mutex' = mutex
  BY DEF IInv, threads
<1>1. ASSUME NEW t \in Threads, pc[t] # "idle"
      PROVE  at[t] \in handlers /\ at[t] \in Idents /\ Busy(at[t])
  BY <1>0, <1>1 DEF Printers, TypeOK, Busy
<1>2. Printers'
  BY <1>0, <1>1 DEF Printers, More
<1>3. ASSUME NEW t \in Threads, pc[t] = "count"
      PROVE  Out(t)' = Out(t) /\ Out(t) \in outputs /\ Out(t) \in Outputs
  <2>1. r[t] \in 1 .. Len(rules[at[t]])
    BY <1>0, <1>3 DEF Printers, More, TypeOK
  <2>2. Rule(t) \in rule_header
    BY <1>0, <1>1, <1>3, <2>1 DEF Listed, Rule
  <2>3. Out(t)' = Out(t)
    BY <1>0, <1>1, <1>3, <2>1 DEF Out, Rule
  <2>. QED  BY <1>0, <2>2, <2>3 DEF Listed, Out, TypeOK
<1>4. StatExact'
  <2>. SUFFICES ASSUME NEW o \in Outputs, \A t \in Threads : pc[t] = "count" => Out(t)' # o
                PROVE  count'[o] = emitted'[o]
    BY <1>0 DEF StatExact, Out, Rule
  <2>1. \A t \in Threads : pc[t] = "count" => rule[Rule(t)].output # o
    BY <1>3 DEF Out
  <2>2. count[o] = emitted[o]
    BY <1>0, <2>1 DEF Counted, StatExact
  <2>. QED  BY <2>2
<1>5. \A t \in Threads : pc'[t] = "count" =>
         saw'[t] = count'[Out(t)'] /\ emitted'[Out(t)'] = count'[Out(t)'] + 1
  BY <1>0, <1>3 DEF Counted
<1>. QED  BY <1>2, <1>4, <1>5 DEF Counted

(* The calls that manage the lists keep the invariant.                     *)
LEMMA ManageStep == ASSUME LogAssumption, IInv, Manage  PROVE IInv'
<1>0. /\ handlers \subseteq Idents /\ rule_header \subseteq Rules
      /\ rule \in [Rules -> RuleType] /\ rules \in [Idents -> Seq(Rules)] /\ Listed
      /\ count \in [Outputs -> Nat] /\ emitted \in [Outputs -> Nat] /\ None \notin Idents
  BY DEF IInv, TypeOK, LogAssumption
<1>. DEFINE Kept == \A h \in handlers : Busy(h) =>
                       /\ h \in handlers' /\ rules'[h] = rules[h]
                       /\ \A i \in 1 .. Len(rules[h]) :
                             rule'[rules[h][i]].output = rule[rules[h][i]].output
            Stats == \A o \in Outputs :
                       \/ count'[o] = count[o] /\ emitted'[o] = emitted[o]
                       \/ o \notin outputs /\ count'[o] = emitted'[o]
<1>1. UNCHANGED <<threads, mutex>>
  <2>1. ASSUME NEW h \in Idents, log_handler_create(h) \/ log_handler_destroy(h)  PROVE UNCHANGED <<threads, mutex>>
    BY <2>1 DEF log_handler_create, log_handler_destroy
  <2>2. ASSUME NEW f \in Formats, log_format_create(f) \/ log_format_destroy(f)  PROVE UNCHANGED <<threads, mutex>>
    BY <2>2 DEF log_format_create, log_format_destroy
  <2>3. ASSUME NEW o \in Outputs, log_output_create(o) \/ log_output_destroy(o)  PROVE UNCHANGED <<threads, mutex>>
    BY <2>3 DEF log_output_create, log_output_destroy
  <2>4. ASSUME NEW x \in Rules, NEW b \in Bounds, NEW e \in Bounds, log_rule_set_level(x, b, e)
        PROVE  UNCHANGED <<threads, mutex>>
    BY <2>4 DEF log_rule_set_level
  <2>5. ASSUME NEW x \in Rules, NEW b \in Bounds, NEW e \in Bounds, NEW h \in Idents,
               NEW f \in Formats, NEW o \in Outputs, log_rule_create(x, h, f, o, b, e)
        PROVE  UNCHANGED <<threads, mutex>>
    BY <2>5 DEF log_rule_create
  <2>6. ASSUME NEW x \in Rules, log_rule_destroy(x)  PROVE UNCHANGED <<threads, mutex>>
    BY <2>6 DEF log_rule_destroy
  <2>7. ASSUME log_cleanup  PROVE UNCHANGED <<threads, mutex>>
    BY <2>7 DEF log_cleanup
  <2>. QED  BY <2>1, <2>2, <2>3, <2>4, <2>5, <2>6, <2>7 DEF Manage
<1>2. Kept
  <2>1. ASSUME NEW h \in Idents, log_handler_create(h)  PROVE Kept
    BY <1>0, <2>1 DEF log_handler_create
  <2>2. ASSUME NEW h \in Idents, log_handler_destroy(h)  PROVE Kept
    <3>. SUFFICES ASSUME NEW g \in handlers, Busy(g)
                  PROVE  /\ g \in handlers' /\ rules'[g] = rules[g]
                         /\ \A i \in 1 .. Len(rules[g]) :
                               rule'[rules[g][i]].output = rule[rules[g][i]].output
      OBVIOUS
    <3>1. g # h /\ g \in Idents
      BY <1>0, <2>2 DEF log_handler_destroy
    <3>2. \A i \in 1 .. Len(rules[g]) : rules[g][i] \in Rules /\ rule[rules[g][i]].handler = g
      BY <1>0, <3>1 DEF Listed
    <3>. QED  BY <1>0, <2>2, <3>1, <3>2 DEF log_handler_destroy
  <2>3. ASSUME UNCHANGED <<handlers, rules, rule>>  PROVE Kept
    BY <2>3
  <2>4. ASSUME NEW x \in Rules, NEW b \in Bounds, NEW e \in Bounds, log_rule_set_level(x, b, e)
        PROVE  Kept
    <3>1. \A y \in Rules : rule'[y].output = rule[y].output
      BY <1>0, <2>4 DEF log_rule_set_level, RuleType
    <3>2. \A g \in Idents : \A i \in 1 .. Len(rules[g]) : rules[g][i] \in Rules
      BY <1>0
    <3>3. UNCHANGED <<handlers, rules>>
      BY <2>4 DEF log_rule_set_level
    <3>. QED  BY <1>0, <3>1, <3>2, <3>3
  <2>5. ASSUME NEW x \in Rules, NEW b \in Bounds, NEW e \in Bounds, NEW h \in Idents,
               NEW f \in Formats, NEW o \in Outputs, log_rule_create(x, h, f, o, b, e)
        PROVE  Kept
    <3>1. /\ ~Busy(h) /\ x \notin rule_header /\ UNCHANGED handlers
          /\ \A g \in Idents \ {h} : rules'[g] = rules[g]
          /\ \A y \in Rules \ {x} : rule'[y] = rule[y]
      BY <1>0, <2>5 DEF log_rule_create
    <3>2. \A g \in Idents : \A i \in 1 .. Len(rules[g]) : rules[g][i] \in Rules \ {x}
      BY <1>0, <3>1 DEF Listed
    <3>3. \A g \in Idents : \A i \in 1 .. Len(rules[g]) : rule'[rules[g][i]] = rule[rules[g][i]]
      BY <3>1, <3>2
    <3>. QED  BY <1>0, <3>1, <3>3
  <2>6. ASSUME NEW x \in Rules, log_rule_destroy(x)  PROVE Kept
    <3>1. /\ ~Busy(rule[x].handler) /\ UNCHANGED handlers
          /\ \A g \in Idents \ {rule[x].handler} : rules'[g] = rules[g]
          /\ \A y \in Rules \ {x} : rule'[y] = rule[y]
      BY <1>0, <2>6 DEF log_rule_destroy
    <3>2. \A g \in Idents : \A i \in 1 .. Len(rules[g]) :
             rules[g][i] \in Rules /\ rule[rules[g][i]].handler = g
      BY <1>0 DEF Listed
    <3>. QED  BY <1>0, <3>1, <3>2
  <2>7. ASSUME log_cleanup  PROVE Kept
    BY <1>0, <2>7 DEF log_cleanup
  <2>8. ASSUME NEW f \in Formats, log_format_create(f) \/ log_format_destroy(f)
        PROVE  UNCHANGED <<handlers, rules, rule>>
    BY <2>8 DEF log_format_create, log_format_destroy
  <2>9. ASSUME NEW o \in Outputs, log_output_create(o) \/ log_output_destroy(o)
        PROVE  UNCHANGED <<handlers, rules, rule>>
    BY <2>9 DEF log_output_create, log_output_destroy
  <2>. HIDE DEF Kept
  <2>. QED  BY <2>1, <2>2, <2>3, <2>4, <2>5, <2>6, <2>7, <2>8, <2>9 DEF Manage
<1>3. Stats
  <2>1. ASSUME NEW h \in Idents, log_handler_create(h) \/ log_handler_destroy(h)  PROVE UNCHANGED <<count, emitted>>
    BY <2>1 DEF log_handler_create, log_handler_destroy
  <2>2. ASSUME NEW f \in Formats, log_format_create(f) \/ log_format_destroy(f)  PROVE UNCHANGED <<count, emitted>>
    BY <2>2 DEF log_format_create, log_format_destroy
  <2>3. ASSUME NEW o \in Outputs, log_output_destroy(o)  PROVE UNCHANGED <<count, emitted>>
    BY <2>3 DEF log_output_destroy
  <2>4. ASSUME NEW x \in Rules, NEW b \in Bounds, NEW e \in Bounds, log_rule_set_level(x, b, e)
        PROVE  UNCHANGED <<count, emitted>>
    BY <2>4 DEF log_rule_set_level
  <2>5. ASSUME NEW x \in Rules, NEW b \in Bounds, NEW e \in Bounds, NEW h \in Idents,
               NEW f \in Formats, NEW o \in Outputs, log_rule_create(x, h, f, o, b, e)
        PROVE  UNCHANGED <<count, emitted>>
    BY <2>5 DEF log_rule_create
  <2>6. ASSUME NEW x \in Rules, log_rule_destroy(x)  PROVE UNCHANGED <<count, emitted>>
    BY <2>6 DEF log_rule_destroy
  <2>7. ASSUME log_cleanup  PROVE UNCHANGED <<count, emitted>>
    BY <2>7 DEF log_cleanup
  <2>8. ASSUME NEW o \in Outputs, log_output_create(o)  PROVE Stats
    BY <1>0, <2>8 DEF log_output_create
  <2>9. ASSUME UNCHANGED <<count, emitted>>  PROVE Stats
    BY <2>9
  <2>. HIDE DEF Stats
  <2>. QED  BY <2>1, <2>2, <2>3, <2>4, <2>5, <2>6, <2>7, <2>8, <2>9 DEF Manage
<1>4. Printers' /\ Counted'
  BY <1>1, <1>2, <1>3, Undisturbed
<1>. QED  BY <1>4, ManageType, ManageListed DEF IInv
-----------------------------------------------------------------------------
(* A thread that emits or counts is at a rule of its handler.              *)
LEMMA AtRule ==
    ASSUME IInv, NEW t \in Threads, pc[t] \in {"emit", "count"}
    PROVE  /\ r[t] \in 1 .. Len(rules[at[t]]) /\ at[t] \in Idents /\ mutex[at[t]] = t
           /\ Rule(t) \in rule_header /\ rule[Rule(t)].handler = at[t] /\ Out(t) \in Outputs
<1>1. /\ r[t] \in 1 .. Len(rules[at[t]]) /\ at[t] \in Idents /\ mutex[at[t]] = t
  BY DEF IInv, TypeOK, Printers, More
<1>2. Rule(t) \in rule_header /\ rule[Rule(t)].handler = at[t]
  BY <1>1 DEF IInv, Listed, Rule
<1>. QED  BY <1>1, <1>2 DEF IInv, TypeOK, Listed, Out

(* Two threads never emit to, or count for, the same output: its rules are *)
(* those of one handler, and both threads would hold its mutex.            *)
LEMMA Exclusive ==
    ASSUME IInv, NEW s \in Threads, NEW t \in Threads, Out(s) = Out(t),
           pc[s] \in {"emit", "count"}, pc[t] \in {"emit", "count"}
    PROVE  s = t
<1>1. /\ Rule(s) \in rule_header /\ rule[Rule(s)].handler = at[s] /\ mutex[at[s]] = s
      /\ Rule(t) \in rule_header /\ rule[Rule(t)].handler = at[t] /\ mutex[at[t]] = t
  BY AtRule
<1>2. at[s] = at[t]
  BY <1>1 DEF IInv, Listed, Out
<1>. QED  BY <1>1, <1>2

(* The types of what log_vprintf changes.                                  *)
LEMMA PrintType == ASSUME LogAssumption, IInv, NEW t \in Threads, Printing(t)  PROVE TypeOK'
<1>0. TypeOK /\ Printers /\ LOG_EMERG \in Levels
  BY DEF IInv, LogAssumption, Levels, LOG_EMERG
<1>1. ASSUME NEW h \in Idents, NEW lvl \in LOG_EMERG - 1 .. LOG_VERBOSE + 1, Call(t, h, lvl)
      PROVE  TypeOK'
  <2>1. Clamp(lvl) \in Levels
    BY DEF LogAssumption, Clamp, Levels, LOG_EMERG
  <2>2. printed' \in 0 .. MaxPrint
    BY <1>0, <1>1 DEF Call, TypeOK, LogAssumption
  <2>. QED  BY <1>0, <1>1, <2>1, <2>2 DEF Call, Goto, TypeOK, lists
<1>2. CASE Lock(t)
  BY <1>0, <1>2, Zenon DEF Lock, Goto, TypeOK, lists
<1>3. CASE Skip(t)
  BY <1>0, <1>3 DEF Skip, TypeOK, lists
<1>4. CASE Format(t)
  BY <1>0, <1>4 DEF Format, Goto, TypeOK, lists
<1>5. CASE Emit(t)
  <2>1. pc[t] = "emit"
    BY <1>5 DEF Emit, Goto
  <2>2. Out(t) \in Outputs
    BY <2>1, AtRule
  <2>3. count[Out(t)] \in Nat /\ emitted[Out(t)] + 1 \in Nat /\ r[t] + 1 \in Nat
    BY <1>0, <2>2 DEF TypeOK
  <2>4. emitted' \in [Outputs -> Nat]
    BY <1>0, <1>5, <2>3, Zenon DEF Emit, Out, TypeOK
  <2>5. saw' \in [Threads -> Nat] /\ r' \in [Threads -> Nat]
    BY <1>0, <1>5, <2>3, Zenon DEF Emit, Out, TypeOK
  <2>6. pc' \in [Threads -> {"idle", "lock", "rules", "emit", "count"}]
    BY <1>0, <1>5, Zenon DEF Emit, Goto, TypeOK
  <2>7. UNCHANGED <<lists, count, mutex, at, level, printed>>
    BY <1>5 DEF Emit
  <2>. QED  BY <1>0, <2>4, <2>5, <2>6, <2>7 DEF TypeOK, lists
<1>6. CASE Count(t)
  <2>1. pc[t] = "count"
    BY <1>6 DEF Count, Goto
  <2>2. Out(t) \in Outputs
    BY <2>1, AtRule
  <2>3. count' = [count EXCEPT ![Out(t)] = saw[t] + 1]
    BY <1>6 DEF Count, Out
  <2>4. count' \in [Outputs -> Nat]
    <3>1. saw[t] + 1 \in Nat
      BY <1>0 DEF TypeOK
    <3>. QED  BY <1>0, <2>3, <3>1, Zenon DEF TypeOK
  <2>. QED  BY <1>0, <1>6, <2>4 DEF Count, Goto, TypeOK, lists
<1>7. CASE Unlock(t)
  BY <1>0, <1>7, Zenon DEF Unlock, Goto, TypeOK, lists
<1>. QED
  BY <1>1, <1>2, <1>3, <1>4, <1>5, <1>6, <1>7 DEF Printing

(* log_vprintf: the mutex is held from the lock to the unlock, and the     *)
(* rule at hand is one of the handler's.                                   *)
LEMMA PrintPrinters == ASSUME LogAssumption, IInv, NEW t \in Threads, Printing(t)  PROVE Printers'
<1>0. /\ TypeOK /\ Printers /\ None \notin Threads /\ None \notin Idents
      /\ pc \in [Threads -> {"idle", "lock", "rules", "emit", "count"}]
      /\ at \in [Threads -> Idents \cup {None}] /\ r \in [Threads -> Nat]
      /\ mutex \in [Idents -> Threads \cup {None}] /\ handlers \subseteq Idents
  BY DEF IInv, LogAssumption, TypeOK
<1>1. ASSUME NEW h \in Idents, NEW lvl \in LOG_EMERG - 1 .. LOG_VERBOSE + 1, Call(t, h, lvl)
      PROVE  Printers'
  BY <1>0, <1>1 DEF Call, Goto, Printers, More, lists
<1>2. CASE Lock(t)
  <2>1. /\ pc[t] = "lock" /\ pc' = [pc EXCEPT ![t] = "rules"] /\ mutex[at[t]] = None
        /\ mutex' = [mutex EXCEPT ![at[t]] = t] /\ r' = [r EXCEPT ![t] = 1]
        /\ UNCHANGED <<handlers, rules, at>>
    BY <1>2 DEF Lock, Goto, lists
  <2>2. at[t] \in handlers /\ at[t] \in Idents
    BY <1>0, <2>1 DEF Printers
  <2>3. \A u \in Threads \ {t} : pc[u] \in {"rules", "emit", "count"} => mutex'[at[u]] = u
    BY <1>0, <2>1, <2>2 DEF Printers
  <2>. QED  BY <1>0, <2>1, <2>2, <2>3 DEF Printers, More
<1>3. CASE Skip(t)
  BY <1>0, <1>3 DEF Skip, Printers, More, lists
<1>4. CASE Format(t)
  BY <1>0, <1>4 DEF Format, Goto, Printers, More, lists
<1>5. CASE Emit(t)
  <2>1. /\ pc[t] = "emit" /\ UNCHANGED <<handlers, rules, mutex, at>>
        /\ \/ pc' = [pc EXCEPT ![t] = "count"] /\ UNCHANGED r
           \/ pc' = [pc EXCEPT ![t] = "rules"] /\ r' = [r EXCEPT ![t] = @ + 1]
    BY <1>5 DEF Emit, Goto, lists
  <2>. QED  BY <1>0, <2>1 DEF Printers, More
<1>6. CASE Count(t)
  <2>1. /\ pc[t] = "count" /\ UNCHANGED <<handlers, rules, mutex, at>>
        /\ pc' = [pc EXCEPT ![t] = "rules"] /\ r' = [r EXCEPT ![t] = @ + 1]
    BY <1>6 DEF Count, Goto, lists
  <2>. QED  BY <1>0, <2>1 DEF Printers, More
<1>7. CASE Unlock(t)
  <2>1. /\ pc[t] = "rules" /\ pc' = [pc EXCEPT ![t] = "idle"]
        /\ mutex' = [mutex EXCEPT ![at[t]] = None] /\ at' = [at EXCEPT ![t] = None]
        /\ r' = [r EXCEPT ![t] = 0] /\ UNCHANGED <<handlers, rules>>
    BY <1>7 DEF Unlock, Goto, lists
  <2>2. at[t] \in Idents /\ mutex[at[t]] = t
    BY <1>0, <2>1 DEF Printers
  <2>3. \A u \in Threads \ {t} : pc[u] \in {"rules", "emit", "count"} => mutex'[at[u]] = u
    BY <1>0, <2>1, <2>2 DEF Printers
  <2>. QED  BY <1>0, <2>1, <2>2, <2>3 DEF Printers, More
<1>. QED
  BY <1>1, <1>2, <1>3, <1>4, <1>5, <1>6, <1>7 DEF Printing

(* A step of log_vprintf that neither emits nor counts.                    *)
LEMMA Quiet ==
    ASSUME IInv, UNCHANGED <<lists, count, emitted>>,
           \A u \in Threads :
               /\ pc'[u] = "count" <=> pc[u] = "count"
               /\ pc[u] = "count" => at'[u] = at[u] /\ r'[u] = r[u] /\ saw'[u] = saw[u]
    PROVE  Counted'
<1>1. \A u \in Threads : pc[u] = "count" => Out(u)' = Out(u)
  BY DEF lists, Out, Rule
<1>2. StatExact'
  BY <1>1 DEF IInv, Counted, StatExact, Out
<1>. QED  BY <1>1, <1>2 DEF IInv, Counted

(* The emit and its counting, during which the output has no other user.   *)
LEMMA PrintCounted == ASSUME LogAssumption, IInv, NEW t \in Threads, Printing(t)  PROVE Counted'
<1>0. /\ Counted
      /\ pc \in [Threads -> {"idle", "lock", "rules", "emit", "count"}]
      /\ at \in [Threads -> Idents \cup {None}] /\ r \in [Threads -> Nat]
      /\ saw \in [Threads -> Nat] /\ count \in [Outputs -> Nat] /\ emitted \in [Outputs -> Nat]
  BY DEF IInv, TypeOK
<1>1. ASSUME NEW h \in Idents, NEW lvl \in LOG_EMERG - 1 .. LOG_VERBOSE + 1, Call(t, h, lvl)
      PROVE  Counted'
  BY <1>0, <1>1, Quiet DEF Call, Goto
<1>2. CASE Lock(t)
  BY <1>0, <1>2, Quiet DEF Lock, Goto
<1>3. CASE Skip(t)
  BY <1>0, <1>3, Quiet DEF Skip
<1>4. CASE Format(t)
  BY <1>0, <1>4, Quiet DEF Format, Goto
<1>5. CASE Emit(t)
  <2>1. CASE pc' = [pc EXCEPT ![t] = "rules"]
    BY <1>0, <1>5, <2>1, Quiet DEF Emit, Goto
  <2>2. CASE pc' # [pc EXCEPT ![t] = "rules"]
    <3>1. /\ pc[t] = "emit" /\ pc' = [pc EXCEPT ![t] = "count"]
          /\ saw' = [saw EXCEPT ![t] = count[Out(t)]]
          /\ emitted' = [emitted EXCEPT ![Out(t)] = @ + 1]
          /\ UNCHANGED <<rules, rule, count, at, r>>
      BY <1>5, <2>2 DEF Emit, Goto, Out, lists
    <3>2. \A u \in Threads : Out(u)' = Out(u)
      BY <3>1 DEF Out, Rule
    <3>3. Out(t) \in Outputs
      BY <3>1, AtRule
    <3>4. \A u \in Threads : pc[u] = "count" => Out(u) # Out(t) /\ Out(u) \in Outputs
      BY <3>1, Exclusive, AtRule
    <3>5. count[Out(t)] = emitted[Out(t)]
      BY <1>0, <3>3, <3>4 DEF Counted, StatExact, Out
    <3>6. StatExact'
      <4>. SUFFICES ASSUME NEW o \in Outputs, \A u \in Threads : pc'[u] = "count" => Out(u)' # o
                    PROVE  count'[o] = emitted'[o]
        BY DEF StatExact, Out
      <4>1. o # Out(t) /\ \A u \in Threads : pc[u] = "count" => Out(u) # o
        BY <1>0, <3>1, <3>2
      <4>2. count[o] = emitted[o]
        BY <1>0, <4>1 DEF Counted, StatExact, Out
      <4>. QED  BY <1>0, <3>1, <4>1, <4>2
    <3>7. ASSUME NEW u \in Threads, pc'[u] = "count"
          PROVE  saw'[u] = count'[Out(u)'] /\ emitted'[Out(u)'] = count'[Out(u)'] + 1
      <4>1. CASE u = t
        BY <1>0, <3>1, <3>2, <3>3, <3>5, <4>1
      <4>2. CASE u # t
        <5>1. pc[u] = "count"
          BY <1>0, <3>1, <3>7, <4>2
        <5>2. saw[u] = count[Out(u)] /\ emitted[Out(u)] = count[Out(u)] + 1
          BY <1>0, <5>1 DEF Counted
        <5>3. saw'[u] = saw[u] /\ emitted'[Out(u)] = emitted[Out(u)]
          BY <1>0, <3>1, <3>4, <4>2, <5>1
        <5>. QED  BY <3>1, <3>2, <5>2, <5>3
      <4>. QED  BY <4>1, <4>2
    <3>. QED  BY <3>6, <3>7 DEF Counted
  <2>. QED  BY <2>1, <2>2
<1>6. CASE Count(t)
  <2>1. /\ pc[t] = "count" /\ pc' = [pc EXCEPT ![t] = "rules"]
        /\ count' = [count EXCEPT ![Out(t)] = saw[t] + 1] /\ saw' = [saw EXCEPT ![t] = 0]
        /\ r' = [r EXCEPT ![t] = @ + 1] /\ UNCHANGED <<rules, rule, at, emitted>>
    BY <1>6 DEF Count, Goto, Out, lists
  <2>2. \A u \in Threads \ {t} : Out(u)' = Out(u)
    BY <1>0, <2>1 DEF Out, Rule
  <2>3. Out(t) \in Outputs /\ saw[t] = count[Out(t)] /\ emitted[Out(t)] = count[Out(t)] + 1
    BY <1>0, <2>1, AtRule DEF Counted
  <2>4. \A u \in Threads \ {t} : pc[u] = "count" => Out(u) # Out(t) /\ Out(u) \in Outputs
    BY <2>1, Exclusive, AtRule
  <2>5. StatExact'
    <3>. SUFFICES ASSUME NEW o \in Outputs, \A u \in Threads : pc'[u] = "count" => Out(u)' # o
                  PROVE  count'[o] = emitted'[o]
      BY DEF StatExact, Out
    <3>1. CASE o = Out(t)
      BY <1>0, <2>1, <2>3, <3>1
    <3>2. CASE o # Out(t)
      <4>1. \A u \in Threads : pc[u] = "count" => Out(u) # o
        BY <1>0, <2>1, <2>2, <3>2
      <4>2. count[o] = emitted[o]
        BY <1>0, <4>1 DEF Counted, StatExact, Out
      <4>. QED  BY <1>0, <2>1, <3>2, <4>2
    <3>. QED  BY <3>1, <3>2
  <2>6. ASSUME NEW u \in Threads, pc'[u] = "count"
        PROVE  saw'[u] = count'[Out(u)'] /\ emitted'[Out(u)'] = count'[Out(u)'] + 1
    <3>1. u # t /\ pc[u] = "count"
      BY <1>0, <2>1, <2>6
    <3>2. saw[u] = count[Out(u)] /\ emitted[Out(u)] = count[Out(u)] + 1
      BY <1>0, <3>1 DEF Counted
    <3>3. saw'[u] = saw[u] /\ count'[Out(u)] = count[Out(u)]
      BY <1>0, <2>1, <2>4, <3>1
    <3>. QED  BY <2>1, <2>2, <3>1, <3>2, <3>3
  <2>. QED  BY <2>5, <2>6 DEF Counted
<1>7. CASE Unlock(t)
  BY <1>0, <1>7, Quiet DEF Unlock, Goto
<1>. QED
  BY <1>1, <1>2, <1>3, <1>4, <1>5, <1>6, <1>7 DEF Printing

(* The inductive invariant of handlers, rules and printing threads.        *)
THEOREM IInvHolds == ASSUME LogAssumption  PROVE Spec => []IInv
<1>1. ASSUME IInv, [Next]_vars  PROVE IInv'
  <2>1. CASE Manage
    BY <1>1, <2>1, ManageStep
  <2>2. ASSUME NEW t \in Threads, Printing(t)  PROVE IInv'
    <3>1. UNCHANGED lists
      BY <2>2 DEF Printing, Call, Lock, Skip, Format, Emit, Count, Unlock
    <3>2. Listed'
      BY <1>1, <3>1 DEF IInv, Listed, lists
    <3>. QED  BY <1>1, <2>2, <3>2, PrintType, PrintPrinters, PrintCounted DEF IInv
  <2>3. CASE UNCHANGED vars
    <3>1. TypeOK' /\ Listed'
      BY <1>1, <2>3 DEF IInv, TypeOK, Listed, vars, lists, threads
    <3>2. Printers'
      BY <1>1, <2>3 DEF IInv, Printers, More, vars, lists, threads
    <3>3. Counted'
      BY <1>1, <2>3, Quiet DEF vars, threads
    <3>. QED  BY <3>1, <3>2, <3>3 DEF IInv
  <2>. QED  BY <1>1, <2>1, <2>2, <2>3 DEF Next
<1>. QED  BY InitIInv, <1>1, PTL DEF Spec

(* The statistics of log_vprintf count every successful emit, for any      *)
(* number of threads, handlers and outputs.                                *)
THEOREM StatisticsExact == ASSUME LogAssumption  PROVE Spec => []StatExact
<1>1. IInv => StatExact
  BY DEF IInv, Counted
<1>. QED  BY IInvHolds, <1>1, PTL

(* No two threads are in the emit of one output.                           *)
THEOREM EmitsExclusive == ASSUME LogAssumption  PROVE Spec => []OneEmitter
<1>1. IInv => OneEmitter
  BY Exclusive DEF OneEmitter, Out
<1>. QED  BY IInvHolds, <1>1, PTL

(* The list of all rules and the lists of the handlers agree.              *)
THEOREM ListsAgree == ASSUME LogAssumption  PROVE Spec => []RulesLinked
<1>1. IInv => RulesLinked
  <2>. SUFFICES ASSUME IInv  PROVE RulesLinked
    OBVIOUS
  <2>0. /\ Listed /\ rules \in [Idents -> Seq(Rules)] /\ IsFiniteSet(Rules)
        /\ handlers \subseteq Idents /\ rule_header \subseteq Rules
    BY DEF IInv, TypeOK, LogAssumption
  <2>1. ASSUME NEW h \in Idents, rules[h] # << >>  PROVE h \in handlers
    <3>1. 1 \in 1 .. Len(rules[h])
      BY <2>0, <2>1
    <3>. QED  BY <2>0, <3>1 DEF Listed
  <2>2. ASSUME NEW h \in Idents  PROVE Len(rules[h]) <= Cardinality(Rules) /\ Len(rules[h]) \in Nat
    <3>1. rules[h] \in Injection(1 .. Len(rules[h]), Rules)
      BY <2>0 DEF Listed, Injection, IsInjective
    <3>2. Cardinality(1 .. Len(rules[h])) = Len(rules[h]) /\ Len(rules[h]) \in Nat
      <4>1. Len(rules[h]) \in Nat
        BY <2>0
      <4>2. Cardinality(1 .. Len(rules[h])) = IF 1 > Len(rules[h]) THEN 0 ELSE (Len(rules[h]) - 1) + 1
        BY <4>1, FS_Interval
      <4>. QED  BY <4>1, <4>2
    <3>. QED  BY <2>0, <3>1, <3>2, FS_Injection
  <2>. DEFINE Places(x) == {p \in Idents \X (1 .. Cardinality(Rules)) :
                              p[2] <= Len(rules[p[1]]) /\ rules[p[1]][p[2]] = x}
  <2>3. ASSUME NEW x \in Rules  PROVE Cardinality(Places(x)) = IF x \in rule_header THEN 1 ELSE 0
    <3>0. Cardinality(Rules) \in Nat
      BY <2>0, FS_CardinalityType
    <3>1. CASE x \in rule_header
      <4>. DEFINE h == rule[x].handler
      <4>1. h \in Idents
        BY <2>0, <3>1 DEF Listed
      <4>2. PICK i \in 1 .. Len(rules[h]) : rules[h][i] = x
        BY <2>0, <3>1 DEF Listed
      <4>3. i \in 1 .. Cardinality(Rules)
        BY <2>2, <3>0, <4>1, <4>2
      <4>4. <<h, i>> \in Places(x)
        BY <4>1, <4>2, <4>3
      <4>5. ASSUME NEW p \in Places(x)  PROVE p = <<h, i>>
        <5>1. /\ p[1] \in Idents /\ p[2] \in 1 .. Len(rules[p[1]]) /\ rules[p[1]][p[2]] = x
              /\ p = <<p[1], p[2]>>
          BY <2>2, <3>0, <4>5
        <5>2. p[1] = h
          BY <2>0, <5>1 DEF Listed
        <5>3. p[2] = i
          BY <2>0, <4>1, <4>2, <5>1, <5>2 DEF Listed
        <5>. QED  BY <5>1, <5>2, <5>3
      <4>6. Places(x) = {<<h, i>>}
        BY <4>4, <4>5
      <4>. HIDE DEF Places
      <4>. QED  BY <3>1, <4>6, FS_Singleton, Zenon
    <3>2. CASE x \notin rule_header
      <4>1. Places(x) = {}
        BY <2>0, <2>2, <3>0, <3>2 DEF Listed
      <4>. HIDE DEF Places
      <4>. QED  BY <3>2, <4>1, FS_EmptySet
    <3>. QED  BY <3>1, <3>2
  <2>4. ASSUME NEW x \in rule_header
        PROVE  /\ \E i \in DOMAIN rules[rule[x].handler] : rules[rule[x].handler][i] = x
               /\ rule[x].format \in formats /\ rule[x].output \in outputs
    <3>1. rule[x].handler \in Idents
      BY <2>0 DEF Listed
    <3>2. DOMAIN rules[rule[x].handler] = 1 .. Len(rules[rule[x].handler])
      BY <2>0, <3>1
    <3>. QED  BY <2>0, <3>2 DEF Listed
  <2>. QED  BY <2>1, <2>3, <2>4 DEF RulesLinked
<1>. QED  BY IInvHolds, <1>1, PTL

(* The lists agree, emits exclude each other and no emit goes uncounted,   *)
(* whatever log_rule_create, log_handler_destroy, log_format_destroy,      *)
(* log_output_destroy and log_vprintf interleave.                          *)
THEOREM LogSound == ASSUME LogAssumption PROVE Spec => []RulesAndStatistics
<1>1. RulesLinked /\ OneEmitter /\ StatExact => RulesAndStatistics
  BY DEF RulesAndStatistics
<1>. QED  BY ListsAgree, EmitsExclusive, StatisticsExact, <1>1, PTL
=============================================================================
