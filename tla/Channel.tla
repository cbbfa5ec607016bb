------------------------------- MODULE Channel -------------------------------
(***************************************************************************)
(* channel.c: a bounded buffer of elements shared by threads.  Two         *)
(* semaphores count the free slots (writer) and the filled ones (reader),  *)
(* a lock protects the ring.  A call is three steps, and other threads run *)
(* between them: take a semaphore, work on the ring under the lock, post   *)
(* the other semaphore.  The locked part is one action: all it touches is  *)
(* only touched under that lock.                                           *)
(***************************************************************************)
EXTENDS Integers, Sequences, FiniteSets

CONSTANTS Producers,  \* threads that call channel_push[_timeout]
          Consumers,  \* threads that call channel_pop[_timeout]
          Capacity,   \* channel_create's capacity
          Elements,   \* the elements pushed
          MaxPush     \* bound: how many pushes are begun

ASSUME ChannelAssumption ==
    /\ IsFiniteSet(Producers) /\ IsFiniteSet(Consumers)
    /\ Producers \cap Consumers = {}
    /\ Capacity \in Nat \ {0}
    /\ Elements # {}
    /\ MaxPush \in Nat

Threads == Producers \cup Consumers
Slots == 0 .. Capacity - 1

VARIABLES count, offset, ptr,  \* struct channel: the ring
          reader, writer,      \* struct channel: the semaphores' values
          alive,               \* FALSE once channel_destroy freed the channel
          pc,                  \* where each thread is in its call
          e,                   \* each producer's argument
          begun,               \* number of pushes begun, for the bound
          pushed, popped       \* history: elements stored and taken, in order

ring == <<count, offset, ptr>>
hist == <<pushed, popped>>
vars == <<count, offset, ptr, reader, writer, alive, pc, e, begun, pushed, popped>>

PushPC == {"idle", "push_wait", "push_timewait", "push_locked", "push_post"}
PopPC == {"idle", "pop_wait", "pop_timewait", "pop_locked", "pop_post"}

TypeOK ==
    /\ count \in Int /\ offset \in Slots
    /\ ptr \in [Slots -> Elements]
    /\ reader \in Nat /\ writer \in Nat
    /\ alive \in BOOLEAN
    /\ pc \in [Threads -> PushPC \cup PopPC]
    /\ \A p \in Producers : pc[p] \in PushPC
    /\ \A c \in Consumers : pc[c] \in PopPC
    /\ e \in [Producers -> Elements]
    /\ begun \in Nat
    /\ pushed \in Seq(Elements) /\ popped \in Seq(Elements)

(* channel_create: the header is zeroed, the elements' bytes are not.      *)
Init ==
    /\ count = 0 /\ offset = 0
    /\ ptr \in [Slots -> Elements]
    /\ reader = 0 /\ writer = Capacity
    /\ alive = TRUE
    /\ pc = [t \in Threads |-> "idle"]
    /\ e \in [Producers -> Elements]
    /\ begun = 0
    /\ pushed = << >> /\ popped = << >>

Goto(t, from, to) == pc[t] = from /\ pc' = [pc EXCEPT ![t] = to]

-----------------------------------------------------------------------------
(* channel_push and channel_push_timeout                                   *)

PushCall(p, wait) ==
    /\ alive /\ begun < MaxPush
    /\ Goto(p, "idle", wait)
    /\ \E v \in Elements : e' = [e EXCEPT ![p] = v]
    /\ begun' = begun + 1
    /\ UNCHANGED <<ring, reader, writer, alive, hist>>

PushTake(p) ==
    /\ writer > 0
    /\ Goto(p, "push_wait", "push_locked") \/ Goto(p, "push_timewait", "push_locked")
    /\ writer' = writer - 1
    /\ UNCHANGED <<ring, reader, alive, e, begun, hist>>

(* Mutant: the result of sema_timewait is ignored.                         *)
PushExpire_Ignored(p) ==
    /\ writer = 0
    /\ Goto(p, "push_timewait", "push_locked")
    /\ UNCHANGED <<ring, reader, writer, alive, e, begun, hist>>

(* sema_timewait fails only when no slot came free in time.                *)
PushExpire(p) ==
    /\ writer = 0
    /\ Goto(p, "push_timewait", "idle")
    /\ UNCHANGED <<ring, reader, writer, alive, e, begun, hist>>

(* Mutant: the slot forgets the offset.                                    *)
PushStore_NoOffset(p) ==
    /\ Goto(p, "push_locked", "push_post")
    /\ ptr' = [ptr EXCEPT ![count % Capacity] = e[p]]
    /\ count' = count + 1
    /\ pushed' = Append(pushed, e[p])
    /\ UNCHANGED <<offset, reader, writer, alive, e, begun, popped>>

PushStore(p) ==
    /\ Goto(p, "push_locked", "push_post")
    /\ ptr' = [ptr EXCEPT ![(offset + count) % Capacity] = e[p]]
    /\ count' = count + 1
    /\ pushed' = Append(pushed, e[p])
    /\ UNCHANGED <<offset, reader, writer, alive, e, begun, popped>>

(* Mutant: an element that joins others posts nothing.                     *)
PushPost_FirstOnly(p) ==
    /\ Goto(p, "push_post", "idle")
    /\ reader' = IF count > 1 THEN reader ELSE reader + 1
    /\ UNCHANGED <<ring, writer, alive, e, begun, hist>>

PushPost(p) ==
    /\ Goto(p, "push_post", "idle")
    /\ reader' = reader + 1
    /\ UNCHANGED <<ring, writer, alive, e, begun, hist>>

-----------------------------------------------------------------------------
(* channel_pop and channel_pop_timeout                                     *)

PopCall(c, wait) ==
    /\ alive
    /\ Goto(c, "idle", wait)
    /\ UNCHANGED <<ring, reader, writer, alive, e, begun, hist>>

PopTake(c) ==
    /\ reader > 0
    /\ Goto(c, "pop_wait", "pop_locked") \/ Goto(c, "pop_timewait", "pop_locked")
    /\ reader' = reader - 1
    /\ UNCHANGED <<ring, writer, alive, e, begun, hist>>

(* Mutant: an expired pop gives back a slot it never took.                 *)
PopExpire_Posts(c) ==
    /\ reader = 0
    /\ Goto(c, "pop_timewait", "idle")
    /\ writer' = writer + 1
    /\ UNCHANGED <<ring, reader, alive, e, begun, hist>>

PopExpire(c) ==
    /\ reader = 0
    /\ Goto(c, "pop_timewait", "idle")
    /\ UNCHANGED <<ring, reader, writer, alive, e, begun, hist>>

(* Mutant: the offset does not wrap.                                       *)
PopLoad_NoWrap(c) ==
    /\ Goto(c, "pop_locked", "pop_post")
    /\ popped' = Append(popped, ptr[offset])
    /\ count' = count - 1
    /\ offset' = offset + 1
    /\ UNCHANGED <<ptr, reader, writer, alive, e, begun, pushed>>

PopLoad(c) ==
    /\ Goto(c, "pop_locked", "pop_post")
    /\ popped' = Append(popped, ptr[offset])
    /\ count' = count - 1
    /\ offset' = (offset + 1) % Capacity
    /\ UNCHANGED <<ptr, reader, writer, alive, e, begun, pushed>>

PopPost(c) ==
    /\ Goto(c, "pop_post", "idle")
    /\ writer' = writer + 1
    /\ UNCHANGED <<ring, reader, alive, e, begun, hist>>

-----------------------------------------------------------------------------
(* channel_destroy: its caller has joined the threads that use it.         *)
Destroy ==
    /\ alive /\ \A t \in Threads : pc[t] = "idle"
    /\ alive' = FALSE
    /\ UNCHANGED <<ring, reader, writer, pc, e, begun, hist>>

(* channel_clear: compiled, but not declared in channel.h.                 *)
Clear ==
    /\ alive
    /\ count' = 0 /\ offset' = 0
    /\ UNCHANGED <<ptr, reader, writer, alive, pc, e, begun, hist>>

PushStep(p) == PushTake(p) \/ PushStore(p) \/ PushPost(p)
PopStep(c) == PopTake(c) \/ PopLoad(c) \/ PopPost(c)

Next ==
    \/ \E p \in Producers :
          \/ PushCall(p, "push_wait") \/ PushCall(p, "push_timewait")
          \/ PushExpire(p) \/ PushStep(p)
    \/ \E c \in Consumers :
          \/ PopCall(c, "pop_wait") \/ PopCall(c, "pop_timewait")
          \/ PopExpire(c) \/ PopStep(c)
    \/ Destroy

Spec == Init /\ [][Next]_vars

(* The declared operations and channel_clear.                              *)
SpecClear == Init /\ [][Next \/ Clear]_vars

(* A consumer of channel/test/test.c calls channel_pop in a loop, and a    *)
(* thread that holds a semaphore's token goes on to its post.  Which of    *)
(* several waiters sem_wait wakes is left open.                            *)
Fairness ==
    /\ \A t \in Threads :
          WF_vars((t \in Producers /\ (PushStore(t) \/ PushPost(t)))
               \/ (t \in Consumers /\ (PopCall(t, "pop_wait") \/ PopLoad(t) \/ PopPost(t))))
    /\ WF_vars(\E c \in Consumers : PopTake(c))

SpecFair == Spec /\ Fairness

-----------------------------------------------------------------------------
(* Properties                                                              *)

In(l) == {t \in Threads : pc[t] = l}

(* The two assertions of channel.c hold when a thread reaches them: a      *)
(* producer that passed sema_wait(&c->writer) finds a free slot            *)
(* (channel.c:79), a consumer that passed sema_wait(&c->reader) an element *)
(* (channel.c:96), whatever the other threads did since.                   *)
AssertsHold ==
    /\ \A p \in Producers : pc[p] = "push_locked" => count < Capacity
    /\ \A c \in Consumers : pc[c] = "pop_locked" => count - 1 >= 0

(* Every slot is accounted for: it is free (writer), filled (reader), or   *)
(* in the hands of exactly one thread between its two semaphore calls; no  *)
(* path, the expired waits included, leaks or forges a token.              *)
TokensConserved ==
    /\ writer + reader + Cardinality(In("push_locked")) + Cardinality(In("push_post"))
         + Cardinality(In("pop_locked")) + Cardinality(In("pop_post")) = Capacity
    /\ count = reader + Cardinality(In("push_post")) + Cardinality(In("pop_locked"))

(* The elements between offset and offset + count, oldest first.           *)
Contents == [i \in 1 .. count |-> ptr[(offset + i - 1) % Capacity]]

(* What was popped, followed by what the ring holds, is what was pushed:   *)
(* no element is lost, duplicated, reordered or overwritten (the memcpy of *)
(* channel.c:80 and :93).                                                  *)
FifoOrder == popped \o Contents = pushed

(* The assertion of channel.c:96 read as a property of the ring.           *)
CountNonNegative == count >= 0

(* The channel implements a bounded FIFO queue whose contents are the      *)
(* ring's: each locked step is one Put or Get, every other step changes    *)
(* nothing a caller can see, and an element that was pushed is eventually  *)
(* popped while the consumers keep calling: a post is never lost.          *)
Fifo == INSTANCE BoundedFifo WITH queue <- Contents, sent <- pushed, received <- popped,
                            open <- alive
ImplementsFifo == Fifo!Spec
=============================================================================
