------------------------------ MODULE Buffers -------------------------------
(***************************************************************************)
(* net::buffers (net/buffers.h, net/buffers.cpp) and the free list of      *)
(* net::buffer::allocator (net/buffer.h, net/buffer.cpp), which link the   *)
(* same objects through the same pointers, called by threads that follow   *)
(* net::sender: producers allocate buffers, push them and, when the queue  *)
(* has become too long, take them all and save them; a runner takes all    *)
(* the buffers, waiting for some, sends them and pushes the rest back.     *)
(* Consumers use the operations that net::sender does not: they take and   *)
(* push back single buffers.                                               *)
(*                                                                         *)
(* The queue is a ring through Header, the free list ends in Null.  What   *)
(* happens under a mutex is one action.  The content of a buffer, its      *)
(* transmission and its file are left out: the transmission may fail and,  *)
(* in SpecSaveFails, the file may.  Of the pointers to the previous object *)
(* only that of Header is ever read, and modelled.                         *)
(***************************************************************************)
EXTENDS Naturals, Sequences, SequencesExt, FiniteSets

CONSTANTS
  Buffer,        \* the objects that memory has room for
  Header,        \* _M_header of the queue
  Null,          \* nullptr
  Producers, Consumers, Runner,   \* the threads
  MaxQueued,     \* max_queued_buffers of net::sender
  Allocation,    \* allocation: how many buffers are allocated at a time
  MaxRange       \* bound: buffers in the chain of a producer

ASSUME BuffersAssumption ==
  /\ IsFiniteSet(Buffer)
  /\ Header \notin Buffer /\ Null \notin Buffer /\ Header # Null
  /\ Producers \cap Consumers = {} /\ Runner \notin Producers \cup Consumers
  /\ MaxQueued \in Nat /\ Allocation \in Nat \ {0} /\ MaxRange \in Nat

Thread  == Producers \cup Consumers \cup {Runner}
Pointer == Buffer \cup {Header, Null}

VARIABLES
  next,          \* _M_next of every object
  back,          \* _M_prev of Header
  size,          \* _M_count of the queue
  free,          \* _M_first of the allocator
  fresh,         \* objects not allocated yet
  first, last,   \* the chain in the hands of a thread, or Null
  added,         \* added[t]: what distance() told t
  pc             \* pc[t]: where thread t is

queueVars == <<next, back, size>>
poolVars  == <<free, fresh>>
locals    == <<first, last, added>>
vars      == <<queueVars, poolVars, locals, pc>>

Init ==
  /\ next = [b \in Buffer \cup {Header} |-> IF b = Header THEN b ELSE Null]
  /\ back = Header /\ size = 0
  /\ free = Null /\ fresh = Buffer
  /\ first = [t \in Thread |-> Null] /\ last = first
  /\ added = [t \in Thread |-> 0]
  /\ pc = [t \in Thread |-> IF t = Runner THEN "pop" ELSE "idle"]

Goto(t, label) == pc' = [pc EXCEPT ![t] = label]

Give(t, f, l) == /\ first' = [first EXCEPT ![t] = f]
                 /\ last'  = [last EXCEPT ![t] = l]

-----------------------------------------------------------------------------
(* Chains.                                                                 *)

(* The objects met by following next from f, at most as many as exist.     *)
Walk(f) ==
  LET at[i \in 0..Cardinality(Buffer)] ==
        IF i = 0 THEN f
        ELSE IF at[i - 1] \in DOMAIN next THEN next[at[i - 1]] ELSE Null
  IN at

Reached(f, l) == {i \in DOMAIN Walk(f) : Walk(f)[i] = l}

(* The chain from f to l, both included. *)
Chain(f, l) ==
  IF f = Null THEN <<>>
  ELSE LET n == IF Reached(f, l) = {} THEN Cardinality(Buffer)
                ELSE Min(Reached(f, l))
       IN [i \in 1..n + 1 |-> Walk(f)[i - 1]]

Queue    == IF next[Header] = Header THEN <<>>
            ELSE Chain(next[Header], back)
FreeList == IF free = Null THEN <<>> ELSE Front(Chain(free, Null))

-----------------------------------------------------------------------------
(* The allocator.                                                          *)

(* get(): the first buffer of the free list or, if there is none, of those *)
(* allocated now, as many as asked for or, when memory is short, fewer.    *)
(* The caller makes the buffer the last one of its chain.                  *)
Get(p) ==
  /\ pc[p] = "idle"
  /\ Len(Chain(first[p], last[p])) < MaxRange
  /\ \E new \in SUBSET fresh :
       LET s     == SetToSeq(new)
           links1 == [b \in DOMAIN next |->
                        IF b \in new
                        THEN LET i == CHOOSE i \in DOMAIN s : s[i] = b
                             IN IF i < Len(s) THEN s[i + 1] ELSE Null
                        ELSE next[b]]
           head  == IF free # Null THEN free ELSE s[1]
       IN /\ IF free # Null THEN new = {}
             ELSE new # {} /\ Cardinality(new) <= Allocation
          /\ fresh' = fresh \ new
          /\ free' = links1[head]
          /\ IF first[p] = Null
             THEN next' = links1 /\ Give(p, head, head)
             ELSE /\ next' = [links1 EXCEPT ![last[p]] = head]
                  /\ Give(p, first[p], head)
  /\ UNCHANGED <<back, size, added, pc>>

(* Mutant of Put: the successor is read after put() has changed it. *)
PutThenRead(t, label) ==
  /\ next' = [next EXCEPT ![first[t]] = free]
  /\ free' = first[t]
  /\ IF first[t] = last[t]
     THEN Give(t, Null, Null) /\ Goto(t, label)
     ELSE Give(t, free, last[t]) /\ UNCHANGED pc
  /\ UNCHANGED <<back, size, fresh, added>>

(* The caller reads the successor of its first buffer, unless that is also *)
(* the last one, and then gives the buffer to put().                       *)
Put(t, label) ==
  /\ next' = [next EXCEPT ![first[t]] = free]
  /\ free' = first[t]
  /\ IF first[t] = last[t]
     THEN Give(t, Null, Null) /\ Goto(t, label)
     ELSE Give(t, next[first[t]], last[t]) /\ UNCHANGED pc
  /\ UNCHANGED <<back, size, fresh, added>>

-----------------------------------------------------------------------------
(* The queue.                                                              *)

Waiting == {t \in Thread : pc[t] = "wait"}

(* pthread_cond_signal() by t, which goes on at label. *)
Signal(t, label) ==
  IF Waiting = {} THEN Goto(t, label)
  ELSE \E w \in Waiting : pc' = [pc EXCEPT ![t] = label, ![w] = "woken"]

(* distance(), before the mutex is locked; a single buffer counts one. *)
Measure(t) ==
  /\ pc[t] = "measure"
  /\ added' = [added EXCEPT ![t] = Len(Chain(first[t], last[t]))]
  /\ Goto(t, "push")
  /\ UNCHANGED <<queueVars, poolVars, first, last>>

IsEmpty == next[Header] = Header

(* What both ends of the queue have in common. *)
Added(t) ==
  /\ size' = size + added[t]
  /\ added' = [added EXCEPT ![t] = 0]
  /\ Give(t, Null, Null)
  /\ UNCHANGED poolVars

(* Mutant of PushBack: nobody is woken. *)
PushBackSilent(t, label) ==
  /\ next' = [next EXCEPT ![last[t]] = Header, ![back] = first[t]]
  /\ back' = last[t]
  /\ Added(t)
  /\ Goto(t, label)

PushBack(t, label) ==
  /\ next' = [next EXCEPT ![last[t]] = Header, ![back] = first[t]]
  /\ back' = last[t]
  /\ Added(t)
  /\ Signal(t, label)

(* Mutant of PushFront: the chain is not joined to the queue behind it. *)
PushFrontCuts(t, label) ==
  /\ back' = last[t]
  /\ next' = [next EXCEPT ![last[t]] = Header, ![Header] = first[t]]
  /\ Added(t)
  /\ Signal(t, label)

PushFront(t, label) ==
  /\ back' = IF IsEmpty THEN last[t] ELSE back
  /\ next' = [next EXCEPT ![last[t]] = next[Header], ![Header] = first[t]]
  /\ Added(t)
  /\ Signal(t, label)

(* pop(first, last). *)
PopAll(t, label) ==
  /\ ~IsEmpty
  /\ Give(t, next[Header], back)
  /\ next' = [next EXCEPT ![Header] = Header]
  /\ back' = Header /\ size' = 0
  /\ Goto(t, label)
  /\ UNCHANGED <<poolVars, added>>

(* Mutant of PopFirst: no test whether there is a buffer. *)
PopFirstUnchecked(t, label) ==
  /\ LET buf == next[Header]
     IN /\ back' = IF next[buf] = Header THEN Header ELSE back
        /\ next' = [next EXCEPT ![Header] = next[buf]]
        /\ Give(t, buf, buf)
  /\ size' = size - 1
  /\ Goto(t, label)
  /\ UNCHANGED <<poolVars, added>>

(* Mutant of PopFirst: the successor keeps its previous object. *)
PopFirstKeepsLast(t, label) ==
  /\ ~IsEmpty
  /\ LET buf == next[Header]
     IN /\ next' = [next EXCEPT ![Header] = next[buf]]
        /\ Give(t, buf, buf)
  /\ size' = size - 1
  /\ Goto(t, label)
  /\ UNCHANGED <<back, poolVars, added>>

(* pop_front(). *)
PopFirst(t, label) ==
  /\ ~IsEmpty
  /\ LET buf == next[Header]
     IN /\ back' = IF next[buf] = Header THEN Header ELSE back
        /\ next' = [next EXCEPT ![Header] = next[buf]]
        /\ Give(t, buf, buf)
  /\ size' = size - 1
  /\ Goto(t, label)
  /\ UNCHANGED <<poolVars, added>>

(* Nothing is taken: the thread goes on at label. *)
PopNothing(t, label) ==
  /\ Goto(t, label)
  /\ UNCHANGED <<queueVars, poolVars, locals>>

(* A timed operation takes what it came for, at once or when it is woken   *)
(* and the queue is not empty; otherwise it waits, or waits again.         *)
Take(t, label) == IF t \in Consumers THEN PopFirst(t, label)
                                     ELSE PopAll(t, label)

Sleep(t) == /\ IsEmpty
            /\ Goto(t, "wait")
            /\ UNCHANGED <<queueVars, poolVars, locals>>

(* pthread_cond_timedwait() may return without a signal.                   *)
SpuriousWakeup(t) ==
  /\ pc[t] = "wait"
  /\ Goto(t, "woken")
  /\ UNCHANGED <<queueVars, poolVars, locals>>

(* The wait times out: the operation returns without another look.         *)
Timeout(t) ==
  /\ pc[t] = "wait"
  /\ PopNothing(t, IF t = Runner THEN "pop" ELSE "idle")

-----------------------------------------------------------------------------
(* The producers: send() and save_buffers() of net::sender.                *)

StartPush(p) ==
  /\ pc[p] = "idle" /\ first[p] # Null
  /\ Goto(p, "measure")
  /\ UNCHANGED <<queueVars, poolVars, locals>>

(* push_back() and the test of the count it returns. *)
Send(p) ==
  /\ pc[p] = "push"
  /\ PushBack(p, IF size + added[p] > MaxQueued THEN "overflow" ELSE "idle")

SavePop(p) ==
  /\ pc[p] = "overflow"
  /\ \/ PopAll(p, "save")
     \/ IsEmpty /\ PopNothing(p, "idle")

Saved(p) ==
  /\ pc[p] = "save"
  /\ Put(p, "idle")

(* After a failure the buffer is put back too, and is the next to be saved. *)
SaveFails(p) ==
  /\ pc[p] = "save"
  /\ next' = [next EXCEPT ![first[p]] = free]
  /\ free' = first[p]
  /\ UNCHANGED <<back, size, fresh, locals, pc>>

ProducerStep(p) ==
  Get(p) \/ StartPush(p) \/ Measure(p) \/ Send(p) \/ SavePop(p) \/ Saved(p)

-----------------------------------------------------------------------------
(* The runner: the queued buffers in run() of net::sender.                 *)

RunnerTakes ==
  /\ pc[Runner] \in {"pop", "woken"}
  /\ Take(Runner, "send") \/ Sleep(Runner)

Sent ==
  /\ pc[Runner] = "send"
  /\ Put(Runner, "pop")

SendFails ==
  /\ pc[Runner] = "send"
  /\ Goto(Runner, "measure")
  /\ UNCHANGED <<queueVars, poolVars, locals>>

PushUnsent ==
  /\ pc[Runner] = "push"
  /\ PushFront(Runner, "pop")

RunnerStep == \/ RunnerTakes \/ SpuriousWakeup(Runner) \/ Sent \/ SendFails
              \/ Measure(Runner) \/ PushUnsent

-----------------------------------------------------------------------------
(* The consumers: pop_front(), with and without timeout, push_front().     *)

ConsumerPops(c) ==
  /\ pc[c] = "idle"
  /\ \/ PopFirst(c, "hold")
     \/ IsEmpty /\ PopNothing(c, "idle")

ConsumerTakes(c) ==
  /\ pc[c] \in {"idle", "woken"}
  /\ Take(c, "hold") \/ Sleep(c)

ConsumerPuts(c) ==
  /\ pc[c] = "hold"
  /\ Put(c, "idle")

ConsumerPushes(c) ==
  /\ pc[c] = "hold"
  /\ Goto(c, "measure")
  /\ UNCHANGED <<queueVars, poolVars, locals>>

PushSingle(c) ==
  /\ pc[c] = "push"
  /\ PushFront(c, "idle")

ConsumerStep(c) ==
  \/ ConsumerPops(c) \/ ConsumerTakes(c) \/ SpuriousWakeup(c)
  \/ ConsumerPuts(c) \/ ConsumerPushes(c) \/ Measure(c) \/ PushSingle(c)

-----------------------------------------------------------------------------
Next ==
  \/ \E p \in Producers : ProducerStep(p)
  \/ \E c \in Consumers : ConsumerStep(c) \/ Timeout(c)
  \/ RunnerStep \/ Timeout(Runner)

(* Buffers are saved without failure ... *)
Spec == Init /\ [][Next]_vars

(* ... or not. *)
SpecSaveFails == Init /\ [][Next \/ \E p \in Producers : SaveFails(p)]_vars

(* Every thread that can go on does; nothing forces a wait to time out or  *)
(* to end without a signal.                                                *)
FairSpec == Spec /\ WF_vars(RunnerTakes \/ Sent \/ Measure(Runner) \/ PushUnsent)

-----------------------------------------------------------------------------
(* Properties.                                                             *)

Labels == {"idle", "measure", "push", "overflow", "save", "pop", "wait",
           "woken", "send", "hold"}

(* Pointers point to objects or are null, counts are natural numbers.      *)
TypeOK ==
  /\ next \in [Buffer \cup {Header} -> Pointer]
  /\ back \in Buffer \cup {Header}
  /\ size \in Nat
  /\ free \in Buffer \cup {Null} /\ fresh \in SUBSET Buffer
  /\ first \in [Thread -> Buffer \cup {Null}]
  /\ last \in [Thread -> Buffer \cup {Null}]
  /\ added \in [Thread -> Nat]
  /\ pc \in [Thread -> Labels]

Held(t) == Chain(first[t], last[t])

(* Where buffer b is linked: the queue, the free list, a thread's chain.   *)
Sites(b) ==
  LET In(s) == {i \in DOMAIN s : s[i] = b}
  IN ({"queue"} \X In(Queue)) \cup ({"free"} \X In(FreeList))
     \cup UNION {{t} \X In(Held(t)) : t \in Thread}

(* Although all lists run through the same pointers, and chains are walked *)
(* and cut outside of the mutexes, every allocated buffer is linked at     *)
(* exactly one place of one list: none is lost, shared or put back twice.  *)
EveryBufferOnce ==
  \A b \in Buffer : Cardinality(Sites(b)) = IF b \in fresh THEN 0 ELSE 1

(* The ring that starts at Header closes at Header, through the object that *)
(* Header calls its last, and the count is its length, although distance() *)
(* counts a chain before the mutex is locked.                              *)
RingIntact ==
  /\ next[back] = Header
  /\ size = Len(Queue)

(* What threads take from the queue are the buffers that were added, each  *)
(* chain in order and at the end where it was pushed.                      *)
Abstract == INSTANCE BufferQueue
              WITH queue <- Queue, held <- [t \in Thread |-> Held(t)]
ImplementsQueue == Abstract!Spec

(* With the runner as the only thread that waits, signals alone are enough *)
(* to empty the queue again and again: no wake-up is lost.                 *)
QueueIsTaken == ~IsEmpty ~> IsEmpty
=============================================================================
