---------------------------- MODULE BufferQueue -----------------------------
(***************************************************************************)
(* What net::buffers promises to its callers (net/buffers.h), without      *)
(* pointers, locks and condition variable: a queue of buffers to which a   *)
(* thread adds the chain it holds at either end, and from which it takes   *)
(* the first buffer or all of them, in order.                              *)
(***************************************************************************)
EXTENDS Naturals, Sequences, SequencesExt

CONSTANTS Buffer,   \* the buffers
          Thread    \* the callers

VARIABLES queue,    \* the buffers in the queue
          held      \* held[t]: the chain of buffers in the hands of t

vars == <<queue, held>>

Init == /\ queue = <<>>
        /\ held = [t \in Thread |-> <<>>]

Hold(t, chain) == held' = [held EXCEPT ![t] = chain]

(* Outside the queue: a thread gets a buffer that nobody has, or gives up  *)
(* the first one of its chain.                                             *)
Obtain(t) == \E b \in Buffer :
               /\ b \notin ToSet(queue)
               /\ \A u \in Thread : b \notin ToSet(held[u])
               /\ Hold(t, Append(held[t], b))
               /\ UNCHANGED queue

Release(t) == /\ held[t] # <<>>
              /\ Hold(t, Tail(held[t]))
              /\ UNCHANGED queue

PushBack(t) == /\ held[t] # <<>>
               /\ queue' = queue \o held[t]
               /\ Hold(t, <<>>)

PushFront(t) == /\ held[t] # <<>>
                /\ queue' = held[t] \o queue
                /\ Hold(t, <<>>)

PopFront(t) == /\ queue # <<>> /\ held[t] = <<>>
               /\ queue' = Tail(queue)
               /\ Hold(t, <<Head(queue)>>)

Pop(t) == /\ queue # <<>> /\ held[t] = <<>>
          /\ queue' = <<>>
          /\ Hold(t, queue)

Next == \E t \in Thread : \/ Obtain(t) \/ Release(t)
                          \/ PushBack(t) \/ PushFront(t)
                          \/ PopFront(t) \/ Pop(t)

Spec == Init /\ [][Next]_vars
=============================================================================
