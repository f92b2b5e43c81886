------------------------------- MODULE Outbox -------------------------------
(***************************************************************************)
(* What net::sender promises to the program that uses it, without threads, *)
(* queue, disk or connection: buffers are accepted, and the content of     *)
(* every accepted buffer is handed over to the peer's connection at most   *)
(* once and, when InOrder is TRUE, in the order of acceptance.             *)
(*                                                                         *)
(* Buffers are named by their position in the order of acceptance.         *)
(***************************************************************************)
EXTENDS Naturals, Sequences

CONSTANT InOrder

VARIABLES accepted,   \* number of buffers accepted by send()
          delivered   \* the buffers handed over whole, in order of hand-over

vars == <<accepted, delivered>>

Init == /\ accepted = 0
        /\ delivered = <<>>

(* A caller gives one buffer, or a chain of buffers, to send(). *)
Accept == /\ accepted' \in Nat
          /\ accepted' > accepted
          /\ UNCHANGED delivered

(* One accepted buffer is handed over. *)
Deliver == \E m \in 1..accepted :
             /\ \A i \in 1..Len(delivered) : delivered[i] # m
             /\ InOrder => m = Len(delivered) + 1
             /\ delivered' = Append(delivered, m)
             /\ UNCHANGED accepted

Next == Accept \/ Deliver

Spec == Init /\ [][Next]_vars
=============================================================================
