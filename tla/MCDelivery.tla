----------------------------- MODULE MCDelivery -----------------------------
(***************************************************************************)
(* The two queues that carry work from any number of producers to one      *)
(* consumer: the ring of the network workers and the ready list of epoll.  *)
(* They share no state, so a behaviour uses one of them, chosen initially. *)
(* The producers and the values of the ring and the users of the eventfd   *)
(* are interchangeable, and every property checked is a safety property,   *)
(* so these sets are symmetric.                                            *)
(***************************************************************************)
EXTENDS NetRing, Epoll, TLC

VARIABLE channel        \* the queue in use

Symmetry == Permutations(Producer) \cup Permutations(Value) \cup Permutations(EvTask)

DeliveryInit == channel \in {"ring", "epoll"} /\ Init /\ EpollInit

DeliveryNext ==
    \/ channel = "ring" /\ Next /\ UNCHANGED <<channel, epollVars>>
    \/ channel = "epoll" /\ EpollNext /\ UNCHANGED <<channel, vars>>

DeliverySpec == DeliveryInit /\ [][DeliveryNext]_<<channel, vars, epollVars>>

=============================================================================
