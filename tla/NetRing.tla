------------------------------ MODULE NetRing ------------------------------
(***************************************************************************)
(* BoundedMpsc (libs/net/src/ring.rs): the lock-free bounded ring through  *)
(* which sockets, interrupt handlers and other shards hand work to a       *)
(* network worker.  Any number of producers call try_push; one consumer    *)
(* calls try_pop.  Each slot carries a sequence number: a slot free for    *)
(* position k holds k, a filled one k + 1, and a released one the position *)
(* of the next lap, k + Capacity.                                          *)
(*                                                                         *)
(* One action is one access to shared memory.  Positions are usize in the  *)
(* code and natural numbers here: 2^64 pushes are out of reach, so the     *)
(* wrapping differences are the ordinary ones.  The relaxed load of        *)
(* enqueue may return an old value; so may the load of LoadPosition, whose *)
(* result is used a step later.                                            *)
(***************************************************************************)
EXTENDS Integers, Sequences

CONSTANTS
    Producer,       \* the contexts that push
    Value,          \* the values pushed
    Capacity,       \* the number of slots
    NoProducer,     \* the writer of a filled entry, in the abstract queue
    NoValue,        \* an empty slot, an empty hand, the None of try_pop
    MaxPosition     \* bound: no call of try_push starts at this position

ASSUME RingAssumption ==
    /\ Capacity \in Nat /\ Capacity >= 2
    /\ NoProducer \notin Producer
    /\ NoValue \notin Value
    /\ MaxPosition \in Nat

VARIABLES
    enqueue,    \* the next position to reserve
    dequeue,    \* the next position to take
    sequence,   \* slot -> its sequence number
    value,      \* slot -> what it holds
    pc,         \* producer -> where it is in try_push
    position,   \* producer -> its local position
    item,       \* producer -> the value it still owns
    popPc,      \* where the consumer is in try_pop
    held,       \* the value the consumer has read
    out         \* the result of the last try_pop

ringVars == <<enqueue, dequeue, sequence, value>>
pushVars == <<pc, position, item>>
popVars == <<popPc, held, out>>
vars == <<enqueue, dequeue, sequence, value, pc, position, item, popPc, held, out>>

Slot == 0 .. (Capacity - 1)

Index(k) == k % Capacity

Init ==
    /\ enqueue = 0
    /\ dequeue = 0
    /\ sequence = [s \in Slot |-> s]
    /\ value = [s \in Slot |-> NoValue]
    /\ pc = [p \in Producer |-> "idle"]
    /\ position = [p \in Producer |-> 0]
    /\ item = [p \in Producer |-> NoValue]
    /\ popPc = "idle"
    /\ held = NoValue
    /\ out = NoValue

-----------------------------------------------------------------------------
(* try_push *)

TryPush(p, v) ==
    /\ pc[p] = "idle"
    /\ enqueue < MaxPosition
    /\ item' = [item EXCEPT ![p] = v]
    /\ pc' = [pc EXCEPT ![p] = "start"]
    /\ UNCHANGED <<ringVars, position, popVars>>

LoadPosition(p) ==
    /\ pc[p] = "start"
    /\ position' = [position EXCEPT ![p] = enqueue]
    /\ pc' = [pc EXCEPT ![p] = "load"]
    /\ UNCHANGED <<ringVars, item, popVars>>

(* The sequence number of the slot, against the position: the slot is free, *)
(* its last lap is not released, or another producer was faster.            *)
SlotFree(p) ==
    /\ pc[p] = "load"
    /\ sequence[Index(position[p])] = position[p]
    /\ pc' = [pc EXCEPT ![p] = "cas"]
    /\ UNCHANGED <<ringVars, position, item, popVars>>

(* Mutant: any slot that is not free counts as a full ring. *)
RingFullAnyDistance(p) ==
    /\ pc[p] = "load"
    /\ sequence[Index(position[p])] # position[p]
    /\ pc' = [pc EXCEPT ![p] = "idle"]
    /\ item' = [item EXCEPT ![p] = NoValue]
    /\ UNCHANGED <<ringVars, position, popVars>>

RingFull(p) ==
    /\ pc[p] = "load"
    /\ sequence[Index(position[p])] < position[p]
    /\ pc' = [pc EXCEPT ![p] = "idle"]
    /\ item' = [item EXCEPT ![p] = NoValue]
    /\ UNCHANGED <<ringVars, position, popVars>>

SlotTaken(p) ==
    /\ pc[p] = "load"
    /\ sequence[Index(position[p])] > position[p]
    /\ pc' = [pc EXCEPT ![p] = "start"]
    /\ UNCHANGED <<ringVars, position, item, popVars>>

(* Mutant: the position is stored, not compared and exchanged. *)
ReserveByStore(p) ==
    /\ pc[p] = "cas"
    /\ enqueue' = position[p] + 1
    /\ pc' = [pc EXCEPT ![p] = "write"]
    /\ UNCHANGED <<dequeue, sequence, value, position, item, popVars>>

(* compare_exchange_weak: it fails when the position is out of date, and    *)
(* may fail when it is not.                                                 *)
ReservePosition(p) ==
    /\ pc[p] = "cas"
    /\ enqueue = position[p]
    /\ enqueue' = position[p] + 1
    /\ pc' = [pc EXCEPT ![p] = "write"]
    /\ UNCHANGED <<dequeue, sequence, value, position, item, popVars>>

ReserveFails(p) ==
    /\ pc[p] = "cas"
    /\ position' = [position EXCEPT ![p] = enqueue]
    /\ pc' = [pc EXCEPT ![p] = "load"]
    /\ UNCHANGED <<ringVars, item, popVars>>

WriteValue(p) ==
    /\ pc[p] = "write"
    /\ value' = [value EXCEPT ![Index(position[p])] = item[p]]
    /\ item' = [item EXCEPT ![p] = NoValue]
    /\ pc' = [pc EXCEPT ![p] = "publish"]
    /\ UNCHANGED <<enqueue, dequeue, sequence, position, popVars>>

PublishSlot(p) ==
    /\ pc[p] = "publish"
    /\ sequence' = [sequence EXCEPT ![Index(position[p])] = position[p] + 1]
    /\ pc' = [pc EXCEPT ![p] = "idle"]
    /\ UNCHANGED <<enqueue, dequeue, value, position, item, popVars>>

-----------------------------------------------------------------------------
(* try_pop, called by the one consumer *)

PopFinds ==
    /\ popPc = "idle"
    /\ sequence[Index(dequeue)] = dequeue + 1
    /\ popPc' = "advance"
    /\ UNCHANGED <<ringVars, pushVars, held, out>>

PopFindsNothing ==
    /\ popPc = "idle"
    /\ sequence[Index(dequeue)] # dequeue + 1
    /\ out' = NoValue
    /\ UNCHANGED <<ringVars, pushVars, popPc, held>>

AdvanceDequeue ==
    /\ popPc = "advance"
    /\ dequeue' = dequeue + 1
    /\ popPc' = "read"
    /\ UNCHANGED <<enqueue, sequence, value, pushVars, held, out>>

(* Mutant: the slot is found from the counter that has already moved on. *)
ReadNextSlot ==
    /\ popPc = "read"
    /\ held' = value[Index(dequeue)]
    /\ value' = [value EXCEPT ![Index(dequeue)] = NoValue]
    /\ popPc' = "release"
    /\ UNCHANGED <<enqueue, dequeue, sequence, pushVars, out>>

ReadValue ==
    /\ popPc = "read"
    /\ held' = value[Index(dequeue - 1)]
    /\ value' = [value EXCEPT ![Index(dequeue - 1)] = NoValue]
    /\ popPc' = "release"
    /\ UNCHANGED <<enqueue, dequeue, sequence, pushVars, out>>

(* The store of the sequence gives the slot to the next lap. *)
ReleaseSlot ==
    /\ popPc = "release"
    /\ sequence' = [sequence EXCEPT ![Index(dequeue - 1)] = dequeue - 1 + Capacity]
    /\ out' = held
    /\ held' = NoValue
    /\ popPc' = "idle"
    /\ UNCHANGED <<enqueue, dequeue, value, pushVars>>

-----------------------------------------------------------------------------
Push(p) ==
    \/ \E v \in Value : TryPush(p, v)
    \/ LoadPosition(p) \/ SlotFree(p) \/ RingFull(p) \/ SlotTaken(p)
    \/ ReservePosition(p) \/ ReserveFails(p) \/ WriteValue(p) \/ PublishSlot(p)

TryPop == PopFinds \/ PopFindsNothing \/ AdvanceDequeue \/ ReadValue \/ ReleaseSlot

Next == TryPop \/ \E p \in Producer : Push(p)

Spec == Init /\ [][Next]_vars

-----------------------------------------------------------------------------
(* Positions below Released have been taken and their slots given back. *)
Released == IF popPc \in {"read", "release"} THEN dequeue - 1 ELSE dequeue

Writing(p) == pc[p] \in {"write", "publish"}

(* The types of the ring's fields and of the callers' locals.              *)
TypeOK ==
    /\ enqueue \in Nat /\ dequeue \in Nat
    /\ sequence \in [Slot -> Nat]
    /\ value \in [Slot -> Value \cup {NoValue}]
    /\ pc \in [Producer -> {"idle", "start", "load", "cas", "write", "publish"}]
    /\ position \in [Producer -> Nat]
    /\ item \in [Producer -> Value \cup {NoValue}]
    /\ popPc \in {"idle", "advance", "read", "release"}
    /\ held \in Value \cup {NoValue}
    /\ out \in Value \cup {NoValue}

(* The unsynchronised accesses of try_push and try_pop to a slot's value    *)
(* never meet: two producers that write hold different slots, and the slot  *)
(* the consumer reads is held by none and has been filled.                  *)
SlotExclusive ==
    /\ \A p, q \in Producer :
          Writing(p) /\ Writing(q) /\ p # q => Index(position[p]) # Index(position[q])
    /\ popPc \in {"advance", "read"} =>
          LET s == Index(Released) IN
          /\ value[s] # NoValue
          /\ \A p \in Producer : Writing(p) => Index(position[p]) # s

(* A push is refused only when every slot is taken: "a full queue rejects   *)
(* the newest element", and no other queue does.                            *)
RefusedOnlyWhenFull ==
    [][\A p \in Producer : RingFull(p) => enqueue - Released = Capacity]_vars

(* The ring read as a queue: an entry for every position that is reserved   *)
(* and not released, with the producer that has yet to publish it.          *)
WriterOf(k) == CHOOSE p \in Producer : Writing(p) /\ position[p] = k

QueueEntry(k) ==
    IF sequence[Index(k)] = k
    THEN LET p == WriterOf(k) IN
         [val |-> IF pc[p] = "write" THEN item[p] ELSE value[Index(k)], writer |-> p]
    ELSE [val |-> IF popPc = "release" /\ k = Released THEN held ELSE value[Index(k)],
          writer |-> NoProducer]

Queue == INSTANCE MpscQueue
    WITH queue <- [i \in 1 .. (enqueue - Released) |-> QueueEntry(Released + i - 1)]

(* The ring implements the queue its users rely on: try_push and try_pop    *)
(* lose, duplicate and reorder no value, and try_pop returns None only      *)
(* without a filled head.                                                   *)
ImplementsQueue == Queue!QueueSpec
=============================================================================
