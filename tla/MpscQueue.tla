----------------------------- MODULE MpscQueue -----------------------------
(***************************************************************************)
(* What a bounded multi-producer single-consumer ring promises to the      *)
(* network workers that use it: a queue of at most Capacity entries, taken *)
(* in the order in which the producers reserved their places.  A place is  *)
(* reserved first and filled later, by the producer that reserved it; the  *)
(* consumer takes only a filled head, and a producer is refused only when  *)
(* Capacity places are taken.                                              *)
(***************************************************************************)
EXTENDS Naturals, Sequences

CONSTANTS
    Producer,       \* the contexts that push
    Value,          \* the values pushed
    Capacity,       \* the places of the queue
    NoProducer,     \* the writer of a filled entry
    NoValue         \* what a pop returns from a queue without a filled head

ASSUME QueueAssumption ==
    /\ Capacity \in Nat /\ Capacity >= 2
    /\ NoProducer \notin Producer
    /\ NoValue \notin Value

VARIABLES
    queue,      \* the entries, the oldest first
    out         \* the result of the last pop

queueVars == <<queue, out>>

Entry == [val : Value, writer : Producer \cup {NoProducer}]

QueueInit ==
    /\ queue = <<>>
    /\ out = NoValue

(* A producer takes the next place for its value. *)
Reserve(p, v) ==
    /\ Len(queue) < Capacity
    /\ \A i \in DOMAIN queue : queue[i].writer # p
    /\ queue' = Append(queue, [val |-> v, writer |-> p])
    /\ UNCHANGED out

(* The producer has filled its place: the consumer may take it. *)
Fill(p) ==
    \E i \in DOMAIN queue :
        /\ queue[i].writer = p
        /\ queue' = [queue EXCEPT ![i].writer = NoProducer]
        /\ UNCHANGED out

HeadIsFilled == queue # <<>> /\ queue[1].writer = NoProducer

(* The consumer takes the head, or finds none to take. *)
Pop ==
    /\ HeadIsFilled
    /\ out' = queue[1].val
    /\ queue' = Tail(queue)

PopNothing ==
    /\ ~HeadIsFilled
    /\ out' = NoValue
    /\ UNCHANGED queue

QueueNext ==
    \/ \E p \in Producer : Fill(p) \/ \E v \in Value : Reserve(p, v)
    \/ Pop
    \/ PopNothing

QueueSpec == QueueInit /\ [][QueueNext]_queueVars
=============================================================================
