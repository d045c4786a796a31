-------------------------- MODULE RecordLockProofs --------------------------
(***************************************************************************)
(* Record locks, for any number of processes and descriptions and a file   *)
(* of any size.  Three arguments: normalize turns separate ranges into the *)
(* shortest list that covers the same bytes (an induction over the turns   *)
(* of its loop); the bytes that the list covers change as ByteLocks says;  *)
(* and the wait protocol of setlk_inner loses no wake-up and leaves no     *)
(* ring of processes asleep.  LockInv is the inductive invariant of the    *)
(* last.                                                                   *)
(***************************************************************************)
EXTENDS RecordLock, ListProofs, FiniteSetTheorems

-----------------------------------------------------------------------------
(* Locks and their order *)

\* The fields of a lock, and the numbers among them.
LEMMA LockFields ==
    ASSUME NEW l \in Lock
    PROVE  /\ l.owner \in Owner /\ l.owner \in Nat /\ l.start \in Nat /\ l.end \in Nat
           /\ l.start \in 0 .. Top /\ l.end \in 1 .. Eof /\ l.type \in {"read", "write"}
<1>1. Top \in Nat /\ Owner \subseteq Nat
  BY LockAssumption, Zenon
<1>2. l.owner \in Owner /\ l.start \in 0 .. Top /\ l.end \in 1 .. Eof /\ l.type \in {"read", "write"}
  BY Zenon DEF Lock
<1>3. l.owner \in Nat
  BY <1>1, <1>2, Zenon
<1>4. l.start \in Nat /\ l.end \in Nat
  <2>1. l.start \in 0 .. Top /\ l.end \in 1 .. (Top + 1)
    BY <1>2, Zenon DEF Eof
  <2> QED BY <1>1, <2>1
<1> QED BY <1>2, <1>3, <1>4, Zenon

\* There are finitely many locks.
LEMMA LocksFinite ==
    ASSUME NEW S \in SUBSET Lock
    PROVE  IsFiniteSet(S) /\ Cardinality(S) \in Nat
<1> DEFINE Types == {"read", "write"}
           Ranges == (0 .. Top) \X (1 .. Eof)
           Args == (Owner \X Types) \X Ranges
           f == [a \in Args |-> [owner |-> a[1][1], start |-> a[2][1], end |-> a[2][2], type |-> a[1][2]]]
<1>1. IsFiniteSet(Owner) /\ Top \in Nat
  BY LockAssumption, Zenon
<1>2. IsFiniteSet(0 .. Top) /\ IsFiniteSet(1 .. Eof)
  BY <1>1, FS_Interval DEF Eof
<1>3. IsFiniteSet(Ranges)
  BY <1>2, FS_Product, Zenon
<1>4. IsFiniteSet(Types)
  <2>1. IsFiniteSet({"read"} \cup {"write"})
    BY FS_Singleton, FS_AddElement, Zenon
  <2>2. Types = {"read"} \cup {"write"}
    BY Zenon
  <2> QED BY <2>1, <2>2, Zenon
<1>5. IsFiniteSet(Owner \X Types)
  <2> HIDE DEF Types
  <2> QED BY <1>1, <1>4, FS_Product, Zenon
<1>6. IsFiniteSet(Args)
  <2> HIDE DEF Types, Ranges
  <2> QED BY <1>3, <1>5, FS_Product, Zenon
<1>7. f \in Surjection(Args, Lock)
  <2>1. f \in [Args -> Lock]
    BY Zenon DEF Lock
  <2>2. ASSUME NEW l \in Lock PROVE \E a \in Args : f[a] = l
    <3>1. l.owner \in Owner /\ l.type \in Types /\ l.start \in 0 .. Top /\ l.end \in 1 .. Eof
      BY Zenon DEF Lock
    <3>2. l = [owner |-> l.owner, start |-> l.start, end |-> l.end, type |-> l.type]
      BY Zenon DEF Lock
    <3> DEFINE a == <<<<l.owner, l.type>>, <<l.start, l.end>>>>
    <3>3. a \in Args
      BY <3>1, Zenon
    <3>4. f[a] = l
      BY <3>2, <3>3, Zenon
    <3> QED BY <3>3, <3>4, Zenon
  <2> HIDE DEF f, Args
  <2> QED BY <2>1, <2>2, Zenon DEF Surjection
<1>8. IsFiniteSet(Lock)
  <2> HIDE DEF f, Args
  <2> QED BY <1>6, <1>7, FS_Surjection, Zenon
<1> QED BY <1>8, FS_Subset, FS_CardinalityType, Zenon

\* Locks that normalize may be given: the ranges are of an owner each, none
\* is empty, and those of one owner do not overlap.
Separate(ls) ==
    /\ ls \subseteq Lock
    /\ \A l \in ls : l.start < l.end
    /\ \A l, k \in ls : l # k /\ l.owner = k.owner => ~RangesOverlap(l, k)

\* The order of sort_by_key, by owner and start, is transitive.
LEMMA SortsTransitive ==
    ASSUME NEW a \in Lock, NEW b \in Lock, NEW c \in Lock, SortsBefore(a, b), SortsBefore(b, c)
    PROVE  SortsBefore(a, c)
<1>1. a.owner \in Nat /\ b.owner \in Nat /\ c.owner \in Nat
      /\ a.start \in Nat /\ b.start \in Nat /\ c.start \in Nat
  BY LockFields, Zenon
<1>2. TypeOrder(a) \in Nat /\ TypeOrder(b) \in Nat /\ TypeOrder(c) \in Nat
  BY Zenon DEF TypeOrder
<1>3. /\ a.type = b.type => TypeOrder(a) = TypeOrder(b)
      /\ b.type = c.type => TypeOrder(b) = TypeOrder(c)
  BY Zenon DEF TypeOrder
<1> QED BY <1>1, <1>2, <1>3 DEF SortsBefore

\* Of separate locks one is sorted before all others.
LEMMA FirstSortedFacts ==
    ASSUME NEW S, Separate(S), S # {}
    PROVE  FirstSorted(S) \in S /\ \A k \in S \ {FirstSorted(S)} : SortsBefore(FirstSorted(S), k)
<1>0. \A l \in S : l \in Lock /\ l.start < l.end
  BY Zenon DEF Separate
<1>1. \A l \in S : l.owner \in Nat /\ l.start \in Nat /\ l.end \in Nat /\ l.type \in {"read", "write"}
  BY <1>0, LockFields, Zenon
<1>2. PICK l1 \in S : \A k \in S : l1.owner <= k.owner
  <2> DEFINE T == {k.owner : k \in S}
  <2>1. T \subseteq Nat /\ T # {}
    BY <1>1, Zenon
  <2>2. PICK m \in T : \A n \in T : m <= n
    BY <2>1, LeastElement, Zenon
  <2> QED BY <2>2, Zenon
<1> DEFINE S1 == {k \in S : k.owner = l1.owner}
<1>3. PICK l2 \in S1 : \A k \in S1 : TypeOrder(l2) <= TypeOrder(k)
  <2> DEFINE T == {TypeOrder(k) : k \in S1}
  <2>1. T \subseteq Nat /\ T # {}
    BY DEF TypeOrder
  <2>2. PICK m \in T : \A n \in T : m <= n
    BY <2>1, LeastElement, Zenon
  <2> QED BY <2>2, Zenon
<1> DEFINE S2 == {k \in S1 : k.type = l2.type}
<1>4. PICK l3 \in S2 : \A k \in S2 : l3.start <= k.start
  <2> DEFINE T == {k.start : k \in S2}
  <2>1. T \subseteq Nat /\ T # {}
    BY <1>1, Zenon
  <2>2. PICK m \in T : \A n \in T : m <= n
    BY <2>1, LeastElement, Zenon
  <2> QED BY <2>2, Zenon
<1>5. l3 \in S /\ l3.owner = l1.owner /\ l3.type = l2.type
  BY Zenon
<1>6. ASSUME NEW k \in S \ {l3} PROVE SortsBefore(l3, k)
  <2>1. CASE k.owner # l1.owner
    <3>1. l3.owner < k.owner
      BY <1>1, <1>2, <1>5, <2>1
    <3> QED BY <3>1, Zenon DEF SortsBefore
  <2>2. CASE k.owner = l1.owner /\ k.type # l2.type
    <3>1. TypeOrder(l2) <= TypeOrder(k) /\ l2 \in S
      BY <1>3, <2>2, Zenon
    <3>2. l2.type \in {"read", "write"} /\ k.type \in {"read", "write"}
      BY <1>1, <3>1, Zenon
    <3>3. TypeOrder(l3) < TypeOrder(k)
      BY <1>5, <2>2, <3>1, <3>2 DEF TypeOrder
    <3> QED BY <1>5, <2>2, <3>3, Zenon DEF SortsBefore
  <2>3. CASE k.owner = l1.owner /\ k.type = l2.type
    <3>1. l3.start <= k.start
      BY <1>4, <2>3, Zenon
    <3>2. l3.start # k.start
      <4>1. ~RangesOverlap(l3, k)
        BY <1>5, <1>6, <2>3, Zenon DEF Separate
      <4>2. l3.start < l3.end /\ k.start < k.end
        BY <1>0, <1>5, Zenon
      <4> QED BY <4>1, <4>2, Zenon DEF RangesOverlap
    <3>3. l3.start \in Nat /\ k.start \in Nat
      BY <1>1, <1>5, Zenon
    <3>4. l3.start < k.start
      BY <3>1, <3>2, <3>3
    <3> QED BY <1>5, <2>3, <3>4, Zenon DEF SortsBefore
  <2> QED BY <2>1, <2>2, <2>3, Zenon
<1>7. \E l \in S : \A k \in S \ {l} : SortsBefore(l, k)
  BY <1>5, <1>6, Zenon
<1> QED BY <1>7, Zenon DEF FirstSorted

\* a is sorted before b, and where they have one owner they do not overlap.
Before(a, b) == SortsBefore(a, b) /\ (a.owner = b.owner => ~RangesOverlap(a, b))

\* Moreover there is a gap between them where they have one type as well.
Apart(a, b) == Before(a, b) /\ (a.owner = b.owner /\ a.type = b.type => a.end < b.start)

NonEmpty(l) == l.start < l.end

\* b continues a.
Continues(a, b) == a.owner = b.owner /\ a.type = b.type /\ TouchesOrOverlaps(a.end, b.start)

Joined(a, b) == [a EXCEPT !.end = IF @ > b.end THEN @ ELSE b.end]

\* A lock that does not continue the last one continues none.
LEMMA ApartNext ==
    ASSUME NEW a \in Lock, NEW b \in Lock, NEW c \in Lock, NonEmpty(a), NonEmpty(b), NonEmpty(c),
           Apart(a, b), Before(b, c), Before(a, c)
    PROVE  Apart(a, c)
<1> USE DEF Apart, Before
<1>1. ASSUME a.owner = c.owner, a.type = c.type PROVE a.end < c.start
  <2>1. /\ a.owner \in Nat /\ b.owner \in Nat
        /\ a.start \in Nat /\ b.start \in Nat /\ c.start \in Nat /\ a.end \in Nat
        /\ a.type \in {"read", "write"} /\ b.type \in {"read", "write"}
    BY LockFields, Zenon
  <2>2. a.owner = b.owner
    BY <1>1, <2>1 DEF SortsBefore
  <2>3. a.type = b.type
    BY <1>1, <2>1, <2>2 DEF SortsBefore, TypeOrder
  <2>4. a.end < b.start /\ b.start < c.start
    BY <1>1, <2>1, <2>2, <2>3 DEF SortsBefore, TypeOrder
  <2> QED BY <2>1, <2>4
<1> QED BY <1>1, Zenon

\* Two ranges of which the second continues the first become one range, from the
\* start of the first to the end of the second.
LEMMA JoinedFacts ==
    ASSUME NEW a \in Lock, NEW b \in Lock, NonEmpty(a), NonEmpty(b), Before(a, b), Continues(a, b)
    PROVE  /\ Joined(a, b) \in Lock
           /\ Joined(a, b).owner = a.owner /\ Joined(a, b).type = a.type
           /\ Joined(a, b).start = a.start /\ Joined(a, b).end = b.end
           /\ b.start = a.end
<1>1. /\ a.start \in Nat /\ b.start \in Nat /\ a.end \in Nat /\ b.end \in Nat
  BY LockFields, Zenon
<1>2. a.start < b.start /\ ~RangesOverlap(a, b) /\ b.start <= a.end
  <2>1. a.owner = b.owner /\ a.type = b.type /\ b.start <= a.end
    BY Zenon DEF Continues, TouchesOrOverlaps
  <2>2. a.owner \in Nat
    BY LockFields, Zenon
  <2> QED BY <2>1, <2>2 DEF Before, SortsBefore, TypeOrder
<1>3. b.start = a.end /\ a.end < b.end
  BY <1>1, <1>2 DEF RangesOverlap, NonEmpty
<1>4. Joined(a, b) = [a EXCEPT !.end = b.end]
  BY <1>1, <1>3 DEF Joined
<1>5. [a EXCEPT !.end = b.end] = [owner |-> a.owner, start |-> a.start, end |-> b.end, type |-> a.type]
  BY DEF Lock
<1>6. a.owner \in Owner /\ a.start \in 0 .. Top /\ b.end \in 1 .. Eof /\ a.type \in {"read", "write"}
  BY LockFields, Zenon
<1>7. Joined(a, b) \in Lock
  BY <1>4, <1>5, <1>6, Zenon DEF Lock
<1> QED BY <1>3, <1>4, <1>5, <1>7, Zenon

\* What was before the two is before what they become, and what was after both
\* is after it.
LEMMA JoinedOrder ==
    ASSUME NEW a \in Lock, NEW b \in Lock, NonEmpty(a), NonEmpty(b), Before(a, b), Continues(a, b),
           NEW k \in Lock, NonEmpty(k)
    PROVE  /\ Apart(k, a) /\ Before(k, b) => Apart(k, Joined(a, b))
           /\ Before(a, k) /\ Before(b, k) => Before(Joined(a, b), k)
           /\ NonEmpty(Joined(a, b))
<1> DEFINE j == Joined(a, b)
<1>1. /\ j \in Lock /\ j.owner = a.owner /\ j.type = a.type /\ j.start = a.start /\ j.end = b.end
      /\ b.start = a.end
  BY JoinedFacts, Zenon
<1>2. /\ a.start \in Nat /\ b.start \in Nat /\ a.end \in Nat /\ b.end \in Nat
      /\ k.start \in Nat /\ k.end \in Nat
      /\ a.start < a.end /\ b.start < b.end /\ k.start < k.end
  BY LockFields, Zenon DEF NonEmpty
<1>3. a.owner = b.owner /\ a.type = b.type
  BY Zenon DEF Continues
<1> HIDE DEF j
<1>4. TypeOrder(j) = TypeOrder(a)
  BY <1>1, Zenon DEF TypeOrder
<1>5. /\ RangesOverlap(k, j) => RangesOverlap(k, a) \/ RangesOverlap(k, b)
      /\ RangesOverlap(j, k) => RangesOverlap(a, k) \/ RangesOverlap(b, k)
  BY <1>1, <1>2 DEF RangesOverlap
<1>6. SortsBefore(k, a) <=> SortsBefore(k, j)
  BY <1>1, <1>4, Zenon DEF SortsBefore
<1>7. SortsBefore(a, k) <=> SortsBefore(j, k)
  BY <1>1, <1>4, Zenon DEF SortsBefore
<1>8. NonEmpty(j)
  BY <1>1, <1>2 DEF NonEmpty
<1>9. Before(k, a) /\ Before(k, b) => Before(k, j)
  BY <1>1, <1>3, <1>5, <1>6, Zenon DEF Before
<1>10. Before(a, k) /\ Before(b, k) => Before(j, k)
  BY <1>1, <1>3, <1>5, <1>7, Zenon DEF Before
<1>11. Apart(k, a) /\ Before(k, b) => Apart(k, j)
  BY <1>1, <1>9, Zenon DEF Apart
<1> QED BY <1>8, <1>10, <1>11, Zenon DEF j

\* A byte that a lock of owner o and type t covers.
Over(l, o, t, b) == l.owner = o /\ l.type = t /\ l.start <= b /\ b < l.end

Covers(S, o, t, b) == \E l \in S : Over(l, o, t, b)

SameCover(S, T) == \A o \in Owner, t \in {"read", "write"}, b \in Nat : Covers(S, o, t, b) <=> Covers(T, o, t, b)

\* The joined range covers what the two covered.
LEMMA JoinedCover ==
    ASSUME NEW a \in Lock, NEW b \in Lock, NonEmpty(a), NonEmpty(b), Before(a, b), Continues(a, b),
           NEW o, NEW t, NEW x \in Nat
    PROVE  Over(Joined(a, b), o, t, x) <=> Over(a, o, t, x) \/ Over(b, o, t, x)
<1> DEFINE j == Joined(a, b)
<1>1. /\ j.owner = a.owner /\ j.type = a.type /\ j.start = a.start /\ j.end = b.end
      /\ b.start = a.end
  BY JoinedFacts, Zenon
<1>2. /\ a.start \in Nat /\ b.start \in Nat /\ a.end \in Nat /\ b.end \in Nat
      /\ a.start < a.end /\ b.start < b.end
  BY LockFields, Zenon DEF NonEmpty
<1>3. a.owner = b.owner /\ a.type = b.type
  BY Zenon DEF Continues
<1> HIDE DEF j
<1>4. j.start <= x /\ x < j.end <=> (a.start <= x /\ x < a.end) \/ (b.start <= x /\ x < b.end)
  BY <1>1, <1>2
<1>5. Over(j, o, t, x) <=> Over(a, o, t, x) \/ Over(b, o, t, x)
  BY <1>1, <1>3, <1>4, Zenon DEF Over
<1> QED BY <1>5, Zenon DEF j

-----------------------------------------------------------------------------
(* normalize *)

\* The locks normalize has put out, and those it still has to take.
RunOK(out, todo) ==
    /\ out \in Seq(Lock)
    /\ \A i \in 1 .. Len(out) : NonEmpty(out[i])
    /\ \A i \in 1 .. Len(out) : \A j \in 1 .. Len(out) : i < j => Apart(out[i], out[j])
    /\ \A i \in 1 .. Len(out) : \A l \in todo : Before(out[i], l)

\* Of two locks of a separate list, the one sorted first lies before the other.
LEMMA SeparateTake ==
    ASSUME NEW S, Separate(S), NEW l, NEW k, l \in S, k \in S, l # k, SortsBefore(l, k)
    PROVE  Before(l, k)
BY Zenon DEF Separate, Before

\* normalize pushes a range that does not continue the last one.
LEMMA MergeAdds ==
    ASSUME NEW out, NEW todo, RunOK(out, todo), Separate(todo), NEW l, l \in todo,
           \A k \in todo \ {l} : SortsBefore(l, k), out = <<>> \/ ~Continues(out[Len(out)], l)
    PROVE  RunOK(Append(out, l), todo \ {l})
<1> DEFINE n == Len(out)
           new == Append(out, l)
<1>0. l \in Lock /\ NonEmpty(l) /\ out \in Seq(Lock) /\ n \in Nat
  BY DEF Separate, RunOK, NonEmpty
<1>1. /\ new \in Seq(Lock) /\ Len(new) = n + 1 /\ new[n + 1] = l
      /\ \A i \in 1 .. n : new[i] = out[i]
  BY <1>0
<1>2. \A i \in 1 .. n : out[i] \in Lock /\ NonEmpty(out[i]) /\ Before(out[i], l)
  BY <1>0 DEF RunOK
<1>3. ASSUME NEW i \in 1 .. n PROVE Apart(out[i], l)
  <2>1. n \in 1 .. n /\ i \in 1 .. n /\ out # <<>>
    BY <1>0
  <2>2. CASE i = n
    <3>1. ~Continues(out[i], l) /\ Before(out[i], l)
      BY <1>2, <2>1, <2>2, Zenon
    <3>2. out[i].end \in Nat /\ l.start \in Nat
      BY <1>0, <1>2, LockFields, Zenon
    <3> QED BY <3>1, <3>2 DEF Continues, TouchesOrOverlaps, Apart
  <2>3. CASE i < n
    <3>1. Apart(out[i], out[n])
      BY <2>1, <2>3, Zenon DEF RunOK
    <3>2. Before(out[n], l) /\ Before(out[i], l) /\ out[n] \in Lock /\ NonEmpty(out[n])
          /\ out[i] \in Lock /\ NonEmpty(out[i])
      BY <1>2, <2>1, Zenon
    <3> QED BY <1>0, <3>1, <3>2, ApartNext, Zenon
  <2>4. i = n \/ i < n
    BY <1>0
  <2> QED BY <2>2, <2>3, <2>4, Zenon
<1> HIDE DEF n, new
<1>4. \A i \in 1 .. n + 1 : i \in 1 .. n \/ i = n + 1
  BY <1>0
<1>5. ASSUME NEW i \in 1 .. n + 1, NEW j \in 1 .. n + 1, i < j PROVE Apart(new[i], new[j])
  <2>1. i \in 1 .. n
    BY <1>0, <1>5
  <2>2. CASE j = n + 1
    BY <1>1, <1>3, <2>1, <2>2, Zenon
  <2>3. CASE j \in 1 .. n
    <3>1. Apart(out[i], out[j])
      BY <1>5, <2>1, <2>3, Zenon DEF RunOK, n
    <3> QED BY <1>1, <2>1, <2>3, <3>1, Zenon
  <2> QED BY <1>4, <2>2, <2>3, Zenon
<1>6. ASSUME NEW i \in 1 .. n + 1, NEW k \in todo \ {l} PROVE Before(new[i], k)
  <2>1. CASE i \in 1 .. n
    <3>1. Before(out[i], k)
      BY <2>1, Zenon DEF RunOK, n
    <3> QED BY <1>1, <2>1, <3>1, Zenon
  <2>2. CASE i = n + 1
    <3>1. Before(l, k)
      BY SeparateTake, Zenon
    <3> QED BY <1>1, <2>2, <3>1, Zenon
  <2> QED BY <1>4, <2>1, <2>2, Zenon
<1>7. \A i \in 1 .. n + 1 : NonEmpty(new[i])
  BY <1>0, <1>1, <1>2, <1>4, Zenon
<1> QED BY <1>1, <1>5, <1>6, <1>7, Zenon DEF RunOK, new

\* normalize extends the last range by one that continues it.
LEMMA MergeJoins ==
    ASSUME NEW out, NEW todo, RunOK(out, todo), Separate(todo), NEW l, l \in todo,
           \A k \in todo \ {l} : SortsBefore(l, k), out # <<>>, Continues(out[Len(out)], l)
    PROVE  RunOK([out EXCEPT ![Len(out)] = Joined(@, l)], todo \ {l})
<1> DEFINE n == Len(out)
           new == [out EXCEPT ![n] = Joined(@, l)]
           a == out[n]
<1>0. l \in Lock /\ NonEmpty(l) /\ out \in Seq(Lock) /\ n \in Nat
  BY DEF Separate, RunOK, NonEmpty
<1>1. n \in 1 .. n
  BY <1>0
<1>2. \A i \in 1 .. n : out[i] \in Lock /\ NonEmpty(out[i]) /\ Before(out[i], l)
  BY <1>0 DEF RunOK
<1>3. a \in Lock /\ NonEmpty(a) /\ Before(a, l) /\ Continues(a, l)
  BY <1>1, <1>2, Zenon
<1>4. Joined(a, l) \in Lock
  BY <1>0, <1>3, JoinedFacts, Zenon
<1>5. NonEmpty(Joined(a, l))
  BY <1>0, <1>3, JoinedOrder, Zenon
<1>6. /\ new \in Seq(Lock) /\ Len(new) = n /\ new[n] = Joined(a, l)
      /\ \A i \in 1 .. n : i # n => new[i] = out[i]
  <2>1. out \in [1 .. n -> Lock]
    BY <1>0
  <2>2. new \in [1 .. n -> Lock]
    BY <1>1, <1>4, <2>1, Zenon
  <2>3. new[n] = Joined(a, l) /\ \A i \in 1 .. n : i # n => new[i] = out[i]
    BY <1>1, <2>1, Zenon
  <2>4. new \in Seq(Lock) /\ Len(new) = n
    <3> HIDE DEF new
    <3> QED BY <1>0, <2>2
  <2> QED BY <2>3, <2>4, Zenon
<1> HIDE DEF n, new, a
<1>7. ASSUME NEW i \in 1 .. n, NEW j \in 1 .. n, i < j PROVE Apart(new[i], new[j])
  <2>1. i # n /\ new[i] = out[i]
    BY <1>0, <1>6, <1>7
  <2>2. Apart(out[i], out[j])
    BY <1>7, Zenon DEF RunOK, n
  <2>3. CASE j = n
    <3>1. Apart(out[i], a) /\ Before(out[i], l) /\ out[i] \in Lock /\ NonEmpty(out[i])
      BY <1>2, <2>2, <2>3, Zenon DEF a
    <3> QED BY <1>0, <1>3, <1>6, <2>1, <2>3, <3>1, JoinedOrder
  <2>4. CASE j # n
    BY <1>6, <2>1, <2>2, <2>4, Zenon
  <2> QED BY <2>3, <2>4, Zenon
<1>8. ASSUME NEW i \in 1 .. n, NEW k \in todo \ {l} PROVE Before(new[i], k)
  <2>0. k \in Lock /\ NonEmpty(k)
    BY Zenon DEF Separate, NonEmpty
  <2>1. Before(out[i], k)
    BY Zenon DEF RunOK, n
  <2>2. CASE i = n
    <3>1. Before(l, k)
      BY SeparateTake, Zenon
    <3>2. Before(a, k)
      BY <2>1, <2>2, Zenon DEF a
    <3> QED BY <1>0, <1>3, <1>6, <2>0, <2>2, <3>1, <3>2, JoinedOrder
  <2>3. CASE i # n
    BY <1>6, <2>1, <2>3, Zenon
  <2> QED BY <2>2, <2>3, Zenon
<1>9. \A i \in 1 .. n : NonEmpty(new[i])
  BY <1>2, <1>5, <1>6, Zenon
<1> QED BY <1>6, <1>7, <1>8, <1>9, Zenon DEF RunOK, new, n

\* MergeInto by its two cases.
LEMMA MergeIs ==
    ASSUME NEW out, NEW l
    PROVE  MergeInto(out, l) = IF out # <<>> /\ Continues(out[Len(out)], l)
                               THEN [out EXCEPT ![Len(out)] = Joined(@, l)] ELSE Append(out, l)
BY Zenon DEF MergeInto, Continues, Joined

\* One turn of normalize's loop keeps what was put out apart and before the rest.
LEMMA MergeKeeps ==
    ASSUME NEW out, NEW todo, RunOK(out, todo), Separate(todo), NEW l, l \in todo,
           \A k \in todo \ {l} : SortsBefore(l, k)
    PROVE  RunOK(MergeInto(out, l), todo \ {l})
<1>1. CASE out # <<>> /\ Continues(out[Len(out)], l)
  BY <1>1, MergeJoins, MergeIs, Zenon
<1>2. CASE ~(out # <<>> /\ Continues(out[Len(out)], l))
  <2>1. RunOK(Append(out, l), todo \ {l})
    BY <1>2, MergeAdds, Zenon
  <2> QED BY <1>2, <2>1, MergeIs, Zenon
<1> QED BY <1>1, <1>2, Zenon

\* What is covered by the locks put out and those to come.
Bound(out, todo) == Range(out) \cup todo

\* One turn of normalize's loop covers the same bytes.
LEMMA MergeCovers ==
    ASSUME NEW out, NEW todo, RunOK(out, todo), Separate(todo), NEW l, l \in todo
    PROVE  SameCover(Bound(MergeInto(out, l), todo \ {l}), Bound(out, todo))
<1> DEFINE n == Len(out)
<1>0. l \in Lock /\ NonEmpty(l) /\ out \in Seq(Lock) /\ n \in Nat
  BY DEF Separate, RunOK, NonEmpty
<1>1. CASE out # <<>> /\ Continues(out[n], l)
  <2> DEFINE new == [out EXCEPT ![n] = Joined(@, l)]
             a == out[n]
  <2>1. n \in 1 .. n
    BY <1>0, <1>1
  <2>2. a \in Lock /\ NonEmpty(a) /\ Before(a, l) /\ Continues(a, l)
    BY <1>0, <1>1, <2>1 DEF RunOK
  <2>3. DOMAIN new = 1 .. n /\ new[n] = Joined(a, l) /\ \A i \in 1 .. n : i # n => new[i] = out[i]
    BY <1>0, <2>1
  <2>4. DOMAIN out = 1 .. n
    BY <1>0
  <2> HIDE DEF n, new, a
  <2>5. SUFFICES ASSUME NEW o \in Owner, NEW t \in {"read", "write"}, NEW b \in Nat
                 PROVE  Covers(Bound(new, todo \ {l}), o, t, b) <=> Covers(Bound(out, todo), o, t, b)
    BY <1>1, MergeIs, Zenon DEF SameCover, new, n
  <2>6. Over(Joined(a, l), o, t, b) <=> Over(a, o, t, b) \/ Over(l, o, t, b)
    BY <1>0, <2>2, JoinedCover, Zenon
  <2>7. ASSUME Covers(Bound(new, todo \ {l}), o, t, b) PROVE Covers(Bound(out, todo), o, t, b)
    <3>1. PICK k \in Bound(new, todo \ {l}) : Over(k, o, t, b)
      BY <2>7, Zenon DEF Covers
    <3>2. CASE k \in todo
      BY <3>1, <3>2, Zenon DEF Covers, Bound
    <3>3. CASE k \notin todo
      <4>1. PICK i \in 1 .. n : k = new[i]
        BY <2>3, <3>1, <3>3, Zenon DEF Bound, Range
      <4>2. CASE i = n
        <5>1. Over(a, o, t, b) \/ Over(l, o, t, b)
          BY <2>3, <2>6, <3>1, <4>1, <4>2, Zenon
        <5>2. a \in Bound(out, todo) /\ l \in Bound(out, todo)
          BY <2>1, <2>4, Zenon DEF Bound, Range, a
        <5> QED BY <5>1, <5>2, Zenon DEF Covers
      <4>3. CASE i # n
        <5>1. k = out[i]
          BY <2>3, <4>1, <4>3, Zenon
        <5>2. k \in Bound(out, todo)
          BY <2>4, <5>1, Zenon DEF Bound, Range
        <5> QED BY <3>1, <5>2, Zenon DEF Covers
      <4> QED BY <4>2, <4>3, Zenon
    <3> QED BY <3>2, <3>3, Zenon
  <2>8. ASSUME Covers(Bound(out, todo), o, t, b) PROVE Covers(Bound(new, todo \ {l}), o, t, b)
    <3>1. PICK k \in Bound(out, todo) : Over(k, o, t, b)
      BY <2>8, Zenon DEF Covers
    <3>2. Joined(a, l) \in Bound(new, todo \ {l})
      BY <2>1, <2>3, Zenon DEF Bound, Range
    <3>3. CASE k = l
      BY <2>6, <3>1, <3>2, <3>3, Zenon DEF Covers
    <3>4. CASE k \in todo /\ k # l
      BY <3>1, <3>4, Zenon DEF Covers, Bound
    <3>5. CASE k \notin todo
      <4>1. PICK i \in 1 .. n : k = out[i]
        BY <2>4, <3>1, <3>5, Zenon DEF Bound, Range
      <4>2. CASE i = n
        BY <2>6, <3>1, <3>2, <4>1, <4>2, Zenon DEF Covers, a
      <4>3. CASE i # n
        <5>1. k = new[i]
          BY <2>3, <4>1, <4>3, Zenon
        <5>2. k \in Bound(new, todo \ {l})
          BY <2>3, <5>1, Zenon DEF Bound, Range
        <5> QED BY <3>1, <5>2, Zenon DEF Covers
      <4> QED BY <4>2, <4>3, Zenon
    <3> QED BY <3>3, <3>4, <3>5, Zenon
  <2> QED BY <2>7, <2>8, Zenon
<1>2. CASE ~(out # <<>> /\ Continues(out[n], l))
  <2>1. MergeInto(out, l) = Append(out, l)
    BY <1>2, MergeIs, Zenon
  <2>2. \A x : x \in Range(Append(out, l)) <=> x \in Range(out) \/ x = l
    BY <1>0, AppendElements, Zenon
  <2>3. Bound(Append(out, l), todo \ {l}) = Bound(out, todo)
    BY <2>2, Zenon DEF Bound
  <2> QED BY <2>1, <2>3, Zenon DEF SameCover
<1> QED BY <1>1, <1>2, Zenon

\* The states of the loop over separate locks.
TurnOK(t, ls, n) ==
    /\ t = [todo |-> t.todo, out |-> t.out]
    /\ t.todo \subseteq ls /\ Cardinality(t.todo) = Cardinality(ls) - n
    /\ RunOK(t.out, t.todo)
    /\ SameCover(Bound(t.out, t.todo), ls)

\* A part of a separate list is separate.
LEMMA SeparateSubset ==
    ASSUME NEW S, Separate(S), NEW T, T \subseteq S
    PROVE  Separate(T)
BY Zenon DEF Separate

\* A turn takes the first of what is left to do.
LEMMA TurnStep ==
    ASSUME NEW ls, Separate(ls), NEW n \in Nat, n < Cardinality(ls), NEW t, TurnOK(t, ls, n)
    PROVE  TurnOK(Turn(t), ls, n + 1)
<1> DEFINE todo == t.todo
           out == t.out
           l == FirstSorted(todo)
<1>1. Separate(todo) /\ todo \subseteq ls
  BY SeparateSubset, Zenon DEF TurnOK
<1>2. IsFiniteSet(todo) /\ Cardinality(todo) \in Nat /\ Cardinality(ls) \in Nat
  BY <1>1, LocksFinite, Zenon DEF Separate
<1>3. todo # {}
  BY <1>2, FS_EmptySet DEF TurnOK
<1>4. l \in todo /\ \A k \in todo \ {l} : SortsBefore(l, k)
  BY <1>1, <1>3, FirstSortedFacts, Zenon
<1>5. RunOK(MergeInto(out, l), todo \ {l})
  <2> HIDE DEF l, todo, out
  <2>1. RunOK(out, todo)
    BY Zenon DEF TurnOK, out, todo
  <2> QED BY <1>1, <1>4, <2>1, MergeKeeps, Zenon
<1>6. SameCover(Bound(MergeInto(out, l), todo \ {l}), Bound(out, todo))
  <2> HIDE DEF l, todo, out
  <2>1. RunOK(out, todo)
    BY Zenon DEF TurnOK, out, todo
  <2> QED BY <1>1, <1>4, <2>1, MergeCovers, Zenon
<1>7. Cardinality(todo \ {l}) = Cardinality(ls) - (n + 1)
  <2>1. Cardinality(todo) = Cardinality(ls) - n
    BY Zenon DEF TurnOK
  <2> HIDE DEF l, todo, out
  <2>2. Cardinality(todo \ {l}) = Cardinality(todo) - 1
    BY <1>2, <1>4, FS_RemoveElement, Zenon
  <2> QED BY <1>2, <2>1, <2>2
<1>8. Turn(t) = [todo |-> todo \ {l}, out |-> MergeInto(out, l)]
  BY Zenon DEF Turn
<1>9. SameCover(Bound(out, todo), ls)
  BY Zenon DEF TurnOK
<1> HIDE DEF l, todo, out
<1>10. SameCover(Bound(MergeInto(out, l), todo \ {l}), ls)
  BY <1>6, <1>9, Zenon DEF SameCover
<1>11. Turn(t).todo = todo \ {l} /\ Turn(t).out = MergeInto(out, l)
  BY <1>8
<1>12. todo \ {l} \subseteq ls
  BY <1>1, Zenon
<1> QED BY <1>5, <1>7, <1>8, <1>10, <1>11, <1>12, Zenon DEF TurnOK

\* The form the list of locks is kept in.
Normal(ls) ==
    /\ Separate(ls)
    /\ \A l, k \in ls : l # k /\ l.owner = k.owner /\ l.type = k.type => l.end # k.start

\* Before the first turn everything is left to do.
LEMMA FirstTurn ==
    ASSUME NEW ls, Separate(ls)
    PROVE  TurnOK([todo |-> ls, out |-> <<>>], ls, 0)
<1>1. <<>> \in Seq(Lock) /\ Len(<<>>) = 0 /\ 1 .. 0 = {} /\ Range(<<>>) = {}
  BY DEF Range
<1>2. Cardinality(ls) \in Nat
  BY LocksFinite, Zenon DEF Separate
<1>3. RunOK(<<>>, ls)
  BY <1>1, Zenon DEF RunOK
<1>4. Bound(<<>>, ls) = ls
  BY <1>1, Zenon DEF Bound
<1>5. SameCover(ls, ls)
  BY Zenon DEF SameCover
<1> QED BY <1>2, <1>3, <1>4, <1>5 DEF TurnOK

\* After i turns i ranges are merged and nothing is lost.
LEMMA TurnsOK ==
    ASSUME NEW ls, Separate(ls), NEW n \in Nat, n = Cardinality(ls), NEW g,
           g[0] = [todo |-> ls, out |-> <<>>],
           \A i \in 1 .. n : TurnOK(g[i - 1], ls, i - 1) => g[i] = Turn(g[i - 1])
    PROVE  \A i \in 0 .. n : TurnOK(g[i], ls, i)
<1> DEFINE M == {i \in Nat : i <= n => TurnOK(g[i], ls, i)}
<1>1. 0 \in M
  BY FirstTurn, Zenon
<1>2. ASSUME NEW i \in Nat, i \in M PROVE i + 1 \in M
  <2>1. SUFFICES ASSUME i + 1 <= n PROVE TurnOK(g[i + 1], ls, i + 1)
    OBVIOUS
  <2>2. TurnOK(g[i], ls, i) /\ i + 1 \in 1 .. n /\ (i + 1) - 1 = i /\ i < Cardinality(ls)
    BY <1>2, <2>1
  <2>3. g[i + 1] = Turn(g[i])
    BY <2>2, Zenon
  <2> QED BY <2>2, <2>3, TurnStep, Zenon
<1>3. \A i \in Nat : i \in M
  <2> HIDE DEF M
  <2> QED BY <1>1, <1>2, SetInduction, Zenon
<1> QED BY <1>3

\* What normalize returns is what the last turn put out.
LEMMA NormalizeIs ==
    ASSUME NEW ls, Separate(ls)
    PROVE  \E out : RunOK(out, {}) /\ SameCover(Range(out), ls) /\ Normalize(ls) = Range(out)
<1> DEFINE n == Cardinality(ls)
           x0 == [todo |-> ls, out |-> <<>>]
           X == [todo : SUBSET ls, out : Seq(Lock)]
           step == [a \in (1 .. n) \X X |-> IF TurnOK(a[2], ls, a[1] - 1) THEN Turn(a[2]) ELSE a[2]]
           turn == CHOOSE k : k = [i \in 0 .. n |-> IF i = 0 THEN x0 ELSE Turn(k[i - 1])]
<1>0. n \in Nat /\ x0 \in X
  BY LocksFinite DEF Separate
<1>1. \A i, t : TurnOK(t, ls, i) => t \in X
  BY Zenon DEF TurnOK, RunOK
<1>2. step \in StepFuns(X, n)
  <2>1. ASSUME NEW a \in (1 .. n) \X X
        PROVE  (IF TurnOK(a[2], ls, a[1] - 1) THEN Turn(a[2]) ELSE a[2]) \in X
    <3>1. CASE TurnOK(a[2], ls, a[1] - 1)
      <4>1. a[1] - 1 \in Nat /\ a[1] - 1 < Cardinality(ls)
        BY <1>0
      <4>2. TurnOK(Turn(a[2]), ls, (a[1] - 1) + 1)
        BY <3>1, <4>1, TurnStep, Zenon
      <4> HIDE DEF X
      <4> QED BY <1>1, <3>1, <4>2, Zenon
    <3>2. CASE ~TurnOK(a[2], ls, a[1] - 1)
      BY <3>2, Zenon
    <3> QED BY <3>1, <3>2, Zenon
  <2> HIDE DEF X, n
  <2> QED BY <2>1, Zenon DEF StepFuns
<1>3. \E g : Iterates(g, X, x0, n, step)
  <2> HIDE DEF step, x0, n, X
  <2> QED BY <1>0, <1>2, Recursion, Zenon
<1>4. PICK g \in [0 .. n -> X] : g[0] = x0 /\ \A i \in 1 .. n : g[i] = step[<<i, g[i - 1]>>]
  <2> HIDE DEF step, x0, n, X
  <2> QED BY <1>3, Zenon DEF Iterates
<1>5. ASSUME NEW i \in 1 .. n PROVE TurnOK(g[i - 1], ls, i - 1) => g[i] = Turn(g[i - 1])
  <2>1. <<i, g[i - 1]>> \in (1 .. n) \X X
    <3>1. i - 1 \in 0 .. n
      BY <1>0
    <3> HIDE DEF X
    <3> QED BY <3>1, Zenon
  <2>2. step[<<i, g[i - 1]>>] = IF TurnOK(g[i - 1], ls, i - 1) THEN Turn(g[i - 1]) ELSE g[i - 1]
    <3> HIDE DEF X
    <3> QED BY <2>1, Zenon
  <2> QED BY <1>4, <2>2, Zenon
<1>6. \A i \in 0 .. n : TurnOK(g[i], ls, i)
  <2> HIDE DEF step, X
  <2> QED BY <1>0, <1>4, <1>5, TurnsOK, Zenon
<1>7. g = [i \in 0 .. n |-> IF i = 0 THEN x0 ELSE Turn(g[i - 1])]
  <2> HIDE DEF step, x0, X
  <2>1. ASSUME NEW i \in 0 .. n PROVE g[i] = IF i = 0 THEN x0 ELSE Turn(g[i - 1])
    <3>1. i = 0 \/ (i \in 1 .. n /\ i - 1 \in 0 .. n)
      BY <1>0
    <3> QED BY <1>4, <1>5, <1>6, <3>1, Zenon
  <2> HIDE DEF n
  <2> QED BY <2>1, Zenon
<1>8. turn = [i \in 0 .. n |-> IF i = 0 THEN x0 ELSE Turn(turn[i - 1])]
  <2> HIDE DEF step, x0, n
  <2> QED BY <1>7, Zenon
<1>9. {l \in ls : l.start < l.end} = ls
  BY Zenon DEF Separate
<1>10. Normalize(ls) = Range(turn[n].out)
  BY <1>9, Zenon DEF Normalize
<1> HIDE DEF turn, step, X
<1>11. turn[0] = x0 /\ \A i \in 1 .. n : turn[i] = Turn(turn[i - 1])
  <2> HIDE DEF x0
  <2>1. \A i \in 0 .. n : turn[i] = IF i = 0 THEN x0 ELSE Turn(turn[i - 1])
    <3> HIDE DEF n
    <3> QED BY <1>8, Zenon
  <2>2. 0 \in 0 .. n /\ \A i \in 1 .. n : i \in 0 .. n /\ i # 0
    BY <1>0
  <2> QED BY <2>1, <2>2, Zenon
<1>12. \A i \in 0 .. n : TurnOK(turn[i], ls, i)
  BY <1>0, <1>11, TurnsOK, Zenon
<1>13. TurnOK(turn[n], ls, n) /\ n \in 0 .. n
  BY <1>0, <1>12
<1>14. turn[n].todo = {}
  <2>1. turn[n].todo \subseteq Lock
    BY <1>13, Zenon DEF TurnOK, Separate
  <2>2. IsFiniteSet(turn[n].todo) /\ Cardinality(turn[n].todo) = 0
    BY <1>0, <1>13, <2>1, LocksFinite DEF TurnOK
  <2> QED BY <2>2, FS_EmptySet, Zenon
<1>15. RunOK(turn[n].out, {}) /\ SameCover(Range(turn[n].out), ls)
  BY <1>13, <1>14, Zenon DEF TurnOK, Bound
<1> QED BY <1>10, <1>15, Zenon

\* normalize returns non-empty ranges, those of an owner apart and those of one
\* type with a gap between them, and covers what it was given.
LEMMA NormalizeFacts ==
    ASSUME NEW ls, Separate(ls)
    PROVE  Normal(Normalize(ls)) /\ SameCover(Normalize(ls), ls)
<1>1. PICK out : RunOK(out, {}) /\ SameCover(Range(out), ls) /\ Normalize(ls) = Range(out)
  BY NormalizeIs, Zenon
<1>2. out \in Seq(Lock) /\ Len(out) \in Nat /\ DOMAIN out = 1 .. Len(out)
  BY <1>1 DEF RunOK
<1>3. \A i \in 1 .. Len(out) : out[i] \in Lock /\ out[i].start < out[i].end
  BY <1>1, <1>2 DEF RunOK, NonEmpty
<1>4. \A l \in Range(out) : l \in Lock /\ l.start < l.end
  BY <1>2, <1>3, Zenon DEF Range
<1>5. ASSUME NEW l \in Range(out), NEW k \in Range(out), l # k, l.owner = k.owner
      PROVE  ~RangesOverlap(l, k) /\ (l.type = k.type => l.end # k.start)
  <2>1. PICK i \in 1 .. Len(out) : l = out[i]
    BY <1>2, Zenon DEF Range
  <2>2. PICK j \in 1 .. Len(out) : k = out[j]
    BY <1>2, Zenon DEF Range
  <2>3. l.start \in Nat /\ l.end \in Nat /\ k.start \in Nat /\ k.end \in Nat /\ l.start < l.end /\ k.start < k.end
    BY <1>4, LockFields, Zenon
  <2>4. i # j
    BY <1>5, <2>1, <2>2, Zenon
  <2>5. CASE i < j
    <3>1. Apart(l, k)
      BY <1>1, <2>1, <2>2, <2>5, Zenon DEF RunOK
    <3>2. ~RangesOverlap(l, k) /\ (l.type = k.type => l.end < k.start)
      BY <1>5, <3>1, Zenon DEF Apart, Before
    <3> QED BY <2>3, <3>2
  <2>6. CASE j < i
    <3>1. Apart(k, l)
      BY <1>1, <2>1, <2>2, <2>6, Zenon DEF RunOK
    <3>2. ~RangesOverlap(k, l) /\ (l.type = k.type => k.end < l.start)
      BY <1>5, <3>1, Zenon DEF Apart, Before
    <3>3. ~RangesOverlap(l, k)
      BY <3>2, Zenon DEF RangesOverlap
    <3> QED BY <2>3, <3>2, <3>3
  <2> QED BY <1>2, <2>4, <2>5, <2>6
<1>6. Separate(Range(out))
  BY <1>4, <1>5, Zenon DEF Separate
<1>7. Normal(Range(out))
  BY <1>5, <1>6, Zenon DEF Normal
<1> QED BY <1>1, <1>7, Zenon

-----------------------------------------------------------------------------
(* apply *)

\* The list before normalize.
Hit(o, r) == {l \in locks : l.owner = o /\ RangesOverlap(l, r)}

Pieces(l, r) == LeftPiece(l, r) \cup RightPiece(l, r)

NewLock(o, r) ==
    IF r.type = "unlock" THEN {} ELSE {[owner |-> o, start |-> r.start, end |-> r.end, type |-> r.type]}

Raw(o, r) == (locks \ Hit(o, r)) \cup (UNION {Pieces(l, r) : l \in Hit(o, r)}) \cup NewLock(o, r)

\* apply normalizes the locks it leaves alone, the pieces of those it cuts and the
\* new lock.
LEMMA ApplyIs ==
    ASSUME NEW o, NEW r
    PROVE  Apply(o, r) = Normalize(Raw(o, r))
<1> DEFINE hit == {l \in locks : l.owner = o /\ RangesOverlap(l, r)}
           pieces == UNION {LeftPiece(l, r) \cup RightPiece(l, r) : l \in hit}
           new == IF r.type = "unlock" THEN {}
                  ELSE {[owner |-> o, start |-> r.start, end |-> r.end, type |-> r.type]}
<1>1. Apply(o, r) = Normalize((locks \ hit) \cup pieces \cup new)
  BY Zenon DEF Apply
<1>2. hit = Hit(o, r) /\ new = NewLock(o, r)
  BY Zenon DEF Hit, NewLock
<1> HIDE DEF hit, new
<1>3. pieces = UNION {Pieces(l, r) : l \in hit}
  BY Zenon DEF Pieces
<1> HIDE DEF pieces
<1>4. (locks \ hit) \cup pieces \cup new = Raw(o, r)
  BY <1>2, <1>3, Zenon DEF Raw
<1> QED BY <1>1, <1>4, Zenon

\* The fields of a request, and the numbers among them.
LEMMA RequestFields ==
    ASSUME NEW r \in Request
    PROVE  /\ r.start \in Nat /\ r.end \in Nat /\ r.start \in 0 .. Top /\ r.end \in 1 .. Eof
           /\ r.type \in {"read", "write", "unlock"} /\ Top \in Nat
<1>1. Top \in Nat
  BY LockAssumption, Zenon
<1>2. r.start \in 0 .. Top /\ r.end \in 1 .. Eof /\ r.type \in {"read", "write", "unlock"}
  BY Zenon DEF Request
<1>3. r.start \in Nat /\ r.end \in Nat
  <2>1. r.start \in 0 .. Top /\ r.end \in 1 .. (Top + 1)
    BY <1>2, Zenon DEF Eof
  <2> QED BY <1>1, <2>1
<1> QED BY <1>1, <1>2, <1>3, Zenon

\* What a call's record can and cannot be.
LEMMA CallFields ==
    /\ NoRequest \notin Request
    /\ \A o : Waking(o).wake
<1>1. NoRequest \notin Request
  BY Zenon DEF NoRequest, Request
<1>2. \A o : Waking(o).wake
  BY Zenon DEF Waking
<1> QED BY <1>1, <1>2, Zenon

\* k lies outside the range of the request.
Outside(k, r) == k.end <= r.start \/ r.end <= k.start

\* A piece of a lock is what the request leaves on one of its sides.
LEMMA PieceFacts ==
    ASSUME NEW r \in Request, r.start < r.end, NEW l \in Lock, NonEmpty(l), RangesOverlap(l, r),
           NEW k, k \in Pieces(l, r)
    PROVE  /\ k \in Lock /\ NonEmpty(k) /\ k.owner = l.owner /\ k.type = l.type
           /\ l.start <= k.start /\ k.end <= l.end /\ Outside(k, r)
           /\ \/ k.start = l.start /\ k.end = r.start
              \/ k.start = r.end /\ k.end = l.end
<1>1. /\ l.owner \in Owner /\ l.start \in Nat /\ l.end \in Nat
      /\ l.start \in 0 .. Top /\ l.end \in 1 .. Eof /\ l.type \in {"read", "write"}
  BY LockFields, Zenon
<1>2. r.start \in Nat /\ r.end \in Nat /\ r.start \in 0 .. Top /\ r.end \in 1 .. Eof /\ Top \in Nat
  BY RequestFields, Zenon
<1>3. l.start < l.end /\ l.start < r.end /\ r.start < l.end
  BY Zenon DEF NonEmpty, RangesOverlap
<1>4. CASE k \in LeftPiece(l, r)
  <2>1. l.start < r.start /\ k = [l EXCEPT !.end = r.start]
    BY <1>1, <1>2, <1>4 DEF LeftPiece
  <2>2. k = [owner |-> l.owner, start |-> l.start, end |-> r.start, type |-> l.type]
    BY <2>1, Zenon DEF Lock
  <2>3. r.start \in 1 .. Eof
    BY <1>1, <1>2, <2>1 DEF Eof
  <2>4. k \in Lock
    BY <1>1, <2>2, <2>3, Zenon DEF Lock
  <2>5. k.owner = l.owner /\ k.start = l.start /\ k.end = r.start /\ k.type = l.type
    BY <2>2, Zenon
  <2>6. r.start <= l.end /\ l.start <= l.start /\ r.start <= r.start
    BY <1>1, <1>2, <1>3
  <2> QED BY <2>1, <2>4, <2>5, <2>6, Zenon DEF NonEmpty, Outside
<1>5. CASE k \in RightPiece(l, r)
  <2>1. r.end < l.end /\ k = [l EXCEPT !.start = r.end]
    BY <1>1, <1>2, <1>5 DEF RightPiece
  <2>2. k = [owner |-> l.owner, start |-> r.end, end |-> l.end, type |-> l.type]
    BY <2>1, Zenon DEF Lock
  <2>3. r.end \in 0 .. Top
    BY <1>1, <1>2, <2>1 DEF Eof
  <2>4. k \in Lock
    BY <1>1, <2>2, <2>3, Zenon DEF Lock
  <2>5. k.owner = l.owner /\ k.start = r.end /\ k.end = l.end /\ k.type = l.type
    BY <2>2, Zenon
  <2>6. l.start <= r.end /\ l.end <= l.end /\ r.end <= r.end
    BY <1>1, <1>2, <1>3
  <2> QED BY <2>1, <2>4, <2>5, <2>6, Zenon DEF NonEmpty, Outside
<1> QED BY <1>4, <1>5, Zenon DEF Pieces

\* A lock of the list before normalize comes from one of the list.
From(k, l, o, r) ==
    /\ k \in Lock /\ NonEmpty(k) /\ k.owner = l.owner /\ k.type = l.type
    /\ l.start <= k.start /\ k.end <= l.end
    /\ l.owner = o => Outside(k, r)
    /\ \/ k = l /\ l \notin Hit(o, r)
       \/ /\ l \in Hit(o, r)
          /\ \/ k.start = l.start /\ k.end = r.start
             \/ k.start = r.end /\ k.end = l.end

\* What apply normalizes, but for the new lock, comes from a lock of the list and
\* lies in it, outside the request if the owner is the caller.
LEMMA RawFrom ==
    ASSUME Normal(locks), NEW o \in Owner, NEW r \in Request, r.start < r.end,
           NEW k \in Raw(o, r), k \notin NewLock(o, r)
    PROVE  \E l \in locks : From(k, l, o, r)
<1>0. locks \subseteq Lock /\ \A l \in locks : NonEmpty(l)
  BY Zenon DEF Normal, Separate, NonEmpty
<1>1. CASE k \in locks \ Hit(o, r)
  <2>1. k.start \in Nat /\ k.end \in Nat /\ r.start \in Nat /\ r.end \in Nat
    BY <1>0, <1>1, LockFields, RequestFields, Zenon
  <2>2. k.owner = o => Outside(k, r)
    BY <1>1, <2>1 DEF Hit, Outside, RangesOverlap
  <2>3. k.start <= k.start /\ k.end <= k.end
    BY <2>1
  <2>4. From(k, k, o, r)
    BY <1>0, <1>1, <2>2, <2>3, Zenon DEF From
  <2> QED BY <1>1, <2>4, Zenon
<1>2. CASE \E l \in Hit(o, r) : k \in Pieces(l, r)
  <2>1. PICK l \in Hit(o, r) : k \in Pieces(l, r)
    BY <1>2, Zenon
  <2>2. l \in locks /\ l \in Lock /\ NonEmpty(l) /\ RangesOverlap(l, r) /\ l.owner = o
    BY <1>0, <2>1, Zenon DEF Hit
  <2>3. From(k, l, o, r)
    BY <2>1, <2>2, PieceFacts DEF From
  <2> QED BY <2>2, <2>3, Zenon
<1>3. k \in UNION {Pieces(l, r) : l \in Hit(o, r)} => \E l \in Hit(o, r) : k \in Pieces(l, r)
  BY Zenon
<1>4. k \in locks \ Hit(o, r) \/ k \in UNION {Pieces(l, r) : l \in Hit(o, r)}
  BY Zenon DEF Raw
<1> QED BY <1>1, <1>2, <1>3, <1>4, Zenon

\* The new lock is the request, unless that unlocks.
LEMMA NewLockFacts ==
    ASSUME NEW o \in Owner, NEW r \in Request, r.start < r.end, NEW k \in NewLock(o, r)
    PROVE  /\ k \in Lock /\ NonEmpty(k) /\ r.type # "unlock"
           /\ k = [owner |-> o, start |-> r.start, end |-> r.end, type |-> r.type]
<1>1. r.type # "unlock" /\ k = [owner |-> o, start |-> r.start, end |-> r.end, type |-> r.type]
  BY Zenon DEF NewLock
<1>2. r.start \in 0 .. Top /\ r.end \in 1 .. Eof /\ r.type \in {"read", "write"}
  BY <1>1, RequestFields, Zenon
<1> QED BY <1>1, <1>2, Zenon DEF Lock, NonEmpty

\* What apply hands to normalize is separate: a cut leaves no overlap.
LEMMA RawSeparate ==
    ASSUME Normal(locks), NEW o \in Owner, NEW r \in Request, r.start < r.end
    PROVE  Separate(Raw(o, r))
<1>0. r.start \in Nat /\ r.end \in Nat
  BY RequestFields, Zenon
<1>1. ASSUME NEW k \in Raw(o, r) PROVE k \in Lock /\ k.start < k.end
  <2>1. CASE k \in NewLock(o, r)
    BY <2>1, NewLockFacts, Zenon DEF NonEmpty
  <2>2. CASE k \notin NewLock(o, r)
    BY <2>2, RawFrom, Zenon DEF From, NonEmpty
  <2> QED BY <2>1, <2>2, Zenon
<1>2. ASSUME NEW k \in Raw(o, r), NEW m \in Raw(o, r), k \in NewLock(o, r), m \notin NewLock(o, r), k.owner = m.owner
      PROVE  ~RangesOverlap(k, m) /\ ~RangesOverlap(m, k)
  <2>1. k.owner = o /\ k.start = r.start /\ k.end = r.end
    BY <1>2, NewLockFacts
  <2>2. PICK l \in locks : From(m, l, o, r)
    BY <1>2, RawFrom, Zenon
  <2>3. Outside(m, r)
    BY <1>2, <2>1, <2>2, Zenon DEF From
  <2>4. m.start \in Nat /\ m.end \in Nat
    BY <1>1, LockFields, Zenon
  <2> QED BY <1>0, <2>1, <2>3, <2>4 DEF Outside, RangesOverlap
<1>3. ASSUME NEW k \in Raw(o, r), NEW m \in Raw(o, r), k \notin NewLock(o, r), m \notin NewLock(o, r),
             k # m, k.owner = m.owner
      PROVE  ~RangesOverlap(k, m)
  <2>1. PICK l \in locks : From(k, l, o, r)
    BY <1>3, RawFrom, Zenon
  <2>2. PICK h \in locks : From(m, h, o, r)
    BY <1>3, RawFrom, Zenon
  <2>3. /\ k.start \in Nat /\ k.end \in Nat /\ m.start \in Nat /\ m.end \in Nat
    BY <1>1, LockFields, Zenon
  <2>4. /\ l \in Lock /\ h \in Lock /\ l.start \in Nat /\ l.end \in Nat /\ h.start \in Nat /\ h.end \in Nat
    BY LockFields, Zenon DEF Normal, Separate
  <2>5. /\ l.start <= k.start /\ k.end <= l.end /\ h.start <= m.start /\ m.end <= h.end
        /\ k.owner = l.owner /\ m.owner = h.owner /\ k.type = l.type /\ m.type = h.type
        /\ k.start < k.end /\ m.start < m.end
    BY <2>1, <2>2, Zenon DEF From, NonEmpty
  <2>6. CASE l # h
    <3>1. ~RangesOverlap(l, h)
      BY <1>3, <2>5, <2>6, Zenon DEF Normal, Separate
    <3> QED BY <2>3, <2>4, <2>5, <3>1 DEF RangesOverlap
  <2>7. CASE l = h
    <3>1. l \in Hit(o, r)
      BY <1>3, <2>1, <2>2, <2>7, Zenon DEF From
    <3>2. /\ (k.start = l.start /\ k.end = r.start) \/ (k.start = r.end /\ k.end = l.end)
          /\ (m.start = l.start /\ m.end = r.start) \/ (m.start = r.end /\ m.end = l.end)
      BY <2>1, <2>2, <2>7, <3>1, Zenon DEF From
    <3>3. k.start # m.start \/ k.end # m.end
      <4>1. /\ k = [owner |-> k.owner, start |-> k.start, end |-> k.end, type |-> k.type]
            /\ m = [owner |-> m.owner, start |-> m.start, end |-> m.end, type |-> m.type]
        BY <2>1, <2>2, Zenon DEF From, Lock
      <4> QED BY <1>3, <2>5, <2>7, <4>1, Zenon
    <3> QED BY <1>0, <2>3, <2>4, <2>5, <3>2, <3>3 DEF RangesOverlap
  <2> QED BY <2>6, <2>7, Zenon
<1>4. ASSUME NEW k \in NewLock(o, r), NEW m \in NewLock(o, r) PROVE k = m
  BY Zenon DEF NewLock
<1> QED BY <1>1, <1>2, <1>3, <1>4, Zenon DEF Separate

Within(b, r) == r.start <= b /\ b < r.end

\* What apply hands to normalize covers what the list did, with the bytes of the
\* request, of its owner, as requested.
LEMMA RawCovers ==
    ASSUME Normal(locks), NEW o \in Owner, NEW r \in Request, r.start < r.end,
           NEW x \in Owner, NEW t \in {"read", "write"}, NEW b \in Nat
    PROVE  Covers(Raw(o, r), x, t, b) <=> IF x = o /\ Within(b, r) THEN t = r.type ELSE Covers(locks, x, t, b)
<1>0. /\ r.start \in Nat /\ r.end \in Nat
      /\ \A l \in locks : l \in Lock /\ l.start \in Nat /\ l.end \in Nat /\ NonEmpty(l)
  BY LockFields, RequestFields, Zenon DEF Normal, Separate, NonEmpty
<1>1. ASSUME NEW k \in Raw(o, r), Over(k, x, t, b), k \in NewLock(o, r)
      PROVE  x = o /\ Within(b, r) /\ t = r.type
  BY <1>1, NewLockFacts DEF Over, Within
<1>2. ASSUME NEW k \in Raw(o, r), Over(k, x, t, b), k \notin NewLock(o, r)
      PROVE  ~(x = o /\ Within(b, r)) /\ Covers(locks, x, t, b)
  <2>1. PICK l \in locks : From(k, l, o, r)
    BY <1>2, RawFrom, Zenon
  <2>2. /\ k \in Lock /\ k.owner = x /\ k.type = t /\ k.start <= b /\ b < k.end
        /\ k.owner = l.owner /\ k.type = l.type /\ l.start <= k.start /\ k.end <= l.end
        /\ l.owner = o => Outside(k, r)
    BY <1>2, <2>1, Zenon DEF From, Over
  <2>3. k.start \in Nat /\ k.end \in Nat /\ l.start \in Nat /\ l.end \in Nat
    BY <1>0, <2>2, LockFields, Zenon
  <2>4. x = o => ~Within(b, r)
    <3>1. x = o => Outside(k, r)
      BY <2>2, Zenon
    <3>2. Outside(k, r) => ~Within(b, r)
      BY <1>0, <2>2, <2>3 DEF Outside, Within
    <3> QED BY <3>1, <3>2, Zenon
  <2>5. Over(l, x, t, b)
    BY <2>2, <2>3 DEF Over
  <2> QED BY <2>4, <2>5, Zenon DEF Covers
<1>3. ASSUME x = o, Within(b, r), t = r.type PROVE Covers(Raw(o, r), x, t, b)
  <2> DEFINE k == [owner |-> o, start |-> r.start, end |-> r.end, type |-> r.type]
  <2>1. k \in NewLock(o, r)
    BY <1>3, Zenon DEF NewLock
  <2>2. Over(k, x, t, b)
    BY <1>3, Zenon DEF Over, Within
  <2> QED BY <2>1, <2>2, Zenon DEF Covers, Raw
<1>4. ASSUME ~(x = o /\ Within(b, r)), NEW l \in locks, Over(l, x, t, b)
      PROVE  Covers(Raw(o, r), x, t, b)
  <2>1. CASE l \notin Hit(o, r)
    BY <1>4, <2>1, Zenon DEF Covers, Raw
  <2>2. CASE l \in Hit(o, r)
    <3>1. x = o /\ l.owner = o /\ l.type = t /\ l.start <= b /\ b < l.end
      BY <1>4, <2>2, Zenon DEF Hit, Over
    <3>2. b < r.start \/ r.end <= b
      BY <1>0, <1>4, <3>1 DEF Within
    <3>3. \A k \in Pieces(l, r) : k \in Raw(o, r)
      <4>1. \A k \in Pieces(l, r) : k \in UNION {Pieces(h, r) : h \in Hit(o, r)}
        BY <2>2, Zenon
      <4> QED BY <4>1, Zenon DEF Raw
    <3>4. CASE b < r.start
      <4> DEFINE k == [l EXCEPT !.end = r.start]
      <4>1. ~(l.start >= r.start)
        BY <1>0, <3>1, <3>4
      <4>2. k \in Pieces(l, r)
        BY <4>1, Zenon DEF Pieces, LeftPiece
      <4>3. k.owner = l.owner /\ k.type = l.type /\ k.start = l.start /\ k.end = r.start
        BY <1>0, Zenon DEF Lock
      <4> HIDE DEF k
      <4>4. Over(k, x, t, b)
        BY <3>1, <3>4, <4>3, Zenon DEF Over
      <4> QED BY <3>3, <4>2, <4>4, Zenon DEF Covers
    <3>5. CASE r.end <= b
      <4> DEFINE k == [l EXCEPT !.start = r.end]
      <4>1. ~(l.end <= r.end)
        BY <1>0, <3>1, <3>5
      <4>2. k \in Pieces(l, r)
        BY <4>1, Zenon DEF Pieces, RightPiece
      <4>3. k.owner = l.owner /\ k.type = l.type /\ k.start = r.end /\ k.end = l.end
        BY <1>0, Zenon DEF Lock
      <4> HIDE DEF k
      <4>4. Over(k, x, t, b)
        BY <3>1, <3>5, <4>3, Zenon DEF Over
      <4> QED BY <3>3, <4>2, <4>4, Zenon DEF Covers
    <3> QED BY <3>2, <3>4, <3>5, Zenon
  <2> QED BY <2>1, <2>2, Zenon
<1>5. CASE x = o /\ Within(b, r)
  <2>1. Covers(Raw(o, r), x, t, b) => t = r.type
    BY <1>1, <1>2, <1>5, Zenon DEF Covers
  <2> QED BY <1>3, <1>5, <2>1, Zenon
<1>6. CASE ~(x = o /\ Within(b, r))
  <2>1. Covers(Raw(o, r), x, t, b) => Covers(locks, x, t, b)
    BY <1>1, <1>2, <1>6, Zenon DEF Covers
  <2>2. Covers(locks, x, t, b) => Covers(Raw(o, r), x, t, b)
    BY <1>4, <1>6, Zenon DEF Covers
  <2> QED BY <1>6, <2>1, <2>2, Zenon
<1> QED BY <1>5, <1>6, Zenon

\* RecordLockState::apply changes the bytes of the request, of its owner, and
\* nothing else, and leaves the list in its normal form.
LEMMA ApplyFacts ==
    ASSUME Normal(locks), NEW o \in Owner, NEW r \in Request, r.start < r.end
    PROVE  /\ Normal(Apply(o, r))
           /\ \A x \in Owner, t \in {"read", "write"}, b \in Nat :
                  Covers(Apply(o, r), x, t, b)
                      <=> IF x = o /\ Within(b, r) THEN t = r.type ELSE Covers(locks, x, t, b)
<1>1. Separate(Raw(o, r))
  BY RawSeparate, Zenon
<1>2. Normal(Apply(o, r)) /\ SameCover(Apply(o, r), Raw(o, r))
  BY <1>1, NormalizeFacts, ApplyIs, Zenon
<1>3. ASSUME NEW x \in Owner, NEW t \in {"read", "write"}, NEW b \in Nat
      PROVE  Covers(Apply(o, r), x, t, b)
                 <=> IF x = o /\ Within(b, r) THEN t = r.type ELSE Covers(locks, x, t, b)
  <2>1. Covers(Apply(o, r), x, t, b) <=> Covers(Raw(o, r), x, t, b)
    BY <1>2, Zenon DEF SameCover
  <2> QED BY <2>1, RawCovers, Zenon
<1> QED BY <1>2, <1>3, Zenon

\* The owner of a lock is found by a byte it covers.
LEMMA OwnersCovered ==
    ASSUME NEW S, Separate(S), NEW l \in S
    PROVE  Covers(S, l.owner, l.type, l.start) /\ l.start \in Nat /\ l.owner \in Owner /\ l.type \in {"read", "write"}
<1>1. l \in Lock /\ l.start < l.end
  BY Zenon DEF Separate
<1>2. l.start \in Nat /\ l.end \in Nat /\ l.owner \in Owner /\ l.type \in {"read", "write"}
  BY <1>1, LockFields, Zenon
<1>3. Over(l, l.owner, l.type, l.start)
  BY <1>1, <1>2 DEF Over
<1> QED BY <1>2, <1>3, Zenon DEF Covers

-----------------------------------------------------------------------------
(* The calls and where they are *)

\* The owners are numbers above NoOwner, and no description is a process.
LEMMA OwnerFacts ==
    /\ \A o \in Owner : o \in Nat /\ o # NoOwner
    /\ \A p \in Proc : p \in Owner /\ p \notin Ofd
    /\ Ofd \subseteq Owner
<1>1. Owner \subseteq Nat \ {0} /\ \A p \in Proc, o \in Ofd : p < o
  BY LockAssumption, Zenon
<1>2. \A p \in Proc : p \in Owner /\ p \in Nat
  BY <1>1, Zenon DEF Owner
<1>3. \A p \in Proc : p \notin Ofd
  BY <1>1, <1>2
<1> QED BY <1>1, <1>2, <1>3, Zenon DEF Owner, NoOwner

\* first_conflict_owner finds the owner of a conflicting lock, if there is one.
LEMMA FirstConflict ==
    ASSUME Normal(locks), NEW o, NEW r
    PROVE  \/ FirstConflictOwner(o, r) = NoOwner /\ \A l \in locks : ~Conflicts(l, o, r)
           \/ FirstConflictOwner(o, r) \in Owner /\ FirstConflictOwner(o, r) # NoOwner
<1> DEFINE found == {l \in locks : Conflicts(l, o, r)}
           first(l) == \A k \in found : l.start < k.start \/ (l.start = k.start /\ l.owner <= k.owner)
<1>1. CASE found = {}
  BY <1>1, Zenon DEF FirstConflictOwner
<1>2. CASE found # {}
  <2>1. \A l \in found : l \in Lock /\ l.start \in Nat /\ l.owner \in Nat /\ l.owner \in Owner
    BY LockFields, Zenon DEF Normal, Separate
  <2> HIDE DEF found
  <2>2. PICK l1 \in found : \A k \in found : l1.start <= k.start
    <3> DEFINE T == {k.start : k \in found}
    <3>1. T \subseteq Nat /\ T # {}
      BY <1>2, <2>1, Zenon
    <3>2. PICK m \in T : \A n \in T : m <= n
      BY <3>1, LeastElement, Zenon
    <3> QED BY <3>2, Zenon
  <2> DEFINE S1 == {k \in found : k.start = l1.start}
  <2>3. PICK l2 \in S1 : \A k \in S1 : l2.owner <= k.owner
    <3> DEFINE T == {k.owner : k \in S1}
    <3>1. T \subseteq Nat /\ T # {}
      BY <2>1, Zenon
    <3>2. PICK m \in T : \A n \in T : m <= n
      BY <3>1, LeastElement, Zenon
    <3> QED BY <3>2, Zenon
  <2>4. l2 \in found /\ first(l2)
    BY <2>1, <2>2, <2>3
  <2>5. (CHOOSE l \in found : first(l)) \in found
    <3> HIDE DEF first
    <3> QED BY <2>4, Zenon
  <2>6. FirstConflictOwner(o, r) = (CHOOSE l \in found : first(l)).owner
    BY <1>2, Zenon DEF FirstConflictOwner, found
  <2> HIDE DEF first
  <2>7. FirstConflictOwner(o, r) \in Owner
    BY <2>1, <2>5, <2>6, Zenon
  <2> QED BY <2>7, OwnerFacts, Zenon
<1> QED BY <1>1, <1>2, Zenon

\* A request of the interface: its range is not empty.
RequestOK(r) == r \in Request /\ r.start < r.end

\* A request that F_SETLK accepts names at least one byte of the file.
LEMMA NewRequestOK ==
    ASSUME NEW s \in LockStart, NEW n \in LockLen, s + n <= Top, NEW t, t \in {"read", "write", "unlock"}
    PROVE  RequestOK(NewRequest(s, n, t))
<1>1. s \in Nat /\ n \in Nat /\ Top \in Nat
  BY LockAssumption, Zenon
<1>2. NewRequest(s, n, t) = [start |-> s, end |-> IF n = 0 THEN Top + 1 ELSE s + n, type |-> t]
  BY Zenon DEF NewRequest, Eof
<1>3. s \in 0 .. Top /\ (IF n = 0 THEN Top + 1 ELSE s + n) \in 1 .. Top + 1
      /\ s < (IF n = 0 THEN Top + 1 ELSE s + n)
  BY <1>1
<1> QED BY <1>2, <1>3 DEF RequestOK, Request, Eof

Calls == [owner : Owner \cup {NoOwner}, req : Request \cup {NoRequest}, wake : BOOLEAN]

LockPc == {"user", "recheck", "switch", "again", "error", "retry", "wake", "close"}

InWaitLk == {"recheck", "switch", "again", "error"}

\* What a process in each place has.
PcOK(p) ==
    /\ lpc[p] \in InWaitLk \cup {"retry"} =>
           call[p].owner \in {p} \cup fds[p] /\ RequestOK(call[p].req) /\ fds[p] # {} /\ closing[p] = {}
    /\ lpc[p] \in {"user", "close"} => call[p] = NoCall
    /\ lpc[p] = "user" => closing[p] = {}

\* The types and the places of the record locks.
LockCtl ==
    /\ Normal(locks)
    /\ pending \in [Owner -> Request \cup {NoRequest}]
    /\ lpc \in [Proc -> LockPc]
    /\ call \in [Proc -> Calls]
    /\ fds \in [Proc -> SUBSET Ofd] /\ closing \in [Proc -> SUBSET Ofd]
    /\ queue \subseteq Proc /\ signalled \subseteq Proc /\ asleep \subseteq queue
    /\ \A p \in queue : lpc[p] \in InWaitLk
    /\ \A p \in Proc : PcOK(p)

\* A step of p that leaves the others where they were.
OnlyMoves(p) ==
    \A q \in Proc : q # p => /\ lpc'[q] = lpc[q] /\ call'[q] = call[q]
                             /\ fds'[q] = fds[q] /\ closing'[q] = closing[q]

\* The calls that the steps start.
LEMMA CallsFacts ==
    /\ NoCall \in Calls
    /\ \A o \in Owner, r \in Request \cup {NoRequest}, w \in BOOLEAN : [owner |-> o, req |-> r, wake |-> w] \in Calls
    /\ \A o \in Owner : Waking(o) \in Calls
BY Zenon DEF Calls, NoCall, Waking

\* The others keep their place.
LEMMA OthersOK ==
    ASSUME NEW p, OnlyMoves(p), NEW q \in Proc, q # p, PcOK(q)
    PROVE  PcOK(q)'
<1>1. lpc'[q] = lpc[q] /\ call'[q] = call[q] /\ fds'[q] = fds[q] /\ closing'[q] = closing[q]
  BY Zenon DEF OnlyMoves
<1> QED BY <1>1, Zenon DEF PcOK, RequestOK, Request, Eof, NoCall, NoRequest

\* The owners and the request of a call.
CallFor(p, o, r) == o \in {p} \cup fds[p] /\ o \in Owner /\ RequestOK(r) /\ fds[p] # {} /\ closing[p] = {}

\* What a step of p does to the rest.
LEMMA GrantCtl ==
    ASSUME LockCtl, NEW p \in Proc, NEW o, NEW r, CallFor(p, o, r), Grant(p, o, r),
           p \notin queue, UNCHANGED <<signalled, fds, closing>>
    PROVE  LockCtl' /\ OnlyMoves(p)
<1> USE DEF LockCtl
<1>1. Normal(locks')
  <2>1. Normal(Apply(o, r))
    BY ApplyFacts, Zenon DEF CallFor, RequestOK
  <2> QED BY <2>1, Zenon DEF Grant
<1>2. /\ lpc' = [lpc EXCEPT ![p] = IF queue = {} THEN "user" ELSE "wake"]
      /\ call' = [call EXCEPT ![p] = IF queue = {} THEN NoCall ELSE Waking(o)]
      /\ UNCHANGED <<pending, queue, asleep>>
  BY Zenon DEF Grant, AfterGrant, LockGoto
<1>3. OnlyMoves(p)
  BY <1>2, Zenon DEF OnlyMoves
<1>4. lpc' \in [Proc -> LockPc]
  BY <1>2, Zenon DEF LockPc
<1>5. call' \in [Proc -> Calls]
  <2>1. (IF queue = {} THEN NoCall ELSE Waking(o)) \in Calls
    BY CallsFacts, Zenon DEF CallFor
  <2> QED BY <1>2, <2>1, Zenon
<1>6. PcOK(p)'
  <2>1. lpc'[p] = IF queue = {} THEN "user" ELSE "wake"
    BY <1>2, Zenon
  <2>2. call'[p] = IF queue = {} THEN NoCall ELSE Waking(o)
    BY <1>2, Zenon
  <2>3. closing'[p] = {}
    BY Zenon DEF CallFor
  <2>4. NoCall' = NoCall
    BY Zenon DEF NoCall, NoRequest
  <2> QED BY <2>1, <2>2, <2>3, <2>4, Zenon DEF PcOK, InWaitLk
<1>7. \A q \in Proc : PcOK(q)'
  BY <1>3, <1>6, OthersOK, Zenon
<1>8. \A q \in queue' : lpc'[q] \in InWaitLk
  BY <1>2, Zenon
<1>9. pending' \in [Owner -> Request \cup {NoRequest}]
  BY <1>2, Zenon
<1>10. queue' \subseteq Proc /\ signalled' \subseteq Proc /\ asleep' \subseteq queue'
       /\ fds' \in [Proc -> SUBSET Ofd] /\ closing' \in [Proc -> SUBSET Ofd]
  BY <1>2, Zenon
<1>11. LockCtl'
  BY <1>1, <1>4, <1>5, <1>7, <1>8, <1>9, <1>10, Zenon DEF Request, Eof, NoRequest, Calls, NoCall, Lock, Normal, Separate, Owner, Calls
<1> QED BY <1>3, <1>11, Zenon

\* A request that blocks enters the wait queue.
LEMMA BlockCtl ==
    ASSUME LockCtl, NEW p \in Proc, NEW o, NEW r, CallFor(p, o, r), Block(p, o, r),
           UNCHANGED <<signalled, fds, closing>>
    PROVE  LockCtl' /\ OnlyMoves(p)
<1> USE DEF LockCtl
<1>1. /\ pending' = [pending EXCEPT ![o] = r] /\ queue' = queue \cup {p} /\ asleep' = asleep \cup {p}
      /\ call' = [call EXCEPT ![p] = [owner |-> o, req |-> r, wake |-> FALSE]]
      /\ lpc' = [lpc EXCEPT ![p] = "recheck"] /\ UNCHANGED locks
  BY Zenon DEF Block, LockGoto
<1>2. OnlyMoves(p)
  BY <1>1, Zenon DEF OnlyMoves
<1>3. lpc' \in [Proc -> LockPc]
  BY <1>1, Zenon DEF LockPc
<1>4. call' \in [Proc -> Calls]
  <2>1. [owner |-> o, req |-> r, wake |-> FALSE] \in Calls
    BY CallsFacts, Zenon DEF CallFor, RequestOK
  <2> QED BY <1>1, <2>1, Zenon
<1>5. PcOK(p)'
  <2>1. lpc'[p] = "recheck" /\ call'[p] = [owner |-> o, req |-> r, wake |-> FALSE]
    BY <1>1, Zenon
  <2>2. RequestOK(r)' /\ o \in {p} \cup fds'[p] /\ fds'[p] # {} /\ closing'[p] = {}
    BY Zenon DEF CallFor, RequestOK, Request, Eof
  <2>3. call'[p].owner = o /\ call'[p].req = r
    BY <2>1
  <2>4. RequestOK(call[p].req)'
    BY <2>2, <2>3, Zenon DEF RequestOK, Request, Eof
  <2> QED BY <2>1, <2>2, <2>3, <2>4, Zenon DEF PcOK, InWaitLk
<1>6. \A q \in Proc : PcOK(q)'
  BY <1>2, <1>5, OthersOK, Zenon
<1>7. \A q \in queue' : lpc'[q] \in InWaitLk
  BY <1>1, Zenon DEF InWaitLk
<1>8. pending' \in [Owner -> Request \cup {NoRequest}]
  BY <1>1, Zenon DEF CallFor, RequestOK
<1>9. queue' \subseteq Proc /\ signalled' \subseteq Proc /\ asleep' \subseteq queue'
       /\ fds' \in [Proc -> SUBSET Ofd] /\ closing' \in [Proc -> SUBSET Ofd]
  BY <1>1, Zenon
<1>10. Normal(locks')
  BY <1>1, Zenon
<1>11. LockCtl'
  BY <1>3, <1>4, <1>6, <1>7, <1>8, <1>9, <1>10, Zenon
<1> QED BY <1>2, <1>11, Zenon

\* The recheck goes to sleep only while a conflict is there and no cycle would be
\* closed.
LEMMA RecheckCtl ==
    ASSUME LockCtl, NEW p \in Proc, Recheck(p)
    PROVE  /\ LockCtl' /\ OnlyMoves(p) /\ lpc[p] = "recheck"
           /\ lpc'[p] \in {"again", "error", "switch"} /\ call'[p] = call[p]
           /\ lpc'[p] = "switch" => /\ FirstConflictOwner(call[p].owner, call[p].req) # NoOwner
                                    /\ ~WouldDeadlock(call[p].owner, call[p].req)
<1> USE DEF LockCtl
<1> DEFINE o == call[p].owner
           r == call[p].req
           l == IF FirstConflictOwner(o, r) = NoOwner THEN "again"
                ELSE IF WouldDeadlock(o, r) \/ p \in signalled THEN "error" ELSE "switch"
<1>1. /\ lpc[p] = "recheck" /\ lpc' = [lpc EXCEPT ![p] = l]
      /\ UNCHANGED <<locks, pending, queue, asleep, signalled, call, fds, closing>>
  BY Zenon DEF Recheck, LockGoto
<1>2. l \in {"again", "error", "switch"}
  BY Zenon
<1>3. l = "switch" => FirstConflictOwner(o, r) # NoOwner /\ ~WouldDeadlock(o, r)
  BY Zenon
<1> HIDE DEF l
<1>4. lpc'[p] = l
  BY <1>1, Zenon
<1>5. OnlyMoves(p)
  BY <1>1, Zenon DEF OnlyMoves
<1>6. lpc' \in [Proc -> LockPc]
  BY <1>1, <1>2, Zenon DEF LockPc
<1>7. PcOK(p)'
  <2>1. PcOK(p)
    BY Zenon
  <2>2. l \in InWaitLk /\ lpc[p] \in InWaitLk /\ l \notin {"user", "close"}
    BY <1>1, <1>2, Zenon DEF InWaitLk
  <2> QED BY <1>1, <1>4, <2>1, <2>2, Zenon DEF PcOK, RequestOK, Request, Eof
<1>8. \A q \in Proc : PcOK(q)'
  BY <1>5, <1>7, OthersOK, Zenon
<1>9. \A q \in queue' : lpc'[q] \in InWaitLk
  BY <1>1, <1>2, Zenon DEF InWaitLk
<1>10. LockCtl'
  BY <1>1, <1>6, <1>8, <1>9, Zenon
<1> QED BY <1>1, <1>2, <1>3, <1>4, <1>5, <1>10, Zenon

\* finish_wait leaves the queue on every way out of the wait.
LEMMA FinishCtl ==
    ASSUME LockCtl, NEW p \in Proc, FinishLk(p)
    PROVE  LockCtl' /\ OnlyMoves(p) /\ lpc[p] \in InWaitLk /\ lpc'[p] \in {"user", "retry"}
<1> USE DEF LockCtl
<1>1. /\ lpc[p] \in InWaitLk
      /\ queue' = queue \ {p} /\ asleep' = asleep \ {p}
      /\ pending' = [pending EXCEPT ![call[p].owner] = NoRequest]
      /\ UNCHANGED <<locks, fds, closing>>
  BY Zenon DEF FinishLk, InWaitLk
<1>2. \/ /\ lpc' = [lpc EXCEPT ![p] = "user"] /\ call' = [call EXCEPT ![p] = NoCall]
         /\ signalled' = signalled \ {p}
      \/ lpc' = [lpc EXCEPT ![p] = "retry"] /\ UNCHANGED <<call, signalled>>
  BY Zenon DEF FinishLk, LockGoto
<1>3. lpc'[p] \in {"user", "retry"}
  BY <1>2, Zenon
<1>4. OnlyMoves(p)
  BY <1>1, <1>2, Zenon DEF OnlyMoves
<1>5. lpc' \in [Proc -> LockPc]
  BY <1>2, Zenon DEF LockPc
<1>6. call' \in [Proc -> Calls]
  BY <1>2, CallsFacts, Zenon
<1>7. PcOK(p)'
  <2>1. /\ call[p].owner \in {p} \cup fds[p] /\ RequestOK(call[p].req) /\ fds[p] # {} /\ closing[p] = {}
    BY <1>1, Zenon DEF PcOK
  <2>2. CASE lpc' = [lpc EXCEPT ![p] = "user"] /\ call' = [call EXCEPT ![p] = NoCall]
    <3>1. lpc'[p] = "user" /\ call'[p] = NoCall /\ closing'[p] = {}
      BY <1>1, <2>1, <2>2, Zenon
    <3> QED BY <3>1, Zenon DEF PcOK, InWaitLk, NoCall, NoRequest
  <2>3. CASE lpc' = [lpc EXCEPT ![p] = "retry"] /\ UNCHANGED <<call, signalled>>
    <3>1. lpc'[p] = "retry" /\ call' = call
      BY <2>3, Zenon
    <3> QED BY <1>1, <2>1, <3>1, Zenon DEF PcOK, InWaitLk, RequestOK, Request, Eof
  <2> QED BY <1>2, <2>2, <2>3, Zenon
<1>8. \A q \in Proc : PcOK(q)'
  BY <1>4, <1>7, OthersOK, Zenon
<1>9. \A q \in queue' : lpc'[q] \in InWaitLk
  BY <1>1, <1>4, Zenon DEF OnlyMoves
<1>10. pending' \in [Owner -> Request \cup {NoRequest}]
  BY <1>1, Zenon
<1>11. queue' \subseteq Proc /\ signalled' \subseteq Proc /\ asleep' \subseteq queue'
  BY <1>1, <1>2, Zenon
<1>12. LockCtl'
  BY <1>1, <1>5, <1>6, <1>8, <1>9, <1>10, <1>11, Zenon
<1> QED BY <1>1, <1>3, <1>4, <1>12, Zenon

\* wake_all empties the queue and wakes everyone in it.
LEMMA WakeCtl ==
    ASSUME LockCtl, NEW p \in Proc, WakeLk(p)
    PROVE  LockCtl' /\ OnlyMoves(p)
<1> USE DEF LockCtl
<1>1. /\ lpc[p] = "wake" /\ call' = [call EXCEPT ![p] = NoCall]
      /\ closing' = [closing EXCEPT ![p] = @ \ {call[p].owner}]
      /\ lpc' = [lpc EXCEPT ![p] = IF closing'[p] = {} THEN "user" ELSE "close"]
      /\ UNCHANGED <<locks, pending, signalled, fds>>
  BY Zenon DEF WakeLk, LockGoto
<1>2. queue' \subseteq queue /\ asleep' \subseteq queue'
  BY Zenon DEF WakeLk
<1>3. OnlyMoves(p)
  BY <1>1, Zenon DEF OnlyMoves
<1>4. lpc' \in [Proc -> LockPc]
  BY <1>1, Zenon DEF LockPc
<1>5. call' \in [Proc -> Calls]
  BY <1>1, CallsFacts, Zenon
<1>6. closing' \in [Proc -> SUBSET Ofd]
  BY <1>1, Zenon
<1>7. PcOK(p)'
  <2>1. lpc'[p] = (IF closing'[p] = {} THEN "user" ELSE "close") /\ call'[p] = NoCall
    BY <1>1, Zenon
  <2> QED BY <2>1, Zenon DEF PcOK, InWaitLk, NoCall, NoRequest
<1>8. \A q \in Proc : PcOK(q)'
  BY <1>3, <1>7, OthersOK, Zenon
<1>9. \A q \in queue' : lpc'[q] \in InWaitLk
  <2>1. p \notin queue
    BY <1>1, Zenon DEF InWaitLk
  <2> QED BY <1>2, <1>3, <2>1, Zenon DEF OnlyMoves
<1>10. queue' \subseteq Proc
  BY <1>2, Zenon
<1>11. LockCtl'
  BY <1>1, <1>2, <1>4, <1>5, <1>6, <1>8, <1>9, <1>10, Zenon
<1> QED BY <1>3, <1>11, Zenon

\* A signal wakes the process and leaves it in its wait.
LEMMA SignalCtl ==
    ASSUME LockCtl, NEW p \in Proc, SignalLk(p)
    PROVE  LockCtl' /\ OnlyMoves(p)
<1> USE DEF LockCtl
<1>1. /\ signalled' = signalled \cup {p} /\ asleep' = asleep \ {p}
      /\ UNCHANGED <<locks, pending, queue, lpc, call, fds, closing>>
  BY Zenon DEF SignalLk
<1>2. OnlyMoves(p)
  BY <1>1, Zenon DEF OnlyMoves
<1>3. \A q \in Proc : PcOK(q)'
  BY <1>1, Zenon DEF PcOK, RequestOK, Request, Eof, NoCall, NoRequest, InWaitLk
<1>4. LockCtl'
  BY <1>1, <1>3, Zenon DEF InWaitLk
<1> QED BY <1>2, <1>4, Zenon

\* A close takes descriptors from the table and nothing else.
LEMMA CloseCtl ==
    ASSUME LockCtl, NEW p \in Proc, CloseFds(p)
    PROVE  /\ LockCtl' /\ OnlyMoves(p) /\ lpc[p] = "user" /\ lpc'[p] = "close" /\ closing'[p] # {}
           /\ UNCHANGED <<locks, pending, queue, asleep, signalled, call>>
<1> USE DEF LockCtl
<1>1. PICK gone : /\ gone \in {{o} : o \in fds[p]} \cup {fds[p]}
                  /\ fds' = [fds EXCEPT ![p] = @ \ gone] /\ closing' = [closing EXCEPT ![p] = gone]
  BY Zenon DEF CloseFds
<1>2. /\ lpc[p] = "user" /\ fds[p] # {} /\ lpc' = [lpc EXCEPT ![p] = "close"]
      /\ UNCHANGED <<locks, pending, queue, asleep, signalled, call>>
  BY Zenon DEF CloseFds, LockGoto
<1>3. gone \subseteq fds[p] /\ gone # {}
  BY <1>1, <1>2, Zenon
<1>4. fds' \in [Proc -> SUBSET Ofd] /\ closing' \in [Proc -> SUBSET Ofd]
  BY <1>1, <1>3, Zenon
<1>5. OnlyMoves(p)
  BY <1>1, <1>2, Zenon DEF OnlyMoves
<1>6. lpc'[p] = "close" /\ closing'[p] = gone /\ call'[p] = NoCall
  BY <1>1, <1>2, Zenon DEF PcOK
<1>7. PcOK(p)'
  BY <1>6, Zenon DEF PcOK, InWaitLk, NoCall, NoRequest
<1>8. \A q \in Proc : PcOK(q)'
  BY <1>5, <1>7, OthersOK, Zenon
<1>9. \A q \in queue' : lpc'[q] \in InWaitLk
  <2>1. p \notin queue
    BY <1>2, Zenon DEF InWaitLk
  <2> QED BY <1>2, <1>5, <2>1, Zenon DEF OnlyMoves
<1>10. lpc' \in [Proc -> LockPc]
  BY <1>2, Zenon DEF LockPc
<1>11. LockCtl'
  BY <1>2, <1>4, <1>8, <1>9, <1>10, Zenon
<1> QED BY <1>2, <1>3, <1>5, <1>6, <1>11, Zenon

\* The owners whose locks a close of p releases.
Gone(p, o) == IF \A q \in Proc \ {p} : o \notin fds[q] \cup closing[q] THEN {p, o} ELSE {p}

\* A part of a normal list is normal.
LEMMA NormalSubset ==
    ASSUME NEW S, Normal(S), NEW T, T \subseteq S
    PROVE  Normal(T)
BY Zenon DEF Normal, Separate

\* The release at a close removes the locks of the process, and of the description
\* with its last reference.
LEMMA ReleaseCtl ==
    ASSUME LockCtl, NEW p \in Proc, ReleaseLocks(p)
    PROVE  /\ LockCtl' /\ OnlyMoves(p) /\ lpc[p] = "close" /\ lpc'[p] = "wake"
           /\ \E o \in Ofd : locks' = {l \in locks : l.owner \notin Gone(p, o)}
           /\ call'[p].wake = (locks' # locks /\ queue # {})
           /\ UNCHANGED <<pending, queue, asleep, signalled, fds, closing>>
<1> USE DEF LockCtl
<1>1. PICK o \in closing[p] :
           /\ locks' = {l \in locks : l.owner \notin Gone(p, o)}
           /\ call' = [call EXCEPT ![p] = [owner |-> o, req |-> NoRequest, wake |-> locks' # locks /\ queue # {}]]
  BY Zenon DEF ReleaseLocks, Gone
<1>2. /\ lpc[p] = "close" /\ lpc' = [lpc EXCEPT ![p] = "wake"]
      /\ UNCHANGED <<pending, queue, asleep, signalled, fds, closing>>
  BY Zenon DEF ReleaseLocks, LockGoto
<1>3. o \in Ofd /\ o \in Owner
  BY <1>1, OwnerFacts, Zenon
<1> DEFINE w == locks' # locks /\ queue # {}
<1>4. w \in BOOLEAN
  BY Zenon
<1> HIDE DEF w
<1>5. call' = [call EXCEPT ![p] = [owner |-> o, req |-> NoRequest, wake |-> w]]
  BY <1>1, Zenon DEF w
<1>6. call' \in [Proc -> Calls] /\ call'[p].wake = w
  BY <1>3, <1>4, <1>5, CallsFacts, Zenon
<1>7. Normal(locks')
  <2>1. locks' \subseteq locks
    BY <1>1, Zenon
  <2>2. Normal(locks)
    BY Zenon
  <2> QED BY <2>1, <2>2, NormalSubset, Zenon
<1>8. OnlyMoves(p)
  BY <1>2, <1>5, Zenon DEF OnlyMoves
<1>9. lpc'[p] = "wake"
  BY <1>2, Zenon
<1>10. PcOK(p)'
  BY <1>9, Zenon DEF PcOK, InWaitLk
<1>11. \A q \in Proc : PcOK(q)'
  BY <1>8, <1>10, OthersOK, Zenon
<1>12. \A q \in queue' : lpc'[q] \in InWaitLk
  <2>1. p \notin queue
    BY <1>2, Zenon DEF InWaitLk
  <2> QED BY <1>2, <1>8, <2>1, Zenon DEF OnlyMoves
<1>13. lpc' \in [Proc -> LockPc]
  BY <1>2, Zenon DEF LockPc
<1>14. LockCtl'
  BY <1>2, <1>6, <1>7, <1>11, <1>12, <1>13, Zenon
<1> QED BY <1>1, <1>2, <1>3, <1>6, <1>8, <1>9, <1>14, Zenon DEF w

\* Opening the file adds a description that nobody has.
LEMMA OpenCtl ==
    ASSUME LockCtl, NEW p \in Proc, OpenFile(p)
    PROVE  /\ LockCtl' /\ OnlyMoves(p)
           /\ UNCHANGED <<locks, pending, queue, asleep, signalled, lpc, call, closing>>
           /\ \A q \in Proc : fds[q] \subseteq fds'[q]
<1> USE DEF LockCtl
<1>1. PICK o \in Ofd : fds' = [fds EXCEPT ![p] = @ \cup {o}]
  BY Zenon DEF OpenFile
<1>2. lpc[p] = "user" /\ UNCHANGED <<locks, pending, queue, asleep, signalled, lpc, call, closing>>
  BY Zenon DEF OpenFile
<1>3. OnlyMoves(p) /\ \A q \in Proc : fds[q] \subseteq fds'[q]
  BY <1>1, <1>2, Zenon DEF OnlyMoves
<1>4. fds' \in [Proc -> SUBSET Ofd]
  BY <1>1, Zenon
<1>5. PcOK(p)'
  <2>1. PcOK(p) /\ lpc'[p] = "user" /\ call'[p] = call[p] /\ closing'[p] = closing[p]
    BY <1>2, Zenon
  <2> QED BY <1>2, <2>1, Zenon DEF PcOK, InWaitLk, NoCall, NoRequest
<1>6. \A q \in Proc : PcOK(q)'
  BY <1>3, <1>5, OthersOK, Zenon
<1>7. LockCtl'
  BY <1>2, <1>4, <1>6, Zenon
<1> QED BY <1>2, <1>3, <1>7, Zenon

\* A system call and a retry are a grant or a wait for one request.
LEMMA CallSteps ==
    ASSUME LockCtl, NEW p \in Proc, SetLk(p) \/ RetryLk(p)
    PROVE  /\ lpc[p] \in {"user", "retry"} /\ p \notin queue /\ UNCHANGED <<signalled, fds, closing>>
           /\ \E o, r : CallFor(p, o, r) /\ (Grant(p, o, r) \/ Block(p, o, r))
<1>1. CASE SetLk(p)
  <2>1. lpc[p] = "user" /\ fds[p] # {} /\ UNCHANGED <<signalled, fds, closing>>
    BY <1>1, Zenon DEF SetLk
  <2>2. PICK o \in {p} \cup fds[p], s \in LockStart, n \in LockLen :
           \E type \in IF o = p THEN PosixType ELSE OfdType :
               s + n <= Top /\ (Grant(p, o, NewRequest(s, n, type)) \/ Block(p, o, NewRequest(s, n, type)))
    BY <1>1, Zenon DEF SetLk
  <2>3. PICK type \in IF o = p THEN PosixType ELSE OfdType :
               s + n <= Top /\ (Grant(p, o, NewRequest(s, n, type)) \/ Block(p, o, NewRequest(s, n, type)))
    BY <2>2, Zenon
  <2>4. type \in {"read", "write", "unlock"}
    BY LockAssumption, Zenon
  <2>5. RequestOK(NewRequest(s, n, type))
    BY <2>3, <2>4, NewRequestOK, Zenon
  <2>6. o \in Owner
    <3>1. fds[p] \subseteq Ofd
      BY Zenon DEF LockCtl
    <3> QED BY <3>1, OwnerFacts, Zenon
  <2>7. closing[p] = {} /\ p \notin queue
    BY <2>1, Zenon DEF LockCtl, PcOK, InWaitLk
  <2>8. CallFor(p, o, NewRequest(s, n, type))
    BY <2>1, <2>5, <2>6, <2>7, Zenon DEF CallFor
  <2> QED BY <2>1, <2>3, <2>7, <2>8, Zenon
<1>2. CASE RetryLk(p)
  <2> DEFINE o == call[p].owner
             r == call[p].req
  <2>1. /\ lpc[p] = "retry" /\ UNCHANGED <<signalled, fds, closing>>
        /\ Grant(p, o, r) \/ Block(p, o, r)
    BY <1>2, Zenon DEF RetryLk
  <2>2. o \in {p} \cup fds[p] /\ RequestOK(r) /\ fds[p] # {} /\ closing[p] = {} /\ p \notin queue
    BY <2>1, Zenon DEF LockCtl, PcOK, InWaitLk
  <2>3. o \in Owner
    <3>1. fds[p] \subseteq Ofd
      BY Zenon DEF LockCtl
    <3> QED BY <2>2, <3>1, OwnerFacts, Zenon
  <2>4. CallFor(p, o, r)
    BY <2>2, <2>3, Zenon DEF CallFor
  <2> QED BY <2>1, <2>2, <2>4, Zenon
<1> QED BY <1>1, <1>2, Zenon

\* Every step keeps the list normal and every process where its call puts it.
LEMMA LockCtlStep ==
    ASSUME LockCtl, LockNext
    PROVE  LockCtl'
<1>1. PICK p \in Proc : \/ SetLk(p) \/ RetryLk(p) \/ Recheck(p) \/ FinishLk(p)
                        \/ WakeLk(p) \/ SignalLk(p)
                        \/ CloseFds(p) \/ ReleaseLocks(p) \/ OpenFile(p)
  BY Zenon DEF LockNext
<1>2. CASE SetLk(p) \/ RetryLk(p)
  <2>1. p \notin queue /\ UNCHANGED <<signalled, fds, closing>>
    BY <1>2, CallSteps, Zenon
  <2>2. PICK o, r : CallFor(p, o, r) /\ (Grant(p, o, r) \/ Block(p, o, r))
    BY <1>2, CallSteps, Zenon
  <2>3. CASE Grant(p, o, r)
    BY <2>1, <2>2, <2>3, GrantCtl, Zenon
  <2>4. CASE Block(p, o, r)
    BY <2>1, <2>2, <2>4, BlockCtl, Zenon
  <2> QED BY <2>2, <2>3, <2>4, Zenon
<1> QED BY <1>1, <1>2, RecheckCtl, FinishCtl, WakeCtl, SignalCtl, CloseCtl, ReleaseCtl, OpenCtl, Zenon

\* Initially there are no locks and no calls.
LEMMA LockCtlInit ==
    ASSUME LockInit
    PROVE  LockCtl
<1> USE DEF LockInit
<1>1. Normal(locks)
  BY Zenon DEF Normal, Separate
<1>2. call \in [Proc -> Calls]
  BY CallsFacts, Zenon
<1>3. \A p \in Proc : lpc[p] = "user" /\ call[p] = NoCall /\ closing[p] = {}
  BY Zenon
<1>4. \A p \in Proc : PcOK(p)
  BY <1>3, Zenon DEF PcOK, InWaitLk
<1>5. lpc \in [Proc -> LockPc]
  BY Zenon DEF LockPc
<1> QED BY <1>1, <1>2, <1>4, <1>5, Zenon DEF LockCtl

-----------------------------------------------------------------------------
(* Wake-ups *)

\* A step that wakes nobody, puts nobody to sleep and changes no lock.
Quiet ==
    /\ locks' = locks
    /\ WakeComing => WakeComing'
    /\ \A q \in Proc : Sleeps(q)' => Sleeps(q) /\ call'[q] = call[q]

\* A step after which a wake-up is coming, or nobody sleeps.
Roused == WakeComing' \/ \A q \in Proc : ~Sleeps(q)'

\* Who is on the way to wake the queue stays on it while others move.
LEMMA WakeStays ==
    ASSUME NEW p, OnlyMoves(p), lpc[p] # "wake" \/ call[p].wake = FALSE, WakeComing
    PROVE  WakeComing'
<1>1. PICK q \in Proc : lpc[q] = "wake" /\ call[q].wake
  BY Zenon DEF WakeComing
<1>2. q # p
  BY <1>1, Zenon
<1>3. lpc'[q] = lpc[q] /\ call'[q] = call[q]
  BY <1>2, Zenon DEF OnlyMoves
<1> QED BY <1>1, <1>3, Zenon DEF WakeComing

\* A step that changes no lock, wakes nobody and puts nobody to sleep is quiet.
LEMMA QuietStep ==
    ASSUME NEW p \in Proc, OnlyMoves(p), lpc[p] # "wake" \/ call[p].wake = FALSE,
           locks' = locks, asleep' \ {p} \subseteq asleep, lpc'[p] # "switch"
    PROVE  Quiet
<1>1. WakeComing => WakeComing'
  BY WakeStays, Zenon
<1>2. ASSUME NEW q \in Proc, Sleeps(q)' PROVE Sleeps(q) /\ call'[q] = call[q]
  <2>1. lpc'[q] = "switch" /\ q \in asleep'
    BY <1>2, Zenon DEF Sleeps
  <2>2. q # p
    BY <2>1, Zenon
  <2> QED BY <2>1, <2>2, Zenon DEF OnlyMoves, Sleeps
<1> QED BY <1>1, <1>2, Zenon DEF Quiet

\* Sleepers are queued: with an empty queue there is none.
LEMMA NoSleepers ==
    ASSUME asleep' \subseteq queue', queue' = {}
    PROVE  Roused
BY Zenon DEF Roused, Sleeps

\* A granted request leaves a wake-up behind if anybody is in the queue.
LEMMA GrantRouses ==
    ASSUME LockCtl, LockCtl', NEW p \in Proc, NEW o, NEW r, Grant(p, o, r)
    PROVE  Roused
<1>1. CASE queue = {}
  <2>1. queue' = {} /\ asleep' \subseteq queue'
    BY <1>1, Zenon DEF Grant, LockCtl
  <2> QED BY <2>1, NoSleepers, Zenon
<1>2. CASE queue # {}
  <2>1. lpc' = [lpc EXCEPT ![p] = "wake"] /\ call' = [call EXCEPT ![p] = Waking(o)]
    BY <1>2, Zenon DEF Grant, AfterGrant, LockGoto
  <2>2. lpc'[p] = "wake" /\ call'[p] = Waking(o)
    BY <2>1, Zenon DEF LockCtl
  <2>3. call'[p].wake
    BY <2>2, CallFields, Zenon
  <2> QED BY <2>2, <2>3, Zenon DEF Roused, WakeComing
<1> QED BY <1>1, <1>2, Zenon

\* A step is quiet, leaves a wake-up behind, or is a recheck.
LEMMA LockSteps ==
    ASSUME LockCtl, LockNext
    PROVE  Quiet \/ Roused \/ \E p \in Proc : Recheck(p)
<1>0. LockCtl'
  BY LockCtlStep, Zenon
<1>1. PICK p \in Proc : \/ SetLk(p) \/ RetryLk(p) \/ Recheck(p) \/ FinishLk(p)
                        \/ WakeLk(p) \/ SignalLk(p)
                        \/ CloseFds(p) \/ ReleaseLocks(p) \/ OpenFile(p)
  BY Zenon DEF LockNext
<1>2. CASE SetLk(p) \/ RetryLk(p)
  <2>1. lpc[p] \in {"user", "retry"} /\ p \notin queue /\ UNCHANGED <<signalled, fds, closing>>
    BY <1>2, CallSteps, Zenon
  <2>2. PICK o, r : CallFor(p, o, r) /\ (Grant(p, o, r) \/ Block(p, o, r))
    BY <1>2, CallSteps, Zenon
  <2>3. CASE Grant(p, o, r)
    BY <1>0, <2>3, GrantRouses, Zenon
  <2>4. CASE Block(p, o, r)
    <3>1. OnlyMoves(p)
      BY <2>1, <2>2, <2>4, BlockCtl, Zenon
    <3>2. asleep' = asleep \cup {p} /\ locks' = locks /\ lpc' = [lpc EXCEPT ![p] = "recheck"]
      BY <2>4, Zenon DEF Block, LockGoto
    <3>3. lpc'[p] # "switch" /\ lpc[p] # "wake"
      BY <2>1, <3>2, Zenon DEF LockCtl
    <3>4. asleep' \ {p} \subseteq asleep
      BY <3>2, Zenon
    <3> QED BY <3>1, <3>2, <3>3, <3>4, QuietStep, Zenon
  <2> QED BY <2>2, <2>3, <2>4, Zenon
<1>3. CASE FinishLk(p)
  <2>1. OnlyMoves(p) /\ lpc[p] # "wake" /\ lpc'[p] # "switch"
    BY <1>3, FinishCtl, Zenon DEF InWaitLk
  <2>2. locks' = locks /\ asleep' \ {p} \subseteq asleep
    BY <1>3, Zenon DEF FinishLk
  <2> QED BY <2>1, <2>2, QuietStep, Zenon
<1>4. CASE WakeLk(p)
  <2>0. call[p].wake \in BOOLEAN
    BY Zenon DEF LockCtl, Calls
  <2>1. CASE call[p].wake = TRUE
    <3>1. queue' = {}
      BY <1>4, <2>1, Zenon DEF WakeLk
    <3>2. asleep' \subseteq queue'
      BY <1>0, Zenon DEF LockCtl
    <3> QED BY <3>1, <3>2, NoSleepers, Zenon
  <2>2. CASE call[p].wake = FALSE
    <3>1. asleep' = asleep /\ locks' = locks /\ lpc' = [lpc EXCEPT ![p] = IF closing'[p] = {} THEN "user" ELSE "close"]
      BY <1>4, <2>2, Zenon DEF WakeLk, LockGoto
    <3>2. lpc'[p] # "switch"
      BY <3>1, Zenon DEF LockCtl
    <3>3. OnlyMoves(p)
      BY <1>4, WakeCtl, Zenon
    <3>4. asleep' \ {p} \subseteq asleep
      BY <3>1, Zenon
    <3> QED BY <2>2, <3>1, <3>2, <3>3, <3>4, QuietStep, Zenon
  <2> QED BY <2>0, <2>1, <2>2, Zenon
<1>5. CASE SignalLk(p)
  <2>1. asleep' = asleep \ {p} /\ locks' = locks /\ lpc' = lpc /\ call' = call
    BY <1>5, Zenon DEF SignalLk
  <2> QED BY <2>1, Zenon DEF Quiet, WakeComing, Sleeps
<1>6. CASE CloseFds(p)
  <2>1. OnlyMoves(p) /\ lpc[p] = "user" /\ lpc'[p] = "close" /\ locks' = locks /\ asleep' = asleep
    BY <1>6, CloseCtl, Zenon
  <2>2. lpc[p] # "wake" /\ lpc'[p] # "switch" /\ asleep' \ {p} \subseteq asleep
    BY <2>1, Zenon
  <2> QED BY <2>1, <2>2, QuietStep, Zenon
<1>7. CASE ReleaseLocks(p)
  <2>1. /\ OnlyMoves(p) /\ lpc[p] = "close" /\ lpc'[p] = "wake" /\ queue' = queue /\ asleep' = asleep
        /\ call'[p].wake = (locks' # locks /\ queue # {})
    BY <1>7, ReleaseCtl, Zenon
  <2>2. CASE queue = {}
    <3>1. queue' = {} /\ asleep' \subseteq queue'
      BY <1>0, <2>1, <2>2, Zenon DEF LockCtl
    <3> QED BY <3>1, NoSleepers, Zenon
  <2>3. CASE locks' = locks
    <3>1. lpc[p] # "wake" /\ lpc'[p] # "switch" /\ asleep' \ {p} \subseteq asleep
      BY <2>1, Zenon
    <3> QED BY <2>1, <2>3, <3>1, QuietStep, Zenon
  <2>4. CASE queue # {} /\ locks' # locks
    <3>1. lpc'[p] = "wake" /\ call'[p].wake
      BY <2>1, <2>4, Zenon
    <3> QED BY <3>1, Zenon DEF Roused, WakeComing
  <2> QED BY <2>2, <2>3, <2>4, Zenon
<1>8. CASE OpenFile(p)
  <2>1. asleep' = asleep /\ locks' = locks /\ lpc' = lpc /\ call' = call
    BY <1>8, Zenon DEF OpenFile
  <2> QED BY <2>1, Zenon DEF Quiet, WakeComing, Sleeps
<1> QED BY <1>1, <1>2, <1>3, <1>4, <1>5, <1>6, <1>7, <1>8, Zenon

\* The owner of the first of the conflicting locks.
BlockerIn(S, o, r) ==
    LET found == {l \in S : Conflicts(l, o, r)}
    IN  IF found = {} THEN NoOwner
        ELSE (CHOOSE l \in found : \A k \in found :
                 l.start < k.start \/ (l.start = k.start /\ l.owner <= k.owner)).owner

\* While the list stays, so does the owner that blocks a call.
LEMMA SameBlocker ==
    ASSUME locks' = locks, NEW q, call'[q] = call[q]
    PROVE  FirstConflictOwner(call[q].owner, call[q].req)' = FirstConflictOwner(call[q].owner, call[q].req)
<1>1. FirstConflictOwner(call[q].owner, call[q].req) = BlockerIn(locks, call[q].owner, call[q].req)
  BY Zenon DEF FirstConflictOwner, BlockerIn
<1>2. FirstConflictOwner(call[q].owner, call[q].req)' = BlockerIn(locks', call'[q].owner, call'[q].req)
  BY Zenon DEF FirstConflictOwner, BlockerIn, Conflicts, RangesOverlap, NoOwner
<1> QED BY <1>1, <1>2, Zenon

\* A step of the recheck, for the others and for its own process.
LEMMA RecheckKeeps ==
    ASSUME LockCtl, NEW p \in Proc, Recheck(p)
    PROVE  /\ locks' = locks /\ call' = call /\ pending' = pending /\ asleep' = asleep
           /\ WakeComing => WakeComing'
           /\ \A q \in Proc : q # p /\ Sleeps(q)' => Sleeps(q)
           /\ Sleeps(p)' => /\ FirstConflictOwner(call[p].owner, call[p].req) # NoOwner
                            /\ ~WouldDeadlock(call[p].owner, call[p].req)
<1>1. locks' = locks /\ call' = call /\ pending' = pending /\ asleep' = asleep
  BY Zenon DEF Recheck
<1>2. /\ OnlyMoves(p) /\ lpc[p] # "wake"
      /\ lpc'[p] = "switch" => /\ FirstConflictOwner(call[p].owner, call[p].req) # NoOwner
                               /\ ~WouldDeadlock(call[p].owner, call[p].req)
  BY RecheckCtl, Zenon
<1>3. WakeComing => WakeComing'
  BY <1>2, WakeStays, Zenon
<1>4. \A q \in Proc : q # p /\ Sleeps(q)' => Sleeps(q)
  BY <1>1, <1>2, Zenon DEF OnlyMoves, Sleeps
<1>5. Sleeps(p)' => lpc'[p] = "switch"
  BY Zenon DEF Sleeps
<1> QED BY <1>1, <1>2, <1>3, <1>4, <1>5, Zenon

\* No step loses a wake-up.
LEMMA NoLostLockStep ==
    ASSUME LockCtl, NoLostLockWakeup, LockNext
    PROVE  NoLostLockWakeup'
<1>0. LockCtl'
  BY LockCtlStep, Zenon
<1>1. SUFFICES ASSUME NEW p \in Proc, Sleeps(p)',
                      FirstConflictOwner(call[p].owner, call[p].req)' = NoOwner
               PROVE  (p \in queue /\ WakeComing)'
  BY Zenon DEF NoLostLockWakeup, NoOwner
<1>2. p \in queue'
  BY <1>0, <1>1, Zenon DEF LockCtl, Sleeps
<1>3. ASSUME locks' = locks, call'[p] = call[p], Sleeps(p), WakeComing => WakeComing'
      PROVE  WakeComing'
  <2>1. FirstConflictOwner(call[p].owner, call[p].req) = NoOwner
    BY <1>1, <1>3, SameBlocker, Zenon
  <2> QED BY <1>3, <2>1, Zenon DEF NoLostLockWakeup
<1>4. ASSUME Quiet PROVE WakeComing'
  BY <1>1, <1>3, <1>4, Zenon DEF Quiet
<1>5. ASSUME Roused PROVE WakeComing'
  BY <1>1, <1>5, Zenon DEF Roused
<1>6. ASSUME \E q \in Proc : Recheck(q) PROVE WakeComing'
  <2>1. PICK q \in Proc : Recheck(q)
    BY <1>6, Zenon
  <2>2. CASE p # q
    BY <1>1, <1>3, <2>1, <2>2, RecheckKeeps, Zenon
  <2>3. CASE p = q
    <3>1. locks' = locks /\ call'[p] = call[p] /\ FirstConflictOwner(call[p].owner, call[p].req) # NoOwner
      BY <1>1, <2>1, <2>3, RecheckKeeps, Zenon
    <3> QED BY <1>1, <3>1, SameBlocker, Zenon
  <2> QED BY <2>2, <2>3, Zenon
<1>7. WakeComing'
  BY <1>4, <1>5, <1>6, LockSteps, Zenon
<1> QED BY <1>2, <1>7, Zenon

-----------------------------------------------------------------------------
(* Deadlocks *)

\* A process that waits for a POSIX lock has its request pending.
PendingOK == \A p \in Proc : lpc[p] \in InWaitLk /\ call[p].owner = p => pending[p] = call[p].req

\* The steps of a process leave the pending requests of the others.
LEMMA PendingOthers ==
    ASSUME LockCtl, PendingOK, NEW p \in Proc, OnlyMoves(p), NEW q \in Proc, q # p,
           pending'[q] = pending[q], lpc'[q] \in InWaitLk, call'[q].owner = q
    PROVE  pending'[q] = call'[q].req
BY Zenon DEF OnlyMoves, PendingOK

\* A request of p is not pending for another process.
LEMMA OtherOwner ==
    ASSUME LockCtl, NEW p \in Proc, NEW o, o \in {p} \cup fds[p], NEW q \in Proc, q # p
    PROVE  q # o
<1>1. fds[p] \subseteq Ofd
  BY Zenon DEF LockCtl
<1> QED BY <1>1, OwnerFacts, Zenon

\* Whoever waits with a POSIX request has it in the table of pending requests.
LEMMA PendingStep ==
    ASSUME LockCtl, PendingOK, LockNext
    PROVE  PendingOK'
<1>1. PICK p \in Proc : \/ SetLk(p) \/ RetryLk(p) \/ Recheck(p) \/ FinishLk(p)
                        \/ WakeLk(p) \/ SignalLk(p)
                        \/ CloseFds(p) \/ ReleaseLocks(p) \/ OpenFile(p)
  BY Zenon DEF LockNext
<1>2. ASSUME OnlyMoves(p), pending' = pending, lpc'[p] \notin InWaitLk PROVE PendingOK'
  BY <1>2, PendingOthers, Zenon DEF PendingOK, InWaitLk
<1>3. CASE SetLk(p) \/ RetryLk(p)
  <2>1. p \notin queue /\ UNCHANGED <<signalled, fds, closing>>
    BY <1>3, CallSteps, Zenon
  <2>2. PICK o, r : CallFor(p, o, r) /\ (Grant(p, o, r) \/ Block(p, o, r))
    BY <1>3, CallSteps, Zenon
  <2>3. CASE Grant(p, o, r)
    <3>1. OnlyMoves(p)
      BY <2>1, <2>2, <2>3, GrantCtl, Zenon
    <3>2. pending' = pending /\ lpc' = [lpc EXCEPT ![p] = IF queue = {} THEN "user" ELSE "wake"]
      BY <2>3, Zenon DEF Grant, AfterGrant, LockGoto
    <3>3. lpc'[p] \notin InWaitLk
      BY <3>2, Zenon DEF InWaitLk, LockCtl
    <3> QED BY <1>2, <3>1, <3>2, <3>3, Zenon
  <2>4. CASE Block(p, o, r)
    <3>1. OnlyMoves(p)
      BY <2>1, <2>2, <2>4, BlockCtl, Zenon
    <3>2. /\ pending' = [pending EXCEPT ![o] = r]
          /\ call' = [call EXCEPT ![p] = [owner |-> o, req |-> r, wake |-> FALSE]]
      BY <2>4, Zenon DEF Block
    <3>3. ASSUME NEW q \in Proc, lpc'[q] \in InWaitLk, call'[q].owner = q
          PROVE  pending'[q] = call'[q].req
      <4>1. CASE q = p
        <5>1. call'[p].owner = o /\ call'[p].req = r
          BY <3>2, Zenon DEF LockCtl
        <5>2. pending'[o] = r
          BY <2>2, <3>2, Zenon DEF LockCtl, CallFor
        <5> QED BY <3>3, <4>1, <5>1, <5>2, Zenon
      <4>2. CASE q # p
        <5>1. q # o
          BY <2>2, <4>2, OtherOwner, Zenon DEF CallFor
        <5>2. pending'[q] = pending[q]
          BY <3>2, <5>1, OwnerFacts, Zenon DEF LockCtl
        <5> QED BY <3>1, <3>3, <4>2, <5>2, PendingOthers, Zenon
      <4> QED BY <4>1, <4>2, Zenon
    <3> QED BY <3>3, Zenon DEF PendingOK, InWaitLk
  <2> QED BY <2>2, <2>3, <2>4, Zenon
<1>4. CASE Recheck(p)
  <2>1. OnlyMoves(p) /\ lpc[p] = "recheck" /\ call' = call /\ pending' = pending
    BY <1>4, RecheckCtl, Zenon DEF Recheck
  <2>2. lpc[p] \in InWaitLk
    BY <2>1, Zenon DEF InWaitLk
  <2>3. ASSUME NEW q \in Proc, lpc'[q] \in InWaitLk, call'[q].owner = q
        PROVE  pending'[q] = call'[q].req
    <3>1. lpc[q] \in InWaitLk
      BY <2>1, <2>2, <2>3, Zenon DEF OnlyMoves
    <3> QED BY <2>1, <2>3, <3>1, Zenon DEF PendingOK
  <2> QED BY <2>3, Zenon DEF PendingOK, InWaitLk
<1>5. CASE FinishLk(p)
  <2>1. OnlyMoves(p) /\ lpc[p] \in InWaitLk /\ lpc'[p] \notin InWaitLk
    BY <1>5, FinishCtl, Zenon DEF InWaitLk
  <2>2. call[p].owner \in {p} \cup fds[p]
    BY <2>1, Zenon DEF LockCtl, PcOK
  <2>3. pending' = [pending EXCEPT ![call[p].owner] = NoRequest]
    BY <1>5, Zenon DEF FinishLk
  <2>4. ASSUME NEW q \in Proc, lpc'[q] \in InWaitLk, call'[q].owner = q
        PROVE  pending'[q] = call'[q].req
    <3>1. q # p
      BY <2>1, <2>4, Zenon
    <3>2. q # call[p].owner
      BY <2>2, <3>1, OtherOwner, Zenon
    <3>3. pending'[q] = pending[q]
      BY <2>3, <3>2, OwnerFacts, Zenon DEF LockCtl
    <3> QED BY <2>1, <2>4, <3>1, <3>3, PendingOthers, Zenon
  <2> QED BY <2>4, Zenon DEF PendingOK, InWaitLk
<1>6. CASE WakeLk(p)
  <2>1. pending' = pending /\ lpc' = [lpc EXCEPT ![p] = IF closing'[p] = {} THEN "user" ELSE "close"]
    BY <1>6, Zenon DEF WakeLk, LockGoto
  <2>2. lpc'[p] \notin InWaitLk
    BY <2>1, Zenon DEF InWaitLk, LockCtl
  <2> QED BY <1>2, <1>6, <2>1, <2>2, WakeCtl, Zenon
<1>7. CASE SignalLk(p)
  BY <1>7, Zenon DEF SignalLk, PendingOK, InWaitLk
<1>8. CASE CloseFds(p)
  <2>1. OnlyMoves(p) /\ pending' = pending /\ lpc'[p] = "close"
    BY <1>8, CloseCtl, Zenon
  <2> QED BY <1>2, <2>1, Zenon DEF InWaitLk
<1>9. CASE ReleaseLocks(p)
  <2>1. OnlyMoves(p) /\ pending' = pending /\ lpc'[p] = "wake"
    BY <1>9, ReleaseCtl, Zenon
  <2> QED BY <1>2, <2>1, Zenon DEF InWaitLk
<1>10. CASE OpenFile(p)
  BY <1>10, Zenon DEF OpenFile, PendingOK, InWaitLk
<1> QED BY <1>1, <1>3, <1>4, <1>5, <1>6, <1>7, <1>8, <1>9, <1>10, Zenon

\* The chain of blockers that would_deadlock follows.
LEMMA ChainFacts ==
    ASSUME LockCtl, NEW o, NEW r
    PROVE  /\ BlockChain(o, r)[0] = FirstConflictOwner(o, r)
           /\ \A i \in 1 .. Cardinality(Owner) :
                 BlockChain(o, r)[i] = NextBlocker(BlockChain(o, r)[i - 1])
<1> DEFINE n == Cardinality(Owner)
           X == Owner \cup {NoOwner}
           x0 == FirstConflictOwner(o, r)
           step == [a \in (1 .. n) \X X |-> NextBlocker(a[2])]
           chain == CHOOSE k : k = [i \in 0 .. n |-> IF i = 0 THEN x0 ELSE NextBlocker(k[i - 1])]
<1>0. n \in Nat /\ Normal(locks)
  BY LockAssumption, FS_CardinalityType, Zenon DEF LockCtl
<1>8. BlockChain(o, r) = chain
  BY Zenon DEF BlockChain
<1> HIDE DEF n
<1>1. x0 \in X
  BY <1>0, FirstConflict, Zenon
<1>2. step \in StepFuns(X, n)
  <2>1. ASSUME NEW a \in (1 .. n) \X X PROVE NextBlocker(a[2]) \in X
    <3>1. FirstConflictOwner(a[2], pending[a[2]]) \in X
      BY <1>0, FirstConflict, Zenon
    <3> QED BY <3>1, Zenon DEF NextBlocker
  <2> HIDE DEF X
  <2> QED BY <2>1, Zenon DEF StepFuns
<1>3. \E g : Iterates(g, X, x0, n, step)
  <2> HIDE DEF step, x0, X
  <2> QED BY <1>0, <1>1, <1>2, Recursion, Zenon
<1>4. PICK g \in [0 .. n -> X] : g[0] = x0 /\ \A i \in 1 .. n : g[i] = step[<<i, g[i - 1]>>]
  <2> HIDE DEF step, x0, X
  <2> QED BY <1>3, Zenon DEF Iterates
<1>5. ASSUME NEW i \in 1 .. n PROVE g[i] = NextBlocker(g[i - 1])
  <2> HIDE DEF X
  <2>1. <<i, g[i - 1]>> \in (1 .. n) \X X
    <3>1. i - 1 \in 0 .. n
      BY <1>0
    <3> QED BY <3>1, Zenon
  <2>2. step[<<i, g[i - 1]>>] = NextBlocker(g[i - 1])
    BY <2>1, Zenon
  <2> QED BY <1>4, <2>2, Zenon
<1>6. g = [i \in 0 .. n |-> IF i = 0 THEN x0 ELSE NextBlocker(g[i - 1])]
  <2> HIDE DEF step, x0, X
  <2>1. ASSUME NEW i \in 0 .. n PROVE g[i] = IF i = 0 THEN x0 ELSE NextBlocker(g[i - 1])
    <3>1. i = 0 \/ i \in 1 .. n
      BY <1>0
    <3> QED BY <1>4, <1>5, <3>1, Zenon
  <2> QED BY <2>1, Zenon
<1>7. chain = [i \in 0 .. n |-> IF i = 0 THEN x0 ELSE NextBlocker(chain[i - 1])]
  <2> HIDE DEF step, x0
  <2> QED BY <1>6, Zenon
<1> HIDE DEF chain, step, x0
<1>9. \A i \in 0 .. n : chain[i] = IF i = 0 THEN x0 ELSE NextBlocker(chain[i - 1])
  BY <1>7, Zenon
<1>10. 0 \in 0 .. n /\ \A i \in 1 .. n : i \in 0 .. n /\ i # 0
  BY <1>0
<1>11. chain[0] = x0 /\ \A i \in 1 .. n : chain[i] = NextBlocker(chain[i - 1])
  BY <1>9, <1>10, Zenon
<1> QED BY <1>8, <1>11, Zenon DEF x0, n

\* Processes asleep, each blocked first by another of them.
RingLk(ring) ==
    /\ ring # {}
    /\ \A p \in ring : Sleeps(p) /\ call[p].owner = p /\ FirstConflictOwner(p, call[p].req) \in ring

\* The way of would_deadlock through a ring comes back to where it was.
LEMMA ChainCloses ==
    ASSUME LockCtl, PendingOK, NEW ring \in SUBSET Proc, NEW p \in ring,
           call[p].owner = p, FirstConflictOwner(p, call[p].req) \in ring,
           \A q \in ring \ {p} : Sleeps(q) /\ call[q].owner = q /\ FirstConflictOwner(q, call[q].req) \in ring,
           ~WouldDeadlock(p, call[p].req)
    PROVE  \E sub \in SUBSET Proc : RingLk(sub)
<1> DEFINE n == Cardinality(Owner)
           r == call[p].req
           c == BlockChain(p, r)
<1>0. IsFiniteSet(Owner) /\ n \in Nat
  BY LockAssumption, FS_CardinalityType, Zenon
<1>1. c[0] = FirstConflictOwner(p, r) /\ \A i \in 1 .. n : c[i] = NextBlocker(c[i - 1])
  BY ChainFacts
<1>2. \A i \in 0 .. n : c[i] # p
  BY Zenon DEF WouldDeadlock
<1> HIDE DEF n, c
<1>3. ASSUME NEW q \in ring \ {p} PROVE NextBlocker(q) = FirstConflictOwner(q, call[q].req) /\ NextBlocker(q) \in ring
  <2>1. Sleeps(q) /\ call[q].owner = q /\ FirstConflictOwner(q, call[q].req) \in ring /\ q \in Proc
    BY Zenon
  <2>2. lpc[q] \in InWaitLk
    BY <2>1, Zenon DEF Sleeps, InWaitLk
  <2>3. pending[q] = call[q].req
    BY <2>1, <2>2, Zenon DEF PendingOK
  <2>4. call[q].req \in Request
    BY <2>1, <2>2, Zenon DEF LockCtl, PcOK, RequestOK
  <2>5. call[q].req # NoRequest
    BY <2>4, CallFields, Zenon
  <2>6. q # NoOwner
    BY <2>1, OwnerFacts, Zenon
  <2> QED BY <2>1, <2>3, <2>5, <2>6, Zenon DEF NextBlocker
<1>4. \A i \in 0 .. n : c[i] \in ring \ {p}
  <2> DEFINE M == {i \in Nat : i <= n => c[i] \in ring \ {p}}
  <2>1. 0 \in M
    BY <1>0, <1>1, <1>2
  <2>2. ASSUME NEW i \in Nat, i \in M PROVE i + 1 \in M
    <3>1. SUFFICES ASSUME i + 1 <= n PROVE c[i + 1] \in ring \ {p}
      OBVIOUS
    <3>2. c[i] \in ring \ {p} /\ i + 1 \in 1 .. n /\ i + 1 \in 0 .. n /\ (i + 1) - 1 = i
      BY <1>0, <2>2, <3>1
    <3>3. c[i + 1] = NextBlocker(c[i]) /\ c[i + 1] # p
      BY <1>1, <1>2, <3>2, Zenon
    <3> QED BY <1>3, <3>2, <3>3, Zenon
  <2>3. \A i \in Nat : i \in M
    <3> HIDE DEF M
    <3> QED BY <2>1, <2>2, SetInduction, Zenon
  <2> QED BY <1>0, <2>3
<1>5. PICK x \in 0 .. n, y \in 0 .. n : x # y /\ c[x] = c[y]
  <2> DEFINE f == [i \in 0 .. n |-> c[i]]
  <2>1. f \in [0 .. n -> Owner]
    BY <1>4, OwnerFacts, Zenon
  <2>2. IsFiniteSet(0 .. n) /\ Cardinality(0 .. n) = n + 1
    BY <1>0, FS_Interval
  <2>3. Cardinality(Owner) < Cardinality(0 .. n)
    BY <1>0, <2>2 DEF n
  <2>4. \E x, y \in 0 .. n : x # y /\ f[x] = f[y]
    <3> HIDE DEF f
    <3> QED BY <1>0, <2>1, <2>2, <2>3, FS_PigeonHole
  <2> QED BY <2>4, Zenon
<1>6. PICK a \in 0 .. n, b \in 0 .. n : a < b /\ c[a] = c[b]
  <2>1. CASE x < y
    BY <1>5, <2>1, Zenon
  <2>2. CASE y < x
    BY <1>5, <2>2, Zenon
  <2> QED BY <1>0, <1>5, <2>1, <2>2
<1> DEFINE sub == {c[i] : i \in a .. b - 1}
<1>7. ASSUME NEW q \in sub PROVE Sleeps(q) /\ call[q].owner = q /\ FirstConflictOwner(q, call[q].req) \in sub
  <2>1. PICK i \in a .. b - 1 : q = c[i]
    BY Zenon
  <2>2. i \in 0 .. n /\ i + 1 \in 1 .. n /\ (i + 1) - 1 = i /\ i + 1 \in a .. b
    BY <1>0, <1>6
  <2>3. q \in ring \ {p}
    BY <1>4, <2>1, <2>2, Zenon
  <2>4. FirstConflictOwner(q, call[q].req) = c[i + 1]
    BY <1>1, <1>3, <2>1, <2>2, <2>3, Zenon
  <2>5. c[i + 1] \in sub
    <3>1. CASE i + 1 = b
      <4>1. a \in a .. b - 1
        BY <1>0, <1>6
      <4> QED BY <1>6, <3>1, <4>1, Zenon
    <3>2. CASE i + 1 # b
      <4>1. i + 1 \in a .. b - 1
        BY <1>0, <1>6, <2>2, <3>2
      <4> QED BY <4>1, Zenon
    <3> QED BY <3>1, <3>2, Zenon
  <2> QED BY <2>3, <2>4, <2>5, Zenon
<1>8. sub # {} /\ sub \subseteq Proc
  <2>1. a \in a .. b - 1 /\ \A i \in a .. b - 1 : i \in 0 .. n
    BY <1>0, <1>6, SMTT(30)
  <2> QED BY <1>4, <2>1
<1> HIDE DEF sub
<1>9. RingLk(sub)
  BY <1>7, <1>8, Zenon DEF RingLk
<1> QED BY <1>8, <1>9, Zenon

\* No step leaves a ring of processes asleep: the last of them to recheck would
\* have followed the chain of pending requests back to itself.
LEMMA NoDeadlockStep ==
    ASSUME LockCtl, PendingOK, NoDeadlockAsleep, LockNext
    PROVE  NoDeadlockAsleep'
<1>1. SUFFICES ASSUME NEW ring \in SUBSET Proc, RingLk(ring)'
               PROVE  WakeComing'
  BY Zenon DEF NoDeadlockAsleep, RingLk
<1>2. \A sub \in SUBSET Proc : RingLk(sub) => WakeComing
  BY Zenon DEF NoDeadlockAsleep, RingLk
<1>3. ring # {} /\ \A q \in ring : Sleeps(q)' /\ call'[q].owner = q /\ FirstConflictOwner(q, call[q].req)' \in ring
  BY <1>1, Zenon DEF RingLk
<1>4. ASSUME NEW q \in ring, locks' = locks, call'[q] = call[q]
      PROVE  call[q].owner = q /\ FirstConflictOwner(q, call[q].req) \in ring
  <2>1. call[q].owner = q /\ call'[q].owner = q
    BY <1>3, <1>4, Zenon
  <2>2. FirstConflictOwner(call[q].owner, call[q].req)' = FirstConflictOwner(q, call[q].req)'
    BY <2>1, Zenon
  <2>3. FirstConflictOwner(call[q].owner, call[q].req)' = FirstConflictOwner(call[q].owner, call[q].req)
    BY <1>4, SameBlocker, Zenon
  <2> QED BY <1>3, <2>1, <2>2, <2>3, Zenon
<1>5. ASSUME Quiet PROVE WakeComing'
  <2>1. locks' = locks /\ \A q \in ring : Sleeps(q) /\ call'[q] = call[q]
    BY <1>3, <1>5, Zenon DEF Quiet
  <2>2. RingLk(ring)
    BY <1>3, <1>4, <2>1, Zenon DEF RingLk
  <2> QED BY <1>2, <1>5, <2>2, Zenon DEF Quiet
<1>6. ASSUME Roused PROVE WakeComing'
  BY <1>3, <1>6, Zenon DEF Roused
<1>7. ASSUME NEW p \in Proc, Recheck(p) PROVE WakeComing'
  <2>1. locks' = locks /\ call' = call /\ (WakeComing => WakeComing')
    BY <1>7, RecheckKeeps, Zenon
  <2>2. \A q \in ring : call[q].owner = q /\ FirstConflictOwner(q, call[q].req) \in ring
    BY <1>4, <2>1, Zenon
  <2>3. \A q \in ring \ {p} : Sleeps(q)
    BY <1>3, <1>7, RecheckKeeps, Zenon
  <2>4. CASE p \notin ring
    <3>1. RingLk(ring)
      BY <1>3, <2>2, <2>3, <2>4, Zenon DEF RingLk
    <3> QED BY <1>2, <2>1, <3>1, Zenon
  <2>5. CASE p \in ring
    <3>1. ~WouldDeadlock(p, call[p].req)
      <4>1. Sleeps(p)' /\ call[p].owner = p
        BY <1>3, <2>2, <2>5, Zenon
      <4>2. ~WouldDeadlock(call[p].owner, call[p].req)
        BY <1>7, <4>1, RecheckKeeps, Zenon
      <4> QED BY <4>1, <4>2, Zenon
    <3>2. \E sub \in SUBSET Proc : RingLk(sub)
      BY <2>2, <2>3, <2>5, <3>1, ChainCloses, Zenon
    <3> QED BY <1>2, <2>1, <3>2, Zenon
  <2> QED BY <2>4, <2>5, Zenon
<1> QED BY <1>5, <1>6, <1>7, LockSteps, Zenon

\* The locks of a process go with its last descriptor.
FdsHold ==
    \A p \in Proc : (\E l \in locks : l.owner = p) => fds[p] # {} \/ (lpc[p] = "close" /\ closing[p] # {})

\* A grant gives locks to the owner of the request only.
LEMMA GrantOwners ==
    ASSUME LockCtl, NEW p \in Proc, NEW o, NEW r, CallFor(p, o, r), Grant(p, o, r), NEW l \in locks', l.owner # o
    PROVE  \E k \in locks : k.owner = l.owner
<1>1. Normal(locks) /\ o \in Owner /\ r \in Request /\ r.start < r.end
  BY Zenon DEF LockCtl, CallFor, RequestOK
<1>2. locks' = Apply(o, r)
  BY Zenon DEF Grant
<1>3. Separate(locks')
  BY <1>1, <1>2, ApplyFacts, Zenon DEF Normal
<1>4. Covers(locks', l.owner, l.type, l.start) /\ l.start \in Nat /\ l.owner \in Owner /\ l.type \in {"read", "write"}
  BY <1>3, OwnersCovered, Zenon
<1>5. Covers(locks, l.owner, l.type, l.start)
  BY <1>1, <1>2, <1>4, ApplyFacts
<1> QED BY <1>5, Zenon DEF Covers, Over

\* No step leaves locks with a process that has no descriptor of the file.
LEMMA FdsHoldStep ==
    ASSUME LockCtl, FdsHold, LockNext
    PROVE  FdsHold'
<1>1. PICK p \in Proc : \/ SetLk(p) \/ RetryLk(p) \/ Recheck(p) \/ FinishLk(p)
                        \/ WakeLk(p) \/ SignalLk(p)
                        \/ CloseFds(p) \/ ReleaseLocks(p) \/ OpenFile(p)
  BY Zenon DEF LockNext
<1>2. ASSUME NEW q \in Proc, q # p, OnlyMoves(p), \E l \in locks : l.owner = q
      PROVE  fds'[q] # {} \/ (lpc'[q] = "close" /\ closing'[q] # {})
  BY <1>2, Zenon DEF OnlyMoves, FdsHold
<1>3. ASSUME OnlyMoves(p), locks' \subseteq locks, lpc[p] # "close", fds'[p] = fds[p]
      PROVE  FdsHold'
  BY <1>2, <1>3, Zenon DEF FdsHold
<1>4. CASE SetLk(p) \/ RetryLk(p)
  <2>1. lpc[p] \in {"user", "retry"} /\ p \notin queue /\ UNCHANGED <<signalled, fds, closing>>
    BY <1>4, CallSteps, Zenon
  <2>2. PICK o, r : CallFor(p, o, r) /\ (Grant(p, o, r) \/ Block(p, o, r))
    BY <1>4, CallSteps, Zenon
  <2>3. CASE Grant(p, o, r)
    <3>1. OnlyMoves(p)
      BY <2>1, <2>2, <2>3, GrantCtl, Zenon
    <3>2. fds'[p] # {}
      BY <2>1, <2>2, Zenon DEF CallFor
    <3>3. ASSUME NEW q \in Proc, q # p, NEW l \in locks', l.owner = q
          PROVE  fds'[q] # {} \/ (lpc'[q] = "close" /\ closing'[q] # {})
      <4>1. l.owner # o
        BY <2>2, <3>3, OtherOwner, Zenon DEF CallFor
      <4>2. \E k \in locks : k.owner = q
        BY <2>2, <2>3, <3>3, <4>1, GrantOwners, Zenon
      <4> QED BY <1>2, <3>1, <3>3, <4>2, Zenon
    <3> QED BY <3>2, <3>3, Zenon DEF FdsHold
  <2>4. CASE Block(p, o, r)
    <3>1. OnlyMoves(p)
      BY <2>1, <2>2, <2>4, BlockCtl, Zenon
    <3>2. locks' \subseteq locks /\ lpc[p] # "close" /\ fds'[p] = fds[p]
      BY <2>1, <2>4, Zenon DEF Block
    <3> QED BY <1>3, <3>1, <3>2, Zenon
  <2> QED BY <2>2, <2>3, <2>4, Zenon
<1>5. CASE Recheck(p)
  <2>1. OnlyMoves(p) /\ lpc[p] # "close" /\ locks' \subseteq locks /\ fds'[p] = fds[p]
    BY <1>5, RecheckCtl, Zenon DEF Recheck
  <2> QED BY <1>3, <2>1, Zenon
<1>6. CASE FinishLk(p)
  <2>1. OnlyMoves(p) /\ lpc[p] # "close" /\ locks' \subseteq locks /\ fds'[p] = fds[p]
    BY <1>6, FinishCtl, Zenon DEF FinishLk, InWaitLk
  <2> QED BY <1>3, <2>1, Zenon
<1>7. CASE WakeLk(p)
  <2>1. OnlyMoves(p) /\ lpc[p] # "close" /\ locks' \subseteq locks /\ fds'[p] = fds[p]
    BY <1>7, WakeCtl, Zenon DEF WakeLk
  <2> QED BY <1>3, <2>1, Zenon
<1>8. CASE SignalLk(p)
  BY <1>8, Zenon DEF SignalLk, FdsHold
<1>9. CASE CloseFds(p)
  <2>1. OnlyMoves(p) /\ lpc'[p] = "close" /\ closing'[p] # {} /\ locks' = locks
    BY <1>9, CloseCtl, Zenon
  <2> QED BY <1>2, <2>1, Zenon DEF FdsHold
<1>10. CASE ReleaseLocks(p)
  <2>1. OnlyMoves(p)
    BY <1>10, ReleaseCtl, Zenon
  <2>2. PICK o \in Ofd : locks' = {l \in locks : l.owner \notin Gone(p, o)}
    BY <1>10, ReleaseCtl, Zenon
  <2>3. \A l \in locks' : l \in locks /\ l.owner # p
    BY <2>2, Zenon DEF Gone
  <2> QED BY <1>2, <2>1, <2>3, Zenon DEF FdsHold
<1>11. CASE OpenFile(p)
  <2>1. locks' = locks /\ lpc' = lpc /\ closing' = closing /\ \A q \in Proc : fds[q] \subseteq fds'[q]
    BY <1>11, OpenCtl, Zenon
  <2> QED BY <2>1, Zenon DEF FdsHold
<1> QED BY <1>1, <1>4, <1>5, <1>6, <1>7, <1>8, <1>9, <1>10, <1>11, Zenon

-----------------------------------------------------------------------------
(* The bytes *)

\* How a list of locks says an owner holds a byte.
HeldIn(S, o, b) ==
    LET over == {l \in S : l.owner = o /\ l.start <= b /\ b < l.end}
    IN  IF over = {} THEN "none" ELSE (CHOOSE l \in over : TRUE).type

\* A byte is held in the way in which a lock of the owner covers it.
LEMMA HeldFacts ==
    ASSUME NEW S, Normal(S), NEW o \in Owner, NEW b \in Nat
    PROVE  /\ HeldIn(S, o, b) \in {"none", "read", "write"}
           /\ \A t \in {"read", "write"} : HeldIn(S, o, b) = t <=> Covers(S, o, t, b)
<1> DEFINE over == {l \in S : l.owner = o /\ l.start <= b /\ b < l.end}
<1>1. \A l \in S : l \in Lock /\ l.start \in Nat /\ l.end \in Nat /\ l.type \in {"read", "write"}
  BY LockFields, Zenon DEF Normal, Separate
<1>2. ASSUME NEW l \in over, NEW k \in over PROVE l = k
  <2>1. l \in S /\ k \in S /\ l.owner = k.owner
    BY Zenon
  <2>2. RangesOverlap(l, k)
    BY <1>1 DEF RangesOverlap
  <2> QED BY <2>1, <2>2, Zenon DEF Normal, Separate
<1>3. \A t : Covers(S, o, t, b) <=> \E l \in over : l.type = t
  BY Zenon DEF Covers, Over
<1>4. HeldIn(S, o, b) = IF over = {} THEN "none" ELSE (CHOOSE l \in over : TRUE).type
  BY Zenon DEF HeldIn
<1>5. over \subseteq S
  BY Zenon
<1> HIDE DEF over
<1>6. CASE over = {}
  BY <1>3, <1>4, <1>6, Zenon
<1>7. CASE over # {}
  <2>1. PICK l \in over : l = CHOOSE k \in over : TRUE
    BY <1>7, Zenon
  <2>2. HeldIn(S, o, b) = l.type /\ l.type \in {"read", "write"}
    BY <1>1, <1>4, <1>5, <1>7, <2>1, Zenon
  <2>3. \A t : Covers(S, o, t, b) <=> l.type = t
    BY <1>2, <1>3, <2>1, Zenon
  <2> QED BY <2>2, <2>3, Zenon
<1> QED BY <1>6, <1>7, Zenon

\* The bytes held according to a list of locks.
HeldMap(S) == [o \in Owner |-> [b \in 0 .. Top |-> HeldIn(S, o, b)]]

\* Bytes are numbers.
LEMMA ByteNat == \A b \in 0 .. Top : b \in Nat
BY LockAssumption

\* The bytes a request names, and what it makes of them.
Names(bytes, how, r) ==
    bytes = {b \in 0 .. Top : Within(b, r)} /\ how = IF r.type = "unlock" THEN "none" ELSE r.type

\* A step that sets the bytes of an owner, and one that drops those of some.
SetsBytes(o, bytes, how) ==
    /\ \A q \in Owner \ {o}, b \in bytes : Bytes!Compatible(HeldMap(locks)[q][b], how)
    /\ HeldMap(locks') = [HeldMap(locks) EXCEPT ![o] =
                              [b \in 0 .. Top |-> IF b \in bytes THEN how ELSE @[b]]]

DropsBytes(gone) ==
    HeldMap(locks') = [o \in Owner |-> IF o \in gone THEN [b \in 0 .. Top |-> "none"] ELSE HeldMap(locks)[o]]

\* A granted request sets the bytes it names, which nobody holds against it.
LEMMA GrantSets ==
    ASSUME LockCtl, LockCtl', NEW p \in Proc, NEW o, NEW r, CallFor(p, o, r), Grant(p, o, r),
           NEW bytes, NEW how, Names(bytes, how, r)
    PROVE  SetsBytes(o, bytes, how)
<1> USE DEF Names
<1>1. /\ Normal(locks) /\ Normal(locks') /\ o \in Owner /\ r \in Request /\ r.start < r.end
      /\ locks' = Apply(o, r) /\ FirstConflictOwner(o, r) = NoOwner
  BY Zenon DEF LockCtl, CallFor, RequestOK, Grant
<1>2. \A l \in locks : ~Conflicts(l, o, r)
  BY <1>1, FirstConflict, Zenon
<1>3. r.start \in Nat /\ r.end \in Nat /\ r.type \in {"read", "write", "unlock"}
  BY <1>1, RequestFields, Zenon
<1>4. ASSUME NEW q \in Owner \ {o}, NEW b \in bytes PROVE Bytes!Compatible(HeldMap(locks)[q][b], how)
  <2>1. b \in 0 .. Top /\ b \in Nat /\ Within(b, r)
    BY ByteNat, Zenon
  <2>2. HeldMap(locks)[q][b] = HeldIn(locks, q, b)
    BY <2>1, Zenon DEF HeldMap
  <2>3. CASE HeldIn(locks, q, b) = "none" \/ how = "none"
    BY <2>2, <2>3, Zenon DEF Bytes!Compatible
  <2>4. CASE HeldIn(locks, q, b) # "none" /\ how # "none"
    <3>1. PICK t \in {"read", "write"} : HeldIn(locks, q, b) = t /\ Covers(locks, q, t, b)
      BY <1>1, <2>1, <2>4, HeldFacts, Zenon
    <3>2. PICK l \in locks : l.owner = q /\ l.type = t /\ l.start <= b /\ b < l.end
      BY <3>1, Zenon DEF Covers, Over
    <3>3. l.start \in Nat /\ l.end \in Nat
      BY <1>1, LockFields, Zenon DEF Normal, Separate
    <3>4. RangesOverlap(l, r)
      BY <1>3, <2>1, <3>2, <3>3 DEF RangesOverlap, Within
    <3>5. r.type # "unlock" /\ how = r.type
      BY <2>4, Zenon
    <3>6. l.type # "write" /\ r.type # "write"
      BY <1>2, <3>2, <3>4, <3>5, Zenon DEF Conflicts
    <3>7. t = "read" /\ how = "read"
      BY <1>3, <3>1, <3>2, <3>5, <3>6, Zenon
    <3> QED BY <2>2, <3>1, <3>7, Zenon DEF Bytes!Compatible
  <2> QED BY <2>3, <2>4, Zenon
<1>5. ASSUME NEW q \in Owner, NEW b \in 0 .. Top
      PROVE  HeldIn(locks', q, b) = IF q = o /\ b \in bytes THEN how ELSE HeldIn(locks, q, b)
  <2>0. b \in Nat /\ (b \in bytes <=> Within(b, r))
    BY ByteNat, Zenon
  <2>1. /\ HeldIn(locks', q, b) \in {"none", "read", "write"}
        /\ \A t \in {"read", "write"} : HeldIn(locks', q, b) = t <=> Covers(locks', q, t, b)
    BY <1>1, <2>0, HeldFacts, Zenon
  <2>2. /\ HeldIn(locks, q, b) \in {"none", "read", "write"}
        /\ \A t \in {"read", "write"} : HeldIn(locks, q, b) = t <=> Covers(locks, q, t, b)
    BY <1>1, <2>0, HeldFacts, Zenon
  <2>3. \A t \in {"read", "write"} :
            Covers(locks', q, t, b) <=> IF q = o /\ Within(b, r) THEN t = r.type ELSE Covers(locks, q, t, b)
    BY <1>1, <2>0, ApplyFacts, Zenon
  <2>4. CASE q = o /\ b \in bytes
    <3>1. \A t \in {"read", "write"} : HeldIn(locks', q, b) = t <=> t = r.type
      BY <2>0, <2>1, <2>3, <2>4, Zenon
    <3> QED BY <1>3, <2>1, <2>4, <3>1, Zenon
  <2>5. CASE ~(q = o /\ b \in bytes)
    <3>1. \A t \in {"read", "write"} : HeldIn(locks', q, b) = t <=> HeldIn(locks, q, b) = t
      BY <2>0, <2>1, <2>2, <2>3, <2>5, Zenon
    <3> QED BY <2>1, <2>2, <2>5, <3>1, Zenon
  <2> QED BY <2>4, <2>5, Zenon
<1>6. HeldMap(locks') = [HeldMap(locks) EXCEPT ![o] =
                                    [b \in 0 .. Top |-> IF b \in bytes THEN how ELSE @[b]]]
  BY <1>1, <1>5, Zenon DEF HeldMap
<1> QED BY <1>4, <1>6, Zenon DEF SetsBytes

\* The locks without those of some owners.
Releases(gone) == locks' = {l \in locks : l.owner \notin gone}

\* A release drops the bytes of the owners it removes.
LEMMA ReleaseDrops ==
    ASSUME Normal(locks), NEW gone, Releases(gone)
    PROVE  DropsBytes(gone)
<1> USE DEF Releases
<1>0. Normal(locks')
  BY NormalSubset, Zenon
<1>1. ASSUME NEW o \in Owner, NEW b \in 0 .. Top
      PROVE  HeldIn(locks', o, b) = IF o \in gone THEN "none" ELSE HeldIn(locks, o, b)
  <2>0. b \in Nat
    BY ByteNat, Zenon
  <2>1. /\ HeldIn(locks', o, b) \in {"none", "read", "write"}
        /\ \A t \in {"read", "write"} : HeldIn(locks', o, b) = t <=> Covers(locks', o, t, b)
    BY <1>0, <2>0, HeldFacts, Zenon
  <2>2. /\ HeldIn(locks, o, b) \in {"none", "read", "write"}
        /\ \A t \in {"read", "write"} : HeldIn(locks, o, b) = t <=> Covers(locks, o, t, b)
    BY <2>0, HeldFacts, Zenon
  <2>3. \A t : Covers(locks', o, t, b) <=> o \notin gone /\ Covers(locks, o, t, b)
    BY Zenon DEF Covers, Over
  <2>4. CASE o \in gone
    BY <2>1, <2>3, <2>4, Zenon
  <2>5. CASE o \notin gone
    <3>1. \A t \in {"read", "write"} : HeldIn(locks', o, b) = t <=> HeldIn(locks, o, b) = t
      BY <2>1, <2>2, <2>3, <2>5, Zenon
    <3> QED BY <2>1, <2>2, <2>5, <3>1, Zenon
  <2> QED BY <2>4, <2>5, Zenon
<1> QED BY <1>1, Zenon DEF HeldMap, DropsBytes

\* The bytes of the refinement are those of the list.
LEMMA HeldIs ==
    /\ [o \in Owner |-> [b \in 0 .. Top |-> HeldBy(o, b)]] = HeldMap(locks)
    /\ [o \in Owner |-> [b \in 0 .. Top |-> HeldBy(o, b)]]' = HeldMap(locks')
<1>1. \A o, b : HeldBy(o, b) = HeldIn(locks, o, b)
  BY Zenon DEF HeldBy, HeldIn
<1>2. \A o, b : HeldBy(o, b)' = HeldIn(locks', o, b)
  BY Zenon DEF HeldBy, HeldIn
<1> QED BY <1>1, <1>2, Zenon DEF HeldMap

\* What a step does to the bytes: it sets those of an owner, drops those of some
\* owners, or leaves the list as it is.
LEMMA LockEffect ==
    ASSUME LockCtl, LockNext
    PROVE  \/ \E o \in Owner, bytes \in SUBSET (0 .. Top), how \in Bytes!Hold : SetsBytes(o, bytes, how)
           \/ \E gone \in SUBSET Owner : DropsBytes(gone)
           \/ locks' = locks
<1>0. LockCtl'
  BY LockCtlStep, Zenon
<1>1. PICK p \in Proc : \/ SetLk(p) \/ RetryLk(p) \/ Recheck(p) \/ FinishLk(p)
                        \/ WakeLk(p) \/ SignalLk(p)
                        \/ CloseFds(p) \/ ReleaseLocks(p) \/ OpenFile(p)
  BY Zenon DEF LockNext
<1>3. CASE SetLk(p) \/ RetryLk(p)
  <2>1. PICK o, r : CallFor(p, o, r) /\ (Grant(p, o, r) \/ Block(p, o, r))
    BY <1>3, CallSteps, Zenon
  <2>2. CASE Grant(p, o, r)
    <3>1. \E bytes, how : Names(bytes, how, r)
      BY Zenon DEF Names
    <3>2. PICK bytes, how : Names(bytes, how, r)
      BY <3>1, Zenon
    <3>3. o \in Owner /\ bytes \in SUBSET (0 .. Top) /\ r \in Request
      BY <2>1, <3>2, Zenon DEF CallFor, RequestOK, Names
    <3>4. how \in Bytes!Hold
      BY <3>2, <3>3, RequestFields, Zenon DEF Bytes!Hold, Names
    <3>5. SetsBytes(o, bytes, how)
      BY <1>0, <2>1, <2>2, <3>2, GrantSets, Zenon
    <3> QED BY <3>3, <3>4, <3>5, Zenon
  <2>3. CASE Block(p, o, r)
    BY <2>3, Zenon DEF Block
  <2> QED BY <2>1, <2>2, <2>3, Zenon
<1>4. CASE ReleaseLocks(p)
  <2>1. PICK o \in Ofd : locks' = {l \in locks : l.owner \notin Gone(p, o)}
    BY <1>4, ReleaseCtl, Zenon
  <2>2. PICK gone : gone = Gone(p, o)
    BY Zenon
  <2>3. gone \in SUBSET Owner
    BY <2>2, OwnerFacts, Zenon DEF Gone
  <2>4. DropsBytes(gone)
    <3>1. Releases(gone)
      BY <2>1, <2>2, Zenon DEF Releases
    <3> QED BY <3>1, ReleaseDrops, Zenon DEF LockCtl
  <2> QED BY <2>3, <2>4, Zenon
<1>5. CASE Recheck(p) \/ FinishLk(p) \/ WakeLk(p) \/ SignalLk(p) \/ CloseFds(p) \/ OpenFile(p)
  BY <1>5, Zenon DEF Recheck, FinishLk, WakeLk, SignalLk, CloseFds, OpenFile
<1> QED BY <1>1, <1>3, <1>4, <1>5, Zenon

\* Every step of the list is a step of the bytes, or leaves them as they are.
LEMMA ByteStep ==
    ASSUME LockCtl, LockNext
    PROVE  \/ Bytes!ByteNext
           \/ UNCHANGED [o \in Owner |-> [b \in 0 .. Top |-> HeldBy(o, b)]]
<1>1. CASE \E o \in Owner, bytes \in SUBSET (0 .. Top), how \in Bytes!Hold : SetsBytes(o, bytes, how)
  <2>1. PICK o \in Owner, bytes \in SUBSET (0 .. Top), how \in Bytes!Hold : SetsBytes(o, bytes, how)
    BY <1>1, Zenon
  <2>2. Bytes!Set(o, bytes, how)
    BY <2>1, HeldIs, Zenon DEF Bytes!Set, SetsBytes
  <2> QED BY <2>1, <2>2, Zenon DEF Bytes!ByteNext
<1>2. CASE \E gone \in SUBSET Owner : DropsBytes(gone)
  <2>1. PICK gone \in SUBSET Owner : DropsBytes(gone)
    BY <1>2, Zenon
  <2>2. Bytes!Drop(gone)
    BY <2>1, HeldIs, Zenon DEF Bytes!Drop, DropsBytes
  <2> QED BY <2>1, <2>2, Zenon DEF Bytes!ByteNext
<1>3. CASE locks' = locks
  BY <1>3, HeldIs, Zenon
<1> QED BY <1>1, <1>2, <1>3, LockEffect, Zenon

\* No byte is held by two owners in conflicting ways.
Excludes(h) == \A o, q \in Owner, b \in 0 .. Top : o # q => Bytes!Compatible(h[o][b], h[q][b])

\* Every step keeps the owners from excluding each other: a byte is set only
\* where nobody else holds it in a conflicting way.
LEMMA ExcludesStep ==
    ASSUME LockCtl, LockNext, Excludes(HeldMap(locks))
    PROVE  Excludes(HeldMap(locks'))
<1>0. SUFFICES ASSUME NEW x \in Owner, NEW y \in Owner, NEW b \in 0 .. Top, x # y
               PROVE  Bytes!Compatible(HeldMap(locks')[x][b], HeldMap(locks')[y][b])
  BY DEF Excludes
<1>1. PICK h, k : h = HeldMap(locks) /\ k = HeldMap(locks')
  BY Zenon
<1>2. /\ DOMAIN h = Owner /\ \A z \in Owner : DOMAIN h[z] = 0 .. Top
      /\ Bytes!Compatible(h[x][b], h[y][b])
  <2>1. DOMAIN h = Owner /\ \A z \in Owner : DOMAIN h[z] = 0 .. Top
    BY <1>1, Zenon DEF HeldMap
  <2>2. Bytes!Compatible(h[x][b], h[y][b])
    BY <1>0, <1>1, Zenon DEF Excludes
  <2> QED BY <2>1, <2>2
<1>3. ASSUME NEW o \in Owner, NEW bytes, NEW how, SetsBytes(o, bytes, how)
      PROVE  Bytes!Compatible(k[x][b], k[y][b])
  <2>1. \A z \in Owner \ {o} : b \in bytes => Bytes!Compatible(h[z][b], how)
    BY <1>1, <1>3, Zenon DEF SetsBytes
  <2>2. k = [h EXCEPT ![o] = [c \in 0 .. Top |-> IF c \in bytes THEN how ELSE h[o][c]]]
    BY <1>1, <1>3, Zenon DEF SetsBytes
  <2>3. k[o][b] = IF b \in bytes THEN how ELSE h[o][b]
    BY <1>2, <2>2, Zenon
  <2>4. \A z \in Owner \ {o} : k[z] = h[z]
    BY <1>2, <2>2, Zenon
  <2>5. \A z \in Owner : z # o => Bytes!Compatible(k[o][b], k[z][b]) \/ h[o][b] = k[o][b]
    <3>1. CASE b \in bytes
      <4>1. k[o][b] = how
        BY <2>3, <3>1
      <4>2. ASSUME NEW z \in Owner, z # o PROVE Bytes!Compatible(how, k[z][b])
        <5>1. Bytes!Compatible(h[z][b], how) /\ k[z] = h[z]
          BY <2>1, <2>4, <3>1, <4>2, Zenon
        <5> QED BY <5>1, Zenon DEF Bytes!Compatible
      <4> QED BY <4>1, <4>2, Zenon
    <3>2. CASE b \notin bytes
      BY <2>3, <3>2, Zenon
    <3> QED BY <3>1, <3>2
  <2>6. CASE x = o
    BY <1>0, <1>2, <2>4, <2>5, <2>6, Zenon
  <2>7. CASE y = o
    <3>1. Bytes!Compatible(k[y][b], k[x][b]) \/ h[y][b] = k[y][b]
      BY <1>0, <2>5, <2>7, Zenon
    <3>2. h[x][b] = k[x][b]
      BY <1>0, <2>4, <2>7, Zenon
    <3>3. CASE Bytes!Compatible(k[y][b], k[x][b])
      BY <3>3, Zenon DEF Bytes!Compatible
    <3>4. CASE h[y][b] = k[y][b]
      BY <1>2, <3>2, <3>4, Zenon
    <3> QED BY <3>1, <3>3, <3>4
  <2>8. CASE x # o /\ y # o
    BY <1>0, <1>2, <2>4, <2>8, Zenon
  <2> QED BY <2>6, <2>7, <2>8
<1>4. ASSUME NEW gone, DropsBytes(gone) PROVE Bytes!Compatible(k[x][b], k[y][b])
  <2>1. k = [o \in Owner |-> IF o \in gone THEN [c \in 0 .. Top |-> "none"] ELSE h[o]]
    BY <1>1, <1>4, Zenon DEF DropsBytes
  <2>2. \A z \in Owner : k[z][b] = "none" \/ k[z] = h[z]
    BY <1>0, <2>1, Zenon
  <2> QED BY <1>0, <1>2, <2>2, Zenon DEF Bytes!Compatible
<1>5. CASE locks' = locks
  BY <1>1, <1>2, <1>5, Zenon
<1> QED BY <1>1, <1>3, <1>4, <1>5, LockEffect, Zenon

-----------------------------------------------------------------------------
(* The theorems *)

\* The inductive invariant of the record locks.
LockInv == LockCtl /\ NoLostLockWakeup /\ PendingOK /\ NoDeadlockAsleep /\ FdsHold

\* The invariant holds initially.
LEMMA LockInvInit ==
    ASSUME LockInit
    PROVE  LockInv
<1>1. LockCtl
  BY LockCtlInit
<1>2. \A p \in Proc : lpc[p] = "user" /\ ~Sleeps(p)
  BY DEF LockInit, Sleeps
<1>3. NoLostLockWakeup
  BY <1>2 DEF NoLostLockWakeup
<1>4. PendingOK
  BY <1>2 DEF PendingOK, InWaitLk
<1>5. NoDeadlockAsleep
  BY <1>2 DEF NoDeadlockAsleep
<1>6. FdsHold
  BY DEF LockInit, FdsHold
<1> QED BY <1>1, <1>3, <1>4, <1>5, <1>6 DEF LockInv

\* Every step keeps the invariant.
LEMMA LockInvStep ==
    ASSUME LockInv, [LockNext]_lockVars
    PROVE  LockInv'
<1>1. CASE LockNext
  BY <1>1, LockCtlStep, NoLostLockStep, PendingStep, NoDeadlockStep, FdsHoldStep DEF LockInv
<1>2. CASE UNCHANGED lockVars
  <2>0. /\ UNCHANGED <<locks, pending, queue, asleep, signalled, lpc, call, fds, closing>>
    BY <1>2 DEF lockVars
  <2>1. LockCtl'
    BY <2>0, Zenon DEF LockInv, LockCtl, PcOK, InWaitLk, RequestOK
  <2>2. \A q \in Proc : FirstConflictOwner(call[q].owner, call[q].req)' = FirstConflictOwner(call[q].owner, call[q].req)
    BY <2>0, SameBlocker
  <2>3. NoLostLockWakeup'
    BY <2>0, <2>2 DEF LockInv, NoLostLockWakeup, Sleeps, WakeComing, NoOwner
  <2>4. PendingOK' /\ FdsHold'
    BY <2>0, Zenon DEF LockInv, PendingOK, FdsHold, InWaitLk
  <2>5. NoDeadlockAsleep'
    <3>1. SUFFICES ASSUME NEW ring \in SUBSET Proc, RingLk(ring)' PROVE WakeComing'
      BY DEF NoDeadlockAsleep, RingLk
    <3>2. ASSUME NEW q \in ring PROVE FirstConflictOwner(q, call[q].req)' = FirstConflictOwner(q, call[q].req)
      <4>1. call[q].owner = q /\ call'[q].owner = q
        BY <2>0, <3>1, Zenon DEF RingLk
      <4>2. FirstConflictOwner(call[q].owner, call[q].req)' = FirstConflictOwner(call[q].owner, call[q].req)
        BY <2>2
      <4> QED BY <4>1, <4>2
    <3>3. RingLk(ring)
      BY <2>0, <3>1, <3>2 DEF RingLk, Sleeps
    <3>4. WakeComing
      BY <3>3 DEF LockInv, NoDeadlockAsleep, RingLk
    <3> QED BY <2>0, <3>4 DEF WakeComing
  <2> QED BY <2>1, <2>3, <2>4, <2>5 DEF LockInv
<1> QED BY <1>1, <1>2

\* The record locks of every behaviour keep the invariant.
LEMMA LockInvariant == LockSpec => []LockInv
<1>1. LockInit => LockInv
  BY LockInvInit
<1>2. LockInv /\ [LockNext]_lockVars => LockInv'
  BY LockInvStep
<1> QED BY <1>1, <1>2, PTL DEF LockSpec

\* The invariant speaks of types.
LEMMA LockInvTypes ==
    ASSUME LockInv
    PROVE  LockTypeOK
<1>1. locks \subseteq Lock /\ ListIsNormal
  BY DEF LockInv, LockCtl, Normal, Separate, ListIsNormal
<1>2. \A p \in Proc : /\ call[p].owner \in Owner \cup {NoOwner}
                      /\ call[p].req \in Request \cup {NoRequest}
                      /\ call[p].wake \in BOOLEAN
  BY DEF LockInv, LockCtl, Calls
<1> QED BY <1>1, <1>2 DEF LockInv, LockCtl, LockTypeOK, LockPc, InWaitLk

\* Types: every variable of record_lock.rs keeps its type, and whoever is in the
\* wait queue or asleep is in a blocking fcntl.
THEOREM LockTypes == LockSpec => []LockTypeOK
<1>1. LockInv => LockTypeOK
  BY LockInvTypes
<1> QED BY <1>1, LockInvariant, PTL

\* normalize keeps the list in its shortest form, through any sequence of locks,
\* partial unlocks, upgrades and closes, of any number of owners, on a file of
\* any size.
THEOREM ListStaysNormal == LockSpec => []ListIsNormal
<1>1. LockTypeOK => ListIsNormal
  BY DEF LockTypeOK
<1> QED BY <1>1, LockTypes, PTL

\* prepare, recheck, sleep: a blocking fcntl that sleeps while nobody holds a
\* conflicting lock is in the queue that a releaser is about to wake.
THEOREM LockWakeups == LockSpec => []NoLostLockWakeup
<1>1. LockInv => NoLostLockWakeup
  BY DEF LockInv
<1> QED BY <1>1, LockInvariant, PTL

\* would_deadlock refuses the last request of every cycle: no ring of processes
\* sleeps, each blocked by the next one's POSIX lock, whatever the number of
\* processes and the order in which they blocked, woke and tried again.
THEOREM NoLockDeadlock == LockSpec => []NoDeadlockAsleep
<1>1. LockInv => NoDeadlockAsleep
  BY DEF LockInv
<1> QED BY <1>1, LockInvariant, PTL

\* The first close of a descriptor of the file takes the POSIX locks of the
\* process with it: without a descriptor a process holds none.
THEOREM PosixLocksGo == LockSpec => []PosixLocksNeedFd
<1>1. LockInv => PosixLocksNeedFd
  BY Zenon DEF LockInv, FdsHold, PosixLocksNeedFd
<1> QED BY <1>1, LockInvariant, PTL

\* The sorted, split and merged ranges of RecordLockState implement one lock per
\* byte, which a granted request and a close change, and nothing else.
THEOREM ListImplementsBytes == LockSpec => ImplementsByteLocks
<1>1. LockInit => Bytes!ByteInit
  <2> SUFFICES ASSUME LockInit PROVE Bytes!ByteInit
    OBVIOUS
  <2>1. \A o, b : HeldBy(o, b) = "none"
    BY DEF LockInit, HeldBy
  <2> QED BY <2>1 DEF Bytes!ByteInit
<1>2. LockInv /\ [LockNext]_lockVars =>
          [Bytes!ByteNext]_[o \in Owner |-> [b \in 0 .. Top |-> HeldBy(o, b)]]
  <2> SUFFICES ASSUME LockInv, [LockNext]_lockVars
               PROVE  \/ Bytes!ByteNext
                      \/ UNCHANGED [o \in Owner |-> [b \in 0 .. Top |-> HeldBy(o, b)]]
    OBVIOUS
  <2>1. CASE LockNext
    BY <2>1, ByteStep DEF LockInv
  <2>2. CASE UNCHANGED lockVars
    <3>1. locks' = locks
      BY <2>2 DEF lockVars
    <3> QED BY <3>1, HeldIs
  <2> QED BY <2>1, <2>2
<1> QED BY <1>1, <1>2, LockInvariant, PTL DEF LockSpec, ImplementsByteLocks, Bytes!ByteSpec

\* Record locks exclude: no two owners, processes or open file descriptions,
\* ever hold a byte of the file in conflicting ways.
THEOREM LocksExclude == LockSpec => []Bytes!Exclusive
<1>1. LockInit => Excludes(HeldMap(locks))
  <2> SUFFICES ASSUME LockInit PROVE Excludes(HeldMap(locks))
    OBVIOUS
  <2>1. \A o \in Owner, b \in 0 .. Top : HeldMap(locks)[o][b] = "none"
    BY DEF LockInit, HeldMap, HeldIn
  <2> QED BY <2>1 DEF Excludes, Bytes!Compatible
<1>2. LockInv /\ [LockNext]_lockVars /\ Excludes(HeldMap(locks)) => Excludes(HeldMap(locks))'
  <2> SUFFICES ASSUME LockInv, [LockNext]_lockVars, Excludes(HeldMap(locks))
               PROVE  Excludes(HeldMap(locks'))
    BY Zenon DEF HeldMap, HeldIn, Excludes
  <2>1. CASE LockNext
    BY <2>1, ExcludesStep DEF LockInv
  <2>2. CASE UNCHANGED lockVars
    BY <2>2 DEF lockVars
  <2> QED BY <2>1, <2>2
<1>3. Excludes(HeldMap(locks)) => Bytes!Exclusive
  BY HeldIs, Zenon DEF Excludes, Bytes!Exclusive
<1> QED BY <1>1, <1>2, <1>3, LockInvariant, PTL DEF LockSpec

=============================================================================
