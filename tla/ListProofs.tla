----------------------------- MODULE ListProofs -----------------------------
(***************************************************************************)
(* Facts about the list operations that the models share: what retain,     *)
(* remove, position, push, extend and sum return, for lists of any length. *)
(* A recursive function is reached in three steps: Recursion gives an      *)
(* iteration g, g satisfies the equation of the LET, so the CHOOSE behind  *)
(* the LET does too, and RecursionUnique (or SetInduction) identifies the  *)
(* two.                                                                    *)
(***************************************************************************)
EXTENDS Lists, Integers, WellFoundedInduction, TLAPS

\* A set of natural numbers that is not empty has a least element.
LEMMA LeastElement ==
    ASSUME NEW T, T \subseteq Nat, T # {}
    PROVE  \E m \in T : \A n \in T : m <= n
<1> DEFINE R == {ss \in Nat \X Nat : ss[1] < ss[2]}
<1>1. IsWellFoundedOn(R, Nat)
  BY NatLessThanWellFounded DEF OpToRel
<1>2. \A x, y \in Nat : x < y => <<x, y>> \in R
  OBVIOUS
<1> HIDE DEF R
<1>3. PICK x \in T : \A y \in T : ~ (<<y, x>> \in R)
  BY <1>1, WFMin, Zenon
<1>4. \A y \in T : ~(y < x)
  BY <1>2, <1>3, Zenon
<1> QED BY <1>4

\* Induction, with the property given as a set.
LEMMA SetInduction ==
    ASSUME NEW S, 0 \in S, \A n \in Nat : n \in S => n + 1 \in S
    PROVE  \A n \in Nat : n \in S
<1> DEFINE T == Nat \ S
<1> SUFFICES ASSUME T # {} PROVE FALSE
  OBVIOUS
<1>1. PICK x \in T : \A y \in T : x <= y
  <2> HIDE DEF T
  <2>1. T \subseteq Nat
    BY DEF T
  <2> QED BY <2>1, LeastElement, Zenon
<1>2. x # 0 /\ x \in Nat
  OBVIOUS
<1>3. x - 1 \in T
  BY <1>2
<1> QED BY <1>1, <1>2, <1>3

StepFuns(X, n) == [(1 .. n) \X X -> X]

Iterates(g, X, x0, n, f) ==
    /\ g \in [0 .. n -> X]
    /\ g[0] = x0
    /\ \A i \in 1 .. n : g[i] = f[<<i, g[i - 1]>>]

\* Iterating a function n times from x0 gives a function of the number of turns:
\* what every loop over a list computes.
LEMMA Recursion ==
    ASSUME NEW X, NEW x0, x0 \in X, NEW n, n \in Nat, NEW f, f \in StepFuns(X, n)
    PROVE  \E g : Iterates(g, X, x0, n, f)
<1> USE DEF StepFuns
<1> DEFINE Good(m, g) == g[0] = x0 /\ \A i \in 1 .. m : g[i] = f[<<i, g[i - 1]>>]
           M == {m \in Nat : m <= n => \E g \in [0 .. m -> X] : Good(m, g)}
<1>1. 0 \in M
  <2>1. Good(0, [i \in 0 .. 0 |-> x0]) /\ [i \in 0 .. 0 |-> x0] \in [0 .. 0 -> X]
    OBVIOUS
  <2> QED BY <2>1, Zenon
<1>2. ASSUME NEW m \in Nat, m \in M PROVE m + 1 \in M
  <2>0. SUFFICES ASSUME m + 1 <= n PROVE \E g \in [0 .. m + 1 -> X] : Good(m + 1, g)
    OBVIOUS
  <2>1. PICK g \in [0 .. m -> X] : Good(m, g)
    BY <1>2, <2>0
  <2> DEFINE h == [i \in 0 .. m + 1 |-> IF i <= m THEN g[i] ELSE f[<<m + 1, g[m]>>]]
  <2>2. f[<<m + 1, g[m]>>] \in X
    BY <2>0
  <2>3. h \in [0 .. m + 1 -> X]
    BY <2>2
  <2>4. h[0] = x0
    BY <2>1
  <2>5. ASSUME NEW i \in 1 .. m + 1 PROVE h[i] = f[<<i, h[i - 1]>>]
    <3>1. CASE i = m + 1
      <4>1. h[i] = f[<<m + 1, g[m]>>] /\ h[i - 1] = g[m]
        BY <3>1
      <4> QED BY <3>1, <4>1, Zenon
    <3>2. CASE i <= m
      <4>1. h[i] = g[i] /\ h[i - 1] = g[i - 1] /\ i \in 1 .. m
        BY <3>2
      <4>2. g[i] = f[<<i, g[i - 1]>>]
        BY <2>1, <4>1
      <4> QED BY <4>1, <4>2, Zenon
    <3> QED BY <3>1, <3>2
  <2> HIDE DEF h
  <2> QED BY <2>3, <2>4, <2>5, SMTT(30)
<1>3. n \in M
  <2> HIDE DEF M
  <2> QED BY <1>1, <1>2, SetInduction
<1> HIDE DEF StepFuns
<1>4. PICK g \in [0 .. n -> X] : Good(n, g)
  BY <1>3
<1> QED BY <1>4 DEF Iterates

\* Two iterations of the same function from the same value agree.
LEMMA RecursionUnique ==
    ASSUME NEW n \in Nat, NEW g, NEW h, NEW f, g[0] = h[0],
           \A i \in 1 .. n : g[i] = f[<<i, g[i - 1]>>],
           \A i \in 1 .. n : h[i] = f[<<i, h[i - 1]>>]
    PROVE  \A i \in 0 .. n : g[i] = h[i]
<1> DEFINE M == {i \in Nat : i <= n => g[i] = h[i]}
<1>1. 0 \in M
  OBVIOUS
<1>2. ASSUME NEW i \in Nat, i \in M PROVE i + 1 \in M
  <2>1. SUFFICES ASSUME i + 1 <= n PROVE g[i + 1] = h[i + 1]
    OBVIOUS
  <2>2. g[i] = h[i] /\ i + 1 \in 1 .. n /\ (i + 1) - 1 = i
    BY <1>2, <2>1
  <2>3. g[i + 1] = f[<<i + 1, g[i]>>] /\ h[i + 1] = f[<<i + 1, h[i]>>]
    BY <2>2
  <2> QED BY <2>2, <2>3
<1>3. \A i \in Nat : i \in M
  <2> HIDE DEF M
  <2> QED BY <1>1, <1>2, SetInduction
<1> QED BY <1>3

\* g gives what is kept of each prefix of s.
KeepsPrefixes(g, T, s, S) ==
    /\ g \in [0 .. Len(s) -> Seq(T)]
    /\ g[0] = <<>>
    /\ \A i \in 1 .. Len(s) : g[i] = IF s[i] \in S THEN Append(g[i - 1], s[i]) ELSE g[i - 1]

\* Keep is what retain's loop has kept after the last element.
LEMMA KeepFun ==
    ASSUME NEW T, NEW s \in Seq(T), NEW S
    PROVE  \E g : KeepsPrefixes(g, T, s, S) /\ Keep(s, S) = g[Len(s)]
<1> DEFINE n == Len(s)
           step(a) == IF s[a[1]] \in S THEN Append(a[2], s[a[1]]) ELSE a[2]
           f == [a \in (1 .. n) \X Seq(T) |-> step(a)]
           kept == CHOOSE k : k = [i \in 0 .. Len(s) |-> IF i = 0 THEN <<>>
                      ELSE IF s[i] \in S THEN Append(k[i - 1], s[i]) ELSE k[i - 1]]
<1>1. n \in Nat /\ \A i \in 1 .. n : s[i] \in T
  OBVIOUS
<1>2. \A a \in (1 .. n) \X Seq(T) : step(a) \in Seq(T)
  <2>1. ASSUME NEW a \in (1 .. n) \X Seq(T) PROVE step(a) \in Seq(T)
    <3>1. a[1] \in 1 .. n /\ a[2] \in Seq(T) /\ s[a[1]] \in T
      BY <1>1
    <3> QED BY <3>1
  <2> QED BY <2>1
<1>3. f \in [(1 .. n) \X Seq(T) -> Seq(T)]
  <2> HIDE DEF step
  <2> QED BY <1>2
<1>4. \E g : Iterates(g, Seq(T), <<>>, n, f)
  <2>1. <<>> \in Seq(T) /\ f \in StepFuns(Seq(T), n)
    BY <1>3 DEF StepFuns
  <2> HIDE DEF f, n
  <2> QED BY <1>1, <2>1, Recursion, Zenon
<1>5. PICK g \in [0 .. n -> Seq(T)] : g[0] = <<>> /\ \A i \in 1 .. n : g[i] = f[<<i, g[i - 1]>>]
  <2> HIDE DEF f, n
  <2> QED BY <1>4, Zenon DEF Iterates
<1>6. ASSUME NEW i \in 1 .. n
      PROVE  g[i] = IF s[i] \in S THEN Append(g[i - 1], s[i]) ELSE g[i - 1]
  <2>1. <<i, g[i - 1]>> \in (1 .. n) \X Seq(T)
    <3>1. i - 1 \in 0 .. n
      BY <1>1
    <3> QED BY <3>1
  <2>2. f[<<i, g[i - 1]>>] = step(<<i, g[i - 1]>>)
    BY <2>1
  <2> QED BY <1>5, <2>2, Zenon
<1>7. g = [i \in 0 .. Len(s) |-> IF i = 0 THEN <<>>
             ELSE IF s[i] \in S THEN Append(g[i - 1], s[i]) ELSE g[i - 1]]
  <2> HIDE DEF f
  <2>1. ASSUME NEW i \in 0 .. n
        PROVE  g[i] = IF i = 0 THEN <<>>
                      ELSE IF s[i] \in S THEN Append(g[i - 1], s[i]) ELSE g[i - 1]
    <3>1. CASE i = 0
      BY <1>5, <3>1
    <3>2. CASE i # 0
      <4>1. i \in 1 .. n
        BY <1>1, <3>2
      <4> QED BY <1>6, <3>2, <4>1, Zenon
    <3> QED BY <3>1, <3>2
  <2> QED BY <2>1
<1>8. kept = [i \in 0 .. Len(s) |-> IF i = 0 THEN <<>>
             ELSE IF s[i] \in S THEN Append(kept[i - 1], s[i]) ELSE kept[i - 1]]
  <2> HIDE DEF f
  <2> QED BY <1>7, Zenon
<1>9. Keep(s, S) = kept[Len(s)]
  BY DEF Keep
<1>10. kept[0] = <<>> /\ \A i \in 1 .. n : kept[i] = IF s[i] \in S THEN Append(kept[i - 1], s[i]) ELSE kept[i - 1]
  <2> HIDE DEF kept, f
  <2>1. \A i \in 0 .. n : kept[i] = IF i = 0 THEN <<>>
             ELSE IF s[i] \in S THEN Append(kept[i - 1], s[i]) ELSE kept[i - 1]
    BY <1>8, Zenon
  <2>2. 0 \in 0 .. n /\ \A i \in 1 .. n : i \in 0 .. n /\ i # 0
    BY <1>1
  <2> QED BY <2>1, <2>2
<1>11. \A i \in Nat : i <= n => kept[i] = g[i]
  <2> DEFINE M == {i \in Nat : i <= n => kept[i] = g[i]}
  <2> HIDE DEF kept, f
  <2>1. 0 \in M
    BY <1>5, <1>10
  <2>2. ASSUME NEW i \in Nat, i \in M PROVE i + 1 \in M
    <3>1. SUFFICES ASSUME i + 1 <= n PROVE kept[i + 1] = g[i + 1]
      OBVIOUS
    <3>2. kept[i] = g[i] /\ i + 1 \in 1 .. n /\ (i + 1) - 1 = i
      BY <1>1, <2>2, <3>1
    <3> QED BY <1>6, <1>10, <3>2
  <2>3. \A i \in Nat : i \in M
    <3> HIDE DEF M
    <3> QED BY <2>1, <2>2, SetInduction
  <2> QED BY <2>3
<1> HIDE DEF f, kept
<1>12. KeepsPrefixes(g, T, s, S)
  BY <1>1, <1>5, <1>6 DEF KeepsPrefixes
<1> QED BY <1>1, <1>9, <1>11, <1>12

\* What is kept of a prefix of s.
LEMMA KeepPrefix ==
    ASSUME NEW T, NEW s \in Seq(T), NEW S, NEW g, KeepsPrefixes(g, T, s, S)
    PROVE  \A i \in 0 .. Len(s) :
               /\ Range(g[i]) = {s[j] : j \in 1 .. i} \cap S
               /\ IsInjective(s) => IsInjective(g[i])
<1> DEFINE P(i) == /\ Range(g[i]) = {s[j] : j \in 1 .. i} \cap S
                   /\ IsInjective(s) => IsInjective(g[i])
           M == {i \in Nat : i <= Len(s) => P(i)}
<1>0. /\ g \in [0 .. Len(s) -> Seq(T)]
      /\ g[0] = <<>>
      /\ \A i \in 1 .. Len(s) : g[i] = IF s[i] \in S THEN Append(g[i - 1], s[i]) ELSE g[i - 1]
  BY DEF KeepsPrefixes
<1>1. 0 \in M
  <2>1. Range(<<>>) = {} /\ IsInjective(<<>>)
    BY DEF Range, IsInjective
  <2>2. {s[j] : j \in 1 .. 0} = {}
    OBVIOUS
  <2> QED BY <1>0, <2>1, <2>2
<1>2. ASSUME NEW i \in Nat, i \in M PROVE i + 1 \in M
  <2>1. SUFFICES ASSUME i + 1 <= Len(s) PROVE P(i + 1)
    OBVIOUS
  <2>2. i + 1 \in 1 .. Len(s) /\ i \in 0 .. Len(s) /\ (i + 1) - 1 = i
    BY <2>1
  <2>3. P(i)
    BY <1>2, <2>1
  <2>4. {s[j] : j \in 1 .. i + 1} = {s[j] : j \in 1 .. i} \cup {s[i + 1]}
    <3>1. 1 .. i + 1 = (1 .. i) \cup {i + 1}
      OBVIOUS
    <3> QED BY <3>1
  <2>5. CASE s[i + 1] \notin S
    <3>1. g[i + 1] = g[i]
      BY <1>0, <2>2, <2>5
    <3> QED BY <2>3, <2>4, <2>5, <3>1
  <2>6. CASE s[i + 1] \in S
    <3> DEFINE a == g[i]
               x == s[i + 1]
    <3>1. g[i + 1] = Append(a, x) /\ a \in Seq(T) /\ x \in T
      <4>1. a \in Seq(T) /\ x \in T
        BY <1>0, <2>2
      <4>2. g[i + 1] = Append(g[(i + 1) - 1], s[i + 1])
        BY <1>0, <2>2, <2>6, Zenon
      <4> QED BY <2>2, <4>1, <4>2
    <3>2. IsInjective(s) => x \notin Range(a)
      <4>1. SUFFICES ASSUME IsInjective(s), x \in {s[j] : j \in 1 .. i} PROVE FALSE
        BY <2>3
      <4> QED BY <2>2, <4>1 DEF IsInjective
    <3> HIDE DEF a, x
    <3>3. Len(Append(a, x)) = Len(a) + 1 /\ DOMAIN Append(a, x) = 1 .. Len(a) + 1
          /\ DOMAIN a = 1 .. Len(a) /\ Len(a) \in Nat
          /\ Append(a, x)[Len(a) + 1] = x /\ \A k \in 1 .. Len(a) : Append(a, x)[k] = a[k]
      BY <3>1
    <3>4. Range(Append(a, x)) = Range(a) \cup {x}
      BY <3>3 DEF Range
    <3>5. IsInjective(a) /\ x \notin Range(a) => IsInjective(Append(a, x))
      BY <3>3 DEF IsInjective, Range
    <3>6. Range(g[i + 1]) = ({s[j] : j \in 1 .. i} \cap S) \cup {x}
      BY <2>3, <3>1, <3>4 DEF a
    <3>7. Range(g[i + 1]) = {s[j] : j \in 1 .. i + 1} \cap S
      BY <2>4, <2>6, <3>6 DEF x
    <3>8. IsInjective(s) => IsInjective(g[i + 1])
      BY <2>3, <3>1, <3>2, <3>5 DEF a
    <3> QED BY <3>7, <3>8
  <2> QED BY <2>5, <2>6
<1>3. \A i \in Nat : i \in M
  <2> HIDE DEF M
  <2> QED BY <1>1, <1>2, SetInduction
<1> HIDE DEF P
<1>4. \A i \in 0 .. Len(s) : P(i)
  BY <1>3
<1> QED BY <1>4 DEF P

\* Keep returns a list of the elements of s that are in S, each as often as a
\* list without repetitions has it.
LEMMA KeepFacts ==
    ASSUME NEW T, NEW s \in Seq(T), NEW S
    PROVE  /\ Keep(s, S) \in Seq(T)
           /\ Range(Keep(s, S)) = Range(s) \cap S
           /\ IsInjective(s) => IsInjective(Keep(s, S))
<1>1. PICK g : KeepsPrefixes(g, T, s, S) /\ Keep(s, S) = g[Len(s)]
  BY KeepFun
<1>2. Len(s) \in Nat /\ Range(s) = {s[j] : j \in 1 .. Len(s)}
  BY DEF Range
<1>3. \A i \in 0 .. Len(s) :
               /\ Range(g[i]) = {s[j] : j \in 1 .. i} \cap S
               /\ IsInjective(s) => IsInjective(g[i])
  BY <1>1, KeepPrefix, Zenon
<1>4. g[Len(s)] \in Seq(T)
  BY <1>1, <1>2 DEF KeepsPrefixes
<1> QED BY <1>1, <1>2, <1>3, <1>4, SMTT(30)

\* Vec::remove(i): the other elements, in their order.
LEMMA RemoveIndexFacts ==
    ASSUME NEW T, NEW s \in Seq(T), NEW i \in 1 .. Len(s)
    PROVE  /\ RemoveIndex(s, i) \in Seq(T)
           /\ Len(RemoveIndex(s, i)) = Len(s) - 1
           /\ \A j \in 1 .. Len(s) - 1 : RemoveIndex(s, i)[j] = IF j < i THEN s[j] ELSE s[j + 1]
           /\ IsInjective(s) => IsInjective(RemoveIndex(s, i))
           /\ IsInjective(s) => Range(RemoveIndex(s, i)) = Range(s) \ {s[i]}
<1> DEFINE a == SubSeq(s, 1, i - 1)
           b == SubSeq(s, i + 1, Len(s))
           r == RemoveIndex(s, i)
<1>1. /\ a \in Seq(T) /\ Len(a) = i - 1 /\ \A j \in 1 .. i - 1 : a[j] = s[j]
  OBVIOUS
<1>2. /\ b \in Seq(T) /\ Len(b) = Len(s) - i /\ \A j \in 1 .. Len(s) - i : b[j] = s[i + j]
  OBVIOUS
<1>3. r = a \o b
  BY DEF RemoveIndex
<1> HIDE DEF a, b, r
<1>4. r \in Seq(T) /\ Len(r) = Len(s) - 1
  BY <1>1, <1>2, <1>3
<1>5. \A j \in 1 .. Len(s) - 1 : r[j] = IF j < i THEN s[j] ELSE s[j + 1]
  BY <1>1, <1>2, <1>3
<1>6. DOMAIN r = 1 .. Len(s) - 1 /\ DOMAIN s = 1 .. Len(s) /\ Len(s) \in Nat
  BY <1>4
<1>7. ASSUME IsInjective(s) PROVE IsInjective(r)
  <2> SUFFICES ASSUME NEW x \in 1 .. Len(s) - 1, NEW y \in 1 .. Len(s) - 1, r[x] = r[y]
               PROVE  x = y
    BY <1>6 DEF IsInjective
  <2>1. \A j, k \in 1 .. Len(s) : s[j] = s[k] => j = k
    BY <1>6, <1>7 DEF IsInjective
  <2>2. CASE x < i
    BY <1>5, <1>6, <2>1, <2>2
  <2>3. CASE ~(x < i)
    BY <1>5, <1>6, <2>1, <2>3
  <2> QED BY <2>2, <2>3
<1>8. ASSUME IsInjective(s) PROVE Range(r) = Range(s) \ {s[i]}
  <2>1. ASSUME NEW j \in 1 .. Len(s) - 1 PROVE r[j] \in Range(s) \ {s[i]}
    BY <1>5, <1>6, <1>8 DEF IsInjective, Range
  <2>2. ASSUME NEW j \in 1 .. Len(s), s[j] # s[i] PROVE s[j] \in Range(r)
    <3>1. CASE j < i
      <4>1. j \in DOMAIN r /\ r[j] = s[j]
        BY <1>5, <1>6, <3>1
      <4> QED BY <4>1 DEF Range
    <3>2. CASE j > i
      <4>1. j - 1 \in DOMAIN r /\ r[j - 1] = s[j]
        BY <1>5, <1>6, <3>2
      <4> QED BY <4>1 DEF Range
    <3> QED BY <2>2, <3>1, <3>2
  <2> QED BY <1>6, <2>1, <2>2 DEF Range
<1> QED BY <1>4, <1>5, <1>7, <1>8 DEF r

\* Iterator::position: the first element of a set, where there is one.
LEMMA FirstInFacts ==
    ASSUME NEW T, NEW s \in Seq(T), NEW S, \E i \in 1 .. Len(s) : s[i] \in S
    PROVE  /\ FirstIn(s, S) \in 1 .. Len(s) /\ s[FirstIn(s, S)] \in S
           /\ \A j \in 1 .. Len(s) : s[j] \in S => FirstIn(s, S) <= j
<1> DEFINE I == {i \in DOMAIN s : s[i] \in S}
<1>1. I \subseteq Nat /\ I \subseteq 1 .. Len(s) /\ I # {} /\ Min(I) = FirstIn(s, S)
  BY DEF FirstIn
<1>2. \A j \in 1 .. Len(s) : j \in I <=> s[j] \in S
  OBVIOUS
<1> HIDE DEF I
<1>3. PICK i \in I : \A j \in I : i <= j
  BY <1>1, LeastElement, Zenon
<1>4. Min(I) \in I /\ \A j \in I : Min(I) <= j
  BY <1>3 DEF Min
<1> QED BY <1>1, <1>2, <1>4, Zenon

\* The removal of a task that is queued at most once.
LEMMA WithoutFacts ==
    ASSUME NEW T, NEW s \in Seq(T), NEW e, IsInjective(s)
    PROVE  /\ Without(s, e) \in Seq(T)
           /\ IsInjective(Without(s, e))
           /\ Range(Without(s, e)) = Range(s) \ {e}
<1>1. CASE e \notin Range(s)
  BY <1>1 DEF Without
<1>2. CASE e \in Range(s)
  <2>1. PICK k : k = FirstIn(s, {e})
    OBVIOUS
  <2>2. \E i \in 1 .. Len(s) : s[i] \in {e}
    BY <1>2 DEF Range
  <2>3. k \in 1 .. Len(s) /\ s[k] = e
    BY <2>1, <2>2, FirstInFacts
  <2>4. Without(s, e) = RemoveIndex(s, k)
    BY <1>2, <2>1 DEF Without
  <2> QED BY <2>3, <2>4, RemoveIndexFacts
<1> QED BY <1>1, <1>2

\* Vec::push: one more element, at the end.
LEMMA AppendElements ==
    ASSUME NEW T, NEW s \in Seq(T), NEW e \in T, NEW a, a = Append(s, e), NEW x
    PROVE  x \in Range(a) <=> x \in Range(s) \/ x = e
<1>1. /\ Len(a) = Len(s) + 1 /\ a[Len(s) + 1] = e
      /\ \A i \in 1 .. Len(s) : a[i] = s[i]
  OBVIOUS
<1>2. DOMAIN s = 1 .. Len(s) /\ DOMAIN a = 1 .. Len(s) + 1 /\ Len(s) \in Nat
  OBVIOUS
<1>3. ASSUME x \in Range(a) PROVE x \in Range(s) \/ x = e
  <2>1. PICK i \in 1 .. Len(s) + 1 : a[i] = x
    BY <1>2, <1>3 DEF Range
  <2>2. i = Len(s) + 1 \/ i \in 1 .. Len(s)
    BY <1>2
  <2> QED BY <1>1, <1>2, <2>1, <2>2 DEF Range
<1>4. ASSUME x \in Range(s) PROVE x \in Range(a)
  <2>1. PICK i \in 1 .. Len(s) : s[i] = x
    BY <1>2, <1>4 DEF Range
  <2>2. i \in 1 .. Len(s) + 1
    BY <1>2
  <2> QED BY <1>1, <1>2, <2>1, <2>2 DEF Range
<1>5. e \in Range(a)
  BY <1>1, <1>2 DEF Range
<1> QED BY <1>3, <1>4, <1>5

\* The sequence stays one without repetition when the element is new.
LEMMA AppendFacts ==
    ASSUME NEW T, NEW s \in Seq(T), NEW e \in T, NEW a, a = Append(s, e)
    PROVE  /\ a \in Seq(T)
           /\ IsInjective(s) /\ e \notin Range(s) => IsInjective(a)
<1>1. /\ a \in Seq(T) /\ Len(a) = Len(s) + 1
      /\ a[Len(s) + 1] = e
      /\ \A i \in 1 .. Len(s) : a[i] = s[i]
  OBVIOUS
<1>2. DOMAIN s = 1 .. Len(s) /\ DOMAIN a = 1 .. Len(s) + 1 /\ Len(s) \in Nat
  BY <1>1
<1>3. ASSUME IsInjective(s), e \notin Range(s) PROVE IsInjective(a)
  <2>1. \A i \in 1 .. Len(s) : s[i] # e
    BY <1>2, <1>3 DEF Range
  <2>2. \A i \in 1 .. Len(s) + 1 : i = Len(s) + 1 \/ i \in 1 .. Len(s)
    BY <1>2
  <2>3. \A i, j \in 1 .. Len(s) : s[i] = s[j] => i = j
    BY <1>2, <1>3 DEF IsInjective
  <2> QED BY <1>1, <1>2, <2>1, <2>2, <2>3 DEF IsInjective
<1> QED BY <1>1, <1>3

\* extend: the elements of two lists put together.
LEMMA ConcatFacts ==
    ASSUME NEW T, NEW s \in Seq(T), NEW u \in Seq(T), NEW a, a = s \o u
    PROVE  /\ a \in Seq(T)
           /\ \A x : x \in Range(a) <=> x \in Range(s) \/ x \in Range(u)
<1>1. Len(s) \in Nat /\ Len(u) \in Nat
  OBVIOUS
<1>2. a \in Seq(T) /\ Len(a) = Len(s) + Len(u)
  OBVIOUS
<1>3. \A i \in 1 .. Len(s) : i \in 1 .. Len(s) + Len(u) /\ a[i] = s[i]
  OBVIOUS
<1>4. \A i \in 1 .. Len(u) : Len(s) + i \in 1 .. Len(s) + Len(u) /\ a[Len(s) + i] = u[i]
  OBVIOUS
<1>5. DOMAIN s = 1 .. Len(s) /\ DOMAIN u = 1 .. Len(u) /\ DOMAIN a = 1 .. Len(s) + Len(u)
  BY <1>2
<1>6. ASSUME NEW i \in DOMAIN a PROVE a[i] \in Range(s) \/ a[i] \in Range(u)
  <2>1. CASE i <= Len(s)
    <3>1. i \in DOMAIN s /\ a[i] = s[i]
      BY <1>1, <1>3, <1>5, <2>1
    <3> QED BY <3>1 DEF Range
  <2>2. CASE ~(i <= Len(s))
    <3>1. i - Len(s) \in 1 .. Len(u) /\ Len(s) + (i - Len(s)) = i
      BY <1>1, <1>5, <2>2
    <3>2. i - Len(s) \in DOMAIN u /\ a[i] = u[i - Len(s)]
      BY <1>4, <1>5, <3>1
    <3> QED BY <3>2 DEF Range
  <2> QED BY <2>1, <2>2
<1>7. ASSUME NEW i \in DOMAIN s PROVE s[i] \in Range(a)
  <2>1. i \in DOMAIN a /\ a[i] = s[i]
    BY <1>3, <1>5
  <2> QED BY <2>1 DEF Range
<1>8. ASSUME NEW i \in DOMAIN u PROVE u[i] \in Range(a)
  <2>1. Len(s) + i \in DOMAIN a /\ a[Len(s) + i] = u[i]
    BY <1>4, <1>5
  <2> QED BY <2>1 DEF Range
<1>9. ASSUME NEW x PROVE x \in Range(a) <=> x \in Range(s) \/ x \in Range(u)
  BY <1>6, <1>7, <1>8, Zenon DEF Range
<1> QED BY <1>2, <1>9
=============================================================================
