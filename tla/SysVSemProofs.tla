--------------------------- MODULE SysVSemProofs ----------------------------
(***************************************************************************)
(* System V semaphores, for any number of processes and semaphores and any *)
(* batches.  try_apply is an iteration over the batch, whose result is all *)
(* of it or nothing; from that the values, the adjustments that every      *)
(* process owes and the account stay balanced (UndoConserves needs the     *)
(* adjustments in flight between two steps of a call), the counts of       *)
(* waiters are exact, and no sleeper is stranded.  SemInv is the inductive *)
(* invariant.                                                              *)
(***************************************************************************)
EXTENDS SysVSem, ListProofs, FiniteSetTheorems

-----------------------------------------------------------------------------
(* Sums *)

\* The sums of the prefixes of f.
Sums(g, f, n) ==
    /\ g \in [0 .. n -> Int]
    /\ g[0] = 0
    /\ \A i \in 1 .. n : g[i] = g[i - 1] + f[i]

\* Total is the last of the sums of prefixes.
LEMMA TotalFun ==
    ASSUME NEW n \in Nat, NEW f \in [1 .. n -> Int]
    PROVE  \E g : Sums(g, f, n) /\ Total(f, n) = g[n]
<1> DEFINE step == [a \in (1 .. n) \X Int |-> a[2] + f[a[1]]]
           sum == CHOOSE k : k = [i \in 0 .. n |-> IF i = 0 THEN 0 ELSE k[i - 1] + f[i]]
<1>1. step \in StepFuns(Int, n)
  BY DEF StepFuns
<1>2. \E g : Iterates(g, Int, 0, n, step)
  <2> HIDE DEF step
  <2>1. 0 \in Int
    OBVIOUS
  <2> QED BY <1>1, <2>1, Recursion, Zenon
<1>3. PICK g \in [0 .. n -> Int] : g[0] = 0 /\ \A i \in 1 .. n : g[i] = step[<<i, g[i - 1]>>]
  <2> HIDE DEF step
  <2> QED BY <1>2, Zenon DEF Iterates
<1>4. ASSUME NEW i \in 1 .. n PROVE g[i] = g[i - 1] + f[i]
  <2>1. <<i, g[i - 1]>> \in (1 .. n) \X Int
    <3>1. i - 1 \in 0 .. n
      OBVIOUS
    <3> QED BY <3>1, Zenon
  <2>2. step[<<i, g[i - 1]>>] = g[i - 1] + f[i]
    BY <2>1, Zenon
  <2> QED BY <1>3, <2>2, Zenon
<1>5. g = [i \in 0 .. n |-> IF i = 0 THEN 0 ELSE g[i - 1] + f[i]]
  <2> HIDE DEF step
  <2>1. ASSUME NEW i \in 0 .. n PROVE g[i] = IF i = 0 THEN 0 ELSE g[i - 1] + f[i]
    BY <1>3, <1>4
  <2> QED BY <2>1, Zenon
<1>6. sum = [i \in 0 .. n |-> IF i = 0 THEN 0 ELSE sum[i - 1] + f[i]]
  <2> HIDE DEF step
  <2> QED BY <1>5, Zenon
<1>7. Total(f, n) = sum[n]
  BY Zenon DEF Total
<1> HIDE DEF sum, step
<1>8. sum[0] = 0 /\ \A i \in 1 .. n : sum[i] = sum[i - 1] + f[i]
  <2>1. \A i \in 0 .. n : sum[i] = IF i = 0 THEN 0 ELSE sum[i - 1] + f[i]
    BY <1>6, Zenon
  <2>2. 0 \in 0 .. n /\ \A i \in 1 .. n : i \in 0 .. n /\ i # 0
    OBVIOUS
  <2> QED BY <2>1, <2>2, Zenon
<1>9. \A i \in Nat : i \in {j \in Nat : j <= n => sum[j] = g[j]}
  <2> DEFINE M == {j \in Nat : j <= n => sum[j] = g[j]}
  <2>1. 0 \in M
    BY <1>3, <1>8, Zenon
  <2>2. ASSUME NEW i \in Nat, i \in M PROVE i + 1 \in M
    <3>1. SUFFICES ASSUME i + 1 <= n PROVE sum[i + 1] = g[i + 1]
      OBVIOUS
    <3>2. sum[i] = g[i] /\ i + 1 \in 1 .. n /\ (i + 1) - 1 = i
      BY <2>2, <3>1
    <3> QED BY <1>4, <1>8, <3>2, Zenon
  <2>3. \A i \in Nat : i \in M
    <3> HIDE DEF M
    <3> QED BY <2>1, <2>2, SetInduction, Zenon
  <2> QED BY <2>3, Zenon
<1>10. sum[n] = g[n]
  BY <1>9
<1> QED BY <1>3, <1>4, <1>7, <1>10, Zenon DEF Sums

\* A total of integers is an integer.
LEMMA TotalType ==
    ASSUME NEW n \in Nat, NEW f \in [1 .. n -> Int]
    PROVE  Total(f, n) \in Int
<1>1. PICK g : Sums(g, f, n) /\ Total(f, n) = g[n]
  BY TotalFun, Zenon
<1> QED BY <1>1 DEF Sums

\* A sum of which one element changes.
LEMMA TotalChange ==
    ASSUME NEW n \in Nat, NEW f \in [1 .. n -> Int], NEW h \in [1 .. n -> Int],
           NEW k \in 1 .. n, \A i \in 1 .. n : i # k => h[i] = f[i]
    PROVE  Total(h, n) = Total(f, n) + h[k] - f[k]
<1>1. PICK a : Sums(a, f, n) /\ Total(f, n) = a[n]
  BY TotalFun, Zenon
<1>2. PICK b : Sums(b, h, n) /\ Total(h, n) = b[n]
  BY TotalFun, Zenon
<1> DEFINE P(i) == b[i] = IF i < k THEN a[i] ELSE a[i] + h[k] - f[k]
           M == {i \in Nat : i <= n => P(i)}
<1>3. 0 \in M
  BY <1>1, <1>2 DEF Sums
<1>4. ASSUME NEW i \in Nat, i \in M PROVE i + 1 \in M
  <2>1. SUFFICES ASSUME i + 1 <= n PROVE P(i + 1)
    OBVIOUS
  <2>2. P(i) /\ i \in 0 .. n /\ i + 1 \in 1 .. n /\ (i + 1) - 1 = i
    BY <1>4, <2>1
  <2>3. a[i + 1] = a[i] + f[i + 1] /\ b[i + 1] = b[i] + h[i + 1]
    BY <1>1, <1>2, <2>2, Zenon DEF Sums
  <2>4. a[i] \in Int /\ b[i] \in Int /\ f[i + 1] \in Int /\ h[i + 1] \in Int /\ f[k] \in Int /\ h[k] \in Int
    BY <1>1, <1>2, <2>2, Zenon DEF Sums
  <2>5. CASE i + 1 = k
    <3>1. b[i] = a[i] /\ f[i + 1] = f[k] /\ h[i + 1] = h[k] /\ ~(i + 1 < k)
      BY <2>2, <2>5
    <3> QED BY <2>3, <2>4, <3>1
  <2>6. CASE i + 1 # k
    <3>1. h[i + 1] = f[i + 1]
      BY <2>2, <2>6, Zenon
    <3> QED BY <2>2, <2>3, <2>4, <2>6, <3>1, SMTT(30)
  <2> QED BY <2>5, <2>6, Zenon
<1>5. n \in M
  <2> HIDE DEF M
  <2> QED BY <1>3, <1>4, SetInduction, Zenon
<1> QED BY <1>1, <1>2, <1>5

\* The total of sums is the sum of the totals.
LEMMA TotalPlus ==
    ASSUME NEW n \in Nat, NEW f \in [1 .. n -> Int], NEW g \in [1 .. n -> Int],
           NEW h \in [1 .. n -> Int], \A i \in 1 .. n : h[i] = f[i] + g[i]
    PROVE  Total(h, n) = Total(f, n) + Total(g, n)
<1>1. PICK a : Sums(a, f, n) /\ Total(f, n) = a[n]
  BY TotalFun, Zenon
<1>2. PICK b : Sums(b, g, n) /\ Total(g, n) = b[n]
  BY TotalFun, Zenon
<1>3. PICK c : Sums(c, h, n) /\ Total(h, n) = c[n]
  BY TotalFun, Zenon
<1> DEFINE M == {i \in Nat : i <= n => c[i] = a[i] + b[i]}
<1>4. 0 \in M
  BY <1>1, <1>2, <1>3 DEF Sums
<1>5. ASSUME NEW i \in Nat, i \in M PROVE i + 1 \in M
  <2>1. SUFFICES ASSUME i + 1 <= n PROVE c[i + 1] = a[i + 1] + b[i + 1]
    OBVIOUS
  <2>2. c[i] = a[i] + b[i] /\ i \in 0 .. n /\ i + 1 \in 1 .. n /\ (i + 1) - 1 = i
    BY <1>5, <2>1
  <2>3. a[i + 1] = a[i] + f[i + 1] /\ b[i + 1] = b[i] + g[i + 1] /\ c[i + 1] = c[i] + h[i + 1]
    BY <1>1, <1>2, <1>3, <2>2, Zenon DEF Sums
  <2>4. a[i] \in Int /\ b[i] \in Int /\ f[i + 1] \in Int /\ g[i + 1] \in Int
    BY <1>1, <1>2, <2>2, Zenon DEF Sums
  <2>5. h[i + 1] = f[i + 1] + g[i + 1]
    BY <2>2, Zenon
  <2> QED BY <2>2, <2>3, <2>4, <2>5
<1>6. n \in M
  <2> HIDE DEF M
  <2> QED BY <1>4, <1>5, SetInduction, Zenon
<1> QED BY <1>1, <1>2, <1>3, <1>6

\* The total of nothing but zeros is zero.
LEMMA TotalZero ==
    ASSUME NEW n \in Nat, NEW f \in [1 .. n -> Int], \A i \in 1 .. n : f[i] = 0
    PROVE  Total(f, n) = 0
<1>1. Total(f, n) = Total(f, n) + Total(f, n)
  <2>1. \A i \in 1 .. n : f[i] = f[i] + f[i]
    OBVIOUS
  <2> QED BY <2>1, TotalPlus, Zenon
<1> QED BY <1>1, TotalType

\* The sum of a list that grows at its end.
LEMMA TotalNext ==
    ASSUME NEW n \in Nat, NEW f \in [1 .. n -> Int], NEW h \in [1 .. n + 1 -> Int],
           \A i \in 1 .. n : h[i] = f[i]
    PROVE  Total(h, n + 1) = Total(f, n) + h[n + 1]
<1>1. PICK a : Sums(a, f, n) /\ Total(f, n) = a[n]
  BY TotalFun, Zenon
<1>2. PICK b : Sums(b, h, n + 1) /\ Total(h, n + 1) = b[n + 1]
  BY TotalFun
<1> DEFINE M == {i \in Nat : i <= n => b[i] = a[i]}
<1>3. 0 \in M
  BY <1>1, <1>2, Zenon DEF Sums
<1>4. ASSUME NEW i \in Nat, i \in M PROVE i + 1 \in M
  <2>1. SUFFICES ASSUME i + 1 <= n PROVE b[i + 1] = a[i + 1]
    OBVIOUS
  <2>2. b[i] = a[i] /\ i + 1 \in 1 .. n /\ i + 1 \in 1 .. n + 1 /\ (i + 1) - 1 = i
    BY <1>4, <2>1
  <2>3. a[i + 1] = a[i] + f[i + 1] /\ b[i + 1] = b[i] + h[i + 1] /\ h[i + 1] = f[i + 1]
    BY <1>1, <1>2, <2>2, Zenon DEF Sums
  <2> QED BY <2>2, <2>3, Zenon
<1>5. n \in M
  <2> HIDE DEF M
  <2> QED BY <1>3, <1>4, SetInduction, Zenon
<1>6. b[n + 1] = b[n] + h[n + 1]
  <2>1. n + 1 \in 1 .. n + 1 /\ (n + 1) - 1 = n
    OBVIOUS
  <2> QED BY <1>2, <2>1, Zenon DEF Sums
<1> QED BY <1>1, <1>2, <1>5, <1>6

-----------------------------------------------------------------------------
(* try_apply and what a batch adds *)

Outcome == {"applied", "block", "error"}
Blocked == [sem : Int, kind : {"none", "increment", "zero"}]
SemVals == [Sem -> 0 .. SEMVMX]
Acc == [result : Outcome, val : SemVals, at : Blocked]

\* One operation keeps the values in range, and adds itself to its semaphore.
LEMMA ApplyOpFacts ==
    ASSUME NEW acc \in Acc, NEW o \in Sembuf
    PROVE  /\ ApplyOp(acc, o) \in Acc
           /\ ApplyOp(acc, o).result = "applied" =>
                /\ acc.result = "applied"
                /\ \A s \in Sem : ApplyOp(acc, o).val[s] =
                                    acc.val[s] + (IF o.sem = s THEN o.op ELSE 0)
<1> DEFINE new == ApplyOp(acc, o)
           v == acc.val[o.sem]
<1>0. v \in 0 .. SEMVMX /\ SEMVMX \in Nat /\ acc.val \in SemVals /\ acc.at \in Blocked
      /\ acc.result \in Outcome /\ o.sem \in Sem /\ o.op \in Int /\ o.nowait \in BOOLEAN
  BY SemAssumption, Zenon DEF Acc, SemVals, Sembuf
<1>1. CASE acc.result # "applied"
  <2>1. new = acc
    BY <1>1, Zenon DEF ApplyOp
  <2> QED BY <1>1, <2>1, Zenon
<1>2. CASE acc.result = "applied" /\ new = [acc EXCEPT !.result = "error"]
  BY <1>2, <1>0, Zenon DEF Acc, Outcome
<1>3. CASE acc.result = "applied" /\ v + o.op \in 0 .. SEMVMX
           /\ new = [acc EXCEPT !.val[o.sem] = v + o.op]
  <2>1. new = [acc EXCEPT !.val = [acc.val EXCEPT ![o.sem] = v + o.op]]
    BY <1>3, Zenon DEF Acc
  <2>2. [acc.val EXCEPT ![o.sem] = v + o.op] \in SemVals
    BY <1>0, <1>3, Zenon DEF SemVals
  <2>3. new.result = "applied" /\ new.val = [acc.val EXCEPT ![o.sem] = v + o.op] /\ new \in Acc
    BY <1>3, <2>1, <2>2, Zenon DEF Acc
  <2>4. \A s \in Sem : new.val[s] = acc.val[s] + (IF o.sem = s THEN o.op ELSE 0)
    <3> HIDE DEF new
    <3> QED BY <1>0, <2>3 DEF SemVals
  <2> QED BY <1>3, <2>3, <2>4, Zenon
<1>4. CASE acc.result = "applied" /\ \E k \in {"increment", "zero"} :
             new = [acc EXCEPT !.result = "block", !.at = [sem |-> o.sem, kind |-> k]]
  <2>1. PICK k \in {"increment", "zero"} :
            new = [acc EXCEPT !.result = "block", !.at = [sem |-> o.sem, kind |-> k]]
    BY <1>4, Zenon
  <2>2. [sem |-> o.sem, kind |-> k] \in Blocked
    BY <1>0 DEF Blocked, Sem
  <2>3. new \in Acc /\ new.result = "block"
    <3> HIDE DEF new
    <3> QED BY <2>1, <2>2, Zenon DEF Acc, Outcome
  <2> QED BY <2>3, Zenon
<1>5. CASE acc.result = "applied" /\ o.op = 0 /\ new = acc
  BY <1>5, <1>0 DEF SemVals
<1>6. CASE acc.result = "applied" /\ o.op > 0
  <2>1. new = IF v + o.op > SEMVMX THEN [acc EXCEPT !.result = "error"]
              ELSE [acc EXCEPT !.val[o.sem] = v + o.op]
    BY <1>0, <1>6 DEF ApplyOp
  <2> HIDE DEF new
  <2> QED BY <1>0, <1>2, <1>3, <1>6, <2>1
<1>7. CASE acc.result = "applied" /\ o.op < 0
  <2>1. new = IF v < -o.op
              THEN IF o.nowait THEN [acc EXCEPT !.result = "error"]
                   ELSE [acc EXCEPT !.result = "block", !.at = [sem |-> o.sem, kind |-> "increment"]]
              ELSE [acc EXCEPT !.val[o.sem] = v + o.op]
    BY <1>0, <1>7 DEF ApplyOp
  <2> HIDE DEF new
  <2> QED BY <1>0, <1>2, <1>3, <1>4, <1>7, <2>1
<1>8. CASE acc.result = "applied" /\ o.op = 0
  <2>1. new = IF v # 0
              THEN IF o.nowait THEN [acc EXCEPT !.result = "error"]
                   ELSE [acc EXCEPT !.result = "block", !.at = [sem |-> o.sem, kind |-> "zero"]]
              ELSE acc
    BY <1>0, <1>8 DEF ApplyOp
  <2> HIDE DEF new
  <2> QED BY <1>0, <1>2, <1>4, <1>5, <1>8, <2>1, Zenon
<1> QED BY <1>0, <1>1, <1>6, <1>7, <1>8

\* acc gives the outcome of each prefix of a batch.
Tries(acc, val, ops) ==
    /\ acc[0] = [result |-> "applied", val |-> val, at |-> NoBlock]
    /\ \A i \in 1 .. Len(ops) : acc[i] = ApplyOp(acc[i - 1], ops[i])

\* try_apply goes through the batch one operation at a time.
LEMMA TriedFun ==
    ASSUME NEW val \in SemVals, NEW ops \in Seq(Sembuf)
    PROVE  \E acc \in [0 .. Len(ops) -> Acc] : Tries(acc, val, ops) /\ Tried(val, ops) = acc[Len(ops)]
<1> DEFINE n == Len(ops)
           x0 == [result |-> "applied", val |-> val, at |-> NoBlock]
           step == [a \in (1 .. n) \X Acc |-> ApplyOp(a[2], ops[a[1]])]
           acc == CHOOSE k : k = [i \in 0 .. Len(ops) |-> IF i = 0 THEN x0 ELSE ApplyOp(k[i - 1], ops[i])]
<1>0. n \in Nat /\ x0 \in Acc /\ \A i \in 1 .. n : ops[i] \in Sembuf
  BY DEF Acc, Outcome, Blocked, NoBlock
<1>1. step \in StepFuns(Acc, n)
  <2>1. ASSUME NEW a \in (1 .. n) \X Acc PROVE ApplyOp(a[2], ops[a[1]]) \in Acc
    <3>1. a[2] \in Acc /\ ops[a[1]] \in Sembuf
      BY <1>0, Zenon
    <3> QED BY <3>1, ApplyOpFacts, Zenon
  <2> QED BY <2>1, Zenon DEF StepFuns
<1>2. \E g : Iterates(g, Acc, x0, n, step)
  <2> HIDE DEF step, x0, n
  <2> QED BY <1>0, <1>1, Recursion, Zenon
<1>3. PICK g \in [0 .. n -> Acc] : g[0] = x0 /\ \A i \in 1 .. n : g[i] = step[<<i, g[i - 1]>>]
  <2> HIDE DEF step, x0, n
  <2> QED BY <1>2, Zenon DEF Iterates
<1>4. ASSUME NEW i \in 1 .. n PROVE g[i] = ApplyOp(g[i - 1], ops[i])
  <2>1. <<i, g[i - 1]>> \in (1 .. n) \X Acc
    <3>1. i - 1 \in 0 .. n
      BY <1>0
    <3> QED BY <3>1, Zenon
  <2>2. step[<<i, g[i - 1]>>] = ApplyOp(g[i - 1], ops[i])
    BY <2>1, Zenon
  <2> QED BY <1>3, <2>2, Zenon
<1>5. g = [i \in 0 .. Len(ops) |-> IF i = 0 THEN x0 ELSE ApplyOp(g[i - 1], ops[i])]
  <2> HIDE DEF step, x0
  <2>1. ASSUME NEW i \in 0 .. n PROVE g[i] = IF i = 0 THEN x0 ELSE ApplyOp(g[i - 1], ops[i])
    <3>1. i = 0 \/ i \in 1 .. n
      BY <1>0
    <3> QED BY <1>3, <1>4, <3>1, Zenon
  <2> QED BY <2>1, Zenon
<1>6. acc = [i \in 0 .. Len(ops) |-> IF i = 0 THEN x0 ELSE ApplyOp(acc[i - 1], ops[i])]
  <2> HIDE DEF step, x0
  <2> QED BY <1>5, Zenon
<1>7. Tried(val, ops) = acc[Len(ops)]
  BY Zenon DEF Tried
<1> HIDE DEF acc, step, x0
<1>8. acc[0] = x0 /\ \A i \in 1 .. n : acc[i] = ApplyOp(acc[i - 1], ops[i])
  <2>1. \A i \in 0 .. n : acc[i] = IF i = 0 THEN x0 ELSE ApplyOp(acc[i - 1], ops[i])
    BY <1>6, Zenon
  <2>2. 0 \in 0 .. n /\ \A i \in 1 .. n : i \in 0 .. n /\ i # 0
    BY <1>0
  <2> QED BY <2>1, <2>2, Zenon
<1>9. acc \in [0 .. n -> Acc]
  <2> DEFINE M == {j \in Nat : j <= n => acc[j] \in Acc}
  <2>1. 0 \in M
    BY <1>0, <1>8, Zenon
  <2>2. ASSUME NEW i \in Nat, i \in M PROVE i + 1 \in M
    <3>1. SUFFICES ASSUME i + 1 <= n PROVE acc[i + 1] \in Acc
      OBVIOUS
    <3>2. acc[i] \in Acc /\ i + 1 \in 1 .. n /\ (i + 1) - 1 = i
      BY <1>0, <2>2, <3>1
    <3>3. ops[i + 1] \in Sembuf /\ acc[i + 1] = ApplyOp(acc[i], ops[i + 1])
      BY <1>0, <1>8, <3>2, Zenon
    <3> QED BY <3>2, <3>3, ApplyOpFacts, Zenon
  <2>3. \A i \in Nat : i \in M
    <3> HIDE DEF M
    <3> QED BY <2>1, <2>2, SetInduction, Zenon
  <2>4. \A i \in 0 .. n : acc[i] \in Acc
    BY <1>0, <2>3
  <2>5. DOMAIN acc = 0 .. n /\ acc = [i \in 0 .. n |-> acc[i]]
    BY <1>6, Zenon
  <2> QED BY <2>4, <2>5, Zenon
<1> QED BY <1>7, <1>8, <1>9, Zenon DEF Tries, x0

\* What one operation adds to s.
Adds(o, s, flags) == IF o.sem = s /\ o.undo \in flags THEN o.op ELSE 0

\* f lists what each operation of a batch adds to s.
AddsList(f, n, ops, s, flags) ==
    n = Len(ops) /\ f = [i \in 1 .. n |-> Adds(ops[i], s, flags)]

\* What a batch adds to a semaphore is the total of its operations on it.
LEMMA EffectIs ==
    ASSUME NEW ops \in Seq(Sembuf), NEW s, NEW flags, NEW n, NEW f, AddsList(f, n, ops, s, flags)
    PROVE  n \in Nat /\ f \in [1 .. n -> Int] /\ Effect(ops, s, flags) = Total(f, n)
<1> USE DEF AddsList
<1>1. f \in [1 .. n -> Int]
  <2>1. ASSUME NEW i \in 1 .. Len(ops) PROVE Adds(ops[i], s, flags) \in Int
    <3>1. ops[i] \in Sembuf
      OBVIOUS
    <3> QED BY <3>1 DEF Adds, Sembuf
  <2> QED BY <2>1, Zenon
<1>2. Effect(ops, s, flags) = Total(f, n)
  BY Zenon DEF Effect, Adds
<1> QED BY <1>1, <1>2

\* What a batch adds is an integer.
LEMMA EffectType ==
    ASSUME NEW ops \in Seq(Sembuf), NEW s, NEW flags
    PROVE  Effect(ops, s, flags) \in Int
<1>1. PICK n, f : AddsList(f, n, ops, s, flags)
  BY Zenon DEF AddsList
<1>2. n \in Nat /\ f \in [1 .. n -> Int] /\ Effect(ops, s, flags) = Total(f, n)
  BY <1>1, EffectIs
<1> QED BY <1>2, TotalType, Zenon

\* A batch that is applied adds what its operations add, and leaves every
\* value in range.
LEMMA TriedFacts ==
    ASSUME NEW val \in SemVals, NEW ops \in Seq(Sembuf)
    PROVE  /\ Tried(val, ops) \in Acc
           /\ Tried(val, ops).result = "applied" =>
                \A s \in Sem : Tried(val, ops).val[s] = val[s] + Effect(ops, s, BOOLEAN)
<1>0. Len(ops) \in Nat
  OBVIOUS
<1>1. PICK n \in Nat : n = Len(ops)
  BY <1>0, Zenon
<1>2. PICK acc \in [0 .. n -> Acc] : Tries(acc, val, ops) /\ Tried(val, ops) = acc[n]
  BY <1>1, TriedFun, Zenon
<1>3. Tried(val, ops) \in Acc
  BY <1>2
<1>4. ASSUME NEW s \in Sem, acc[n].result = "applied"
      PROVE  acc[n].val[s] = val[s] + Effect(ops, s, BOOLEAN)
  <2>0. PICK f : AddsList(f, n, ops, s, BOOLEAN)
    BY <1>1, Zenon DEF AddsList
  <2>1. f \in [1 .. n -> Int] /\ Effect(ops, s, BOOLEAN) = Total(f, n)
    BY <2>0, EffectIs
  <2>2. \A i \in 1 .. n : f[i] = IF ops[i].sem = s THEN ops[i].op ELSE 0
    <3>1. ASSUME NEW i \in 1 .. n PROVE f[i] = IF ops[i].sem = s THEN ops[i].op ELSE 0
      <4>1. ops[i] \in Sembuf
        BY <1>1
      <4> QED BY <2>0, <4>1, Zenon DEF Adds, Sembuf, AddsList
    <3> QED BY <3>1, Zenon
  <2>3. PICK g : Sums(g, f, n) /\ Total(f, n) = g[n]
    BY <2>1, TotalFun, Zenon
  <2> DEFINE P(i) == acc[i].result = "applied" => acc[i].val[s] = val[s] + g[i]
             M == {i \in Nat : i <= n => P(i)}
  <2>4. 0 \in M
    <3>1. acc[0].val = val /\ g[0] = 0 /\ val[s] \in Int
      BY <1>2, <2>3 DEF Tries, Sums, SemVals
    <3> QED BY <3>1
  <2>5. ASSUME NEW i \in Nat, i \in M PROVE i + 1 \in M
    <3>1. SUFFICES ASSUME i + 1 <= n, acc[i + 1].result = "applied"
                   PROVE  acc[i + 1].val[s] = val[s] + g[i + 1]
      OBVIOUS
    <3>2. P(i) /\ i \in 0 .. n /\ i + 1 \in 1 .. n /\ (i + 1) - 1 = i
      BY <2>5, <3>1
    <3>3. acc[i] \in Acc /\ ops[i + 1] \in Sembuf /\ acc[i + 1] = ApplyOp(acc[i], ops[i + 1])
      BY <1>1, <1>2, <3>2 DEF Tries
    <3>4. /\ acc[i].result = "applied"
          /\ acc[i + 1].val[s] = acc[i].val[s] + (IF ops[i + 1].sem = s THEN ops[i + 1].op ELSE 0)
      BY <3>1, <3>3, ApplyOpFacts, SMTT(30)
    <3>5. f[i + 1] = (IF ops[i + 1].sem = s THEN ops[i + 1].op ELSE 0)
      BY <2>2, <3>2, Zenon
    <3>6. g[i + 1] = g[i] + f[i + 1] /\ g[i] \in Int /\ f[i + 1] \in Int /\ val[s] \in Int
      <4>1. g[i + 1] = g[i] + f[i + 1] /\ g[i] \in Int
        BY <2>3, <3>2, Zenon DEF Sums
      <4>2. f[i + 1] \in Int
        BY <2>1, <3>2, Zenon
      <4>3. val[s] \in Int
        BY DEF SemVals
      <4> QED BY <4>1, <4>2, <4>3, Zenon
    <3>7. acc[i + 1].val[s] = acc[i].val[s] + f[i + 1]
      BY <3>4, <3>5, Zenon
    <3>8. acc[i].val[s] = val[s] + g[i]
      BY <3>2, <3>4, Zenon
    <3> HIDE DEF P, M
    <3> QED BY <3>6, <3>7, <3>8
  <2>6. n \in M
    <3> HIDE DEF M
    <3> QED BY <2>4, <2>5, SetInduction, Zenon
  <2> QED BY <1>4, <2>1, <2>3, <2>6
<1> QED BY <1>2, <1>3, <1>4, Zenon

\* Every operation has SEM_UNDO or has not.
LEMMA EffectSplit ==
    ASSUME NEW ops \in Seq(Sembuf), NEW s
    PROVE  Effect(ops, s, BOOLEAN) = Effect(ops, s, {TRUE}) + Effect(ops, s, {FALSE})
<1>1. PICK n : n = Len(ops)
  BY Zenon
<1>2. PICK a, b, c : /\ AddsList(a, n, ops, s, {TRUE})
                     /\ AddsList(b, n, ops, s, {FALSE})
                     /\ AddsList(c, n, ops, s, BOOLEAN)
  BY <1>1, Zenon DEF AddsList
<1>3. \A i \in 1 .. n : c[i] = a[i] + b[i]
  <2>1. ASSUME NEW i \in 1 .. n
        PROVE  Adds(ops[i], s, BOOLEAN) = Adds(ops[i], s, {TRUE}) + Adds(ops[i], s, {FALSE})
    <3>0. ops[i] \in Sembuf
      BY <1>1
    <3>1. ops[i].op \in Int /\ ops[i].undo \in BOOLEAN
      BY <3>0, Zenon DEF Sembuf
    <3>2. ops[i].undo = TRUE \/ ops[i].undo = FALSE
      BY <3>1, Zenon
    <3>3. CASE ops[i].undo = TRUE
      <4>1. ops[i].undo \in {TRUE} /\ ops[i].undo \notin {FALSE} /\ ops[i].undo \in BOOLEAN
        BY <3>3, Zenon
      <4>2. /\ Adds(ops[i], s, {TRUE}) = Adds(ops[i], s, BOOLEAN) /\ Adds(ops[i], s, {FALSE}) = 0
        BY <4>1, Zenon DEF Adds
      <4>3. Adds(ops[i], s, BOOLEAN) \in Int
        BY <3>1 DEF Adds
      <4> QED BY <4>2, <4>3
    <3>4. CASE ops[i].undo = FALSE
      <4>1. ops[i].undo \notin {TRUE} /\ ops[i].undo \in {FALSE} /\ ops[i].undo \in BOOLEAN
        BY <3>4, Zenon
      <4>2. /\ Adds(ops[i], s, {FALSE}) = Adds(ops[i], s, BOOLEAN) /\ Adds(ops[i], s, {TRUE}) = 0
        BY <4>1, Zenon DEF Adds
      <4>3. Adds(ops[i], s, BOOLEAN) \in Int
        BY <3>1 DEF Adds
      <4> QED BY <4>2, <4>3
    <3> QED BY <3>2, <3>3, <3>4, Zenon
  <2> QED BY <1>2, <2>1, Zenon DEF AddsList
<1>4. n \in Nat /\ a \in [1 .. n -> Int] /\ Effect(ops, s, {TRUE}) = Total(a, n)
  BY <1>2, EffectIs
<1>5. b \in [1 .. n -> Int] /\ Effect(ops, s, {FALSE}) = Total(b, n)
  BY <1>2, EffectIs
<1>6. c \in [1 .. n -> Int] /\ Effect(ops, s, BOOLEAN) = Total(c, n)
  BY <1>2, EffectIs
<1>7. Total(c, n) = Total(a, n) + Total(b, n)
  BY <1>3, <1>4, <1>5, <1>6, TotalPlus, Zenon
<1> QED BY <1>4, <1>5, <1>6, <1>7, Zenon

\* The effect of a batch with an operation at its end.
LEMMA EffectAppend ==
    ASSUME NEW ops \in Seq(Sembuf), NEW o \in Sembuf, NEW s, NEW flags
    PROVE  Effect(Append(ops, o), s, flags) = Effect(ops, s, flags) + Adds(o, s, flags)
<1>1. PICK n \in Nat : n = Len(ops)
  OBVIOUS
<1>2. PICK more : more = Append(ops, o)
  BY Zenon
<1>3. /\ more \in Seq(Sembuf) /\ Len(more) = n + 1 /\ more[n + 1] = o
      /\ \A i \in 1 .. n : more[i] = ops[i]
  BY <1>1, <1>2
<1>4. PICK f, h : AddsList(f, n, ops, s, flags) /\ AddsList(h, n + 1, more, s, flags)
  BY <1>1, <1>3, Zenon DEF AddsList
<1>5. f \in [1 .. n -> Int] /\ Effect(ops, s, flags) = Total(f, n)
  BY <1>4, EffectIs
<1>6. h \in [1 .. n + 1 -> Int] /\ Effect(more, s, flags) = Total(h, n + 1)
  BY <1>3, <1>4, EffectIs
<1>7. (\A i \in 1 .. n : h[i] = f[i]) /\ h[n + 1] = Adds(o, s, flags)
  BY <1>3, <1>4 DEF AddsList
<1>8. Total(h, n + 1) = Total(f, n) + h[n + 1]
  BY <1>5, <1>6, <1>7, TotalNext, Zenon
<1> QED BY <1>2, <1>5, <1>6, <1>7, <1>8, Zenon

\* An empty batch adds nothing.
LEMMA EffectEmpty ==
    ASSUME NEW s, NEW flags
    PROVE  Effect(<<>>, s, flags) = 0
<1>1. PICK e : e = <<>>
  BY Zenon
<1>2. e \in Seq(Sembuf) /\ Len(e) = 0
  BY <1>1
<1>3. PICK f : AddsList(f, 0, e, s, flags)
  BY <1>2, Zenon DEF AddsList
<1>4. f \in [1 .. 0 -> Int] /\ Effect(e, s, flags) = Total(f, 0)
  BY <1>2, <1>3, EffectIs, ZenonT(60)
<1>5. Total(f, 0) = 0
  <2>1. 0 \in Nat /\ \A i \in 1 .. 0 : f[i] = 0
    OBVIOUS
  <2> QED BY <1>4, <2>1, TotalZero, Zenon
<1> QED BY <1>1, <1>4, <1>5, Zenon

\* The batch of an exit gives back every adjustment of the entry, once.
LEMMA ExitEffect ==
    ASSUME NEW u \in [Sem -> Int]
    PROVE  /\ ExitBatch(u) \in Seq(Sembuf)
           /\ \A s \in Sem : Effect(ExitBatch(u), s, BOOLEAN) = u[s]
<1>0. NSems \in Nat
  BY SemAssumption, Zenon
<1> DEFINE op(i) == [sem |-> i - 1, op |-> u[i - 1], nowait |-> FALSE, undo |-> TRUE]
           S == {o \in Sembuf : o.op # 0}
<1>1. PICK all : all = [i \in 1 .. NSems |-> op(i)]
  BY Zenon
<1>2. \A i \in 1 .. NSems : i - 1 \in Sem /\ u[i - 1] \in Int
  BY <1>0 DEF Sem
<1>3. \A i \in 1 .. NSems : op(i) \in Sembuf
  BY <1>2, Zenon DEF Sembuf
<1>4. all \in Seq(Sembuf) /\ Len(all) = NSems /\ \A i \in 1 .. NSems : all[i] = op(i)
  <2> HIDE DEF op
  <2> QED BY <1>0, <1>1, <1>3
<1>5. PICK g : KeepsPrefixes(g, Sembuf, all, S) /\ Keep(all, S) = g[Len(all)]
  <2> HIDE DEF S
  <2> QED BY <1>4, KeepFun, Zenon
<1>6. ExitBatch(u) = g[NSems]
  BY <1>1, <1>4, <1>5, Zenon DEF ExitBatch
<1>7. /\ g \in [0 .. NSems -> Seq(Sembuf)] /\ g[0] = <<>>
      /\ \A i \in 1 .. NSems : g[i] = IF all[i] \in S THEN Append(g[i - 1], all[i]) ELSE g[i - 1]
  <2> HIDE DEF S
  <2> QED BY <1>4, <1>5, Zenon DEF KeepsPrefixes
<1>8. ASSUME NEW s \in Sem PROVE Effect(g[NSems], s, BOOLEAN) = u[s]
  <2> DEFINE P(i) == Effect(g[i], s, BOOLEAN) = IF s < i THEN u[s] ELSE 0
             M == {i \in Nat : i <= NSems => P(i)}
  <2>0. s \in Nat /\ s < NSems /\ u[s] \in Int
    BY <1>0 DEF Sem
  <2>1. 0 \in M
    <3>1. Effect(g[0], s, BOOLEAN) = 0
      BY <1>7, EffectEmpty, Zenon
    <3> QED BY <2>0, <3>1
  <2>2. ASSUME NEW i \in Nat, i \in M PROVE i + 1 \in M
    <3>1. SUFFICES ASSUME i + 1 <= NSems PROVE P(i + 1)
      OBVIOUS
    <3>2. P(i) /\ i \in 0 .. NSems /\ i + 1 \in 1 .. NSems /\ (i + 1) - 1 = i
      BY <1>0, <2>2, <3>1
    <3>3. g[i] \in Seq(Sembuf) /\ op(i + 1) \in Sembuf /\ all[i + 1] = op(i + 1)
      BY <1>3, <1>4, <1>7, <3>2, Zenon
    <3>4. Adds(op(i + 1), s, BOOLEAN) = IF i = s THEN u[i] ELSE 0
      BY <3>2, Zenon DEF Adds
    <3>5. Effect(g[i + 1], s, BOOLEAN) = Effect(g[i], s, BOOLEAN) + (IF i = s THEN u[i] ELSE 0)
      <4>1. CASE op(i + 1) \in S
        <5>1. g[i + 1] = Append(g[i], op(i + 1))
          <6> HIDE DEF S, op
          <6> QED BY <1>7, <3>2, <3>3, <4>1, Zenon
        <5>2. Effect(g[i + 1], s, BOOLEAN) = Effect(g[i], s, BOOLEAN) + Adds(op(i + 1), s, BOOLEAN)
          <6> HIDE DEF S, op
          <6> QED BY <3>3, <5>1, EffectAppend
        <5> QED BY <3>4, <5>2, Zenon
      <4>2. CASE op(i + 1) \notin S
        <5>1. g[i + 1] = g[i]
          <6> HIDE DEF S, op
          <6> QED BY <1>7, <3>2, <3>3, <4>2, Zenon
        <5>2. u[i] = 0
          <6>1. op(i + 1).op = 0
            BY <3>3, <4>2, Zenon
          <6> QED BY <3>2, <6>1, Zenon
        <5>3. Effect(g[i], s, BOOLEAN) \in Int
          BY <3>3, EffectType, Zenon
        <5> QED BY <5>1, <5>2, <5>3
      <4> QED BY <4>1, <4>2, Zenon
    <3>6. Effect(g[i], s, BOOLEAN) = IF s < i THEN u[s] ELSE 0
      BY <3>2, Zenon
    <3> HIDE DEF M, S, op
    <3> QED BY <2>0, <3>5, <3>6
  <2>3. NSems \in M
    <3> HIDE DEF M
    <3> QED BY <1>0, <2>1, <2>2, SetInduction, Zenon
  <2>4. P(NSems)
    BY <1>0, <2>3
  <2> QED BY <2>0, <2>4, Zenon
<1>9. g[NSems] \in Seq(Sembuf)
  BY <1>0, <1>7
<1> QED BY <1>6, <1>8, <1>9, Zenon

\* What try_apply returns: it changes the values only when it applies the
\* whole batch.
LEMMA TryFacts ==
    ASSUME semval \in SemVals, NEW ops \in Seq(Sembuf), NEW t, t = TryApply(ops)
    PROVE  /\ t.result \in Outcome /\ t.val \in SemVals /\ t.at \in Blocked
           /\ t.result # "applied" => t.val = semval
           /\ t.result = "applied" =>
                \A s \in Sem : t.val[s] = semval[s] + Effect(ops, s, BOOLEAN)
<1>1. PICK a : a = Tried(semval, ops)
  BY Zenon
<1>2. a \in Acc /\ (a.result = "applied" =>
                       \A s \in Sem : a.val[s] = semval[s] + Effect(ops, s, BOOLEAN))
  BY <1>1, TriedFacts, Zenon
<1>3. CASE removed
  <2>1. t = [result |-> "error", val |-> semval, at |-> NoBlock]
    BY <1>3, Zenon DEF TryApply
  <2> QED BY <2>1 DEF Outcome, Blocked, NoBlock
<1>4. CASE ~removed /\ a.result = "applied"
  <2>1. t = a
    BY <1>1, <1>4, Zenon DEF TryApply
  <2> QED BY <1>2, <1>4, <2>1, Zenon DEF Acc
<1>5. CASE ~removed /\ a.result # "applied"
  <2>1. t = [a EXCEPT !.val = semval]
    BY <1>1, <1>5, Zenon DEF TryApply
  <2>2. t.result = a.result /\ t.val = semval /\ t.at = a.at
    BY <1>2, <2>1, Zenon DEF Acc
  <2> QED BY <1>2, <1>5, <2>2, Zenon DEF Acc
<1> QED BY <1>3, <1>4, <1>5, Zenon

SemPc == {"user", "register", "prepare", "recheck", "switch", "leave", "fail", "retry",
          "record", "clear", "exit", "exit prepare", "exit recheck", "exit switch", "exit wake"}

SemTypes ==
    /\ semval \in SemVals
    /\ ncnt \in [Sem -> Int] /\ zcnt \in [Sem -> Int]
    /\ semstop \subseteq SemProc
    /\ spc \in [SemProc -> SemPc]
    /\ batch \in [SemProc -> Seq(Sembuf)]
    /\ registered \in [SemProc -> Blocked]
    /\ undo \in [SemProc -> [Sem -> Int]]
    /\ account \in [Sem -> Int]

\* The empty undo table is one.
LEMMA NoUndoType == NoUndo \in [Sem -> Int] /\ NoUndo \in SemVals /\ NoBlock \in Blocked
BY SemAssumption DEF NoUndo, SemVals, NoBlock, Blocked

\* record_undo keeps a table of adjustments.
LEMMA RecordedType ==
    ASSUME NEW u \in [Sem -> Int], NEW ops \in Seq(Sembuf)
    PROVE  Recorded(u, ops) \in [Sem -> Int]
<1>1. \A s \in Sem : Effect(ops, s, {TRUE}) \in Int
  BY EffectType, Zenon
<1> QED BY <1>1 DEF Recorded

\* Charging a batch to the account keeps the account.
LEMMA ChargeType ==
    ASSUME account \in [Sem -> Int], NEW ops \in Seq(Sembuf)
    PROVE  Charge(ops) \in [Sem -> Int]
<1>1. \A s \in Sem : Effect(ops, s, {FALSE}) \in Int
  BY EffectType, Zenon
<1> QED BY <1>1 DEF Charge

-----------------------------------------------------------------------------
(* Types *)

IsBumped(d, c, x, n) == d = [c EXCEPT ![x] = @ + n]

\* A count that goes up or down at one semaphore stays elsewhere.
LEMMA Bumped ==
    ASSUME NEW c \in [Sem -> Int], NEW x, NEW n \in Int, NEW d, IsBumped(d, c, x, n)
    PROVE  d \in [Sem -> Int] /\ \A s \in Sem : d[s] = c[s] + (IF s = x THEN n ELSE 0)
<1>1. DOMAIN d = Sem /\ d = [s \in Sem |-> d[s]]
  BY Zenon DEF IsBumped
<1>2. ASSUME NEW s \in Sem PROVE d[s] = c[s] + (IF s = x THEN n ELSE 0) /\ d[s] \in Int
  <2>1. CASE s = x
    <3>1. d[s] = c[s] + n
      BY <2>1, Zenon DEF IsBumped
    <3> QED BY <2>1, <3>1
  <2>2. CASE s # x
    <3>1. d[s] = c[s]
      BY <2>2, Zenon DEF IsBumped
    <3> QED BY <2>2, <3>1
  <2> QED BY <2>1, <2>2, Zenon
<1> QED BY <1>1, <1>2, Zenon

\* register_blocked and unregister_blocked count at one semaphore.
LEMMA CountFacts ==
    ASSUME ncnt \in [Sem -> Int], zcnt \in [Sem -> Int], NEW at \in Blocked, NEW n \in Int,
           CountBlocked(at, n)
    PROVE  /\ ncnt' \in [Sem -> Int] /\ zcnt' \in [Sem -> Int]
           /\ \A s \in Sem :
                /\ ncnt'[s] = ncnt[s] + (IF at = [sem |-> s, kind |-> "increment"] THEN n ELSE 0)
                /\ zcnt'[s] = zcnt[s] + (IF at = [sem |-> s, kind |-> "zero"] THEN n ELSE 0)
<1>0. \A s, k : at = [sem |-> s, kind |-> k] <=> (at.sem = s /\ at.kind = k)
  BY DEF Blocked
<1>1. ncnt' \in [Sem -> Int]
      /\ \A s \in Sem : ncnt'[s] = ncnt[s] + (IF at = [sem |-> s, kind |-> "increment"] THEN n ELSE 0)
  <2>1. CASE at.kind = "increment"
    <3>1. ncnt' = [ncnt EXCEPT ![at.sem] = @ + n]
      BY <2>1, Zenon DEF CountBlocked
    <3>2. ncnt' \in [Sem -> Int] /\ \A s \in Sem : ncnt'[s] = ncnt[s] + (IF s = at.sem THEN n ELSE 0)
      <4>1. PICK c, x, d : c \in [Sem -> Int] /\ c = ncnt /\ x = at.sem /\ d = ncnt'
        BY Zenon
      <4>2. IsBumped(d, c, x, n)
        BY <3>1, <4>1, Zenon DEF IsBumped
      <4>3. d \in [Sem -> Int] /\ \A s \in Sem : d[s] = c[s] + (IF s = x THEN n ELSE 0)
        BY <4>1, <4>2, Bumped
      <4> QED BY <4>1, <4>3, Zenon
    <3> QED BY <1>0, <2>1, <3>2
  <2>2. CASE at.kind # "increment"
    BY <1>0, <2>2 DEF CountBlocked
  <2> QED BY <2>1, <2>2, Zenon
<1>2. zcnt' \in [Sem -> Int]
      /\ \A s \in Sem : zcnt'[s] = zcnt[s] + (IF at = [sem |-> s, kind |-> "zero"] THEN n ELSE 0)
  <2>1. CASE at.kind = "zero"
    <3>1. zcnt' = [zcnt EXCEPT ![at.sem] = @ + n]
      BY <2>1, Zenon DEF CountBlocked
    <3>2. zcnt' \in [Sem -> Int] /\ \A s \in Sem : zcnt'[s] = zcnt[s] + (IF s = at.sem THEN n ELSE 0)
      <4>1. PICK c, x, d : c \in [Sem -> Int] /\ c = zcnt /\ x = at.sem /\ d = zcnt'
        BY Zenon
      <4>2. IsBumped(d, c, x, n)
        BY <3>1, <4>1, Zenon DEF IsBumped
      <4>3. d \in [Sem -> Int] /\ \A s \in Sem : d[s] = c[s] + (IF s = x THEN n ELSE 0)
        BY <4>1, <4>2, Bumped
      <4> QED BY <4>1, <4>3, Zenon
    <3> QED BY <1>0, <2>1, <3>2
  <2>2. CASE at.kind # "zero"
    BY <1>0, <2>2 DEF CountBlocked
  <2> QED BY <2>1, <2>2, Zenon
<1> QED BY <1>1, <1>2, Zenon

\* An attempt of a batch keeps the types.
LEMMA TryOnceTypes ==
    ASSUME SemTypes, NEW p \in SemProc, NEW ops \in Seq(Sembuf), TryOnce(p, ops)
    PROVE  SemTypes'
<1>1. PICK t : t = TryApply(ops)
  BY Zenon
<1>2. t.result \in Outcome /\ t.val \in SemVals /\ t.at \in Blocked
  BY <1>1, TryFacts, Zenon DEF SemTypes
<1>3. /\ semval' = t.val
      /\ batch' = [batch EXCEPT ![p] = IF t.result = "error" THEN <<>> ELSE ops]
      /\ registered' = [registered EXCEPT ![p] = t.at]
      /\ account' = IF t.result = "applied" THEN Charge(ops) ELSE account
      /\ semstop' = IF t.result = "error" THEN semstop \ {p} ELSE semstop
      /\ SemGoto(p, CASE t.result = "applied" -> "record"
                      [] t.result = "block" -> "register"
                      [] t.result = "error" -> "user")
      /\ UNCHANGED <<ncnt, zcnt, undo>>
  BY <1>1, Zenon DEF TryOnce
<1>4. batch' \in [SemProc -> Seq(Sembuf)]
  BY <1>3 DEF SemTypes
<1>5. registered' \in [SemProc -> Blocked]
  BY <1>2, <1>3, Zenon DEF SemTypes
<1>6. account' \in [Sem -> Int]
  BY <1>3, ChargeType, Zenon DEF SemTypes
<1>7. spc' \in [SemProc -> SemPc]
  BY <1>2, <1>3, Zenon DEF SemTypes, SemGoto, SemPc, Outcome
<1> QED BY <1>2, <1>3, <1>4, <1>5, <1>6, <1>7, Zenon DEF SemTypes

\* Every step keeps the types.
LEMMA SemTypesStep ==
    ASSUME SemTypes, [SemNext]_semVars
    PROVE  SemTypes'
<1>1. CASE UNCHANGED semVars
  BY <1>1, Zenon DEF semVars, SemTypes
<1>2. CASE SemGet
  <2>1. undo' \in [SemProc -> [Sem -> Int]]
    BY <1>2, NoUndoType, Zenon DEF SemGet
  <2>2. semval' \in SemVals /\ account' \in [Sem -> Int] /\ ncnt' \in [Sem -> Int] /\ zcnt' \in [Sem -> Int]
    BY <1>2, NoUndoType, Zenon DEF SemGet
  <2>3. UNCHANGED <<semstop, spc, batch, registered>>
    BY <1>2, Zenon DEF SemGet
  <2> QED BY <2>1, <2>2, <2>3, Zenon DEF SemTypes
<1>3. ASSUME NEW p \in SemProc, SemStep(p) PROVE SemTypes'
  <2>0. <<>> \in Seq(Sembuf) /\ batch[p] \in Seq(Sembuf) /\ undo[p] \in [Sem -> Int] /\ spc[p] \in SemPc
    BY DEF SemTypes
  <2>1. CASE SemOp(p)
    <3>1. PICK ops \in Batches : TryOnce(p, ops)
      BY <2>1, Zenon DEF SemOp
    <3>2. ops \in Seq(Sembuf)
      BY SemAssumption, Zenon
    <3> QED BY <3>1, <3>2, TryOnceTypes, Zenon
  <2>2. CASE RetryOp(p)
    <3>1. TryOnce(p, batch[p])
      BY <2>2, Zenon DEF RetryOp
    <3>2. PICK ops : ops = batch[p]
      BY Zenon
    <3> QED BY <2>0, <3>1, <3>2, TryOnceTypes, Zenon
  <2>3. CASE Register(p)
    <3>1. registered' \in [SemProc -> Blocked]
      BY <2>3, NoUndoType, Zenon DEF Register, SemTypes
    <3>2. batch' \in [SemProc -> Seq(Sembuf)]
      BY <2>0, <2>3, Zenon DEF Register, SemTypes
    <3>3. spc' \in [SemProc -> SemPc]
      BY <2>3, Zenon DEF Register, SemTypes, SemGoto, SemPc
    <3>4. ncnt' \in [Sem -> Int] /\ zcnt' \in [Sem -> Int]
      <4>1. UNCHANGED <<ncnt, zcnt>> \/ CountBlocked(registered[p], 1)
        BY <2>3, Zenon DEF Register
      <4>2. PICK at \in Blocked : at = registered[p]
        BY Zenon DEF SemTypes
      <4> QED BY <4>1, <4>2, CountFacts, SMTT(30) DEF SemTypes
    <3>5. UNCHANGED <<semval, undo, account>> /\ semstop' \subseteq SemProc
      BY <2>3, Zenon DEF Register, SemTypes
    <3> QED BY <3>1, <3>2, <3>3, <3>4, <3>5, Zenon DEF SemTypes
  <2>4. CASE PrepareWait(p)
    <3>1. spc' \in [SemProc -> SemPc]
      BY <2>4, Zenon DEF PrepareWait, SemTypes, SemGoto, SemPc
    <3> QED BY <2>4, <3>1, Zenon DEF PrepareWait, SemTypes
  <2>5. CASE RecheckOp(p)
    <3>1. PICK t, ops : t = TryApply(ops) /\ ops = batch[p]
      BY Zenon
    <3>2. t.result \in Outcome /\ t.val \in SemVals
      BY <2>0, <3>1, TryFacts, Zenon DEF SemTypes
    <3>3. semval' = t.val /\ account' = IF t.result = "applied" THEN Charge(ops) ELSE account
      BY <2>5, <3>1, Zenon DEF RecheckOp
    <3>4. spc' \in [SemProc -> SemPc]
      <4>1. SemGoto(p, CASE t.result = "applied" -> "leave"
                        [] t.result = "error" -> "fail"
                        [] t.result = "block" -> IF p \in semstop THEN "fail" ELSE "switch")
        BY <2>5, <3>1, Zenon DEF RecheckOp
      <4> QED BY <3>2, <4>1, Zenon DEF SemTypes, SemGoto, SemPc, Outcome
    <3>5. account' \in [Sem -> Int]
      BY <2>0, <3>1, <3>3, ChargeType, Zenon DEF SemTypes
    <3>6. UNCHANGED <<ncnt, zcnt, semstop, batch, registered, undo>>
      BY <2>5, Zenon DEF RecheckOp
    <3> QED BY <3>2, <3>3, <3>4, <3>5, <3>6, Zenon DEF SemTypes
  <2>6. CASE LeaveWait(p)
    <3>1. registered' \in [SemProc -> Blocked]
      BY <2>6, NoUndoType, Zenon DEF LeaveWait, SemTypes
    <3>2. batch' \in [SemProc -> Seq(Sembuf)]
      BY <2>0, <2>6, Zenon DEF LeaveWait, SemTypes
    <3>3. spc' \in [SemProc -> SemPc]
      <4>1. \E l \in SemPc : SemGoto(p, l)
        BY <2>6, Zenon DEF LeaveWait, SemPc
      <4> QED BY <4>1, Zenon DEF SemTypes, SemGoto
    <3>4. ncnt' \in [Sem -> Int] /\ zcnt' \in [Sem -> Int]
      <4>1. CountBlocked(registered[p], -1)
        BY <2>6, Zenon DEF LeaveWait
      <4>2. PICK at \in Blocked : at = registered[p]
        BY Zenon DEF SemTypes
      <4>3. -1 \in Int
        OBVIOUS
      <4> QED BY <4>1, <4>2, <4>3, CountFacts, Zenon DEF SemTypes
    <3>5. UNCHANGED <<semval, undo, account>> /\ semstop' \subseteq SemProc
      BY <2>6, Zenon DEF LeaveWait, SemTypes
    <3> QED BY <3>1, <3>2, <3>3, <3>4, <3>5, Zenon DEF SemTypes
  <2>7. CASE RecordAndWake(p)
    <3>1. undo' \in [SemProc -> [Sem -> Int]]
      <4>1. Recorded(undo[p], batch[p]) \in [Sem -> Int]
        BY <2>0, RecordedType, Zenon
      <4> QED BY <2>7, <4>1, Zenon DEF RecordAndWake, SemTypes
    <3>2. batch' \in [SemProc -> Seq(Sembuf)]
      BY <2>0, <2>7, Zenon DEF RecordAndWake, SemTypes
    <3>3. spc' \in [SemProc -> SemPc]
      BY <2>7, Zenon DEF RecordAndWake, SemTypes, SemGoto, SemPc
    <3>4. UNCHANGED <<semval, ncnt, zcnt, registered, account>> /\ semstop' \subseteq SemProc
      BY <2>7, Zenon DEF RecordAndWake, SemTypes
    <3> QED BY <3>1, <3>2, <3>3, <3>4, Zenon DEF SemTypes
  <2>8. CASE InterruptOp(p)
    BY <2>8, Zenon DEF InterruptOp, SemTypes
  <2>9. CASE SetVal(p)
    <3>0. PICK written : \E v \in [written -> SetValues] :
             /\ semval' = [s \in Sem |-> IF s \in written THEN v[s] ELSE semval[s]]
             /\ account' = [s \in Sem |-> account[s] + semval'[s] - semval[s]]
      BY <2>9, Zenon DEF SetVal
    <3>1. PICK v \in [written -> SetValues] :
             /\ semval' = [s \in Sem |-> IF s \in written THEN v[s] ELSE semval[s]]
             /\ account' = [s \in Sem |-> account[s] + semval'[s] - semval[s]]
      BY <3>0, Zenon
    <3>2. semval' \in SemVals
      BY <3>1, SemAssumption, Zenon DEF SemTypes, SemVals
    <3>3. account' \in [Sem -> Int]
      BY <3>1, <3>2 DEF SemTypes, SemVals
    <3>4. spc' \in [SemProc -> SemPc]
      BY <2>9, Zenon DEF SetVal, SemTypes, SemGoto, SemPc
    <3>5. UNCHANGED <<ncnt, zcnt, semstop, batch, registered, undo>>
      BY <2>9, Zenon DEF SetVal
    <3> QED BY <3>2, <3>3, <3>4, <3>5, Zenon DEF SemTypes
  <2>10. CASE RemoveSet(p)
    <3>1. spc' \in [SemProc -> SemPc]
      BY <2>10, Zenon DEF RemoveSet, SemTypes, SemGoto, SemPc
    <3> QED BY <2>10, <3>1, Zenon DEF RemoveSet, SemTypes
  <2>11. CASE ClearAndWake(p)
    <3>1. undo' \in [SemProc -> [Sem -> Int]]
      BY <2>11, NoUndoType, Zenon DEF ClearAndWake, SemTypes
    <3>2. account' \in [Sem -> Int]
      BY <2>0, <2>11 DEF ClearAndWake, SemTypes
    <3>3. spc' \in [SemProc -> SemPc]
      BY <2>11, Zenon DEF ClearAndWake, SemTypes, SemGoto, SemPc
    <3>4. UNCHANGED <<semval, ncnt, zcnt, semstop, batch, registered>>
      BY <2>11, Zenon DEF ClearAndWake
    <3> QED BY <3>1, <3>2, <3>3, <3>4, Zenon DEF SemTypes
  <2>12. CASE ExitTake(p)
    <3>1. undo' \in [SemProc -> [Sem -> Int]]
      BY <2>12, NoUndoType, Zenon DEF ExitTake, SemTypes
    <3>2. account' \in [Sem -> Int]
      BY <2>0, <2>12 DEF ExitTake, SemTypes
    <3>3. spc' \in [SemProc -> SemPc]
      BY <2>12, Zenon DEF ExitTake, SemTypes, SemGoto, SemPc
    <3>4. batch' \in [SemProc -> Seq(Sembuf)]
      <4>1. ExitBatch(undo[p]) \in Seq(Sembuf)
        BY <2>0, ExitEffect, Zenon
      <4> QED BY <2>12, <4>1, Zenon DEF ExitTake, SemTypes
    <3>5. UNCHANGED <<semval, ncnt, zcnt, semstop, registered>>
      BY <2>12, Zenon DEF ExitTake
    <3> QED BY <3>1, <3>2, <3>3, <3>4, <3>5, Zenon DEF SemTypes
  <2>13. CASE ExitTry(p)
    <3>1. PICK t, ops : t = TryApply(ops) /\ ops = batch[p]
      BY Zenon
    <3>2. t.val \in SemVals
      BY <2>0, <3>1, TryFacts, Zenon DEF SemTypes
    <3>3. semval' = t.val
      BY <2>13, <3>1, Zenon DEF ExitTry
    <3>4. spc' \in [SemProc -> SemPc]
      <4>1. \E l \in SemPc : SemGoto(p, l)
        BY <2>13, Zenon DEF ExitTry, SemPc
      <4> QED BY <4>1, Zenon DEF SemTypes, SemGoto
    <3>5. account' \in [Sem -> Int]
      <4>1. \A s \in Sem : Effect(batch[p], s, BOOLEAN) \in Int
        BY <2>0, EffectType, Zenon
      <4>2. [s \in Sem |-> account[s] - Effect(batch[p], s, BOOLEAN)] \in [Sem -> Int]
        BY <4>1 DEF SemTypes
      <4>3. account' = [s \in Sem |-> account[s] - Effect(batch[p], s, BOOLEAN)] \/ account' = account
        BY <2>13, Zenon DEF ExitTry
      <4> QED BY <4>2, <4>3, Zenon DEF SemTypes
    <3>6. UNCHANGED <<ncnt, zcnt, semstop, batch, registered, undo>>
      BY <2>13, Zenon DEF ExitTry
    <3> QED BY <3>2, <3>3, <3>4, <3>5, <3>6, Zenon DEF SemTypes
  <2>14. CASE ExitResume(p)
    <3>1. spc' \in [SemProc -> SemPc]
      BY <2>14, Zenon DEF ExitResume, SemTypes, SemGoto, SemPc
    <3> QED BY <2>14, <3>1, Zenon DEF ExitResume, SemTypes
  <2>15. CASE ExitWake(p)
    <3>1. spc' \in [SemProc -> SemPc]
      BY <2>15, Zenon DEF ExitWake, SemTypes, SemGoto, SemPc
    <3>2. batch' \in [SemProc -> Seq(Sembuf)]
      BY <2>0, <2>15, Zenon DEF ExitWake, SemTypes
    <3> QED BY <2>15, <3>1, <3>2, Zenon DEF ExitWake, SemTypes
  <2> QED BY <1>3, <2>1, <2>2, <2>3, <2>4, <2>5, <2>6, <2>7, <2>8, <2>9, <2>10, <2>11, <2>12,
             <2>13, <2>14, <2>15, Zenon DEF SemStep
<1> QED BY <1>1, <1>2, <1>3, Zenon DEF SemNext

-----------------------------------------------------------------------------
(* Wake-ups *)

InWait == {"recheck", "switch", "leave", "fail", "exit recheck", "exit switch"}

\* Who sleeps is in the queue, so wake_all reaches it, and who is in the queue
\* is in a wait.
SemQueues ==
    /\ semasleep \subseteq semq /\ semq \subseteq SemProc
    /\ \A p \in semq : spc[p] \in InWait

\* A step of p that takes nobody else in or out of the queue.
LEMMA QueuesKeep ==
    ASSUME SemTypes, SemQueues, NEW p \in SemProc, NEW l, SemGoto(p, l),
           \/ (semq' = semq \ {p} /\ semasleep' = semasleep \ {p})
           \/ (semq' = semq \ {p} /\ semasleep' = semasleep /\ p \notin semasleep)
           \/ (semq' = {} /\ semasleep' = semasleep \ semq)
           \/ (semq' = semq /\ semasleep' = semasleep /\ (p \notin semq \/ l \in InWait))
           \/ (semq' = semq \cup {p} /\ semasleep' = semasleep \cup {p} /\ l \in InWait)
    PROVE  SemQueues'
<1>1. \A q \in SemProc : spc'[q] = IF q = p THEN l ELSE spc[q]
  BY Zenon DEF SemTypes, SemGoto
<1> QED BY <1>1, Zenon DEF SemQueues

\* Whoever is in the wait queue, or asleep, is in a wait.
LEMMA SemQueuesStep ==
    ASSUME SemTypes, SemQueues, [SemNext]_semVars
    PROVE  SemQueues'
<1>0. ASSUME NEW p \in SemProc, spc[p] \notin InWait PROVE p \notin semq
  BY <1>0, Zenon DEF SemQueues
<1>1. CASE UNCHANGED semVars
  BY <1>1, Zenon DEF semVars, SemQueues
<1>2. CASE SemGet
  BY <1>2, Zenon DEF SemGet, SemQueues
<1>3. ASSUME NEW p \in SemProc, SemStep(p) PROVE SemQueues'
  <2>1. ASSUME NEW ops, TryOnce(p, ops), spc[p] \in {"user", "retry"} PROVE SemQueues'
    <3>1. PICK l : SemGoto(p, l) /\ UNCHANGED <<semq, semasleep>>
      BY <2>1, Zenon DEF TryOnce
    <3>2. p \notin semq
      BY <1>0, <2>1, Zenon DEF InWait
    <3> QED BY <3>1, <3>2, QueuesKeep, Zenon
  <2>2. CASE SemOp(p)
    BY <2>1, <2>2, Zenon DEF SemOp
  <2>3. CASE RetryOp(p)
    BY <2>1, <2>3, Zenon DEF RetryOp
  <2>4. CASE Register(p)
    <3>1. PICK l : SemGoto(p, l) /\ UNCHANGED <<semq, semasleep>>
      BY <2>4, Zenon DEF Register
    <3>2. p \notin semq
      BY <1>0, <2>4, Zenon DEF InWait, Register
    <3> QED BY <3>1, <3>2, QueuesKeep, Zenon
  <2>5. CASE PrepareWait(p)
    <3>1. PICK l \in InWait : SemGoto(p, l)
      BY <2>5, Zenon DEF PrepareWait, InWait
    <3>2. semq' = semq \cup {p} /\ semasleep' = semasleep \cup {p}
      BY <2>5, Zenon DEF PrepareWait
    <3> QED BY <3>1, <3>2, QueuesKeep, Zenon
  <2>6. CASE RecheckOp(p)
    <3>1. PICK ops, t : ops = batch[p] /\ t = TryApply(ops)
      BY Zenon
    <3>2. t.result \in Outcome
      BY <3>1, TryFacts, Zenon DEF SemTypes
    <3>3. SemGoto(p, CASE t.result = "applied" -> "leave"
                       [] t.result = "error" -> "fail"
                       [] t.result = "block" -> IF p \in semstop THEN "fail" ELSE "switch")
      BY <2>6, <3>1, Zenon DEF RecheckOp
    <3>4. PICK l \in InWait : SemGoto(p, l)
      BY <3>2, <3>3, Zenon DEF InWait, Outcome
    <3>5. UNCHANGED <<semq, semasleep>>
      BY <2>6, Zenon DEF RecheckOp
    <3> QED BY <3>4, <3>5, QueuesKeep, Zenon
  <2>7. CASE LeaveWait(p)
    <3>1. PICK l : SemGoto(p, l)
      BY <2>7, Zenon DEF LeaveWait
    <3>2. semq' = semq \ {p} /\ semasleep' = semasleep \ {p}
      BY <2>7, Zenon DEF LeaveWait
    <3> QED BY <3>1, <3>2, QueuesKeep, Zenon
  <2>8. CASE RecordAndWake(p) \/ ClearAndWake(p) \/ ExitWake(p)
    <3>1. SemGoto(p, "user") /\ semq' = {} /\ semasleep' = semasleep \ semq
      BY <2>8, Zenon DEF RecordAndWake, ClearAndWake, ExitWake
    <3> QED BY <3>1, QueuesKeep, Zenon
  <2>9. CASE InterruptOp(p)
    BY <2>9, Zenon DEF InterruptOp, SemQueues
  <2>10. CASE SetVal(p) \/ RemoveSet(p)
    <3>1. SemGoto(p, "clear") /\ UNCHANGED <<semq, semasleep>> /\ spc[p] = "user"
      BY <2>10, Zenon DEF SetVal, RemoveSet
    <3>2. p \notin semq
      BY <1>0, <3>1, Zenon DEF InWait
    <3> QED BY <3>1, <3>2, QueuesKeep, Zenon
  <2>11. CASE ExitTake(p)
    <3>1. spc[p] = "user" /\ UNCHANGED <<semq, semasleep>> /\ (spc' = spc \/ SemGoto(p, "exit"))
      BY <2>11, Zenon DEF ExitTake
    <3>2. p \notin semq
      BY <1>0, <3>1, Zenon DEF InWait
    <3>3. CASE spc' = spc
      BY <3>1, <3>3, Zenon DEF SemQueues
    <3> QED BY <3>1, <3>2, <3>3, QueuesKeep, Zenon
  <2>12. CASE ExitTry(p)
    <3>1. PICK try : try = TryApply(batch[p])
      BY Zenon
    <3> DEFINE done == try.result = "applied" \/ (try.result = "error" /\ spc[p] = "exit")
    <3>2. /\ spc[p] \in {"exit", "exit recheck"}
          /\ SemGoto(p, CASE done -> "exit wake"
                          [] ~done /\ spc[p] = "exit" -> "exit prepare"
                          [] ~done /\ spc[p] = "exit recheck" -> "exit switch")
          /\ semq' = IF done THEN semq \ {p} ELSE semq
          /\ semasleep' = IF done THEN semasleep \ {p} ELSE semasleep
      BY <2>12, <3>1, Zenon DEF ExitTry
    <3>3. CASE done
      <4>1. SemGoto(p, "exit wake") /\ semq' = semq \ {p} /\ semasleep' = semasleep \ {p}
        BY <3>2, <3>3, Zenon
      <4> QED BY <4>1, QueuesKeep, Zenon
    <3>4. CASE ~done /\ spc[p] = "exit"
      <4>1. SemGoto(p, "exit prepare") /\ semq' = semq /\ semasleep' = semasleep
        BY <3>2, <3>4, Zenon
      <4>2. p \notin semq
        BY <1>0, <3>4, Zenon DEF InWait
      <4> QED BY <4>1, <4>2, QueuesKeep, Zenon
    <3>5. CASE ~done /\ spc[p] = "exit recheck"
      <4>1. SemGoto(p, "exit switch") /\ semq' = semq /\ semasleep' = semasleep
        BY <3>2, <3>5, Zenon
      <4>2. "exit switch" \in InWait
        BY Zenon DEF InWait
      <4> QED BY <4>1, <4>2, QueuesKeep, Zenon
    <3> QED BY <3>2, <3>3, <3>4, <3>5, Zenon
  <2>13. CASE ExitResume(p)
    <3>1. SemGoto(p, "exit") /\ semq' = semq \ {p} /\ semasleep' = semasleep /\ p \notin semasleep
      BY <2>13, Zenon DEF ExitResume
    <3> QED BY <3>1, QueuesKeep, Zenon
  <2> QED BY <1>3, <2>2, <2>3, <2>4, <2>5, <2>6, <2>7, <2>8, <2>9, <2>10, <2>11, <2>12, <2>13, Zenon DEF SemStep
<1> QED BY <1>1, <1>2, <1>3, Zenon DEF SemNext

\* The processes that are on their way to wake_all.
WakesComing == {"leave", "record", "clear", "exit wake"}

\* p is blocked, or has met EIDRM at the recheck of its exit.
Stuck(p) ==
    \/ TryApply(batch[p]).result = "block"
    \/ (spc[p] = "exit switch" /\ TryApply(batch[p]).result = "error")

\* NoLostSemWakeup in terms of who is stuck.
LEMMA NoLostIs ==
    NoLostSemWakeup <=>
        \A p \in semasleep : spc[p] \in {"switch", "exit switch"} =>
            Stuck(p) \/ \E q \in SemProc : spc[q] \in WakesComing
BY Zenon DEF NoLostSemWakeup, Stuck, WakesComing
\* The same after a step.
LEMMA NoLostIsNext ==
    NoLostSemWakeup' <=>
        \A p \in semasleep' : spc'[p] \in {"switch", "exit switch"} =>
            Stuck(p)' \/ \E q \in SemProc : spc'[q] \in WakesComing
BY Zenon DEF NoLostSemWakeup, Stuck, WakesComing

\* A step of p that changes neither the values nor the batch of another process.
LEMMA NoLostKeeps ==
    ASSUME SemQueues, NoLostSemWakeup, NEW p \in SemProc, spc[p] \notin WakesComing,
           semval' = semval, removed' = removed,
           \A q \in SemProc \ {p} : spc'[q] = spc[q] /\ batch'[q] = batch[q],
           semasleep' \subseteq semasleep \cup {p},
           p \in semasleep' => (spc'[p] \notin {"switch", "exit switch"} \/ Stuck(p)')
    PROVE  NoLostSemWakeup'
<1> SUFFICES ASSUME NEW q \in semasleep', spc'[q] \in {"switch", "exit switch"}
             PROVE  Stuck(q)' \/ \E r \in SemProc : spc'[r] \in WakesComing
  BY NoLostIsNext, Zenon
<1>1. CASE q = p
  BY <1>1, Zenon
<1>2. CASE q # p
  <2>1. q \in semasleep /\ q \in SemProc \ {p}
    BY <1>2, Zenon DEF SemQueues
  <2>2. spc'[q] = spc[q] /\ batch'[q] = batch[q]
    BY <2>1, Zenon
  <2>3. Stuck(q) \/ \E r \in SemProc : spc[r] \in WakesComing
    BY <2>1, <2>2, NoLostIs, Zenon
  <2>4. CASE Stuck(q)
    <3>1. Stuck(q)'
      BY <2>2, <2>4, Zenon DEF Stuck, TryApply
    <3> QED BY <3>1, Zenon
  <2>5. CASE \E r \in SemProc : spc[r] \in WakesComing
    <3>1. PICK r \in SemProc : spc[r] \in WakesComing
      BY <2>5, Zenon
    <3>2. r # p
      BY <3>1, Zenon
    <3>3. spc'[r] = spc[r]
      BY <3>2, Zenon
    <3> QED BY <3>1, <3>3, Zenon
  <2> QED BY <2>3, <2>4, <2>5, Zenon
<1> QED BY <1>1, <1>2, Zenon

\* What a step of p leaves to the others.
LEMMA GotoOthers ==
    ASSUME SemTypes, NEW p \in SemProc, NEW l, SemGoto(p, l)
    PROVE  spc'[p] = l /\ \A q \in SemProc \ {p} : spc'[q] = spc[q]
BY Zenon DEF SemTypes, SemGoto

\* A process that is left on its way to wake_all excuses every sleeper.
LEMMA NoLostComing ==
    ASSUME NEW p \in SemProc, spc'[p] \in WakesComing
    PROVE  NoLostSemWakeup'
BY NoLostIsNext, Zenon

\* No step strands a sleeper whose batch could be applied.
LEMMA NoLostStep ==
    ASSUME SemTypes, SemQueues, NoLostSemWakeup, [SemNext]_semVars
    PROVE  NoLostSemWakeup'
<1>1. CASE UNCHANGED semVars
  <2>1. UNCHANGED <<semval, removed, semasleep, spc, batch>>
    BY <1>1, Zenon DEF semVars
  <2>2. \A q : Stuck(q)' <=> Stuck(q)
    BY <2>1, Zenon DEF Stuck, TryApply
  <2> QED BY <2>1, <2>2, NoLostIs, NoLostIsNext, Zenon
<1>2. CASE SemGet
  <2>1. semasleep' = semasleep /\ spc' = spc /\ \A q \in SemProc : spc[q] = "user"
    BY <1>2, Zenon DEF SemGet
  <2>2. semasleep \subseteq SemProc
    BY Zenon DEF SemQueues
  <2> QED BY <2>1, <2>2, NoLostIsNext, Zenon
<1>3. ASSUME NEW p \in SemProc, SemStep(p) PROVE NoLostSemWakeup'
  <2>0. batch[p] \in Seq(Sembuf) /\ semval \in SemVals
    BY Zenon DEF SemTypes
  <2>1. ASSUME NEW ops \in Seq(Sembuf), TryOnce(p, ops), spc[p] \in {"user", "retry"} PROVE NoLostSemWakeup'
    <3>1. PICK t : t = TryApply(ops)
      BY Zenon
    <3>2. t.result \in Outcome /\ (t.result # "applied" => t.val = semval)
      BY <2>0, <3>1, TryFacts, Zenon
    <3>3. /\ semval' = t.val /\ UNCHANGED <<removed, semasleep>>
          /\ batch' = [batch EXCEPT ![p] = IF t.result = "error" THEN <<>> ELSE ops]
          /\ SemGoto(p, CASE t.result = "applied" -> "record"
                          [] t.result = "block" -> "register"
                          [] t.result = "error" -> "user")
      BY <2>1, <3>1, Zenon DEF TryOnce
    <3>4. CASE t.result = "applied"
      <4>1. SemGoto(p, "record")
        BY <3>3, <3>4, Zenon
      <4>2. spc'[p] \in WakesComing
        BY <4>1, GotoOthers, Zenon DEF WakesComing
      <4> QED BY <4>2, NoLostComing, Zenon
    <3>5. CASE t.result # "applied"
      <4>1. PICK l \in {"register", "user"} : SemGoto(p, l)
        BY <3>2, <3>3, <3>5, Zenon DEF Outcome
      <4>2. spc'[p] = l /\ \A q \in SemProc \ {p} : spc'[q] = spc[q]
        BY <4>1, GotoOthers, Zenon
      <4>3. \A q \in SemProc \ {p} : batch'[q] = batch[q]
        BY <3>3, Zenon DEF SemTypes
      <4>4. semval' = semval /\ removed' = removed /\ semasleep' \subseteq semasleep \cup {p}
        BY <3>2, <3>3, <3>5, Zenon
      <4>5. spc[p] \notin WakesComing
        BY <2>1, Zenon DEF WakesComing
      <4> QED BY <4>2, <4>3, <4>4, <4>5, NoLostKeeps, Zenon
    <3> QED BY <3>4, <3>5, Zenon
  <2>2. CASE SemOp(p)
    <3>1. PICK ops \in Batches : TryOnce(p, ops)
      BY <2>2, Zenon DEF SemOp
    <3>2. ops \in Seq(Sembuf) /\ spc[p] = "user"
      BY <2>2, SemAssumption, Zenon DEF SemOp
    <3> QED BY <2>1, <3>1, <3>2, Zenon
  <2>3. CASE RetryOp(p)
    BY <2>0, <2>1, <2>3, Zenon DEF RetryOp
  <2>4. CASE Register(p)
    <3>1. PICK l \in {"user", "fail", "prepare"} : SemGoto(p, l)
      BY <2>4, Zenon DEF Register
    <3>2. spc'[p] = l /\ \A q \in SemProc \ {p} : spc'[q] = spc[q]
      BY <3>1, GotoOthers, Zenon
    <3>3. \A q \in SemProc \ {p} : batch'[q] = batch[q]
      BY <2>4, Zenon DEF Register, SemTypes
    <3>4. semval' = semval /\ removed' = removed /\ semasleep' = semasleep /\ spc[p] \notin WakesComing
      BY <2>4, Zenon DEF Register, WakesComing
    <3> QED BY <3>2, <3>3, <3>4, NoLostKeeps, Zenon
  <2>5. CASE PrepareWait(p)
    <3>1. PICK l \in {"recheck", "exit recheck"} : SemGoto(p, l)
      BY <2>5, Zenon DEF PrepareWait
    <3>2. spc'[p] = l /\ \A q \in SemProc \ {p} : spc'[q] = spc[q]
      BY <3>1, GotoOthers, Zenon
    <3>3. /\ semval' = semval /\ removed' = removed /\ semasleep' = semasleep \cup {p} /\ batch' = batch
          /\ spc[p] \notin WakesComing
      BY <2>5, Zenon DEF PrepareWait, WakesComing
    <3> QED BY <3>2, <3>3, NoLostKeeps, Zenon
  <2>6. CASE RecheckOp(p)
    <3>1. PICK ops \in Seq(Sembuf) : ops = batch[p]
      BY <2>0, Zenon
    <3>2. PICK t : t = TryApply(ops)
      BY Zenon
    <3>3. t.result \in Outcome /\ (t.result # "applied" => t.val = semval)
      BY <2>0, <3>2, TryFacts, Zenon
    <3>4. /\ semval' = t.val /\ UNCHANGED <<removed, semasleep, batch>> /\ spc[p] = "recheck"
          /\ SemGoto(p, CASE t.result = "applied" -> "leave"
                          [] t.result = "error" -> "fail"
                          [] t.result = "block" -> IF p \in semstop THEN "fail" ELSE "switch")
      BY <2>6, <3>1, <3>2, Zenon DEF RecheckOp
    <3>5. CASE t.result = "applied"
      <4>1. SemGoto(p, "leave")
        BY <3>4, <3>5, Zenon
      <4>2. spc'[p] \in WakesComing
        BY <4>1, GotoOthers, Zenon DEF WakesComing
      <4> QED BY <4>2, NoLostComing, Zenon
    <3>6. CASE t.result = "block"
      <4>1. PICK l \in {"fail", "switch"} : SemGoto(p, l)
        BY <3>4, <3>6, Zenon
      <4>2. spc'[p] = l /\ \A q \in SemProc \ {p} : spc'[q] = spc[q]
        BY <4>1, GotoOthers, Zenon
      <4>3. semval' = semval /\ removed' = removed /\ semasleep' = semasleep /\ batch' = batch
        BY <3>3, <3>4, <3>6, Zenon
      <4>4. Stuck(p)'
        BY <3>1, <3>2, <3>6, <4>3, Zenon DEF Stuck, TryApply
      <4>5. spc[p] \notin WakesComing
        BY <3>4, Zenon DEF WakesComing
      <4> QED BY <4>2, <4>3, <4>4, <4>5, NoLostKeeps, Zenon
    <3>7. CASE t.result = "error"
      <4>1. SemGoto(p, "fail")
        BY <3>4, <3>7, Zenon
      <4>2. spc'[p] = "fail" /\ \A q \in SemProc \ {p} : spc'[q] = spc[q]
        BY <4>1, GotoOthers, Zenon
      <4>3. semval' = semval /\ removed' = removed /\ semasleep' = semasleep /\ batch' = batch
        BY <3>3, <3>4, <3>7, Zenon
      <4>5. spc[p] \notin WakesComing
        BY <3>4, Zenon DEF WakesComing
      <4> QED BY <4>2, <4>3, <4>5, NoLostKeeps, Zenon
    <3> QED BY <3>3, <3>5, <3>6, <3>7, Zenon DEF Outcome
  <2>7. CASE LeaveWait(p)
    <3>1. semasleep' = semasleep \ {p} /\ UNCHANGED <<semval, removed>>
      BY <2>7, Zenon DEF LeaveWait
    <3>2. \A q \in SemProc \ {p} : batch'[q] = batch[q]
      BY <2>7, Zenon DEF LeaveWait, SemTypes
    <3>3. CASE spc[p] = "leave"
      <4>1. SemGoto(p, "record")
        BY <2>7, <3>3, Zenon DEF LeaveWait
      <4>2. spc'[p] \in WakesComing
        BY <4>1, GotoOthers, Zenon DEF WakesComing
      <4> QED BY <4>2, NoLostComing, Zenon
    <3>4. CASE spc[p] # "leave"
      <4>1. PICK l : SemGoto(p, l)
        BY <2>7, Zenon DEF LeaveWait
      <4>2. \A q \in SemProc \ {p} : spc'[q] = spc[q]
        BY <4>1, GotoOthers, Zenon
      <4>3. spc[p] \notin WakesComing
        BY <2>7, <3>4, Zenon DEF LeaveWait, WakesComing
      <4> QED BY <3>1, <3>2, <4>2, <4>3, NoLostKeeps, Zenon
    <3> QED BY <3>3, <3>4, Zenon
  <2>8. CASE RecordAndWake(p) \/ ClearAndWake(p) \/ ExitWake(p)
    <3>1. semasleep' = semasleep \ semq
      BY <2>8, Zenon DEF RecordAndWake, ClearAndWake, ExitWake
    <3>2. semasleep' = {}
      BY <3>1, Zenon DEF SemQueues
    <3> QED BY <3>2, NoLostIsNext, Zenon
  <2>9. CASE InterruptOp(p)
    <3>1. UNCHANGED <<semval, removed, spc, batch>> /\ semasleep' = semasleep \ {p}
          /\ spc[p] \notin WakesComing
      BY <2>9, Zenon DEF InterruptOp, WakesComing
    <3> QED BY <3>1, NoLostKeeps, Zenon
  <2>10. CASE SetVal(p) \/ RemoveSet(p)
    <3>1. SemGoto(p, "clear")
      BY <2>10, Zenon DEF SetVal, RemoveSet
    <3>2. spc'[p] \in WakesComing
      BY <3>1, GotoOthers, Zenon DEF WakesComing
    <3> QED BY <3>2, NoLostComing, Zenon
  <2>11. CASE ExitTake(p)
    <3>1. /\ spc[p] = "user" /\ UNCHANGED <<semval, removed, semasleep>>
          /\ (UNCHANGED <<spc, batch>> \/ (SemGoto(p, "exit") /\ batch' = [batch EXCEPT ![p] = ExitBatch(undo[p])]))
      BY <2>11, Zenon DEF ExitTake
    <3>2. /\ spc'[p] \in {"user", "exit"}
          /\ \A q \in SemProc \ {p} : spc'[q] = spc[q] /\ batch'[q] = batch[q]
      BY <3>1, GotoOthers, Zenon DEF SemTypes
    <3>3. spc[p] \notin WakesComing
      BY <3>1, Zenon DEF WakesComing
    <3> QED BY <3>1, <3>2, <3>3, NoLostKeeps, Zenon
  <2>12. CASE ExitTry(p)
    <3>1. PICK ops \in Seq(Sembuf) : ops = batch[p]
      BY <2>0, Zenon
    <3>2. PICK try : try = TryApply(ops)
      BY Zenon
    <3>3. try.result \in Outcome /\ (try.result # "applied" => try.val = semval)
      BY <2>0, <3>2, TryFacts, Zenon
    <3> DEFINE done == try.result = "applied" \/ (try.result = "error" /\ spc[p] = "exit")
    <3>4. /\ spc[p] \in {"exit", "exit recheck"}
          /\ semval' = try.val /\ UNCHANGED <<removed, batch>>
          /\ SemGoto(p, CASE done -> "exit wake"
                          [] ~done /\ spc[p] = "exit" -> "exit prepare"
                          [] ~done /\ spc[p] = "exit recheck" -> "exit switch")
          /\ semasleep' = IF done THEN semasleep \ {p} ELSE semasleep
      BY <2>12, <3>1, <3>2, Zenon DEF ExitTry
    <3>5. CASE done
      <4>1. SemGoto(p, "exit wake")
        BY <3>4, <3>5, Zenon
      <4>2. spc'[p] \in WakesComing
        BY <4>1, GotoOthers, Zenon DEF WakesComing
      <4> QED BY <4>2, NoLostComing, Zenon
    <3>6. CASE ~done
      <4>1. semval' = semval /\ removed' = removed /\ semasleep' = semasleep /\ batch' = batch
        BY <3>3, <3>4, <3>6, Zenon
      <4>2. SemGoto(p, IF spc[p] = "exit" THEN "exit prepare" ELSE "exit switch")
        BY <3>4, <3>6, Zenon
      <4>3. /\ spc'[p] = IF spc[p] = "exit" THEN "exit prepare" ELSE "exit switch"
            /\ \A q \in SemProc \ {p} : spc'[q] = spc[q]
        BY <4>2, GotoOthers, Zenon
      <4>4. spc'[p] = "exit switch" => Stuck(p)'
        <5>1. SUFFICES ASSUME spc'[p] = "exit switch" PROVE Stuck(p)'
          BY Zenon
        <5>2. try.result = "block" \/ try.result = "error"
          BY <3>3, <3>6, Zenon DEF Outcome
        <5>3. TryApply(batch[p])' = try
          BY <3>1, <3>2, <4>1, Zenon DEF TryApply
        <5> QED BY <5>1, <5>2, <5>3, Zenon DEF Stuck
      <4>5. spc[p] \notin WakesComing /\ spc'[p] # "switch"
        BY <3>4, <4>3, Zenon DEF WakesComing
      <4> QED BY <4>1, <4>3, <4>4, <4>5, NoLostKeeps, Zenon
    <3> QED BY <3>5, <3>6, Zenon
  <2>13. CASE ExitResume(p)
    <3>1. /\ SemGoto(p, "exit") /\ UNCHANGED <<semval, removed, batch, semasleep>>
          /\ spc[p] \notin WakesComing
      BY <2>13, Zenon DEF ExitResume, WakesComing
    <3>2. spc'[p] = "exit" /\ \A q \in SemProc \ {p} : spc'[q] = spc[q]
      BY <3>1, GotoOthers, Zenon
    <3> QED BY <3>1, <3>2, NoLostKeeps, Zenon
  <2> QED BY <1>3, <2>2, <2>3, <2>4, <2>5, <2>6, <2>7, <2>8, <2>9, <2>10, <2>11, <2>12, <2>13, Zenon DEF SemStep
<1> QED BY <1>1, <1>2, <1>3, Zenon DEF SemNext

-----------------------------------------------------------------------------
(* Counts of waiters *)

Counted == {"prepare", "recheck", "switch", "leave", "fail"}

\* The calls that CountsAreWaiters counts at a semaphore.
Waiting(b) == {p \in SemProc : spc[p] \in Counted /\ registered[p] = b}

\* CountsAreWaiters in terms of the processes registered for a semaphore.
LEMMA CountsAre ==
    CountsAreWaiters <=>
        \A s \in Sem : /\ ncnt[s] = Cardinality(Waiting([sem |-> s, kind |-> "increment"]))
                       /\ zcnt[s] = Cardinality(Waiting([sem |-> s, kind |-> "zero"]))
BY Zenon DEF CountsAreWaiters, Waiting, Counted
\* The same after a step.
LEMMA CountsAreNext ==
    CountsAreWaiters' <=>
        \A s \in Sem : /\ ncnt'[s] = Cardinality(Waiting([sem |-> s, kind |-> "increment"])')
                       /\ zcnt'[s] = Cardinality(Waiting([sem |-> s, kind |-> "zero"])')
BY Zenon DEF CountsAreWaiters, Waiting, Counted

\* Two sets of processes that differ in one process at most.
LEMMA OneDiffers ==
    ASSUME NEW S \in SUBSET SemProc, NEW T \in SUBSET SemProc, NEW p \in SemProc,
           \A q \in SemProc \ {p} : q \in S <=> q \in T
    PROVE  /\ Cardinality(S) \in Nat
           /\ Cardinality(T) = Cardinality(S) + (IF p \in T THEN 1 ELSE 0) - (IF p \in S THEN 1 ELSE 0)
<1>1. IsFiniteSet(SemProc)
  BY SemAssumption, FS_Interval DEF SemProc
<1>2. IsFiniteSet(S) /\ IsFiniteSet(T)
  BY <1>1, FS_Subset, Zenon
<1>3. Cardinality(S) \in Nat /\ Cardinality(T) \in Nat
  BY <1>2, FS_CardinalityType, Zenon
<1>4. S \ {p} = T \ {p}
  BY Zenon
<1>5. Cardinality(S \ {p}) = IF p \in S THEN Cardinality(S) - 1 ELSE Cardinality(S)
  BY <1>2, FS_RemoveElement, Zenon
<1>6. Cardinality(T \ {p}) = IF p \in T THEN Cardinality(T) - 1 ELSE Cardinality(T)
  BY <1>2, FS_RemoveElement, Zenon
<1> QED BY <1>3, <1>4, <1>5, <1>6

\* A step of p, and how it may change the number of those waiting for b.
LEMMA WaitingStep ==
    ASSUME NEW p \in SemProc, NEW b,
           \A q \in SemProc \ {p} : spc'[q] = spc[q] /\ registered'[q] = registered[q]
    PROVE  /\ Cardinality(Waiting(b)) \in Nat
           /\ Cardinality(Waiting(b)') = Cardinality(Waiting(b))
                + (IF spc'[p] \in Counted /\ registered'[p] = b THEN 1 ELSE 0)
                - (IF spc[p] \in Counted /\ registered[p] = b THEN 1 ELSE 0)
<1>1. PICK S, T : S = Waiting(b) /\ T = Waiting(b)'
  BY Zenon
<1>2. S \in SUBSET SemProc /\ T \in SUBSET SemProc /\ \A q \in SemProc \ {p} : q \in S <=> q \in T
  BY <1>1, Zenon DEF Waiting
<1>3. /\ p \in T <=> (spc'[p] \in Counted /\ registered'[p] = b)
      /\ p \in S <=> (spc[p] \in Counted /\ registered[p] = b)
  BY <1>1, Zenon DEF Waiting
<1>4. /\ Cardinality(S) \in Nat
      /\ Cardinality(T) = Cardinality(S) + (IF p \in T THEN 1 ELSE 0) - (IF p \in S THEN 1 ELSE 0)
  BY <1>2, OneDiffers
<1> QED BY <1>1, <1>3, <1>4, Zenon

\* A step of p that leaves the counts and the place of p alone.
LEMMA CountsKeep ==
    ASSUME CountsAreWaiters, NEW p \in SemProc,
           \A q \in SemProc \ {p} : spc'[q] = spc[q] /\ registered'[q] = registered[q],
           ncnt' = ncnt, zcnt' = zcnt,
           \/ (spc[p] \notin Counted /\ spc'[p] \notin Counted)
           \/ (spc[p] \in Counted /\ spc'[p] \in Counted /\ registered'[p] = registered[p])
    PROVE  CountsAreWaiters'
<1>1. ASSUME NEW b PROVE Cardinality(Waiting(b)') = Cardinality(Waiting(b))
  <2>1. /\ Cardinality(Waiting(b)) \in Nat
        /\ Cardinality(Waiting(b)') = Cardinality(Waiting(b))
                + (IF spc'[p] \in Counted /\ registered'[p] = b THEN 1 ELSE 0)
                - (IF spc[p] \in Counted /\ registered[p] = b THEN 1 ELSE 0)
    BY WaitingStep, Zenon
  <2> QED BY <2>1
<1>2. ASSUME NEW s \in Sem
      PROVE  /\ ncnt'[s] = Cardinality(Waiting([sem |-> s, kind |-> "increment"])')
             /\ zcnt'[s] = Cardinality(Waiting([sem |-> s, kind |-> "zero"])')
  <2>1. /\ ncnt[s] = Cardinality(Waiting([sem |-> s, kind |-> "increment"]))
        /\ zcnt[s] = Cardinality(Waiting([sem |-> s, kind |-> "zero"]))
    BY CountsAre, Zenon
  <2> QED BY <1>1, <2>1, Zenon
<1> QED BY <1>2, CountsAreNext, Zenon

\* register_blocked and unregister_blocked follow the place of p.
LEMMA CountsMove ==
    ASSUME SemTypes, CountsAreWaiters, NEW p \in SemProc, NEW n \in Int,
           \A q \in SemProc \ {p} : spc'[q] = spc[q] /\ registered'[q] = registered[q],
           CountBlocked(registered[p], n),
           \/ (n = 1 /\ spc[p] \notin Counted /\ spc'[p] \in Counted /\ registered'[p] = registered[p])
           \/ (n = -1 /\ spc[p] \in Counted /\ spc'[p] \notin Counted)
    PROVE  CountsAreWaiters'
<1>1. PICK at \in Blocked : at = registered[p]
  BY Zenon DEF SemTypes
<1>2. \A s \in Sem :
          /\ ncnt'[s] = ncnt[s] + (IF at = [sem |-> s, kind |-> "increment"] THEN n ELSE 0)
          /\ zcnt'[s] = zcnt[s] + (IF at = [sem |-> s, kind |-> "zero"] THEN n ELSE 0)
  BY <1>1, CountFacts DEF SemTypes
<1>3. ASSUME NEW b
      PROVE  /\ Cardinality(Waiting(b)) \in Nat
             /\ Cardinality(Waiting(b)') = Cardinality(Waiting(b)) + (IF at = b THEN n ELSE 0)
  <2>1. /\ Cardinality(Waiting(b)) \in Nat
        /\ Cardinality(Waiting(b)') = Cardinality(Waiting(b))
                + (IF spc'[p] \in Counted /\ registered'[p] = b THEN 1 ELSE 0)
                - (IF spc[p] \in Counted /\ registered[p] = b THEN 1 ELSE 0)
    BY WaitingStep, Zenon
  <2> QED BY <1>1, <2>1
<1>4. ASSUME NEW s \in Sem
      PROVE  /\ ncnt'[s] = Cardinality(Waiting([sem |-> s, kind |-> "increment"])')
             /\ zcnt'[s] = Cardinality(Waiting([sem |-> s, kind |-> "zero"])')
  <2>1. PICK b, c : b = [sem |-> s, kind |-> "increment"] /\ c = [sem |-> s, kind |-> "zero"]
    BY Zenon
  <2>2. ncnt[s] = Cardinality(Waiting(b)) /\ zcnt[s] = Cardinality(Waiting(c))
    BY <2>1, CountsAre, Zenon
  <2>3. ncnt'[s] = Cardinality(Waiting(b)') /\ zcnt'[s] = Cardinality(Waiting(c)')
    BY <1>2, <1>3, <2>1, <2>2
  <2> QED BY <2>1, <2>3, Zenon
<1> QED BY <1>4, CountsAreNext, Zenon

\* A process writes nothing of another one but takes it off the queue.
LEMMA SemOthers ==
    ASSUME SemTypes, NEW p \in SemProc, SemStep(p)
    PROVE  \A q \in SemProc \ {p} : /\ spc'[q] = spc[q] /\ batch'[q] = batch[q]
                                    /\ registered'[q] = registered[q] /\ undo'[q] = undo[q]
<1> DEFINE Same(f, g) == \A q \in SemProc \ {p} : g[q] = f[q]
<1>1. \A l : SemGoto(p, l) => Same(spc, spc')
  BY Zenon DEF SemTypes, SemGoto
<1>2. \A v : batch' = [batch EXCEPT ![p] = v] => Same(batch, batch')
  BY Zenon DEF SemTypes
<1>3. \A v : registered' = [registered EXCEPT ![p] = v] => Same(registered, registered')
  BY Zenon DEF SemTypes
<1>4. \A v : undo' = [undo EXCEPT ![p] = v] => Same(undo, undo')
  BY Zenon DEF SemTypes
<1>5. Same(spc, spc) /\ Same(batch, batch) /\ Same(registered, registered) /\ Same(undo, undo)
  BY Zenon
<1> HIDE DEF Same
<1>6. Same(spc, spc')
  BY <1>1, <1>5, Zenon DEF SemStep, SemOp, RetryOp, TryOnce, Register, PrepareWait, RecheckOp, LeaveWait,
     RecordAndWake, InterruptOp, SetVal, RemoveSet, ClearAndWake, ExitTake, ExitTry, ExitResume, ExitWake
<1>7. Same(batch, batch')
  BY <1>2, <1>5, Zenon DEF SemStep, SemOp, RetryOp, TryOnce, Register, PrepareWait, RecheckOp, LeaveWait,
     RecordAndWake, InterruptOp, SetVal, RemoveSet, ClearAndWake, ExitTake, ExitTry, ExitResume, ExitWake
<1>8. Same(registered, registered')
  BY <1>3, <1>5, Zenon DEF SemStep, SemOp, RetryOp, TryOnce, Register, PrepareWait, RecheckOp, LeaveWait,
     RecordAndWake, InterruptOp, SetVal, RemoveSet, ClearAndWake, ExitTake, ExitTry, ExitResume, ExitWake
<1>9. Same(undo, undo')
  BY <1>4, <1>5, Zenon DEF SemStep, SemOp, RetryOp, TryOnce, Register, PrepareWait, RecheckOp, LeaveWait,
     RecordAndWake, InterruptOp, SetVal, RemoveSet, ClearAndWake, ExitTake, ExitTry, ExitResume, ExitWake
<1> QED BY <1>6, <1>7, <1>8, <1>9, Zenon DEF Same

\* semncnt and semzcnt stay the numbers of those that wait.
LEMMA CountsStep ==
    ASSUME SemTypes, SemTypes', CountsAreWaiters, [SemNext]_semVars
    PROVE  CountsAreWaiters'
<1>1. CASE UNCHANGED semVars
  BY <1>1, Zenon DEF semVars, CountsAreWaiters
<1>2. CASE SemGet
  <2>1. \A q \in SemProc : spc'[q] = "user"
    BY <1>2, Zenon DEF SemGet
  <2>2. \A b : Waiting(b)' = {}
    BY <2>1, Zenon DEF Waiting, Counted
  <2>3. \A s \in Sem : ncnt'[s] = 0 /\ zcnt'[s] = 0
    BY <1>2, Zenon DEF SemGet, NoUndo
  <2> QED BY <2>2, <2>3, CountsAreNext, FS_EmptySet, Zenon
<1>3. ASSUME NEW p \in SemProc, SemStep(p) PROVE CountsAreWaiters'
  <2>0. \A q \in SemProc \ {p} : spc'[q] = spc[q] /\ registered'[q] = registered[q]
    BY <1>3, SemOthers, Zenon
  <2>1. ASSUME NEW ops \in Seq(Sembuf), TryOnce(p, ops), spc[p] \in {"user", "retry"} PROVE CountsAreWaiters'
    <3>1. PICK t : t = TryApply(ops)
      BY Zenon
    <3>2. t.result \in Outcome
      BY <3>1, TryFacts, Zenon DEF SemTypes
    <3>3. /\ UNCHANGED <<ncnt, zcnt>>
          /\ SemGoto(p, CASE t.result = "applied" -> "record"
                          [] t.result = "block" -> "register"
                          [] t.result = "error" -> "user")
      BY <2>1, <3>1, Zenon DEF TryOnce
    <3>4. PICK l \in {"record", "register", "user"} : SemGoto(p, l)
      BY <3>2, <3>3, Zenon DEF Outcome
    <3>5. spc[p] \notin Counted /\ spc'[p] \notin Counted
      BY <2>1, <3>4, GotoOthers, Zenon DEF Counted
    <3> QED BY <2>0, <3>3, <3>5, CountsKeep, Zenon
  <2>2. CASE SemOp(p)
    <3>1. PICK ops \in Batches : TryOnce(p, ops)
      BY <2>2, Zenon DEF SemOp
    <3>2. ops \in Seq(Sembuf) /\ spc[p] = "user"
      BY <2>2, SemAssumption, Zenon DEF SemOp
    <3> QED BY <2>1, <3>1, <3>2, Zenon
  <2>3. CASE RetryOp(p)
    <3>1. batch[p] \in Seq(Sembuf)
      BY Zenon DEF SemTypes
    <3> QED BY <2>1, <2>3, <3>1, Zenon DEF RetryOp
  <2>4. CASE Register(p)
    <3>1. CASE removed
      <4>1. SemGoto(p, "user") /\ UNCHANGED <<ncnt, zcnt>> /\ spc[p] = "register"
        BY <2>4, <3>1, Zenon DEF Register
      <4>2. spc[p] \notin Counted /\ spc'[p] \notin Counted
        BY <4>1, GotoOthers DEF Counted
      <4> QED BY <2>0, <4>1, <4>2, CountsKeep, Zenon
    <3>2. CASE ~removed
      <4>1. /\ CountBlocked(registered[p], 1) /\ registered' = registered /\ spc[p] = "register"
            /\ SemGoto(p, IF p \in semstop THEN "fail" ELSE "prepare")
        BY <2>4, <3>2, Zenon DEF Register
      <4>2. spc[p] \notin Counted /\ spc'[p] \in Counted
        BY <4>1, GotoOthers, Zenon DEF Counted
      <4> QED BY <2>0, <4>1, <4>2, CountsMove
    <3> QED BY <3>1, <3>2, Zenon
  <2>5. CASE PrepareWait(p)
    <3>1. /\ UNCHANGED <<ncnt, zcnt, registered>> /\ spc[p] \in {"prepare", "exit prepare"}
          /\ SemGoto(p, IF spc[p] = "prepare" THEN "recheck" ELSE "exit recheck")
      BY <2>5, Zenon DEF PrepareWait
    <3>2. spc'[p] = IF spc[p] = "prepare" THEN "recheck" ELSE "exit recheck"
      BY <3>1, GotoOthers, Zenon
    <3>3. spc[p] \in Counted <=> spc'[p] \in Counted
      BY <3>1, <3>2, Zenon DEF Counted
    <3> QED BY <2>0, <3>1, <3>3, CountsKeep, Zenon
  <2>6. CASE RecheckOp(p)
    <3>1. PICK ops \in Seq(Sembuf) : ops = batch[p]
      BY Zenon DEF SemTypes
    <3>2. PICK t : t = TryApply(ops)
      BY Zenon
    <3>3. t.result \in Outcome
      BY <3>2, TryFacts, Zenon DEF SemTypes
    <3>4. /\ UNCHANGED <<ncnt, zcnt, registered>> /\ spc[p] = "recheck"
          /\ SemGoto(p, CASE t.result = "applied" -> "leave"
                          [] t.result = "error" -> "fail"
                          [] t.result = "block" -> IF p \in semstop THEN "fail" ELSE "switch")
      BY <2>6, <3>1, <3>2, Zenon DEF RecheckOp
    <3>5. PICK l \in {"leave", "fail", "switch"} : SemGoto(p, l)
      BY <3>3, <3>4, Zenon DEF Outcome
    <3>6. spc[p] \in Counted /\ spc'[p] \in Counted
      BY <3>4, <3>5, GotoOthers, Zenon DEF Counted
    <3> QED BY <2>0, <3>4, <3>6, CountsKeep, Zenon
  <2>7. CASE LeaveWait(p)
    <3>1. CountBlocked(registered[p], -1) /\ -1 \in Int /\ spc[p] \in {"leave", "fail", "switch"}
      BY <2>7 DEF LeaveWait
    <3>2. PICK l \in {"user", "record", "retry"} : SemGoto(p, l)
      BY <2>7, <3>1, Zenon DEF LeaveWait
    <3>3. spc[p] \in Counted /\ spc'[p] \notin Counted
      BY <3>1, <3>2, GotoOthers, Zenon DEF Counted
    <3> QED BY <2>0, <3>1, <3>3, CountsMove, Zenon
  <2>8. CASE InterruptOp(p)
    BY <2>8, Zenon DEF InterruptOp, CountsAreWaiters
  <2>9. CASE \/ RecordAndWake(p) \/ SetVal(p) \/ RemoveSet(p) \/ ClearAndWake(p)
             \/ ExitResume(p) \/ ExitWake(p)
    <3>1. /\ UNCHANGED <<ncnt, zcnt>>
          /\ spc[p] \in {"record", "user", "clear", "exit switch", "exit wake"}
          /\ \E l \in {"user", "clear", "exit"} : SemGoto(p, l)
      BY <2>9, Zenon DEF RecordAndWake, SetVal, RemoveSet, ClearAndWake, ExitResume, ExitWake
    <3>2. spc[p] \notin Counted /\ spc'[p] \notin Counted
      BY <3>1, GotoOthers, Zenon DEF Counted
    <3> QED BY <2>0, <3>1, <3>2, CountsKeep, Zenon
  <2>10. CASE ExitTake(p)
    <3>1. UNCHANGED <<ncnt, zcnt>> /\ spc[p] = "user" /\ (spc' = spc \/ SemGoto(p, "exit"))
      BY <2>10, Zenon DEF ExitTake
    <3>2. spc[p] \notin Counted /\ spc'[p] \notin Counted
      BY <3>1, GotoOthers DEF Counted
    <3> QED BY <2>0, <3>1, <3>2, CountsKeep, Zenon
  <2>11. CASE ExitTry(p)
    <3>1. /\ UNCHANGED <<ncnt, zcnt>> /\ spc[p] \in {"exit", "exit recheck"}
          /\ \E l \in {"exit wake", "exit prepare", "exit switch"} : SemGoto(p, l)
      BY <2>11, Zenon DEF ExitTry
    <3>2. spc[p] \notin Counted /\ spc'[p] \notin Counted
      BY <3>1, GotoOthers, Zenon DEF Counted
    <3> QED BY <2>0, <3>1, <3>2, CountsKeep, Zenon
  <2> QED BY <1>3, <2>2, <2>3, <2>4, <2>5, <2>6, <2>7, <2>8, <2>9, <2>10, <2>11, Zenon DEF SemStep
<1> QED BY <1>1, <1>2, <1>3, Zenon DEF SemNext

-----------------------------------------------------------------------------
(* The account *)

Exiting == {"exit", "exit prepare", "exit recheck", "exit switch"}

\* InFlight, of a process at l with a batch b.
Fly(l, b, s) ==
    IF l \in {"leave", "record"} THEN -Effect(b, s, {TRUE})
    ELSE IF l \in Exiting THEN Effect(b, s, BOOLEAN) ELSE 0

\* What is in flight is an integer.
LEMMA FlyType ==
    ASSUME NEW l, NEW b \in Seq(Sembuf), NEW s
    PROVE  Fly(l, b, s) \in Int
<1>1. Effect(b, s, {TRUE}) \in Int /\ Effect(b, s, BOOLEAN) \in Int
  BY EffectType, Zenon
<1> QED BY <1>1 DEF Fly

\* What is still owed to s, process by process, and its sum.
Owes(s) == [p \in SemProc |-> undo[p][s] + Fly(spc[p], batch[p], s)]

\* UndoConserves in terms of what every process owes.
LEMMA ConservesIs ==
    UndoConserves <=> \A s \in Sem : semval[s] + Total(Owes(s), NProcs) = account[s]
<1>1. \A p, s : InFlight(p, s) = Fly(spc[p], batch[p], s)
  BY Zenon DEF InFlight, Fly, Exiting
<1>2. \A s : [p \in SemProc |-> undo[p][s] + InFlight(p, s)] = Owes(s)
  BY <1>1, Zenon DEF Owes
<1> QED BY <1>2, Zenon DEF UndoConserves
\* The same after a step.
LEMMA ConservesIsNext ==
    UndoConserves' <=> \A s \in Sem : semval'[s] + Total(Owes(s)', NProcs) = account'[s]
<1>1. \A p, s : InFlight(p, s)' = Fly(spc'[p], batch'[p], s)
  BY Zenon DEF InFlight, Fly, Exiting
<1>2. \A s : [p \in SemProc |-> undo'[p][s] + InFlight(p, s)'] = Owes(s)'
  BY <1>1, Zenon DEF Owes
<1> QED BY <1>2, Zenon DEF UndoConserves

\* What the processes owe are integers.
LEMMA OwesType ==
    ASSUME SemTypes, NEW s \in Sem
    PROVE  Owes(s) \in [1 .. NProcs -> Int]
<1>1. ASSUME NEW p \in SemProc PROVE undo[p][s] + Fly(spc[p], batch[p], s) \in Int
  <2>1. undo[p][s] \in Int /\ batch[p] \in Seq(Sembuf)
    BY Zenon DEF SemTypes
  <2>2. Fly(spc[p], batch[p], s) \in Int
    BY <2>1, FlyType, Zenon
  <2> QED BY <2>1, <2>2
<1> QED BY <1>1, Zenon DEF Owes, SemProc
\* The same after a step.
LEMMA OwesTypeNext ==
    ASSUME SemTypes', NEW s \in Sem
    PROVE  Owes(s)' \in [1 .. NProcs -> Int]
<1>1. ASSUME NEW p \in SemProc PROVE undo'[p][s] + Fly(spc'[p], batch'[p], s) \in Int
  <2>1. undo'[p][s] \in Int /\ batch'[p] \in Seq(Sembuf)
    BY Zenon DEF SemTypes
  <2>2. Fly(spc'[p], batch'[p], s) \in Int
    BY <2>1, FlyType, Zenon
  <2> QED BY <2>1, <2>2
<1> QED BY <1>1, Zenon DEF Owes, SemProc

\* If the account moves with the value and with what one process owes, it stays
\* balanced.
LEMMA Rebooked ==
    ASSUME NEW v \in Int, NEW w \in Int, NEW a \in Int, NEW b \in Int,
           NEW t \in Int, NEW u \in Int, NEW f \in Int, NEW h \in Int,
           u = t + h - f, v + t = a, w + h - b = v + f - a
    PROVE  w + u = b
OBVIOUS

\* A step of p that books what it takes from one place in another.
LEMMA ConservesMove ==
    ASSUME SemTypes, SemTypes', UndoConserves, NEW p \in SemProc,
           \A q \in SemProc \ {p} : spc'[q] = spc[q] /\ batch'[q] = batch[q] /\ undo'[q] = undo[q],
           \A s \in Sem : semval'[s] + (undo'[p][s] + Fly(spc'[p], batch'[p], s)) - account'[s]
                            = semval[s] + (undo[p][s] + Fly(spc[p], batch[p], s)) - account[s]
    PROVE  UndoConserves'
<1> SUFFICES ASSUME NEW s \in Sem PROVE semval'[s] + Total(Owes(s)', NProcs) = account'[s]
  BY ConservesIsNext, Zenon
<1>1. PICK f, h : f = Owes(s) /\ h = Owes(s)'
  BY Zenon
<1>2. f \in [1 .. NProcs -> Int] /\ h \in [1 .. NProcs -> Int]
  BY <1>1, OwesType, OwesTypeNext, Zenon
<1>3. f[p] = undo[p][s] + Fly(spc[p], batch[p], s) /\ h[p] = undo'[p][s] + Fly(spc'[p], batch'[p], s)
  BY <1>1, Zenon DEF Owes
<1>4. \A q \in 1 .. NProcs : q # p => h[q] = f[q]
  BY <1>1, Zenon DEF Owes, SemProc
<1>5. p \in 1 .. NProcs /\ NProcs \in Nat
  BY SemAssumption, Zenon DEF SemProc
<1>6. Total(h, NProcs) = Total(f, NProcs) + h[p] - f[p]
  BY <1>2, <1>4, <1>5, TotalChange, Zenon
<1>7. Total(f, NProcs) \in Int /\ f[p] \in Int /\ h[p] \in Int
  BY <1>2, <1>5, TotalType, Zenon
<1>8. semval[s] + Total(f, NProcs) = account[s]
  BY <1>1, ConservesIs, Zenon
<1>9. semval[s] \in Int /\ semval'[s] \in Int /\ account[s] \in Int /\ account'[s] \in Int
  BY DEF SemTypes, SemVals
<1>10. semval'[s] + h[p] - account'[s] = semval[s] + f[p] - account[s]
  BY <1>3, Zenon
<1>11. semval'[s] + Total(h, NProcs) = account'[s]
  <2>1. Total(h, NProcs) \in Int
    BY <1>6, <1>7
  <2> QED BY <1>6, <1>7, <1>8, <1>9, <1>10, <2>1, Rebooked
<1> QED BY <1>1, <1>11, Zenon

\* The same for a step that moves nothing.
LEMMA ConservesSame ==
    ASSUME SemTypes, SemTypes', UndoConserves, NEW p \in SemProc,
           \A q \in SemProc \ {p} : spc'[q] = spc[q] /\ batch'[q] = batch[q] /\ undo'[q] = undo[q],
           undo'[p] = undo[p], semval' = semval, account' = account,
           \A s \in Sem : Fly(spc'[p], batch'[p], s) = Fly(spc[p], batch[p], s)
    PROVE  UndoConserves'
BY ConservesMove, Zenon

\* Adjustments stay in the bound, and so does what a call in progress will record.
Adjustments == [Sem -> -UndoBound .. UndoBound]
Calling == {"register", "prepare", "recheck", "switch", "leave", "fail", "retry", "record"}
UndoBounds ==
    \A p \in SemProc : /\ undo[p] \in Adjustments
                       /\ spc[p] \in Calling => Recorded(undo[p], batch[p]) \in Adjustments

\* UndoInBound in terms of the table that would be recorded.
LEMMA InBoundIs ==
    ASSUME NEW p, NEW ops
    PROVE  UndoInBound(p, ops) <=> Recorded(undo[p], ops) \in Adjustments
BY Zenon DEF UndoInBound, Adjustments, Recorded

\* A step of p keeps the adjustments in the bound if those of p stay in it.
LEMMA BoundsKeep ==
    ASSUME UndoBounds, NEW p \in SemProc,
           \A q \in SemProc \ {p} : spc'[q] = spc[q] /\ batch'[q] = batch[q] /\ undo'[q] = undo[q],
           undo'[p] \in Adjustments,
           spc'[p] \in Calling => Recorded(undo'[p], batch'[p]) \in Adjustments
    PROVE  UndoBounds'
BY Zenon DEF UndoBounds

\* The empty undo table is within every bound.
LEMMA NoUndoBound == NoUndo \in Adjustments
BY SemAssumption DEF NoUndo, Adjustments

\* The account stays balanced, and adjustments in the bound, through an attempt.
LEMMA UndoTry ==
    ASSUME SemTypes, SemTypes', UndoConserves, UndoBounds, NEW p \in SemProc, SemStep(p),
           NEW ops \in Seq(Sembuf), Recorded(undo[p], ops) \in Adjustments,
           TryOnce(p, ops), spc[p] \in {"user", "retry"}
    PROVE  UndoConserves' /\ UndoBounds'
<1>0. \A q \in SemProc \ {p} : spc'[q] = spc[q] /\ batch'[q] = batch[q] /\ undo'[q] = undo[q]
  BY SemOthers, Zenon
<1>1. PICK t : t = TryApply(ops)
  BY Zenon
<1>2. /\ t.result \in Outcome
      /\ t.result # "applied" => t.val = semval
      /\ t.result = "applied" => \A s \in Sem : t.val[s] = semval[s] + Effect(ops, s, BOOLEAN)
  BY <1>1, TryFacts, Zenon DEF SemTypes
<1>3. /\ semval' = t.val /\ undo' = undo
      /\ batch' = [batch EXCEPT ![p] = IF t.result = "error" THEN <<>> ELSE ops]
      /\ account' = IF t.result = "applied" THEN Charge(ops) ELSE account
      /\ SemGoto(p, CASE t.result = "applied" -> "record"
                      [] t.result = "block" -> "register"
                      [] t.result = "error" -> "user")
  BY <1>1, Zenon DEF TryOnce
<1>4. batch'[p] = IF t.result = "error" THEN <<>> ELSE ops
  BY <1>3, Zenon DEF SemTypes
<1>5. undo[p] \in Adjustments
  BY Zenon DEF UndoBounds
<1>6. CASE t.result = "applied"
  <2>1. SemGoto(p, "record") /\ account' = Charge(ops) /\ batch'[p] = ops
    BY <1>3, <1>4, <1>6, Zenon
  <2>2. spc'[p] = "record"
    BY <2>1, GotoOthers, Zenon
  <2>3. ASSUME NEW s \in Sem
        PROVE  semval'[s] + (undo'[p][s] + Fly(spc'[p], batch'[p], s)) - account'[s]
                 = semval[s] + (undo[p][s] + Fly(spc[p], batch[p], s)) - account[s]
    <3>1. Fly(spc'[p], batch'[p], s) = -Effect(ops, s, {TRUE}) /\ Fly(spc[p], batch[p], s) = 0
      BY <2>1, <2>2, Zenon DEF Fly, Exiting
    <3>2. semval'[s] = semval[s] + Effect(ops, s, BOOLEAN)
      BY <1>2, <1>3, <1>6, Zenon
    <3>3. account'[s] = account[s] + Effect(ops, s, {FALSE})
      BY <2>1, Zenon DEF Charge
    <3>4. Effect(ops, s, BOOLEAN) = Effect(ops, s, {TRUE}) + Effect(ops, s, {FALSE})
      BY EffectSplit, Zenon
    <3>5. Effect(ops, s, {TRUE}) \in Int /\ Effect(ops, s, {FALSE}) \in Int
      BY EffectType, Zenon
    <3>6. semval[s] \in Int /\ account[s] \in Int /\ undo[p][s] \in Int /\ undo'[p][s] = undo[p][s]
      BY <1>3 DEF SemTypes, SemVals
    <3>7. (semval[s] + (Effect(ops, s, {TRUE}) + Effect(ops, s, {FALSE})))
            + (undo[p][s] + (-Effect(ops, s, {TRUE}))) - (account[s] + Effect(ops, s, {FALSE}))
          = semval[s] + (undo[p][s] + 0) - account[s]
      BY <3>5, <3>6, SMTT(30)
    <3> QED BY <3>1, <3>2, <3>3, <3>4, <3>6, <3>7, Zenon
  <2>4. UndoConserves'
    BY <1>0, <2>3, ConservesMove, Zenon
  <2>5. UndoBounds'
    BY <1>0, <1>3, <1>5, <2>1, BoundsKeep, Zenon
  <2> QED BY <2>4, <2>5, Zenon
<1>7. CASE t.result # "applied"
  <2>1. PICK l \in {"register", "user"} : SemGoto(p, l) /\ (l = "register" => t.result = "block")
    BY <1>2, <1>3, <1>7, Zenon DEF Outcome
  <2>2. spc'[p] = l
    BY <2>1, GotoOthers, Zenon
  <2>3. \A s \in Sem : Fly(spc'[p], batch'[p], s) = Fly(spc[p], batch[p], s)
    BY <2>2, Zenon DEF Fly, Exiting
  <2>4. semval' = semval /\ account' = account
    BY <1>2, <1>3, <1>7, Zenon
  <2>5. UndoConserves'
    BY <1>0, <1>3, <2>3, <2>4, ConservesSame, Zenon
  <2>6. spc'[p] \in Calling => batch'[p] = ops
    BY <1>4, <2>1, <2>2, Zenon DEF Calling
  <2>7. UndoBounds'
    BY <1>0, <1>3, <1>5, <2>6, BoundsKeep, Zenon
  <2> QED BY <2>5, <2>7, Zenon
<1> QED BY <1>6, <1>7, Zenon

\* Every step keeps the account balanced and the adjustments in their bound.
LEMMA UndoStep ==
    ASSUME SemTypes, SemTypes', UndoConserves, UndoBounds, [SemNext]_semVars
    PROVE  UndoConserves' /\ UndoBounds'
<1>1. CASE UNCHANGED semVars
  BY <1>1, Zenon DEF semVars, UndoConserves, UndoBounds, InFlight
<1>2. CASE SemGet
  <2>1. /\ \A p \in SemProc : spc'[p] = "user" /\ undo'[p] = NoUndo
        /\ \A s \in Sem : semval'[s] = 0 /\ account'[s] = 0
    BY <1>2, Zenon DEF SemGet, NoUndo
  <2>2. ASSUME NEW s \in Sem PROVE semval'[s] + Total(Owes(s)', NProcs) = account'[s]
    <3>1. PICK h : h = Owes(s)'
      BY Zenon
    <3>2. h \in [1 .. NProcs -> Int]
      BY <3>1, OwesTypeNext, Zenon
    <3>3. \A p \in 1 .. NProcs : h[p] = 0
      <4>1. \A p \in SemProc : Fly(spc'[p], batch'[p], s) = 0
        BY <2>1, Zenon DEF Fly, Exiting
      <4>2. \A p \in SemProc : undo'[p][s] = 0
        BY <2>1, Zenon DEF NoUndo
      <4>3. \A p \in SemProc : h[p] = undo'[p][s] + Fly(spc'[p], batch'[p], s)
        BY <3>1, Zenon DEF Owes
      <4> QED BY <4>1, <4>2, <4>3 DEF SemProc
    <3>4. Total(h, NProcs) = 0
      BY <3>2, <3>3, TotalZero, SemAssumption, Zenon
    <3> QED BY <2>1, <3>1, <3>4
  <2>3. UndoConserves'
    BY <2>2, ConservesIsNext, Zenon
  <2>4. UndoBounds'
    BY <2>1, NoUndoBound, Zenon DEF UndoBounds, Calling
  <2> QED BY <2>3, <2>4, Zenon
<1>3. ASSUME NEW p \in SemProc, SemStep(p) PROVE UndoConserves' /\ UndoBounds'
  <2>0. \A q \in SemProc \ {p} : spc'[q] = spc[q] /\ batch'[q] = batch[q] /\ undo'[q] = undo[q]
    BY <1>3, SemOthers, Zenon
  <2>1. /\ batch[p] \in Seq(Sembuf) /\ undo[p] \in [Sem -> Int] /\ undo[p] \in Adjustments
        /\ spc[p] \in Calling => Recorded(undo[p], batch[p]) \in Adjustments
    BY Zenon DEF SemTypes, UndoBounds
  <2>2. ASSUME semval' = semval, account' = account, undo' = undo,
               \A s \in Sem : Fly(spc'[p], batch'[p], s) = Fly(spc[p], batch[p], s),
               spc'[p] \in Calling => batch'[p] = batch[p] /\ spc[p] \in Calling
        PROVE  UndoConserves' /\ UndoBounds'
    <3>1. UndoConserves'
      BY <2>0, <2>2, ConservesSame, Zenon
    <3>2. UndoBounds'
      BY <2>0, <2>1, <2>2, BoundsKeep, Zenon
    <3> QED BY <3>1, <3>2, Zenon
  <2>3. CASE SemOp(p)
    <3>1. PICK ops \in Batches : TryOnce(p, ops) /\ UndoInBound(p, ops)
      BY <2>3, Zenon DEF SemOp
    <3>2. ops \in Seq(Sembuf) /\ spc[p] = "user"
      BY <2>3, SemAssumption, Zenon DEF SemOp
    <3>3. Recorded(undo[p], ops) \in Adjustments
      BY <3>1, InBoundIs, Zenon
    <3> QED BY <1>3, <3>1, <3>2, <3>3, UndoTry, Zenon
  <2>4. CASE RetryOp(p)
    <3>1. PICK ops \in Seq(Sembuf) : ops = batch[p]
      BY <2>1, Zenon
    <3>2. TryOnce(p, ops) /\ spc[p] = "retry"
      BY <2>4, <3>1, Zenon DEF RetryOp
    <3>3. Recorded(undo[p], ops) \in Adjustments
      BY <2>1, <3>1, <3>2, Zenon DEF Calling
    <3> QED BY <1>3, <3>2, <3>3, UndoTry, Zenon
  <2>5. CASE Register(p)
    <3>1. UNCHANGED <<semval, undo, account>> /\ spc[p] = "register"
      BY <2>5, Zenon DEF Register
    <3>2. \/ SemGoto(p, "user")
          \/ (batch' = batch /\ SemGoto(p, IF p \in semstop THEN "fail" ELSE "prepare"))
      BY <2>5, Zenon DEF Register
    <3>3. spc'[p] = "user" \/ (batch' = batch /\ spc'[p] \in {"fail", "prepare"})
      BY <3>2, GotoOthers, Zenon
    <3>4. \A s \in Sem : Fly(spc'[p], batch'[p], s) = Fly(spc[p], batch[p], s)
      BY <3>1, <3>3, Zenon DEF Fly, Exiting
    <3>5. spc'[p] \in Calling => batch'[p] = batch[p] /\ spc[p] \in Calling
      BY <3>1, <3>3, Zenon DEF Calling
    <3> QED BY <2>2, <3>1, <3>4, <3>5, Zenon
  <2>6. CASE PrepareWait(p)
    <3>1. /\ UNCHANGED <<semval, undo, account, batch>> /\ spc[p] \in {"prepare", "exit prepare"}
          /\ SemGoto(p, IF spc[p] = "prepare" THEN "recheck" ELSE "exit recheck")
      BY <2>6, Zenon DEF PrepareWait
    <3>2. spc'[p] = IF spc[p] = "prepare" THEN "recheck" ELSE "exit recheck"
      BY <3>1, GotoOthers, Zenon
    <3>3. \A s \in Sem : Fly(spc'[p], batch'[p], s) = Fly(spc[p], batch[p], s)
      BY <3>1, <3>2, Zenon DEF Fly, Exiting
    <3>4. spc'[p] \in Calling => batch'[p] = batch[p] /\ spc[p] \in Calling
      BY <3>1, <3>2, Zenon DEF Calling
    <3> QED BY <2>2, <3>1, <3>3, <3>4, Zenon
  <2>7. CASE RecheckOp(p)
    <3>1. PICK ops \in Seq(Sembuf) : ops = batch[p]
      BY <2>1, Zenon
    <3>2. PICK t : t = TryApply(ops)
      BY Zenon
    <3>3. /\ t.result \in Outcome
          /\ t.result # "applied" => t.val = semval
          /\ t.result = "applied" => \A s \in Sem : t.val[s] = semval[s] + Effect(ops, s, BOOLEAN)
      BY <3>2, TryFacts, Zenon DEF SemTypes
    <3>4. /\ semval' = t.val /\ undo' = undo /\ batch' = batch /\ spc[p] = "recheck"
          /\ account' = IF t.result = "applied" THEN Charge(ops) ELSE account
          /\ SemGoto(p, CASE t.result = "applied" -> "leave"
                          [] t.result = "error" -> "fail"
                          [] t.result = "block" -> IF p \in semstop THEN "fail" ELSE "switch")
      BY <2>7, <3>1, <3>2, Zenon DEF RecheckOp
    <3>5. CASE t.result = "applied"
      <4>1. SemGoto(p, "leave") /\ account' = Charge(ops)
        BY <3>4, <3>5, Zenon
      <4>2. spc'[p] = "leave"
        BY <4>1, GotoOthers, Zenon
      <4>3. ASSUME NEW s \in Sem
            PROVE  semval'[s] + (undo'[p][s] + Fly(spc'[p], batch'[p], s)) - account'[s]
                     = semval[s] + (undo[p][s] + Fly(spc[p], batch[p], s)) - account[s]
        <5>1. Fly(spc'[p], batch'[p], s) = -Effect(ops, s, {TRUE}) /\ Fly(spc[p], batch[p], s) = 0
          BY <3>1, <3>4, <4>2, Zenon DEF Fly, Exiting
        <5>2. semval'[s] = semval[s] + Effect(ops, s, BOOLEAN)
          BY <3>3, <3>4, <3>5, Zenon
        <5>3. account'[s] = account[s] + Effect(ops, s, {FALSE})
          BY <4>1, Zenon DEF Charge
        <5>4. Effect(ops, s, BOOLEAN) = Effect(ops, s, {TRUE}) + Effect(ops, s, {FALSE})
          BY EffectSplit, Zenon
        <5>5. Effect(ops, s, {TRUE}) \in Int /\ Effect(ops, s, {FALSE}) \in Int
          BY EffectType, Zenon
        <5>6. semval[s] \in Int /\ account[s] \in Int /\ undo[p][s] \in Int /\ undo'[p][s] = undo[p][s]
          BY <3>4 DEF SemTypes, SemVals
        <5>7. (semval[s] + (Effect(ops, s, {TRUE}) + Effect(ops, s, {FALSE})))
                + (undo[p][s] + (-Effect(ops, s, {TRUE}))) - (account[s] + Effect(ops, s, {FALSE}))
              = semval[s] + (undo[p][s] + 0) - account[s]
          BY <5>5, <5>6, SMTT(30)
        <5> QED BY <5>1, <5>2, <5>3, <5>4, <5>6, <5>7, Zenon
      <4>4. UndoConserves'
        BY <2>0, <4>3, ConservesMove, Zenon
      <4>5. Recorded(undo'[p], batch'[p]) \in Adjustments
        BY <2>1, <3>4, Zenon DEF Calling
      <4>6. UndoBounds'
        BY <2>0, <2>1, <3>4, <4>5, BoundsKeep, Zenon
      <4> QED BY <4>4, <4>6, Zenon
    <3>6. CASE t.result # "applied"
      <4>1. PICK l \in {"fail", "switch"} : SemGoto(p, l)
        BY <3>3, <3>4, <3>6, Zenon DEF Outcome
      <4>2. spc'[p] = l
        BY <4>1, GotoOthers, Zenon
      <4>3. \A s \in Sem : Fly(spc'[p], batch'[p], s) = Fly(spc[p], batch[p], s)
        BY <3>4, <4>2, Zenon DEF Fly, Exiting
      <4>4. semval' = semval /\ account' = account /\ undo' = undo
        BY <3>3, <3>4, <3>6, Zenon
      <4>5. batch'[p] = batch[p] /\ spc[p] \in Calling
        BY <3>4, Zenon DEF Calling
      <4> QED BY <2>2, <4>3, <4>4, <4>5, Zenon
    <3> QED BY <3>5, <3>6, Zenon
  <2>8. CASE LeaveWait(p)
    <3>1. UNCHANGED <<semval, undo, account>> /\ spc[p] \in {"leave", "fail", "switch"}
      BY <2>8, Zenon DEF LeaveWait
    <3>2. CASE spc[p] = "leave"
      <4>1. SemGoto(p, "record") /\ batch' = batch
        BY <2>8, <3>2, Zenon DEF LeaveWait
      <4>2. spc'[p] = "record"
        BY <4>1, GotoOthers, Zenon
      <4>3. \A s \in Sem : Fly(spc'[p], batch'[p], s) = Fly(spc[p], batch[p], s)
        BY <3>2, <4>1, <4>2, Zenon DEF Fly, Exiting
      <4>4. batch'[p] = batch[p] /\ spc[p] \in Calling
        BY <3>1, <4>1, Zenon DEF Calling
      <4> QED BY <2>2, <3>1, <4>3, <4>4, Zenon
    <3>3. CASE spc[p] # "leave"
      <4>1. SemGoto(p, "user") \/ (SemGoto(p, "retry") /\ batch' = batch)
        BY <2>8, <3>1, <3>3, Zenon DEF LeaveWait
      <4>2. spc'[p] = "user" \/ (spc'[p] = "retry" /\ batch' = batch)
        BY <4>1, GotoOthers, Zenon
      <4>3. \A s \in Sem : Fly(spc'[p], batch'[p], s) = Fly(spc[p], batch[p], s)
        BY <3>1, <3>3, <4>2, Zenon DEF Fly, Exiting
      <4>4. spc'[p] \in Calling => batch'[p] = batch[p] /\ spc[p] \in Calling
        BY <3>1, <4>2, Zenon DEF Calling
      <4> QED BY <2>2, <3>1, <4>3, <4>4, Zenon
    <3> QED BY <3>2, <3>3, Zenon
  <2>9. CASE RecordAndWake(p)
    <3>1. /\ UNCHANGED <<semval, account>> /\ spc[p] = "record" /\ SemGoto(p, "user")
          /\ undo' = [undo EXCEPT ![p] = Recorded(@, batch[p])]
      BY <2>9, Zenon DEF RecordAndWake
    <3>2. spc'[p] = "user" /\ undo'[p] = Recorded(undo[p], batch[p])
      BY <3>1, GotoOthers, Zenon DEF SemTypes
    <3>3. ASSUME NEW s \in Sem
          PROVE  semval'[s] + (undo'[p][s] + Fly(spc'[p], batch'[p], s)) - account'[s]
                   = semval[s] + (undo[p][s] + Fly(spc[p], batch[p], s)) - account[s]
      <4>1. Fly(spc'[p], batch'[p], s) = 0 /\ Fly(spc[p], batch[p], s) = -Effect(batch[p], s, {TRUE})
        BY <3>1, <3>2, Zenon DEF Fly, Exiting
      <4>2. undo'[p][s] = undo[p][s] - Effect(batch[p], s, {TRUE})
        BY <3>2, Zenon DEF Recorded
      <4>3. Effect(batch[p], s, {TRUE}) \in Int /\ undo[p][s] \in Int
        BY <2>1, EffectType, Zenon
      <4>4. semval'[s] = semval[s] /\ account'[s] = account[s]
        BY <3>1, Zenon
      <4> QED BY <4>1, <4>2, <4>3, <4>4, SMTT(30)
    <3>4. UndoConserves'
      BY <2>0, <3>3, ConservesMove, Zenon
    <3>5. undo'[p] \in Adjustments /\ spc'[p] \notin Calling
      BY <2>1, <3>1, <3>2, Zenon DEF Calling
    <3>6. UndoBounds'
      BY <2>0, <3>5, BoundsKeep, Zenon
    <3> QED BY <3>4, <3>6, Zenon
  <2>10. CASE InterruptOp(p)
    <3>1. UNCHANGED <<semval, undo, account, spc, batch>>
      BY <2>10, Zenon DEF InterruptOp
    <3> QED BY <2>2, <3>1, Zenon
  <2>11. CASE SetVal(p)
    <3>1. /\ account' = [s \in Sem |-> account[s] + semval'[s] - semval[s]]
          /\ UNCHANGED <<undo, batch>> /\ spc[p] = "user" /\ SemGoto(p, "clear")
      BY <2>11, Zenon DEF SetVal
    <3>2. spc'[p] = "clear"
      BY <3>1, GotoOthers, Zenon
    <3>3. ASSUME NEW s \in Sem
          PROVE  semval'[s] + (undo'[p][s] + Fly(spc'[p], batch'[p], s)) - account'[s]
                   = semval[s] + (undo[p][s] + Fly(spc[p], batch[p], s)) - account[s]
      <4>1. Fly(spc'[p], batch'[p], s) = 0 /\ Fly(spc[p], batch[p], s) = 0
        BY <3>1, <3>2, Zenon DEF Fly, Exiting
      <4>2. semval[s] \in Int /\ semval'[s] \in Int /\ account[s] \in Int /\ undo[p][s] \in Int
        BY DEF SemTypes, SemVals
      <4>3. account'[s] = account[s] + semval'[s] - semval[s] /\ undo'[p][s] = undo[p][s]
        BY <3>1, Zenon
      <4> QED BY <4>1, <4>2, <4>3
    <3>4. UndoConserves'
      BY <2>0, <3>3, ConservesMove, Zenon
    <3>5. undo'[p] \in Adjustments /\ spc'[p] \notin Calling
      BY <2>1, <3>1, <3>2, Zenon DEF Calling
    <3>6. UndoBounds'
      BY <2>0, <3>5, BoundsKeep, Zenon
    <3> QED BY <3>4, <3>6, Zenon
  <2>12. CASE RemoveSet(p) \/ ExitResume(p) \/ ExitWake(p)
    <3>1. /\ UNCHANGED <<semval, undo, account>>
          /\ \/ (spc[p] = "user" /\ SemGoto(p, "clear"))
             \/ (spc[p] = "exit switch" /\ SemGoto(p, "exit") /\ batch' = batch)
             \/ (spc[p] = "exit wake" /\ SemGoto(p, "user"))
      BY <2>12, Zenon DEF RemoveSet, ExitResume, ExitWake
    <3>2. \/ (spc[p] = "user" /\ spc'[p] = "clear")
          \/ (spc[p] = "exit switch" /\ spc'[p] = "exit" /\ batch' = batch)
          \/ (spc[p] = "exit wake" /\ spc'[p] = "user")
      BY <3>1, GotoOthers, Zenon
    <3>3. \A s \in Sem : Fly(spc'[p], batch'[p], s) = Fly(spc[p], batch[p], s)
      BY <3>2, Zenon DEF Fly, Exiting
    <3>4. spc'[p] \notin Calling
      BY <3>2, Zenon DEF Calling
    <3> QED BY <2>2, <3>1, <3>3, <3>4, Zenon
  <2>13. CASE ClearAndWake(p)
    <3>1. /\ semval' = semval /\ spc[p] = "clear" /\ SemGoto(p, "user")
          /\ undo' = [undo EXCEPT ![p] = NoUndo]
          /\ account' = [s \in Sem |-> account[s] - undo[p][s]]
      BY <2>13, Zenon DEF ClearAndWake
    <3>2. spc'[p] = "user" /\ undo'[p] = NoUndo
      BY <3>1, GotoOthers, Zenon DEF SemTypes
    <3>3. ASSUME NEW s \in Sem
          PROVE  semval'[s] + (undo'[p][s] + Fly(spc'[p], batch'[p], s)) - account'[s]
                   = semval[s] + (undo[p][s] + Fly(spc[p], batch[p], s)) - account[s]
      <4>1. Fly(spc'[p], batch'[p], s) = 0 /\ Fly(spc[p], batch[p], s) = 0
        BY <3>1, <3>2, Zenon DEF Fly, Exiting
      <4>2. semval[s] \in Int /\ account[s] \in Int /\ undo[p][s] \in Int
        BY DEF SemTypes, SemVals
      <4>3. account'[s] = account[s] - undo[p][s] /\ undo'[p][s] = 0 /\ semval'[s] = semval[s]
        BY <3>1, <3>2, Zenon DEF NoUndo
      <4> QED BY <4>1, <4>2, <4>3, SMTT(30)
    <3>4. UndoConserves'
      BY <2>0, <3>3, ConservesMove, Zenon
    <3>5. undo'[p] \in Adjustments /\ spc'[p] \notin Calling
      BY <3>2, NoUndoBound, Zenon DEF Calling
    <3>6. UndoBounds'
      BY <2>0, <3>5, BoundsKeep, Zenon
    <3> QED BY <3>4, <3>6, Zenon
  <2>14. CASE ExitTake(p)
    <3>1. /\ semval' = semval /\ spc[p] = "user"
          /\ undo' = [undo EXCEPT ![p] = NoUndo]
          /\ \/ (account' = [s \in Sem |-> account[s] - undo[p][s]] /\ spc' = spc)
             \/ (account' = account /\ batch' = [batch EXCEPT ![p] = ExitBatch(undo[p])] /\ SemGoto(p, "exit"))
      BY <2>14, Zenon DEF ExitTake
    <3>2. undo'[p] = NoUndo
      BY <3>1, Zenon DEF SemTypes
    <3>3. spc'[p] = "user" \/ spc'[p] = "exit"
      BY <3>1, GotoOthers, Zenon
    <3>4. ASSUME NEW s \in Sem
          PROVE  semval'[s] + (undo'[p][s] + Fly(spc'[p], batch'[p], s)) - account'[s]
                   = semval[s] + (undo[p][s] + Fly(spc[p], batch[p], s)) - account[s]
      <4>1. semval[s] \in Int /\ account[s] \in Int /\ undo[p][s] \in Int
        BY DEF SemTypes, SemVals
      <4>2. undo'[p][s] = 0 /\ semval'[s] = semval[s] /\ Fly(spc[p], batch[p], s) = 0
        BY <3>1, <3>2, Zenon DEF NoUndo, Fly, Exiting
      <4>3. CASE account' = [r \in Sem |-> account[r] - undo[p][r]] /\ spc' = spc
        <5>1. Fly(spc'[p], batch'[p], s) = 0 /\ account'[s] = account[s] - undo[p][s]
          BY <3>1, <4>3, Zenon DEF Fly, Exiting
        <5> QED BY <4>1, <4>2, <5>1
      <4>4. CASE account' = account /\ batch' = [batch EXCEPT ![p] = ExitBatch(undo[p])] /\ SemGoto(p, "exit")
        <5>1. spc'[p] = "exit" /\ batch'[p] = ExitBatch(undo[p])
          BY <4>4, GotoOthers, Zenon DEF SemTypes
        <5>2. Effect(ExitBatch(undo[p]), s, BOOLEAN) = undo[p][s]
          BY <2>1, ExitEffect, Zenon
        <5>3. Fly(spc'[p], batch'[p], s) = undo[p][s]
          BY <5>1, <5>2, Zenon DEF Fly, Exiting
        <5> QED BY <4>1, <4>2, <4>4, <5>3, SMTT(30)
      <4> QED BY <3>1, <4>3, <4>4, Zenon
    <3>5. UndoConserves'
      BY <2>0, <3>4, ConservesMove, Zenon
    <3>6. undo'[p] \in Adjustments /\ spc'[p] \notin Calling
      BY <3>2, <3>3, NoUndoBound, Zenon DEF Calling
    <3>7. UndoBounds'
      BY <2>0, <3>6, BoundsKeep, Zenon
    <3> QED BY <3>5, <3>7, Zenon
  <2>15. CASE ExitTry(p)
    <3>1. PICK ops \in Seq(Sembuf) : ops = batch[p]
      BY <2>1, Zenon
    <3>2. PICK try : try = TryApply(ops)
      BY Zenon
    <3>3. /\ try.result \in Outcome
          /\ try.result # "applied" => try.val = semval
          /\ try.result = "applied" => \A s \in Sem : try.val[s] = semval[s] + Effect(ops, s, BOOLEAN)
      BY <3>2, TryFacts, Zenon DEF SemTypes
    <3> DEFINE done == try.result = "applied" \/ (try.result = "error" /\ spc[p] = "exit")
    <3>4. /\ spc[p] \in {"exit", "exit recheck"}
          /\ semval' = try.val /\ UNCHANGED <<batch, undo>>
          /\ SemGoto(p, CASE done -> "exit wake"
                          [] ~done /\ spc[p] = "exit" -> "exit prepare"
                          [] ~done /\ spc[p] = "exit recheck" -> "exit switch")
          /\ account' = IF done /\ try.result = "error"
                        THEN [s \in Sem |-> account[s] - Effect(ops, s, BOOLEAN)]
                        ELSE account
      BY <2>15, <3>1, <3>2, Zenon DEF ExitTry
    <3>5. CASE done
      <4>1. SemGoto(p, "exit wake")
        BY <3>4, <3>5, Zenon
      <4>2. spc'[p] = "exit wake"
        BY <4>1, GotoOthers, Zenon
      <4>3. ASSUME NEW s \in Sem
            PROVE  semval'[s] + (undo'[p][s] + Fly(spc'[p], batch'[p], s)) - account'[s]
                     = semval[s] + (undo[p][s] + Fly(spc[p], batch[p], s)) - account[s]
        <5>1. semval[s] \in Int /\ account[s] \in Int /\ undo[p][s] \in Int /\ undo'[p][s] = undo[p][s]
          <6>1. undo' = undo
            BY <3>4, Zenon
          <6>2. semval[s] \in Int /\ account[s] \in Int /\ undo[p][s] \in Int
            BY DEF SemTypes, SemVals
          <6> QED BY <6>1, <6>2, Zenon
        <5>2. Fly(spc'[p], batch'[p], s) = 0 /\ Fly(spc[p], batch[p], s) = Effect(ops, s, BOOLEAN)
          BY <3>1, <3>4, <4>2, Zenon DEF Fly, Exiting
        <5>3. Effect(ops, s, BOOLEAN) \in Int
          BY EffectType, Zenon
        <5>4. CASE try.result = "applied"
          <6>1. semval'[s] = semval[s] + Effect(ops, s, BOOLEAN) /\ account'[s] = account[s]
            BY <3>3, <3>4, <5>4, Zenon
          <6> QED BY <5>1, <5>2, <5>3, <6>1, SMTT(30)
        <5>5. CASE try.result = "error"
          <6>1. semval'[s] = semval[s] /\ account'[s] = account[s] - Effect(ops, s, BOOLEAN)
            BY <3>3, <3>4, <3>5, <5>5, Zenon
          <6> QED BY <5>1, <5>2, <5>3, <6>1
        <5> QED BY <3>5, <5>4, <5>5, Zenon
      <4>4. UndoConserves'
        BY <2>0, <4>3, ConservesMove, Zenon
      <4>5. undo'[p] \in Adjustments /\ spc'[p] \notin Calling
        BY <2>1, <3>4, <4>2, Zenon DEF Calling
      <4>6. UndoBounds'
        BY <2>0, <4>5, BoundsKeep, Zenon
      <4> QED BY <4>4, <4>6, Zenon
    <3>6. CASE ~done
      <4>1. semval' = semval /\ account' = account /\ undo' = undo
        BY <3>3, <3>4, <3>6, Zenon
      <4>2. SemGoto(p, IF spc[p] = "exit" THEN "exit prepare" ELSE "exit switch")
        BY <3>4, <3>6, Zenon
      <4>3. spc'[p] = IF spc[p] = "exit" THEN "exit prepare" ELSE "exit switch"
        BY <4>2, GotoOthers, Zenon
      <4>4. \A s \in Sem : Fly(spc'[p], batch'[p], s) = Fly(spc[p], batch[p], s)
        BY <3>4, <4>3, Zenon DEF Fly, Exiting
      <4>5. spc'[p] \notin Calling
        BY <4>3, Zenon DEF Calling
      <4> QED BY <2>2, <4>1, <4>4, <4>5, Zenon
    <3> QED BY <3>5, <3>6, Zenon
  <2> QED BY <1>3, <2>3, <2>4, <2>5, <2>6, <2>7, <2>8, <2>9, <2>10, <2>11, <2>12, <2>13, <2>14, <2>15, Zenon
          DEF SemStep
<1> QED BY <1>1, <1>2, <1>3, Zenon DEF SemNext

-----------------------------------------------------------------------------
(* The theorems *)

\* The inductive invariant of the semaphores.
SemInv ==
    /\ SemTypes /\ SemQueues /\ removed \in BOOLEAN
    /\ NoLostSemWakeup /\ CountsAreWaiters /\ UndoConserves /\ UndoBounds

\* The invariant holds initially.
LEMMA SemInvInit ==
    ASSUME SemInit
    PROVE  SemInv
<1>0. NProcs \in Nat /\ SemProc = 1 .. NProcs
  BY SemAssumption, Zenon DEF SemProc
<1>1. SemTypes
  <2>1. \A p \in SemProc : spc[p] = "user"
    BY Zenon DEF SemInit
  <2>2. spc \in [SemProc -> SemPc] /\ batch \in [SemProc -> Seq(Sembuf)]
    BY DEF SemInit, SemPc
  <2>3. registered \in [SemProc -> Blocked] /\ undo \in [SemProc -> [Sem -> Int]]
    BY NoUndoType, Zenon DEF SemInit
  <2> QED BY <2>2, <2>3, NoUndoType, Zenon DEF SemInit, SemTypes
<1>2. SemQueues /\ NoLostSemWakeup /\ removed \in BOOLEAN
  BY Zenon DEF SemInit, SemQueues, NoLostSemWakeup
<1>3. \A p \in SemProc : spc[p] = "user" /\ batch[p] = <<>> /\ undo[p] = NoUndo
  BY Zenon DEF SemInit
<1>4. CountsAreWaiters
  <2>1. \A s \in Sem : ncnt[s] = 0 /\ zcnt[s] = 0
    BY Zenon DEF SemInit, NoUndo
  <2>2. \A s, kind : {p \in SemProc : /\ spc[p] \in {"prepare", "recheck", "switch", "leave", "fail"}
                                      /\ registered[p] = [sem |-> s, kind |-> kind]} = {}
    BY <1>3, Zenon
  <2> QED BY <2>1, <2>2, FS_EmptySet DEF CountsAreWaiters
<1>5. UndoConserves
  <2>1. SUFFICES ASSUME NEW s \in Sem PROVE semval[s] + Total(Owes(s), NProcs) = account[s]
    BY ConservesIs, Zenon
  <2>2. semval[s] = 0 /\ account[s] = 0 /\ \A p \in SemProc : undo[p][s] = 0
    BY <1>3, Zenon DEF SemInit, NoUndo
  <2>3. \A p \in SemProc : Fly(spc[p], batch[p], s) = 0
    BY <1>3, Zenon DEF Fly, Exiting
  <2>4. Owes(s) \in [1 .. NProcs -> Int]
    BY <1>1, OwesType, Zenon
  <2>5. \A p \in 1 .. NProcs : Owes(s)[p] = 0
    BY <1>0, <2>2, <2>3 DEF Owes
  <2>6. Total(Owes(s), NProcs) = 0
    BY <1>0, <2>4, <2>5, TotalZero, Zenon
  <2> QED BY <2>2, <2>6
<1>6. UndoBounds
  BY <1>3, NoUndoBound, Zenon DEF UndoBounds, Calling
<1> QED BY <1>1, <1>2, <1>4, <1>5, <1>6, Zenon DEF SemInv

\* Every step keeps the invariant.
LEMMA SemInvStep ==
    ASSUME SemInv, [SemNext]_semVars
    PROVE  SemInv'
<1>1. SemTypes'
  BY SemTypesStep, Zenon DEF SemInv
<1>2. SemQueues'
  BY SemQueuesStep, Zenon DEF SemInv
<1>3. NoLostSemWakeup'
  BY <1>1, <1>2, NoLostStep, Zenon DEF SemInv
<1>4. CountsAreWaiters'
  BY <1>1, CountsStep, Zenon DEF SemInv
<1>5. UndoConserves' /\ UndoBounds'
  BY <1>1, UndoStep, Zenon DEF SemInv
<1>6. removed' \in BOOLEAN
  <2>1. removed' = removed \/ removed' = TRUE \/ removed' = FALSE
    BY ZenonT(60) DEF SemNext, SemStep, SemGet, SemOp, RetryOp, TryOnce, Register, PrepareWait, RecheckOp,
           LeaveWait, RecordAndWake, InterruptOp, SetVal, RemoveSet, ClearAndWake, ExitTake, ExitTry,
           ExitResume, ExitWake, semVars
  <2> QED BY <2>1, Zenon DEF SemInv
<1> QED BY <1>1, <1>2, <1>3, <1>4, <1>5, <1>6, Zenon DEF SemInv

\* The semaphores of every behaviour keep the invariant.
LEMMA SemInvariant == SemSpec => []SemInv
<1>1. SemInit => SemInv
  BY SemInvInit
<1>2. SemInv /\ [SemNext]_semVars => SemInv'
  BY SemInvStep
<1> QED BY <1>1, <1>2, PTL DEF SemSpec

\* The invariant speaks of types.
LEMMA SemInvTypes ==
    ASSUME SemInv
    PROVE  SemTypeOK
<1>1. semval \in [Sem -> 0 .. SEMVMX] /\ semstop \subseteq SemProc /\ removed \in BOOLEAN
  BY DEF SemInv, SemTypes, SemVals
<1>2. IsFiniteSet(SemProc)
  BY SemAssumption, FS_Interval DEF SemProc
<1>4. ASSUME NEW s \in Sem PROVE ncnt[s] \in Nat /\ zcnt[s] \in Nat
  <2> DEFINE W(kind) == {p \in SemProc : /\ spc[p] \in {"prepare", "recheck", "switch", "leave", "fail"}
                                         /\ registered[p] = [sem |-> s, kind |-> kind]}
  <2>1. \A kind : W(kind) \in SUBSET SemProc
    OBVIOUS
  <2>2. ncnt[s] = Cardinality(W("increment")) /\ zcnt[s] = Cardinality(W("zero"))
    BY DEF SemInv, CountsAreWaiters
  <2> HIDE DEF W
  <2>3. Cardinality(W("increment")) \in Nat /\ Cardinality(W("zero")) \in Nat
    BY <1>2, <2>1, FS_Subset, FS_CardinalityType
  <2> QED BY <2>2, <2>3
<1>5. ncnt \in [Sem -> Nat] /\ zcnt \in [Sem -> Nat]
  BY <1>4 DEF SemInv, SemTypes
<1>6. \A p \in semq \cup semasleep :
         spc[p] \in {"recheck", "switch", "leave", "fail", "exit recheck", "exit switch"}
  BY Zenon DEF SemInv, SemQueues, InWait
<1>7. undo \in [SemProc -> [Sem -> -UndoBound .. UndoBound]]
  <2>1. undo \in [SemProc -> [Sem -> Int]] /\ \A p \in SemProc : undo[p] \in [Sem -> -UndoBound .. UndoBound]
    BY DEF SemInv, SemTypes, UndoBounds, Adjustments
  <2> QED BY <2>1
<1> QED BY <1>1, <1>5, <1>6, <1>7, Zenon DEF SemTypeOK

\* Types: values stay in 0 .. SEMVMX, counts are natural numbers, and whoever is
\* in the wait queue or asleep is in a wait of semop or of the exit.
THEOREM SemTypesHold == SemSpec => []SemTypeOK
<1>1. SemInv => SemTypeOK
  BY SemInvTypes
<1> QED BY <1>1, SemInvariant, PTL

\* A semop or an exit that sleeps though its batch could be applied has a waker
\* on its way, whatever batches any number of processes try on any number of
\* semaphores.
THEOREM SemWakeups == SemSpec => []NoLostSemWakeup
<1>1. SemInv => NoLostSemWakeup
  BY DEF SemInv
<1> QED BY <1>1, SemInvariant, PTL

\* semncnt and semzcnt are the numbers of calls that wait: every way out of the
\* loop takes its mark back, and none twice.
THEOREM SemCounts == SemSpec => []CountsAreWaiters
<1>1. SemInv => CountsAreWaiters
  BY DEF SemInv
<1> QED BY <1>1, SemInvariant, PTL

\* SEM_UNDO conserves: a value and all the adjustments owed to it, recorded in a
\* table or in flight between two steps, make up what was put in otherwise.
THEOREM UndoBalances == SemSpec => []UndoConserves
<1>1. SemInv => UndoConserves
  BY DEF SemInv
<1> QED BY <1>1, SemInvariant, PTL

=============================================================================
