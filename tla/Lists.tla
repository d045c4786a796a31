------------------------------- MODULE Lists -------------------------------
(***************************************************************************)
(* The operations of Vec and VecDeque that the models use, in a form the   *)
(* proofs can reason about.                                                *)
(***************************************************************************)
EXTENDS Integers, Sequences, FiniteSets, Functions, FiniteSetsExt

\* retain: the elements of s that are in S, in their order.
Keep(s, S) ==
    LET kept[i \in 0 .. Len(s)] ==
            IF i = 0 THEN <<>>
            ELSE IF s[i] \in S THEN Append(kept[i - 1], s[i]) ELSE kept[i - 1]
    IN  kept[Len(s)]

\* sum: of the first n elements.
Total(f, n) ==
    LET sum[i \in 0 .. n] == IF i = 0 THEN 0 ELSE sum[i - 1] + f[i]
    IN  sum[n]

\* position: the index of the first element that is in S.
FirstIn(s, S) == Min({i \in DOMAIN s : s[i] \in S})

\* remove: the list without its element i.
RemoveIndex(s, i) == SubSeq(s, 1, i - 1) \o SubSeq(s, i + 1, Len(s))

\* remove of the position of e, where there is one.
Without(s, e) == IF e \in Range(s) THEN RemoveIndex(s, FirstIn(s, {e})) ELSE s
=============================================================================
