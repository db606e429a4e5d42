---------------------------- MODULE Server_proofs ----------------------------
(***************************************************************************)
(* What the server does for several clients at once.  A day's false-       *)
(* positive reports, for any alerts, packages, findings and reproducers,   *)
(* any number of authors, and kills anywhere: what the mapping names, what *)
(* it forgets, and what a verification may miss.  Then its jobs and tools: *)
(* what a client is told, whose environment an analysis finds, and which   *)
(* jobs are forgotten.  Then a pull request's fixes, and its sources.      *)
(***************************************************************************)
EXTENDS FpReport, FixTree, Jobs, SequenceTheorems, FiniteSetTheorems, WellFoundedInduction, TLAPS

(***************************************************************************)
(* Lists.                                                                  *)
(***************************************************************************)
\* Induction over the naturals.
LEMMA Counting ==
  ASSUME NEW B, 0 \in B, \A n \in Nat : n \in B => n + 1 \in B
  PROVE  \A n \in Nat : n \in B
<1> DEFINE A == Nat \ B
<1>1. SUFFICES ASSUME A # {} PROVE FALSE
  OBVIOUS
<1>2. IsWellFoundedOn(OpToRel(<, Nat), Nat)
  BY NatLessThanWellFounded
<1>3. A \subseteq Nat
  OBVIOUS
<1>4. PICK k \in A : \A j \in A : ~ (<<j, k>> \in OpToRel(<, Nat))
  <2> HIDE DEF A
  <2> QED BY <1>1, <1>2, <1>3, WFMin
<1>5. k \in Nat /\ k # 0 /\ k - 1 \in Nat /\ k - 1 < k /\ (k - 1) + 1 = k
  OBVIOUS
<1>6. k - 1 \in A
  BY <1>5
<1>7. <<k - 1, k>> \in OpToRel(<, Nat)
  BY <1>5 DEF OpToRel
<1> QED BY <1>4, <1>6, <1>7

\* Recursion over the indices of a list.
IsStep(step, V) == step \in [Nat \X V -> V]
Recurs(n, V, start, step) ==
  \E f \in [0..n -> V] : f[0] = start /\ \A i \in 1..n : f[i] = step[<<i, f[i - 1]>>]

LEMMA Recursion ==
  ASSUME NEW n \in Nat, NEW V, NEW start \in V, NEW step, IsStep(step, V)
  PROVE  Recurs(n, V, start, step)
<1> USE DEF IsStep, Recurs
<1> DEFINE Follows(f, k) == f[0] = start /\ \A i \in 1..k : f[i] = step[<<i, f[i - 1]>>]
           B == {k \in Nat : \E f \in [0..k -> V] : Follows(f, k)}
<1>1. 0 \in B
  <2>1. [i \in 0..0 |-> start] \in [0..0 -> V] /\ Follows([i \in 0..0 |-> start], 0)
    OBVIOUS
  <2> QED BY <2>1
<1>2. ASSUME NEW k \in Nat, k \in B PROVE k + 1 \in B
  <2>1. PICK f \in [0..k -> V] : Follows(f, k)
    BY <1>2
  <2> DEFINE g == [i \in 0..k + 1 |-> IF i = k + 1 THEN step[<<k + 1, f[k]>>] ELSE f[i]]
  <2>2. g \in [0..k + 1 -> V]
    <3>1. f[k] \in V /\ <<k + 1, f[k]>> \in Nat \X V
      OBVIOUS
    <3>2. step[<<k + 1, f[k]>>] \in V
      BY <3>1
    <3> QED BY <3>2
  <2>3. \A i \in 0..k : g[i] = f[i]
    OBVIOUS
  <2>4. g[0] = start
    BY <2>1, <2>3
  <2>5. ASSUME NEW i \in 1..k + 1 PROVE g[i] = step[<<i, g[i - 1]>>]
    <3>1. i - 1 \in 0..k /\ g[i - 1] = f[i - 1]
      BY <2>3
    <3>2. CASE i = k + 1
      <4>1. g[k + 1] = step[<<k + 1, f[k]>>] /\ g[k] = f[k] /\ (k + 1) - 1 = k
        BY <2>3
      <4> QED BY <3>2, <4>1
    <3>3. CASE i \in 1..k
      BY <3>1, <3>3, <2>1, <2>3
    <3> QED BY <3>2, <3>3
  <2>6. Follows(g, k + 1)
    BY <2>4, <2>5
  <2> HIDE DEF g
  <2> QED BY <2>2, <2>6
<1>3. n \in B
  <2> HIDE DEF B
  <2> QED BY <1>1, <1>2, Counting
<1> QED BY <1>3

(***************************************************************************)
(* What is kept of a list.                                                 *)
(***************************************************************************)
Keeps(s, S, kept) ==
  /\ kept[0] = <<>>
  /\ \A i \in 1..Len(s) : kept[i] = IF s[i] \in S THEN Append(kept[i - 1], s[i]) ELSE kept[i - 1]

LEMMA FilterSteps ==
  ASSUME NEW X, NEW s \in Seq(X), NEW S
  PROVE  \E kept \in [0..Len(s) -> Seq(X)] : Keeps(s, S, kept) /\ Filtered(s, S) = kept[Len(s)]
<1> DEFINE n == Len(s)
           step == [p \in Nat \X Seq(X) |->
                      IF p[1] \in 1..n /\ s[p[1]] \in S THEN Append(p[2], s[p[1]]) ELSE p[2]]
           kept == CHOOSE f : f = [i \in 0..n |-> IF i = 0 THEN <<>>
                                                  ELSE IF s[i] \in S THEN Append(f[i - 1], s[i]) ELSE f[i - 1]]
<1>1. n \in Nat /\ <<>> \in Seq(X) /\ \A i \in 1..n : s[i] \in X
  BY ElementOfSeq, LenProperties, EmptySeq
<1>2. step \in [Nat \X Seq(X) -> Seq(X)]
  <2> SUFFICES ASSUME NEW i \in Nat, NEW l \in Seq(X)
               PROVE  (IF i \in 1..n /\ s[i] \in S THEN Append(l, s[i]) ELSE l) \in Seq(X)
    OBVIOUS
  <2> QED BY <1>1, AppendProperties
<1>3. Filtered(s, S) = kept[n]
  BY DEF Filtered
<1>4. \A i \in 1..n, l \in Seq(X) : step[<<i, l>>] = IF s[i] \in S THEN Append(l, s[i]) ELSE l
  BY <1>1
<1> HIDE DEF n, step, kept
<1>5. PICK f \in [0..n -> Seq(X)] : f[0] = <<>> /\ \A i \in 1..n : f[i] = step[<<i, f[i - 1]>>]
  <2>1. Recurs(n, Seq(X), <<>>, step)
    BY <1>1, <1>2, Recursion DEF IsStep
  <2> QED BY <2>1 DEF Recurs
<1>6. \A i \in 0..n : f[i] = IF i = 0 THEN <<>> ELSE IF s[i] \in S THEN Append(f[i - 1], s[i]) ELSE f[i - 1]
  <2> SUFFICES ASSUME NEW i \in 0..n, i # 0
               PROVE  f[i] = IF s[i] \in S THEN Append(f[i - 1], s[i]) ELSE f[i - 1]
    BY <1>5
  <2>1. i \in 1..n /\ i - 1 \in 0..n /\ f[i - 1] \in Seq(X)
    BY <1>1
  <2>2. f[i] = step[<<i, f[i - 1]>>]
    BY <1>5, <2>1
  <2> QED BY <1>4, <2>1, <2>2
<1>7. f = [i \in 0..n |-> IF i = 0 THEN <<>> ELSE IF s[i] \in S THEN Append(f[i - 1], s[i]) ELSE f[i - 1]]
  <2>1. f = [i \in 0..n |-> f[i]]
    OBVIOUS
  <2> QED BY <1>6, <2>1
<1>8. kept = [i \in 0..n |-> IF i = 0 THEN <<>> ELSE IF s[i] \in S THEN Append(kept[i - 1], s[i]) ELSE kept[i - 1]]
  BY <1>7 DEF kept
<1>9. kept[0] = <<>> /\ \A i \in 1..n : kept[i] = IF s[i] \in S THEN Append(kept[i - 1], s[i]) ELSE kept[i - 1]
  <2>1. \A i \in 0..n : kept[i] = IF i = 0 THEN <<>> ELSE IF s[i] \in S THEN Append(kept[i - 1], s[i]) ELSE kept[i - 1]
    BY <1>8
  <2> QED BY <1>1, <2>1
<1>10. \A i \in Nat : i \in {k \in Nat : k <= n => kept[k] \in Seq(X)}
  <2> DEFINE B == {k \in Nat : k <= n => kept[k] \in Seq(X)}
  <2>1. 0 \in B
    BY <1>1, <1>9
  <2>2. ASSUME NEW k \in Nat, k \in B PROVE k + 1 \in B
    <3> SUFFICES ASSUME k + 1 <= n PROVE kept[k + 1] \in Seq(X)
      OBVIOUS
    <3>1. k + 1 \in 1..n /\ (k + 1) - 1 = k /\ kept[k] \in Seq(X)
      BY <1>1, <2>2
    <3>2. kept[k + 1] = IF s[k + 1] \in S THEN Append(kept[k], s[k + 1]) ELSE kept[k]
      BY <1>9, <3>1
    <3>3. s[k + 1] \in X
      BY <1>1, <3>1
    <3>4. Append(kept[k], s[k + 1]) \in Seq(X)
      BY <3>1, <3>3, AppendProperties
    <3> QED BY <3>1, <3>2, <3>4
  <2> HIDE DEF B
  <2>3. \A i \in Nat : i \in B
    BY <2>1, <2>2, Counting
  <2> QED BY <2>3 DEF B
<1>11. kept \in [0..n -> Seq(X)]
  <2>1. \A i \in 0..n : kept[i] \in Seq(X)
    BY <1>1, <1>10
  <2>2. DOMAIN kept = 0..n /\ kept = [i \in 0..n |-> kept[i]]
    BY <1>8
  <2> QED BY <2>1, <2>2
<1>12. Keeps(s, S, kept)
  BY <1>9 DEF Keeps, n
<1> QED BY <1>3, <1>11, <1>12 DEF n

LEMMA FilteredNone == ASSUME NEW S PROVE Filtered(<<>>, S) = <<>>
<1>1. <<>> \in Seq({}) /\ Len(<<>>) = 0
  BY EmptySeq
<1>2. PICK kept \in [0..Len(<<>>) -> Seq({})] : Keeps(<<>>, S, kept) /\ Filtered(<<>>, S) = kept[Len(<<>>)]
  BY <1>1, FilterSteps
<1> QED BY <1>1, <1>2 DEF Keeps

LEMMA FilteredMore ==
  ASSUME NEW X, NEW s \in Seq(X), NEW x \in X, NEW S
  PROVE  /\ Filtered(s, S) \in Seq(X)
         /\ Filtered(Append(s, x), S) = IF x \in S THEN Append(Filtered(s, S), x) ELSE Filtered(s, S)
<1> DEFINE n == Len(s)
           t == Append(s, x)
<1>1. /\ n \in Nat /\ t \in Seq(X) /\ Len(t) = n + 1 /\ t[n + 1] = x
      /\ \A i \in 1..n : t[i] = s[i]
  BY AppendProperties, LenProperties
<1>2. PICK f \in [0..Len(s) -> Seq(X)] : Keeps(s, S, f) /\ Filtered(s, S) = f[Len(s)]
  BY FilterSteps
<1> HIDE DEF t
<1>3. PICK g \in [0..Len(t) -> Seq(X)] : Keeps(t, S, g) /\ Filtered(t, S) = g[Len(t)]
  BY <1>1, FilterSteps
<1> DEFINE B == {k \in Nat : k <= n => g[k] = f[k]}
<1>4. 0 \in B
  BY <1>2, <1>3 DEF Keeps
<1>5. ASSUME NEW k \in Nat, k \in B PROVE k + 1 \in B
  <2> SUFFICES ASSUME k + 1 <= n PROVE g[k + 1] = f[k + 1]
    OBVIOUS
  <2>1. k + 1 \in 1..Len(s) /\ k + 1 \in 1..Len(t) /\ (k + 1) - 1 = k /\ t[k + 1] = s[k + 1] /\ g[k] = f[k]
    BY <1>1, <1>5
  <2>2. /\ f[k + 1] = IF s[k + 1] \in S THEN Append(f[k], s[k + 1]) ELSE f[k]
        /\ g[k + 1] = IF t[k + 1] \in S THEN Append(g[k], t[k + 1]) ELSE g[k]
    BY <1>2, <1>3, <2>1 DEF Keeps
  <2> QED BY <2>1, <2>2
<1>6. g[n] = f[n]
  <2> HIDE DEF B
  <2>1. n \in B
    BY <1>1, <1>4, <1>5, Counting
  <2> QED BY <1>1, <2>1 DEF B
<1>7. g[n + 1] = IF t[n + 1] \in S THEN Append(g[n], t[n + 1]) ELSE g[n]
  <2>1. n + 1 \in 1..Len(t) /\ (n + 1) - 1 = n
    BY <1>1
  <2> QED BY <1>3, <2>1 DEF Keeps
<1>8. Filtered(s, S) \in Seq(X)
  BY <1>1, <1>2
<1>9. Filtered(t, S) = IF x \in S THEN Append(Filtered(s, S), x) ELSE Filtered(s, S)
  BY <1>1, <1>2, <1>3, <1>6, <1>7
<1> QED BY <1>8, <1>9 DEF t

\* What is kept comes from the list, is shorter if something is dropped, and
\* repeats nothing that the list does not repeat.
Distinct(s) == \A i, j \in DOMAIN s : i # j => s[i] # s[j]

LEMMA AppendDistinct ==
  ASSUME NEW X, NEW s \in Seq(X), NEW x \in X
  PROVE  /\ ToSet(Append(s, x)) = ToSet(s) \cup {x}
         /\ Distinct(s) /\ x \notin ToSet(s) => Distinct(Append(s, x))
<1> DEFINE n == Len(s)
           t == Append(s, x)
<1>1. n \in Nat /\ DOMAIN s = 1..n /\ t \in Seq(X) /\ Len(t) = n + 1 /\ t[n + 1] = x /\ \A i \in 1..n : t[i] = s[i]
  BY AppendProperties, LenProperties
<1>2. DOMAIN t = 1..n + 1
  BY <1>1, LenProperties
<1> HIDE DEF n, t
<1>3. ToSet(t) = ToSet(s) \cup {x}
  <2>1. \A i \in 1..n + 1 : i \in 1..n \/ i = n + 1
    BY <1>1
  <2>2. \A i \in 1..n : i \in 1..n + 1
    BY <1>1
  <2>3. n + 1 \in 1..n + 1
    BY <1>1
  <2>4. ToSet(t) \subseteq ToSet(s) \cup {x}
    BY <1>1, <1>2, <2>1 DEF ToSet
  <2>5. ToSet(s) \cup {x} \subseteq ToSet(t)
    BY <1>1, <1>2, <2>2, <2>3 DEF ToSet
  <2> QED BY <2>4, <2>5
<1>4. ASSUME Distinct(s), x \notin ToSet(s) PROVE Distinct(t)
  <2> SUFFICES ASSUME NEW i \in 1..n + 1, NEW j \in 1..n + 1, i # j PROVE t[i] # t[j]
    BY <1>2 DEF Distinct
  <2>1. \A k \in 1..n : s[k] # x
    BY <1>1, <1>4 DEF ToSet
  <2>2. (i \in 1..n \/ i = n + 1) /\ (j \in 1..n \/ j = n + 1)
    BY <1>1
  <2>3. CASE i \in 1..n /\ j \in 1..n
    BY <1>1, <1>4, <2>3 DEF Distinct
  <2>4. CASE i \in 1..n /\ j = n + 1
    BY <1>1, <2>1, <2>4
  <2>5. CASE i = n + 1 /\ j \in 1..n
    BY <1>1, <2>1, <2>5
  <2> QED BY <2>2, <2>3, <2>4, <2>5
<1> QED BY <1>3, <1>4 DEF t

LEMMA FilteredHolds ==
  ASSUME NEW X, NEW s \in Seq(X), NEW S
  PROVE  /\ Filtered(s, S) \in Seq(X) /\ ToSet(Filtered(s, S)) = ToSet(s) \cap S
         /\ Len(Filtered(s, S)) <= Len(s) /\ (~ (ToSet(s) \subseteq S) => Len(Filtered(s, S)) < Len(s))
         /\ Distinct(s) => Distinct(Filtered(s, S))
<1> DEFINE n == Len(s)
           Upto(k) == {s[i] : i \in 1..k}
<1>1. n \in Nat /\ DOMAIN s = 1..n /\ \A i \in 1..n : s[i] \in X
  BY ElementOfSeq, LenProperties
<1>2. PICK kept \in [0..n -> Seq(X)] : Keeps(s, S, kept) /\ Filtered(s, S) = kept[n]
  BY FilterSteps
<1> DEFINE Good(k) == /\ ToSet(kept[k]) = Upto(k) \cap S /\ Len(kept[k]) <= k
                      /\ ~ (Upto(k) \subseteq S) => Len(kept[k]) < k
                      /\ Distinct(s) => Distinct(kept[k])
           B == {k \in Nat : k <= n => Good(k)}
<1>3. 0 \in B
  <2>1. kept[0] = <<>> /\ Len(<<>>) = 0 /\ DOMAIN <<>> = {} /\ Upto(0) = {}
    BY <1>2 DEF Keeps
  <2> QED BY <2>1 DEF ToSet, Distinct
<1>4. ASSUME NEW k \in Nat, k \in B PROVE k + 1 \in B
  <2> SUFFICES ASSUME k + 1 <= n PROVE Good(k + 1)
    OBVIOUS
  <2> DEFINE x == s[k + 1]
             l == kept[k]
             m == kept[k + 1]
  <2>1. k + 1 \in 1..n /\ (k + 1) - 1 = k /\ k \in 0..n
    BY <1>1
  <2>2. Good(k)
    <3>1. k <= n
      BY <2>1
    <3> HIDE DEF Good
    <3> QED BY <1>4, <3>1
  <2>3. m = IF x \in S THEN Append(l, x) ELSE l
    BY <1>2, <2>1 DEF Keeps
  <2>4. x \in X /\ l \in Seq(X) /\ Len(l) \in Nat
    BY <1>1, <1>2, <2>1, LenProperties
  <2>5. Upto(k + 1) = Upto(k) \cup {x}
    <3>1. \A i : i \in 1..k + 1 <=> i \in 1..k \/ i = k + 1
      OBVIOUS
    <3> QED BY ONLY <3>1
  <2>6. Distinct(s) => x \notin Upto(k)
    <3> SUFFICES ASSUME Distinct(s), NEW i \in 1..k, s[i] = x PROVE FALSE
      OBVIOUS
    <3>1. i \in 1..n /\ i # k + 1
      BY <2>1, <1>1
    <3> QED BY <1>1, <2>1, <3>1 DEF Distinct
  <2>7. /\ ToSet(l) = Upto(k) \cap S /\ Len(l) <= k /\ (~ (Upto(k) \subseteq S) => Len(l) < k)
        /\ Distinct(s) => Distinct(l)
    BY <2>2
  <2> HIDE DEF x, l, m, Upto, B
  <2>8. CASE x \in S
    <3>1. m = Append(l, x) /\ Len(m) = Len(l) + 1 /\ ToSet(m) = ToSet(l) \cup {x}
      BY <2>3, <2>4, <2>8, AppendProperties, AppendDistinct
    <3>2. Distinct(s) => Distinct(m)
      BY <2>4, <2>6, <2>7, <3>1, AppendDistinct
    <3>3. ToSet(m) = Upto(k + 1) \cap S
      BY <2>5, <2>7, <2>8, <3>1
    <3>4. Len(m) <= k + 1 /\ (~ (Upto(k + 1) \subseteq S) => Len(m) < k + 1)
      <4>1. ~ (Upto(k + 1) \subseteq S) => ~ (Upto(k) \subseteq S)
        BY <2>5, <2>8
      <4> QED BY <2>4, <2>7, <3>1, <4>1
    <3> QED BY <3>2, <3>3, <3>4 DEF m
  <2>9. CASE x \notin S
    <3>1. m = l
      BY <2>3, <2>9
    <3>2. ToSet(m) = Upto(k + 1) \cap S
      BY <2>5, <2>7, <2>9, <3>1
    <3>3. Len(m) < k + 1
      BY <2>4, <2>7, <3>1
    <3> QED BY <2>4, <2>7, <3>1, <3>2, <3>3 DEF m
  <2> QED BY <2>8, <2>9
<1>5. Good(n)
  <2> HIDE DEF B
  <2>1. n \in B
    BY <1>1, <1>3, <1>4, Counting
  <2> QED BY <1>1, <2>1 DEF B
<1>6. Upto(n) = ToSet(s)
  BY <1>1 DEF ToSet
<1>7. Filtered(s, S) \in Seq(X)
  BY <1>1, <1>2
<1> QED BY <1>2, <1>5, <1>6, <1>7

(***************************************************************************)
(* What a list adds up to.                                                 *)
(***************************************************************************)
LEMMA TotalSteps ==
  ASSUME NEW X, NEW s \in Seq(X), NEW f \in [X -> Nat]
  PROVE  \E sum \in [0..Len(s) -> Nat] :
           sum[0] = 0 /\ Total(s, f) = sum[Len(s)] /\ \A i \in 1..Len(s) : sum[i] = sum[i - 1] + f[s[i]]
<1> DEFINE n == Len(s)
           step == [p \in Nat \X Nat |-> IF p[1] \in 1..n THEN p[2] + f[s[p[1]]] ELSE p[2]]
           sum == CHOOSE g : g = [i \in 0..n |-> IF i = 0 THEN 0 ELSE g[i - 1] + f[s[i]]]
<1>1. n \in Nat /\ \A i \in 1..n : f[s[i]] \in Nat
  BY ElementOfSeq, LenProperties
<1>2. step \in [Nat \X Nat -> Nat]
  <2> SUFFICES ASSUME NEW i \in Nat, NEW l \in Nat PROVE (IF i \in 1..n THEN l + f[s[i]] ELSE l) \in Nat
    OBVIOUS
  <2> QED BY <1>1
<1>3. Total(s, f) = sum[n]
  BY DEF Total
<1>4. \A i \in 1..n, l \in Nat : step[<<i, l>>] = l + f[s[i]]
  BY <1>1
<1> HIDE DEF n, step, sum
<1>5. PICK g \in [0..n -> Nat] : g[0] = 0 /\ \A i \in 1..n : g[i] = step[<<i, g[i - 1]>>]
  <2>1. Recurs(n, Nat, 0, step)
    BY <1>1, <1>2, Recursion DEF IsStep
  <2> QED BY <2>1 DEF Recurs
<1>6. \A i \in 0..n : g[i] = IF i = 0 THEN 0 ELSE g[i - 1] + f[s[i]]
  <2> SUFFICES ASSUME NEW i \in 0..n, i # 0 PROVE g[i] = g[i - 1] + f[s[i]]
    BY <1>5
  <2>1. i \in 1..n /\ i - 1 \in 0..n /\ g[i - 1] \in Nat
    BY <1>1
  <2>2. g[i] = step[<<i, g[i - 1]>>]
    BY <1>5, <2>1
  <2> QED BY <1>4, <2>1, <2>2
<1>7. g = [i \in 0..n |-> IF i = 0 THEN 0 ELSE g[i - 1] + f[s[i]]]
  <2>1. g = [i \in 0..n |-> g[i]]
    OBVIOUS
  <2> QED BY <1>6, <2>1
<1>8. sum = [i \in 0..n |-> IF i = 0 THEN 0 ELSE sum[i - 1] + f[s[i]]]
  BY <1>7 DEF sum
<1>9. sum[0] = 0 /\ \A i \in 1..n : sum[i] = sum[i - 1] + f[s[i]]
  <2>1. \A i \in 0..n : sum[i] = IF i = 0 THEN 0 ELSE sum[i - 1] + f[s[i]]
    BY <1>8
  <2> QED BY <1>1, <2>1
<1>10. \A i \in Nat : i \in {k \in Nat : k <= n => sum[k] \in Nat}
  <2> DEFINE B == {k \in Nat : k <= n => sum[k] \in Nat}
  <2>1. 0 \in B
    BY <1>9
  <2>2. ASSUME NEW k \in Nat, k \in B PROVE k + 1 \in B
    <3> SUFFICES ASSUME k + 1 <= n PROVE sum[k + 1] \in Nat
      OBVIOUS
    <3>1. k + 1 \in 1..n /\ (k + 1) - 1 = k /\ sum[k] \in Nat
      BY <1>1, <2>2
    <3>2. sum[k + 1] = sum[k] + f[s[k + 1]] /\ f[s[k + 1]] \in Nat
      BY <1>1, <1>9, <3>1
    <3> QED BY <3>1, <3>2
  <2> HIDE DEF B
  <2>3. \A i \in Nat : i \in B
    BY <2>1, <2>2, Counting
  <2> QED BY <2>3 DEF B
<1>11. sum \in [0..n -> Nat]
  <2>1. \A i \in 0..n : sum[i] \in Nat
    BY <1>1, <1>10
  <2>2. DOMAIN sum = 0..n /\ sum = [i \in 0..n |-> sum[i]]
    BY <1>8
  <2> QED BY <2>1, <2>2
<1> QED BY <1>3, <1>9, <1>11 DEF n

LEMMA TotalOfNone == ASSUME NEW X, NEW f \in [X -> Nat] PROVE Total(<<>>, f) = 0
<1>1. <<>> \in Seq(X) /\ Len(<<>>) = 0
  BY EmptySeq
<1>2. PICK sum \in [0..Len(<<>>) -> Nat] : sum[0] = 0 /\ Total(<<>>, f) = sum[Len(<<>>)]
  BY <1>1, TotalSteps
<1> QED BY <1>1, <1>2

LEMMA TotalOfMore ==
  ASSUME NEW X, NEW s \in Seq(X), NEW x \in X, NEW f \in [X -> Nat]
  PROVE  Total(s, f) \in Nat /\ Total(Append(s, x), f) = Total(s, f) + f[x]
<1> DEFINE n == Len(s)
           t == Append(s, x)
<1>1. /\ n \in Nat /\ t \in Seq(X) /\ Len(t) = n + 1 /\ t[n + 1] = x
      /\ \A i \in 1..n : t[i] = s[i]
  BY AppendProperties, LenProperties
<1>2. PICK g \in [0..Len(s) -> Nat] :
        g[0] = 0 /\ Total(s, f) = g[Len(s)] /\ \A i \in 1..Len(s) : g[i] = g[i - 1] + f[s[i]]
  BY TotalSteps
<1> HIDE DEF t
<1>3. PICK h \in [0..Len(t) -> Nat] :
        h[0] = 0 /\ Total(t, f) = h[Len(t)] /\ \A i \in 1..Len(t) : h[i] = h[i - 1] + f[t[i]]
  BY <1>1, TotalSteps
<1> DEFINE B == {k \in Nat : k <= n => h[k] = g[k]}
<1>4. 0 \in B
  BY <1>2, <1>3
<1>5. ASSUME NEW k \in Nat, k \in B PROVE k + 1 \in B
  <2> SUFFICES ASSUME k + 1 <= n PROVE h[k + 1] = g[k + 1]
    OBVIOUS
  <2>1. k + 1 \in 1..Len(s) /\ k + 1 \in 1..Len(t) /\ (k + 1) - 1 = k /\ t[k + 1] = s[k + 1] /\ h[k] = g[k]
    BY <1>1, <1>5
  <2>2. g[k + 1] = g[k] + f[s[k + 1]] /\ h[k + 1] = h[k] + f[t[k + 1]]
    BY <1>2, <1>3, <2>1
  <2> QED BY <2>1, <2>2
<1>6. h[n] = g[n]
  <2> HIDE DEF B
  <2>1. n \in B
    BY <1>1, <1>4, <1>5, Counting
  <2> QED BY <1>1, <2>1 DEF B
<1>7. h[n + 1] = h[n] + f[x]
  <2>1. n + 1 \in 1..Len(t) /\ (n + 1) - 1 = n
    BY <1>1
  <2> QED BY <1>1, <1>3, <2>1
<1>8. Total(s, f) \in Nat
  <2>1. Len(s) \in 0..Len(s)
    BY <1>1
  <2> QED BY <1>2, <2>1
<1> QED BY <1>1, <1>2, <1>3, <1>6, <1>7, <1>8 DEF t

LEMMA TotalOfRest ==
  ASSUME NEW X, NEW s \in Seq(X), s # <<>>, NEW f \in [X -> Nat]
  PROVE  Total(s, f) = f[Head(s)] + Total(Tail(s), f) /\ f[Head(s)] \in Nat /\ Total(Tail(s), f) \in Nat
<1> DEFINE n == Len(s)
           t == Tail(s)
<1>1. /\ n \in Nat \ {0} /\ t \in Seq(X) /\ Len(t) = n - 1 /\ Head(s) = s[1] /\ s[1] \in X
      /\ \A i \in 1..n - 1 : t[i] = s[i + 1]
  BY HeadTailProperties, LenProperties, EmptySeq, ElementOfSeq
<1>2. PICK g \in [0..Len(s) -> Nat] :
        g[0] = 0 /\ Total(s, f) = g[Len(s)] /\ \A i \in 1..Len(s) : g[i] = g[i - 1] + f[s[i]]
  BY TotalSteps
<1> HIDE DEF t
<1>3. PICK h \in [0..Len(t) -> Nat] :
        h[0] = 0 /\ Total(t, f) = h[Len(t)] /\ \A i \in 1..Len(t) : h[i] = h[i - 1] + f[t[i]]
  <2>1. t \in Seq(X)
    BY <1>1
  <2> QED BY <2>1, TotalSteps
<1> DEFINE B == {k \in Nat : k <= n - 1 => g[k + 1] = f[s[1]] + h[k]}
<1>4. 0 \in B
  <2>1. 1 \in 1..Len(s) /\ 1 - 1 = 0 /\ f[s[1]] \in Nat
    BY <1>1
  <2>2. g[1] = g[0] + f[s[1]]
    BY <1>2, <2>1
  <2> QED BY <1>2, <1>3, <2>1, <2>2
<1>5. ASSUME NEW k \in Nat, k \in B PROVE k + 1 \in B
  <2> SUFFICES ASSUME k + 1 <= n - 1 PROVE g[(k + 1) + 1] = f[s[1]] + h[k + 1]
    OBVIOUS
  <2>1. /\ (k + 1) + 1 \in 1..Len(s) /\ k + 1 \in 1..Len(t) /\ (k + 1) - 1 = k /\ ((k + 1) + 1) - 1 = k + 1
        /\ t[k + 1] = s[(k + 1) + 1] /\ g[k + 1] = f[s[1]] + h[k]
    BY <1>1, <1>5
  <2>2. g[(k + 1) + 1] = g[k + 1] + f[s[(k + 1) + 1]] /\ h[k + 1] = h[k] + f[t[k + 1]]
    BY <1>2, <1>3, <2>1
  <2>3. h[k] \in Nat /\ f[s[1]] \in Nat /\ f[t[k + 1]] \in Nat
    <3>1. k \in 0..Len(t) /\ t[k + 1] \in X
      BY <1>1, <2>1, ElementOfSeq
    <3> QED BY <1>1, <3>1
  <2> QED BY <2>1, <2>2, <2>3
<1>6. g[(n - 1) + 1] = f[s[1]] + h[n - 1]
  <2> HIDE DEF B
  <2>1. n - 1 \in Nat
    BY <1>1
  <2>2. n - 1 \in B
    BY <1>4, <1>5, <2>1, Counting
  <2> QED BY <2>1, <2>2 DEF B
<1>7. (n - 1) + 1 = n /\ h[n - 1] \in Nat /\ f[s[1]] \in Nat
  <2>1. (n - 1) + 1 = n /\ n - 1 \in 0..Len(t)
    BY <1>1
  <2>2. s[1] \in X
    BY <1>1
  <2> QED BY <2>1, <2>2
<1> QED BY <1>1, <1>2, <1>3, <1>6, <1>7 DEF t
LEMMA Constants ==
  /\ \A j \in Judgment : j \in [Finding -> Verdict]
  /\ \A e \in Entry : e \notin Corpus
  /\ \A e \in Entry, d \in Diff : <<Package[e], d>> \in Corpus
  /\ Everything \notin Entry
  BY FpReportAssumption DEF Corpus, Range

(***************************************************************************)
(* Types.                                                                  *)
(***************************************************************************)
Locked == {"merge", "report", "corpus", "map"}

Request(r) ==
  /\ r = [at |-> r.at, plan |-> r.plan, judged |-> r.judged, evidence |-> r.evidence, diff |-> r.diff]
  /\ r.at \in {"idle", "lock"} \cup Locked
  /\ IsMapping(r.plan)
  /\ DOMAIN r.judged \subseteq Entry /\ \A e \in DOMAIN r.judged : r.judged[e] \in Judgment
  /\ \A e \in DOMAIN r.judged : r.evidence[e] \in Evidence
  /\ r.diff \in Diff \cup {NoDiff}

Verification(v) ==
  /\ v = [at |-> v.at, target |-> v.target, read |-> v.read, listed |-> v.listed]
  /\ v.at \in {"idle", "read", "list", "analyse", "verified", "refused"}
  /\ v.target \in Entry \cup {Everything}
  /\ IsMapping(v.read) /\ IsMapping(v.listed)

\* Whoever is past the lock holds it, alone.
Exclusive ==
  /\ lock = {w \in Writer : writer[w].at \in Locked}
  /\ \A v, w \in lock : v = w

Typed ==
  /\ IsMapping(mapping) /\ files \subseteq Entry \cup Corpus
  /\ writer = [w \in Writer |-> writer[w]] /\ \A w \in Writer : Request(writer[w])
  /\ Verification(verifier)
  /\ reports \in 0..MaxReports /\ breaks \in 0..MaxBreaks
  /\ Exclusive

(***************************************************************************)
(* What a writer under the lock is about to publish.                       *)
(***************************************************************************)
\* Its plan is the mapping as it is, with what the request brings.
Planned(r) ==
  /\ DOMAIN r.plan = DOMAIN mapping \cup DOMAIN r.judged
  /\ \A e \in DOMAIN r.judged : r.plan[e] = Merged(e, r) /\ Accepted(e, r)
  /\ \A e \in DOMAIN mapping \ DOMAIN r.judged : r.plan[e] = mapping[e]

Staged(r) ==
  /\ r.at \in {"report", "corpus", "map"} => Planned(r)
  /\ r.at \in {"corpus", "map"} => DOMAIN r.judged \subseteq files
  /\ r.at = "map" => \A e \in DOMAIN r.judged : Reproducer(r, e) \subseteq files

\* What the verifier listed is registered in what it had read.
Surveyed ==
  verifier.at \in {"analyse", "verified"} =>
    \A e \in DOMAIN verifier.listed : verifier.listed[e].corpus \subseteq Corpora(verifier.read, DOMAIN verifier.read)

Inv == Typed /\ MappingHolds /\ (\A w \in Writer : Staged(writer[w])) /\ Surveyed /\ VerifiedMissesNone

(***************************************************************************)
(* Records, kept apart from what they hold.                                *)
(***************************************************************************)
LEMMA IdleRequest == Request(Idle) /\ Idle.at = "idle"
<1>1. IsMapping(<<>>) /\ DOMAIN <<>> = {}
  BY DEF IsMapping
<1> QED BY <1>1 DEF Request, Idle

LEMMA ReadyVerification == Verification(Ready) /\ Ready.at = "idle"
<1>1. IsMapping(<<>>)
  BY DEF IsMapping
<1> QED BY <1>1 DEF Verification, Ready

LEMMA WriterChanges ==
  ASSUME NEW f, f = [w \in Writer |-> f[w]], NEW w \in Writer, NEW now, NEW g, g = [f EXCEPT ![w] = now]
  PROVE  /\ g = [v \in Writer |-> g[v]] /\ g[w] = now
         /\ \A v \in Writer : v # w => g[v] = f[v]
  OBVIOUS

LEMMA StepChanges ==
  ASSUME Typed, NEW w \in Writer, NEW at \in {"idle", "lock"} \cup Locked, Step(w, at)
  PROVE  /\ writer' = [v \in Writer |-> writer'[v]]
         /\ \A v \in Writer : v # w => writer'[v] = writer[v]
         /\ Request(writer'[w])
         /\ writer'[w].at = at /\ writer'[w].plan = writer[w].plan /\ writer'[w].judged = writer[w].judged
         /\ writer'[w].evidence = writer[w].evidence /\ writer'[w].diff = writer[w].diff
<1> DEFINE r == writer[w]
           now == [at |-> at, plan |-> r.plan, judged |-> r.judged, evidence |-> r.evidence, diff |-> r.diff]
<1>1. Request(r)
  BY DEF Typed
<1>2. writer' = [writer EXCEPT ![w] = now]
  <2>1. r = [at |-> r.at, plan |-> r.plan, judged |-> r.judged, evidence |-> r.evidence, diff |-> r.diff]
    BY <1>1 DEF Request
  <2>2. [r EXCEPT !.at = at] = now
    BY <2>1
  <2>3. writer' = [writer EXCEPT ![w] = [@ EXCEPT !.at = at]]
    BY DEF Step
  <2> QED BY <2>2, <2>3
<1>3. Request(now)
  BY <1>1 DEF Request
<1> QED BY <1>2, <1>3, WriterChanges DEF Typed

LEMMA RetireChanges ==
  ASSUME Typed, NEW w \in Writer, Retire(w)
  PROVE  /\ writer' = [v \in Writer |-> writer'[v]]
         /\ \A v \in Writer : v # w => writer'[v] = writer[v]
         /\ Request(writer'[w]) /\ writer'[w].at = "idle"
         /\ lock' = lock \ {w}
  BY IdleRequest, WriterChanges DEF Typed, Retire

\* A merged entry is an entry.
LEMMA OldTyped ==
  ASSUME IsMapping(mapping), NEW e \in Entry
  PROVE  Old(e).verdict \in [Finding -> Verdict] /\ Old(e).corpus \subseteq Corpus
  BY DEF Old, IsMapping, Record, Verdict

LEMMA MergedTyped ==
  ASSUME IsMapping(mapping), NEW r, Request(r), NEW e \in DOMAIN r.judged
  PROVE  Merged(e, r) \in Record
<1>1. e \in Entry /\ r.judged[e] \in [Finding -> Verdict] /\ r.evidence[e] \in Evidence /\ r.diff \in Diff \cup {NoDiff}
  BY Constants DEF Request
<1>2. Reproducer(r, e) \subseteq Corpus
  BY <1>1, Constants DEF Reproducer
<1>3. [i \in Finding |-> IF r.judged[e][i] # "none" THEN r.judged[e][i] ELSE Old(e).verdict[i]] \in [Finding -> Verdict]
  BY <1>1, OldTyped
<1> QED BY <1>1, <1>2, <1>3, OldTyped DEF Merged, Record

LEMMA InitInv == Init => Inv
<1> SUFFICES ASSUME Init PROVE Inv
  OBVIOUS
<1> USE DEF Init
<1>1. \A w \in Writer : writer[w] = Idle
  OBVIOUS
<1>2. reports \in 0..MaxReports /\ breaks \in 0..MaxBreaks
  BY FpReportAssumption
<1>3. Exclusive
  BY <1>1, IdleRequest DEF Exclusive, Locked
<1>4. IsMapping(mapping) /\ DOMAIN mapping = {}
  BY DEF IsMapping
<1>5. Typed
  BY <1>1, <1>2, <1>3, <1>4, IdleRequest, ReadyVerification DEF Typed
<1>6. \A w \in Writer : Staged(writer[w])
  BY <1>1, IdleRequest DEF Staged
<1>7. MappingHolds /\ Surveyed /\ VerifiedMissesNone
  BY <1>4, ReadyVerification DEF MappingHolds, Surveyed, VerifiedMissesNone
<1> QED BY <1>5, <1>6, <1>7 DEF Inv

\* The lock is that of the writers past it.
LEMMA LockStays ==
  ASSUME Typed, NEW w \in Writer, writer[w].at \in Locked, writer'[w].at \in Locked, UNCHANGED lock,
         \A v \in Writer : v # w => writer'[v] = writer[v]
  PROVE  Exclusive'
  BY DEF Typed, Exclusive

LEMMA LockLeft ==
  ASSUME Typed, NEW w \in Writer, writer'[w].at \notin Locked, lock' = lock \ {w},
         \A v \in Writer : v # w => writer'[v] = writer[v]
  PROVE  Exclusive'
  BY DEF Typed, Exclusive

LEMMA TypeStep ==
  ASSUME Typed, [Next]_vars
  PROVE  Typed'
<1> USE DEF Locked
<1>1. ASSUME NEW w \in Writer, NEW chosen \in SUBSET Entry, NEW diff \in Diff \cup {NoDiff}, Ask(w, chosen, diff)
      PROVE  Typed'
  <2>1. PICK judged \in [chosen -> Judgment], evidence \in Gathered(chosen) :
          writer' = [writer EXCEPT ![w] = [at |-> "lock", plan |-> <<>>, judged |-> judged, evidence |-> evidence, diff |-> diff]]
    BY <1>1 DEF Ask
  <2> DEFINE now == [at |-> "lock", plan |-> <<>>, judged |-> judged, evidence |-> evidence, diff |-> diff]
  <2>2. writer' = [writer EXCEPT ![w] = now]
    BY <2>1
  <2>3. evidence \in [chosen -> Evidence]
    BY DEF Gathered
  <2>4. Request(now)
    <3>1. IsMapping(<<>>)
      BY DEF IsMapping
    <3> QED BY <2>3, <3>1 DEF Request
  <2>5. /\ writer' = [v \in Writer |-> writer'[v]] /\ writer'[w] = now
        /\ \A v \in Writer : v # w => writer'[v] = writer[v]
    BY <2>2, WriterChanges DEF Typed
  <2>6. w \notin lock
    BY <1>1 DEF Ask, Typed, Exclusive
  <2>7. Exclusive'
    BY <1>1, <2>5, <2>6, LockLeft DEF Ask
  <2>8. reports' \in 0..MaxReports
    BY <1>1, FpReportAssumption DEF Ask, Typed
  <2> QED BY <1>1, <2>4, <2>5, <2>7, <2>8 DEF Ask, Typed
<1>2. ASSUME NEW w \in Writer, Lock(w) PROVE Typed'
  <2>1. Step(w, "merge") /\ lock' = {w} /\ lock = {}
    BY <1>2 DEF Lock
  <2>2. Exclusive'
    BY <2>1, StepChanges DEF Typed, Exclusive
  <2> QED BY <1>2, <2>1, <2>2, StepChanges DEF Lock, Typed
<1>3. ASSUME NEW w \in Writer, TimesOut(w) PROVE Typed'
  BY <1>3, RetireChanges, LockLeft DEF TimesOut, Typed
<1>4. ASSUME NEW w \in Writer, Merge(w) PROVE Typed'
  <2> DEFINE r == writer[w]
             chosen == DOMAIN r.judged
             plan == [e \in DOMAIN mapping \cup chosen |-> IF e \in chosen THEN Merged(e, r) ELSE mapping[e]]
  <2>1. CASE \A e \in chosen : Accepted(e, r)
    <3> DEFINE now == [at |-> "report", plan |-> plan, judged |-> r.judged, evidence |-> r.evidence, diff |-> r.diff]
    <3>1. Request(r)
      BY DEF Typed
    <3>2. IsMapping(plan)
      <4>1. \A e \in chosen : Merged(e, r) \in Record
        BY <3>1, MergedTyped DEF Typed
      <4> QED BY <3>1, <4>1 DEF IsMapping, Typed, Request
    <3>3. Request(now)
      <4> HIDE DEF plan
      <4> QED BY <3>1, <3>2 DEF Request
    <3>4. writer' = [writer EXCEPT ![w] = now] /\ UNCHANGED lock
      BY <1>4, <2>1 DEF Merge
    <3> HIDE DEF plan, now
    <3>5. /\ writer' = [v \in Writer |-> writer'[v]] /\ writer'[w] = now
          /\ \A v \in Writer : v # w => writer'[v] = writer[v]
      BY <3>4, WriterChanges DEF Typed
    <3>6. Exclusive'
      BY <1>4, <3>4, <3>5, LockStays DEF Merge, now
    <3> QED BY <1>4, <3>3, <3>5, <3>6 DEF Merge, Typed
  <2>2. CASE ~ \A e \in chosen : Accepted(e, r)
    <3>1. Retire(w)
      BY <1>4, <2>2 DEF Merge
    <3> QED BY <1>4, <3>1, RetireChanges, LockLeft DEF Merge, Typed
  <2> QED BY <2>1, <2>2
<1>5. ASSUME NEW w \in Writer, NEW e \in Entry, WriteReport(w, e) PROVE Typed'
  <2>1. PICK at \in {"corpus", "report"} : Step(w, at)
    BY <1>5 DEF WriteReport
  <2>2. Exclusive'
    BY <1>5, <2>1, StepChanges, LockStays DEF WriteReport
  <2> QED BY <1>5, <2>1, <2>2, StepChanges DEF WriteReport, Typed
<1>6. ASSUME NEW w \in Writer, WriteCorpus(w) PROVE Typed'
  <2>1. Step(w, "map")
    BY <1>6 DEF WriteCorpus
  <2>2. Exclusive'
    BY <1>6, <2>1, StepChanges, LockStays DEF WriteCorpus
  <2>3. \A e \in DOMAIN writer[w].judged : Reproducer(writer[w], e) \subseteq Corpus
    BY Constants DEF Typed, Request, Reproducer
  <2>4. files' \subseteq Entry \cup Corpus
    BY <1>6, <2>3 DEF WriteCorpus, Typed
  <2> QED BY <1>6, <2>1, <2>2, <2>4, StepChanges DEF WriteCorpus, Typed
<1>7. ASSUME NEW w \in Writer, WriteMapping(w) PROVE Typed'
  <2>1. Retire(w) /\ IsMapping(mapping')
    BY <1>7 DEF WriteMapping, Typed, Request
  <2>2. Exclusive'
    BY <2>1, RetireChanges, LockLeft
  <2> QED BY <1>7, <2>1, <2>2, RetireChanges DEF WriteMapping, Typed
<1>8. ASSUME NEW w \in Writer, Break(w) PROVE Typed'
  <2>1. breaks' \in 0..MaxBreaks
    BY <1>8, FpReportAssumption DEF Break, Typed
  <2> QED BY <1>8, <2>1, RetireChanges, LockLeft DEF Break, Typed
<1>9. ASSUME NEW target \in Entry \cup {Everything}, Open(target) PROVE Typed'
  <2> DEFINE now == [at |-> "read", target |-> target, read |-> mapping, listed |-> <<>>]
  <2>1. verifier' = now
    BY <1>9 DEF Open, Ready
  <2>2. Verification(now)
    <3>1. IsMapping(<<>>)
      BY DEF IsMapping
    <3> QED BY <3>1 DEF Verification, Typed
  <2> QED BY <1>9, <2>1, <2>2 DEF Open, Typed, Exclusive
<1>10. ASSUME ReadFiles PROVE Typed'
  <2>1. PICK at \in {"list", "refused"} : verifier' = [verifier EXCEPT !.at = at]
    BY <1>10 DEF ReadFiles
  <2>2. Verification(verifier')
    BY <2>1 DEF Verification, Typed
  <2> QED BY <1>10, <2>2 DEF ReadFiles, Typed, Exclusive
<1>11. ASSUME List PROVE Typed'
  <2>1. PICK at \in {"analyse", "refused"} : verifier' = [verifier EXCEPT !.listed = mapping, !.at = at]
    BY <1>11 DEF List
  <2>2. Verification(verifier')
    BY <2>1 DEF Verification, Typed
  <2> QED BY <1>11, <2>2 DEF List, Typed, Exclusive
<1>12. ASSUME Analyse PROVE Typed'
  <2>1. PICK at \in {"verified", "refused"} : verifier' = [verifier EXCEPT !.at = at]
    BY <1>12 DEF Analyse
  <2>2. Verification(verifier')
    BY <2>1 DEF Verification, Typed
  <2> QED BY <1>12, <2>2 DEF Analyse, Typed, Exclusive
<1>13. ASSUME Answer PROVE Typed'
  BY <1>13, ReadyVerification DEF Answer, Typed, Exclusive
<1>14. ASSUME UNCHANGED vars PROVE Typed'
  BY <1>14 DEF vars, Typed, Exclusive
<1> QED BY <1>1, <1>2, <1>3, <1>4, <1>5, <1>6, <1>7, <1>8, <1>9, <1>10, <1>11, <1>12, <1>13, <1>14 DEF Next, Writes

(***************************************************************************)
(* What is written before the mapping names it.                            *)
(***************************************************************************)
LEMMA FilesStay ==
  ASSUME Typed, [Next]_vars
  PROVE  files \subseteq files'
  BY DEF Next, Writes, Ask, Lock, TimesOut, Merge, WriteReport, WriteCorpus, WriteMapping, Break,
         Open, ReadFiles, List, Analyse, Answer, vars

LEMMA MappingStays ==
  ASSUME [Next]_vars
  PROVE  mapping' = mapping \/ \E w \in Writer : WriteMapping(w)
  BY DEF Next, Writes, Ask, Lock, TimesOut, Merge, WriteReport, WriteCorpus, Break,
         Open, ReadFiles, List, Analyse, Answer, vars

LEMMA StagedStays ==
  ASSUME NEW w \in Writer, writer'[w] = writer[w], Staged(writer[w]),
         mapping' = mapping \/ writer[w].at \notin {"report", "corpus", "map"}, files \subseteq files'
  PROVE  Staged(writer[w])'
  BY DEF Staged, Planned, Merged, Accepted, Old, Reproducer

LEMMA StagedIdly ==
  ASSUME NEW w \in Writer, writer'[w].at \notin {"report", "corpus", "map"}
  PROVE  Staged(writer[w])'
  BY DEF Staged

\* A step under the lock keeps the plan.
LEMMA PlannedStays ==
  ASSUME Typed, NEW w \in Writer, NEW at \in Locked, Step(w, at), Planned(writer[w]), UNCHANGED mapping
  PROVE  Planned(writer[w])'
<1>1. /\ writer'[w].plan = writer[w].plan /\ writer'[w].judged = writer[w].judged
      /\ writer'[w].evidence = writer[w].evidence /\ writer'[w].diff = writer[w].diff
  BY StepChanges
<1> QED BY <1>1 DEF Planned, Merged, Accepted, Old, Reproducer

LEMMA StagedStep ==
  ASSUME Typed, \A w \in Writer : Staged(writer[w]), [Next]_vars
  PROVE  \A w \in Writer : Staged(writer[w])'
<1>0. ASSUME NEW w \in Writer, \A v \in Writer : v # w => writer'[v] = writer[v],
             UNCHANGED mapping \/ w \in lock, Staged(writer[w])'
      PROVE  \A v \in Writer : Staged(writer[v])'
  <2> SUFFICES ASSUME NEW v \in Writer, v # w PROVE Staged(writer[v])'
    BY <1>0
  <2>1. UNCHANGED mapping \/ writer[v].at \notin {"report", "corpus", "map"}
    BY <1>0 DEF Typed, Exclusive, Locked
  <2> QED BY <1>0, <2>1, FilesStay, StagedStays
<1>1. ASSUME NEW w \in Writer, NEW chosen \in SUBSET Entry, NEW diff \in Diff \cup {NoDiff}, Ask(w, chosen, diff)
      PROVE  \A v \in Writer : Staged(writer[v])'
  <2>1. PICK now : now.at = "lock" /\ writer' = [writer EXCEPT ![w] = now]
    BY <1>1 DEF Ask
  <2>2. writer'[w].at = "lock" /\ \A v \in Writer : v # w => writer'[v] = writer[v]
    BY <2>1, WriterChanges DEF Typed
  <2> QED BY <1>0, <1>1, <2>2, StagedIdly DEF Ask
<1>2. ASSUME NEW w \in Writer, Lock(w) PROVE \A v \in Writer : Staged(writer[v])'
  <2>1. writer'[w].at = "merge" /\ \A v \in Writer : v # w => writer'[v] = writer[v]
    BY <1>2, StepChanges DEF Lock, Locked
  <2> QED BY <1>0, <1>2, <2>1, StagedIdly DEF Lock
<1>3. ASSUME NEW w \in Writer, Retire(w), UNCHANGED mapping \/ w \in lock PROVE \A v \in Writer : Staged(writer[v])'
  <2>1. writer'[w].at = "idle" /\ \A v \in Writer : v # w => writer'[v] = writer[v]
    BY <1>3, RetireChanges
  <2> QED BY <1>0, <1>3, <2>1, StagedIdly
<1>4. ASSUME NEW w \in Writer, Merge(w) PROVE \A v \in Writer : Staged(writer[v])'
  <2> DEFINE r == writer[w]
             chosen == DOMAIN r.judged
             plan == [e \in DOMAIN mapping \cup chosen |-> IF e \in chosen THEN Merged(e, r) ELSE mapping[e]]
  <2>1. CASE \A e \in chosen : Accepted(e, r)
    <3> DEFINE now == [at |-> "report", plan |-> plan, judged |-> r.judged, evidence |-> r.evidence, diff |-> r.diff]
    <3>1. writer' = [writer EXCEPT ![w] = now]
      BY <1>4, <2>1 DEF Merge
    <3> HIDE DEF now
    <3>2. writer'[w] = now /\ \A v \in Writer : v # w => writer'[v] = writer[v]
      BY <3>1, WriterChanges DEF Typed
    <3>3. /\ writer'[w].at = "report" /\ writer'[w].plan = plan /\ writer'[w].judged = r.judged
          /\ writer'[w].evidence = r.evidence /\ writer'[w].diff = r.diff
      BY <3>2 DEF now
    <3>4. UNCHANGED mapping
      BY <1>4 DEF Merge
    <3>5. \A e \in chosen : Merged(e, writer[w])' = Merged(e, r) /\ Accepted(e, writer[w])'
      <4> SUFFICES ASSUME NEW e \in chosen PROVE Merged(e, writer[w])' = Merged(e, r) /\ Accepted(e, writer[w])'
        OBVIOUS
      <4>1. Merged(e, writer[w])' = Merged(e, r)
        BY <3>3, <3>4 DEF Merged, Old, Reproducer
      <4>2. Accepted(e, r)
        BY <2>1
      <4>3. Accepted(e, writer[w])'
        BY <3>3, <3>4, <4>1, <4>2 DEF Accepted
      <4> QED BY <4>1, <4>3
    <3>6. Planned(writer[w])'
      BY <3>3, <3>4, <3>5 DEF Planned
    <3>7. Staged(writer[w])'
      BY <3>3, <3>6 DEF Staged
    <3> QED BY <1>0, <3>2, <3>4, <3>7
  <2>2. CASE ~ \A e \in chosen : Accepted(e, r)
    BY <1>3, <1>4, <2>2 DEF Merge
  <2> QED BY <2>1, <2>2
<1>5. ASSUME NEW w \in Writer, NEW e \in Entry, WriteReport(w, e) PROVE \A v \in Writer : Staged(writer[v])'
  <2>1. PICK at \in {"corpus", "report"} : Step(w, at) /\ (at = "corpus" => DOMAIN writer[w].judged \subseteq files')
    BY <1>5 DEF WriteReport
  <2>2. Planned(writer[w])'
    BY <1>5, <2>1, PlannedStays DEF WriteReport, Staged, Locked
  <2>3. Staged(writer[w])'
    BY <2>1, <2>2, StepChanges DEF Staged, Locked
  <2> QED BY <1>0, <1>5, <2>1, <2>3, StepChanges DEF WriteReport, Locked
<1>6. ASSUME NEW w \in Writer, WriteCorpus(w) PROVE \A v \in Writer : Staged(writer[v])'
  <2>1. Step(w, "map") /\ UNCHANGED mapping
    BY <1>6 DEF WriteCorpus
  <2>2. Planned(writer[w])'
    BY <1>6, <2>1, PlannedStays DEF WriteCorpus, Staged, Locked
  <2>3. DOMAIN writer[w].judged \subseteq files'
    BY <1>6, FilesStay DEF WriteCorpus, Staged
  <2>4. \A e \in DOMAIN writer[w].judged : Reproducer(writer[w], e) \subseteq files'
    BY <1>6 DEF WriteCorpus
  <2>5. writer'[w].judged = writer[w].judged /\ writer'[w].diff = writer[w].diff /\ writer'[w].at = "map"
    BY <2>1, StepChanges DEF Locked
  <2>6. Staged(writer[w])'
    BY <2>2, <2>3, <2>4, <2>5 DEF Staged, Reproducer
  <2> QED BY <1>0, <2>1, <2>6, StepChanges DEF Locked
<1>7. ASSUME NEW w \in Writer, WriteMapping(w) PROVE \A v \in Writer : Staged(writer[v])'
  <2>1. w \in lock /\ Retire(w)
    BY <1>7 DEF WriteMapping, Typed, Exclusive, Locked
  <2> QED BY <1>3, <2>1
<1>8. ASSUME UNCHANGED <<writer, mapping>> PROVE \A v \in Writer : Staged(writer[v])'
  BY <1>8, FilesStay, StagedStays
<1>9. ASSUME NEW w \in Writer, TimesOut(w) \/ Break(w) PROVE \A v \in Writer : Staged(writer[v])'
  BY <1>3, <1>9 DEF TimesOut, Break
<1>10. ASSUME ReadFiles \/ List \/ Analyse \/ Answer \/ (\E target \in Entry \cup {Everything} : Open(target))
       PROVE  UNCHANGED <<writer, mapping>>
  BY <1>10 DEF ReadFiles, List, Analyse, Answer, Open
<1> QED BY <1>1, <1>2, <1>4, <1>5, <1>6, <1>7, <1>8, <1>9, <1>10 DEF Next, Writes, vars

(***************************************************************************)
(* The mapping, and what a verification has seen of it.                    *)
(***************************************************************************)
LEMMA MappingStep ==
  ASSUME Typed, MappingHolds, \A w \in Writer : Staged(writer[w]), [Next]_vars
  PROVE  MappingHolds'
<1>1. CASE UNCHANGED mapping
  BY <1>1, FilesStay DEF MappingHolds
<1>2. CASE \E w \in Writer : WriteMapping(w)
  <2>1. PICK w \in Writer : WriteMapping(w)
    BY <1>2
  <2> DEFINE r == writer[w]
  <2>2. /\ mapping' = r.plan /\ files' = files /\ Planned(r) /\ DOMAIN r.judged \subseteq files
        /\ \A e \in DOMAIN r.judged : Reproducer(r, e) \subseteq files
    BY <2>1 DEF WriteMapping, Staged
  <2> SUFFICES ASSUME NEW e \in DOMAIN r.plan
               PROVE  /\ {e} \cup r.plan[e].corpus \subseteq files
                      /\ r.plan[e].corpus # {} => Benign(r.plan[e].verdict)
    BY <2>2 DEF MappingHolds
  <2>3. CASE e \in DOMAIN r.judged
    <3>1. r.plan[e] = Merged(e, r) /\ Accepted(e, r)
      BY <2>2, <2>3 DEF Planned
    <3>2. Merged(e, r).corpus = Old(e).corpus \cup Reproducer(r, e)
      BY DEF Merged
    <3>3. Old(e).corpus \subseteq files
      BY DEF Old, MappingHolds
    <3> QED BY <2>2, <2>3, <3>1, <3>2, <3>3 DEF Accepted
  <2>4. CASE e \notin DOMAIN r.judged
    BY <2>2, <2>4 DEF Planned, MappingHolds
  <2> QED BY <2>3, <2>4
<1> QED BY <1>1, <1>2, MappingStays

LEMMA SurveyedStep ==
  ASSUME Typed, MappingHolds, Surveyed, [Next]_vars
  PROVE  Surveyed'
<1>1. ASSUME UNCHANGED verifier PROVE Surveyed'
  BY <1>1 DEF Surveyed
<1>2. ASSUME NEW w \in Writer, Writes(w) PROVE UNCHANGED verifier
  BY <1>2 DEF Writes, Ask, Lock, TimesOut, Merge, WriteReport, WriteCorpus, WriteMapping, Break
<1>3. ASSUME NEW target \in Entry \cup {Everything}, Open(target) PROVE Surveyed'
  BY <1>3 DEF Open, Surveyed, Ready
<1>4. ASSUME ReadFiles PROVE Surveyed'
  BY <1>4 DEF ReadFiles, Surveyed, Typed, Verification
<1>5. ASSUME List PROVE Surveyed'
  <2> SUFFICES ASSUME verifier'.at = "analyse", NEW e \in DOMAIN mapping, NEW d \in mapping[e].corpus
               PROVE  d \in Corpora(verifier.read, DOMAIN verifier.read)
    <3>1. verifier'.listed = mapping /\ verifier'.read = verifier.read /\ verifier'.at \in {"analyse", "refused"}
      BY <1>5 DEF List, Typed, Verification
    <3> QED BY <3>1 DEF Surveyed
  <2>1. files \ Entry \subseteq Corpora(verifier.read, DOMAIN verifier.read)
    BY <1>5 DEF List, Typed, Verification
  <2>2. d \in files /\ d \in Corpus
    BY DEF MappingHolds, Typed, IsMapping, Record
  <2> QED BY <2>1, <2>2, Constants
<1>6. ASSUME Analyse PROVE Surveyed'
  <2>1. verifier'.listed = verifier.listed /\ verifier'.read = verifier.read /\ verifier.at = "analyse"
    BY <1>6 DEF Analyse, Typed, Verification
  <2> QED BY <2>1 DEF Surveyed
<1>7. ASSUME Answer PROVE Surveyed'
  BY <1>7, ReadyVerification DEF Answer, Surveyed
<1> QED BY <1>1, <1>2, <1>3, <1>4, <1>5, <1>6, <1>7 DEF Next, vars

LEMMA VerifiedStep ==
  ASSUME Typed, Surveyed, VerifiedMissesNone, [Next]_vars
  PROVE  VerifiedMissesNone'
<1>1. ASSUME UNCHANGED verifier PROVE VerifiedMissesNone'
  BY <1>1 DEF VerifiedMissesNone
<1>2. ASSUME NEW w \in Writer, Writes(w) PROVE UNCHANGED verifier
  BY <1>2 DEF Writes, Ask, Lock, TimesOut, Merge, WriteReport, WriteCorpus, WriteMapping, Break
<1>3. ASSUME Answer \/ ReadFiles \/ List \/ \E target \in Entry \cup {Everything} : Open(target)
      PROVE  verifier'.at # "verified"
  BY <1>3, ReadyVerification DEF Open, Ready, ReadFiles, List, Answer, Typed, Verification
<1>4. ASSUME Analyse PROVE VerifiedMissesNone'
  <2>1. /\ verifier'.listed = verifier.listed /\ verifier'.read = verifier.read /\ verifier'.target = verifier.target
        /\ verifier.at = "analyse"
    BY <1>4 DEF Analyse, Typed, Verification
  <2>2. verifier'.at = "verified" => Corpora(verifier.read, Selected(verifier)) \subseteq Passes
    BY <1>4 DEF Analyse, Typed, Verification
  <2>3. verifier.target = Everything => Selected(verifier) = DOMAIN verifier.read
    BY DEF Selected
  <2>4. \A e \in DOMAIN verifier.listed : verifier.listed[e].corpus \subseteq Corpora(verifier.read, DOMAIN verifier.read)
    BY <2>1 DEF Surveyed
  <2> QED BY <2>1, <2>2, <2>3, <2>4 DEF VerifiedMissesNone
<1>5. ASSUME verifier'.at # "verified" PROVE VerifiedMissesNone'
  BY <1>5 DEF VerifiedMissesNone
<1> QED BY <1>1, <1>2, <1>3, <1>4, <1>5 DEF Next, vars

LEMMA InvStep == Inv /\ [Next]_vars => Inv'
  BY TypeStep, MappingStep, StagedStep, SurveyedStep, VerifiedStep DEF Inv

LEMMA Invariant == Spec => []Inv
<1>1. Inv /\ [Next]_vars => Inv'
  BY InvStep
<1> QED BY InitInv, <1>1, PTL DEF Spec

\* The types of the directory, its writers and its verifier, for any day.
THEOREM TypeCorrect == Spec => []TypeOK
<1>1. Inv => TypeOK
  BY DEF Inv, Typed, Exclusive, Request, Verification, Locked, TypeOK
<1> QED BY Invariant, <1>1, PTL

\* The mapping names only what is in the directory and keeps a reproducer
\* only under benign verdicts, wherever a writer is killed: write_report
\* replaces the mapping last, and under the lock.
THEOREM MappingNamesFiles == Spec => []MappingHolds
<1>1. Inv => MappingHolds
  BY DEF Inv
<1> QED BY Invariant, <1>1, PTL

\* A verification that succeeds has analysed what was registered when it
\* listed the directory, without taking the writers' lock.
THEOREM NothingRegisteredIsMissed == Spec => []VerifiedMissesNone
<1>1. Inv => VerifiedMissesNone
  BY DEF Inv
<1> QED BY Invariant, <1>1, PTL

\* What a report replaces, it carries over: a writer's plan is made of the
\* mapping it replaces, which nobody else can have replaced meanwhile.
LEMMA CarriedOver ==
  ASSUME Typed, \A w \in Writer : Staged(writer[w]), [Next]_vars, NEW e \in DOMAIN mapping
  PROVE  /\ e \in DOMAIN mapping' /\ mapping'[e].evidence = mapping[e].evidence
         /\ mapping[e].corpus \subseteq mapping'[e].corpus
         /\ \A i \in Finding : mapping[e].verdict[i] # "none" => mapping'[e].verdict[i] # "none"
<1>1. CASE UNCHANGED mapping
  BY <1>1
<1>2. CASE \E w \in Writer : WriteMapping(w)
  <2>1. PICK w \in Writer : WriteMapping(w)
    BY <1>2
  <2> DEFINE r == writer[w]
  <2>2. mapping' = r.plan /\ Planned(r)
    BY <2>1 DEF WriteMapping, Staged
  <2>3. e \in DOMAIN r.plan
    BY <2>2 DEF Planned
  <2>4. CASE e \in DOMAIN r.judged
    <3>1. mapping'[e] = Merged(e, r) /\ Accepted(e, r)
      BY <2>2, <2>4 DEF Planned
    <3>2. Old(e) = mapping[e]
      BY DEF Old
    <3>3. Merged(e, r).evidence = r.evidence[e] /\ mapping[e].evidence = r.evidence[e]
      BY <3>1 DEF Merged, Accepted
    <3>4. mapping[e].corpus \subseteq Merged(e, r).corpus
      BY <3>2 DEF Merged
    <3>5. ASSUME NEW i \in Finding, mapping[e].verdict[i] # "none" PROVE Merged(e, r).verdict[i] # "none"
      BY <3>2, <3>5 DEF Merged
    <3> QED BY <2>2, <2>3, <3>1, <3>3, <3>4, <3>5
  <2>5. CASE e \notin DOMAIN r.judged
    BY <2>2, <2>3, <2>5 DEF Planned
  <2> QED BY <2>4, <2>5
<1> QED BY <1>1, <1>2, MappingStays

\* No report forgets an entry, a verdict, a reproducer or the evidence, for
\* any number of authors who start from the same mapping.
THEOREM ReportsForgetNothing == Spec => NothingForgotten
<1>1. Inv /\ [Next]_vars =>
        \A e \in DOMAIN mapping :
          /\ e \in DOMAIN mapping' /\ mapping'[e].evidence = mapping[e].evidence
          /\ mapping[e].corpus \subseteq mapping'[e].corpus
          /\ \A i \in Finding : mapping[e].verdict[i] # "none" => mapping'[e].verdict[i] # "none"
  BY CarriedOver DEF Inv
<1> QED BY Invariant, <1>1, PTL DEF Spec, NothingForgotten

(***************************************************************************)
(* The server's jobs and tools, for any number of both.                    *)
(***************************************************************************)
LEMMA ServerConstants ==
  /\ Job \subseteq Nat /\ Nobody \notin Actor /\ Scratch \notin Actor /\ Nobody # Scratch
  /\ Call \cap Job = {}
  BY JobsAssumption DEF Actor

Threads == {"none", "lost", "lock", "out", "over"} \cup Inside
JobRec == [status : Status, finished : Nat, timer : {"none", "armed", "off"}, thread : Threads]
CallRec == [tool : Tools, at : {"idle", "lock", "shown", "done"} \cup Inside, job : Job \cup {Nobody}]

ServerTyped ==
  /\ job \in [Job -> JobRec] /\ clock \in Nat /\ settling \in Job \cup {Nobody}
  /\ call \in [Call -> CallRec]
  /\ told \in [Job -> SUBSET Status]

\* A call has chosen no tool before it starts, and keeps the one it has.
Unstarted == \A c \in Call : At(c, "idle") => call[c].tool = "poll"

\* What has been told of a job is the outcome it has.
ToldAsIs == \A j \in Job : told[j] \subseteq {job[j].status} \ {"running"}

(***************************************************************************)
(* Who is inside, and whose the paths are.                                 *)
(***************************************************************************)
In(a) == \E step \in Inside : At(a, step)
Lockless(a) == Uses(a, "benign")

\* Every tool but the benign one is inside under the lock.
Guarded == \A a \in Actor : In(a) /\ ~Lockless(a) => analysisLock = a

\* From its bind to its last use of the paths a tool finds its own
\* environment, or that of a tool that takes no lock.
Pointed ==
  \A a \in Actor : (At(a, "fill") \/ At(a, "load")) /\ ~Lockless(a) => bound = Env(a) \/ Lockless(bound)

JobsInv == ServerTyped /\ Unstarted /\ ToldAsIs /\ Guarded /\ Pointed /\ OwnBindings

LEMMA ServerStarts == ServerInit => JobsInv
<1> SUFFICES ASSUME ServerInit PROVE JobsInv
  OBVIOUS
<1> USE DEF ServerInit
<1>1. ServerTyped
  BY DEF ServerTyped, JobRec, CallRec, Threads, Tools, Status
<1>2. Unstarted /\ ToldAsIs /\ OwnBindings
  BY DEF Unstarted, At, ToldAsIs, OwnBindings
<1>3. ASSUME NEW a \in Actor PROVE ~ In(a)
  BY DEF In, At, Inside, Actor
<1>4. Guarded /\ Pointed
  BY <1>3 DEF Guarded, Pointed, In, Inside
<1> QED BY <1>1, <1>2, <1>4 DEF JobsInv

(***************************************************************************)
(* The effect of each action on one job, one call.                         *)
(***************************************************************************)
LEMMA GoJob ==
  ASSUME ServerTyped, NEW a \in Job, NEW step \in Threads, Go(a, step)
  PROVE  /\ call' = call /\ job' \in [Job -> JobRec]
         /\ \A j \in Job : job'[j].thread = (IF j = a THEN step ELSE job[j].thread)
         /\ \A j \in Job : job'[j].status = job[j].status
  BY DEF Go, Thread, ServerTyped, JobRec

LEMMA GoCall ==
  ASSUME ServerTyped, NEW a \in Call, NEW step \in {"idle", "lock", "shown", "done"} \cup Inside, Go(a, step)
  PROVE  /\ job' = job /\ call' \in [Call -> CallRec]
         /\ \A c \in Call : call'[c].at = (IF c = a THEN step ELSE call[c].at)
         /\ \A c \in Call : call'[c].tool = call[c].tool
  BY ServerConstants DEF Go, ServerTyped, CallRec

\* Whoever goes on, the others stay where they are, with their tools.
LEMMA GoesOn ==
  ASSUME ServerTyped, NEW a \in Actor, NEW step \in {"point", "fill", "load", "run", "out", "done"}, Go(a, step),
         a \in Job => step # "done", a \in Call => step # "out", ~ At(a, "idle")
  PROVE  /\ job' \in [Job -> JobRec] /\ call' \in [Call -> CallRec]
         /\ \A j \in Job : job'[j].status = job[j].status
         /\ \A b \in Actor : \A s : At(b, s)' <=> IF b = a THEN s = step ELSE At(b, s)
         /\ \A b, t : Uses(b, t)' <=> Uses(b, t)
         /\ Unstarted => Unstarted'
<1>1. CASE a \in Job
  <2>1. step \in Threads
    BY <1>1 DEF Threads, Inside
  <2>2. /\ call' = call /\ job' \in [Job -> JobRec]
        /\ \A j \in Job : job'[j].thread = (IF j = a THEN step ELSE job[j].thread)
        /\ \A j \in Job : job'[j].status = job[j].status
    BY <1>1, <2>1, GoJob
  <2> QED BY <1>1, <2>2, ServerConstants DEF At, Uses, Unstarted, ServerTyped, Actor
<1>2. CASE a \in Call
  <2>1. step \in {"idle", "lock", "shown", "done"} \cup Inside
    BY <1>2 DEF Inside
  <2>2. /\ job' = job /\ call' \in [Call -> CallRec]
        /\ \A c \in Call : call'[c].at = (IF c = a THEN step ELSE call[c].at)
        /\ \A c \in Call : call'[c].tool = call[c].tool
    BY <1>2, <2>1, GoCall
  <2>3. a \notin Job
    BY <1>2, ServerConstants
  <2>4. Unstarted => Unstarted'
    BY <2>2, <2>3, ServerConstants DEF At, Unstarted
  <2>5. \A b \in Actor : \A s : At(b, s)' <=> IF b = a THEN s = step ELSE At(b, s)
    BY <2>2, <2>3 DEF At, Actor
  <2>6. \A b, t : Uses(b, t)' <=> Uses(b, t)
    BY <2>2 DEF Uses
  <2> QED BY <2>2, <2>4, <2>5, <2>6, <1>2 DEF ServerTyped
<1> QED BY <1>1, <1>2 DEF Actor

(***************************************************************************)
(* Steps that let nobody in, but without the lock, and move no path.       *)
(***************************************************************************)
Kept == Guarded /\ Pointed /\ OwnBindings

LEMMA Undisturbed ==
  ASSUME Kept, UNCHANGED <<analysisLock, bound, strayed>>,
         \A a \in Actor : \A step \in Inside : At(a, step)' => At(a, step) \/ Lockless(a)',
         \A b : Lockless(b) => Lockless(b)',
         \A a \in Actor : ~ Lockless(a)' /\ In(a) => Env(a)' = Env(a)
  PROVE  Kept'
<1>1. ASSUME NEW a \in Actor, In(a)', ~ Lockless(a)' PROVE In(a) /\ ~ Lockless(a) /\ Env(a)' = Env(a)
  BY <1>1 DEF In
<1>2. Guarded'
  <2>1. ASSUME NEW a \in Actor, In(a)', ~ Lockless(a)' PROVE analysisLock' = a
    BY <1>1, <2>1 DEF Kept, Guarded
  <2> QED BY <2>1 DEF Guarded
<1>3. ASSUME NEW a \in Actor, At(a, "fill")' \/ At(a, "load")', ~ Lockless(a)'
      PROVE  bound' = Env(a)' \/ Lockless(bound)'
  <2>1. In(a)' /\ (At(a, "fill") \/ At(a, "load"))
    BY <1>3 DEF In, Inside
  <2>2. bound = Env(a) \/ Lockless(bound)
    BY <1>1, <1>3, <2>1 DEF Kept, Pointed
  <2> QED BY <1>1, <1>3, <2>1, <2>2
<1>4. Pointed'
  BY <1>3 DEF Pointed
<1>5. OwnBindings'
  BY DEF Kept, OwnBindings, Lockless
<1> QED BY <1>2, <1>4, <1>5 DEF Kept

\* A job's own steps do not put it inside.
LEMMA JobMoves ==
  ASSUME ServerTyped, ToldAsIs, Unstarted, Kept, UNCHANGED <<pathVars, call, told>>,
         job' \in [Job -> JobRec], clock' \in Nat, settling' \in Job \cup {Nobody},
         \A j \in Job : job'[j].thread \in Inside => job'[j].thread = job[j].thread,
         \A j \in Job : job'[j].status # job[j].status => job[j].status = "running"
  PROVE  JobsInv'
<1>1. \A a \in Actor : \A step \in Inside : At(a, step)' => At(a, step)
  BY DEF At, Actor, ServerTyped
<1>2. /\ \A b : Lockless(b)' <=> Lockless(b)
      /\ \A a : Env(a)' = Env(a)
  BY DEF Lockless, Env, Uses
<1>3. Kept'
  BY <1>1, <1>2, Undisturbed DEF pathVars
<1>4. ServerTyped'
  BY DEF ServerTyped
<1>5. ToldAsIs'
  BY DEF ToldAsIs
<1>6. Unstarted'
  BY ServerConstants DEF Unstarted, At
<1> QED BY <1>3, <1>4, <1>5, <1>6 DEF JobsInv, Kept

LEMMA JobSteps ==
  ASSUME JobsInv, NEW j \in Job,
         CreateArmed(j) \/ CreateRefused(j) \/ StartThread(j) \/ NoThread(j) \/ Finishes(j) \/ Settle(j)
  PROVE  JobsInv'
<1> USE DEF JobsInv, Kept
<1>1. CASE CreateArmed(j)
  <2>1. job' = [job EXCEPT ![j].timer = "armed"] /\ UNCHANGED <<settling, clock, pathVars, call, told>>
    BY <1>1 DEF CreateArmed, Create
  <2>2. /\ job' \in [Job -> JobRec]
        /\ \A k \in Job : job'[k].thread = job[k].thread /\ job'[k].status = job[k].status
    BY <2>1 DEF ServerTyped, JobRec
  <2> QED BY <2>1, <2>2, JobMoves DEF ServerTyped
<1>2. ASSUME NEW at \in {"lost", "lock"}, Thread(j, at), UNCHANGED <<settling, clock, pathVars, call, told>>
      PROVE  JobsInv'
  <2>1. at \in Threads /\ at \notin Inside
    BY DEF Threads, Inside
  <2>2. /\ job' \in [Job -> JobRec]
        /\ \A k \in Job : job'[k].thread = (IF k = j THEN at ELSE job[k].thread) /\ job'[k].status = job[k].status
    BY <1>2, <2>1 DEF Thread, ServerTyped, JobRec
  <2> QED BY <1>2, <2>1, <2>2, JobMoves DEF ServerTyped
<1>3. CASE CreateRefused(j) \/ StartThread(j) \/ NoThread(j)
  BY <1>2, <1>3 DEF CreateRefused, StartThread, NoThread, Create
<1>4. ASSUME NEW s \in Status \ {"running"}, NEW worker \in BOOLEAN, Finish(j, s, worker) PROVE JobsInv'
  <2>1. /\ Spent(j, worker) \in JobRec /\ Spent(j, worker).status = job[j].status
        /\ Spent(j, worker).thread \in Inside => Spent(j, worker).thread = job[j].thread
    BY DEF Spent, ServerTyped, JobRec, Threads, Inside
  <2>2. CASE Ended(j)
    <3>1. job' = [job EXCEPT ![j] = Spent(j, worker)] /\ UNCHANGED <<settling, clock, pathVars, call, told>>
      BY <1>4, <2>2 DEF Finish
    <3>2. /\ job' \in [Job -> JobRec] /\ job'[j] = Spent(j, worker)
          /\ \A k \in Job : k # j => job'[k] = job[k]
      BY <2>1, <3>1 DEF ServerTyped
    <3> QED BY <2>1, <3>1, <3>2, JobMoves DEF ServerTyped
  <2>3. CASE ~ Ended(j)
    <3> DEFINE now == [Spent(j, worker) EXCEPT !.status = s]
    <3>1. job' = [job EXCEPT ![j] = now] /\ settling' = j /\ UNCHANGED <<clock, pathVars, call, told>>
      BY <1>4, <2>3 DEF Finish
    <3>2. now \in JobRec /\ now.thread = Spent(j, worker).thread
      BY <2>1 DEF JobRec
    <3> HIDE DEF now
    <3>3. /\ job' \in [Job -> JobRec] /\ job'[j] = now
          /\ \A k \in Job : k # j => job'[k] = job[k]
      BY <3>1, <3>2 DEF ServerTyped
    <3>4. job[j].status = "running"
      BY <2>3 DEF Ended
    <3> QED BY <2>1, <3>1, <3>2, <3>3, <3>4, JobMoves DEF ServerTyped
  <2> QED BY <2>2, <2>3
<1>5. CASE Settle(j)
  <2> DEFINE timer == IF job[j].timer = "armed" THEN "off" ELSE job[j].timer
             half == [job[j] EXCEPT !.finished = clock']
             now == [half EXCEPT !.timer = timer]
  <2>1. /\ job' = [job EXCEPT ![j] = now]
        /\ clock' = clock + 1 /\ settling' = Nobody /\ UNCHANGED <<pathVars, call, told>>
    BY <1>5 DEF Settle
  <2>2. now \in JobRec /\ now.thread = job[j].thread /\ now.status = job[j].status
    <3>1. half \in JobRec /\ half.thread = job[j].thread /\ half.status = job[j].status
      BY <2>1 DEF ServerTyped, JobRec
    <3>2. timer \in {"none", "armed", "off"}
      BY DEF ServerTyped, JobRec
    <3> HIDE DEF half, timer
    <3> QED BY <3>1, <3>2 DEF JobRec
  <2> HIDE DEF now
  <2>3. /\ job' \in [Job -> JobRec]
        /\ \A k \in Job : job'[k].thread = job[k].thread /\ job'[k].status = job[k].status
    BY <2>1, <2>2 DEF ServerTyped
  <2>4. clock' \in Nat
    BY <2>1 DEF ServerTyped
  <2> QED BY <2>1, <2>3, <2>4, JobMoves DEF ServerTyped
<1> QED BY <1>1, <1>3, <1>4, <1>5 DEF Finishes

(***************************************************************************)
(* Calls and polls.                                                        *)
(***************************************************************************)
LEMMA BusyStep ==
  ASSUME JobsInv, NEW c \in Call, Busy(c)
  PROVE  JobsInv'
<1> USE DEF JobsInv
<1>1. Go(c, "done") /\ At(c, "lock") /\ UNCHANGED <<jobVars, pathVars, told>> /\ c \in Actor /\ c \notin Job
  BY ServerConstants DEF Busy, Actor
<1>2. ~ At(c, "idle")
  BY <1>1 DEF At
<1>3. /\ job' \in [Job -> JobRec] /\ call' \in [Call -> CallRec]
      /\ \A b \in Actor : \A s : At(b, s)' <=> IF b = c THEN s = "done" ELSE At(b, s)
      /\ \A b, t : Uses(b, t)' <=> Uses(b, t)
      /\ Unstarted'
  BY <1>1, <1>2, GoesOn
<1>4. \A a \in Actor : \A step \in Inside : At(a, step)' => At(a, step)
  <2>1. \A step \in Inside : step # "done"
    BY DEF Inside
  <2> QED BY <1>3, <2>1
<1>5. (\A b : Lockless(b)' <=> Lockless(b)) /\ (\A a : Env(a)' = Env(a))
  BY <1>3 DEF Lockless, Env
<1>6. Kept'
  BY <1>1, <1>4, <1>5, Undisturbed DEF pathVars, Kept
<1> QED BY <1>1, <1>3, <1>6 DEF Kept, ServerTyped, jobVars, ToldAsIs

LEMMA CallToolStep ==
  ASSUME JobsInv, NEW c \in Call, NEW tool \in Tools \ {"poll"}, CallTool(c, tool)
  PROVE  JobsInv'
<1> USE DEF JobsInv
<1> DEFINE at == IF tool = "benign" THEN "point" ELSE "lock"
           half == [call[c] EXCEPT !.tool = tool]
           now == [half EXCEPT !.at = at]
<1>1. call[c].at = "idle" /\ call' = [call EXCEPT ![c] = now] /\ UNCHANGED <<jobVars, pathVars, told>>
  BY DEF CallTool
<1>2. now \in CallRec /\ now.at = at /\ now.tool = tool
  <2>1. half \in CallRec /\ half.tool = tool
    BY DEF ServerTyped, CallRec
  <2>2. at \in {"lock"} \cup Inside
    BY DEF Inside
  <2> HIDE DEF half, at
  <2> QED BY <2>1, <2>2 DEF CallRec
<1> HIDE DEF now
<1>3. call' \in [Call -> CallRec] /\ call'[c] = now /\ \A d \in Call : d # c => call'[d] = call[d]
  BY <1>1, <1>2 DEF ServerTyped
<1>4. job' = job
  BY <1>1 DEF jobVars
<1>5. \A a \in Actor : a # c => (\A s : At(a, s)' <=> At(a, s)) /\ (\A t : Uses(a, t)' <=> Uses(a, t)) /\ Env(a)' = Env(a)
  BY <1>3, <1>4 DEF At, Uses, Env, Actor
<1>6. c \notin Job
  BY ServerConstants
<1>7. call[c].tool = "poll"
  BY <1>1, <1>6 DEF Unstarted, At
<1>8. ~ In(c) /\ ~ Lockless(c)
  BY <1>1, <1>6, <1>7 DEF In, Inside, At, Lockless, Uses
<1>9. \A a \in Actor : \A step \in Inside : At(a, step)' => At(a, step) \/ Lockless(a)'
  <2>1. ASSUME NEW step \in Inside, At(c, step)' PROVE Lockless(c)'
    BY <1>2, <1>3, <1>6, <2>1 DEF At, Inside, Lockless, Uses
  <2> QED BY <1>5, <2>1
<1>10. \A b : Lockless(b) => Lockless(b)'
  BY <1>3, <1>7 DEF Lockless, Uses
<1>11. \A a \in Actor : ~ Lockless(a)' /\ In(a) => Env(a)' = Env(a)
  BY <1>5, <1>8
<1>12. Kept'
  BY <1>1, <1>9, <1>10, <1>11, Undisturbed DEF pathVars, Kept
<1>13. Unstarted'
  BY <1>2, <1>3, <1>4, <1>6 DEF Unstarted, At
<1> QED BY <1>1, <1>3, <1>4, <1>12, <1>13 DEF Kept, ServerTyped, jobVars, ToldAsIs

\* A poll adds the outcome the job has, which no other can replace.
LEMMA Tells ==
  ASSUME ServerTyped, ToldAsIs, NEW j \in Job, Tell(j), UNCHANGED job
  PROVE  told' \in [Job -> SUBSET Status] /\ ToldAsIs'
<1>1. told' = [told EXCEPT ![j] = told[j] \cup ({job[j].status} \ {"running"})]
  BY DEF Tell
<1>2. job[j].status \in Status
  BY DEF ServerTyped, JobRec
<1> QED BY <1>1, <1>2 DEF ServerTyped, ToldAsIs

LEMMA PollStep ==
  ASSUME JobsInv, NEW c \in Call, (\E j \in Job : Look(c, j)) \/ AnswerPoll(c)
  PROVE  JobsInv'
<1> USE DEF JobsInv
<1>1. PICK now \in CallRec :
        /\ call' = [call EXCEPT ![c] = now] /\ now.at \in {"shown", "done"} /\ now.tool \in {"poll", call[c].tool}
        /\ now.tool = "poll" => call[c].tool \in {"poll", now.tool}
        /\ call[c].at \in {"idle", "shown"} /\ UNCHANGED <<jobVars, pathVars>>
        /\ told' \in [Job -> SUBSET Status] /\ ToldAsIs'
  <2>1. ASSUME NEW j \in Job, Look(c, j)
        PROVE  \E now \in CallRec :
                 /\ call' = [call EXCEPT ![c] = now] /\ now.at \in {"shown", "done"} /\ now.tool \in {"poll", call[c].tool}
                 /\ now.tool = "poll" => call[c].tool \in {"poll", now.tool}
                 /\ call[c].at \in {"idle", "shown"} /\ UNCHANGED <<jobVars, pathVars>>
                 /\ told' \in [Job -> SUBSET Status] /\ ToldAsIs'
    <3> DEFINE now == [tool |-> "poll", at |-> "shown", job |-> j]
    <3>1. /\ call' = [call EXCEPT ![c] = now] /\ call[c].at = "idle" /\ UNCHANGED <<jobVars, pathVars>> /\ Tell(j)
      BY <2>1 DEF Look
    <3>2. now \in CallRec
      BY DEF CallRec, Tools
    <3>3. told' \in [Job -> SUBSET Status] /\ ToldAsIs'
      BY <3>1, Tells DEF jobVars
    <3>4. call[c].tool = "poll"
      BY <3>1, ServerConstants DEF Unstarted, At
    <3> QED BY <3>1, <3>2, <3>3, <3>4
  <2>2. ASSUME AnswerPoll(c)
        PROVE  \E now \in CallRec :
                 /\ call' = [call EXCEPT ![c] = now] /\ now.at \in {"shown", "done"} /\ now.tool \in {"poll", call[c].tool}
                 /\ now.tool = "poll" => call[c].tool \in {"poll", now.tool}
                 /\ call[c].at \in {"idle", "shown"} /\ UNCHANGED <<jobVars, pathVars>>
                 /\ told' \in [Job -> SUBSET Status] /\ ToldAsIs'
    <3> DEFINE now == [call[c] EXCEPT !.at = "done"]
    <3>1. /\ call' = [call EXCEPT ![c] = now] /\ call[c].at = "shown" /\ UNCHANGED <<jobVars, pathVars>>
          /\ Tell(call[c].job)
      BY <2>2 DEF AnswerPoll
    <3>2. now \in CallRec /\ now.at = "done" /\ now.tool = call[c].tool
      BY DEF ServerTyped, CallRec
    <3>3. told' \in [Job -> SUBSET Status] /\ ToldAsIs'
      <4>1. CASE call[c].job \in Job
        BY <3>1, <4>1, Tells DEF jobVars
      <4>2. CASE call[c].job \notin Job
        <5>1. told' = told
          BY <3>1, <4>2 DEF Tell, ServerTyped
        <5> QED BY <3>1, <5>1 DEF ToldAsIs, ServerTyped, jobVars
      <4> QED BY <4>1, <4>2
    <3> QED BY <3>1, <3>2, <3>3
  <2> QED BY <2>1, <2>2
<1>2. call' \in [Call -> CallRec] /\ call'[c] = now /\ \A d \in Call : d # c => call'[d] = call[d]
  BY <1>1 DEF ServerTyped
<1>3. job' = job /\ c \notin Job
  BY <1>1, ServerConstants DEF jobVars
<1>4. now.tool = call[c].tool
  BY <1>1
<1>5. \A a \in Actor : \A step \in Inside : At(a, step)' => At(a, step)
  BY <1>1, <1>2, <1>3 DEF At, Inside, Actor
<1>6. \A b, t : Uses(b, t)' <=> Uses(b, t)
  BY <1>2, <1>4 DEF Uses
<1>7. (\A b : Lockless(b)' <=> Lockless(b)) /\ (\A a : Env(a)' = Env(a))
  BY <1>6 DEF Lockless, Env
<1>8. Kept'
  BY <1>1, <1>5, <1>7, Undisturbed DEF pathVars, Kept
<1>9. Unstarted'
  BY <1>1, <1>2, <1>3 DEF Unstarted, At
<1> QED BY <1>1, <1>2, <1>3, <1>8, <1>9 DEF Kept, ServerTyped, jobVars

(***************************************************************************)
(* Analyses.                                                               *)
(***************************************************************************)
\* Two that are inside without excuse are one.
LEMMA Alone ==
  ASSUME JobsInv, NEW a \in Actor, NEW b \in Actor, In(a), ~ Lockless(a), In(b), ~ Lockless(b)
  PROVE  a = b
  BY DEF JobsInv, Guarded

LEMMA EnvOfLockless ==
  ASSUME NEW a, Lockless(a)
  PROVE  Env(a) = a
  BY DEF Lockless, Uses, Env

\* Where an actor comes from and goes to.
LEMMA Moves ==
  ASSUME JobsInv, NEW a \in Actor, NEW from \in {"lock"} \cup Inside, At(a, from),
         NEW step \in {"point", "fill", "load", "run", "out", "done"}, Go(a, step),
         a \in Job => step # "done", a \in Call => step # "out",
         UNCHANGED <<table, settling, clock, told>>
  PROVE  /\ ServerTyped' /\ ToldAsIs' /\ Unstarted'
         /\ \A b \in Actor, s \in Inside : At(b, s)' <=> IF b = a THEN s = step ELSE At(b, s)
         /\ \A b \in Actor : b # a => (In(b)' <=> In(b))
         /\ \A b : (Lockless(b)' <=> Lockless(b)) /\ Env(b)' = Env(b)
<1> USE DEF JobsInv
<1>1. ~ At(a, "idle")
  BY DEF At, Inside
<1>2. /\ job' \in [Job -> JobRec] /\ call' \in [Call -> CallRec]
      /\ \A j \in Job : job'[j].status = job[j].status
      /\ \A b \in Actor : \A s : At(b, s)' <=> IF b = a THEN s = step ELSE At(b, s)
      /\ \A b, t : Uses(b, t)' <=> Uses(b, t)
      /\ Unstarted'
  BY <1>1, GoesOn
<1>4. \A b \in Actor, s \in Inside : At(b, s)' <=> IF b = a THEN s = step ELSE At(b, s)
  BY <1>2
<1>5. \A b \in Actor : b # a => (In(b)' <=> In(b))
  BY <1>4 DEF In
<1>6. \A b : (Lockless(b)' <=> Lockless(b)) /\ Env(b)' = Env(b)
  BY <1>2 DEF Lockless, Env
<1>7. ServerTyped'
  BY <1>2 DEF ServerTyped
<1>8. ToldAsIs'
  BY <1>2 DEF ToldAsIs
<1> QED BY <1>2, <1>4, <1>5, <1>6, <1>7, <1>8

LEMMA EnterStep ==
  ASSUME JobsInv, NEW a \in Actor, Enter(a)
  PROVE  JobsInv'
<1> USE DEF JobsInv
<1>1. /\ At(a, "lock") /\ analysisLock = Nobody /\ analysisLock' = a /\ Go(a, First(a))
      /\ UNCHANGED <<table, settling, clock, bound, strayed, ready, told>>
      /\ First(a) \in {"run", "point"}
  BY DEF Enter, First
<1>2. /\ ServerTyped' /\ ToldAsIs' /\ Unstarted'
      /\ \A b \in Actor, s \in Inside : At(b, s)' <=> IF b = a THEN s = First(a) ELSE At(b, s)
      /\ \A b \in Actor : b # a => (In(b)' <=> In(b))
      /\ \A b : (Lockless(b)' <=> Lockless(b)) /\ Env(b)' = Env(b)
  BY <1>1, Moves
<1>3. \A b \in Actor : In(b) => Lockless(b)
  BY <1>1, ServerConstants DEF Guarded
<1>4. Guarded'
  <2>1. ASSUME NEW b \in Actor, In(b)', ~ Lockless(b)' PROVE analysisLock' = b
    BY <1>1, <1>2, <1>3, <2>1
  <2> QED BY <2>1 DEF Guarded
<1>5. Pointed'
  <2>1. ASSUME NEW b \in Actor, At(b, "fill")' \/ At(b, "load")' PROVE Lockless(b)'
    <3>1. "fill" \in Inside /\ "load" \in Inside
      BY DEF Inside
    <3>2. At(b, "fill") \/ At(b, "load")
      BY <1>1, <1>2, <2>1, <3>1
    <3> QED BY <1>2, <1>3, <3>1, <3>2 DEF In
  <2> QED BY <2>1 DEF Pointed
<1>6. OwnBindings'
  BY <1>1, <1>2 DEF OwnBindings, Lockless
<1> QED BY <1>2, <1>4, <1>5, <1>6

LEMMA PointStep ==
  ASSUME JobsInv, NEW a \in Actor, Point(a)
  PROVE  JobsInv'
<1> USE DEF JobsInv
<1>1. /\ At(a, "point") /\ bound' = Env(a) /\ Go(a, "fill")
      /\ UNCHANGED <<table, settling, clock, analysisLock, strayed, ready, told>>
      /\ "point" \in Inside /\ "fill" \in Inside /\ "load" \in Inside
  BY DEF Point, Inside
<1>2. /\ ServerTyped' /\ ToldAsIs' /\ Unstarted'
      /\ \A b \in Actor, s \in Inside : At(b, s)' <=> IF b = a THEN s = "fill" ELSE At(b, s)
      /\ \A b \in Actor : b # a => (In(b)' <=> In(b))
      /\ \A b : (Lockless(b)' <=> Lockless(b)) /\ Env(b)' = Env(b)
  BY <1>1, Moves
<1>3. In(a)
  BY <1>1 DEF In
<1>4. Guarded'
  <2>1. ASSUME NEW b \in Actor, In(b)', ~ Lockless(b)' PROVE analysisLock' = b
    BY <1>1, <1>2, <1>3, <2>1 DEF Guarded
  <2> QED BY <2>1 DEF Guarded
<1>5. Pointed'
  <2>1. ASSUME NEW b \in Actor, At(b, "fill")' \/ At(b, "load")', ~ Lockless(b)'
        PROVE  bound' = Env(b)' \/ Lockless(bound)'
    <3>1. CASE b = a
      BY <1>1, <1>2, <3>1
    <3>2. CASE b # a
      <4>1. In(b) /\ ~ Lockless(b)
        BY <1>1, <1>2, <2>1, <3>2 DEF In
      <4>2. Lockless(a)
        BY <1>3, <3>2, <4>1, Alone
      <4>3. bound' = a
        BY <1>1, <4>2, EnvOfLockless
      <4> QED BY <1>2, <4>2, <4>3
    <3> QED BY <3>1, <3>2
  <2> QED BY <2>1 DEF Pointed
<1>6. OwnBindings'
  BY <1>1, <1>2 DEF OwnBindings, Lockless
<1> QED BY <1>2, <1>4, <1>5, <1>6

\* A write of a job, or of the server's runner, strays only to one that takes
\* no lock.
LEMMA Reaches ==
  ASSUME JobsInv, NEW a \in Actor, At(a, "fill") \/ At(a, "load"), Reach(a), \A b : Lockless(b)' <=> Lockless(b)
  PROVE  OwnBindings'
<1> USE DEF JobsInv
<1>1. CASE bound = Env(a)
  BY <1>1 DEF Reach, OwnBindings, Lockless
<1>2. CASE bound # Env(a)
  <2>1. strayed' = strayed \cup {<<Env(a), bound>>}
    BY <1>2 DEF Reach
  <2>2. ASSUME Env(a) \in Job \cup {Scratch} PROVE Lockless(bound)
    <3>1. ~ Lockless(a)
      BY <2>2, EnvOfLockless, ServerConstants DEF Lockless, Uses, Actor
    <3> QED BY <1>2, <3>1 DEF Pointed
  <2>3. ASSUME NEW pair \in strayed', pair[1] \in Job \cup {Scratch} PROVE Lockless(pair[2])'
    <3>1. CASE pair \in strayed
      BY <2>3, <3>1 DEF OwnBindings, Lockless
    <3>2. CASE pair = <<Env(a), bound>>
      BY <2>2, <2>3, <3>2
    <3> QED BY <2>1, <3>1, <3>2
  <2> QED BY <2>3 DEF OwnBindings, Lockless
<1> QED BY <1>1, <1>2

LEMMA ReachStep ==
  ASSUME JobsInv, NEW a \in Actor, Fill(a) \/ Load(a)
  PROVE  JobsInv'
<1> USE DEF JobsInv
<1>1. PICK next \in {"load", "run"} :
        /\ At(a, "fill") \/ At(a, "load")
        /\ Reach(a) /\ Go(a, next) /\ (next = "load" => At(a, "fill"))
        /\ UNCHANGED <<table, settling, clock, analysisLock, bound, told>>
  BY DEF Fill, Load
<1>0. "fill" \in Inside /\ "load" \in Inside
  BY DEF Inside
<1>2. /\ ServerTyped' /\ ToldAsIs' /\ Unstarted'
      /\ \A b \in Actor, s \in Inside : At(b, s)' <=> IF b = a THEN s = next ELSE At(b, s)
      /\ \A b \in Actor : b # a => (In(b)' <=> In(b))
      /\ \A b : (Lockless(b)' <=> Lockless(b)) /\ Env(b)' = Env(b)
  <2>1. CASE At(a, "fill")
    BY <1>0, <1>1, <2>1, Moves
  <2>2. CASE At(a, "load")
    BY <1>0, <1>1, <2>2, Moves
  <2> QED BY <1>1, <2>1, <2>2
<1>3. In(a)
  BY <1>0, <1>1 DEF In
<1>4. Guarded'
  <2>1. ASSUME NEW b \in Actor, In(b)', ~ Lockless(b)' PROVE analysisLock' = b
    BY <1>1, <1>2, <1>3, <2>1 DEF Guarded
  <2> QED BY <2>1 DEF Guarded
<1>5. Pointed'
  <2>1. ASSUME NEW b \in Actor, At(b, "fill")' \/ At(b, "load")', ~ Lockless(b)'
        PROVE  bound' = Env(b)' \/ Lockless(bound)'
    <3>1. (At(b, "fill") \/ At(b, "load")) /\ ~ Lockless(b)
      BY <1>0, <1>1, <1>2, <2>1
    <3> QED BY <1>1, <1>2, <3>1 DEF Pointed
  <2> QED BY <2>1 DEF Pointed
<1>6. OwnBindings'
  BY <1>1, <1>2, Reaches
<1> QED BY <1>2, <1>4, <1>5, <1>6

LEMMA LeaveStep ==
  ASSUME JobsInv, NEW a \in Actor, Leave(a)
  PROVE  JobsInv'
<1> USE DEF JobsInv
<1>1. PICK from \in Inside : At(a, from)
  BY DEF Leave
<1> DEFINE step == IF a \in Job THEN "out" ELSE "done"
<1>2. Go(a, step) /\ UNCHANGED <<table, settling, clock, bound, strayed, ready, told>> /\ Release(a)
  BY DEF Leave
<1>3. /\ step \in {"out", "done"} /\ step \notin Inside
      /\ (a \in Job => step # "done") /\ (a \in Call => step # "out")
  BY ServerConstants DEF Inside
<1> HIDE DEF step
<1>4. /\ ServerTyped' /\ ToldAsIs' /\ Unstarted'
      /\ \A b \in Actor, s \in Inside : At(b, s)' <=> IF b = a THEN s = step ELSE At(b, s)
      /\ \A b \in Actor : b # a => (In(b)' <=> In(b))
      /\ \A b : (Lockless(b)' <=> Lockless(b)) /\ Env(b)' = Env(b)
  BY <1>1, <1>2, <1>3, Moves
<1>5. ~ In(a)'
  BY <1>3, <1>4 DEF In
<1>6. Guarded'
  <2>1. ASSUME NEW b \in Actor, In(b)', ~ Lockless(b)' PROVE analysisLock' = b
    <3>1. b # a /\ analysisLock = b
      BY <1>4, <1>5, <2>1 DEF Guarded
    <3> QED BY <1>2, <3>1 DEF Release
  <2> QED BY <2>1 DEF Guarded
<1>7. Pointed'
  <2>1. ASSUME NEW b \in Actor, At(b, "fill")' \/ At(b, "load")', ~ Lockless(b)'
        PROVE  bound' = Env(b)' \/ Lockless(bound)'
    <3>1. "fill" \in Inside /\ "load" \in Inside
      BY DEF Inside
    <3>2. (At(b, "fill") \/ At(b, "load")) /\ ~ Lockless(b)
      BY <1>3, <1>4, <2>1, <3>1
    <3> QED BY <1>2, <1>4, <3>2 DEF Pointed
  <2> QED BY <2>1 DEF Pointed
<1>8. OwnBindings'
  BY <1>2, <1>4 DEF OwnBindings, Lockless
<1> QED BY <1>4, <1>6, <1>7, <1>8

LEMMA ServerStep == JobsInv /\ [ServerNext]_serverVars => JobsInv'
<1> SUFFICES ASSUME JobsInv, [ServerNext]_serverVars PROVE JobsInv'
  OBVIOUS
<1>1. ASSUME UNCHANGED serverVars PROVE JobsInv'
  <2>1. UNCHANGED <<job, settling, clock, call, told, analysisLock, bound, strayed>>
    BY <1>1 DEF serverVars, jobVars, pathVars
  <2> QED BY <2>1 DEF JobsInv, ServerTyped, Unstarted, ToldAsIs, Guarded, Pointed, OwnBindings, At, In, Lockless, Uses, Env
<1>2. CASE \E j \in Job : \/ CreateArmed(j) \/ CreateRefused(j) \/ StartThread(j) \/ NoThread(j)
                         \/ Finishes(j) \/ Settle(j)
  BY <1>2, JobSteps
<1>3. CASE \E c \in Call : \/ Busy(c) \/ (\E tool \in Tools \ {"poll"} : CallTool(c, tool))
                          \/ (\E j \in Job : Look(c, j)) \/ AnswerPoll(c)
  BY <1>3, BusyStep, CallToolStep, PollStep
<1>4. CASE \E a \in Actor : Enter(a) \/ Point(a) \/ Fill(a) \/ Load(a) \/ Leave(a)
  BY <1>4, EnterStep, PointStep, ReachStep, LeaveStep
<1> QED BY <1>1, <1>2, <1>3, <1>4 DEF ServerNext

LEMMA ServerInvariant == ServerSpec => []JobsInv
<1>1. JobsInv /\ [ServerNext]_serverVars => JobsInv'
  BY ServerStep
<1> QED BY ServerStarts, <1>1, PTL DEF ServerSpec

\* No client is told two outcomes of one job, however deadline and worker
\* race and polls read between the writes: the first finish is the last.
THEOREM FirstOutcomeStands == ServerSpec => []OneOutcomeTold
<1>1. JobsInv => OneOutcomeTold
  <2> SUFFICES ASSUME JobsInv, NEW j \in Job PROVE Cardinality(told[j]) <= 1
    BY DEF OneOutcomeTold
  <2>1. told[j] = {} \/ told[j] = {job[j].status}
    BY DEF JobsInv, ToldAsIs
  <2>2. Cardinality({}) = 0 /\ Cardinality({job[j].status}) = 1
    BY FS_EmptySet, FS_Singleton
  <2> QED BY <2>1, <2>2
<1> QED BY ServerInvariant, <1>1, PTL

\* What a job or the server's runner writes lands in its own environment,
\* unless a tool that takes no lock has moved the paths, for any number of
\* jobs and calls: _analysis_lock is held from the bind to the last use.
THEOREM BindingsAreOwn == ServerSpec => []OwnBindings
<1>1. JobsInv => OwnBindings
  BY DEF JobsInv
<1> QED BY ServerInvariant, <1>1, PTL

(***************************************************************************)
(* The table of jobs, and what it forgets.                                 *)
(***************************************************************************)
LEMMA Least ==
  ASSUME NEW F, F \subseteq Nat, F # {}
  PROVE  \E x \in F : \A y \in F : x <= y
<1>1. IsWellFoundedOn(OpToRel(<, Nat), Nat)
  BY NatLessThanWellFounded
<1>2. PICK x \in F : \A y \in F : ~ (<<y, x>> \in OpToRel(<, Nat))
  BY <1>1, WFMin
<1>3. \A y \in F : x <= y
  <2> TAKE y \in F
  <2>1. x \in Nat /\ y \in Nat /\ <<y, x>> \in Nat \X Nat
    OBVIOUS
  <2>2. ~ (y < x)
    BY <1>2, <2>1 DEF OpToRel
  <2> QED BY <2>1, <2>2
<1> QED BY <1>3

LEMMA CountDistinct ==
  ASSUME NEW X, NEW s \in Seq(X), Distinct(s)
  PROVE  IsFiniteSet(ToSet(s)) /\ Cardinality(ToSet(s)) = Len(s)
<1> DEFINE n == Len(s)
           Upto(k) == {s[i] : i \in 1..k}
           Good(k) == IsFiniteSet(Upto(k)) /\ Cardinality(Upto(k)) = k
           B == {k \in Nat : k <= n => Good(k)}
<1>1. n \in Nat /\ DOMAIN s = 1..n
  BY LenProperties
<1>2. 0 \in B
  <2>1. Upto(0) = {}
    OBVIOUS
  <2> QED BY <2>1, FS_EmptySet
<1>3. ASSUME NEW k \in Nat, k \in B PROVE k + 1 \in B
  <2> SUFFICES ASSUME k + 1 <= n PROVE Good(k + 1)
    OBVIOUS
  <2>1. Good(k)
    <3>1. k <= n
      BY <1>1
    <3> HIDE DEF Good
    <3> QED BY <1>3, <3>1
  <2>2. Upto(k + 1) = Upto(k) \cup {s[k + 1]}
    OBVIOUS
  <2>3. s[k + 1] \notin Upto(k)
    <3> SUFFICES ASSUME NEW i \in 1..k, s[i] = s[k + 1] PROVE FALSE
      OBVIOUS
    <3>1. i \in 1..n /\ k + 1 \in 1..n /\ i # k + 1
      BY <1>1
    <3> QED BY <1>1, <3>1 DEF Distinct
  <2> HIDE DEF Upto
  <2>4. IsFiniteSet(Upto(k) \cup {s[k + 1]}) /\ Cardinality(Upto(k) \cup {s[k + 1]}) = Cardinality(Upto(k)) + 1
    BY <2>1, <2>3, FS_AddElement
  <2> QED BY <2>1, <2>2, <2>4
<1>4. Good(n)
  <2> HIDE DEF B
  <2>1. n \in B
    BY <1>1, <1>2, <1>3, Counting
  <2>2. n <= n
    BY <1>1
  <2> HIDE DEF Good
  <2> QED BY <2>1, <2>2 DEF B
<1>5. Upto(n) = ToSet(s)
  BY <1>1 DEF ToSet
<1> QED BY <1>4, <1>5

TableHolds ==
  /\ table \in Seq(Job) /\ Distinct(table) /\ Len(table) <= MaxJobs
  /\ IsFiniteSet(Running) /\ Cardinality(Running) <= MaxRunning

LEMMA TableStarts == ServerInit => TableHolds
<1> SUFFICES ASSUME ServerInit PROVE TableHolds
  OBVIOUS
<1>1. table = <<>> /\ <<>> \in Seq(Job) /\ Len(<<>>) = 0 /\ DOMAIN <<>> = {}
  BY EmptySeq, LenProperties DEF ServerInit
<1>2. ToSet(table) = {}
  BY <1>1 DEF ToSet
<1>3. Running = {}
  BY <1>2 DEF Running
<1> QED BY <1>1, <1>3, FS_EmptySet, JobsAssumption DEF TableHolds, Distinct

\* Only a creation touches the table, and an outcome stays.
LEMMA OutcomesStay ==
  ASSUME JobsInv, [ServerNext]_serverVars
  PROVE  /\ table' = table \/ \E j \in Job : CreateArmed(j) \/ CreateRefused(j)
         /\ \A k \in Job : Ended(k) => Ended(k)'
         /\ \A k \in Job : (CreateArmed(k) \/ CreateRefused(k)) => \A j \in Job : Ended(j)' <=> Ended(j)
<1> USE DEF JobsInv
<1>1. ASSUME NEW a \in Actor, NEW where, Go(a, where) PROVE \A k \in Job : job'[k].status = job[k].status
  BY <1>1 DEF Go, Thread, ServerTyped, JobRec
<1>2. ASSUME NEW j \in Job, CreateArmed(j) \/ CreateRefused(j) PROVE \A k \in Job : job'[k].status = job[k].status
  BY <1>2 DEF CreateArmed, CreateRefused, Thread, ServerTyped, JobRec
<1>3. ASSUME NEW j \in Job, StartThread(j) \/ NoThread(j)
      PROVE table' = table /\ \A k \in Job : job'[k].status = job[k].status
  BY <1>3 DEF StartThread, NoThread, Thread, ServerTyped, JobRec
<1>4. ASSUME NEW j \in Job, NEW s \in Status \ {"running"}, NEW worker \in BOOLEAN, Finish(j, s, worker)
      PROVE table' = table /\ \A k \in Job : Ended(k) => Ended(k)'
  <2>1. Spent(j, worker) \in JobRec /\ Spent(j, worker).status = job[j].status
    BY DEF Spent, ServerTyped, JobRec, Threads
  <2>2. CASE Ended(j)
    <3>1. table' = table /\ job' = [job EXCEPT ![j] = Spent(j, worker)]
      BY <1>4, <2>2 DEF Finish
    <3> QED BY <2>1, <3>1 DEF Ended, ServerTyped
  <2>3. CASE ~ Ended(j)
    <3>1. table' = table /\ job' = [job EXCEPT ![j] = [Spent(j, worker) EXCEPT !.status = s]]
      BY <1>4, <2>3 DEF Finish
    <3> QED BY <2>3, <3>1 DEF Ended, ServerTyped
  <2> QED BY <2>2, <2>3
<1>5. ASSUME NEW j \in Job, Settle(j) PROVE table' = table /\ \A k \in Job : job'[k].status = job[k].status
  BY <1>5 DEF Settle, ServerTyped, JobRec
<1>6. ASSUME NEW c \in Call, Busy(c) \/ (\E tool \in Tools \ {"poll"} : CallTool(c, tool))
                             \/ (\E j \in Job : Look(c, j)) \/ AnswerPoll(c)
      PROVE table' = table /\ \A k \in Job : job'[k].status = job[k].status
  <2>1. CASE Busy(c)
    BY <1>1, <2>1 DEF Busy, jobVars, Actor
  <2> QED BY <1>6, <2>1 DEF CallTool, Look, AnswerPoll, jobVars
<1>7. ASSUME NEW a \in Actor, Enter(a) \/ Point(a) \/ Fill(a) \/ Load(a) \/ Leave(a)
      PROVE table' = table /\ \A k \in Job : job'[k].status = job[k].status
  <2>1. table' = table /\ \E where : Go(a, where)
    BY <1>7 DEF Enter, Point, Fill, Load, Leave
  <2> QED BY <1>1, <2>1
<1>8. UNCHANGED serverVars => table' = table /\ \A k \in Job : job'[k].status = job[k].status
  BY DEF serverVars, jobVars
<1>9. \A j \in Job : Finishes(j) => table' = table /\ \A k \in Job : Ended(k) => Ended(k)'
  BY <1>4 DEF Finishes
<1> QED BY <1>2, <1>3, <1>5, <1>6, <1>7, <1>8, <1>9 DEF ServerNext, Ended

\* What a creation leaves.
LEMMA CreationLeaves ==
  ASSUME TableHolds, ServerTyped, NEW j \in Job, Create(j), \A k \in Job : Ended(k)' <=> Ended(k)
  PROVE  /\ TableHolds'
         /\ \A k \in ToSet(table) \ ToSet(table') :
              Ended(k) /\ \A x \in ToSet(table') : Ended(x) => job[x].finished > job[k].finished
<1> DEFINE m == Len(table)
           T == ToSet(table)
           keep == {k \in T : ~ Stale(k)}
           l == Filtered(table, keep)
           Before(k) == {x \in T : Ended(x) /\ job[x].finished < job[k].finished}
<1>1. /\ ~ Created(j) /\ Cardinality(Running) < MaxRunning /\ table' = Append(l, j)
  BY DEF Create
<1>2. /\ m \in Nat /\ m <= MaxJobs /\ IsFiniteSet(T) /\ Cardinality(T) = m
      /\ MaxRunning \in Nat /\ MaxJobs \in Nat /\ MaxRunning <= MaxJobs
  BY CountDistinct, LenProperties, JobsAssumption DEF TableHolds
<1>3. T \subseteq Job
  BY LenProperties DEF TableHolds, ToSet
<1>4. \A k \in T : Stale(k) <=> Ended(k) /\ Cardinality(Before(k)) < m + 1 - MaxJobs
  BY DEF Stale
<1>5. j \notin T /\ ~ Ended(j)
  BY <1>1 DEF Created, Listed
<1>6. \A k \in Job : job[k].finished \in Nat
  BY DEF ServerTyped, JobRec
<1>7. keep \subseteq T /\ \A k \in T : k \in keep <=> ~ Stale(k)
  OBVIOUS
<1>8. Running = {k \in T : ~ Ended(k)}
  BY DEF Running
<1>9. \A k \in T : IsFiniteSet(Before(k)) /\ Cardinality(Before(k)) \in Nat
  <2> TAKE k \in T
  <2>1. Before(k) \subseteq T
    OBVIOUS
  <2> HIDE DEF Before, T
  <2> QED BY <1>2, <2>1, FS_Subset, FS_CardinalityType
<1>10. \A x, y \in T : job[x].finished <= job[y].finished => Cardinality(Before(x)) <= Cardinality(Before(y))
  <2> SUFFICES ASSUME NEW x \in T, NEW y \in T, job[x].finished <= job[y].finished
               PROVE  Cardinality(Before(x)) <= Cardinality(Before(y))
    OBVIOUS
  <2>1. Before(x) \subseteq Before(y)
    BY <1>3, <1>6
  <2> HIDE DEF Before, T
  <2> QED BY <1>9, <2>1, FS_Subset
<1>11. \A k \in T : (\A x \in T : Ended(x) => job[k].finished <= job[x].finished) => Before(k) = {}
  BY <1>3, <1>6
<1>12. table \in Seq(Job) /\ Distinct(table) /\ IsFiniteSet(Running) /\ Cardinality(Running) \in Nat
  BY FS_CardinalityType DEF TableHolds
<1>13. /\ l \in Seq(Job) /\ ToSet(l) = T \cap keep /\ Len(l) <= m /\ (~ (T \subseteq keep) => Len(l) < m)
       /\ Distinct(l)
  BY <1>12, FilteredHolds
<1>14. table' \in Seq(Job) /\ Len(table') = Len(l) + 1 /\ Len(l) \in Nat
  BY <1>1, <1>13, AppendProperties, LenProperties
<1>15. ToSet(table') = keep \cup {j} /\ Distinct(table')
  <2>1. ToSet(l) = keep /\ j \notin ToSet(l)
    BY <1>5, <1>7, <1>13
  <2> HIDE DEF l, keep
  <2> QED BY <1>1, <1>13, <2>1, AppendDistinct
<1> HIDE DEF m, T, keep, l, Before
<1>16. Len(table') <= MaxJobs
  <2>1. CASE m < MaxJobs
    BY <1>2, <1>13, <1>14, <2>1
  <2>2. CASE m = MaxJobs
    <3> DEFINE E == {k \in T : Ended(k)}
               F == {job[k].finished : k \in E}
    <3>1. E # {}
      <4> SUFFICES ASSUME E = {} PROVE FALSE
        OBVIOUS
      <4>1. Running = T
        BY <1>8
      <4> QED BY <1>1, <1>2, <2>2, <4>1
    <3>2. F \subseteq Nat /\ F # {}
      BY <1>3, <1>6, <3>1
    <3>3. PICK f \in F : \A y \in F : f <= y
      <4> HIDE DEF F
      <4> QED BY <3>2, Least
    <3>4. PICK k \in E : f = job[k].finished
      OBVIOUS
    <3>5. Before(k) = {} /\ k \in T /\ Ended(k)
      BY <1>11, <3>3, <3>4
    <3>6. m + 1 - MaxJobs = 1 /\ Cardinality(Before(k)) = 0
      BY <1>2, <2>2, <3>5, FS_EmptySet
    <3>7. ~ (T \subseteq keep)
      BY <1>4, <1>7, <3>5, <3>6
    <3> QED BY <1>2, <1>13, <1>14, <2>2, <3>7
  <2> QED BY <1>2, <2>1, <2>2
<1>17. IsFiniteSet(Running') /\ Cardinality(Running') <= MaxRunning
  <2>1. Running' \subseteq Running \cup {j}
    <3>1. Running' = {k \in ToSet(table') : ~ Ended(k)'}
      BY DEF Running
    <3> QED BY <1>3, <1>7, <1>8, <1>15, <3>1
  <2>2. j \notin Running
    BY <1>5, <1>8
  <2>3. IsFiniteSet(Running \cup {j}) /\ Cardinality(Running \cup {j}) = Cardinality(Running) + 1
    BY <1>12, <2>2, FS_AddElement
  <2>4. IsFiniteSet(Running') /\ Cardinality(Running') <= Cardinality(Running \cup {j})
    BY <2>1, <2>3, FS_Subset
  <2>5. Cardinality(Running') \in Nat
    BY <2>4, FS_CardinalityType
  <2> QED BY <1>1, <1>2, <1>12, <2>3, <2>4, <2>5
<1>18. TableHolds'
  BY <1>14, <1>15, <1>16, <1>17 DEF TableHolds
<1>19. ASSUME NEW k \in ToSet(table) \ ToSet(table')
       PROVE  Ended(k) /\ \A x \in ToSet(table') : Ended(x) => job[x].finished > job[k].finished
  <2>1. k \in T /\ k \notin keep
    BY <1>15, <1>19 DEF T
  <2>2. Ended(k) /\ Cardinality(Before(k)) < m + 1 - MaxJobs
    BY <1>4, <1>7, <2>1
  <2>3. ASSUME NEW x \in ToSet(table'), Ended(x), ~ (job[x].finished > job[k].finished) PROVE FALSE
    <3>1. x \in T /\ x \in keep /\ x \in Job /\ k \in Job
      BY <1>3, <1>5, <1>7, <1>15, <2>1, <2>3
    <3>2. ~ (Cardinality(Before(x)) < m + 1 - MaxJobs)
      BY <1>4, <1>7, <2>3, <3>1
    <3>3. job[x].finished <= job[k].finished
      BY <1>6, <2>3, <3>1
    <3>4. Cardinality(Before(x)) <= Cardinality(Before(k)) /\ Cardinality(Before(x)) \in Nat /\ Cardinality(Before(k)) \in Nat
      BY <1>9, <1>10, <2>1, <3>1, <3>3
    <3> QED BY <1>2, <2>2, <3>2, <3>4
  <2> QED BY <2>2, <2>3
<1> QED BY <1>18, <1>19

\* No step of the server overfills the table or the threads, or forgets the
\* wrong job.
LEMMA TableStep ==
  ASSUME JobsInv, TableHolds, [ServerNext]_serverVars
  PROVE  /\ TableHolds'
         /\ \A j \in ToSet(table) \ ToSet(table') :
              Ended(j) /\ \A k \in ToSet(table') : Ended(k) => job[k].finished > job[j].finished
<1>1. /\ table' = table \/ \E j \in Job : CreateArmed(j) \/ CreateRefused(j)
      /\ \A k \in Job : Ended(k) => Ended(k)'
      /\ \A k \in Job : (CreateArmed(k) \/ CreateRefused(k)) => \A j \in Job : Ended(j)' <=> Ended(j)
  BY OutcomesStay
<1>2. CASE table' = table
  <2>1. Running' \subseteq Running
    <3>1. Running' = {k \in ToSet(table) : ~ Ended(k)'}
      BY <1>2 DEF Running, ToSet
    <3>2. ToSet(table) \subseteq Job
      BY LenProperties DEF TableHolds, ToSet
    <3> QED BY <1>1, <3>1, <3>2 DEF Running
  <2>2. IsFiniteSet(Running') /\ Cardinality(Running') <= Cardinality(Running)
    BY <2>1, FS_Subset DEF TableHolds
  <2>3. Cardinality(Running') \in Nat /\ Cardinality(Running) \in Nat /\ MaxRunning \in Nat
    BY <2>2, FS_CardinalityType, JobsAssumption DEF TableHolds
  <2>4. TableHolds'
    BY <1>2, <2>2, <2>3 DEF TableHolds, Distinct
  <2> QED BY <1>2, <2>4 DEF ToSet
<1>3. ASSUME NEW j \in Job, CreateArmed(j) \/ CreateRefused(j)
      PROVE  /\ TableHolds'
             /\ \A k \in ToSet(table) \ ToSet(table') :
                  Ended(k) /\ \A x \in ToSet(table') : Ended(x) => job[x].finished > job[k].finished
  BY <1>1, <1>3, CreationLeaves DEF JobsInv, CreateArmed, CreateRefused
<1> QED BY <1>1, <1>2, <1>3

\* For any bounds, jobs and races of their ends, the table keeps to its bounds
\* by forgetting ended jobs only, and of those the ones that ended first.
THEOREM OldestForgotten == ServerSpec => ForgetsTheOldest
<1>1. TableHolds' => Len(table') <= MaxJobs /\ Cardinality(Running') <= MaxRunning
  BY DEF TableHolds
<1>2. JobsInv /\ TableHolds /\ [ServerNext]_serverVars => TableHolds'
  BY TableStep
<1>3. JobsInv /\ TableHolds /\ [ServerNext]_serverVars =>
        /\ Len(table') <= MaxJobs /\ Cardinality(Running') <= MaxRunning
        /\ \A j \in ToSet(table) \ ToSet(table') :
             Ended(j) /\ \A k \in ToSet(table') : Ended(k) => job[k].finished > job[j].finished
  BY <1>1, <1>2, TableStep
<1> QED BY ServerInvariant, TableStarts, <1>2, <1>3, PTL DEF ServerSpec, ForgetsTheOldest

(***************************************************************************)
(* A pull request with fixes, for any verdicts, fixes and caps.            *)
(***************************************************************************)
LEMMA PrConstants ==
  /\ Targets \in [Fix -> SUBSET Path] /\ Deletes \in [Fix -> SUBSET Path] /\ Added \in [Fix -> Nat]
  /\ \A fix \in Fix : IsFiniteSet(Targets[fix])
  /\ \A fix \in Fix : Creates[fix] \subseteq Targets[fix] /\ Deletes[fix] \cap Targets[fix] = {}
  /\ MaxFiles \in Nat /\ MaxAdded \in Nat /\ MaxFixes \in Nat
  BY FixTreeAssumption

Disjoint(s) == \A i, j \in DOMAIN s : i # j => Targets[s[i]] \cap Targets[s[j]] = {}
Admitted(s) == \A i \in DOMAIN s : Targets[s[i]] \subseteq DOMAIN seen

\* What the gate has let through keeps to the caps, and names no file twice.
GateHolds ==
  /\ DOMAIN seen \subseteq Allowed /\ IsFiniteSet(DOMAIN seen) /\ Cardinality(DOMAIN seen) <= MaxFiles
  /\ Disjoint(accepted) /\ Admitted(accepted)
  /\ total = Total(accepted, Added) /\ total <= MaxAdded

\* So does what is listed, with what there still is to apply.
ListHolds ==
  /\ Disjoint(fixes) /\ Admitted(fixes) /\ Total(fixes, Added) <= total
  /\ phase \in {"verdicts", "gate"} => fixes = <<>> /\ published = <<>>

QueueHolds ==
  /\ Disjoint(queue) /\ Admitted(queue) /\ Total(fixes, Added) + Total(queue, Added) <= total
  /\ \A i \in DOMAIN fixes, j \in DOMAIN queue : Targets[fixes[i]] \cap Targets[queue[j]] = {}

\* A file of the tree is gone, and then the checkout has none or a listed fix
\* deleted it, or it has the listed fixes that name it.
TreeHolds ==
  /\ DOMAIN tree = DOMAIN seen
  /\ \A t \in DOMAIN tree : \/ tree[t] = Missing /\ ~Based(t)
                          \/ tree[t] = Content(Based(t), Filtered(fixes, Naming(t)))

PrInv ==
  /\ PrTypeOK /\ GateHolds /\ ListHolds
  /\ phase = "apply" => QueueHolds /\ TreeHolds
  /\ PublishedIsListed

(***************************************************************************)
(* Lists of fixes.                                                         *)
(***************************************************************************)
LEMMA EmptyList == /\ <<>> \in Seq(Fix) /\ DOMAIN <<>> = {} /\ Total(<<>>, Added) = 0
                   /\ Disjoint(<<>>) /\ Admitted(<<>>)
<1>1. <<>> \in Seq(Fix) /\ DOMAIN <<>> = {}
  BY EmptySeq
<1>2. Total(<<>>, Added) = 0
  BY PrConstants, TotalOfNone
<1> QED BY <1>1, <1>2 DEF Disjoint, Admitted

LEMMA ContentParts ==
  ASSUME NEW base, NEW list
  PROVE  Content(base, list).base = base /\ Content(base, list).fixes = list
  BY DEF Content

\* A file no fix of a list names has none of them.
LEMMA NotNamed ==
  ASSUME NEW s \in Seq(Fix), NEW t, \A i \in DOMAIN s : t \notin Targets[s[i]]
  PROVE  Filtered(s, Naming(t)) = <<>>
<1> DEFINE N == Naming(t)
           f == Filtered(s, N)
<1>1. ToSet(s) \cap N = {}
  BY DEF ToSet, Naming
<1> HIDE DEF N
<1>2. f \in Seq(Fix) /\ ToSet(f) = {}
  BY <1>1, FilteredHolds
<1> HIDE DEF f
<1>3. DOMAIN f = {}
  BY <1>2 DEF ToSet
<1>4. f = <<>>
  BY <1>2, <1>3, LenProperties, EmptySeq
<1> QED BY <1>4 DEF f, N

LEMMA MoreFixes ==
  ASSUME NEW s \in Seq(Fix), NEW x \in Fix
  PROVE  /\ Append(s, x) \in Seq(Fix) /\ Total(s, Added) \in Nat /\ Added[x] \in Nat
         /\ Total(Append(s, x), Added) = Total(s, Added) + Added[x]
         /\ \A i \in DOMAIN Append(s, x) :
              (i \in DOMAIN s /\ Append(s, x)[i] = s[i]) \/ (i = Len(s) + 1 /\ Append(s, x)[i] = x)
         /\ ToSet(Append(s, x)) = ToSet(s) \cup {x}
<1>1. /\ Append(s, x) \in Seq(Fix) /\ Len(Append(s, x)) = Len(s) + 1 /\ Append(s, x)[Len(s) + 1] = x
      /\ \A i \in 1..Len(s) : Append(s, x)[i] = s[i]
  BY AppendProperties
<1>2. DOMAIN Append(s, x) = 1..Len(s) + 1 /\ DOMAIN s = 1..Len(s) /\ Len(s) \in Nat
  BY <1>1, LenProperties
<1>3. \A i \in DOMAIN Append(s, x) :
        (i \in DOMAIN s /\ Append(s, x)[i] = s[i]) \/ (i = Len(s) + 1 /\ Append(s, x)[i] = x)
  BY <1>1, <1>2
<1>4. Total(s, Added) \in Nat /\ Total(Append(s, x), Added) = Total(s, Added) + Added[x]
  BY PrConstants, TotalOfMore
<1>5. Added[x] \in Nat
  BY PrConstants
<1>6. ToSet(Append(s, x)) = ToSet(s) \cup {x}
  BY AppendDistinct
<1> QED BY <1>1, <1>3, <1>4, <1>5, <1>6

LEMMA FewerFixes ==
  ASSUME NEW s \in Seq(Fix), s # <<>>
  PROVE  /\ Tail(s) \in Seq(Fix) /\ Head(s) \in Fix /\ 1 \in DOMAIN s /\ Head(s) = s[1]
         /\ Total(s, Added) = Added[Head(s)] + Total(Tail(s), Added)
         /\ Added[Head(s)] \in Nat /\ Total(Tail(s), Added) \in Nat
         /\ \A i \in DOMAIN Tail(s) : i \in Nat /\ i # 0 /\ i + 1 \in DOMAIN s /\ Tail(s)[i] = s[i + 1]
<1>1. /\ Tail(s) \in Seq(Fix) /\ Len(Tail(s)) = Len(s) - 1 /\ Head(s) = s[1] /\ Len(s) \in Nat \ {0}
      /\ \A i \in 1..Len(s) - 1 : Tail(s)[i] = s[i + 1]
  BY HeadTailProperties, LenProperties, EmptySeq
<1>2. DOMAIN s = 1..Len(s) /\ DOMAIN Tail(s) = 1..Len(s) - 1
  BY <1>1, LenProperties
<1>3. Head(s) \in Fix
  BY <1>1, ElementOfSeq
<1>4. \A i \in DOMAIN Tail(s) : i \in Nat /\ i # 0 /\ i + 1 \in DOMAIN s /\ Tail(s)[i] = s[i + 1]
  BY <1>1, <1>2
<1>5. 1 \in DOMAIN s
  BY <1>1, <1>2
<1>6. /\ Total(s, Added) = Added[Head(s)] + Total(Tail(s), Added)
      /\ Added[Head(s)] \in Nat /\ Total(Tail(s), Added) \in Nat
  BY PrConstants, TotalOfRest
<1> QED BY <1>1, <1>3, <1>4, <1>5, <1>6

LEMMA OneMore ==
  ASSUME NEW s \in Seq(Fix), NEW x \in Fix, Disjoint(s), \A i \in DOMAIN s : Targets[s[i]] \cap Targets[x] = {}
  PROVE  Disjoint(Append(s, x))
<1>1. Targets \in [Fix -> SUBSET Path] /\ DOMAIN s = 1..Len(s) /\ Len(s) \in Nat
  BY PrConstants, LenProperties
<1> SUFFICES ASSUME NEW i \in DOMAIN Append(s, x), NEW j \in DOMAIN Append(s, x), i # j
             PROVE  Targets[Append(s, x)[i]] \cap Targets[Append(s, x)[j]] = {}
  BY DEF Disjoint
<1>2. /\ (i \in DOMAIN s /\ Append(s, x)[i] = s[i]) \/ (i = Len(s) + 1 /\ Append(s, x)[i] = x)
      /\ (j \in DOMAIN s /\ Append(s, x)[j] = s[j]) \/ (j = Len(s) + 1 /\ Append(s, x)[j] = x)
  BY MoreFixes
<1> QED BY <1>1, <1>2 DEF Disjoint

LEMMA OneFewer ==
  ASSUME NEW s \in Seq(Fix), s # <<>>, Disjoint(s)
  PROVE  Disjoint(Tail(s)) /\ \A i \in DOMAIN Tail(s) : Targets[Head(s)] \cap Targets[Tail(s)[i]] = {}
<1>1. /\ 1 \in DOMAIN s /\ Head(s) = s[1]
      /\ \A i \in DOMAIN Tail(s) : i \in Nat /\ i # 0 /\ i + 1 \in DOMAIN s /\ Tail(s)[i] = s[i + 1]
  BY FewerFixes
<1>2. ASSUME NEW i \in DOMAIN Tail(s), NEW j \in DOMAIN Tail(s), i # j
      PROVE  Targets[Tail(s)[i]] \cap Targets[Tail(s)[j]] = {}
  <2>1. i + 1 \in DOMAIN s /\ j + 1 \in DOMAIN s /\ i + 1 # j + 1
    BY <1>1, <1>2
  <2> QED BY <1>1, <2>1 DEF Disjoint
<1>3. ASSUME NEW i \in DOMAIN Tail(s) PROVE Targets[Head(s)] \cap Targets[Tail(s)[i]] = {}
  <2>1. i + 1 \in DOMAIN s /\ i + 1 # 1
    BY <1>1
  <2> QED BY <1>1, <2>1 DEF Disjoint
<1> QED BY <1>2, <1>3 DEF Disjoint

LEMMA FlattenTyped ==
  ASSUME NEW X, NEW n \in Nat, NEW l \in [1..n -> Seq(X)]
  PROVE  FlattenSeq(l) \in Seq(X)
<1> DEFINE step == [p \in Nat \X Seq(X) |-> IF p[1] \in 1..n THEN p[2] \o l[p[1]] ELSE p[2]]
           flat == CHOOSE g : g = [i \in 1..n |-> IF i = 1 THEN l[i] ELSE g[i - 1] \o l[i]]
<1>1. l \in Seq(Seq(X)) /\ Len(l) = n
  BY IsASeq, LenProperties
<1>2. step \in [Nat \X Seq(X) -> Seq(X)]
  <2> SUFFICES ASSUME NEW i \in Nat, NEW k \in Seq(X)
               PROVE  (IF i \in 1..n THEN k \o l[i] ELSE k) \in Seq(X)
    OBVIOUS
  <2> QED BY ConcatProperties
<1>3. \A i \in 1..n, k \in Seq(X) : step[<<i, k>>] = k \o l[i]
  <2> TAKE i \in 1..n, k \in Seq(X)
  <2>1. <<i, k>> \in Nat \X Seq(X)
    OBVIOUS
  <2> QED BY <2>1
<1> HIDE DEF step, flat
<1>4. PICK f \in [0..n -> Seq(X)] : f[0] = <<>> /\ \A i \in 1..n : f[i] = step[<<i, f[i - 1]>>]
  <2>1. Recurs(n, Seq(X), <<>>, step)
    BY <1>2, EmptySeq, Recursion DEF IsStep
  <2> QED BY <2>1 DEF Recurs
<1>5. \A i \in 1..n : f[i] = IF i = 1 THEN l[i] ELSE f[i - 1] \o l[i]
  <2> SUFFICES ASSUME NEW i \in 1..n PROVE f[i] = IF i = 1 THEN l[i] ELSE f[i - 1] \o l[i]
    OBVIOUS
  <2>1. i - 1 \in 0..n /\ f[i - 1] \in Seq(X) /\ l[i] \in Seq(X)
    OBVIOUS
  <2>2. f[i] = f[i - 1] \o l[i]
    BY <1>3, <1>4, <2>1
  <2>3. CASE i = 1
    <3>1. f[i - 1] = <<>>
      BY <1>4, <2>3
    <3> QED BY <2>1, <2>2, <2>3, <3>1, ConcatEmptySeq
  <2> QED BY <2>2, <2>3
<1> DEFINE g == [i \in 1..n |-> f[i]]
<1>6. g = [i \in 1..n |-> IF i = 1 THEN l[i] ELSE g[i - 1] \o l[i]]
  <2>1. \A i \in 1..n : g[i] = IF i = 1 THEN l[i] ELSE g[i - 1] \o l[i]
    <3> SUFFICES ASSUME NEW i \in 1..n, i # 1 PROVE g[i] = g[i - 1] \o l[i]
      BY <1>5
    <3>1. i - 1 \in 1..n
      OBVIOUS
    <3> QED BY <1>5, <3>1
  <2> QED BY <2>1
<1> HIDE DEF g
<1>7. flat = [i \in 1..n |-> IF i = 1 THEN l[i] ELSE flat[i - 1] \o l[i]]
  BY <1>6 DEF flat
<1>8. \A i \in 1..n : flat[i] = IF i = 1 THEN l[i] ELSE flat[i - 1] \o l[i]
  BY <1>7
<1> DEFINE B == {k \in Nat : k + 1 <= n => flat[k + 1] \in Seq(X)}
<1>9. 0 \in B
  <2> SUFFICES ASSUME 1 <= n PROVE flat[1] \in Seq(X)
    OBVIOUS
  <2>1. 1 \in 1..n
    OBVIOUS
  <2> QED BY <1>8, <2>1
<1>10. ASSUME NEW k \in Nat, k \in B PROVE k + 1 \in B
  <2> SUFFICES ASSUME (k + 1) + 1 <= n PROVE flat[(k + 1) + 1] \in Seq(X)
    OBVIOUS
  <2>1. (k + 1) + 1 \in 1..n /\ (k + 1) + 1 # 1 /\ ((k + 1) + 1) - 1 = k + 1 /\ flat[k + 1] \in Seq(X)
    BY <1>10
  <2>2. flat[(k + 1) + 1] = flat[k + 1] \o l[(k + 1) + 1] /\ l[(k + 1) + 1] \in Seq(X)
    BY <1>8, <2>1
  <2> QED BY <2>1, <2>2, ConcatProperties
<1>11. n # 0 => flat[n] \in Seq(X)
  <2> SUFFICES ASSUME n # 0 PROVE flat[n] \in Seq(X)
    OBVIOUS
  <2> HIDE DEF B
  <2>1. n - 1 \in Nat /\ (n - 1) + 1 = n
    OBVIOUS
  <2>2. n - 1 \in B
    BY <1>9, <1>10, <2>1, Counting
  <2> QED BY <2>1, <2>2 DEF B
<1>12. n # 0 => FlattenSeq(l) = flat[n]
  BY <1>1 DEF FlattenSeq, flat
<1>13. n = 0 => FlattenSeq(l) = l /\ l = <<>>
  BY <1>1, EmptySeq DEF FlattenSeq
<1> QED BY <1>11, <1>12, <1>13, EmptySeq

(***************************************************************************)
(* The steps.                                                              *)
(***************************************************************************)
LEMMA PrStarts == PrInit => PrInv
<1> SUFFICES ASSUME PrInit PROVE PrInv
  OBVIOUS
<1> USE DEF PrInit
<1>1. NoResult \in Result
  <2>1. <<>> \in Seq(Fix)
    BY EmptyList
  <2> QED BY <2>1 DEF NoResult, Result
<1>2. PrTypeOK
  <2>1. <<>> \in Seq(Fix) /\ DOMAIN <<>> = {}
    BY EmptyList
  <2>2. Range(<<>>) = {}
    BY <2>1 DEF Range
  <2> QED BY <1>1, <2>1, <2>2 DEF PrTypeOK, Steps
<1>3. DOMAIN seen = {}
  BY EmptyList
<1>4. GateHolds
  <2>1. IsFiniteSet(DOMAIN seen) /\ Cardinality(DOMAIN seen) = 0
    BY <1>3, FS_EmptySet
  <2> QED BY <1>3, <2>1, EmptyList, PrConstants DEF GateHolds
<1>5. ListHolds
  BY EmptyList DEF ListHolds
<1> QED BY <1>2, <1>4, <1>5 DEF PrInv, PublishedIsListed

\* A step that leaves the fixes alone, and the phase that they are in.
LEMMA PrStays ==
  ASSUME PrInv, UNCHANGED <<phase, queue, gateVars, applyVars>>, PrTypeOK'
  PROVE  PrInv'
<1>1. GateHolds'
  BY DEF PrInv, GateHolds, gateVars, Disjoint, Admitted
<1>2. ListHolds'
  BY DEF PrInv, ListHolds, gateVars, applyVars, Disjoint, Admitted
<1>3. phase' = "apply" => QueueHolds' /\ TreeHolds'
  BY DEF PrInv, QueueHolds, TreeHolds, Based, gateVars, applyVars, Disjoint, Admitted
<1>4. PublishedIsListed'
  BY DEF PrInv, PublishedIsListed, Changed, Based, applyVars
<1> QED BY <1>1, <1>2, <1>3, <1>4 DEF PrInv

LEMMA RaisedStep ==
  ASSUME PrInv, Raised
  PROVE  PrInv'
<1> USE DEF Raised
<1>1. PrTypeOK'
  BY DEF PrInv, PrTypeOK, gateVars, applyVars, Steps
<1>2. GateHolds'
  BY DEF PrInv, GateHolds, gateVars, Disjoint, Admitted
<1>3. ListHolds'
  BY DEF PrInv, ListHolds, gateVars, applyVars, Disjoint, Admitted
<1> QED BY <1>1, <1>2, <1>3 DEF PrInv, PublishedIsListed

LEMMA AdjudicateStep ==
  ASSUME PrInv, Adjudicate
  PROVE  PrInv'
<1>1. ASSUME NEW p \in Judged, NEW kind \in {"FP", "TP", "uncertain"}, NEW verified \in BOOLEAN,
             NEW complete \in BOOLEAN, NEW list \in Seq(Fix), Adjudicated(p, kind, verified, complete, list)
      PROVE  PrInv'
  <2>1. [kind |-> kind, verified |-> verified, complete |-> complete, fixes |-> list] \in Result
    BY DEF Result
  <2>2. result' \in [Judged -> Result]
    BY <1>1, <2>1 DEF Adjudicated, PrInv, PrTypeOK
  <2>3. PrTypeOK'
    BY <1>1, <2>2 DEF Adjudicated, PrInv, PrTypeOK, gateVars, applyVars
  <2> QED BY <1>1, <2>3, PrStays DEF Adjudicated
<1> PICK p \in Judged : (\E list \in Lists : Fp(p, list)) \/ Tp(p) \/ Uncertain(p)
  BY DEF Adjudicate
<1>2. <<>> \in Seq(Fix)
  BY EmptyList
<1>3. CASE \E list \in Lists : Fp(p, list)
  <2> PICK list \in Lists : Fp(p, list)
    BY <1>3
  <2>1. list \in Seq(Fix)
    <3>1. PICK m \in 0..MaxFixes : list \in [1..m -> Fix]
      BY DEF Lists, BoundedSeq, SeqOf
    <3>2. m \in Nat
      BY PrConstants
    <3> QED BY <3>1, <3>2
  <2>2. CASE Adjudicated(p, "FP", FALSE, FALSE, <<>>)
    BY <1>1, <1>2, <2>2
  <2>3. ASSUME NEW snapshot \in Seen, Adjudicated(p, "FP", Contradictions(Cited[p], snapshot) = {}, TRUE, list)
        PROVE  PrInv'
    <3>1. (Contradictions(Cited[p], snapshot) = {}) \in BOOLEAN
      OBVIOUS
    <3> DEFINE verified == Contradictions(Cited[p], snapshot) = {}
    <3> HIDE DEF verified
    <3>2. verified \in BOOLEAN /\ Adjudicated(p, "FP", verified, TRUE, list)
      BY <2>3, <3>1 DEF verified
    <3> QED BY <1>1, <2>1, <3>2
  <2> QED BY <2>2, <2>3 DEF Fp
<1>4. CASE Tp(p)
  <2> PICK indicators \in BOOLEAN, found \in BOOLEAN : Adjudicated(p, "TP", indicators /\ found, indicators, <<>>)
    BY <1>4 DEF Tp
  <2> DEFINE verified == indicators /\ found
  <2>1. verified \in BOOLEAN /\ Adjudicated(p, "TP", verified, indicators, <<>>)
    OBVIOUS
  <2> HIDE DEF verified
  <2> QED BY <1>1, <1>2, <2>1
<1>5. CASE Uncertain(p)
  BY <1>1, <1>2, <1>5 DEF Uncertain
<1> QED BY <1>3, <1>4, <1>5

\* With no fix listed there is no source.
LEMMA NothingListed == fixes = <<>> /\ published = <<>> => PublishedIsListed
<1>1. DOMAIN <<>> = {}
  BY EmptyList
<1>2. ToSet(<<>>) = {}
  BY <1>1 DEF ToSet
<1>3. fixes = <<>> => Changed = {}
  BY <1>2 DEF Changed
<1> QED BY <1>1, <1>3 DEF PublishedIsListed

\* The rendering before the gate, or without one.
LEMMA RenderedStep ==
  ASSUME PrInv, phase = "verdicts", phase' \in {"gate", "done"}, UNCHANGED <<gateVars, applyVars>>, PrTypeOK'
  PROVE  PrInv'
<1>1. GateHolds'
  BY DEF PrInv, GateHolds, gateVars, Disjoint, Admitted
<1>2. ListHolds'
  BY DEF PrInv, ListHolds, gateVars, applyVars, Disjoint, Admitted
<1>3. fixes' = <<>> /\ published' = <<>>
  BY DEF PrInv, ListHolds, applyVars
<1>4. PublishedIsListed'
  <2>1. (fixes = <<>> /\ published = <<>> => PublishedIsListed)'
    BY NothingListed, PTL
  <2> QED BY <1>3, <2>1
<1> QED BY <1>1, <1>2, <1>4 DEF PrInv

LEMMA RenderStep ==
  ASSUME PrInv, NEW target \in {"trustsight", "trustsight-harness"}, Render(target)
  PROVE  PrInv'
<1>1. ASSUME NEW order \in SetToAllKPermutations(Judged), NEW extra \in Seq(Fix), RenderFp(order, target, extra)
      PROVE  PrInv'
  <2>1. PICK s \in SUBSET Judged : order \in [1..Cardinality(s) -> s]
    BY DEF SetToAllKPermutations, SetToSeqs
  <2> DEFINE n == Cardinality(s)
  <2>2. n \in Nat
    BY FixTreeAssumption, FS_Subset, FS_CardinalityType
  <2> HIDE DEF n
  <2>3. order \in [1..n -> Judged]
    BY <2>1 DEF n
  <2> DEFINE l == [i \in DOMAIN order |-> result[order[i]].fixes]
  <2>4. l \in [1..n -> Seq(Fix)]
    BY <2>3 DEF PrInv, PrTypeOK, Result
  <2>5. queue' = IF target = "trustsight" THEN FlattenSeq(l) \o extra ELSE queue
    BY <1>1 DEF RenderFp
  <2> HIDE DEF l
  <2>6. FlattenSeq(l) \o extra \in Seq(Fix)
    BY <2>2, <2>4, FlattenTyped, ConcatProperties
  <2>7. queue' \in Seq(Fix)
    BY <2>5, <2>6 DEF PrInv, PrTypeOK
  <2>8. ToSet(order) \subseteq Judged
    BY <2>3 DEF ToSet
  <2>9. data' \subseteq {"suppression", "report", "indicators"} \X Judged
    BY <1>1, <2>8 DEF RenderFp
  <2>10. phase = "verdicts" /\ phase' \in {"gate", "done"} /\ UNCHANGED <<result, gateVars, applyVars>>
    BY <1>1 DEF RenderFp
  <2>11. PrTypeOK'
    BY <2>7, <2>9, <2>10 DEF PrInv, PrTypeOK, Steps, gateVars, applyVars
  <2> QED BY <2>10, <2>11, RenderedStep
<1>2. ASSUME NEW p \in Judged, RenderTp(p, target) PROVE PrInv'
  <2>1. phase = "verdicts" /\ phase' = "done" /\ UNCHANGED <<result, queue, gateVars, applyVars>>
    BY <1>2 DEF RenderTp
  <2>2. data' \subseteq {"suppression", "report", "indicators"} \X Judged
    BY <1>2 DEF RenderTp
  <2>3. PrTypeOK'
    BY <2>1, <2>2 DEF PrInv, PrTypeOK, Steps, gateVars, applyVars
  <2> QED BY <2>1, <2>3, RenderedStep
<1>3. \A extra \in {<<>>} \cup {<<f>> : f \in {g \in Fix : ~WellFormed(g)}} : extra \in Seq(Fix)
  <2>1. \A f \in Fix : <<f>> \in Seq(Fix)
    OBVIOUS
  <2> QED BY <2>1, EmptyList
<1> QED BY <1>1, <1>2, <1>3 DEF Render

LEMMA GateStep ==
  ASSUME PrInv, NEW fix \in Fix, Gate(fix)
  PROVE  PrInv'
<1> DEFINE new == ~Refused(fix) /\ Taken(fix) = {}
<1>1. /\ phase = "gate" /\ queue # <<>> /\ queue' = Tail(queue)
      /\ accepted' = IF new THEN Append(accepted, fix) ELSE accepted
      /\ seen' = IF new THEN [t \in DOMAIN seen \cup Targets[fix] |-> IF t \in Targets[fix] THEN fix ELSE seen[t]]
                 ELSE seen
      /\ total' = IF new THEN total + Added[fix] ELSE total
      /\ UNCHANGED <<phase, result, data, applyVars>>
  BY DEF Gate
<1> HIDE DEF new
<1>2. queue' \in Seq(Fix)
  BY <1>1, FewerFixes DEF PrInv, PrTypeOK
<1>3. fixes' = <<>> /\ published' = <<>> /\ phase' = "gate" /\ tree' = tree
  BY <1>1 DEF PrInv, ListHolds, applyVars
<1>4. PublishedIsListed'
  BY <1>3 DEF PublishedIsListed
<1>5. total \in Nat /\ Added[fix] \in Nat /\ Targets[fix] \subseteq Path /\ accepted \in Seq(Fix)
  BY PrConstants DEF PrInv, PrTypeOK
<1>6. CASE ~new
  <2>1. PrTypeOK'
    BY <1>1, <1>2, <1>3, <1>6 DEF PrInv, PrTypeOK, applyVars
  <2>2. GateHolds'
    BY <1>1, <1>6 DEF PrInv, GateHolds, Disjoint, Admitted
  <2>3. ListHolds'
    BY <1>1, <1>3, <1>6 DEF PrInv, ListHolds, Disjoint, Admitted, applyVars
  <2> QED BY <1>3, <1>4, <2>1, <2>2, <2>3 DEF PrInv
<1>7. CASE new
  <2>1. /\ Targets[fix] \subseteq Allowed /\ ~ (Cardinality(DOMAIN seen \cup Targets[fix]) > MaxFiles)
        /\ ~ (total + Added[fix] > MaxAdded) /\ Targets[fix] \cap DOMAIN seen = {}
    BY <1>7 DEF new, Refused, Taken, PathAllowed
  <2>2. /\ accepted' = Append(accepted, fix) /\ total' = total + Added[fix]
        /\ DOMAIN seen' = DOMAIN seen \cup Targets[fix]
        /\ \A t \in DOMAIN seen' : seen'[t] = IF t \in Targets[fix] THEN fix ELSE seen[t]
    BY <1>1, <1>7
  <2>3. /\ accepted' \in Seq(Fix) /\ Total(accepted', Added) = Total(accepted, Added) + Added[fix]
        /\ \A i \in DOMAIN accepted' : (i \in DOMAIN accepted /\ accepted'[i] = accepted[i]) \/ accepted'[i] = fix
    BY <1>5, <2>2, MoreFixes
  <2>4. Range(seen') \subseteq Fix
    BY <2>2 DEF PrInv, PrTypeOK, Range
  <2>5. PrTypeOK'
    <3>1. DOMAIN seen' \subseteq Path /\ total' \in Nat
      BY <1>5, <2>2 DEF PrInv, PrTypeOK
    <3>2. accepted' \in Seq(Fix)
      BY <2>3
    <3> QED BY <1>1, <1>2, <2>4, <3>1, <3>2 DEF PrInv, PrTypeOK, applyVars
  <2>6. IsFiniteSet(DOMAIN seen') /\ Cardinality(DOMAIN seen') \in Nat
    <3>1. IsFiniteSet(DOMAIN seen) /\ IsFiniteSet(Targets[fix])
      BY PrConstants DEF PrInv, GateHolds
    <3>2. IsFiniteSet(DOMAIN seen \cup Targets[fix])
      BY <3>1, FS_Union
    <3> QED BY <2>2, <3>2, FS_CardinalityType
  <2>7. DOMAIN seen' \subseteq Allowed /\ Cardinality(DOMAIN seen') <= MaxFiles /\ total' <= MaxAdded
    BY <1>5, <2>1, <2>2, <2>6, PrConstants DEF PrInv, GateHolds
  <2>8. Disjoint(accepted')
    <3>1. Disjoint(accepted) /\ \A i \in DOMAIN accepted : Targets[accepted[i]] \cap Targets[fix] = {}
      BY <2>1 DEF PrInv, GateHolds, Admitted
    <3> QED BY <1>5, <2>2, <3>1, OneMore
  <2>9. \A i \in DOMAIN accepted' : Targets[accepted'[i]] \subseteq DOMAIN seen'
    BY <2>2, <2>3 DEF PrInv, GateHolds, Admitted
  <2>10. GateHolds'
    BY <2>2, <2>3, <2>6, <2>7, <2>8, <2>9 DEF PrInv, GateHolds, Disjoint, Admitted
  <2>11. ListHolds'
    <3>1. DOMAIN fixes' = {} /\ Total(fixes', Added) = 0
      BY <1>3, EmptyList
    <3> QED BY <1>3, <1>5, <2>2, <3>1 DEF ListHolds, Disjoint, Admitted
  <2> QED BY <1>3, <1>4, <2>5, <2>10, <2>11 DEF PrInv
<1> QED BY <1>6, <1>7

LEMMA SeedStep ==
  ASSUME PrInv, NEW checkout \in BOOLEAN, Seed(checkout)
  PROVE  PrInv'
<1>1. /\ phase = "gate" /\ fixes' = <<>> /\ published' = <<>> /\ UNCHANGED <<result, data, gateVars>>
      /\ \/ phase' = "apply" /\ queue' = accepted /\ tree' = [t \in DOMAIN seen |-> Content(t \in Checkout, <<>>)]
         \/ phase' = "done" /\ UNCHANGED <<queue, tree>>
  BY DEF Seed, PrInv, ListHolds
<1>2. PrTypeOK'
  <2>1. DOMAIN published' = {} /\ <<>> \in Seq(Fix)
    BY <1>1, EmptyList
  <2>2. DOMAIN tree' \subseteq Path /\ queue' \in Seq(Fix) /\ phase' \in Steps
    BY <1>1 DEF PrInv, PrTypeOK, Steps
  <2> QED BY <1>1, <2>1, <2>2 DEF PrInv, PrTypeOK, gateVars
<1>3. GateHolds'
  BY <1>1 DEF PrInv, GateHolds, gateVars, Disjoint, Admitted
<1>4. ListHolds'
  BY <1>1 DEF PrInv, ListHolds, gateVars, Disjoint, Admitted
<1>5. PublishedIsListed'
  <2>1. (fixes = <<>> /\ published = <<>> => PublishedIsListed)'
    BY NothingListed, PTL
  <2> QED BY <1>1, <2>1
<1>6. ASSUME phase' = "apply" PROVE QueueHolds' /\ TreeHolds'
  <2>1. queue' = accepted /\ tree' = [t \in DOMAIN seen |-> Content(t \in Checkout, <<>>)] /\ accepted' = accepted /\ seen' = seen /\ total' = total
    BY <1>1, <1>6 DEF gateVars
  <2>2. DOMAIN fixes' = {} /\ Total(fixes', Added) = 0 /\ \A t : Filtered(fixes', Naming(t)) = <<>>
    BY <1>1, EmptyList, FilteredNone
  <2>3. Total(queue', Added) = total' /\ total' \in Nat
    BY <2>1 DEF PrInv, GateHolds, PrTypeOK
  <2>4. QueueHolds'
    BY <2>1, <2>2, <2>3 DEF PrInv, GateHolds, QueueHolds, Disjoint, Admitted
  <2>5. TreeHolds'
    <3>1. \A t : Based(t)' <=> t \in Checkout
      BY <1>1, EmptyList DEF Based, ToSet
    <3>2. DOMAIN tree' = DOMAIN seen' /\ \A t \in DOMAIN tree' : tree'[t] = Content(t \in Checkout, <<>>)
      BY <2>1
    <3>3. ASSUME NEW t \in DOMAIN tree' PROVE tree'[t] = Content(Based(t)', Filtered(fixes', Naming(t)))
      <4>1. Based(t)' = (t \in Checkout)
        BY <3>1 DEF Based
      <4> QED BY <2>2, <3>2, <4>1
    <3> QED BY <3>2, <3>3 DEF TreeHolds, Naming, Content
  <2> QED BY <2>4, <2>5
<1> QED BY <1>2, <1>3, <1>4, <1>5, <1>6 DEF PrInv

LEMMA FailsStep ==
  ASSUME PrInv, phase = "apply", queue # <<>>, queue' = Tail(queue),
         UNCHANGED <<phase, result, data, gateVars, applyVars>>
  PROVE  PrInv'
<1>1. /\ queue \in Seq(Fix) /\ queue' \in Seq(Fix) /\ Head(queue) \in Fix
      /\ Total(queue, Added) = Added[Head(queue)] + Total(queue', Added)
      /\ Added[Head(queue)] \in Nat /\ Total(queue', Added) \in Nat
      /\ \A i \in DOMAIN queue' : i + 1 \in DOMAIN queue /\ queue'[i] = queue[i + 1]
  BY FewerFixes DEF PrInv, PrTypeOK
<1>2. PrTypeOK'
  BY <1>1 DEF PrInv, PrTypeOK, gateVars, applyVars
<1>3. GateHolds'
  BY DEF PrInv, GateHolds, gateVars, Disjoint, Admitted
<1>4. ListHolds'
  BY DEF PrInv, ListHolds, gateVars, applyVars, Disjoint, Admitted
<1>5. PublishedIsListed'
  BY DEF PublishedIsListed
<1>6. QueueHolds'
  <2>1. Disjoint(queue')
    BY <1>1, OneFewer DEF PrInv, QueueHolds
  <2>2. \A i \in DOMAIN queue' : Targets[queue'[i]] \subseteq DOMAIN seen'
    BY <1>1 DEF PrInv, QueueHolds, Admitted, gateVars
  <2>3. Total(fixes', Added) + Total(queue', Added) <= total'
    <3>1. fixes' = fixes /\ total' = total /\ fixes \in Seq(Fix) /\ total \in Nat
      BY DEF gateVars, applyVars, PrInv, PrTypeOK
    <3>2. Total(fixes, Added) \in Nat
      BY <1>1, <3>1, MoreFixes
    <3>3. Total(fixes, Added) + Total(queue, Added) <= total
      BY DEF PrInv, QueueHolds
    <3> QED BY <1>1, <3>1, <3>2, <3>3
  <2>4. \A i \in DOMAIN fixes', j \in DOMAIN queue' : Targets[fixes'[i]] \cap Targets[queue'[j]] = {}
    BY <1>1 DEF PrInv, QueueHolds, applyVars
  <2> QED BY <2>1, <2>2, <2>3, <2>4 DEF QueueHolds, Disjoint, Admitted
<1>7. TreeHolds'
  BY DEF PrInv, TreeHolds, Based, gateVars, applyVars
<1> QED BY <1>2, <1>3, <1>4, <1>5, <1>6, <1>7 DEF PrInv

LEMMA AppliesStep ==
  ASSUME PrInv, NEW fix \in Fix, Applies(fix)
  PROVE  PrInv'
<1>1. /\ phase = "apply" /\ queue # <<>> /\ fix = Head(queue) /\ queue' = Tail(queue) /\ fixes' = Append(fixes, fix)
      /\ tree' = [t \in DOMAIN tree |-> IF t \in Touched(fix) THEN Patched(fix, t) ELSE tree[t]]
      /\ UNCHANGED <<phase, result, data, gateVars, published>>
  BY DEF Applies
<1>2. /\ queue \in Seq(Fix) /\ queue' \in Seq(Fix) /\ 1 \in DOMAIN queue /\ fix = queue[1]
      /\ Total(queue, Added) = Added[fix] + Total(queue', Added) /\ Total(queue', Added) \in Nat
      /\ \A i \in DOMAIN queue' : i + 1 \in DOMAIN queue /\ queue'[i] = queue[i + 1]
  BY <1>1, FewerFixes DEF PrInv, PrTypeOK
<1>3. /\ fixes \in Seq(Fix) /\ fixes' \in Seq(Fix) /\ Total(fixes, Added) \in Nat /\ Added[fix] \in Nat
      /\ Total(fixes', Added) = Total(fixes, Added) + Added[fix]
      /\ \A i \in DOMAIN fixes' : (i \in DOMAIN fixes /\ fixes'[i] = fixes[i]) \/ fixes'[i] = fix
  BY <1>1, MoreFixes DEF PrInv, PrTypeOK
<1>4. PrTypeOK'
  BY <1>1, <1>2, <1>3 DEF PrInv, PrTypeOK, gateVars
<1>5. GateHolds'
  BY <1>1 DEF PrInv, GateHolds, gateVars, Disjoint, Admitted
<1>6. Total(fixes', Added) + Total(queue', Added) <= total' /\ Total(fixes', Added) <= total'
  <2>1. Total(fixes, Added) + Total(queue, Added) <= total /\ total' = total /\ total \in Nat
    BY <1>1 DEF PrInv, PrTypeOK, QueueHolds, gateVars
  <2> QED BY <1>2, <1>3, <2>1
<1>7. Targets[fix] \subseteq DOMAIN seen /\ seen' = seen
  BY <1>1, <1>2 DEF PrInv, QueueHolds, Admitted, gateVars
<1>8. ListHolds'
  <2>1. Disjoint(fixes')
    <3>1. Disjoint(fixes) /\ \A i \in DOMAIN fixes : Targets[fixes[i]] \cap Targets[fix] = {}
      BY <1>1, <1>2 DEF PrInv, ListHolds, QueueHolds
    <3> QED BY <1>1, <1>3, <3>1, OneMore
  <2>2. \A i \in DOMAIN fixes' : Targets[fixes'[i]] \subseteq DOMAIN seen'
    BY <1>3, <1>7 DEF PrInv, ListHolds, Admitted
  <2> QED BY <1>1, <1>6, <2>1, <2>2 DEF ListHolds, Disjoint, Admitted
<1>9. QueueHolds'
  <2>1. Disjoint(queue') /\ \A i \in DOMAIN queue' : Targets[fix] \cap Targets[queue'[i]] = {}
    BY <1>1, <1>2, OneFewer DEF PrInv, QueueHolds
  <2>2. \A i \in DOMAIN queue' : Targets[queue'[i]] \subseteq DOMAIN seen'
    BY <1>1, <1>2, <1>7 DEF PrInv, QueueHolds, Admitted
  <2>3. \A i \in DOMAIN fixes', j \in DOMAIN queue' : Targets[fixes'[i]] \cap Targets[queue'[j]] = {}
    <3>1. \A i \in DOMAIN fixes, j \in DOMAIN queue' : Targets[fixes[i]] \cap Targets[queue'[j]] = {}
      BY <1>1, <1>2 DEF PrInv, QueueHolds
    <3> QED BY <1>3, <2>1, <3>1
  <2> QED BY <1>6, <2>1, <2>2, <2>3 DEF QueueHolds, Disjoint, Admitted
<1>10. TreeHolds'
  <2>1. DOMAIN tree' = DOMAIN seen'
    BY <1>1, <1>7 DEF PrInv, TreeHolds
  <2>2. ASSUME NEW t \in DOMAIN tree'
        PROVE  \/ tree'[t] = Missing /\ ~Based(t)'
               \/ tree'[t] = Content(Based(t)', Filtered(fixes', Naming(t)))
    <3>1. /\ t \in DOMAIN tree
          /\ \/ tree[t] = Missing /\ ~Based(t)
             \/ tree[t] = Content(Based(t), Filtered(fixes, Naming(t)))
          /\ tree'[t] = IF t \in Touched(fix) THEN Patched(fix, t) ELSE tree[t]
      BY <1>1 DEF PrInv, TreeHolds
    <3>2. Filtered(fixes', Naming(t)) =
            IF t \in Targets[fix] THEN Append(Filtered(fixes, Naming(t)), fix) ELSE Filtered(fixes, Naming(t))
      <4>1. fix \in Naming(t) <=> t \in Targets[fix]
        BY DEF Naming
      <4>2. Filtered(fixes', Naming(t)) =
              IF fix \in Naming(t) THEN Append(Filtered(fixes, Naming(t)), fix) ELSE Filtered(fixes, Naming(t))
        <5> DEFINE N == Naming(t)
        <5>1. fixes \in Seq(Fix) /\ fixes' = Append(fixes, fix)
          BY <1>1, <1>3
        <5> HIDE DEF N
        <5>2. Filtered(Append(fixes, fix), N) = IF fix \in N THEN Append(Filtered(fixes, N), fix) ELSE Filtered(fixes, N)
          BY <5>1, FilteredMore
        <5> QED BY <5>1, <5>2 DEF N
      <4> QED BY <4>1, <4>2
    <3>6. ToSet(fixes') = ToSet(fixes) \cup {fix}
      BY <1>1, <1>3, MoreFixes
    <3>7. Based(t)' <=> Based(t) /\ t \notin Deletes[fix]
      BY <3>6 DEF Based
    <3>8. Based(t)' \in BOOLEAN /\ Based(t) \in BOOLEAN
      BY DEF Based
    <3>3. CASE t \in Deletes[fix]
      <4>1. tree'[t] = Missing
        BY <3>1, <3>3 DEF Touched, Patched
      <4> QED BY <3>3, <3>7, <4>1
    <3>4. CASE t \notin Deletes[fix] /\ t \in Targets[fix]
      <4>1. tree'[t] = Content(tree[t].base, Append(tree[t].fixes, fix))
        BY <3>1, <3>4 DEF Touched, Patched
      <4>2. Filtered(fixes, Naming(t)) = <<>>
        <5>1. \A i \in DOMAIN fixes : t \notin Targets[fixes[i]]
          BY <1>1, <1>2, <3>4 DEF PrInv, QueueHolds
        <5> QED BY <1>3, <5>1, NotNamed
      <4>3. tree[t].base = Based(t) /\ tree[t].fixes = <<>>
        <5>1. CASE tree[t] = Missing /\ ~Based(t)
          <6>1. Based(t) = FALSE
            BY <3>8, <5>1
          <6>2. Missing.base = FALSE /\ Missing.fixes = <<>>
            BY ContentParts DEF Missing
          <6> QED BY <5>1, <6>1, <6>2
        <5>2. CASE tree[t] = Content(Based(t), Filtered(fixes, Naming(t)))
          BY <4>2, <5>2, ContentParts
        <5> QED BY <3>1, <5>1, <5>2
      <4>4. Based(t)' = Based(t)
        BY <3>4, <3>7, <3>8
      <4>5. Filtered(fixes', Naming(t)) = Append(<<>>, fix)
        BY <3>2, <3>4, <4>2
      <4> QED BY <4>1, <4>3, <4>4, <4>5
    <3>5. CASE t \notin Touched(fix)
      <4>1. tree'[t] = tree[t] /\ Filtered(fixes', Naming(t)) = Filtered(fixes, Naming(t)) /\ (Based(t)' <=> Based(t))
        BY <3>1, <3>2, <3>5, <3>7 DEF Touched
      <4>2. Based(t)' = Based(t)
        BY <3>8, <4>1
      <4> QED BY <3>1, <4>1, <4>2
    <3> QED BY <3>3, <3>4, <3>5 DEF Touched
  <2> QED BY <2>1, <2>2 DEF TreeHolds, Naming
<1>11. PublishedIsListed'
  BY <1>1 DEF PublishedIsListed
<1> QED BY <1>4, <1>5, <1>8, <1>9, <1>10, <1>11 DEF PrInv

LEMMA KilledStep ==
  ASSUME PrInv, NEW fix \in Fix, Killed(fix)
  PROVE  PrInv'
<1>1. CASE Raised
  BY <1>1, RaisedStep
<1>2. CASE queue' = Tail(queue) /\ UNCHANGED <<phase, result, data, gateVars, applyVars>>
  BY <1>2, FailsStep DEF Killed
<1> QED BY <1>1, <1>2 DEF Killed

\* What is collected has no file that an applied fix has deleted.
LEMMA CollectStep ==
  ASSUME PrInv, Collect
  PROVE  PrInv'
<1>1. phase = "apply" /\ UNCHANGED <<result, data, queue, gateVars, fixes, tree>>
  BY DEF Collect
<1>2. Changed \subseteq DOMAIN seen /\ DOMAIN tree = DOMAIN seen
  BY <1>1 DEF Changed, PrInv, ListHolds, Admitted, TreeHolds, ToSet
<1>3. GateHolds'
  BY <1>1 DEF PrInv, GateHolds, gateVars, Disjoint, Admitted
<1>4. CASE phase' = "raised" /\ UNCHANGED published
  <2>1. PrTypeOK'
    BY <1>1, <1>4 DEF PrInv, PrTypeOK, Steps, gateVars
  <2>2. ListHolds'
    BY <1>1, <1>4 DEF PrInv, ListHolds, gateVars, Disjoint, Admitted
  <2> QED BY <1>3, <1>4, <2>1, <2>2 DEF PrInv, PublishedIsListed
<1>5. CASE /\ ~ \E t \in Changed : tree[t] = Missing
           /\ phase' = "done" /\ published' = [t \in {c \in Changed : ~NotText(c)} |-> tree[t]]
  <2>5. ASSUME NEW t \in Changed PROVE tree[t] = Content(Based(t), Filtered(fixes, Naming(t)))
    <3>1. t \in DOMAIN tree /\ tree[t] # Missing
      BY <1>2, <1>5
    <3> QED BY <1>1, <3>1 DEF PrInv, TreeHolds
  <2>6. \A t \in Changed : NotText(t) <=> t \in Undecodable /\ Based(t)
    <3> SUFFICES ASSUME NEW t \in Changed PROVE tree[t].base = Based(t)
      BY DEF NotText
    <3> QED BY <2>5, ContentParts
  <2>1. DOMAIN published' = {t \in Changed : ~(t \in Undecodable /\ Based(t))} /\ Changed' = Changed
    BY <1>1, <1>5, <2>6 DEF Changed
  <2>2. PrTypeOK'
    BY <1>1, <1>2, <1>5, <2>1 DEF PrInv, PrTypeOK, Steps, gateVars
  <2>3. ListHolds'
    BY <1>1, <1>5 DEF PrInv, ListHolds, gateVars, Disjoint, Admitted
  <2>4. PublishedIsListed'
    <3>1. DOMAIN published' \subseteq Allowed
      BY <1>2, <2>1 DEF PrInv, GateHolds
    <3>3. \A t : Based(t)' = Based(t)
      BY <1>1 DEF Based
    <3>2. ASSUME NEW t \in DOMAIN published' PROVE published'[t] = Content(Based(t)', Filtered(fixes', Naming(t)))
      <4>1. t \in Changed /\ published'[t] = tree[t]
        BY <1>5, <2>1
      <4>2. tree[t] = Content(Based(t), Filtered(fixes, Naming(t)))
        BY <2>5, <4>1
      <4> QED BY <1>1, <3>3, <4>1, <4>2
    <3>4. DOMAIN published' = {t \in Changed' : ~(t \in Undecodable /\ Based(t)')}
      BY <2>1, <3>3
    <3> QED BY <3>1, <3>2, <3>4 DEF PublishedIsListed, Naming
  <2> QED BY <1>3, <1>5, <2>2, <2>3, <2>4 DEF PrInv
<1> QED BY <1>4, <1>5 DEF Collect

LEMMA PrStep == PrInv /\ [PrNext]_prVars => PrInv'
<1> SUFFICES ASSUME PrInv, [PrNext]_prVars PROVE PrInv'
  OBVIOUS
<1>1. CASE Adjudicate
  BY <1>1, AdjudicateStep
<1>2. CASE \E target \in {"trustsight", "trustsight-harness"} : Render(target)
  BY <1>2, RenderStep
<1>3. CASE RenderRaises \/ ApplyRaises
  BY <1>3, RaisedStep DEF RenderRaises, ApplyRaises
<1>4. CASE \E fix \in Fix : Gate(fix)
  BY <1>4, GateStep
<1>5. CASE \E checkout \in BOOLEAN : Seed(checkout)
  BY <1>5, SeedStep
<1>6. CASE \E fix \in Fix : Applies(fix)
  BY <1>6, AppliesStep
<1>7. CASE \E fix \in Fix : Fails(fix)
  BY <1>7, FailsStep DEF Fails
<1>8. CASE \E fix \in Fix : Killed(fix)
  BY <1>8, KilledStep
<1>9. CASE Collect
  BY <1>9, CollectStep
<1>10. CASE UNCHANGED prVars
  <2>1. UNCHANGED <<phase, result, data, queue, gateVars, applyVars>>
    BY <1>10 DEF prVars
  <2>2. PrTypeOK'
    BY <2>1 DEF PrInv, PrTypeOK, gateVars, applyVars
  <2> QED BY <2>1, <2>2, PrStays
<1> QED BY <1>1, <1>2, <1>3, <1>4, <1>5, <1>6, <1>7, <1>8, <1>9, <1>10 DEF PrNext

LEMMA PrInvariant == PrSpec => []PrInv
<1>1. PrInit => PrInv
  BY PrStarts
<1>2. PrInv /\ [PrNext]_prVars => PrInv'
  BY PrStep
<1> QED BY <1>1, <1>2, PTL DEF PrSpec

\* Every variable of a rendering has its type.
THEOREM RenderingTyped == PrSpec => []PrTypeOK
<1>1. PrInv => PrTypeOK
  BY DEF PrInv
<1> QED BY <1>1, PrInvariant, PTL

\* validate_and_apply: for any verdicts and fixes, among them some that delete
\* or create files that others change, with git failing or killed at any of
\* them, each source of the pull request is what the listed fixes leave of the
\* checkout's, with the listed fixes that name it, and only files that are not
\* UTF-8 are missing.
THEOREM PullRequestIsItsFixes == PrSpec => []PublishedIsListed
<1>1. PrInv => PublishedIsListed
  BY DEF PrInv
<1> QED BY <1>1, PrInvariant, PTL

\* However many packages and fixes there are, and whatever the caps, the pull
\* request keeps to them and has no two fixes for one file.
THEOREM PullRequestWithinCaps == PrSpec => []WithinCaps
<1>1. PrInv => WithinCaps
  <2> SUFFICES ASSUME PrInv PROVE WithinCaps
    OBVIOUS
  <2>1. Changed \subseteq DOMAIN seen
    BY DEF Changed, PrInv, ListHolds, Admitted, ToSet
  <2>2. IsFiniteSet(DOMAIN seen) /\ Cardinality(DOMAIN seen) <= MaxFiles /\ total <= MaxAdded
    BY DEF PrInv, GateHolds
  <2>3. Cardinality(Changed) <= MaxFiles
    <3>1. IsFiniteSet(Changed) /\ Cardinality(Changed) <= Cardinality(DOMAIN seen)
      BY <2>1, <2>2, FS_Subset
    <3>2. Cardinality(Changed) \in Nat /\ Cardinality(DOMAIN seen) \in Nat
      BY <2>2, <3>1, FS_CardinalityType
    <3> QED BY <2>2, <3>1, <3>2, PrConstants
  <2>4. Total(fixes, Added) <= MaxAdded
    <3>1. fixes \in Seq(Fix) /\ total \in Nat /\ Total(fixes, Added) <= total
      BY DEF PrInv, PrTypeOK, ListHolds
    <3>2. Total(fixes, Added) \in Nat
      <4>1. PICK sum \in [0..Len(fixes) -> Nat] : Total(fixes, Added) = sum[Len(fixes)]
        BY <3>1, PrConstants, TotalSteps
      <4>2. Len(fixes) \in 0..Len(fixes)
        BY <3>1, LenProperties
      <4> QED BY <4>1, <4>2
    <3> QED BY <2>2, <3>1, <3>2, PrConstants
  <2> QED BY <2>3, <2>4 DEF WithinCaps, PrInv, ListHolds, Disjoint
<1> QED BY <1>1, PrInvariant, PTL

=============================================================================
