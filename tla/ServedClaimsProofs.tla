-------------------------- MODULE ServedClaimsProofs --------------------------
(***************************************************************************)
(* Proofs about ServedClaims and FileServerPod, for every set of backups,  *)
(* claims, contents and specs.  The loops of the code are lists here, so   *)
(* the first part is about loops and lists.                                *)
(***************************************************************************)
EXTENDS ServedClaims, FiniteSetTheorems, WellFoundedInduction, NaturalsInduction, TLAPS

(***************************************************************************)
(* Induction and recursion over positions.  The induction hypothesis is a  *)
(* set and a loop's body a function, so that the provers can instantiate   *)
(* both.                                                                   *)
(***************************************************************************)
\* A set of numbers that is not empty has a least element.
LEMMA Least ==
  ASSUME NEW T \in SUBSET Nat, T # {}
  PROVE  \E n \in T : \A m \in T : n <= m
<1>1. PICK n \in T : \A m \in T : ~(<<m, n>> \in OpToRel(<, Nat))
  BY WFMin, NatLessThanWellFounded, Zenon
<1>2. \A m \in T : ~(m < n)
  BY <1>1 DEF OpToRel
<1> QED
  BY <1>2

\* What holds of a number and passes on to the next holds from there on.
LEMMA Induct ==
  ASSUME NEW lo \in Nat, NEW T, lo \in T, \A n \in T : n \in Nat /\ n >= lo => n + 1 \in T
  PROVE  \A n \in Nat : n >= lo => n \in T
<1>1. SUFFICES ASSUME {n \in Nat : n >= lo /\ n \notin T} # {} PROVE FALSE
  OBVIOUS
<1>2. PICK n \in {n \in Nat : n >= lo /\ n \notin T} :
        \A m \in {k \in Nat : k >= lo /\ k \notin T} : n <= m
  BY <1>1, Least
<1>3. n # lo /\ n - 1 \in Nat /\ n - 1 >= lo
  BY <1>2
<1>4. n - 1 \in T
  BY <1>2, <1>3
<1>5. (n - 1) + 1 = n
  BY <1>2
<1> QED
  BY <1>2, <1>3, <1>4, <1>5

\* f holds the values of a loop before its first round and after each.
Iterates(f, lo, hi, base, step) ==
  f[lo] = base /\ \A i \in (lo + 1)..hi : f[i] = step[i][f[i - 1]]

\* A loop has values.  TLAPS needs this to unfold a recursive function.
LEMMA Recursion ==
  ASSUME NEW lo \in Nat, NEW hi \in Nat, lo <= hi, NEW X, NEW base \in X,
         NEW step \in [(lo + 1)..hi -> [X -> X]]
  PROVE  \E f \in [lo..hi -> X] : Iterates(f, lo, hi, base, step)
<1> DEFINE T == {m \in Nat : m > hi \/ \E f \in [lo..m -> X] : Iterates(f, lo, m, base, step)}
<1>1. lo \in T
  <2>1. [i \in lo..lo |-> base] \in [lo..lo -> X]
    OBVIOUS
  <2>2. Iterates([i \in lo..lo |-> base], lo, lo, base, step)
    BY DEF Iterates
  <2> QED
    BY <2>1, <2>2
<1>2. ASSUME NEW m \in T, m \in Nat, m >= lo PROVE m + 1 \in T
  <2>1. CASE m + 1 > hi
    BY <1>2, <2>1
  <2>2. CASE ~(m + 1 > hi)
    <3>1. PICK f \in [lo..m -> X] : Iterates(f, lo, m, base, step)
      BY <1>2, <2>2
    <3>2. m + 1 \in (lo + 1)..hi /\ f[m] \in X
      BY <1>2, <2>2
    <3>3. PICK x \in X : x = step[m + 1][f[m]]
      BY <3>2
    <3>4. PICK g : g = [i \in lo..(m + 1) |-> IF i = m + 1 THEN x ELSE f[i]]
      OBVIOUS
    <3>5. g \in [lo..(m + 1) -> X] /\ g[m + 1] = x /\ \A i \in lo..m : g[i] = f[i]
      BY <1>2, <3>4
    <3>6. g[lo] = base
      BY <1>2, <3>1, <3>5 DEF Iterates
    <3>7. ASSUME NEW i \in (lo + 1)..(m + 1) PROVE g[i] = step[i][g[i - 1]]
      <4>1. i - 1 \in lo..m /\ g[i - 1] = f[i - 1]
        BY <1>2, <3>5
      <4>2. CASE i = m + 1
        BY <1>2, <3>3, <3>5, <4>1, <4>2
      <4>3. CASE i # m + 1
        <5>1. i \in (lo + 1)..m /\ i \in lo..m
          BY <1>2, <4>3
        <5> QED
          BY <3>1, <3>5, <4>1, <5>1 DEF Iterates
      <4> QED
        BY <4>2, <4>3
    <3>8. Iterates(g, lo, m + 1, base, step)
      BY <3>6, <3>7 DEF Iterates
    <3> QED
      BY <1>2, <3>5, <3>8
  <2> QED
    BY <2>1, <2>2
<1> HIDE DEF T
<1>3. hi \in T
  BY <1>1, <1>2, Induct
<1> QED
  BY <1>3 DEF T

\* What every round keeps is true of every value of the loop.
LEMMA Loop ==
  ASSUME NEW lo \in Nat, NEW hi \in Nat, NEW f, NEW G,
         <<lo, f[lo]>> \in G,
         \A i \in (lo + 1)..hi : <<i - 1, f[i - 1]>> \in G => <<i, f[i]>> \in G
  PROVE  \A i \in lo..hi : <<i, f[i]>> \in G
<1> DEFINE T == {m \in Nat : m > hi \/ <<m, f[m]>> \in G}
<1>1. lo \in T
  OBVIOUS
<1>2. ASSUME NEW m \in T, m \in Nat, m >= lo PROVE m + 1 \in T
  <2>1. CASE m + 1 > hi
    BY <1>2, <2>1
  <2>2. CASE ~(m + 1 > hi)
    <3>1. m + 1 \in (lo + 1)..hi /\ (m + 1) - 1 = m /\ <<m, f[m]>> \in G
      BY <1>2, <2>2
    <3>2. <<m + 1, f[m + 1]>> \in G
      BY <3>1
    <3> QED
      BY <1>2, <3>2
  <2> QED
    BY <2>1, <2>2
<1> HIDE DEF T
<1>3. \A n \in Nat : n >= lo => n \in T
  BY <1>1, <1>2, Induct
<1> QED
  BY <1>3 DEF T

-----------------------------------------------------------------------------
(***************************************************************************)
(* Lists.                                                                  *)
(***************************************************************************)
\* What a list with one more element holds.
LEMMA ToSetAppend ==
  ASSUME NEW X, NEW s \in Seq(X), NEW x \in X
  PROVE  ToSet(Append(s, x)) = ToSet(s) \cup {x}
<1>1. PICK t : t = Append(s, x)
  OBVIOUS
<1>2. /\ DOMAIN s = 1..Len(s) /\ DOMAIN t = 1..(Len(s) + 1) /\ t[Len(s) + 1] = x
      /\ \A i \in 1..Len(s) : t[i] = s[i]
  BY <1>1
<1>3. ASSUME NEW i \in 1..(Len(s) + 1) PROVE i \in 1..Len(s) \/ i = Len(s) + 1
  OBVIOUS
<1>4. ASSUME NEW i \in 1..Len(s) PROVE i \in 1..(Len(s) + 1)
  OBVIOUS
<1>5. Len(s) + 1 \in 1..(Len(s) + 1)
  OBVIOUS
<1> QED
  BY <1>1, <1>2, <1>3, <1>4, <1>5 DEF ToSet

\* A new element at the end repeats none.
LEMMA InjectiveAppend ==
  ASSUME NEW X, NEW s \in Seq(X), NEW x \in X, IsInjective(s), x \notin ToSet(s)
  PROVE  IsInjective(Append(s, x))
BY DEF ToSet, IsInjective

\* Those keeps the elements in S and repeats none that was not repeated.
LEMMA ThoseIs ==
  ASSUME NEW X, NEW s \in Seq(X), NEW S
  PROVE  /\ Those(s, S) \in Seq(X) /\ ToSet(Those(s, S)) = ToSet(s) \cap S
         /\ IsInjective(s) => IsInjective(Those(s, S))
<1> DEFINE n == Len(s)
           Up(i) == {s[j] : j \in 1..i}
           Good(i, t) == ToSet(t) = Up(i) \cap S /\ (IsInjective(s) => IsInjective(t))
           G == {p \in Nat \X Seq(X) : Good(p[1], p[2])}
<1>1. PICK step : step = [i \in (0 + 1)..n |->
                            [t \in Seq(X) |-> IF s[i] \in S THEN Append(t, s[i]) ELSE t]]
  OBVIOUS
<1>2. step \in [(0 + 1)..n -> [Seq(X) -> Seq(X)]] /\ n \in Nat /\ 0 <= n /\ <<>> \in Seq(X)
  BY <1>1
<1>3. PICK f \in [0..n -> Seq(X)] : Iterates(f, 0, n, <<>>, step)
  BY <1>2, Recursion
<1>4. ASSUME NEW k \in 0..n
      PROVE  f[k] = IF k = 0 THEN <<>>
                    ELSE IF s[k] \in S THEN Append(f[k - 1], s[k]) ELSE f[k - 1]
  <2>1. CASE k = 0
    BY <1>3, <2>1 DEF Iterates
  <2>2. CASE k # 0
    <3>1. k \in (0 + 1)..n /\ k - 1 \in 0..n
      BY <1>2, <2>2
    <3>2. f[k] = step[k][f[k - 1]] /\ f[k - 1] \in Seq(X)
      BY <1>3, <3>1 DEF Iterates
    <3> QED
      BY <1>1, <2>2, <3>1, <3>2
  <2> QED
    BY <2>1, <2>2
<1>5. \E g : g = [k \in 0..n |-> IF k = 0 THEN <<>>
                                 ELSE IF s[k] \in S THEN Append(g[k - 1], s[k]) ELSE g[k - 1]]
  <2>1. f = [k \in 0..n |-> IF k = 0 THEN <<>>
                            ELSE IF s[k] \in S THEN Append(f[k - 1], s[k]) ELSE f[k - 1]]
    BY <1>4
  <2> QED
    BY <2>1
<1>6. PICK g : /\ g = [k \in 0..n |-> IF k = 0 THEN <<>>
                                      ELSE IF s[k] \in S THEN Append(g[k - 1], s[k]) ELSE g[k - 1]]
               /\ Those(s, S) = g[n]
  BY <1>5 DEF Those
<1>7. <<0, g[0]>> \in G
  <2>1. g[0] = <<>>
    BY <1>2, <1>6
  <2>2. Up(0) = {}
    OBVIOUS
  <2>3. ToSet(<<>>) = {} /\ IsInjective(<<>>)
    BY DEF ToSet, IsInjective
  <2> QED
    BY <1>2, <2>1, <2>2, <2>3
<1>8. ASSUME NEW i \in (0 + 1)..n, <<i - 1, g[i - 1]>> \in G PROVE <<i, g[i]>> \in G
  <2>1. PICK t \in Seq(X) : t = g[i - 1] /\ Good(i - 1, t)
    BY <1>8
  <2>2. i \in 0..n /\ i # 0 /\ i \in Nat /\ s[i] \in X /\ i \in 1..n
    OBVIOUS
  <2>3. g[i] = IF s[i] \in S THEN Append(t, s[i]) ELSE t
    BY <1>6, <2>1, <2>2
  <2>4. Up(i) = Up(i - 1) \cup {s[i]}
    <3>1. \A j \in 1..i : j \in 1..(i - 1) \/ j = i
      OBVIOUS
    <3>2. (\A j \in 1..(i - 1) : j \in 1..i) /\ i \in 1..i
      OBVIOUS
    <3> QED
      BY <3>1, <3>2
  <2>5. IsInjective(s) => s[i] \notin Up(i - 1)
    BY <2>2 DEF IsInjective
  <2>6. CASE s[i] \in S
    <3>1. g[i] = Append(t, s[i]) /\ g[i] \in Seq(X)
      BY <2>2, <2>3, <2>6
    <3>2. ToSet(g[i]) = ToSet(t) \cup {s[i]}
      BY <2>2, <3>1, ToSetAppend
    <3>3. ToSet(g[i]) = Up(i) \cap S
      BY <2>1, <2>4, <2>6, <3>2
    <3>4. IsInjective(s) => IsInjective(g[i])
      BY <2>1, <2>2, <2>5, <3>1, InjectiveAppend
    <3> QED
      BY <2>2, <3>1, <3>3, <3>4
  <2>7. CASE s[i] \notin S
    <3>1. g[i] = t
      BY <2>3, <2>7
    <3> QED
      BY <2>1, <2>2, <2>4, <2>7, <3>1
  <2> QED
    BY <2>6, <2>7
<1> HIDE DEF G
<1>9. <<n, g[n]>> \in G
  <2>1. \A i \in 0..n : <<i, g[i]>> \in G
    BY <1>2, <1>7, <1>8, Loop
  <2> QED
    BY <1>2, <2>1
<1>10. Up(n) = ToSet(s)
  BY DEF ToSet
<1> QED
  BY <1>6, <1>9, <1>10 DEF G

\* The elements of a list, by their positions.
LEMMA ToSetIs ==
  ASSUME NEW X, NEW s \in Seq(X)
  PROVE  /\ ToSet(s) \subseteq X
         /\ \A x : x \in ToSet(s) <=> \E i \in 1..Len(s) : x = s[i]
BY DEF ToSet

\* Two lists without a common element, joined, repeat none.
LEMMA ConcatIs ==
  ASSUME NEW X, NEW s \in Seq(X), NEW t \in Seq(X)
  PROVE  /\ s \o t \in Seq(X) /\ ToSet(s \o t) = ToSet(s) \cup ToSet(t)
         /\ IsInjective(s) /\ IsInjective(t) /\ ToSet(s) \cap ToSet(t) = {}
              => IsInjective(s \o t)
<1>1. PICK u : u = s \o t
  OBVIOUS
<1>2. PICK m \in Nat, n \in Nat : m = Len(s) /\ n = Len(t)
  OBVIOUS
<1>3. /\ DOMAIN s = 1..m /\ DOMAIN t = 1..n /\ DOMAIN u = 1..(m + n) /\ u \in Seq(X)
      /\ \A i \in 1..m : u[i] = s[i]
      /\ \A i \in (m + 1)..(m + n) : u[i] = t[i - m]
  BY <1>1, <1>2
<1>4. \A i \in 1..(m + n) : i \in 1..m \/ (i \in (m + 1)..(m + n) /\ i - m \in 1..n)
  BY <1>2
<1>5. /\ \A i \in 1..m : i \in 1..(m + n)
      /\ \A j \in 1..n : j + m \in 1..(m + n) /\ j + m \in (m + 1)..(m + n) /\ (j + m) - m = j
  BY <1>2
<1>6. ASSUME NEW x PROVE x \in ToSet(u) <=> x \in ToSet(s) \cup ToSet(t)
  <2>1. ASSUME NEW i \in 1..(m + n), x = u[i] PROVE x \in ToSet(s) \cup ToSet(t)
    BY <1>3, <1>4, <2>1 DEF ToSet
  <2>2. ASSUME NEW i \in 1..m, x = s[i] PROVE x \in ToSet(u)
    BY <1>3, <1>5, <2>2 DEF ToSet
  <2>3. ASSUME NEW j \in 1..n, x = t[j] PROVE x \in ToSet(u)
    <3>1. j + m \in DOMAIN u /\ u[j + m] = t[j]
      BY <1>3, <1>5
    <3> QED
      BY <2>3, <3>1 DEF ToSet
  <2> QED
    BY <1>3, <2>1, <2>2, <2>3 DEF ToSet
<1>7. ASSUME IsInjective(s), IsInjective(t), ToSet(s) \cap ToSet(t) = {},
             NEW a \in 1..(m + n), NEW b \in 1..(m + n), u[a] = u[b]
      PROVE  a = b
  <2>1. CASE a \in 1..m /\ b \in 1..m
    BY <1>3, <1>7, <2>1 DEF IsInjective
  <2>2. CASE a \in (m + 1)..(m + n) /\ b \in (m + 1)..(m + n)
    <3>1. a - m \in 1..n /\ b - m \in 1..n /\ t[a - m] = t[b - m]
      BY <1>2, <1>3, <1>7, <2>2
    <3>2. a - m = b - m
      BY <1>3, <1>7, <3>1 DEF IsInjective
    <3> QED
      BY <1>2, <3>2
  <2>3. ASSUME NEW i \in 1..m, NEW j \in (m + 1)..(m + n) PROVE u[i] # u[j]
    <3>1. u[i] \in ToSet(s)
      BY <1>3 DEF ToSet
    <3>2. j - m \in 1..n /\ u[j] = t[j - m]
      BY <1>2, <1>3
    <3>3. u[j] \in ToSet(t)
      BY <1>3, <3>2 DEF ToSet
    <3> QED
      BY <1>7, <3>1, <3>3
  <2> QED
    BY <1>4, <1>7, <2>1, <2>2, <2>3
<1> QED
  BY <1>1, <1>3, <1>6, <1>7 DEF IsInjective

\* FlattenSeq joins the lists; distinct lists of distinct elements give distinct elements.
LEMMA FlattenIs ==
  ASSUME NEW X, NEW ss \in Seq(Seq(X))
  PROVE  /\ FlattenSeq(ss) \in Seq(X)
         /\ ToSet(FlattenSeq(ss)) = UNION {ToSet(ss[i]) : i \in 1..Len(ss)}
         /\ (/\ \A i \in 1..Len(ss) : IsInjective(ss[i])
             /\ \A i, j \in 1..Len(ss) : i # j => ToSet(ss[i]) \cap ToSet(ss[j]) = {})
              => IsInjective(FlattenSeq(ss))
<1> DEFINE n == Len(ss)
           Apart == /\ \A i \in 1..n : IsInjective(ss[i])
                    /\ \A i, j \in 1..n : i # j => ToSet(ss[i]) \cap ToSet(ss[j]) = {}
           Up(i) == UNION {ToSet(ss[j]) : j \in 1..i}
           Good(i, t) == ToSet(t) = Up(i) /\ (Apart => IsInjective(t))
           G == {p \in Nat \X Seq(X) : Good(p[1], p[2])}
<1>1. CASE n = 0
  <2>1. ss = <<>> /\ FlattenSeq(ss) = ss
    BY <1>1 DEF FlattenSeq
  <2>2. ToSet(<<>>) = {} /\ IsInjective(<<>>) /\ <<>> \in Seq(X) /\ 1..n = {}
    BY <1>1 DEF ToSet, IsInjective
  <2> QED
    BY <2>1, <2>2
<1>2. CASE n # 0
  <2>1. n \in Nat /\ 1 <= n /\ \A i \in 1..n : ss[i] \in Seq(X)
    BY <1>2
  <2>2. PICK step : step = [i \in (1 + 1)..n |-> [t \in Seq(X) |-> t \o ss[i]]]
    OBVIOUS
  <2>3. step \in [(1 + 1)..n -> [Seq(X) -> Seq(X)]]
    <3>1. ASSUME NEW i \in (1 + 1)..n, NEW t \in Seq(X) PROVE t \o ss[i] \in Seq(X)
      <4>1. i \in 1..n
        BY <2>1
      <4> QED
        BY <2>1, <4>1
    <3> QED
      BY <2>2, <3>1
  <2>4. ss[1] \in Seq(X)
    BY <2>1
  <2>5. PICK f \in [1..n -> Seq(X)] : Iterates(f, 1, n, ss[1], step)
    BY <2>1, <2>3, <2>4, Recursion
  <2>6. ASSUME NEW k \in 1..n PROVE f[k] = IF k = 1 THEN ss[k] ELSE f[k - 1] \o ss[k]
    <3>1. CASE k = 1
      BY <2>5, <3>1 DEF Iterates
    <3>2. CASE k # 1
      <4>1. k \in (1 + 1)..n /\ k - 1 \in 1..n
        BY <2>1, <3>2
      <4>2. f[k] = step[k][f[k - 1]] /\ f[k - 1] \in Seq(X)
        BY <2>5, <4>1 DEF Iterates
      <4> QED
        BY <2>2, <3>2, <4>1, <4>2
    <3> QED
      BY <3>1, <3>2
  <2>7. \E g : g = [k \in 1..n |-> IF k = 1 THEN ss[k] ELSE g[k - 1] \o ss[k]]
    <3>1. f = [k \in 1..n |-> IF k = 1 THEN ss[k] ELSE f[k - 1] \o ss[k]]
      BY <2>6
    <3> QED
      BY <3>1
  <2>8. PICK g : /\ g = [k \in 1..n |-> IF k = 1 THEN ss[k] ELSE g[k - 1] \o ss[k]]
                 /\ FlattenSeq(ss) = g[n]
    BY <1>2, <2>7 DEF FlattenSeq
  <2>9. <<1, g[1]>> \in G
    <3>1. g[1] = ss[1] /\ 1 \in 1..n
      BY <2>1, <2>8
    <3>2. Up(1) = ToSet(ss[1])
      OBVIOUS
    <3> QED
      BY <2>4, <3>1, <3>2
  <2>10. ASSUME NEW i \in (1 + 1)..n, <<i - 1, g[i - 1]>> \in G PROVE <<i, g[i]>> \in G
    <3>1. PICK t \in Seq(X) : t = g[i - 1] /\ Good(i - 1, t)
      BY <2>10
    <3>2. i \in 1..n /\ i # 1 /\ i \in Nat /\ ss[i] \in Seq(X)
      BY <2>1
    <3>3. g[i] = t \o ss[i]
      BY <2>8, <3>1, <3>2
    <3>4. Up(i) = Up(i - 1) \cup ToSet(ss[i])
      <4>1. \A j \in 1..i : j \in 1..(i - 1) \/ j = i
        OBVIOUS
      <4>2. (\A j \in 1..(i - 1) : j \in 1..i) /\ i \in 1..i
        BY <3>2
      <4> QED
        BY <4>1, <4>2
    <3>5. /\ g[i] \in Seq(X) /\ ToSet(g[i]) = ToSet(t) \cup ToSet(ss[i])
          /\ IsInjective(t) /\ IsInjective(ss[i]) /\ ToSet(t) \cap ToSet(ss[i]) = {}
               => IsInjective(g[i])
      BY <3>2, <3>3, ConcatIs
    <3>6. Apart => ToSet(t) \cap ToSet(ss[i]) = {}
      <4>1. \A j \in 1..(i - 1) : j \in 1..n /\ j # i
        BY <2>1, <3>2
      <4>2. SUFFICES ASSUME Apart, NEW x \in ToSet(t), x \in ToSet(ss[i]) PROVE FALSE
        OBVIOUS
      <4>3. PICK j \in 1..(i - 1) : x \in ToSet(ss[j])
        BY <3>1, <4>2
      <4>4. ToSet(ss[j]) \cap ToSet(ss[i]) = {}
        BY <3>2, <4>1, <4>2
      <4> QED
        BY <4>2, <4>3, <4>4
    <3>7. Good(i, g[i])
      BY <3>1, <3>2, <3>4, <3>5, <3>6
    <3> QED
      BY <3>2, <3>5, <3>7
  <2> HIDE DEF G
  <2>11. <<n, g[n]>> \in G
    <3>1. \A i \in 1..n : <<i, g[i]>> \in G
      BY <2>1, <2>9, <2>10, Loop
    <3> QED
      BY <2>1, <3>1
  <2> QED
    BY <2>8, <2>11 DEF G
<1> QED
  BY <1>1, <1>2

\* SetToSeq lists every element of a finite set once.
LEMMA ListOfSet ==
  ASSUME NEW S, IsFiniteSet(S)
  PROVE  /\ SetToSeq(S) \in Seq(S) /\ IsInjective(SetToSeq(S)) /\ ToSet(SetToSeq(S)) = S
<1> DEFINE n == Cardinality(S)
<1>1. n \in Nat /\ \E f \in [1..n -> S] : IsInjective(f)
  <2>1. n \in Nat /\ ExistsBijection(1..n, S)
    BY FS_CountingElements, FS_CardinalityType
  <2> QED
    BY <2>1 DEF ExistsBijection, Bijection, Injection
<1>2. PICK f : f = SetToSeq(S) /\ f \in [1..n -> S] /\ IsInjective(f)
  BY <1>1 DEF SetToSeq
<1>3. f \in Seq(S)
  BY <1>1, <1>2
<1>4. ToSet(f) = S
  <2>1. ToSet(f) = {f[i] : i \in 1..n} /\ ToSet(f) \subseteq S
    BY <1>2 DEF ToSet
  <2>2. f \in Bijection(1..n, ToSet(f))
    BY <1>2, <2>1 DEF Bijection, Injection, Surjection
  <2>3. Cardinality(ToSet(f)) = n
    BY <1>1, <2>2, FS_CountingElements DEF ExistsBijection
  <2> QED
    BY <2>1, <2>3, FS_Subset
<1> QED
  BY <1>2, <1>3, <1>4

-----------------------------------------------------------------------------
(*************************************************************************)
(* The sort of sortRestoresByTimestamp.                                  *)
(*************************************************************************)
Dated(X) == \A e \in X : e.backup \in Nat

\* The newer of two entries has moved to the front and none is lost.
Exchanged(n, t, u, i, j) ==
  /\ \A k \in 1..n : k # i /\ k # j => u[k] = t[k]
  /\ {u[i], u[j]} = {t[i], t[j]}
  /\ u[i].backup >= t[i].backup /\ u[i].backup >= u[j].backup
  /\ IsInjective(t) => IsInjective(u)

\* One comparison of sortRestoresByTimestamp.
LEMMA ExchangeIs ==
  ASSUME NEW X, Dated(X), NEW n \in Nat, NEW t \in [1..n -> X],
         NEW i \in 1..n, NEW j \in i..n, NEW u, u = Exchange(t, i, j)
  PROVE  u \in [1..n -> X] /\ Exchanged(n, t, u, i, j)
<1>1. j \in 1..n /\ t[i] \in X /\ t[j] \in X
  OBVIOUS
<1>2. PICK a \in Nat, b \in Nat : a = t[i].backup /\ b = t[j].backup
  BY <1>1 DEF Dated
<1>3. CASE b > a
  <2>1. u = [t EXCEPT ![i] = t[j], ![j] = t[i]]
    BY <1>2, <1>3 DEF Exchange
  <2>3. /\ u \in [1..n -> X] /\ u[i] = t[j] /\ u[j] = t[i]
        /\ \A k \in 1..n : k # i /\ k # j => u[k] = t[k]
    BY <1>1, <2>1
  <2>4. u[i].backup >= t[i].backup /\ u[i].backup >= u[j].backup
    BY <1>2, <1>3, <2>3
  <2>5. ASSUME IsInjective(t), NEW k \in 1..n, NEW l \in 1..n, u[k] = u[l] PROVE k = l
    <3> DEFINE at(m) == IF m = i THEN j ELSE IF m = j THEN i ELSE m
    <3>1. \A m \in 1..n : at(m) \in 1..n /\ u[m] = t[at(m)]
      BY <1>1, <2>3
    <3>2. at(k) = at(l)
      BY <2>5, <3>1 DEF IsInjective
    <3> QED
      BY <3>2
  <2> QED
    BY <2>3, <2>4, <2>5 DEF IsInjective, Exchanged
<1>4. CASE ~(b > a)
  <2>1. u = t
    BY <1>2, <1>4 DEF Exchange
  <2>2. t[i].backup >= t[i].backup /\ t[i].backup >= t[j].backup
    BY <1>2, <1>4
  <2> QED
    BY <1>1, <2>1, <2>2 DEF Exchanged
<1> QED
  BY <1>3, <1>4

\* The newest of the entries from i on is at i, with the others behind it.
Swept(n, s, t, i) ==
  /\ \A k \in 1..(i - 1) : t[k] = s[k]
  /\ {t[k] : k \in i..n} = {s[k] : k \in i..n}
  /\ \A k \in i..n : t[i].backup >= t[k].backup
  /\ IsInjective(s) => IsInjective(t)

\* The inner loop of sortRestoresByTimestamp.
LEMMA SweepIs ==
  ASSUME NEW X, Dated(X), NEW n \in Nat, NEW s \in [1..n -> X],
         NEW i \in 1..n, NEW r, r = Sweep(s, i)
  PROVE  r \in [1..n -> X] /\ Swept(n, s, r, i)
<1> DEFINE T == [1..n -> X]
           Good(j, t) == /\ \A k \in 1..(i - 1) : t[k] = s[k]
                         /\ {t[k] : k \in i..n} = {s[k] : k \in i..n}
                         /\ \A k \in i..j : t[i].backup >= t[k].backup
                         /\ IsInjective(s) => IsInjective(t)
           G == {p \in Nat \X T : Good(p[1], p[2])}
<1>1. PICK step : step = [j \in (i + 1)..n |-> [t \in T |-> Exchange(t, i, j)]]
  OBVIOUS
<1>2. i \in Nat /\ i <= n /\ Len(s) = n
  OBVIOUS
<1>3. \A j \in (i + 1)..n : j \in i..n /\ j # i /\ j - 1 \in i..n /\ j \in 1..n /\ j \in Nat
  BY <1>2
<1>4. \A j \in (i + 1)..n : \A t \in T : Exchange(t, i, j) \in T
  BY <1>3, ExchangeIs
<1>5. step \in [(i + 1)..n -> [T -> T]]
  BY <1>1, <1>4
<1>6. PICK f \in [i..n -> T] : Iterates(f, i, n, s, step)
  BY <1>2, <1>5, Recursion
<1>7. ASSUME NEW j \in i..n
      PROVE  f[j] = IF j = i THEN s ELSE Exchange(f[j - 1], i, j)
  <2>1. CASE j = i
    BY <1>6, <2>1 DEF Iterates
  <2>2. CASE j # i
    <3>1. j \in (i + 1)..n /\ j - 1 \in i..n
      BY <1>2, <2>2
    <3>2. f[j] = step[j][f[j - 1]] /\ f[j - 1] \in T
      BY <1>6, <3>1 DEF Iterates
    <3> QED
      BY <1>1, <2>2, <3>1, <3>2
  <2> QED
    BY <2>1, <2>2
<1>8. \E g : g = [j \in i..n |-> IF j = i THEN s ELSE Exchange(g[j - 1], i, j)]
  <2>1. f = [j \in i..n |-> IF j = i THEN s ELSE Exchange(f[j - 1], i, j)]
    BY <1>7
  <2> QED
    BY <2>1
<1>9. PICK g : /\ g = [j \in i..n |-> IF j = i THEN s ELSE Exchange(g[j - 1], i, j)]
               /\ Sweep(s, i) = g[n]
  BY <1>2, <1>8 DEF Sweep
<1>10. <<i, g[i]>> \in G
  <2>1. g[i] = s
    BY <1>2, <1>9
  <2>2. s[i].backup \in Nat
    BY DEF Dated
  <2>3. \A k \in i..i : k = i
    OBVIOUS
  <2>4. \A k \in i..i : s[i].backup >= s[k].backup
    BY <2>2, <2>3
  <2> QED
    BY <1>2, <2>1, <2>4
<1>11. ASSUME NEW j \in (i + 1)..n, <<j - 1, g[j - 1]>> \in G PROVE <<j, g[j]>> \in G
  <2>1. PICK t \in T : t = g[j - 1] /\ Good(j - 1, t)
    BY <1>11
  <2>2. PICK u : u = Exchange(t, i, j)
    OBVIOUS
  <2>3. g[j] = u
    BY <1>3, <1>9, <2>1, <2>2
  <2>4. /\ u \in T
        /\ \A k \in 1..n : k # i /\ k # j => u[k] = t[k]
        /\ {u[i], u[j]} = {t[i], t[j]}
        /\ u[i].backup >= t[i].backup /\ u[i].backup >= u[j].backup
        /\ IsInjective(t) => IsInjective(u)
    <3>1. j \in i..n
      BY <1>3
    <3>2. u \in T /\ Exchanged(n, t, u, i, j)
      BY <2>2, <3>1, ExchangeIs
    <3> QED
      BY <3>2 DEF Exchanged
  <2>5. \A k \in 1..(i - 1) : u[k] = s[k]
    <3>1. \A k \in 1..(i - 1) : k \in 1..n /\ k # i /\ k # j
      BY <1>2, <1>3
    <3> QED
      BY <2>1, <2>4, <3>1
  <2>6. {u[k] : k \in i..n} = {s[k] : k \in i..n}
    <3>1. i \in i..n /\ j \in i..n /\ \A k \in i..n : k \in 1..n
      BY <1>2, <1>3
    <3>2. {u[k] : k \in i..n} = {t[k] : k \in i..n}
      <4>1. \A k \in i..n : \E l \in i..n : u[k] = t[l]
        BY <2>4, <3>1
      <4>2. \A k \in i..n : \E l \in i..n : t[k] = u[l]
        BY <2>4, <3>1
      <4>3. ASSUME NEW x PROVE x \in {u[k] : k \in i..n} <=> x \in {t[k] : k \in i..n}
        <5>1. ASSUME NEW k \in i..n, x = u[k] PROVE x \in {t[l] : l \in i..n}
          BY <4>1, <5>1
        <5>2. ASSUME NEW k \in i..n, x = t[k] PROVE x \in {u[l] : l \in i..n}
          BY <4>2, <5>2
        <5> QED
          BY <5>1, <5>2
      <4> QED
        BY <4>3
    <3> QED
      BY <2>1, <3>2
  <2>7. ASSUME NEW k \in i..j PROVE u[i].backup >= u[k].backup
    <3>1. CASE k = j
      BY <2>4, <3>1
    <3>2. CASE k = i
      <4>1. u[i].backup \in Nat
        BY <2>4 DEF Dated
      <4> QED
        BY <3>2, <4>1
    <3>3. CASE k # i /\ k # j
      <4>1. k \in 1..n /\ k \in i..(j - 1)
        BY <1>2, <1>3, <3>3
      <4>2. u[k] = t[k] /\ t[i].backup >= t[k].backup
        BY <2>1, <2>4, <3>3, <4>1
      <4>3. u[i].backup \in Nat /\ t[i].backup \in Nat /\ t[k].backup \in Nat
        BY <2>1, <2>4, <4>1 DEF Dated
      <4> QED
        BY <2>4, <4>2, <4>3
    <3> QED
      BY <3>1, <3>2, <3>3
  <2>8. Good(j, u)
    BY <2>1, <2>4, <2>5, <2>6, <2>7
  <2> HIDE DEF Good
  <2> QED
    BY <1>3, <2>3, <2>4, <2>8
<1> HIDE DEF G
<1>12. <<n, g[n]>> \in G
  <2>1. \A j \in i..n : <<j, g[j]>> \in G
    BY <1>2, <1>10, <1>11, Loop
  <2> QED
    BY <1>2, <2>1
<1>13. r \in T /\ Good(n, r)
  <2> HIDE DEF Good
  <2> QED
    BY <1>9, <1>12 DEF G
<1> QED
  BY <1>13 DEF Swept

\* sortRestoresByTimestamp keeps the entries, each as often as before where none
\* is repeated, and orders them from the newest.
LEMMA SortIs ==
  ASSUME NEW X, Dated(X), NEW s \in Seq(X)
  PROVE  LET t == sortRestoresByTimestamp(s) IN
         /\ t \in Seq(X) /\ ToSet(t) = ToSet(s)
         /\ \A k, l \in DOMAIN t : k < l => t[k].backup >= t[l].backup
         /\ IsInjective(s) => IsInjective(t)
<1> DEFINE n == Len(s)
           T == [1..n -> X]
           Good(i, t) == /\ {t[k] : k \in 1..n} = {s[k] : k \in 1..n}
                         /\ \A k \in 1..i : \A l \in k..n : t[k].backup >= t[l].backup
                         /\ IsInjective(s) => IsInjective(t)
           G == {p \in Nat \X T : Good(p[1], p[2])}
<1>1. n \in Nat /\ 0 <= n /\ s \in T
  OBVIOUS
<1>2. PICK step : step = [i \in (0 + 1)..n |-> [t \in T |-> Sweep(t, i)]]
  OBVIOUS
<1>3. \A i \in (0 + 1)..n : i \in 1..n /\ i # 0 /\ i - 1 \in 0..n /\ i \in 0..n /\ i \in Nat
  BY <1>1
<1>4. \A i \in (0 + 1)..n : \A t \in T : Sweep(t, i) \in T
  BY <1>1, <1>3, SweepIs
<1>5. step \in [(0 + 1)..n -> [T -> T]]
  BY <1>2, <1>4
<1>6. PICK f \in [0..n -> T] : Iterates(f, 0, n, s, step)
  BY <1>1, <1>5, Recursion
<1>7. ASSUME NEW i \in 0..n
      PROVE  f[i] = IF i = 0 THEN s ELSE Sweep(f[i - 1], i)
  <2>1. CASE i = 0
    BY <1>6, <2>1 DEF Iterates
  <2>2. CASE i # 0
    <3>1. i \in (0 + 1)..n /\ i - 1 \in 0..n
      BY <1>1, <2>2
    <3>2. f[i] = step[i][f[i - 1]] /\ f[i - 1] \in T
      BY <1>6, <3>1 DEF Iterates
    <3> QED
      BY <1>2, <2>2, <3>1, <3>2
  <2> QED
    BY <2>1, <2>2
<1>8. \E g : g = [i \in 0..n |-> IF i = 0 THEN s ELSE Sweep(g[i - 1], i)]
  <2>1. f = [i \in 0..n |-> IF i = 0 THEN s ELSE Sweep(f[i - 1], i)]
    BY <1>7
  <2> QED
    BY <2>1
<1>9. PICK g : /\ g = [i \in 0..n |-> IF i = 0 THEN s ELSE Sweep(g[i - 1], i)]
               /\ sortRestoresByTimestamp(s) = g[n]
  BY <1>8 DEF sortRestoresByTimestamp
<1>10. <<0, g[0]>> \in G
  <2>1. g[0] = s
    BY <1>1, <1>9
  <2>2. \A k \in 1..0 : FALSE
    OBVIOUS
  <2> QED
    BY <1>1, <2>1, <2>2
<1>11. ASSUME NEW i \in (0 + 1)..n, <<i - 1, g[i - 1]>> \in G PROVE <<i, g[i]>> \in G
  <2>1. PICK t \in T : t = g[i - 1] /\ Good(i - 1, t)
    BY <1>11
  <2>2. PICK u : u = Sweep(t, i)
    OBVIOUS
  <2>3. g[i] = u
    BY <1>3, <1>9, <2>1, <2>2
  <2>4. /\ u \in T
        /\ \A k \in 1..(i - 1) : u[k] = t[k]
        /\ {u[k] : k \in i..n} = {t[k] : k \in i..n}
        /\ \A k \in i..n : u[i].backup >= u[k].backup
        /\ IsInjective(t) => IsInjective(u)
    <3>1. i \in 1..n
      BY <1>3
    <3>2. u \in T /\ Swept(n, t, u, i)
      BY <1>1, <2>2, <3>1, SweepIs
    <3> QED
      BY <3>2 DEF Swept
  <2>5. \A k \in 1..n : k \in 1..(i - 1) \/ k \in i..n
    BY <1>1, <1>3
  <2>6. {u[k] : k \in 1..n} = {s[k] : k \in 1..n}
    <3>1. \A k \in i..n : k \in 1..n
      BY <1>1, <1>3
    <3>2. \A k \in 1..n : \E l \in 1..n : u[k] = t[l]
      BY <2>4, <2>5, <3>1
    <3>3. \A k \in 1..n : \E l \in 1..n : t[k] = u[l]
      BY <2>4, <2>5, <3>1
    <3>4. {u[k] : k \in 1..n} = {t[k] : k \in 1..n}
      <4>1. ASSUME NEW x PROVE x \in {u[k] : k \in 1..n} <=> x \in {t[k] : k \in 1..n}
        <5>1. ASSUME NEW k \in 1..n, x = u[k] PROVE x \in {t[l] : l \in 1..n}
          BY <3>2, <5>1
        <5>2. ASSUME NEW k \in 1..n, x = t[k] PROVE x \in {u[l] : l \in 1..n}
          BY <3>3, <5>2
        <5> QED
          BY <5>1, <5>2
      <4> QED
        BY <4>1
    <3> QED
      BY <2>1, <3>4
  <2>7. ASSUME NEW k \in 1..i, NEW l \in k..n PROVE u[k].backup >= u[l].backup
    <3>1. CASE k = i
      BY <2>4, <3>1
    <3>2. CASE k # i
      <4>1. k \in 1..(i - 1) /\ k \in 1..n /\ l \in 1..n /\ i \in 1..n
        BY <1>1, <1>3, <3>2
      <4>2. u[k] = t[k] /\ \A m \in k..n : t[k].backup >= t[m].backup
        BY <2>1, <2>4, <4>1
      <4>3. CASE l \in 1..(i - 1)
        BY <2>4, <4>2, <4>3
      <4>4. CASE l \in i..n
        <5>1. PICK m \in i..n : u[l] = t[m]
          BY <2>4, <4>4
        <5>2. m \in k..n
          BY <4>1
        <5> QED
          BY <4>2, <5>1, <5>2
      <4> QED
        BY <2>5, <4>1, <4>3, <4>4
    <3> QED
      BY <3>1, <3>2
  <2>8. Good(i, u)
    BY <2>1, <2>4, <2>6, <2>7
  <2> QED
    BY <1>3, <2>3, <2>4, <2>8
<1> HIDE DEF G
<1>12. <<n, g[n]>> \in G
  <2>1. \A i \in 0..n : <<i, g[i]>> \in G
    BY <1>1, <1>10, <1>11, Loop
  <2> QED
    BY <1>1, <2>1
<1>13. PICK t \in T : t = sortRestoresByTimestamp(s) /\ Good(n, t)
  BY <1>9, <1>12 DEF G
<1>14. t \in Seq(X) /\ DOMAIN t = 1..n /\ DOMAIN s = 1..n
  BY <1>1
<1>15. ToSet(t) = ToSet(s)
  BY <1>13, <1>14 DEF ToSet
<1>16. \A k, l \in 1..n : k < l => l \in k..n
  BY <1>1
<1> QED
  BY <1>13, <1>14, <1>15, <1>16

-----------------------------------------------------------------------------
(*************************************************************************)
(* What the backups hold and what the goroutines send.                   *)
(*************************************************************************)
Result == [backup : Backups, reason : Reasons, claims : SUBSET UIDs]
Entry == [backup : Backups, state : States]

\* Claims of one backup have distinct names.
LEMMA ContentsOf ==
  ASSUME ConstantsAssumption, NEW c \in Contents
  PROVE  /\ c \in BackupContents /\ c.claims \subseteq UIDs
         /\ \A u, w \in c.claims : Claims[u].name = Claims[w].name => u = w
BY DEF ConstantsAssumption, BackupContents

\* What the goroutine of a backup sends tells whether the backup is readable.
LEMMA PossibleIs ==
  ASSUME NEW c \in BackupContents, NEW p \in PossibleResults(c)
  PROVE  /\ p.reason \in Reasons /\ p.claims \subseteq UIDs
         /\ p.reason = "none" => Readable(c) /\ p.claims = c.claims
         /\ Readable(c) => p.reason = "none"
<1>1. /\ c.crd \in {"kept", "deleted", "incomplete", "deleted while read"}
      /\ c.list \in {"with the VM", "without the VM", "unavailable"}
      /\ c.tar \in {"readable", "absent", "corrupt"} /\ c.hasVM \in BOOLEAN
      /\ c.claims \subseteq UIDs
  BY DEF BackupContents
<1> DEFINE vm == ExtractVMFromBackupMetadata(c)
           problems == {ClaimProblem(c, u) : u \in c.claims} \ {Failure("none")}
<1>2. vm \in {"not found", "error", "VM"}
      /\ (vm = "VM" <=> c.list # "without the VM" /\ c.tar = "readable" /\ c.hasVM)
  BY <1>1 DEF ExtractVMFromBackupMetadata, downloadVMResource
<1>3. ASSUME NEW u \in c.claims
      PROVE  \/ /\ ClaimProblem(c, u) = [reason |-> "BackupFilesMissing", claims |-> {}]
                /\ u \in c.lost
             \/ /\ ClaimProblem(c, u) = [reason |-> "UnsupportedBackupFormat", claims |-> {u}]
                /\ u \in c.unlabelled
             \/ /\ ClaimProblem(c, u) = [reason |-> "none", claims |-> {}]
                /\ u \notin c.lost \cup c.unlabelled
  BY DEF ClaimProblem, Failure
<1>4. ASSUME NEW q \in problems
      PROVE  /\ q.reason \in {"BackupFilesMissing", "UnsupportedBackupFormat"}
             /\ q.claims \subseteq UIDs /\ ~Readable(c)
  <2>1. PICK u \in c.claims : q = ClaimProblem(c, u) /\ q # [reason |-> "none", claims |-> {}]
    BY DEF Failure
  <2>2. u \in c.claims \cap (c.lost \cup c.unlabelled)
    BY <1>3, <2>1
  <2>3. ~Readable(c)
    BY <2>2 DEF Readable
  <2>4. q \in {[reason |-> "BackupFilesMissing", claims |-> {}],
               [reason |-> "UnsupportedBackupFormat", claims |-> {u}]}
    BY <1>3, <2>1
  <2>5. u \in UIDs
    BY <1>1
  <2> QED
    BY <2>3, <2>4, <2>5
<1>5. problems = {} => c.claims \cap (c.lost \cup c.unlabelled) = {}
  <2>1. SUFFICES ASSUME NEW u \in c.claims, u \in c.lost \cup c.unlabelled
                 PROVE  ClaimProblem(c, u) # [reason |-> "none", claims |-> {}]
    BY DEF Failure
  <2>2. ClaimProblem(c, u).reason # "none"
    BY <1>3, <2>1
  <2> QED
    BY <2>2
<1> HIDE DEF problems
<1>6. CASE ~getBackupMetadata(c)
  <2>1. p = [reason |-> "BackupNotFound", claims |-> {}] /\ ~Readable(c)
    BY <1>6 DEF PossibleResults, getBackupMetadata, Readable, Failure
  <2> QED
    BY <2>1 DEF Reasons
<1>7. CASE getBackupMetadata(c) /\ (c.crd = "deleted while read" \/ vm = "error")
  <2>1. p = [reason |-> "ExtractionFailed", claims |-> {}]
    BY <1>7 DEF PossibleResults, extractPVCsForGivenVMFromBackup, Failure
  <2>2. ~Readable(c)
    BY <1>2, <1>7 DEF Readable
  <2> QED
    BY <2>1, <2>2 DEF Reasons
<1>8. CASE getBackupMetadata(c) /\ c.crd # "deleted while read" /\ vm = "not found"
  <2>1. p = [reason |-> "BackupFilesMissing", claims |-> {}]
    BY <1>8 DEF PossibleResults, extractPVCsForGivenVMFromBackup, Failure
  <2>2. ~Readable(c)
    BY <1>2, <1>8 DEF Readable
  <2> QED
    BY <2>1, <2>2 DEF Reasons
<1>9. CASE getBackupMetadata(c) /\ c.crd # "deleted while read" /\ vm = "VM"
  <2>1. p \in IF problems # {} THEN problems ELSE {[reason |-> "none", claims |-> c.claims]}
    BY <1>9 DEF PossibleResults, extractPVCsForGivenVMFromBackup, problems
  <2>2. CASE p \in problems
    BY <1>4, <2>2 DEF Reasons
  <2>3. CASE p = [reason |-> "none", claims |-> c.claims] /\ problems = {}
    <3>1. c.crd = "kept"
      BY <1>1, <1>9 DEF getBackupMetadata
    <3>2. Readable(c)
      BY <1>2, <1>5, <1>9, <2>3, <3>1 DEF Readable
    <3> QED
      BY <1>1, <2>3, <3>2 DEF Reasons
  <2> QED
    BY <2>1, <2>2, <2>3
<1> QED
  BY <1>2, <1>6, <1>7, <1>8, <1>9

-----------------------------------------------------------------------------
(***************************************************************************)
(* The results and what processDiscoveryResults makes of them.             *)
(***************************************************************************)
\* Each result is one of those its backup may have, and every backup whose
\* goroutine has answered has one.
Truthful ==
  \A r \in ToSet(results) :
    r.backup \in Selected
      /\ [reason |-> r.reason, claims |-> r.claims] \in PossibleResults(contents[r.backup])
Answered ==
  \A i \in DOMAIN spec.selected \ reading : \E r \in ToSet(results) : r.backup = spec.selected[i]

\* Where no backup is selected twice, none has two results.
Once ==
  IsInjective(spec.selected) =>
    /\ IsInjective(results)
    /\ \A r, q \in ToSet(results) : r.backup = q.backup => r = q
    /\ \A r \in ToSet(results) : \A i \in reading : r.backup # spec.selected[i]

ResultsInv ==
  /\ contents \in [Backups -> Contents] /\ spec \in Specs /\ phase \in Phases
  /\ reading \subseteq DOMAIN spec.selected
  /\ results \in Seq(Result)
  /\ Len(results) + Cardinality(reading) = Len(spec.selected)
  /\ phase # "reading" => reading = {}
  /\ Truthful /\ Answered /\ Once

\* What ConstantsAssumption says of the spec.
LEMMA SpecIs ==
  ASSUME ConstantsAssumption, spec \in Specs
  PROVE  /\ spec.selected \in Seq(Backups) /\ spec.selected # <<>>
         /\ DOMAIN spec.selected = 1..Len(spec.selected)
         /\ Len(spec.selected) \in Nat /\ Selected \subseteq Backups
         /\ \A i \in DOMAIN spec.selected : spec.selected[i] \in Selected
         /\ spec.methods \subseteq Methods
<1>1. spec.selected \in Seq(Backups) /\ spec.selected # <<>> /\ spec.methods \subseteq Methods
  BY DEF ConstantsAssumption, RestoreSpec
<1>2. ToSet(spec.selected) = {spec.selected[i] : i \in DOMAIN spec.selected}
  BY DEF ToSet
<1> QED
  BY <1>1, <1>2 DEF Selected

\* Nothing has been read yet.
LEMMA ResultsInit ==
  ASSUME ConstantsAssumption, Init
  PROVE  ResultsInv
<1>1. spec \in Specs /\ contents \in [Backups -> Contents] /\ phase = "reading"
      /\ results = <<>> /\ reading = DOMAIN spec.selected
  BY DEF Init
<1>2. Cardinality(1..Len(spec.selected)) = Len(spec.selected)
  <2>1. PICK n \in Nat : n = Len(spec.selected)
    BY <1>1, SpecIs
  <2>2. Cardinality(1..n) = n
    BY FS_Interval
  <2> QED
    BY <2>1, <2>2
<1>3. ToSet(results) = {} /\ IsInjective(results) /\ results \in Seq(Result)
  BY <1>1 DEF ToSet, IsInjective
<1>4. Len(results) + Cardinality(reading) = Len(spec.selected)
  BY <1>1, <1>2, SpecIs
<1> QED
  BY <1>1, <1>3, <1>4 DEF ResultsInv, Truthful, Answered, Once, Phases

\* The results stay right while nobody adds any.
LEMMA ResultsKept ==
  ASSUME ResultsInv, phase # "reading", phase' \in Phases, phase' # "reading",
         UNCHANGED <<contents, spec, reading, results>>
  PROVE  ResultsInv'
BY DEF ResultsInv, Truthful, Answered, Once, Selected

\* Each goroutine adds a result its backup may have, and only one.
LEMMA ResultsNext ==
  ASSUME ConstantsAssumption, ResultsInv, [Next]_vars
  PROVE  ResultsInv'
<1>1. ASSUME NEW i \in reading, discoverPVCsFromSingleBackup(i) PROVE ResultsInv'
  <2>1. PICK p \in PossibleResults(contents[spec.selected[i]]) :
           results' = Append(results, [backup |-> spec.selected[i], reason |-> p.reason,
                                       claims |-> p.claims])
    BY <1>1 DEF discoverPVCsFromSingleBackup
  <2>2. PICK b \in Selected : b = spec.selected[i] /\ b \in Backups /\ i \in DOMAIN spec.selected
    BY <1>1, SpecIs DEF ResultsInv
  <2>3. /\ reading' = reading \ {i} /\ phase = "reading"
        /\ phase' = IF reading' = {} THEN "read" ELSE "reading"
        /\ contents' = contents /\ spec' = spec
    BY <1>1 DEF discoverPVCsFromSingleBackup, input
  <2>4. contents[b] \in BackupContents
    BY <2>2, ContentsOf DEF ResultsInv
  <2>5. p.reason \in Reasons /\ p.claims \subseteq UIDs
    BY <2>1, <2>2, <2>4, PossibleIs
  <2>6. PICK q : q = [backup |-> b, reason |-> p.reason, claims |-> p.claims]
    OBVIOUS
  <2>7. q \in Result /\ results' = Append(results, q) /\ q.backup = b
    BY <2>1, <2>2, <2>5, <2>6 DEF Result
  <2>8. ToSet(results') = ToSet(results) \cup {q} /\ results' \in Seq(Result)
        /\ Len(results') = Len(results) + 1
    <3>1. results \in Seq(Result)
      BY DEF ResultsInv
    <3> QED
      BY <2>7, <3>1, ToSetAppend
  <2>9. [reason |-> q.reason, claims |-> q.claims] = p
    <3>1. p = [reason |-> p.reason, claims |-> p.claims]
      <4>1. \E x, y : p = [reason |-> x, claims |-> y]
        <5>1. p \in {Failure("BackupNotFound"), Failure("ExtractionFailed"),
                     Failure("BackupFilesMissing"),
                     [reason |-> "none", claims |-> contents[b].claims]}
              \/ \E u : p = ClaimProblem(contents[b], u)
          BY <2>1, <2>2 DEF PossibleResults, extractPVCsForGivenVMFromBackup
        <5> QED
          BY <5>1 DEF Failure, ClaimProblem
      <4> QED
        BY <4>1
    <3> QED
      BY <2>6, <3>1
  <2>10. Truthful'
    BY <2>1, <2>2, <2>3, <2>7, <2>8, <2>9 DEF ResultsInv, Truthful, Selected
  <2>11. Answered'
    BY <2>2, <2>3, <2>7, <2>8 DEF ResultsInv, Answered
  <2>12. Once'
    <3>1. SUFFICES ASSUME IsInjective(spec.selected) PROVE
              /\ IsInjective(results')
              /\ \A r, s \in ToSet(results') : r.backup = s.backup => r = s
              /\ \A r \in ToSet(results') : \A j \in reading' : r.backup # spec.selected[j]
      BY <2>3 DEF Once
    <3>2. \A r \in ToSet(results) : r.backup # b
      BY <1>1, <2>2, <3>1 DEF ResultsInv, Once
    <3>3. IsInjective(results')
      BY <2>7, <3>1, <3>2, InjectiveAppend DEF ResultsInv, Once
    <3>4. \A j \in reading' : b # spec.selected[j]
      BY <2>2, <2>3, <3>1 DEF ResultsInv, IsInjective
    <3> QED
      BY <2>3, <2>7, <2>8, <3>1, <3>2, <3>3, <3>4 DEF ResultsInv, Once
  <2>13. Len(results') + Cardinality(reading') = Len(spec.selected)
    <3>1. IsFiniteSet(reading)
      <4>1. PICK n \in Nat : reading \subseteq 1..n
        BY SpecIs DEF ResultsInv
      <4>2. IsFiniteSet(1..n)
        <5>1. 1 \in Int /\ n \in Int
          OBVIOUS
        <5> QED
          BY <5>1, FS_Interval, Zenon
      <4> QED
        BY <4>1, <4>2, FS_Subset
    <3>2. Cardinality(reading') = Cardinality(reading) - 1 /\ Cardinality(reading) \in Nat
      BY <1>1, <2>3, <3>1, FS_RemoveElement, FS_CardinalityType
    <3>3. Len(results) \in Nat
      BY DEF ResultsInv
    <3> QED
      BY <2>8, <3>2, <3>3 DEF ResultsInv
  <2> QED
    BY <2>3, <2>8, <2>10, <2>11, <2>12, <2>13 DEF ResultsInv, Phases
<1>2. CASE processDiscoveryResults
  <2>1. phase' \in {"Failed", "validated", "PartiallyFailed"} /\ phase = "read"
        /\ UNCHANGED <<contents, spec, reading, results>>
    BY <1>2 DEF processDiscoveryResults, Verdict, input
  <2> QED
    BY <2>1, ResultsKept DEF Phases
<1>3. CASE createVeleroRestores
  <2>1. phase' = "restoring" /\ phase = "validated" /\ UNCHANGED <<contents, spec, reading, results>>
    BY <1>3 DEF createVeleroRestores, input
  <2> QED
    BY <2>1, ResultsKept DEF Phases
<1>4. ASSUME NEW b \in Backups, VeleroRestores(b) PROVE ResultsInv'
  <2>1. phase' \in {"restored", "restoring"} /\ phase = "restoring"
        /\ UNCHANGED <<contents, spec, reading, results>>
    BY <1>4 DEF VeleroRestores, input
  <2> QED
    BY <2>1, ResultsKept DEF Phases
<1>5. CASE createFileServerResources \/ ensureCredentials
  <2>1. phase' \in {"starting", "Failed"} /\ phase = "restored"
        /\ UNCHANGED <<contents, spec, reading, results>>
    BY <1>5 DEF createFileServerResources, ensureCredentials, input
  <2> QED
    BY <2>1, ResultsKept DEF Phases
<1>6. CASE detectAndMount
  <2>1. phase' = "served" /\ phase = "starting" /\ UNCHANGED <<contents, spec, reading, results>>
    BY <1>6 DEF detectAndMount, input
  <2> QED
    BY <2>1, ResultsKept DEF Phases
<1>7. CASE Finished \/ UNCHANGED vars
  BY <1>7 DEF Finished, vars, input, ResultsInv, Truthful, Answered, Once, Selected
<1> QED
  BY <1>1, <1>2, <1>3, <1>4, <1>5, <1>6, <1>7 DEF Next

-----------------------------------------------------------------------------
(*************************************************************************)
(* The status.                                                           *)
(*************************************************************************)
\* Only the absence of a failure makes an entry available.
LEMMA StateIs ==
  ASSUME NEW reason \in Reasons
  PROVE  /\ StateOf(reason) \in States
         /\ StateOf(reason) = "available" <=> reason = "none"
BY DEF StateOf, Reasons, States

\* What a result says of its backup.
LEMMA ResultIs ==
  ASSUME ConstantsAssumption, ResultsInv, NEW r \in ToSet(results)
  PROVE  /\ r \in Result /\ r.backup \in Selected /\ r.backup \in Backups
         /\ r.claims \subseteq UIDs /\ r.reason \in Reasons
         /\ r.reason = "none" <=> Readable(contents[r.backup])
         /\ r.reason = "none" => r.claims = contents[r.backup].claims
<1>1. PICK p : p = [reason |-> r.reason, claims |-> r.claims]
  OBVIOUS
<1>2. p \in PossibleResults(contents[r.backup]) /\ r.backup \in Selected
  BY <1>1 DEF ResultsInv, Truthful
<1>3. r \in Result /\ r.backup \in Backups /\ r.claims \subseteq UIDs /\ r.reason \in Reasons
  <2>1. results \in Seq(Result)
    BY DEF ResultsInv
  <2>2. r \in Result
    BY <2>1, ToSetIs
  <2> QED
    BY <2>2 DEF Result
<1>4. contents[r.backup] \in BackupContents
  BY <1>3, ContentsOf DEF ResultsInv
<1>5. /\ p.reason = "none" => Readable(contents[r.backup]) /\ p.claims = contents[r.backup].claims
      /\ Readable(contents[r.backup]) => p.reason = "none"
  BY <1>2, <1>4, PossibleIs
<1> QED
  BY <1>1, <1>2, <1>3, <1>5

\* The entry of a result.
EntryOf(r) == [backup |-> r.backup, state |-> StateOf(r.reason)]

\* The list of a claim has an entry for each result that holds it, newest first.
LEMMA RestoresOfIs ==
  ASSUME ConstantsAssumption, results \in Seq(Result), NEW u
  PROVE  /\ RestoresOf(u) \in Seq(Entry)
         /\ \A e : e \in ToSet(RestoresOf(u))
                     <=> \E r \in ToSet(results) : u \in r.claims /\ e = EntryOf(r)
         /\ \A k, l \in DOMAIN RestoresOf(u) :
              k < l => RestoresOf(u)[k].backup >= RestoresOf(u)[l].backup
         /\ (/\ IsInjective(results)
             /\ \A r, q \in ToSet(results) : r.backup = q.backup => r = q)
              => IsInjective(RestoresOf(u))
<1>1. PICK S : S = {r \in ToSet(results) : u \in r.claims}
  OBVIOUS
<1>2. PICK h : h = Those(results, S)
  OBVIOUS
<1>3. h \in Seq(Result) /\ ToSet(h) = S /\ (IsInjective(results) => IsInjective(h))
  BY <1>1, <1>2, ThoseIs
<1>4. PICK s : s = [i \in DOMAIN h |-> EntryOf(h[i])]
  OBVIOUS
<1>5. RestoresOf(u) = sortRestoresByTimestamp(s)
  BY <1>1, <1>2, <1>4 DEF RestoresOf, EntryOf
<1>6. \A r \in Result : EntryOf(r) \in Entry
  BY StateIs DEF Result, Entry, EntryOf
<1>7. s \in Seq(Entry) /\ DOMAIN s = DOMAIN h
  <2>1. DOMAIN h = 1..Len(h) /\ Len(h) \in Nat /\ \A i \in DOMAIN h : h[i] \in Result
    BY <1>3
  <2> QED
    BY <1>4, <1>6, <2>1
<1>8. ASSUME NEW e PROVE e \in ToSet(s) <=> \E r \in ToSet(results) : u \in r.claims /\ e = EntryOf(r)
  <2>1. e \in ToSet(s) <=> \E i \in DOMAIN h : e = EntryOf(h[i])
    BY <1>4 DEF ToSet
  <2>2. \A r : r \in S <=> \E i \in DOMAIN h : r = h[i]
    BY <1>3 DEF ToSet
  <2> QED
    BY <1>1, <2>1, <2>2
<1>9. ASSUME IsInjective(results),
             \A r, q \in ToSet(results) : r.backup = q.backup => r = q
      PROVE  IsInjective(s)
  <2>1. SUFFICES ASSUME NEW a \in DOMAIN h, NEW b \in DOMAIN h, s[a] = s[b] PROVE a = b
    BY <1>7 DEF IsInjective
  <2>2. h[a] \in ToSet(results) /\ h[b] \in ToSet(results)
    <3>1. h[a] \in ToSet(h) /\ h[b] \in ToSet(h)
      BY DEF ToSet
    <3> QED
      BY <1>1, <1>3, <3>1
  <2>3. h[a].backup = h[b].backup
    BY <1>4, <2>1 DEF EntryOf
  <2> QED
    BY <1>3, <1>9, <2>2, <2>3 DEF IsInjective
<1>10. Dated(Entry)
  BY DEF Dated, Entry, ConstantsAssumption
<1> QED
  BY <1>5, <1>7, <1>8, <1>9, <1>10, SortIs

-----------------------------------------------------------------------------
\* The status is what the results make it, and empty before.
StatusInv ==
  IF phase \in {"reading", "read"} THEN pvcRestores = <<>> /\ failures = <<>>
  ELSE pvcRestores = GroupedClaims /\ failures = BackupFailures

LEMMA StatusInit ==
  ASSUME Init
  PROVE  StatusInv
BY DEF Init, StatusInv

\* Only processDiscoveryResults writes the status.
LEMMA StatusNext ==
  ASSUME ResultsInv, StatusInv, [Next]_vars
  PROVE  StatusInv'
<1> DEFINE later == {"validated", "restoring", "restored", "starting", "served", "Failed",
                     "PartiallyFailed"}
<1>1. ASSUME NEW i \in reading, discoverPVCsFromSingleBackup(i) PROVE StatusInv'
  BY <1>1 DEF discoverPVCsFromSingleBackup, StatusInv, status
<1>2. CASE processDiscoveryResults
  <2>1. phase' \in later /\ results' = results
        /\ pvcRestores' = GroupedClaims /\ failures' = BackupFailures
    BY <1>2 DEF processDiscoveryResults, Verdict
  <2> QED
    BY <2>1 DEF StatusInv, GroupedClaims, RestoresOf, BackupFailures
<1>3. ASSUME phase \in later, phase' \in later, UNCHANGED <<results, pvcRestores, failures>>
      PROVE  StatusInv'
  BY <1>3 DEF StatusInv, GroupedClaims, RestoresOf, BackupFailures
<1>4. CASE createVeleroRestores
  BY <1>3, <1>4 DEF createVeleroRestores, status
<1>5. ASSUME NEW b \in Backups, VeleroRestores(b) PROVE StatusInv'
  BY <1>3, <1>5 DEF VeleroRestores, status
<1>6. CASE createFileServerResources \/ ensureCredentials
  BY <1>3, <1>6 DEF createFileServerResources, ensureCredentials, status
<1>7. CASE detectAndMount
  BY <1>3, <1>7 DEF detectAndMount, status
<1>8. CASE Finished \/ UNCHANGED vars
  <2>1. UNCHANGED <<phase, results, pvcRestores, failures>>
    BY <1>8 DEF Finished, vars, status
  <2>2. GroupedClaims' = GroupedClaims /\ BackupFailures' = BackupFailures
    BY <2>1 DEF GroupedClaims, RestoresOf, BackupFailures
  <2> QED
    BY <2>1, <2>2 DEF StatusInv
<1> QED
  BY <1>1, <1>2, <1>4, <1>5, <1>6, <1>7, <1>8 DEF Next

\* What the entries of the status say of the results, and the results of the status.
LEMMA StatusIs ==
  ASSUME ConstantsAssumption, ResultsInv, StatusInv, phase \notin {"reading", "read"}
  PROVE  /\ DOMAIN pvcRestores \subseteq UIDs
         /\ \A u \in DOMAIN pvcRestores : pvcRestores[u] = RestoresOf(u)
         /\ \A u \in DOMAIN pvcRestores : \A e \in ToSet(pvcRestores[u]) :
              e \in [backup : Selected, state : States]
                /\ \E r \in ToSet(results) : u \in r.claims /\ e = EntryOf(r)
         /\ \A r \in ToSet(results) : \A u \in r.claims :
              u \in DOMAIN pvcRestores /\ EntryOf(r) \in ToSet(pvcRestores[u])
         /\ \A b \in Selected : \E r \in ToSet(results) : r.backup = b
         /\ \A b : b \in DOMAIN failures
                     <=> \E r \in ToSet(results) : r.backup = b /\ r.reason # "none" /\ r.claims = {}
         /\ \A b \in DOMAIN failures : failures[b] \in States \ {"available"}
<1>1. pvcRestores = GroupedClaims /\ failures = BackupFailures /\ reading = {}
  BY DEF StatusInv, ResultsInv
<1>2. \A u : u \in DOMAIN pvcRestores <=> \E r \in ToSet(results) : u \in r.claims
  BY <1>1 DEF GroupedClaims
<1>3. DOMAIN pvcRestores \subseteq UIDs
  BY <1>2, ResultIs
<1>4. \A u \in DOMAIN pvcRestores : pvcRestores[u] = RestoresOf(u)
  BY <1>1 DEF GroupedClaims
<1>5. results \in Seq(Result)
  BY DEF ResultsInv
<1>6. ASSUME NEW u \in DOMAIN pvcRestores, NEW e \in ToSet(pvcRestores[u])
      PROVE  e \in [backup : Selected, state : States]
               /\ \E r \in ToSet(results) : u \in r.claims /\ e = EntryOf(r)
  <2>1. PICK r \in ToSet(results) : u \in r.claims /\ e = EntryOf(r)
    BY <1>4, <1>5, <1>6, RestoresOfIs
  <2>2. r.backup \in Selected /\ StateOf(r.reason) \in States
    BY ResultIs, StateIs
  <2> QED
    BY <2>1, <2>2 DEF EntryOf
<1>7. ASSUME NEW r \in ToSet(results), NEW u \in r.claims
      PROVE  u \in DOMAIN pvcRestores /\ EntryOf(r) \in ToSet(pvcRestores[u])
  <2>1. EntryOf(r) \in ToSet(RestoresOf(u))
    BY <1>5, RestoresOfIs
  <2> QED
    BY <1>2, <1>4, <2>1
<1>8. ASSUME NEW b \in Selected PROVE \E r \in ToSet(results) : r.backup = b
  <2>1. PICK i \in DOMAIN spec.selected : b = spec.selected[i]
    BY DEF Selected, ToSet
  <2> QED
    BY <1>1, <2>1 DEF ResultsInv, Answered
<1>9. PICK F : F = {r \in ToSet(results) : r.reason # "none" /\ r.claims = {}}
  OBVIOUS
<1>10. failures = [b \in {r.backup : r \in F} |-> StateOf((CHOOSE r \in F : r.backup = b).reason)]
  BY <1>1, <1>9 DEF BackupFailures
<1>11. ASSUME NEW b \in DOMAIN failures PROVE failures[b] \in States \ {"available"}
  <2>1. PICK q : q = (CHOOSE r \in F : r.backup = b)
    OBVIOUS
  <2>2. \E r \in F : r.backup = b
    BY <1>10
  <2>3. q \in F
    BY <2>1, <2>2
  <2>4. q.reason \in Reasons /\ q.reason # "none"
    BY <1>9, <2>3, ResultIs
  <2> QED
    BY <1>10, <2>1, <2>4, StateIs
<1>12. \A b : b \in DOMAIN failures
               <=> \E r \in ToSet(results) : r.backup = b /\ r.reason # "none" /\ r.claims = {}
  BY <1>9, <1>10
<1> QED
  BY <1>3, <1>4, <1>6, <1>7, <1>8, <1>11, <1>12

\* The entries of the status and the backups, by way of the results.
LEMMA StatusAccounts ==
  ASSUME ConstantsAssumption, ResultsInv, StatusInv
  PROVE  StatusAccountsForBackups
<1>1. SUFFICES ASSUME phase \notin {"reading", "read"} PROVE StatusAccountsForBackups
  BY DEF StatusAccountsForBackups
<1> DEFINE Entries(u) == ToSet(pvcRestores[u])
<1>2. ASSUME NEW p
      PROVE  p \in ServableClaims
               <=> \E u \in DOMAIN pvcRestores :
                     \E e \in Entries(u) : e.state = "available" /\ p = <<e.backup, u>>
  <2>1. ASSUME p \in ServableClaims
        PROVE  \E u \in DOMAIN pvcRestores :
                 \E e \in Entries(u) : e.state = "available" /\ p = <<e.backup, u>>
    <3>1. PICK b \in Selected, u \in UIDs :
            p = <<b, u>> /\ Readable(contents[b]) /\ u \in contents[b].claims
      BY <2>1 DEF ServableClaims
    <3>2. PICK r \in ToSet(results) : r.backup = b
      BY <1>1, StatusIs
    <3>3. r.reason = "none" /\ r.claims = contents[b].claims
      BY <3>1, <3>2, ResultIs
    <3>4. u \in DOMAIN pvcRestores /\ EntryOf(r) \in Entries(u)
      BY <1>1, <3>1, <3>3, StatusIs
    <3>5. EntryOf(r).backup = b /\ EntryOf(r).state = "available"
      BY <3>2, <3>3, StateIs DEF EntryOf, StateOf
    <3> QED
      BY <3>1, <3>4, <3>5
  <2>2. ASSUME NEW u \in DOMAIN pvcRestores, NEW e \in Entries(u), e.state = "available",
               p = <<e.backup, u>>
        PROVE  p \in ServableClaims
    <3>1. PICK r \in ToSet(results) : u \in r.claims /\ e = EntryOf(r)
      BY <1>1, StatusIs
    <3>2. e.backup = r.backup /\ StateOf(r.reason) = "available"
      BY <2>2, <3>1 DEF EntryOf
    <3>3. r.reason = "none"
      BY <3>2, ResultIs, StateIs
    <3> QED
      BY <2>2, <3>1, <3>2, <3>3, ResultIs DEF ServableClaims
  <2> QED
    BY <2>1, <2>2
<1>3. ServableClaims = UNION {{<<e.backup, u>> : e \in {e \in Entries(u) : e.state = "available"}} :
                                u \in DOMAIN pvcRestores}
  <2> HIDE DEF Entries
  <2> QED
    BY <1>2
<1>4. ASSUME NEW b \in Selected
      PROVE  Readable(contents[b]) <=>
               b \notin DOMAIN failures
                 \cup {e.backup : e \in UNION {{e \in Entries(u) : e.state # "available"} :
                                                 u \in DOMAIN pvcRestores}}
  <2>1. ASSUME Readable(contents[b]), b \in DOMAIN failures PROVE FALSE
    BY <1>1, <2>1, StatusIs, ResultIs
  <2>2. ASSUME Readable(contents[b]), NEW u \in DOMAIN pvcRestores, NEW e \in Entries(u),
               e.state # "available", e.backup = b
        PROVE  FALSE
    <3>1. PICK r \in ToSet(results) : u \in r.claims /\ e = EntryOf(r)
      BY <1>1, StatusIs
    <3>2. r.backup = b /\ StateOf(r.reason) # "available"
      BY <2>2, <3>1 DEF EntryOf
    <3> QED
      BY <2>2, <3>2, ResultIs, StateIs
  <2>3. ASSUME ~Readable(contents[b]), b \notin DOMAIN failures
        PROVE  \E u \in DOMAIN pvcRestores : \E e \in Entries(u) :
                 e.state # "available" /\ e.backup = b
    <3>1. PICK r \in ToSet(results) : r.backup = b
      BY <1>1, StatusIs
    <3>2. r.reason # "none" /\ r.reason \in Reasons
      BY <2>3, <3>1, ResultIs
    <3>3. PICK u : u \in r.claims
      BY <1>1, <2>3, <3>1, <3>2, StatusIs
    <3>4. u \in DOMAIN pvcRestores /\ EntryOf(r) \in Entries(u)
      BY <1>1, <3>3, StatusIs
    <3>5. EntryOf(r).backup = b /\ EntryOf(r).state # "available"
      BY <3>1, <3>2, StateIs DEF EntryOf
    <3> QED
      BY <3>4, <3>5
  <2> HIDE DEF Entries
  <2> QED
    BY <2>1, <2>2, <2>3
<1>5. ASSUME NEW u \in DOMAIN pvcRestores, NEW i \in DOMAIN pvcRestores[u],
             NEW j \in DOMAIN pvcRestores[u], i < j
      PROVE  pvcRestores[u][i].backup >= pvcRestores[u][j].backup
  <2>1. pvcRestores[u] = RestoresOf(u) /\ results \in Seq(Result)
    BY <1>1, StatusIs DEF ResultsInv
  <2> QED
    BY <1>5, <2>1, RestoresOfIs
<1> QED
  BY <1>3, <1>4, <1>5 DEF StatusAccountsForBackups

-----------------------------------------------------------------------------
(*************************************************************************)
(* The Velero Restores and the restored claims.                          *)
(*************************************************************************)
\* The claims each Velero Restore selects, and what Velero makes of them.
HeldBy(b) == {u \in UIDs : <<b, u>> \in ServableClaims}
Held == [b \in {b \in Backups : HeldBy(b) # {}} |-> HeldBy(b)]
RestoredClaim(b, u) ==
  [restore |-> b, originalName |-> Claims[u].name, uid |-> <<b, u>>,
   mode |-> Claims[u].mode, data |-> <<b, u>>]
AllRestored == {RestoredClaim(p[1], p[2]) : p \in ServableClaims}

\* Every Velero Restore makes all its claims at once, and all of them are made
\* before a file server is.
RestoresInv ==
  /\ phase \in {"reading", "read", "validated", "PartiallyFailed"} =>
       restores = <<>> /\ restored = {}
  /\ phase = "restoring" =>
       /\ restores = Held
       /\ \A c : c \in restored <=> c \in AllRestored /\ \E d \in restored : c.restore = d.restore
  /\ phase \in {"restored", "starting", "served"} => restores = Held /\ restored = AllRestored
  /\ phase = "Failed" => \/ restores = <<>> /\ restored = {}
                         \/ restores = Held /\ restored = AllRestored

\* A servable claim is a pair of a selected backup and a claim of it.
LEMMA ServableIs ==
  ASSUME ConstantsAssumption, ResultsInv
  PROVE  /\ \A b, u : <<b, u>> \in ServableClaims
                        <=> /\ b \in Selected /\ u \in UIDs
                            /\ Readable(contents[b]) /\ u \in contents[b].claims
         /\ \A p \in ServableClaims : p = <<p[1], p[2]>> /\ p[1] \in Selected /\ p[2] \in UIDs
BY DEF ServableClaims

\* What can be served depends on the backups and the spec alone.
LEMMA ServableKept ==
  ASSUME UNCHANGED <<contents, spec>>
  PROVE  /\ ServableClaims' = ServableClaims /\ Selected' = Selected
         /\ Held' = Held /\ AllRestored' = AllRestored
BY DEF ServableClaims, Held, HeldBy, AllRestored, Selected

\* createVeleroRestores makes a Restore per backup with available claims, of just these.
LEMMA HoldingIs ==
  ASSUME ConstantsAssumption, ResultsInv, StatusInv, phase \notin {"reading", "read"}
  PROVE  \A b \in Backups :
           {u \in DOMAIN pvcRestores :
              \E e \in ToSet(pvcRestores[u]) : e.backup = b /\ e.state = "available"} = HeldBy(b)
<1>1. ServableClaims =
        UNION {{<<e.backup, u>> : e \in {e \in ToSet(pvcRestores[u]) : e.state = "available"}} :
                 u \in DOMAIN pvcRestores}
  BY StatusAccounts DEF StatusAccountsForBackups
<1>2. ASSUME NEW b, NEW u
      PROVE  <<b, u>> \in ServableClaims
               <=> u \in DOMAIN pvcRestores
                     /\ \E e \in ToSet(pvcRestores[u]) : e.backup = b /\ e.state = "available"
  <2>1. ASSUME <<b, u>> \in ServableClaims
        PROVE  u \in DOMAIN pvcRestores
                 /\ \E e \in ToSet(pvcRestores[u]) : e.backup = b /\ e.state = "available"
    <3>1. PICK w \in DOMAIN pvcRestores : \E e \in ToSet(pvcRestores[w]) :
             e.state = "available" /\ <<b, u>> = <<e.backup, w>>
      BY <1>1, <2>1
    <3> QED
      BY <3>1
  <2> QED
    BY <1>1, <2>1
<1>3. DOMAIN pvcRestores \subseteq UIDs
  BY StatusIs
<1> QED
  BY <1>2, <1>3 DEF HeldBy

LEMMA RestoresInit ==
  ASSUME Init
  PROVE  RestoresInv
BY DEF Init, RestoresInv

\* The Restores are made at once, their claims one Restore after the other.
LEMMA RestoresNext ==
  ASSUME ConstantsAssumption, ResultsInv, StatusInv, RestoresInv, [Next]_vars
  PROVE  RestoresInv'
<1>1. ASSUME NEW i \in reading, discoverPVCsFromSingleBackup(i) PROVE RestoresInv'
  BY <1>1 DEF discoverPVCsFromSingleBackup, RestoresInv
<1>2. CASE processDiscoveryResults
  <2>1. phase = "read" /\ phase' \in {"Failed", "validated", "PartiallyFailed"}
        /\ UNCHANGED <<restores, restored>>
    BY <1>2 DEF processDiscoveryResults, Verdict
  <2> QED
    BY <2>1 DEF RestoresInv
<1>3. CASE createVeleroRestores
  <2>1. phase = "validated" /\ phase' = "restoring" /\ restored' = {}
        /\ UNCHANGED <<contents, spec>>
    BY <1>3 DEF createVeleroRestores, RestoresInv, input
  <2>2. restores' = Held
    BY <1>3, <2>1, HoldingIs DEF createVeleroRestores, Held
  <2> QED
    BY <2>1, <2>2, ServableKept DEF RestoresInv
<1>4. ASSUME NEW b \in Backups, VeleroRestores(b) PROVE RestoresInv'
  <2>1. /\ phase = "restoring" /\ b \in DOMAIN restores /\ restores' = restores
        /\ \A c \in restored : c.restore # b
        /\ UNCHANGED <<contents, spec>>
        /\ restored' = restored \cup
             {RestoredClaim(b, u) :
                u \in (restores[b] \cap contents[b].claims) \ contents[b].unlabelled}
        /\ phase' = IF {c.restore : c \in restored'} = DOMAIN restores THEN "restored" ELSE phase
    BY <1>4 DEF VeleroRestores, RestoredClaim, input
  <2>2. restores = Held /\ restores[b] = HeldBy(b) /\ HeldBy(b) # {}
    BY <2>1 DEF RestoresInv, Held
  <2>3. (restores[b] \cap contents[b].claims) \ contents[b].unlabelled = HeldBy(b)
    BY <2>2, ServableIs DEF HeldBy, Readable
  <2>4. ASSUME NEW c
        PROVE  c \in restored' <=> c \in AllRestored /\ \E d \in restored' : c.restore = d.restore
    <3>1. \A d \in AllRestored : \E p \in ServableClaims : d = RestoredClaim(p[1], p[2])
      BY DEF AllRestored
    <3>2. \A u \in HeldBy(b) : RestoredClaim(b, u) \in AllRestored
      <4>1. ASSUME NEW u \in HeldBy(b) PROVE RestoredClaim(b, u) \in AllRestored
        <5>1. <<b, u>> \in ServableClaims
          BY DEF HeldBy
        <5>2. PICK p \in ServableClaims : p = <<b, u>>
          BY <5>1
        <5> QED
          BY <5>2 DEF AllRestored
      <4> QED
        BY <4>1
    <3>3. \A u : RestoredClaim(b, u).restore = b
      BY DEF RestoredClaim
    <3>4. ASSUME c \in restored' PROVE c \in AllRestored /\ \E d \in restored' : c.restore = d.restore
      <4>1. c \in restored => c \in AllRestored
        BY <2>1 DEF RestoresInv
      <4>2. c \in AllRestored
        BY <2>1, <2>3, <3>2, <3>4, <4>1
      <4> QED
        BY <3>4, <4>2
    <3>5. ASSUME c \in AllRestored, NEW d \in restored', c.restore = d.restore PROVE c \in restored'
      <4>1. CASE d \in restored
        BY <2>1, <3>5, <4>1 DEF RestoresInv
      <4>2. CASE d \notin restored
        <5>1. c.restore = b
          BY <2>1, <3>3, <3>5, <4>2
        <5>2. PICK p \in ServableClaims : c = RestoredClaim(p[1], p[2])
          BY <3>1, <3>5
        <5>3. p[1] = b /\ p = <<p[1], p[2]>> /\ p[2] \in UIDs
          BY <5>1, <5>2, ServableIs DEF RestoredClaim
        <5>4. p[2] \in HeldBy(b)
          BY <5>3 DEF HeldBy
        <5> QED
          BY <2>1, <2>3, <5>2, <5>3, <5>4
      <4> QED
        BY <4>1, <4>2
    <3> QED
      BY <3>4, <3>5
  <2>5. ASSUME phase' = "restored" PROVE restored' = AllRestored
    <3>1. {c.restore : c \in restored'} = DOMAIN Held
      BY <2>1, <2>2, <2>5
    <3>2. ASSUME NEW c \in AllRestored PROVE c \in restored'
      <4>1. PICK p \in ServableClaims : c = RestoredClaim(p[1], p[2])
        BY DEF AllRestored
      <4>2. p = <<p[1], p[2]>> /\ p[2] \in UIDs /\ p[1] \in Backups /\ c.restore = p[1]
        BY <4>1, ServableIs, SpecIs DEF ResultsInv, RestoredClaim
      <4>3. p[2] \in HeldBy(p[1])
        BY <4>2 DEF HeldBy
      <4>4. c.restore \in DOMAIN Held
        BY <4>2, <4>3 DEF Held
      <4> QED
        BY <2>4, <3>1, <4>4
    <3> QED
      BY <2>4, <3>2
  <2>6. phase' \in {"restoring", "restored"}
    BY <2>1
  <2> QED
    BY <2>1, <2>2, <2>4, <2>5, <2>6, ServableKept DEF RestoresInv
<1>5. CASE createFileServerResources \/ ensureCredentials
  <2>1. phase = "restored" /\ phase' \in {"starting", "Failed"}
        /\ UNCHANGED <<contents, spec, restores, restored>>
    BY <1>5 DEF createFileServerResources, ensureCredentials, input
  <2> QED
    BY <2>1, ServableKept DEF RestoresInv
<1>6. CASE detectAndMount
  <2>1. phase = "starting" /\ phase' = "served"
        /\ UNCHANGED <<contents, spec, restores, restored>>
    BY <1>6 DEF detectAndMount, input
  <2> QED
    BY <2>1, ServableKept DEF RestoresInv
<1>7. CASE Finished \/ UNCHANGED vars
  <2>1. UNCHANGED <<contents, spec, phase, restores, restored>>
    BY <1>7 DEF Finished, vars, input
  <2> QED
    BY <2>1, ServableKept DEF RestoresInv
<1> QED
  BY <1>1, <1>2, <1>3, <1>4, <1>5, <1>6, <1>7 DEF Next

-----------------------------------------------------------------------------
\* The pod that is made of the status and the restored claims.
Built == buildFileServerPodSpec(extractPVCMountsFromVMFR, spec.methods)

PodInv ==
  /\ phase \notin {"starting", "served", "Failed"} => pod = None
  /\ pod # None => pod = Built
  /\ phase \in {"starting", "served"} =>
       /\ pod = Built
       /\ \A m \in spec.methods : serving[m].port = gatherServicePorts(spec.methods)[PortName(m)]
  /\ phase # "served" => broken = {} /\ guests = {}
  /\ phase = "served" =>
       broken \subseteq {c.uid : c \in restored} /\ guests = mount_with_structure(pod, broken)

LEMMA PodInit ==
  ASSUME Init
  PROVE  PodInv
BY DEF Init, PodInv

\* The pod depends on the spec, the status and the restored claims.
LEMMA BuiltKept ==
  ASSUME UNCHANGED <<spec, pvcRestores, restored>>
  PROVE  Built' = Built
BY DEF Built, extractPVCMountsFromVMFR, MountInfo, findRestoredPVCName

\* The pod is the one of the state it is created in, and is mounted once.
LEMMA PodNext ==
  ASSUME PodInv, [Next]_vars
  PROVE  PodInv'
<1> DEFINE early == {"reading", "read", "validated", "restoring", "restored", "PartiallyFailed"}
<1>1. ASSUME phase \in early, phase' \in early \cup {"Failed"}, UNCHANGED <<pod, broken, guests>>
      PROVE  PodInv'
  BY <1>1 DEF PodInv
<1>2. ASSUME NEW i \in reading, discoverPVCsFromSingleBackup(i) PROVE PodInv'
  BY <1>1, <1>2 DEF discoverPVCsFromSingleBackup
<1>3. CASE processDiscoveryResults
  BY <1>1, <1>3 DEF processDiscoveryResults, Verdict
<1>4. CASE createVeleroRestores
  BY <1>1, <1>4 DEF createVeleroRestores
<1>5. ASSUME NEW b \in Backups, VeleroRestores(b) PROVE PodInv'
  BY <1>1, <1>5 DEF VeleroRestores
<1>6. CASE createFileServerResources
  <2>1. UNCHANGED <<spec, pvcRestores, restored, broken, guests>> /\ phase = "restored"
        /\ phase' \in {"starting", "Failed"}
    BY <1>6 DEF createFileServerResources, input, status
  <2>2. Built' = Built
    BY <2>1, BuiltKept
  <2>3. pod' = IF Admissible(Built) THEN Built ELSE None
    BY <1>6 DEF createFileServerResources, Built
  <2>4. phase' = "starting" =>
          /\ Admissible(Built)
          /\ \A m \in spec.methods :
               serving'[m].port = gatherServicePorts(spec.methods)[PortName(m)]
    BY <1>6 DEF createFileServerResources, Built, updateFileServingInfo
  <2>5. broken = {} /\ guests = {}
    BY <2>1 DEF PodInv
  <2> QED
    BY <2>1, <2>2, <2>3, <2>4, <2>5 DEF PodInv
<1>7. CASE detectAndMount
  <2>1. UNCHANGED <<spec, pvcRestores, restored, pod, serving>> /\ phase = "starting"
        /\ phase' = "served" /\ broken' \subseteq {c.uid : c \in restored}
        /\ guests' = mount_with_structure(pod, broken')
    BY <1>7 DEF detectAndMount, input, status
  <2>2. Built' = Built
    BY <2>1, BuiltKept
  <2> QED
    BY <2>1, <2>2 DEF PodInv
<1>8. CASE Finished \/ UNCHANGED vars
  <2>1. UNCHANGED <<spec, pvcRestores, restored, phase, pod, serving, broken, guests>>
    BY <1>8 DEF Finished, vars, input, status
  <2>2. Built' = Built
    BY <2>1, BuiltKept
  <2> QED
    BY <2>1, <2>2 DEF PodInv
<1>9. CASE ensureCredentials
  BY <1>1, <1>9 DEF ensureCredentials
<1> QED
  BY <1>2, <1>3, <1>4, <1>5, <1>6, <1>7, <1>8, <1>9 DEF Next

\* The inductive invariant.
ServedInv == ResultsInv /\ StatusInv /\ RestoresInv /\ PodInv

\* The results justify the status, these the Restores, and those the pod.
LEMMA Invariance == Spec => []ServedInv
<1>1. Init => ServedInv
  BY ConstantsAssumption, ResultsInit, StatusInit, RestoresInit, PodInit DEF ServedInv
<1>2. ServedInv /\ [Next]_vars => ServedInv'
  BY ConstantsAssumption, ResultsNext, StatusNext, RestoresNext, PodNext DEF ServedInv
<1> QED
  BY <1>1, <1>2, PTL DEF Spec

\* The invariant has the types.
LEMMA ServedTyped ==
  ASSUME ConstantsAssumption, ServedInv
  PROVE  TypeOK
<1> USE DEF ServedInv
<1>1. \A r \in ToSet(results) : r \in [backup : Backups, reason : Reasons, claims : SUBSET UIDs]
  BY ResultIs DEF Result
<1>2. /\ DOMAIN pvcRestores \subseteq UIDs
      /\ \A u \in DOMAIN pvcRestores : \A e \in ToSet(pvcRestores[u]) :
           e \in [backup : Selected, state : States]
      /\ DOMAIN failures \subseteq Selected
      /\ \A b \in DOMAIN failures : failures[b] \in States \ {"available"}
  <2>1. CASE phase \in {"reading", "read"}
    BY <2>1 DEF StatusInv
  <2>2. CASE phase \notin {"reading", "read"}
    <3>1. DOMAIN failures \subseteq Selected
      BY <2>2, StatusIs, ResultIs
    <3> QED
      BY <2>2, <3>1, StatusIs
  <2> QED
    BY <2>1, <2>2
<1>3. DOMAIN restores \subseteq Selected /\ \A b \in DOMAIN restores : restores[b] \subseteq UIDs
  <2>1. DOMAIN Held \subseteq Selected /\ \A b \in DOMAIN Held : Held[b] \subseteq UIDs
    BY ServableIs DEF Held, HeldBy
  <2>2. restores = <<>> \/ restores = Held
    BY DEF RestoresInv, ResultsInv, Phases
  <2> QED
    BY <2>1, <2>2
<1>4. \A c \in restored : c.restore \in Selected /\ c.data \in Selected \X UIDs
  <2>1. \A c \in AllRestored : c.restore \in Selected /\ c.data \in Selected \X UIDs
    BY ServableIs DEF AllRestored, RestoredClaim
  <2>2. restored \subseteq AllRestored
    BY DEF RestoresInv, ResultsInv, Phases
  <2> QED
    BY <2>1, <2>2
<1>5. pod # None => DOMAIN pod.containers = spec.methods \cup {"main"}
  BY DEF PodInv, Built, buildFileServerPodSpec
<1>6. broken \subseteq {c.uid : c \in restored}
  BY DEF PodInv
<1> QED
  BY <1>1, <1>2, <1>3, <1>4, <1>5, <1>6 DEF TypeOK, ResultsInv

\* The state of a file restore is made of what its spec names: an entry of the status or
\* a Velero Restore is always for a selected backup, no backup that failed as a whole is
\* called available, and a pod has the sidecars of the methods asked for.
THEOREM TypeCorrect == Spec => []TypeOK
<1>1. ServedInv => TypeOK
  BY ConstantsAssumption, ServedTyped
<1> QED
  BY <1>1, Invariance, PTL

\* In whatever order the goroutines answer, the status processDiscoveryResults makes
\* of their results is right: the available entries are the claims of the readable
\* backups, a backup is in the status with a failure exactly if it cannot be read,
\* and sortRestoresByTimestamp leaves every list with the newest backup first.
THEOREM StatusIsAccurate == Spec => []StatusAccountsForBackups
<1>1. ServedInv => StatusAccountsForBackups
  BY ConstantsAssumption, StatusAccounts DEF ServedInv
<1> QED
  BY <1>1, Invariance, PTL

-----------------------------------------------------------------------------
(*************************************************************************)
(* The list of what the file server mounts.                              *)
(*************************************************************************)
\* What the file server is told of a restored claim.
MountOf(p) ==
  [name |-> Claims[p[2]].name, backup |-> p[1], date |-> Date[p[1]],
   uid |-> <<p[1], p[2]>>, restored |-> <<p[1], p[2]>>, mode |-> Claims[p[2]].mode]
ServedMounts == {MountOf(p) : p \in ServableClaims}

\* The label with the Velero Restore and the name lead to the restored claim.
LEMMA FoundIs ==
  ASSUME ConstantsAssumption, ResultsInv, restored = AllRestored,
         NEW p \in ServableClaims
  PROVE  findRestoredPVCName(p[1], Claims[p[2]].name) = RestoredClaim(p[1], p[2])
<1>1. RestoredClaim(p[1], p[2]) \in restored
  BY DEF AllRestored
<1>2. ASSUME NEW c \in restored, c.restore = p[1], c.originalName = Claims[p[2]].name
      PROVE  c = RestoredClaim(p[1], p[2])
  <2>1. PICK q \in ServableClaims : c = RestoredClaim(q[1], q[2])
    BY DEF AllRestored
  <2>2. q[1] = p[1] /\ Claims[q[2]].name = Claims[p[2]].name
    BY <1>2, <2>1 DEF RestoredClaim
  <2>3. /\ p = <<p[1], p[2]>> /\ q = <<q[1], q[2]>> /\ p[1] \in Backups
        /\ p[2] \in contents[p[1]].claims /\ q[2] \in contents[q[1]].claims
    BY ServableIs, SpecIs DEF ResultsInv
  <2>4. contents[p[1]] \in Contents
    BY <2>3 DEF ResultsInv
  <2>5. q[2] = p[2]
    BY <2>2, <2>3, <2>4, ContentsOf
  <2> QED
    BY <2>1, <2>2, <2>5
<1>3. /\ RestoredClaim(p[1], p[2]).restore = p[1]
      /\ RestoredClaim(p[1], p[2]).originalName = Claims[p[2]].name
  BY DEF RestoredClaim
<1> QED
  BY <1>1, <1>2, <1>3 DEF findRestoredPVCName

\* What MountInfo takes from the status and the restored claim.
LEMMA MountInfoIs ==
  ASSUME ConstantsAssumption, ResultsInv, restored = AllRestored,
         NEW e, NEW u, <<e.backup, u>> \in ServableClaims
  PROVE  MountInfo(u, e) = MountOf(<<e.backup, u>>)
<1>1. findRestoredPVCName(e.backup, Claims[u].name) = RestoredClaim(e.backup, u)
  <2>1. PICK p \in ServableClaims : p = <<e.backup, u>>
    OBVIOUS
  <2>2. p[1] = e.backup /\ p[2] = u
    BY <2>1
  <2> QED
    BY <2>2, FoundIs
<1> QED
  BY <1>1 DEF MountInfo, MountOf, RestoredClaim

Available(u) == {e \in ToSet(pvcRestores[u]) : e.state = "available"}
MountsOfClaim(u) ==
  LET list == Those(pvcRestores[u], Available(u))
  IN [i \in DOMAIN list |-> MountInfo(u, list[i])]

\* The mounts of one claim.
LEMMA MountsOfClaimAre ==
  ASSUME ConstantsAssumption, ResultsInv, StatusInv, phase \notin {"reading", "read"},
         restored = AllRestored, NEW u \in DOMAIN pvcRestores
  PROVE  /\ MountsOfClaim(u) \in Seq(ServedMounts)
         /\ ToSet(MountsOfClaim(u)) = {MountOf(p) : p \in {q \in ServableClaims : q[2] = u}}
         /\ IsInjective(spec.selected) => IsInjective(MountsOfClaim(u))
<1>1. PICK h : h = Those(pvcRestores[u], Available(u))
  OBVIOUS
<1>2. results \in Seq(Result) /\ pvcRestores[u] = RestoresOf(u)
  BY StatusIs DEF ResultsInv
<1>3. pvcRestores[u] \in Seq(Entry)
  BY <1>2, RestoresOfIs
<1>4. /\ h \in Seq(Entry) /\ ToSet(h) = ToSet(pvcRestores[u]) \cap Available(u)
      /\ IsInjective(pvcRestores[u]) => IsInjective(h)
  BY <1>1, <1>3, ThoseIs
<1>5. ToSet(h) = Available(u)
  BY <1>4 DEF Available
<1>6. PICK s : s = [i \in DOMAIN h |-> MountInfo(u, h[i])]
  OBVIOUS
<1>7. MountsOfClaim(u) = s
  BY <1>1, <1>6 DEF MountsOfClaim
<1>8. ASSUME NEW b
      PROVE  <<b, u>> \in ServableClaims <=> \E e \in Available(u) : e.backup = b
  <2>1. <<b, u>> \in ServableClaims => b \in Backups /\ u \in UIDs
    BY ServableIs, SpecIs DEF ResultsInv
  <2>2. (\E e \in Available(u) : e.backup = b) => b \in Backups /\ u \in UIDs
    BY StatusIs, SpecIs DEF Available, ResultsInv
  <2>3. ASSUME b \in Backups, u \in UIDs
        PROVE  <<b, u>> \in ServableClaims <=> \E e \in Available(u) : e.backup = b
    <3>1. u \in HeldBy(b) <=> \E e \in Available(u) : e.backup = b
      BY <2>3, HoldingIs DEF Available
    <3> QED
      BY <2>3, <3>1 DEF HeldBy
  <2> QED
    BY <2>1, <2>2, <2>3
<1>9. DOMAIN h = 1..Len(h) /\ Len(h) \in Nat /\ \A i \in DOMAIN h : h[i] \in Available(u)
  BY <1>4, <1>5 DEF ToSet
<1>10. ASSUME NEW i \in DOMAIN h
       PROVE  <<h[i].backup, u>> \in ServableClaims /\ s[i] = MountOf(<<h[i].backup, u>>)
  <2>1. <<h[i].backup, u>> \in ServableClaims
    BY <1>8, <1>9
  <2>2. MountInfo(u, h[i]) = MountOf(<<h[i].backup, u>>)
    BY <2>1, MountInfoIs
  <2> QED
    BY <1>6, <2>1, <2>2
<1>11. s \in Seq(ServedMounts) /\ DOMAIN s = DOMAIN h
  <2>1. \A i \in DOMAIN h : s[i] \in ServedMounts
    BY <1>10 DEF ServedMounts
  <2> QED
    BY <1>6, <1>9, <2>1
<1>12. ASSUME NEW x
       PROVE  x \in ToSet(s) <=> x \in {MountOf(p) : p \in {q \in ServableClaims : q[2] = u}}
  <2>1. ASSUME NEW i \in DOMAIN h, x = s[i]
        PROVE  x \in {MountOf(p) : p \in {q \in ServableClaims : q[2] = u}}
    <3>1. PICK p : p = <<h[i].backup, u>>
      OBVIOUS
    <3>2. p \in ServableClaims /\ p[2] = u /\ x = MountOf(p)
      BY <1>10, <2>1, <3>1
    <3> QED
      BY <3>2
  <2>2. ASSUME NEW p \in ServableClaims, p[2] = u, x = MountOf(p) PROVE x \in ToSet(s)
    <3>1. p = <<p[1], u>>
      BY <2>2, ServableIs
    <3>2. PICK e \in Available(u) : e.backup = p[1]
      BY <1>8, <3>1
    <3>3. PICK i \in DOMAIN h : e = h[i]
      BY <1>5 DEF ToSet
    <3>4. x = s[i]
      BY <1>10, <2>2, <3>1, <3>2, <3>3
    <3> QED
      BY <1>11, <3>4 DEF ToSet
  <2> QED
    BY <1>11, <2>1, <2>2 DEF ToSet
<1>13. ASSUME IsInjective(spec.selected) PROVE IsInjective(s)
  <2>1. /\ IsInjective(results)
        /\ \A r, q \in ToSet(results) : r.backup = q.backup => r = q
    BY <1>13 DEF ResultsInv, Once
  <2>2. IsInjective(h)
    BY <1>2, <1>4, <2>1, RestoresOfIs
  <2>3. ASSUME NEW i \in DOMAIN h, NEW j \in DOMAIN h, s[i] = s[j] PROVE i = j
    <3>1. s[i].backup = h[i].backup /\ s[j].backup = h[j].backup
      <4>1. \A b : MountOf(<<b, u>>).backup = b
        BY DEF MountOf
      <4>2. s[i] = MountOf(<<h[i].backup, u>>) /\ s[j] = MountOf(<<h[j].backup, u>>)
        BY <1>10
      <4> QED
        BY <4>1, <4>2
    <3>2. h[i] \in ToSet(pvcRestores[u]) /\ h[j] \in ToSet(pvcRestores[u])
      BY <1>9 DEF Available
    <3>3. PICK r \in ToSet(results) : h[i] = EntryOf(r)
      BY <3>2, StatusIs
    <3>4. PICK q \in ToSet(results) : h[j] = EntryOf(q)
      BY <3>2, StatusIs
    <3>5. r.backup = q.backup
      BY <2>3, <3>1, <3>3, <3>4 DEF EntryOf
    <3>6. h[i] = h[j]
      BY <2>1, <3>3, <3>4, <3>5
    <3> QED
      BY <2>2, <3>6 DEF IsInjective
  <2> QED
    BY <1>11, <2>3 DEF IsInjective
<1> QED
  BY <1>7, <1>11, <1>12, <1>13

\* extractPVCMountsFromVMFR lists each servable claim once.
LEMMA MountsAre ==
  ASSUME ConstantsAssumption, ResultsInv, StatusInv, phase \notin {"reading", "read"},
         restored = AllRestored
  PROVE  /\ extractPVCMountsFromVMFR \in Seq(ServedMounts)
         /\ ToSet(extractPVCMountsFromVMFR) = ServedMounts
         /\ IsInjective(spec.selected) => IsInjective(extractPVCMountsFromVMFR)
<1>1. PICK claims : claims = SetToSeq(DOMAIN pvcRestores)
  OBVIOUS
<1>2. PICK ss : ss = [i \in DOMAIN claims |-> MountsOfClaim(claims[i])]
  OBVIOUS
<1>3. extractPVCMountsFromVMFR = FlattenSeq(ss)
  BY <1>1, <1>2 DEF extractPVCMountsFromVMFR, MountsOfClaim, Available
<1>4. IsFiniteSet(DOMAIN pvcRestores)
  BY StatusIs, FS_Subset DEF ConstantsAssumption
<1>5. /\ claims \in Seq(DOMAIN pvcRestores) /\ IsInjective(claims)
      /\ ToSet(claims) = DOMAIN pvcRestores
  BY <1>1, <1>4, ListOfSet
<1>6. /\ DOMAIN claims = 1..Len(claims) /\ Len(claims) \in Nat
      /\ \A i \in DOMAIN claims : claims[i] \in DOMAIN pvcRestores
  BY <1>5
<1>7. ss \in Seq(Seq(ServedMounts)) /\ Len(ss) = Len(claims)
  <2>1. \A i \in DOMAIN claims : MountsOfClaim(claims[i]) \in Seq(ServedMounts)
    BY <1>6, MountsOfClaimAre
  <2> QED
    BY <1>2, <1>6, <2>1
<1>8. ASSUME NEW i \in 1..Len(ss)
      PROVE  /\ ToSet(ss[i]) = {MountOf(p) : p \in {q \in ServableClaims : q[2] = claims[i]}}
             /\ IsInjective(spec.selected) => IsInjective(ss[i])
  <2>1. i \in DOMAIN claims /\ ss[i] = MountsOfClaim(claims[i]) /\ claims[i] \in DOMAIN pvcRestores
    BY <1>2, <1>6, <1>7
  <2> QED
    BY <2>1, MountsOfClaimAre
<1>9. ASSUME NEW i \in 1..Len(ss), NEW j \in 1..Len(ss), i # j
      PROVE  ToSet(ss[i]) \cap ToSet(ss[j]) = {}
  <2>1. claims[i] # claims[j]
    BY <1>5, <1>6, <1>7, <1>9 DEF IsInjective
  <2>2. SUFFICES ASSUME NEW x \in ToSet(ss[i]), x \in ToSet(ss[j]) PROVE FALSE
    OBVIOUS
  <2>3. PICK p : x = MountOf(p) /\ p[2] = claims[i]
    BY <1>8, <2>2
  <2>4. PICK q : x = MountOf(q) /\ q[2] = claims[j]
    BY <1>8, <2>2
  <2>5. x.uid[2] = p[2] /\ x.uid[2] = q[2]
    BY <2>3, <2>4 DEF MountOf
  <2> QED
    BY <2>1, <2>3, <2>4, <2>5
<1>10. /\ FlattenSeq(ss) \in Seq(ServedMounts)
       /\ ToSet(FlattenSeq(ss)) = UNION {ToSet(ss[i]) : i \in 1..Len(ss)}
       /\ (/\ \A i \in 1..Len(ss) : IsInjective(ss[i])
           /\ \A i, j \in 1..Len(ss) : i # j => ToSet(ss[i]) \cap ToSet(ss[j]) = {})
            => IsInjective(FlattenSeq(ss))
  BY <1>7, FlattenIs
<1>11. ASSUME NEW x PROVE x \in ToSet(FlattenSeq(ss)) <=> x \in ServedMounts
  <2>1. ASSUME x \in ToSet(FlattenSeq(ss)) PROVE x \in ServedMounts
    <3>1. PICK i \in 1..Len(ss) : x \in ToSet(ss[i])
      BY <1>10, <2>1
    <3> QED
      BY <1>8, <3>1 DEF ServedMounts
  <2>2. ASSUME NEW p \in ServableClaims, x = MountOf(p) PROVE x \in ToSet(FlattenSeq(ss))
    <3>1. p = <<p[1], p[2]>> /\ p[2] \in UIDs
      BY ServableIs
    <3>2. p[2] \in DOMAIN pvcRestores
      <4>1. p[2] \in HeldBy(p[1]) /\ p[1] \in Backups
        BY <3>1, ServableIs, SpecIs DEF HeldBy, ResultsInv
      <4> QED
        BY <4>1, HoldingIs
    <3>3. PICK i \in DOMAIN claims : claims[i] = p[2]
      BY <1>5, <3>2 DEF ToSet
    <3>4. i \in 1..Len(ss) /\ x \in ToSet(ss[i])
      BY <1>6, <1>7, <1>8, <2>2, <3>3
    <3> QED
      BY <1>10, <3>4
  <2> QED
    BY <2>1, <2>2 DEF ServedMounts
<1> QED
  BY <1>3, <1>8, <1>9, <1>10, <1>11

-----------------------------------------------------------------------------
(*************************************************************************)
(* The volumes, mounts and devices of the restored claims.               *)
(*************************************************************************)
\* A list made of another, entry by entry.
LEMMA EachIs ==
  ASSUME NEW X, NEW Y, NEW s \in Seq(X), NEW f \in [X -> Y],
         NEW t, t = [i \in DOMAIN s |-> f[s[i]]]
  PROVE  /\ t \in Seq(Y) /\ DOMAIN t = DOMAIN s
         /\ \A y : y \in ToSet(t) <=> \E x \in ToSet(s) : y = f[x]
         /\ IsInjective(s) /\ IsInjective(f) => IsInjective(t)
<1>1. DOMAIN s = 1..Len(s) /\ Len(s) \in Nat /\ \A i \in DOMAIN s : s[i] \in X
  OBVIOUS
<1>2. t \in Seq(Y) /\ DOMAIN t = DOMAIN s /\ \A i \in DOMAIN s : t[i] = f[s[i]]
  BY <1>1
<1>3. ASSUME NEW x PROVE x \in ToSet(t) <=> x \in {f[y] : y \in ToSet(s)}
  BY <1>2 DEF ToSet
<1>4. ASSUME IsInjective(s), IsInjective(f)
      PROVE  IsInjective(t)
  BY <1>1, <1>2, <1>4 DEF IsInjective
<1> QED
  BY <1>2, <1>3, <1>4

\* A mount, and the claim it is for.
LEMMA MountIs ==
  ASSUME ConstantsAssumption, ResultsInv, NEW m \in ServedMounts
  PROVE  /\ m.uid \in ServableClaims /\ m = MountOf(m.uid) /\ m.restored = m.uid
         /\ m.mode = Claims[m.uid[2]].mode /\ m.mode \in {"Block", "Filesystem"}
         /\ m.name = Claims[m.uid[2]].name /\ m.backup = m.uid[1] /\ m.date = Date[m.uid[1]]
<1>1. PICK p \in ServableClaims : m = MountOf(p)
  BY DEF ServedMounts
<1>2. p = <<p[1], p[2]>> /\ p[2] \in UIDs
  BY ServableIs
<1>3. Claims[p[2]].mode \in {"Block", "Filesystem"}
  BY <1>2 DEF ConstantsAssumption
<1>4. m.uid = p /\ m.restored = p /\ m.mode = Claims[p[2]].mode /\ m.name = Claims[p[2]].name
      /\ m.backup = p[1] /\ m.date = Date[p[1]]
  BY <1>1, <1>2 DEF MountOf
<1> QED
  BY <1>1, <1>3, <1>4

LEMMA MountOfIs ==
  ASSUME ConstantsAssumption, ResultsInv, NEW p \in ServableClaims
  PROVE  MountOf(p) \in ServedMounts /\ MountOf(p).uid = p
BY ServableIs DEF ServedMounts, MountOf

\* A path one level down.
LEMMA Below ==
  ASSUME NEW r, NEW a, NEW b, NEW c
  PROVE  <<r>> \o <<a, b, c>> = <<r, a, b, c>>
<1>1. PICK S : S = {r, a, b, c}
  OBVIOUS
<1>2. PICK s : s = <<r>> \o <<a, b, c>>
  OBVIOUS
<1>3. PICK t : t = <<r, a, b, c>>
  OBVIOUS
<1>4. s \in Seq(S) /\ t \in Seq(S) /\ Len(s) = 4 /\ Len(t) = 4
  BY <1>1, <1>2, <1>3
<1>5. s[1] = t[1] /\ s[2] = t[2] /\ s[3] = t[3] /\ s[4] = t[4]
  BY <1>2, <1>3
<1>6. \A i \in 1..4 : s[i] = t[i]
  <2>1. \A i \in 1..4 : i \in {1, 2, 3, 4}
    OBVIOUS
  <2> QED
    BY <1>5, <2>1
<1>7. s = [i \in 1..4 |-> s[i]] /\ t = [i \in 1..4 |-> t[i]]
  BY <1>4
<1> QED
  BY <1>2, <1>3, <1>6, <1>7

\* The objects of a restored claim.
Tree(p) == <<"restores", Date[p[1]], p[1], Claims[p[2]].name>>
ClaimVolume(p) == Volume(<<"pvc", p>>, p)
ClaimMount(p) == Mount(<<"pvc", p>>, Tree(p), "None")
ClaimDevice(p) == [name |-> <<"pvc", p>>, path |-> <<"dev", "pvc", p>>]
OfMode(mode) == {p \in ServableClaims : Claims[p[2]].mode = mode}

\* The volumes, mounts and devices of the restored claims, by their sets.
LEMMA ClaimsArePlaced ==
  ASSUME ConstantsAssumption, ResultsInv,
         NEW M \in Seq(ServedMounts), ToSet(M) = ServedMounts,
         NEW pvc, pvc = buildPVCVolumesAndMounts(M)
  PROVE  /\ pvc.volumes \in Seq({ClaimVolume(p) : p \in ServableClaims})
         /\ ToSet(pvc.volumes) = {ClaimVolume(p) : p \in ServableClaims}
         /\ pvc.mounts \in Seq({ClaimMount(p) : p \in ServableClaims})
         /\ ToSet(pvc.mounts) = {ClaimMount(p) : p \in OfMode("Filesystem")}
         /\ pvc.devices \in Seq({ClaimDevice(p) : p \in ServableClaims})
         /\ ToSet(pvc.devices) = {ClaimDevice(p) : p \in OfMode("Block")}
         /\ IsInjective(M) => /\ IsInjective(pvc.volumes) /\ IsInjective(pvc.mounts)
                              /\ IsInjective(pvc.devices)
<1>1. PICK V : V = {ClaimVolume(p) : p \in ServableClaims}
  OBVIOUS
<1>2. PICK W : W = {ClaimMount(p) : p \in ServableClaims}
  OBVIOUS
<1>3. PICK D : D = {ClaimDevice(p) : p \in ServableClaims}
  OBVIOUS
<1>4. PICK fv : fv = [m \in ServedMounts |-> ClaimVolume(m.uid)]
  OBVIOUS
<1>5. PICK fw : fw = [m \in ServedMounts |-> ClaimMount(m.uid)]
  OBVIOUS
<1>6. PICK fd : fd = [m \in ServedMounts |-> ClaimDevice(m.uid)]
  OBVIOUS
<1>7. fv \in [ServedMounts -> V] /\ fw \in [ServedMounts -> W] /\ fd \in [ServedMounts -> D]
  BY <1>1, <1>2, <1>3, <1>4, <1>5, <1>6, MountIs
<1>8. \A m, n \in ServedMounts : m.uid = n.uid => m = n
  BY MountIs
<1>9. IsInjective(fv) /\ IsInjective(fw) /\ IsInjective(fd)
  <2>1. \A m \in ServedMounts : /\ fv[m].name[2] = m.uid /\ fw[m].name[2] = m.uid
                                /\ fd[m].name[2] = m.uid
    BY <1>4, <1>5, <1>6 DEF ClaimVolume, ClaimMount, ClaimDevice, Volume, Mount
  <2>2. DOMAIN fv = ServedMounts /\ DOMAIN fw = ServedMounts /\ DOMAIN fd = ServedMounts
    BY <1>4, <1>5, <1>6
  <2> QED
    BY <1>8, <2>1, <2>2 DEF IsInjective
<1>10. PICK F : F = {m \in ToSet(M) : m.mode = "Filesystem"}
  OBVIOUS
<1>11. PICK B : B = {m \in ToSet(M) : m.mode = "Block"}
  OBVIOUS
<1>12. PICK fs : fs = Those(M, F)
  OBVIOUS
<1>13. PICK bs : bs = Those(M, B)
  OBVIOUS
<1>14. /\ fs \in Seq(ServedMounts) /\ ToSet(fs) = F /\ (IsInjective(M) => IsInjective(fs))
       /\ bs \in Seq(ServedMounts) /\ ToSet(bs) = B /\ (IsInjective(M) => IsInjective(bs))
  <2>1. /\ fs \in Seq(ServedMounts) /\ ToSet(fs) = ToSet(M) \cap F
        /\ IsInjective(M) => IsInjective(fs)
    BY <1>12, ThoseIs
  <2>2. /\ bs \in Seq(ServedMounts) /\ ToSet(bs) = ToSet(M) \cap B
        /\ IsInjective(M) => IsInjective(bs)
    BY <1>13, ThoseIs
  <2> QED
    BY <1>10, <1>11, <2>1, <2>2
<1>15. /\ \A i \in DOMAIN M : M[i] \in ServedMounts
       /\ \A i \in DOMAIN fs : fs[i] \in ServedMounts
       /\ \A i \in DOMAIN bs : bs[i] \in ServedMounts
  BY <1>14
<1>16. pvc.volumes = [i \in DOMAIN M |-> fv[M[i]]]
  <2>1. pvc.volumes = [i \in DOMAIN M |-> Volume(VolumeName(M[i]), M[i].restored)]
    BY DEF buildPVCVolumesAndMounts
  <2>2. \A m \in ServedMounts : fv[m] = Volume(VolumeName(m), m.restored)
    BY <1>4, MountIs DEF ClaimVolume, VolumeName
  <2> QED
    BY <1>15, <2>1, <2>2
<1>17. pvc.mounts = [i \in DOMAIN fs |-> fw[fs[i]]]
  <2>1. pvc.mounts = [i \in DOMAIN fs |-> Mount(VolumeName(fs[i]),
                                                 <<"restores">> \o RestorePath(fs[i]), "None")]
    BY <1>10, <1>12 DEF buildPVCVolumesAndMounts
  <2>2. \A m \in ServedMounts :
          fw[m] = Mount(VolumeName(m), <<"restores">> \o RestorePath(m), "None")
    <3>1. \A m \in ServedMounts : <<"restores">> \o RestorePath(m) = Tree(m.uid)
      <4>1. \A a, b, c : <<"restores">> \o <<a, b, c>> = <<"restores", a, b, c>>
        BY Below
      <4> QED
        BY <4>1, MountIs DEF RestorePath, Tree
    <3> QED
      BY <1>5, <3>1 DEF ClaimMount, VolumeName
  <2> QED
    BY <1>15, <2>1, <2>2
<1>18. pvc.devices = [i \in DOMAIN bs |-> fd[bs[i]]]
  <2>1. pvc.devices = [i \in DOMAIN bs |-> [name |-> VolumeName(bs[i]), path |-> DevicePath(bs[i])]]
    BY <1>11, <1>13 DEF buildPVCVolumesAndMounts
  <2>2. \A m \in ServedMounts : fd[m] = [name |-> VolumeName(m), path |-> DevicePath(m)]
    BY <1>6 DEF ClaimDevice, VolumeName, DevicePath
  <2> QED
    BY <1>15, <2>1, <2>2
<1>19. /\ pvc.volumes \in Seq(V) /\ ToSet(pvc.volumes) = {fv[m] : m \in ServedMounts}
       /\ IsInjective(M) => IsInjective(pvc.volumes)
  <2>1. pvc.volumes \in Seq(V) /\ ToSet(pvc.volumes) = {fv[m] : m \in ToSet(M)}
    BY <1>7, <1>9, <1>16, EachIs
  <2>2. IsInjective(M) /\ IsInjective(fv) => IsInjective(pvc.volumes)
    BY <1>7, <1>9, <1>16, EachIs
  <2> QED
    BY <1>9, <1>14, <2>1, <2>2
<1>20. /\ pvc.mounts \in Seq(W) /\ ToSet(pvc.mounts) = {fw[m] : m \in F}
       /\ IsInjective(M) => IsInjective(pvc.mounts)
  <2>1. fs \in Seq(ServedMounts)
    BY <1>14
  <2>2. PICK l : l = pvc.mounts
    OBVIOUS
  <2>3. l = [i \in DOMAIN fs |-> fw[fs[i]]] /\ fw \in [ServedMounts -> W]
    BY <1>7, <1>17, <2>2
  <2>4. l \in Seq(W)
    BY <2>1, <2>3, EachIs
  <2>5. \A y : y \in ToSet(l) <=> \E x \in ToSet(fs) : y = fw[x]
    BY <2>3 DEF ToSet
  <2>6. ToSet(l) = {fw[m] : m \in ToSet(fs)}
    BY <2>5
  <2>7. pvc.mounts \in Seq(W) /\ ToSet(pvc.mounts) = {fw[m] : m \in ToSet(fs)}
    BY <2>2, <2>4, <2>6
  <2>8. IsInjective(fs) /\ IsInjective(fw) => IsInjective(pvc.mounts)
    BY <1>7, <1>17, <2>1, EachIs
  <2> QED
    BY <1>9, <1>14, <2>7, <2>8
<1>21. /\ pvc.devices \in Seq(D) /\ ToSet(pvc.devices) = {fd[m] : m \in B}
       /\ IsInjective(M) => IsInjective(pvc.devices)
  <2>1. bs \in Seq(ServedMounts)
    BY <1>14
  <2>2. PICK l : l = pvc.devices
    OBVIOUS
  <2>3. l = [i \in DOMAIN bs |-> fd[bs[i]]] /\ fd \in [ServedMounts -> D]
    BY <1>7, <1>18, <2>2
  <2>4. l \in Seq(D)
    BY <2>1, <2>3, EachIs
  <2>5. \A y : y \in ToSet(l) <=> \E x \in ToSet(bs) : y = fd[x]
    BY <2>3 DEF ToSet
  <2>6. ToSet(l) = {fd[m] : m \in ToSet(bs)}
    BY <2>5
  <2>7. pvc.devices \in Seq(D) /\ ToSet(pvc.devices) = {fd[m] : m \in ToSet(bs)}
    BY <2>2, <2>4, <2>6
  <2>8. IsInjective(bs) /\ IsInjective(fd) => IsInjective(pvc.devices)
    BY <1>7, <1>18, <2>1, EachIs
  <2> QED
    BY <1>9, <1>14, <2>7, <2>8
<1>22. \A p \in ServableClaims : \E m \in ServedMounts : m.uid = p
  BY MountOfIs
<1>23. {fv[m] : m \in ServedMounts} = {ClaimVolume(p) : p \in ServableClaims}
  BY <1>4, <1>22, MountIs
<1>24. {fw[m] : m \in F} = {ClaimMount(p) : p \in OfMode("Filesystem")}
  <2>1. \A m \in F : m.uid \in OfMode("Filesystem") /\ fw[m] = ClaimMount(m.uid)
    BY <1>5, <1>10, MountIs DEF OfMode
  <2>2. \A p \in OfMode("Filesystem") : \E m \in F : m.uid = p
    BY <1>10, <1>22, MountIs DEF OfMode
  <2> QED
    BY <2>1, <2>2
<1>25. {fd[m] : m \in B} = {ClaimDevice(p) : p \in OfMode("Block")}
  <2>1. \A m \in B : m.uid \in OfMode("Block") /\ fd[m] = ClaimDevice(m.uid)
    BY <1>6, <1>11, MountIs DEF OfMode
  <2>2. \A p \in OfMode("Block") : \E m \in B : m.uid = p
    BY <1>11, <1>22, MountIs DEF OfMode
  <2> QED
    BY <2>1, <2>2
<1> QED
  BY <1>1, <1>2, <1>3, <1>19, <1>20, <1>21, <1>23, <1>24, <1>25

-----------------------------------------------------------------------------
(*************************************************************************)
(* The volumes of the pod.                                               *)
(*************************************************************************)
OwnVolume(s) == Volume(<<s>>, <<>>)
SharedNames == <<"shared-mounts", "fuse-device", "kvm-device", "filesystems">>
SSHNames == <<"ssh-etc", "ssh-run", "ssh-tmp", "ssh-dev", "ssh-oadp-etc", "ssh-secret">>
FileBrowserNames == <<"database", "tmp", "filebrowser-tls", "filebrowser-credentials">>

OwnNames ==
  {"shared-mounts", "fuse-device", "kvm-device", "filesystems", "ssh-etc", "ssh-run", "ssh-tmp",
   "ssh-dev", "ssh-oadp-etc", "ssh-secret", "database", "tmp", "filebrowser-tls",
   "filebrowser-credentials"}

\* The volumes the pod has besides the claims.
LEMMA NameLists ==
  /\ SharedNames \in Seq(OwnNames) /\ IsInjective(SharedNames)
  /\ ToSet(SharedNames) = {"shared-mounts", "fuse-device", "kvm-device", "filesystems"}
  /\ SSHNames \in Seq(OwnNames) /\ IsInjective(SSHNames)
  /\ ToSet(SSHNames) = {"ssh-etc", "ssh-run", "ssh-tmp", "ssh-dev", "ssh-oadp-etc", "ssh-secret"}
  /\ FileBrowserNames \in Seq(OwnNames) /\ IsInjective(FileBrowserNames)
  /\ ToSet(FileBrowserNames) = {"database", "tmp", "filebrowser-tls", "filebrowser-credentials"}
<1>1. /\ DOMAIN SharedNames = {1, 2, 3, 4} /\ DOMAIN FileBrowserNames = {1, 2, 3, 4}
      /\ DOMAIN SSHNames = {1, 2, 3, 4, 5, 6}
  BY DEF SharedNames, FileBrowserNames, SSHNames
<1>2. IsInjective(SharedNames)
  BY <1>1 DEF IsInjective, SharedNames
<1>3. IsInjective(SSHNames)
  BY <1>1 DEF IsInjective, SSHNames
<1>4. IsInjective(FileBrowserNames)
  BY <1>1 DEF IsInjective, FileBrowserNames
<1>5. ToSet(SharedNames) = {"shared-mounts", "fuse-device", "kvm-device", "filesystems"}
  BY <1>1 DEF ToSet, SharedNames
<1>6. ToSet(SSHNames) = {"ssh-etc", "ssh-run", "ssh-tmp", "ssh-dev", "ssh-oadp-etc", "ssh-secret"}
  BY <1>1 DEF ToSet, SSHNames
<1>7. ToSet(FileBrowserNames) = {"database", "tmp", "filebrowser-tls", "filebrowser-credentials"}
  BY <1>1 DEF ToSet, FileBrowserNames
<1>8. SharedNames \in Seq(OwnNames) /\ SSHNames \in Seq(OwnNames) /\ FileBrowserNames \in Seq(OwnNames)
  <2>1. SharedNames \in Seq(OwnNames)
    BY DEF SharedNames, OwnNames
  <2>2. SSHNames \in Seq(OwnNames)
    BY DEF SSHNames, OwnNames
  <2>3. FileBrowserNames \in Seq(OwnNames)
    BY DEF FileBrowserNames, OwnNames
  <2> QED
    BY <2>1, <2>2, <2>3
<1> QED
  BY <1>2, <1>3, <1>4, <1>5, <1>6, <1>7, <1>8

\* The volumes of the pod that are not claims have distinct names.
LEMMA OwnVolumesAre ==
  ASSUME NEW names \in Seq(OwnNames), IsInjective(names),
         NEW t, t = [i \in DOMAIN names |-> OwnVolume(names[i])]
  PROVE  /\ t \in Seq({OwnVolume(s) : s \in OwnNames}) /\ IsInjective(t)
         /\ ToSet(t) = {OwnVolume(s) : s \in ToSet(names)}
<1>1. PICK f : f = [s \in OwnNames |-> OwnVolume(s)]
  OBVIOUS
<1>2. PICK Y : Y = {OwnVolume(s) : s \in OwnNames}
  OBVIOUS
<1>3. f \in [OwnNames -> Y] /\ IsInjective(f)
  BY <1>1, <1>2 DEF IsInjective, OwnVolume, Volume
<1>4. t = [i \in DOMAIN names |-> f[names[i]]]
  <2>1. \A i \in DOMAIN names : names[i] \in OwnNames
    OBVIOUS
  <2> QED
    BY <1>1, <2>1
<1>5. t \in Seq(Y) /\ DOMAIN t = DOMAIN names
  <2>1. f \in [OwnNames -> Y]
    BY <1>3
  <2> QED
    BY <1>4, <2>1, EachIs
<1>6. IsInjective(t)
  BY <1>3, <1>4, EachIs
<1>7. ToSet(t) = {OwnVolume(s) : s \in ToSet(names)}
  BY DEF ToSet
<1> QED
  BY <1>2, <1>5, <1>6, <1>7

\* The mounts of the sidecars.
LEMMA SidecarPaths ==
  ASSUME NEW c \in {buildSSHSidecar.container, buildFileBrowserSidecar.container},
         NEW paths, paths = [i \in DOMAIN c.mounts |-> c.mounts[i].path]
  PROVE  IsInjective(paths)
<1>1. CASE c = buildSSHSidecar.container
  <2>1. PICK o : o = <<Mount(<<"ssh-etc">>, <<"etc">>, "None"), Mount(<<"ssh-run">>, <<"run">>, "None"),
            Mount(<<"ssh-tmp">>, <<"tmp">>, "None"), Mount(<<"ssh-dev">>, <<"oadp", "dev">>, "None"),
            Mount(<<"ssh-oadp-etc">>, <<"oadp", "etc">>, "None"),
            Mount(<<"ssh-secret">>, <<"ssh-config">>, "None"),
            Mount(<<"ssh-secret">>, <<"oadp", ".ssh", "authorized_keys">>, "None")>>
    OBVIOUS
  <2>2. c.mounts = o \o <<Mount(<<"filesystems">>, <<"oadp", "restores">>, "HostToContainer")>>
    BY <1>1, <2>1 DEF buildSSHSidecar, Sidecar
  <2>3. /\ DOMAIN paths = {1, 2, 3, 4, 5, 6, 7, 8} 
        /\ paths[1] = <<"etc">> /\ paths[2] = <<"run">> /\ paths[3] = <<"tmp">>
        /\ paths[4] = <<"oadp", "dev">> /\ paths[5] = <<"oadp", "etc">> /\ paths[6] = <<"ssh-config">>
        /\ paths[7] = <<"oadp", ".ssh", "authorized_keys">> /\ paths[8] = <<"oadp", "restores">>
    BY <2>1, <2>2 DEF Mount
  <2> QED
    BY <2>3 DEF IsInjective
<1>2. CASE c = buildFileBrowserSidecar.container
  <2>1. PICK o : o = <<Mount(<<"database">>, <<"database">>, "None"), Mount(<<"tmp">>, <<"tmp">>, "None"),
            Mount(<<"filebrowser-tls">>, <<"etc", "filebrowser-tls">>, "None"),
            Mount(<<"filebrowser-credentials">>, <<"etc", "filebrowser-credentials">>, "None")>>
    OBVIOUS
  <2>2. c.mounts = o \o <<Mount(<<"filesystems">>, <<"restores">>, "HostToContainer")>>
    BY <1>2, <2>1 DEF buildFileBrowserSidecar, Sidecar
  <2>3. /\ DOMAIN paths = {1, 2, 3, 4, 5} 
        /\ paths[1] = <<"database">> /\ paths[2] = <<"tmp">> /\ paths[3] = <<"etc", "filebrowser-tls">>
        /\ paths[4] = <<"etc", "filebrowser-credentials">> /\ paths[5] = <<"restores">>
    BY <2>1, <2>2 DEF Mount
  <2> QED
    BY <2>3 DEF IsInjective
<1> QED
  BY <1>1, <1>2

Volumes == {ClaimVolume(p) : p \in ServableClaims} \cup {OwnVolume(s) : s \in OwnNames}

\* A volume can be told from its name.
LEMMA NamesTell ==
  \A v, w \in Volumes : v.name = w.name => v = w
<1>1. ASSUME NEW p, NEW s PROVE <<"pvc", p>> # <<s>>
  <2>1. Len(<<"pvc", p>>) = 2 /\ Len(<<s>>) = 1
    OBVIOUS
  <2> QED
    BY <2>1
<1>2. /\ \A p : ClaimVolume(p).name = <<"pvc", p>> /\ ClaimVolume(p).name[2] = p
      /\ \A s : OwnVolume(s).name = <<s>> /\ OwnVolume(s).name[1] = s
  BY DEF ClaimVolume, OwnVolume, Volume
<1>3. ASSUME NEW v \in Volumes, NEW w \in Volumes, v.name = w.name PROVE v = w
  <2>1. CASE \E p, q : v = ClaimVolume(p) /\ w = ClaimVolume(q)
    BY <1>2, <1>3, <2>1
  <2>2. CASE \E s, r : v = OwnVolume(s) /\ w = OwnVolume(r)
    BY <1>2, <1>3, <2>2
  <2>3. CASE \E p, s : v = ClaimVolume(p) /\ w = OwnVolume(s)
    BY <1>1, <1>2, <1>3, <2>3
  <2>4. CASE \E p, s : w = ClaimVolume(p) /\ v = OwnVolume(s)
    BY <1>1, <1>2, <1>3, <2>4
  <2> QED
    BY <2>1, <2>2, <2>3, <2>4 DEF Volumes
<1> QED
  BY <1>3

\* The volumes of the pod: those of the claims, and the pod's own, by their names.
SidecarNames(methods) ==
  (IF "ssh" \in methods THEN ToSet(SSHNames) ELSE {})
    \cup (IF "filebrowser" \in methods THEN ToSet(FileBrowserNames) ELSE {})
VolumesOf(methods) ==
  {ClaimVolume(p) : p \in ServableClaims}
    \cup {OwnVolume(s) : s \in ToSet(SharedNames) \cup SidecarNames(methods)}

\* The volumes of the pod: those of the claims, of all containers, of each sidecar.
LEMMA VolumesAre ==
  ASSUME ConstantsAssumption, ResultsInv,
         NEW M \in Seq(ServedMounts), ToSet(M) = ServedMounts,
         NEW methods, NEW list, list = buildFileServerPodSpec(M, methods).volumes
  PROVE  /\ list \in Seq(Volumes) /\ ToSet(list) = VolumesOf(methods)
         /\ IsInjective(M) => IsInjective(list)
<1>1. PICK pvc : pvc = buildPVCVolumesAndMounts(M)
  OBVIOUS
<1>2. PICK a : a = pvc.volumes
  OBVIOUS
<1>3. PICK b : b = [i \in DOMAIN SharedNames |-> OwnVolume(SharedNames[i])]
  OBVIOUS
<1>4. PICK c : c = IF "ssh" \in methods THEN [i \in DOMAIN SSHNames |-> OwnVolume(SSHNames[i])]
                   ELSE <<>>
  OBVIOUS
<1>5. PICK d : d = IF "filebrowser" \in methods
                   THEN [i \in DOMAIN FileBrowserNames |-> OwnVolume(FileBrowserNames[i])]
                   ELSE <<>>
  OBVIOUS
<1>6. list = a \o b \o c \o d
  BY <1>1, <1>2, <1>3, <1>4, <1>5 DEF buildFileServerPodSpec, SidecarOf, buildSSHSidecar,
     buildFileBrowserSidecar, Sidecar, SharedNames, SSHNames, FileBrowserNames, OwnVolume
<1> DEFINE A == {ClaimVolume(p) : p \in ServableClaims}
           O(S) == {OwnVolume(s) : s \in S}
<1>7. a \in Seq(Volumes) /\ ToSet(a) = A /\ (IsInjective(M) => IsInjective(a))
  <2>1. a \in Seq(A) /\ ToSet(a) = A /\ (IsInjective(M) => IsInjective(a))
    BY <1>1, <1>2, ClaimsArePlaced
  <2>2. A \subseteq Volumes
    BY DEF Volumes
  <2> QED
    BY <2>1, <2>2
<1>8. \A s \in Seq(O(OwnNames)) : s \in Seq(Volumes)
  BY DEF Volumes
<1>9. b \in Seq(Volumes) /\ ToSet(b) = O(ToSet(SharedNames)) /\ IsInjective(b)
  BY <1>3, <1>8, NameLists, OwnVolumesAre
<1>10. <<>> \in Seq(Volumes) /\ ToSet(<<>>) = O({}) /\ IsInjective(<<>>)
  BY DEF ToSet, IsInjective
<1> DEFINE C == IF "ssh" \in methods THEN ToSet(SSHNames) ELSE {}
           D == IF "filebrowser" \in methods THEN ToSet(FileBrowserNames) ELSE {}
<1>11. c \in Seq(Volumes) /\ ToSet(c) = O(C) /\ IsInjective(c)
  <2>1. CASE "ssh" \in methods
    <3>1. c = [i \in DOMAIN SSHNames |-> OwnVolume(SSHNames[i])] /\ C = ToSet(SSHNames)
      BY <1>4, <2>1
    <3> QED
      BY <1>8, <3>1, NameLists, OwnVolumesAre
  <2>2. CASE "ssh" \notin methods
    BY <1>4, <1>10, <2>2
  <2> QED
    BY <2>1, <2>2
<1>12. d \in Seq(Volumes) /\ ToSet(d) = O(D) /\ IsInjective(d)
  <2>1. CASE "filebrowser" \in methods
    <3>1. d = [i \in DOMAIN FileBrowserNames |-> OwnVolume(FileBrowserNames[i])]
          /\ D = ToSet(FileBrowserNames)
      BY <1>5, <2>1
    <3> QED
      BY <1>8, <3>1, NameLists, OwnVolumesAre
  <2>2. CASE "filebrowser" \notin methods
    BY <1>5, <1>10, <2>2
  <2> QED
    BY <2>1, <2>2
<1>13. ASSUME NEW p, NEW s PROVE ClaimVolume(p) # OwnVolume(s)
  <2>1. ClaimVolume(p).name = <<"pvc", p>> /\ OwnVolume(s).name = <<s>>
    BY DEF ClaimVolume, OwnVolume, Volume
  <2>2. Len(<<"pvc", p>>) = 2 /\ Len(<<s>>) = 1
    OBVIOUS
  <2> QED
    BY <2>1, <2>2
<1>14. \A r, s : OwnVolume(r) = OwnVolume(s) => r = s
  <2>1. \A s : OwnVolume(s).name[1] = s
    BY DEF OwnVolume, Volume
  <2> QED
    BY <2>1
<1>15. /\ ToSet(SharedNames) \cap C = {} /\ ToSet(SharedNames) \cap D = {} /\ C \cap D = {}
  BY NameLists
<1>16. /\ a \o b \in Seq(Volumes) /\ ToSet(a \o b) = A \cup O(ToSet(SharedNames))
       /\ IsInjective(M) => IsInjective(a \o b)
  <2>1. ToSet(a) \cap ToSet(b) = {}
    BY <1>7, <1>9, <1>13
  <2> QED
    BY <1>7, <1>9, <2>1, ConcatIs
<1>17. PICK ab : ab = a \o b
  OBVIOUS
<1>18. /\ ab \o c \in Seq(Volumes) /\ ToSet(ab \o c) = A \cup O(ToSet(SharedNames)) \cup O(C)
       /\ IsInjective(M) => IsInjective(ab \o c)
  <2>1. ToSet(ab) \cap ToSet(c) = {}
    <3>1. \A x : x \in ToSet(ab) =>
            (\E p : x = ClaimVolume(p)) \/ \E s \in ToSet(SharedNames) : x = OwnVolume(s)
      BY <1>16, <1>17
    <3>2. \A x : x \in ToSet(c) => \E s \in C : x = OwnVolume(s)
      BY <1>11
    <3> HIDE DEF C
    <3> QED
      BY <1>13, <1>14, <1>15, <3>1, <3>2
  <2>2. ab \in Seq(Volumes) /\ c \in Seq(Volumes)
    BY <1>11, <1>16, <1>17
  <2>3. ab \o c \in Seq(Volumes) /\ ToSet(ab \o c) = ToSet(ab) \cup ToSet(c)
    BY <2>2, ConcatIs
  <2>4. IsInjective(ab) /\ IsInjective(c) => IsInjective(ab \o c)
    BY <2>1, <2>2, ConcatIs
  <2> QED
    BY <1>11, <1>16, <1>17, <2>3, <2>4
<1>19. PICK abc : abc = ab \o c
  OBVIOUS
<1>20. /\ abc \o d \in Seq(Volumes)
       /\ ToSet(abc \o d) = A \cup O(ToSet(SharedNames)) \cup O(C) \cup O(D)
       /\ IsInjective(M) => IsInjective(abc \o d)
  <2>1. ToSet(abc) \cap ToSet(d) = {}
    <3>1. \A x : x \in ToSet(abc) =>
            (\E p : x = ClaimVolume(p)) \/ \E s \in ToSet(SharedNames) \cup C : x = OwnVolume(s)
      BY <1>18, <1>19
    <3>2. \A x : x \in ToSet(d) => \E s \in D : x = OwnVolume(s)
      BY <1>12
    <3> HIDE DEF C, D
    <3> QED
      BY <1>13, <1>14, <1>15, <3>1, <3>2
  <2>2. abc \in Seq(Volumes) /\ d \in Seq(Volumes)
    BY <1>12, <1>18, <1>19
  <2>3. abc \o d \in Seq(Volumes) /\ ToSet(abc \o d) = ToSet(abc) \cup ToSet(d)
    BY <2>2, ConcatIs
  <2>4. IsInjective(abc) /\ IsInjective(d) => IsInjective(abc \o d)
    BY <2>1, <2>2, ConcatIs
  <2> QED
    BY <1>12, <1>18, <1>19, <2>3, <2>4
<1>21. VolumesOf(methods) = A \cup O(ToSet(SharedNames)) \cup O(C) \cup O(D)
  <2>1. VolumesOf(methods) = A \cup O(ToSet(SharedNames) \cup (C \cup D))
    BY DEF VolumesOf, SidecarNames
  <2> QED
    BY <2>1
<1> QED
  BY <1>6, <1>17, <1>19, <1>20, <1>21

\* No two volumes of the pod have one name.
LEMMA VolumeNamesDiffer ==
  ASSUME NEW list \in Seq(Volumes), IsInjective(list),
         NEW names, names = [i \in DOMAIN list |-> list[i].name]
  PROVE  IsInjective(names)
<1>1. \A i \in DOMAIN list : list[i] \in Volumes
  OBVIOUS
<1> QED
  BY <1>1, NamesTell DEF IsInjective

-----------------------------------------------------------------------------
(*************************************************************************)
(* The mounts of the containers.                                         *)
(*************************************************************************)
SharedMount == Mount(<<"shared-mounts">>, <<"mnt", "restore">>, "Bidirectional")
FuseMount == Mount(<<"fuse-device">>, <<"dev", "fuse">>, "None")
KvmMount == Mount(<<"kvm-device">>, <<"dev", "kvm">>, "None")
TreeMount == Mount(<<"filesystems">>, <<"restores">>, "Bidirectional")

MainMounts == {ClaimMount(p) : p \in ServableClaims}
                \cup {SharedMount, FuseMount, KvmMount, TreeMount}

\* Two claims have two places: a backup does not hold two of one name.
LEMMA TreesDiffer ==
  ASSUME ConstantsAssumption, ResultsInv, NEW p \in ServableClaims, NEW q \in ServableClaims,
         Date[p[1]] = Date[q[1]], p[1] = q[1], Claims[p[2]].name = Claims[q[2]].name
  PROVE  p = q
<1>1. /\ p = <<p[1], p[2]>> /\ q = <<q[1], q[2]>> /\ p[1] \in Backups
      /\ p[2] \in contents[p[1]].claims /\ q[2] \in contents[q[1]].claims
  BY ServableIs, SpecIs DEF ResultsInv
<1>2. contents[p[1]] \in Contents
  BY <1>1 DEF ResultsInv
<1>3. p[2] = q[2]
  BY <1>1, <1>2, ContentsOf
<1> QED
  BY <1>1, <1>3

\* Whether two mounts of the main container are the same can be told from their paths.
LEMMA PathsTell ==
  ASSUME ConstantsAssumption, ResultsInv
  PROVE  \A v, w \in MainMounts : v.path = w.path => v = w
<1> DEFINE Fixed == {SharedMount, FuseMount, KvmMount, TreeMount}
<1>1. \A v, w \in Fixed : v.path = w.path => v = w
  BY DEF SharedMount, FuseMount, KvmMount, TreeMount, Mount
<1>2. ASSUME NEW p, NEW v \in Fixed PROVE ClaimMount(p).path # v.path
  <2>1. Len(ClaimMount(p).path) = 4
    BY DEF ClaimMount, Mount, Tree
  <2>2. Len(v.path) \in {1, 2}
    BY DEF SharedMount, FuseMount, KvmMount, TreeMount, Mount
  <2> QED
    BY <2>1, <2>2
<1>3. ASSUME NEW p \in ServableClaims, NEW q \in ServableClaims,
             ClaimMount(p).path = ClaimMount(q).path
      PROVE  p = q
  <2>1. Tree(p) = Tree(q)
    BY <1>3 DEF ClaimMount, Mount
  <2>2. Tree(p)[2] = Tree(q)[2] /\ Tree(p)[3] = Tree(q)[3] /\ Tree(p)[4] = Tree(q)[4]
    BY <2>1
  <2> QED
    BY <2>2, TreesDiffer DEF Tree
<1> HIDE DEF Fixed
<1>4. \A v \in MainMounts : v \in Fixed \/ \E p \in ServableClaims : v = ClaimMount(p)
  BY DEF MainMounts, Fixed
<1>5. ASSUME NEW v \in MainMounts, NEW w \in MainMounts, v.path = w.path PROVE v = w
  <2>1. CASE v \in Fixed /\ w \in Fixed
    BY <1>1, <1>5, <2>1
  <2>2. CASE \E p \in ServableClaims : \E q \in ServableClaims :
               v = ClaimMount(p) /\ w = ClaimMount(q)
    BY <1>3, <1>5, <2>2
  <2>3. CASE v \in Fixed /\ \E p \in ServableClaims : w = ClaimMount(p)
    BY <1>2, <1>5, <2>3
  <2>4. CASE w \in Fixed /\ \E p \in ServableClaims : v = ClaimMount(p)
    BY <1>2, <1>5, <2>4
  <2> QED
    BY <1>4, <2>1, <2>2, <2>3, <2>4
<1> QED
  BY <1>5

\* The mounts and devices of the main container.
LEMMA MainIs ==
  ASSUME ConstantsAssumption, ResultsInv,
         NEW M \in Seq(ServedMounts), ToSet(M) = ServedMounts,
         NEW methods, methods \subseteq Methods,
         NEW main, main = buildFileServerPodSpec(M, methods).containers["main"]
  PROVE  /\ main.mounts \in Seq(MainMounts)
         /\ ToSet(main.mounts) = {ClaimMount(p) : p \in OfMode("Filesystem")}
              \cup {SharedMount, FuseMount, KvmMount}
              \cup (IF OfMode("Block") # {} THEN {TreeMount} ELSE {})
         /\ main.devices \in Seq({ClaimDevice(p) : p \in ServableClaims})
         /\ ToSet(main.devices) = {ClaimDevice(p) : p \in OfMode("Block")}
         /\ IsInjective(M) => IsInjective(main.mounts) /\ IsInjective(main.devices)
<1>1. PICK pvc : pvc = buildPVCVolumesAndMounts(M)
  OBVIOUS
<1>2. main = MainContainer(pvc)
  BY <1>1 DEF buildFileServerPodSpec
<1>3. PICK w : w = pvc.mounts
  OBVIOUS
<1>4. PICK d : d = pvc.devices
  OBVIOUS
<1>5. PICK f : f = FilesystemsMount(d)
  OBVIOUS
<1>6. PICK a : a = <<SharedMount>>
  OBVIOUS
<1>7. PICK k : k = <<FuseMount, KvmMount>>
  OBVIOUS
<1>8. main.mounts = a \o w \o k \o f /\ main.devices = d
  <2>1. main.mounts = <<SharedMount>> \o pvc.mounts \o <<FuseMount, KvmMount>>
                        \o FilesystemsMount(pvc.devices)
    <3>1. PICK l : l = <<SharedMount>> \o pvc.mounts \o <<FuseMount, KvmMount>>
                         \o FilesystemsMount(pvc.devices)
      OBVIOUS
    <3>2. main = [mounts |-> l, devices |-> pvc.devices, ports |-> {}]
      BY <1>2, <3>1, Zenon DEF MainContainer, SharedMount, FuseMount, KvmMount
    <3>3. main.mounts = l
      BY <3>2
    <3> QED
      BY <3>1, <3>3
  <2>2. main.devices = pvc.devices
    BY <1>2 DEF MainContainer
  <2> QED
    BY <1>3, <1>4, <1>5, <1>6, <1>7, <2>1, <2>2
<1> DEFINE D == {ClaimDevice(p) : p \in ServableClaims}
           W == {ClaimMount(p) : p \in OfMode("Filesystem")}
           F == IF OfMode("Block") # {} THEN {TreeMount} ELSE {}
<1>9. /\ d \in Seq(D) /\ ToSet(d) = {ClaimDevice(p) : p \in OfMode("Block")}
      /\ IsInjective(M) => IsInjective(d)
  BY <1>1, <1>4, ClaimsArePlaced
<1>10. w \in Seq(MainMounts) /\ ToSet(w) = W /\ (IsInjective(M) => IsInjective(w))
  <2>1. /\ w \in Seq({ClaimMount(p) : p \in ServableClaims}) /\ ToSet(w) = W
        /\ IsInjective(M) => IsInjective(w)
    BY <1>1, <1>3, ClaimsArePlaced
  <2>2. {ClaimMount(p) : p \in ServableClaims} \subseteq MainMounts
    BY DEF MainMounts
  <2> QED
    BY <2>1, <2>2
<1>11. d = <<>> <=> OfMode("Block") = {}
  <2>1. d = <<>> => ToSet(d) = {}
    BY DEF ToSet
  <2>2. d # <<>> => d[1] \in ToSet(d)
    BY <1>9 DEF ToSet
  <2> QED
    BY <1>9, <2>1, <2>2
<1>12. f \in Seq(MainMounts) /\ ToSet(f) = F /\ IsInjective(f)
  <2>1. CASE OfMode("Block") = {}
    <3>1. f = <<>>
      BY <1>5, <1>11, <2>1 DEF FilesystemsMount
    <3> QED
      BY <2>1, <3>1 DEF ToSet, IsInjective
  <2>2. CASE OfMode("Block") # {}
    <3>1. f = <<TreeMount>>
      BY <1>5, <1>11, <2>2 DEF FilesystemsMount, TreeMount
    <3>2. f \in Seq(MainMounts) /\ DOMAIN f = {1} /\ f[1] = TreeMount
      BY <3>1 DEF MainMounts
    <3> QED
      BY <2>2, <3>2 DEF ToSet, IsInjective
  <2> QED
    BY <2>1, <2>2
<1>13. a \in Seq(MainMounts) /\ ToSet(a) = {SharedMount} /\ IsInjective(a)
  <2>1. a \in Seq(MainMounts) /\ DOMAIN a = {1} /\ a[1] = SharedMount
    BY <1>6 DEF MainMounts
  <2> QED
    BY <2>1 DEF ToSet, IsInjective
<1>14. k \in Seq(MainMounts) /\ ToSet(k) = {FuseMount, KvmMount} /\ IsInjective(k)
  <2>1. k \in Seq(MainMounts) /\ DOMAIN k = {1, 2} /\ k[1] = FuseMount /\ k[2] = KvmMount
    BY <1>7 DEF MainMounts
  <2>2. FuseMount # KvmMount
    BY DEF FuseMount, KvmMount, Mount
  <2> QED
    BY <2>1, <2>2 DEF ToSet, IsInjective
<1>15. \A x \in W : x.name # <<"shared-mounts">> /\ x.name # <<"fuse-device">>
                    /\ x.name # <<"kvm-device">> /\ x.name # <<"filesystems">>
  <2>1. ASSUME NEW p, NEW s PROVE ClaimMount(p).name # <<s>>
    <3>1. Len(ClaimMount(p).name) = 2 /\ Len(<<s>>) = 1
      BY DEF ClaimMount, Mount
    <3> QED
      BY <3>1
  <2> QED
    BY <2>1
<1>16. /\ SharedMount.name = <<"shared-mounts">> /\ FuseMount.name = <<"fuse-device">>
       /\ KvmMount.name = <<"kvm-device">> /\ TreeMount.name = <<"filesystems">>
  BY DEF SharedMount, FuseMount, KvmMount, TreeMount, Mount
<1>17. <<"shared-mounts">> # <<"fuse-device">> /\ <<"shared-mounts">> # <<"kvm-device">>
       /\ <<"filesystems">> # <<"fuse-device">> /\ <<"filesystems">> # <<"kvm-device">>
       /\ <<"filesystems">> # <<"shared-mounts">>
  OBVIOUS
<1> HIDE DEF W, F
<1>18. PICK aw : aw = a \o w
  OBVIOUS
<1>19. /\ aw \in Seq(MainMounts) /\ ToSet(aw) = {SharedMount} \cup W
       /\ IsInjective(M) => IsInjective(aw)
  <2>1. ToSet(a) \cap ToSet(w) = {}
    BY <1>10, <1>13, <1>15, <1>16
  <2>2. aw \in Seq(MainMounts) /\ ToSet(aw) = ToSet(a) \cup ToSet(w)
    BY <1>10, <1>13, <1>18, ConcatIs
  <2>3. IsInjective(a) /\ IsInjective(w) => IsInjective(aw)
    BY <1>10, <1>13, <1>18, <2>1, ConcatIs
  <2> QED
    BY <1>10, <1>13, <2>2, <2>3
<1>20. PICK awk : awk = aw \o k
  OBVIOUS
<1>21. /\ awk \in Seq(MainMounts) /\ ToSet(awk) = {SharedMount, FuseMount, KvmMount} \cup W
       /\ IsInjective(M) => IsInjective(awk)
  <2>1. ToSet(aw) \cap ToSet(k) = {}
    BY <1>14, <1>15, <1>16, <1>17, <1>19
  <2>2. awk \in Seq(MainMounts) /\ ToSet(awk) = ToSet(aw) \cup ToSet(k)
    BY <1>14, <1>19, <1>20, ConcatIs
  <2>3. IsInjective(aw) /\ IsInjective(k) => IsInjective(awk)
    BY <1>14, <1>19, <1>20, <2>1, ConcatIs
  <2> QED
    BY <1>14, <1>19, <2>2, <2>3
<1>22. PICK all : all = awk \o f
  OBVIOUS
<1>23. /\ all \in Seq(MainMounts) /\ ToSet(all) = {SharedMount, FuseMount, KvmMount} \cup W \cup F
       /\ IsInjective(M) => IsInjective(all)
  <2>1. ToSet(awk) \cap ToSet(f) = {}
    BY <1>12, <1>15, <1>16, <1>17, <1>21 DEF F
  <2>2. all \in Seq(MainMounts) /\ ToSet(all) = ToSet(awk) \cup ToSet(f)
    BY <1>12, <1>21, <1>22, ConcatIs
  <2>3. IsInjective(awk) /\ IsInjective(f) => IsInjective(all)
    BY <1>12, <1>21, <1>22, <2>1, ConcatIs
  <2> QED
    BY <1>12, <1>21, <2>2, <2>3
<1>24. main.mounts = all
  BY <1>8, <1>18, <1>20, <1>22
<1> QED
  BY <1>8, <1>9, <1>23, <1>24 DEF W, F

\* Where a sidecar has the restores.
TreeRoot(m) == IF m = "ssh" THEN <<"oadp", "restores">> ELSE <<"restores">>

\* The mounts of a sidecar, as a set.
LEMMA SidecarIs ==
  ASSUME NEW m \in Methods, NEW c, c = SidecarOf(m).container
  PROVE  /\ c.devices = <<>> /\ c.ports = {Port(m)}
         /\ \A x \in ToSet(c.mounts) :
              \E s \in ToSet(SharedNames) \cup SidecarNames({m}) : x.name = <<s>>
         /\ \A x : x \in ToSet(c.mounts) /\ x.name = <<"filesystems">>
                     /\ x.propagation = "HostToContainer"
                   <=> x = Mount(<<"filesystems">>, TreeRoot(m), "HostToContainer")
<1>1. CASE m = "ssh"
  <2>1. PICK o : o = <<Mount(<<"ssh-etc">>, <<"etc">>, "None"), Mount(<<"ssh-run">>, <<"run">>, "None"),
            Mount(<<"ssh-tmp">>, <<"tmp">>, "None"), Mount(<<"ssh-dev">>, <<"oadp", "dev">>, "None"),
            Mount(<<"ssh-oadp-etc">>, <<"oadp", "etc">>, "None"),
            Mount(<<"ssh-secret">>, <<"ssh-config">>, "None"),
            Mount(<<"ssh-secret">>, <<"oadp", ".ssh", "authorized_keys">>, "None")>>
    OBVIOUS
  <2>2. PICK x8 : x8 = Mount(<<"filesystems">>, <<"oadp", "restores">>, "HostToContainer")
    OBVIOUS
  <2>3. c.mounts = o \o <<x8>> /\ c.devices = <<>> /\ c.ports = {Port(m)}
    BY <1>1, <2>1, <2>2 DEF SidecarOf, buildSSHSidecar, Sidecar
  <2>4. PICK l : l = c.mounts
    OBVIOUS
  <2>5. /\ DOMAIN l = {1, 2, 3, 4, 5, 6, 7, 8}
        /\ l[1].name = <<"ssh-etc">> /\ l[2].name = <<"ssh-run">> /\ l[3].name = <<"ssh-tmp">>
        /\ l[4].name = <<"ssh-dev">> /\ l[5].name = <<"ssh-oadp-etc">>
        /\ l[6].name = <<"ssh-secret">> /\ l[7].name = <<"ssh-secret">> /\ l[8] = x8
    BY <2>1, <2>3, <2>4 DEF Mount
  <2>6. x8.name = <<"filesystems">> /\ x8.propagation = "HostToContainer"
    BY <2>2 DEF Mount
  <2>7. ToSet(SharedNames) \cup SidecarNames({m}) =
          {"shared-mounts", "fuse-device", "kvm-device", "filesystems",
           "ssh-etc", "ssh-run", "ssh-tmp", "ssh-dev", "ssh-oadp-etc", "ssh-secret"}
    BY <1>1, NameLists DEF SidecarNames
  <2>8. \A x \in ToSet(l) : \E s \in ToSet(SharedNames) \cup SidecarNames({m}) : x.name = <<s>>
    BY <2>5, <2>6, <2>7 DEF ToSet
  <2>9. \A x : x \in ToSet(l) /\ x.name = <<"filesystems">> /\ x.propagation = "HostToContainer"
               <=> x = x8
    BY <2>5, <2>6 DEF ToSet
  <2>10. TreeRoot(m) = <<"oadp", "restores">>
    BY <1>1 DEF TreeRoot
  <2> QED
    BY <2>2, <2>3, <2>4, <2>8, <2>9, <2>10
<1>2. CASE m = "filebrowser"
  <2>1. PICK o : o = <<Mount(<<"database">>, <<"database">>, "None"), Mount(<<"tmp">>, <<"tmp">>, "None"),
            Mount(<<"filebrowser-tls">>, <<"etc", "filebrowser-tls">>, "None"),
            Mount(<<"filebrowser-credentials">>, <<"etc", "filebrowser-credentials">>, "None")>>
    OBVIOUS
  <2>2. PICK x5 : x5 = Mount(<<"filesystems">>, <<"restores">>, "HostToContainer")
    OBVIOUS
  <2>3. c.mounts = o \o <<x5>> /\ c.devices = <<>> /\ c.ports = {Port(m)}
    BY <1>2, <2>1, <2>2 DEF SidecarOf, buildFileBrowserSidecar, Sidecar
  <2>4. PICK l : l = c.mounts
    OBVIOUS
  <2>5. /\ DOMAIN l = {1, 2, 3, 4, 5}
        /\ l[1].name = <<"database">> /\ l[2].name = <<"tmp">> /\ l[3].name = <<"filebrowser-tls">>
        /\ l[4].name = <<"filebrowser-credentials">> /\ l[5] = x5
    BY <2>1, <2>3, <2>4 DEF Mount
  <2>6. x5.name = <<"filesystems">> /\ x5.propagation = "HostToContainer"
    BY <2>2 DEF Mount
  <2>7. ToSet(SharedNames) \cup SidecarNames({m}) =
          {"shared-mounts", "fuse-device", "kvm-device", "filesystems",
           "database", "tmp", "filebrowser-tls", "filebrowser-credentials"}
    BY <1>2, NameLists DEF SidecarNames
  <2>8. \A x \in ToSet(l) : \E s \in ToSet(SharedNames) \cup SidecarNames({m}) : x.name = <<s>>
    BY <2>5, <2>6, <2>7 DEF ToSet
  <2>9. \A x : x \in ToSet(l) /\ x.name = <<"filesystems">> /\ x.propagation = "HostToContainer"
               <=> x = x5
    BY <2>5, <2>6 DEF ToSet
  <2>10. TreeRoot(m) = <<"restores">>
    BY <1>2 DEF TreeRoot
  <2> QED
    BY <2>2, <2>3, <2>4, <2>8, <2>9, <2>10
<1> QED
  BY <1>1, <1>2 DEF Methods

\* Without a repeated mount, Kubernetes takes the pod.
LEMMA PodIsAdmissible ==
  ASSUME ConstantsAssumption, ResultsInv,
         NEW M \in Seq(ServedMounts), ToSet(M) = ServedMounts, IsInjective(M),
         NEW methods, methods \subseteq Methods,
         NEW p, p = buildFileServerPodSpec(M, methods)
  PROVE  Admissible(p)
<1>1. PICK list : list = p.volumes
  OBVIOUS
<1>2. list \in Seq(Volumes) /\ ToSet(list) = VolumesOf(methods) /\ IsInjective(list)
  BY <1>1, VolumesAre
<1>3. PICK names : names = [i \in DOMAIN list |-> list[i].name]
  OBVIOUS
<1>4. IsInjective(names)
  BY <1>2, <1>3, VolumeNamesDiffer
<1>5. /\ \A q \in ServableClaims : <<"pvc", q>> \in ToSet(names)
      /\ \A s \in ToSet(SharedNames) \cup SidecarNames(methods) : <<s>> \in ToSet(names)
  <2>1. \A v \in ToSet(list) : v.name \in ToSet(names)
    BY <1>3 DEF ToSet
  <2>2. \A q : ClaimVolume(q).name = <<"pvc", q>>
    BY DEF ClaimVolume, Volume
  <2>3. \A s : OwnVolume(s).name = <<s>>
    BY DEF OwnVolume, Volume
  <2>4. \A q \in ServableClaims : ClaimVolume(q) \in ToSet(list)
    BY <1>2 DEF VolumesOf
  <2>5. \A s \in ToSet(SharedNames) \cup SidecarNames(methods) : OwnVolume(s) \in ToSet(list)
    BY <1>2 DEF VolumesOf
  <2> QED
    BY <2>1, <2>2, <2>3, <2>4, <2>5
<1>6. DOMAIN p.containers = methods \cup {"main"}
  BY DEF buildFileServerPodSpec
<1>7. ASSUME NEW c \in DOMAIN p.containers
      PROVE  LET k == p.containers[c] IN
             /\ IsInjective([i \in DOMAIN k.mounts |-> k.mounts[i].path])
             /\ IsInjective([i \in DOMAIN k.devices |-> k.devices[i].path])
             /\ ToSet([i \in DOMAIN k.mounts |-> k.mounts[i].name])
                  \cup ToSet([i \in DOMAIN k.devices |-> k.devices[i].name])
                \subseteq ToSet(names)
  <2>1. PICK k : k = p.containers[c]
    OBVIOUS
  <2>2. PICK paths : paths = [i \in DOMAIN k.mounts |-> k.mounts[i].path]
    OBVIOUS
  <2>3. PICK nodes : nodes = [i \in DOMAIN k.devices |-> k.devices[i].path]
    OBVIOUS
  <2>4. PICK mn : mn = [i \in DOMAIN k.mounts |-> k.mounts[i].name]
    OBVIOUS
  <2>5. PICK dn : dn = [i \in DOMAIN k.devices |-> k.devices[i].name]
    OBVIOUS
  <2>6. /\ c \in DOMAIN p.containers /\ k = p.containers[c]
        /\ paths = [i \in DOMAIN k.mounts |-> k.mounts[i].path]
        /\ nodes = [i \in DOMAIN k.devices |-> k.devices[i].path]
        /\ mn = [i \in DOMAIN k.mounts |-> k.mounts[i].name]
        /\ dn = [i \in DOMAIN k.devices |-> k.devices[i].name]
    BY <2>1, <2>2, <2>3, <2>4, <2>5
  <2>7. SUFFICES /\ IsInjective(paths) /\ IsInjective(nodes)
                 /\ ToSet(mn) \cup ToSet(dn) \subseteq ToSet(names)
    BY <2>6
  <2>8. CASE c = "main"
    <3>1. PICK w : w = k.mounts
      OBVIOUS
    <3>2. PICK d : d = k.devices
      OBVIOUS
    <3>3. /\ w \in Seq(MainMounts) /\ IsInjective(w)
          /\ ToSet(w) = {ClaimMount(q) : q \in OfMode("Filesystem")}
               \cup {SharedMount, FuseMount, KvmMount}
               \cup (IF OfMode("Block") # {} THEN {TreeMount} ELSE {})
      <4>1. k = buildFileServerPodSpec(M, methods).containers["main"]
        BY <2>6, <2>8
      <4> QED
        BY <3>1, <4>1, MainIs
    <3>4. /\ d \in Seq({ClaimDevice(q) : q \in ServableClaims}) /\ IsInjective(d)
          /\ ToSet(d) = {ClaimDevice(q) : q \in OfMode("Block")}
      <4>1. k = buildFileServerPodSpec(M, methods).containers["main"]
        BY <2>6, <2>8
      <4> QED
        BY <3>2, <4>1, MainIs
    <3>5. IsInjective(paths)
      <4>1. \A i \in DOMAIN w : w[i] \in MainMounts
        BY <3>3
      <4>2. DOMAIN paths = DOMAIN w /\ \A i \in DOMAIN w : paths[i] = w[i].path
        BY <2>6, <3>1
      <4> QED
        BY <3>3, <4>1, <4>2, PathsTell DEF IsInjective
    <3>6. IsInjective(nodes)
      <4>1. \A i \in DOMAIN d : \E q \in ServableClaims : d[i] = ClaimDevice(q)
        BY <3>4
      <4>2. DOMAIN nodes = DOMAIN d /\ \A i \in DOMAIN d : nodes[i] = d[i].path
        BY <2>6, <3>2
      <4>3. \A q : ClaimDevice(q).path[3] = q
        BY DEF ClaimDevice
      <4> QED
        BY <3>4, <4>1, <4>2, <4>3 DEF IsInjective
    <3>7. ASSUME NEW x \in ToSet(w) PROVE x.name \in ToSet(names)
      <4>1. CASE \E q \in ServableClaims : x = ClaimMount(q)
        BY <1>5, <4>1 DEF ClaimMount, Mount
      <4>2. CASE x \in {SharedMount, FuseMount, KvmMount, TreeMount}
        <5>1. x.name \in {<<"shared-mounts">>, <<"fuse-device">>, <<"kvm-device">>,
                          <<"filesystems">>}
          BY <4>2 DEF SharedMount, FuseMount, KvmMount, TreeMount, Mount
        <5> QED
          BY <1>5, <5>1, NameLists
      <4>3. x \in {ClaimMount(q) : q \in ServableClaims}
               \cup {SharedMount, FuseMount, KvmMount, TreeMount}
        BY <3>3 DEF OfMode
      <4> QED
        BY <4>1, <4>2, <4>3
    <3>8. ASSUME NEW x \in ToSet(d) PROVE x.name \in ToSet(names)
      <4>1. PICK q \in ServableClaims : x = ClaimDevice(q)
        BY <3>4 DEF OfMode
      <4> QED
        BY <1>5, <4>1 DEF ClaimDevice
    <3>9. ToSet(mn) \cup ToSet(dn) \subseteq ToSet(names)
      <4>1. \A n \in ToSet(mn) : \E x \in ToSet(w) : n = x.name
        BY <2>6, <3>1 DEF ToSet
      <4>2. \A n \in ToSet(dn) : \E x \in ToSet(d) : n = x.name
        BY <2>6, <3>2 DEF ToSet
      <4> QED
        BY <3>7, <3>8, <4>1, <4>2
    <3> QED
      BY <3>5, <3>6, <3>9
  <2>9. CASE c # "main"
    <3>1. c \in methods /\ c \in Methods /\ k = SidecarOf(c).container
      BY <1>6, <2>6, <2>9 DEF buildFileServerPodSpec
    <3>2. k \in {buildSSHSidecar.container, buildFileBrowserSidecar.container}
      BY <3>1 DEF SidecarOf, Methods
    <3>3. IsInjective(paths)
      BY <2>6, <3>2, SidecarPaths
    <3>4. /\ k.devices = <<>>
          /\ \A x \in ToSet(k.mounts) :
               \E s \in ToSet(SharedNames) \cup SidecarNames({c}) : x.name = <<s>>
      BY <3>1, SidecarIs
    <3>5. IsInjective(nodes) /\ ToSet(dn) = {}
      BY <2>6, <3>4 DEF IsInjective, ToSet
    <3>6. SidecarNames({c}) \subseteq SidecarNames(methods)
      BY <3>1 DEF SidecarNames
    <3>7. \A n \in ToSet(mn) : \E x \in ToSet(k.mounts) : n = x.name
      BY <2>6 DEF ToSet
    <3>8. ASSUME NEW n \in ToSet(mn) PROVE n \in ToSet(names)
      <4>1. PICK x \in ToSet(k.mounts) : n = x.name
        BY <3>7
      <4>2. PICK s \in ToSet(SharedNames) \cup SidecarNames({c}) : x.name = <<s>>
        BY <3>4
      <4> QED
        BY <1>5, <3>6, <4>1, <4>2
    <3> QED
      BY <3>3, <3>5, <3>8
  <2> QED
    BY <2>8, <2>9
<1> QED
  BY <1>1, <1>3, <1>4, <1>7 DEF Admissible

-----------------------------------------------------------------------------
(*************************************************************************)
(* What is mounted in the pod, and what the users see.                   *)
(*************************************************************************)
Place(q) == <<Date[q[1]], q[1], Claims[q[2]].name>>

\* The mounting script finds the disk of each Block claim, and mounts it in its place.
LEMMA GuestsAre ==
  ASSUME ConstantsAssumption, ResultsInv,
         NEW M \in Seq(ServedMounts), ToSet(M) = ServedMounts,
         NEW methods, methods \subseteq Methods,
         NEW p, p = buildFileServerPodSpec(M, methods), NEW lost
  PROVE  \A g : g \in mount_with_structure(p, lost)
                <=> \E q \in OfMode("Block") : q \notin lost /\ g = [at |-> Place(q), claim |-> q]
<1>1. PICK list : list = p.volumes
  OBVIOUS
<1>2. list \in Seq(Volumes) /\ ToSet(list) = VolumesOf(methods)
  BY <1>1, VolumesAre
<1>3. PICK d : d = p.containers["main"].devices
  OBVIOUS
<1>4. ToSet(d) = {ClaimDevice(q) : q \in OfMode("Block")}
  BY <1>3, MainIs
<1>5. /\ \A q : ClaimDevice(q).name = <<"pvc", q>> /\ ClaimDevice(q).path = <<"dev", "pvc", q>>
      /\ \A q : ClaimVolume(q).name = <<"pvc", q>> /\ ClaimVolume(q).claim = q
  BY DEF ClaimDevice, ClaimVolume, Volume
<1>6. \A q \in ServableClaims : ClaimVolume(q) \in ToSet(list)
  BY <1>2 DEF VolumesOf
<1>7. \A v \in ToSet(list) : v \in Volumes
  BY <1>2, ToSetIs
<1>8. OfMode("Block") \subseteq ServableClaims
  BY DEF OfMode
<1>9. ASSUME NEW x
      PROVE  x \in BlockDevices(p)
               <=> \E q \in OfMode("Block") : x = [path |-> <<"dev", "pvc", q>>, claim |-> q]
  <2>1. x \in BlockDevices(p)
          <=> \E y \in ToSet(d) : \E v \in ToSet(list) :
                v.name = y.name /\ x = [path |-> y.path, claim |-> v.claim]
    BY <1>1, <1>3 DEF BlockDevices
  <2>2. ASSUME NEW y \in ToSet(d), NEW v \in ToSet(list), v.name = y.name,
               x = [path |-> y.path, claim |-> v.claim]
        PROVE  \E q \in OfMode("Block") : x = [path |-> <<"dev", "pvc", q>>, claim |-> q]
    <3>1. PICK q \in OfMode("Block") : y = ClaimDevice(q)
      BY <1>4
    <3>2. v.name = ClaimVolume(q).name /\ ClaimVolume(q) \in ToSet(list)
      BY <1>5, <1>6, <1>8, <2>2, <3>1
    <3>3. v = ClaimVolume(q)
      BY <1>7, <3>2, NamesTell
    <3> QED
      BY <1>5, <2>2, <3>1, <3>3
  <2>3. ASSUME NEW q \in OfMode("Block"), x = [path |-> <<"dev", "pvc", q>>, claim |-> q]
        PROVE  \E y \in ToSet(d) : \E v \in ToSet(list) :
                v.name = y.name /\ x = [path |-> y.path, claim |-> v.claim]
    <3>1. ClaimDevice(q) \in ToSet(d) /\ ClaimVolume(q) \in ToSet(list)
      BY <1>4, <1>6, <1>8
    <3>2. ClaimVolume(q).name = ClaimDevice(q).name
          /\ x = [path |-> ClaimDevice(q).path, claim |-> ClaimVolume(q).claim]
      BY <1>5, <2>3
    <3> QED
      BY <3>1, <3>2
  <2> QED
    BY <2>1, <2>2, <2>3
<1>10. ASSUME NEW e
       PROVE  e \in p.env <=> \E q \in ServableClaims :
                                e = [entry |-> Place(q), path |-> <<"dev", "pvc", q>>]
  <2>1. p.env = {[entry |-> RestorePath(M[i]), path |-> DevicePath(M[i])] : i \in DOMAIN M}
    BY DEF buildFileServerPodSpec, buildBackupPVCMapJSON
  <2>2. e \in p.env <=> \E m \in ServedMounts : e = [entry |-> RestorePath(m), path |-> DevicePath(m)]
    BY <2>1 DEF ToSet
  <2>3. \A m \in ServedMounts : /\ m.uid \in ServableClaims /\ RestorePath(m) = Place(m.uid)
                                /\ DevicePath(m) = <<"dev", "pvc", m.uid>>
    BY MountIs DEF RestorePath, Place, DevicePath
  <2>4. \A q \in ServableClaims : \E m \in ServedMounts : m.uid = q
    BY MountOfIs
  <2> QED
    BY <2>2, <2>3, <2>4
<1>11. ASSUME NEW g
       PROVE  g \in mount_with_structure(p, lost)
                <=> \E e \in p.env : \E x \in BlockDevices(p) :
                      x.path = e.path /\ x.claim \notin lost
                        /\ g = [at |-> e.entry, claim |-> x.claim]
  BY DEF mount_with_structure
<1>12. ASSUME NEW g, NEW e \in p.env, NEW x \in BlockDevices(p), x.path = e.path,
              x.claim \notin lost, g = [at |-> e.entry, claim |-> x.claim]
       PROVE  \E q \in OfMode("Block") : q \notin lost /\ g = [at |-> Place(q), claim |-> q]
  <2>1. PICK q \in OfMode("Block") : x = [path |-> <<"dev", "pvc", q>>, claim |-> q]
    BY <1>9
  <2>2. PICK r \in ServableClaims : e = [entry |-> Place(r), path |-> <<"dev", "pvc", r>>]
    BY <1>10
  <2>3. <<"dev", "pvc", q>>[3] = <<"dev", "pvc", r>>[3]
    BY <1>12, <2>1, <2>2
  <2>4. q = r
    BY <2>3
  <2> QED
    BY <1>12, <2>1, <2>2, <2>4
<1>13. ASSUME NEW g, NEW q \in OfMode("Block"), q \notin lost, g = [at |-> Place(q), claim |-> q]
       PROVE  g \in mount_with_structure(p, lost)
  <2>1. PICK x : x = [path |-> <<"dev", "pvc", q>>, claim |-> q]
    OBVIOUS
  <2>2. PICK e : e = [entry |-> Place(q), path |-> <<"dev", "pvc", q>>]
    OBVIOUS
  <2>3. x \in BlockDevices(p) /\ e \in p.env
    BY <1>8, <1>9, <1>10, <2>1, <2>2
  <2>4. x.path = e.path /\ x.claim \notin lost /\ g = [at |-> e.entry, claim |-> x.claim]
    BY <1>13, <2>1, <2>2
  <2> QED
    BY <1>11, <2>3, <2>4
<1> QED
  BY <1>11, <1>12, <1>13

\* Below the root of a method's users, the place of a claim is the documented one.
LEMMA SeenIs ==
  ASSUME NEW m \in Methods, NEW q
  PROVE  LET path == TreeRoot(m) \o Place(q)
         IN SubSeq(path, Len(UserRoot(m)) + 1, Len(path)) = Documented(m, q)
<1>1. PICK a, b, c : Place(q) = <<a, b, c>> /\ a = Date[q[1]] /\ b = q[1] /\ c = Claims[q[2]].name
  BY DEF Place
<1>2. CASE m = "ssh"
  <2>1. TreeRoot(m) = <<"oadp", "restores">> /\ Len(UserRoot(m)) = 1
    BY <1>2 DEF TreeRoot, UserRoot
  <2>2. PICK s : s = <<"oadp", "restores">> \o <<a, b, c>>
    OBVIOUS
  <2>3. /\ s \in Seq({"oadp", "restores", a, b, c}) /\ Len(s) = 5
        /\ s[2] = "restores" /\ s[3] = a /\ s[4] = b /\ s[5] = c
    BY <2>2
  <2>4. PICK t : t = SubSeq(s, 2, 5)
    OBVIOUS
  <2>5. /\ t \in Seq({"oadp", "restores", a, b, c}) /\ Len(t) = 4 /\ DOMAIN t = 1..4
        /\ t[1] = "restores" /\ t[2] = a /\ t[3] = b /\ t[4] = c
    BY <2>3, <2>4
  <2>6. PICK u : u = <<"restores", a, b, c>>
    OBVIOUS
  <2>7. /\ DOMAIN u = 1..4 /\ u = [i \in 1..4 |-> u[i]]
        /\ u[1] = "restores" /\ u[2] = a /\ u[3] = b /\ u[4] = c
    BY <2>6
  <2>8. \A i \in 1..4 : t[i] = u[i]
    <3>1. \A i \in 1..4 : i \in {1, 2, 3, 4}
      OBVIOUS
    <3> QED
      BY <2>5, <2>7, <3>1
  <2>9. t = [i \in 1..4 |-> t[i]]
    BY <2>5
  <2>10. t = u
    BY <2>7, <2>8, <2>9
  <2>11. Documented(m, q) = <<"restores">> \o <<a, b, c>>
    BY <1>1, <1>2 DEF Documented
  <2>12. Documented(m, q) = u
    BY <2>6, <2>11, Below
  <2> QED
    BY <1>1, <2>1, <2>2, <2>3, <2>4, <2>10, <2>12
<1>3. CASE m = "filebrowser"
  <2>1. TreeRoot(m) = <<"restores">> /\ Len(UserRoot(m)) = 1
    BY <1>3 DEF TreeRoot, UserRoot
  <2>2. PICK s : s = <<"restores", a, b, c>>
    OBVIOUS
  <2>3. /\ s \in Seq({"restores", a, b, c}) /\ Len(s) = 4
        /\ s[2] = a /\ s[3] = b /\ s[4] = c
    BY <2>2
  <2>4. PICK t : t = SubSeq(s, 2, 4)
    OBVIOUS
  <2>5. /\ t \in Seq({"restores", a, b, c}) /\ Len(t) = 3 /\ DOMAIN t = 1..3
        /\ t[1] = a /\ t[2] = b /\ t[3] = c
    BY <2>3, <2>4
  <2>6. PICK u : u = <<a, b, c>>
    OBVIOUS
  <2>7. /\ DOMAIN u = 1..3 /\ u = [i \in 1..3 |-> u[i]] /\ u \in Seq({a, b, c})
        /\ u[1] = a /\ u[2] = b /\ u[3] = c
    BY <2>6
  <2>8. \A i \in 1..3 : t[i] = u[i]
    <3>1. \A i \in 1..3 : i \in {1, 2, 3}
      OBVIOUS
    <3> QED
      BY <2>5, <2>7, <3>1
  <2>9. t = [i \in 1..3 |-> t[i]]
    BY <2>5
  <2>10. t = u
    BY <2>7, <2>8, <2>9
  <2>11. Documented(m, q) = <<>> \o u
    BY <1>1, <1>3, <2>6 DEF Documented
  <2>12. Documented(m, q) = u
    BY <2>7, <2>11
  <2>13. TreeRoot(m) \o Place(q) = s
    BY <1>1, <2>1, <2>2, Below
  <2>14. PICK r : r = TreeRoot(m) \o Place(q)
    OBVIOUS
  <2>15. SubSeq(r, Len(UserRoot(m)) + 1, Len(r)) = Documented(m, q)
    <3>1. r = s
      BY <2>13, <2>14
    <3>2. Len(UserRoot(m)) + 1 = 2 /\ Len(r) = 4
      BY <2>1, <2>3, <3>1
    <3>3. SubSeq(r, Len(UserRoot(m)) + 1, Len(r)) = t
      BY <2>4, <3>1, <3>2
    <3> QED
      BY <2>10, <2>12, <3>3
  <2> QED
    BY <2>14, <2>15
<1> QED
  BY <1>2, <1>3 DEF Methods

\* The users of a method see the mounted disks, each in its documented place.
LEMMA ViewIs ==
  ASSUME ConstantsAssumption, ResultsInv,
         NEW M \in Seq(ServedMounts), ToSet(M) = ServedMounts,
         NEW methods, methods \subseteq Methods, NEW m \in methods,
         NEW p, p = buildFileServerPodSpec(M, methods),
         NEW lost, NEW mounted, mounted = mount_with_structure(p, lost)
  PROVE  View(p, mounted, m) = {[path |-> Documented(m, q), claim |-> q] :
                                  q \in {q \in OfMode("Block") : q \notin lost}}
<1>1. PICK w : w = p.containers["main"].mounts
  OBVIOUS
<1>2. PICK x : x = Mount(<<"filesystems">>, TreeRoot(m), "HostToContainer")
  OBVIOUS
<1>3. PICK c : c = p.containers[m]
  OBVIOUS
<1>4. m \in Methods /\ c = SidecarOf(m).container
  BY <1>3 DEF buildFileServerPodSpec, Methods
<1>5. PICK shared : shared = {y \in ToSet(w) : y.name = <<"filesystems">>
                                                /\ y.propagation = "Bidirectional"}
  OBVIOUS
<1>6. shared = {} <=> OfMode("Block") = {}
  <2>1. ToSet(w) = {ClaimMount(q) : q \in OfMode("Filesystem")}
              \cup {SharedMount, FuseMount, KvmMount}
              \cup (IF OfMode("Block") # {} THEN {TreeMount} ELSE {})
    BY <1>1, MainIs
  <2>2. \A q : ClaimMount(q).propagation # "Bidirectional"
    BY DEF ClaimMount, Mount
  <2>3. /\ SharedMount.name # <<"filesystems">> /\ FuseMount.name # <<"filesystems">>
        /\ KvmMount.name # <<"filesystems">>
    BY DEF SharedMount, FuseMount, KvmMount, Mount
  <2>4. TreeMount.name = <<"filesystems">> /\ TreeMount.propagation = "Bidirectional"
    BY DEF TreeMount, Mount
  <2>5. ASSUME OfMode("Block") # {} PROVE TreeMount \in shared
    BY <1>5, <2>1, <2>4, <2>5
  <2>6. ASSUME OfMode("Block") = {}, NEW y \in shared PROVE FALSE
    BY <1>5, <2>1, <2>2, <2>3, <2>6
  <2> QED
    BY <2>5, <2>6
<1>7. {y \in ToSet(c.mounts) : y.name = <<"filesystems">> /\ y.propagation = "HostToContainer"}
        = {x}
  <2>1. \A y : y \in ToSet(c.mounts) /\ y.name = <<"filesystems">>
                 /\ y.propagation = "HostToContainer" <=> y = x
    BY <1>2, <1>4, SidecarIs
  <2> QED
    BY <2>1
<1>8. x.path = TreeRoot(m)
  BY <1>2 DEF Mount
<1> DEFINE Seen(path) == SubSeq(path, Len(UserRoot(m)) + 1, Len(path))
<1>9. View(p, mounted, m) =
        IF shared = {} THEN {}
        ELSE {[path |-> Seen(x.path \o g.at), claim |-> g.claim] : g \in mounted}
  <2>1. PICK Y : Y = {y \in ToSet(c.mounts) : y.name = <<"filesystems">>
                                                 /\ y.propagation = "HostToContainer"}
    OBVIOUS
  <2>2. View(p, mounted, m) =
          IF shared = {} THEN {}
          ELSE UNION {{[path |-> Seen(y.path \o g.at), claim |-> g.claim] : g \in mounted} :
                        y \in Y}
    BY <1>1, <1>3, <1>5, <2>1 DEF View
  <2>3. Y = {x}
    BY <1>7, <2>1
  <2> HIDE DEF Seen
  <2> DEFINE Through(y) == {[path |-> Seen(y.path \o g.at), claim |-> g.claim] : g \in mounted}
  <2>4. View(p, mounted, m) = IF shared = {} THEN {} ELSE UNION {Through(y) : y \in {x}}
    BY <2>2, <2>3
  <2> HIDE DEF Through
  <2>5. UNION {Through(y) : y \in {x}} = Through(x)
    OBVIOUS
  <2> QED
    BY <2>4, <2>5 DEF Through
<1>10. \A g : g \in mounted
                <=> \E q \in OfMode("Block") : q \notin lost /\ g = [at |-> Place(q), claim |-> q]
  BY GuestsAre
<1>11. \A q : Seen(x.path \o Place(q)) = Documented(m, q)
  BY <1>4, <1>8, SeenIs
<1> HIDE DEF Seen
<1>12. ASSUME NEW v
       PROVE  v \in {[path |-> Seen(x.path \o g.at), claim |-> g.claim] : g \in mounted}
                <=> v \in {[path |-> Documented(m, q), claim |-> q] :
                             q \in {q \in OfMode("Block") : q \notin lost}}
  <2>1. ASSUME NEW g \in mounted, v = [path |-> Seen(x.path \o g.at), claim |-> g.claim]
        PROVE  \E q \in OfMode("Block") :
                 q \notin lost /\ v = [path |-> Documented(m, q), claim |-> q]
    <3>1. PICK q \in OfMode("Block") : q \notin lost /\ g = [at |-> Place(q), claim |-> q]
      BY <1>10
    <3>2. g.at = Place(q) /\ g.claim = q
      BY <3>1
    <3> QED
      BY <1>11, <2>1, <3>1, <3>2
  <2>2. ASSUME NEW q \in OfMode("Block"), q \notin lost,
               v = [path |-> Documented(m, q), claim |-> q]
        PROVE  \E g \in mounted : v = [path |-> Seen(x.path \o g.at), claim |-> g.claim]
    <3>1. PICK g : g = [at |-> Place(q), claim |-> q]
      OBVIOUS
    <3>2. g \in mounted /\ g.at = Place(q) /\ g.claim = q
      BY <1>10, <2>2, <3>1
    <3> QED
      BY <1>11, <2>2, <3>2
  <2> QED
    BY <2>1, <2>2
<1>13. OfMode("Block") = {} => mounted = {}
  BY <1>10
<1>14. {[path |-> Seen(x.path \o g.at), claim |-> g.claim] : g \in mounted}
         = {[path |-> Documented(m, q), claim |-> q] :
              q \in {q \in OfMode("Block") : q \notin lost}}
  BY <1>12
<1>15. CASE shared = {}
  <2>1. OfMode("Block") = {}
    BY <1>6, <1>15
  <2> QED
    BY <1>9, <1>15, <2>1
<1>16. CASE shared # {}
  BY <1>9, <1>14, <1>16
<1> QED
  BY <1>15, <1>16

\* The port of the service for a method is that of its sidecar.
LEMMA PortIs ==
  ASSUME NEW methods, methods \subseteq Methods, NEW m \in methods
  PROVE  gatherServicePorts(methods)[PortName(m)] = Port(m)
<1>1. m \in Methods /\ PortName(m) # "http"
  BY DEF Methods, PortName
<1>2. \A k \in Methods : PortName(k) = PortName(m) => k = m
  BY <1>1 DEF Methods, PortName
<1>3. (CHOOSE k \in methods : PortName(k) = PortName(m)) = m
  BY <1>2
<1> QED
  BY <1>1, <1>3 DEF gatherServicePorts

\* What the users see, and where they connect.
LEMMA ServedIsServed ==
  ASSUME ConstantsAssumption, ServedInv
  PROVE  BackupsAreServed
<1> USE DEF ServedInv
<1>1. SUFFICES ASSUME phase = "served", NEW m \in spec.methods
               PROVE  /\ serving[m].port \in pod.containers[m].ports
                      /\ View(pod, guests, m) =
                           {[path |-> Documented(m, p), claim |-> p] :
                              p \in {p \in ServableClaims :
                                       Claims[p[2]].mode = "Block" /\ p \notin broken}}
  BY DEF BackupsAreServed
<1>2. PICK M : M = extractPVCMountsFromVMFR
  OBVIOUS
<1>3. restored = AllRestored
  BY <1>1 DEF RestoresInv
<1>4. M \in Seq(ServedMounts) /\ ToSet(M) = ServedMounts
  BY <1>1, <1>2, <1>3, MountsAre
<1>5. /\ pod = buildFileServerPodSpec(M, spec.methods) /\ guests = mount_with_structure(pod, broken)
      /\ serving[m].port = gatherServicePorts(spec.methods)[PortName(m)]
  BY <1>1, <1>2 DEF PodInv, Built
<1>6. spec.methods \subseteq Methods /\ m \in Methods
  BY <1>1, SpecIs DEF ResultsInv
<1>7. serving[m].port \in pod.containers[m].ports
  <2>1. serving[m].port = Port(m)
    BY <1>1, <1>5, <1>6, PortIs
  <2>2. pod.containers[m] = SidecarOf(m).container
    BY <1>1, <1>5, <1>6 DEF buildFileServerPodSpec, Methods
  <2>3. SidecarOf(m).container.ports = {Port(m)}
    BY <1>6, SidecarIs
  <2> QED
    BY <2>1, <2>2, <2>3
<1>8. View(pod, guests, m) = {[path |-> Documented(m, q), claim |-> q] :
                                q \in {q \in OfMode("Block") : q \notin broken}}
  BY <1>1, <1>4, <1>5, <1>6, ViewIs
<1>9. {q \in OfMode("Block") : q \notin broken}
        = {p \in ServableClaims : Claims[p[2]].mode = "Block" /\ p \notin broken}
  BY DEF OfMode
<1> QED
  BY <1>7, <1>8, <1>9

-----------------------------------------------------------------------------
\* The two steps that can fail a file restore do not fail this one.
LEMMA AcceptedNext ==
  ASSUME ConstantsAssumption, ServedInv, ReadableBackupsAreAccepted, [Next]_vars
  PROVE  ReadableBackupsAreAccepted'
<1> USE DEF ServedInv
<1> DEFINE good == /\ WellFormed /\ ServableClaims # {}
                   /\ \A b \in Selected : Readable(contents[b])
<1>1. UNCHANGED <<contents, spec>>
  BY DEF Next, vars, input, discoverPVCsFromSingleBackup, processDiscoveryResults,
     createVeleroRestores, VeleroRestores, ensureCredentials, createFileServerResources,
     detectAndMount, Finished
<1>2. good' = good
  BY <1>1 DEF WellFormed, ServableClaims, Selected
<1>3. SUFFICES ASSUME good PROVE phase' \notin {"Failed", "PartiallyFailed"}
  BY <1>2 DEF ReadableBackupsAreAccepted
<1>4. phase \notin {"Failed", "PartiallyFailed"}
  BY <1>3 DEF ReadableBackupsAreAccepted
<1>5. CASE processDiscoveryResults
  <2>1. PICK g : g = GroupedClaims
    OBVIOUS
  <2>2. phase' = Verdict(g) /\ phase = "read"
    BY <1>5, <2>1 DEF processDiscoveryResults
  <2>3. PICK entries : entries = UNION {ToSet(g[u]) : u \in DOMAIN g}
    OBVIOUS
  <2>4. /\ \A u : u \in DOMAIN g <=> \E r \in ToSet(results) : u \in r.claims
        /\ \A u \in DOMAIN g : g[u] = RestoresOf(u)
    BY <2>1 DEF GroupedClaims
  <2>5. results \in Seq(Result)
    BY DEF ResultsInv
  <2>6. ASSUME NEW e \in entries PROVE e.state = "available"
    <3>1. PICK u \in DOMAIN g : e \in ToSet(RestoresOf(u))
      BY <2>3, <2>4
    <3>2. PICK r \in ToSet(results) : e = EntryOf(r)
      BY <2>5, <3>1, RestoresOfIs
    <3>3. r.reason = "none"
      BY <1>3, ResultIs
    <3> QED
      BY <3>2, <3>3 DEF EntryOf, StateOf
  <2>7. entries # {}
    <3>1. PICK p \in ServableClaims : TRUE
      BY <1>3
    <3>2. p[1] \in Selected /\ p[2] \in contents[p[1]].claims
      BY ServableIs
    <3>3. PICK i \in DOMAIN spec.selected : spec.selected[i] = p[1]
      BY <3>2 DEF Selected, ToSet
    <3>4. PICK r \in ToSet(results) : r.backup = p[1]
      BY <2>2, <3>3 DEF ResultsInv, Answered
    <3>5. p[2] \in r.claims
      BY <1>3, <3>2, <3>4, ResultIs
    <3>6. p[2] \in DOMAIN g /\ EntryOf(r) \in ToSet(g[p[2]])
      BY <2>4, <2>5, <3>5, RestoresOfIs
    <3> QED
      BY <2>3, <3>6
  <2>8. Verdict(g) = "validated"
    <3>1. Verdict(g) = CASE \A e \in entries : e.state # "available" -> "Failed"
                         [] \A e \in entries : e.state = "available" /\ entries # {} -> "validated"
                         [] OTHER -> "PartiallyFailed"
      BY <2>3 DEF Verdict
    <3> QED
      BY <2>6, <2>7, <3>1
  <2> QED
    BY <2>2, <2>8
<1>6. CASE createFileServerResources
  <2>1. phase = "restored"
    BY <1>6 DEF createFileServerResources
  <2>2. PICK M : M = extractPVCMountsFromVMFR
    OBVIOUS
  <2>3. restored = AllRestored
    BY <2>1 DEF RestoresInv
  <2>4. M \in Seq(ServedMounts) /\ ToSet(M) = ServedMounts /\ IsInjective(M)
    BY <1>3, <2>1, <2>2, <2>3, MountsAre DEF WellFormed
  <2>5. spec.methods \subseteq Methods
    BY SpecIs DEF ResultsInv
  <2>6. Admissible(buildFileServerPodSpec(M, spec.methods))
    BY <2>4, <2>5, PodIsAdmissible
  <2>7. ServiceNameFits(spec.nameLength)
    BY <1>3 DEF WellFormed
  <2> QED
    BY <1>6, <2>2, <2>6, <2>7 DEF createFileServerResources
<1>7. ASSUME NEW i \in reading, discoverPVCsFromSingleBackup(i)
      PROVE  phase' \notin {"Failed", "PartiallyFailed"}
  BY <1>7 DEF discoverPVCsFromSingleBackup
<1>8. CASE createVeleroRestores
  BY <1>8 DEF createVeleroRestores
<1>9. ASSUME NEW b \in Backups, VeleroRestores(b)
      PROVE  phase' \notin {"Failed", "PartiallyFailed"}
  BY <1>9 DEF VeleroRestores
<1>10. CASE detectAndMount
  BY <1>10 DEF detectAndMount
<1>11. CASE Finished \/ UNCHANGED vars
  BY <1>4, <1>11 DEF Finished, vars
<1>12. CASE ensureCredentials
  BY <1>3, <1>12 DEF ensureCredentials, WellFormed
<1> QED
  BY <1>5, <1>6, <1>7, <1>8, <1>9, <1>10, <1>11, <1>12 DEF Next

\* Once served, the users of each access method reach its sidecar at the published port,
\* and see there every version of every Block claim of the readable backups whose disk
\* could be mounted, at its documented path and with its own data, and nothing else:
\* no mount is lost or shown twice between buildPVCVolumesAndMounts, the mounting script
\* and the root the sidecar gives its users.
THEOREM DisksAreServed == Spec => []BackupsAreServed
<1>1. ServedInv => BackupsAreServed
  BY ConstantsAssumption, ServedIsServed
<1> QED
  BY <1>1, Invariance, PTL

\* A file restore of distinct, readable backups that hold a claim does not fail, if it
\* names an access method and its service's name fits: processDiscoveryResults finds
\* nothing wrong, and Kubernetes accepts the pod, as no two volumes, mounts or devices
\* of it collide.
THEOREM ReadableAreAccepted == Spec => []ReadableBackupsAreAccepted
<1>1. Init => ReadableBackupsAreAccepted
  BY DEF Init, ReadableBackupsAreAccepted
<1>2. ServedInv /\ ReadableBackupsAreAccepted /\ [Next]_vars => ReadableBackupsAreAccepted'
  BY ConstantsAssumption, AcceptedNext
<1> QED
  BY <1>1, <1>2, Invariance, PTL DEF Spec

=============================================================================
