---------------------------- MODULE FilterProofs ----------------------------
(***************************************************************************)
(* What Filter returns.  Induction over data without a theorem that takes   *)
(* an operator: a set of natural numbers has a least element, so a claim    *)
(* that fails for some number fails for a least one.                        *)
(***************************************************************************)
EXTENDS Filters, SequencesExt, SequenceTheorems, WellFoundedInduction, TLAPS

(* A set of natural numbers that is not empty has a least element.          *)
LEMMA LeastNat ==
    ASSUME NEW T \in SUBSET Nat, T # {}
    PROVE  \E n \in T : \A m \in T : n <= m
<1> DEFINE R == {p \in Nat \X Nat : p[1] < p[2]}
<1>1. IsWellFoundedOn(R, Nat)
  <2>1. R = OpToRel(<, Nat)
    BY Zenon DEF OpToRel
  <2> QED BY <2>1, NatLessThanWellFounded, Zenon
<1>2. PICK n \in T : \A m \in T : <<m, n>> \notin R
  <2> HIDE DEF R
  <2> QED BY <1>1, WFMin, Zenon
<1>3. \A m \in T : m \in Nat /\ n \in Nat /\ ~(m < n)
  BY <1>2
<1> QED BY <1>3

(* Induction: a set that has 0 and the successor of each of its members     *)
(* below a bound has every number up to the bound.                          *)
LEMMA UpTo ==
    ASSUME NEW n \in Nat, NEW T, 0 \in T,
           \A i \in 0 .. n - 1 : i \in T => i + 1 \in T
    PROVE  \A i \in 0 .. n : i \in T
<1> DEFINE B == {i \in 0 .. n : i \notin T}
<1>1. SUFFICES ASSUME B # {} PROVE FALSE
  OBVIOUS
<1>2. B \in SUBSET Nat
  OBVIOUS
<1>3. PICK k \in B : \A m \in B : k <= m
  <2> HIDE DEF B
  <2> QED BY <1>1, <1>2, LeastNat
<1>4. k \in 1 .. n /\ k - 1 \in 0 .. n - 1
  BY <1>3
<1>5. k - 1 \in T
  BY <1>3, <1>4
<1>6. (k - 1) + 1 \in T
  BY <1>4, <1>5
<1> QED BY <1>3, <1>4, <1>6

(* The function of Kept, by its recursion.                                  *)
Recursion(s, S, F) ==
    F = [i \in 0 .. Len(s) |->
            IF i = 0 THEN <<>>
            ELSE IF s[i] \in S THEN Append(F[i - 1], s[i]) ELSE F[i - 1]]

Partial(s, S, n, G) ==
    /\ DOMAIN G = 0 .. n
    /\ G = [i \in 0 .. n |-> G[i]]
    /\ \A i \in 0 .. n :
          G[i] = IF i = 0 THEN <<>>
                 ELSE IF s[i] \in S THEN Append(G[i - 1], s[i]) ELSE G[i - 1]

(* The recursion that defines Kept has a solution.                          *)
LEMMA KeptExists ==
    ASSUME NEW s, NEW S, Len(s) \in Nat
    PROVE  Recursion(s, S, Kept(s, S))
<1> DEFINE T == {n \in 0 .. Len(s) : \E G : Partial(s, S, n, G)}
<1>1. 0 \in T
  <2>1. Partial(s, S, 0, [i \in 0 .. 0 |-> <<>>])
    BY DEF Partial
  <2> QED BY <2>1
<1>2. ASSUME NEW n \in 0 .. Len(s) - 1, n \in T PROVE n + 1 \in T
  <2>1. PICK G : Partial(s, S, n, G)
    BY <1>2
  <2> DEFINE H == [i \in 0 .. n + 1 |->
                     IF i <= n THEN G[i]
                     ELSE IF s[n + 1] \in S THEN Append(G[n], s[n + 1]) ELSE G[n]]
  <2>2. DOMAIN H = 0 .. n + 1 /\ H = [i \in 0 .. n + 1 |-> H[i]]
    OBVIOUS
  <2>3. ASSUME NEW i \in 0 .. n + 1
        PROVE  H[i] = IF i = 0 THEN <<>>
                      ELSE IF s[i] \in S THEN Append(H[i - 1], s[i]) ELSE H[i - 1]
    <3>1. CASE i <= n
      <4>1. i \in 0 .. n /\ H[i] = G[i] /\ (i # 0 => i - 1 \in 0 .. n + 1 /\ H[i - 1] = G[i - 1])
        BY <3>1
      <4> QED BY <2>1, <4>1 DEF Partial
    <3>2. CASE i = n + 1
      BY <3>2
    <3> QED BY <3>1, <3>2
  <2>4. Partial(s, S, n + 1, H)
    <3> HIDE DEF H
    <3> QED BY <2>2, <2>3 DEF Partial
  <2> HIDE DEF H
  <2> QED BY <2>4
<1>3. Len(s) \in T
  <2>1. \A n \in 0 .. Len(s) - 1 : n \in T => n + 1 \in T
    BY <1>2
  <2> HIDE DEF T
  <2>2. \A i \in 0 .. Len(s) : i \in T
    BY <1>1, <2>1, UpTo, Zenon
  <2> QED BY <2>2
<1>4. PICK G : Partial(s, S, Len(s), G)
  BY <1>3
<1>5. Recursion(s, S, G)
  BY <1>4, Zenon DEF Partial, Recursion
<1> QED BY <1>5, Zenon DEF Kept, Recursion

(* What Kept is of each prefix.                                             *)
LEMMA KeptOfPrefix ==
    ASSUME NEW A, NEW s \in Seq(A), NEW S
    PROVE  /\ Kept(s, S)[0] = <<>>
           /\ \A i \in 1 .. Len(s) :
                 Kept(s, S)[i] = IF s[i] \in S THEN Append(Kept(s, S)[i - 1], s[i])
                                 ELSE Kept(s, S)[i - 1]
<1>1. Len(s) \in Nat
  OBVIOUS
<1>2. Recursion(s, S, Kept(s, S))
  BY <1>1, KeptExists
<1> DEFINE K == Kept(s, S)
<1> HIDE DEF K
<1>3. \A i \in 0 .. Len(s) :
        K[i] = IF i = 0 THEN <<>>
               ELSE IF s[i] \in S THEN Append(K[i - 1], s[i]) ELSE K[i - 1]
  <2>1. K = [i \in 0 .. Len(s) |->
               IF i = 0 THEN <<>>
               ELSE IF s[i] \in S THEN Append(K[i - 1], s[i]) ELSE K[i - 1]]
    BY <1>2, Zenon DEF Recursion, K
  <2> QED BY <2>1, Zenon
<1>4. K[0] = <<>>
  BY <1>1, <1>3
<1>5. \A i \in 1 .. Len(s) : i \in 0 .. Len(s) /\ i # 0
  BY <1>1
<1>6. \A i \in 1 .. Len(s) :
        K[i] = IF s[i] \in S THEN Append(K[i - 1], s[i]) ELSE K[i - 1]
  BY <1>3, <1>5, Zenon
<1> QED BY <1>4, <1>6, Zenon DEF K

(***************************************************************************)
(* Lists whose elements occur once.                                        *)
(***************************************************************************)
(* No two places of d hold the same.                                        *)
Once(d) == \A i, j \in 1 .. Len(d) : d[i] = d[j] => i = j

(* What is left of a list when its head leaves it.                          *)
LEMMA TailOf ==
    ASSUME NEW A, NEW d \in Seq(A), d # <<>>
    PROVE  /\ Tail(d) \in Seq(A) /\ Head(d) \in A
           /\ ToSet(d) = ToSet(Tail(d)) \cup {Head(d)}
           /\ Once(d) => Once(Tail(d)) /\ Head(d) \notin ToSet(Tail(d))
<1> DEFINE e == Tail(d)
<1>1. /\ e \in Seq(A) /\ Len(d) \in Nat /\ Len(d) > 0 /\ Len(e) = Len(d) - 1
      /\ DOMAIN e = 1 .. Len(e) /\ DOMAIN d = 1 .. Len(d)
      /\ \A i \in 1 .. Len(e) : e[i] = d[i + 1]
      /\ Head(d) = d[1] /\ Head(d) \in A
  OBVIOUS
<1> HIDE DEF e
<1>2. \A i \in 1 .. Len(d) : i = 1 \/ (i - 1 \in 1 .. Len(e) /\ d[i] = e[i - 1])
  BY <1>1
<1>3. \A i \in 1 .. Len(e) : i + 1 \in 1 .. Len(d) /\ i + 1 # 1
  BY <1>1
<1>4. ToSet(d) = ToSet(e) \cup {Head(d)}
  <2>1. ASSUME NEW x \in ToSet(d) PROVE x \in ToSet(e) \cup {Head(d)}
    BY <1>1, <1>2, <2>1 DEF ToSet
  <2>2. ASSUME NEW x \in ToSet(e) PROVE x \in ToSet(d)
    BY <1>1, <1>3, <2>2 DEF ToSet
  <2>3. Head(d) \in ToSet(d)
    BY <1>1 DEF ToSet
  <2> QED BY <2>1, <2>2, <2>3
<1>5. ASSUME Once(d) PROVE Once(e) /\ Head(d) \notin ToSet(e)
  <2>1. ASSUME NEW i \in 1 .. Len(e), NEW j \in 1 .. Len(e), e[i] = e[j] PROVE i = j
    <3>1. d[i + 1] = d[j + 1] /\ i + 1 \in 1 .. Len(d) /\ j + 1 \in 1 .. Len(d)
      BY <1>1, <1>3, <2>1
    <3>2. i + 1 = j + 1
      BY <1>5, <3>1 DEF Once
    <3> QED BY <3>2
  <2>2. ASSUME NEW i \in 1 .. Len(e), e[i] = d[1] PROVE FALSE
    BY <1>1, <1>3, <1>5, <2>2 DEF Once
  <2>3. Head(d) \notin ToSet(e)
    BY <1>1, <2>2 DEF ToSet
  <2> QED BY <2>1, <2>3 DEF Once
<1> QED BY <1>1, <1>4, <1>5 DEF e

(* Two lists, one after the other.                                          *)
LEMMA ConcatOf ==
    ASSUME NEW A, NEW c \in Seq(A), NEW d \in Seq(A)
    PROVE  /\ c \o d \in Seq(A) /\ ToSet(c \o d) = ToSet(c) \cup ToSet(d)
           /\ Once(c) /\ Once(d) /\ ToSet(c) \cap ToSet(d) = {} => Once(c \o d)
<1> DEFINE e == c \o d
<1>1. /\ e \in Seq(A) /\ Len(c) \in Nat /\ Len(d) \in Nat /\ Len(e) = Len(c) + Len(d)
      /\ DOMAIN e = 1 .. Len(e) /\ DOMAIN c = 1 .. Len(c) /\ DOMAIN d = 1 .. Len(d)
      /\ \A i \in 1 .. Len(c) : e[i] = c[i]
      /\ \A i \in 1 .. Len(d) : e[Len(c) + i] = d[i]
  OBVIOUS
<1> HIDE DEF e
<1>2. \A i \in 1 .. Len(e) : \/ i \in 1 .. Len(c) /\ e[i] = c[i]
                            \/ /\ i - Len(c) \in 1 .. Len(d)
                               /\ e[i] = d[i - Len(c)]
  <2> SUFFICES ASSUME NEW i \in 1 .. Len(e), i \notin 1 .. Len(c)
               PROVE  i - Len(c) \in 1 .. Len(d) /\ e[i] = d[i - Len(c)]
    BY <1>1
  <2>1. i - Len(c) \in 1 .. Len(d) /\ Len(c) + (i - Len(c)) = i
    BY <1>1
  <2> QED BY <1>1, <2>1
<1>3. /\ \A i \in 1 .. Len(c) : i \in 1 .. Len(e)
      /\ \A i \in 1 .. Len(d) : Len(c) + i \in 1 .. Len(e)
  BY <1>1
<1>4. ToSet(e) = ToSet(c) \cup ToSet(d)
  <2>1. ASSUME NEW x \in ToSet(e) PROVE x \in ToSet(c) \cup ToSet(d)
    BY <1>1, <1>2, <2>1 DEF ToSet
  <2>2. ASSUME NEW x \in ToSet(c) \cup ToSet(d) PROVE x \in ToSet(e)
    BY <1>1, <1>3, <2>2 DEF ToSet
  <2> QED BY <2>1, <2>2
<1>5. ASSUME Once(c), Once(d), ToSet(c) \cap ToSet(d) = {} PROVE Once(e)
  <2>1. \A i \in 1 .. Len(c) : \A j \in 1 .. Len(d) : c[i] # d[j]
    BY <1>1, <1>5 DEF ToSet
  <2> SUFFICES ASSUME NEW i \in 1 .. Len(e), NEW j \in 1 .. Len(e), e[i] = e[j] PROVE i = j
    BY DEF Once
  <2>2. CASE i \in 1 .. Len(c) /\ j \in 1 .. Len(c)
    BY <1>1, <1>5, <2>2 DEF Once
  <2>3. CASE i - Len(c) \in 1 .. Len(d) /\ j - Len(c) \in 1 .. Len(d)
    <3>1. e[i] = d[i - Len(c)] /\ e[j] = d[j - Len(c)]
      BY <1>1, <1>2, <2>3
    <3>2. i - Len(c) = j - Len(c)
      BY <1>5, <2>3, <3>1 DEF Once
    <3> QED BY <1>1, <3>2
  <2>4. CASE i \in 1 .. Len(c) /\ j - Len(c) \in 1 .. Len(d)
    BY <1>1, <1>2, <2>1, <2>4
  <2>5. CASE j \in 1 .. Len(c) /\ i - Len(c) \in 1 .. Len(d)
    BY <1>1, <1>2, <2>1, <2>5
  <2> QED BY <1>2, <2>2, <2>3, <2>4, <2>5
<1> QED BY <1>1, <1>4, <1>5 DEF e

(* A list of one element.                                                   *)
LEMMA OneOf ==
    ASSUME NEW A, NEW x \in A
    PROVE  <<x>> \in Seq(A) /\ ToSet(<<x>>) = {x} /\ Once(<<x>>)
<1> DEFINE e == <<x>>
<1>1. e \in Seq(A) /\ DOMAIN e = {1} /\ Len(e) = 1 /\ e[1] = x
  OBVIOUS
<1> HIDE DEF e
<1>2. ToSet(e) = {x}
  BY <1>1 DEF ToSet
<1>3. Once(e)
  BY <1>1 DEF Once
<1> QED BY <1>1, <1>2, <1>3 DEF e

(* A list, backwards.                                                       *)
LEMMA ReverseOf ==
    ASSUME NEW A, NEW d \in Seq(A)
    PROVE  /\ Reverse(d) \in Seq(A) /\ ToSet(Reverse(d)) = ToSet(d)
           /\ Once(d) => Once(Reverse(d))
<1> DEFINE e == Reverse(d)
<1>0. PICK n \in Nat : n = Len(d) /\ DOMAIN d = 1 .. n
  OBVIOUS
<1>1. \A i \in 1 .. n : (n - i) + 1 \in 1 .. n /\ (n - ((n - i) + 1)) + 1 = i
  BY <1>0
<1>2. e = [i \in 1 .. n |-> d[(n - i) + 1]]
  BY <1>0 DEF Reverse
<1> HIDE DEF e
<1>3. \A i \in 1 .. n : e[i] = d[(n - i) + 1] /\ e[i] \in A
  BY <1>0, <1>1, <1>2
<1>4. e \in [1 .. n -> A]
  BY <1>2, <1>3
<1>5. e \in Seq(A) /\ Len(e) = n /\ DOMAIN e = 1 .. n
  BY <1>0, <1>4
<1>6. ToSet(e) = ToSet(d)
  <2>1. ASSUME NEW x \in ToSet(e) PROVE x \in ToSet(d)
    BY <1>0, <1>1, <1>3, <1>5, <2>1 DEF ToSet
  <2>2. ASSUME NEW x \in ToSet(d) PROVE x \in ToSet(e)
    <3>1. PICK i \in 1 .. n : d[i] = x
      BY <1>0, <2>2 DEF ToSet
    <3>2. (n - i) + 1 \in 1 .. n /\ e[(n - i) + 1] = d[(n - ((n - i) + 1)) + 1]
      BY <1>1, <1>3
    <3>3. e[(n - i) + 1] = x
      BY <1>1, <3>1, <3>2
    <3> QED BY <1>5, <3>2, <3>3 DEF ToSet
  <2> QED BY <2>1, <2>2
<1>7. ASSUME Once(d) PROVE Once(e)
  <2> SUFFICES ASSUME NEW i \in 1 .. n, NEW j \in 1 .. n, e[i] = e[j] PROVE i = j
    BY <1>5 DEF Once
  <2>1. (n - i) + 1 = (n - j) + 1
    BY <1>0, <1>1, <1>3, <1>7 DEF Once
  <2> QED BY <1>0, <2>1
<1> QED BY <1>5, <1>6, <1>7 DEF e

(* What Filter returns: a list of the elements that are in the set, none    *)
(* more often than before.                                                  *)
LEMMA FilterIs ==
    ASSUME NEW A, NEW s \in Seq(A), NEW S
    PROVE  /\ Filter(s, S) \in Seq(A \cap S)
           /\ ToSet(Filter(s, S)) = ToSet(s) \cap S
           /\ Len(Filter(s, S)) <= Len(s)
           /\ Once(s) => Once(Filter(s, S))
<1> DEFINE K == Kept(s, S)
<1> DEFINE Good(i) ==
        /\ K[i] \in Seq(A \cap S)
        /\ \A x : (\E k \in 1 .. Len(K[i]) : K[i][k] = x) <=>
                  (x \in S /\ \E j \in 1 .. i : s[j] = x)
        /\ Len(K[i]) <= i
        /\ Once(s) => Once(K[i])
<1> DEFINE T == {i \in 0 .. Len(s) : Good(i)}
<1>1. /\ K[0] = <<>>
      /\ \A i \in 1 .. Len(s) :
            K[i] = IF s[i] \in S THEN Append(K[i - 1], s[i]) ELSE K[i - 1]
  BY KeptOfPrefix
<1> HIDE DEF K
<1>2. 0 \in T
  <2>1. K[0] = <<>> /\ Len(K[0]) = 0 /\ 1 .. 0 = {}
    BY <1>1
  <2>2. Once(K[0])
    BY <2>1 DEF Once
  <2>3. \A x : /\ ~ \E k \in 1 .. Len(K[0]) : K[0][k] = x
              /\ ~ \E j \in 1 .. 0 : s[j] = x
    BY <2>1
  <2>4. K[0] \in Seq(A \cap S) /\ Len(K[0]) <= 0 /\ 0 \in 0 .. Len(s)
    BY <2>1
  <2> QED BY <2>2, <2>3, <2>4
<1>3. ASSUME NEW i \in 0 .. Len(s) - 1, Good(i) PROVE Good(i + 1)
  <2>1. i + 1 \in 1 .. Len(s) /\ (i + 1) - 1 = i /\ s[i + 1] \in A
    OBVIOUS
  <2>2. CASE s[i + 1] \notin S
    <3>1. K[i + 1] = K[i]
      BY <1>1, <2>1, <2>2
    <3>2. \A x \in S : (\E j \in 1 .. i + 1 : s[j] = x) <=> \E j \in 1 .. i : s[j] = x
      BY <2>1, <2>2
    <3> DEFINE L == K[i]
    <3>3. /\ L \in Seq(A \cap S) /\ Len(L) <= i
          /\ \A x : (\E k \in 1 .. Len(L) : L[k] = x) <=>
                    (x \in S /\ \E j \in 1 .. i : s[j] = x)
          /\ Once(s) => Once(L)
      BY <1>3
    <3>4. K[i + 1] = L
      BY <3>1
    <3> HIDE DEF L
    <3>5. Len(L) <= i + 1
      BY <3>3
    <3>6. \A x : (\E k \in 1 .. Len(L) : L[k] = x) <=>
                (x \in S /\ \E j \in 1 .. i + 1 : s[j] = x)
      BY <3>2, <3>3
    <3> QED BY <3>3, <3>4, <3>5, <3>6
  <2>3. CASE s[i + 1] \in S
    <3> DEFINE L == K[i]
    <3>1. K[i + 1] = Append(L, s[i + 1])
      BY <1>1, <2>1, <2>3
    <3>2. /\ L \in Seq(A \cap S) /\ s[i + 1] \in A \cap S
          /\ \A x : (\E k \in 1 .. Len(L) : L[k] = x) <=>
                    (x \in S /\ \E j \in 1 .. i : s[j] = x)
          /\ Len(L) <= i
          /\ Once(s) => Once(L)
      BY <1>3, <2>1, <2>3
    <3> HIDE DEF L
    <3>3. /\ K[i + 1] \in Seq(A \cap S)
          /\ Len(K[i + 1]) = Len(L) + 1
          /\ \A k \in 1 .. Len(L) : K[i + 1][k] = L[k]
          /\ K[i + 1][Len(L) + 1] = s[i + 1]
      BY <3>1, <3>2
    <3>4. Len(L) \in Nat
      BY <3>2
    <3>5. ASSUME NEW x
          PROVE  (\E k \in 1 .. Len(K[i + 1]) : K[i + 1][k] = x) <=>
                 (x \in S /\ \E j \in 1 .. i + 1 : s[j] = x)
      <4>1. (\E k \in 1 .. Len(K[i + 1]) : K[i + 1][k] = x) <=>
              (\E k \in 1 .. Len(L) : L[k] = x) \/ x = s[i + 1]
        <5>1. 1 .. Len(K[i + 1]) = 1 .. Len(L) \cup {Len(L) + 1}
          BY <3>3, <3>4
        <5> QED BY <3>3, <5>1
      <4>2. (\E j \in 1 .. i + 1 : s[j] = x) <=>
              (\E j \in 1 .. i : s[j] = x) \/ x = s[i + 1]
        <5>1. 1 .. i + 1 = 1 .. i \cup {i + 1}
          OBVIOUS
        <5> QED BY <5>1
      <4> QED BY <2>3, <3>2, <4>1, <4>2
    <3>6. ASSUME Once(s) PROVE Once(K[i + 1])
      <4>1. \A k \in 1 .. Len(L) : L[k] # s[i + 1]
        <5> SUFFICES ASSUME NEW k \in 1 .. Len(L), L[k] = s[i + 1] PROVE FALSE
          OBVIOUS
        <5>1. PICK j \in 1 .. i : s[j] = s[i + 1]
          BY <3>2
        <5> QED BY <3>6, <5>1, <2>1 DEF Once
      <4>2. \A a, b \in 1 .. Len(L) : L[a] = L[b] => a = b
        BY <3>2, <3>6 DEF Once
      <4>3. \A a \in 1 .. Len(K[i + 1]) : a \in 1 .. Len(L) \/ a = Len(L) + 1
        BY <3>3, <3>4
      <4> QED BY <3>3, <4>1, <4>2, <4>3 DEF Once
    <3> QED BY <3>2, <3>3, <3>4, <3>5, <3>6
  <2> QED BY <2>2, <2>3
<1>4. \A i \in 0 .. Len(s) - 1 : i \in T => i + 1 \in T
  <2> HIDE DEF Good
  <2> QED BY <1>3
<1>5. Good(Len(s))
  <2>1. Len(s) \in Nat /\ Len(s) \in 0 .. Len(s)
    OBVIOUS
  <2>2. Len(s) \in T
    <3> HIDE DEF T
    <3> QED BY <1>2, <1>4, <2>1, UpTo
  <2> QED BY <2>2
<1>6. Filter(s, S) = K[Len(s)]
  BY DEF Filter, K
<1>7. ToSet(Filter(s, S)) = ToSet(s) \cap S
  BY <1>5, <1>6 DEF ToSet
<1> QED BY <1>5, <1>6, <1>7

(* A list over part of a set.                                               *)
LEMMA SeqOfPart ==
    ASSUME NEW A, NEW S, NEW f \in Seq(A \cap S)
    PROVE  f \in Seq(A)
OBVIOUS

(* An element is appended to the second of two lists.                       *)
LEMMA AppendToTwo ==
    ASSUME NEW A, NEW k \in Seq(A), NEW l \in Seq(A), NEW x \in A
    PROVE  Append(k \o l, x) = k \o Append(l, x) /\ Append(l, x) \in Seq(A)
OBVIOUS

(* Lists of one element, and of none.                                       *)
LEMMA OneElement ==
    ASSUME NEW A, NEW x \in A
    PROVE  /\ <<x>> \in Seq(A) /\ Len(<<x>>) = 1 /\ <<x>>[1] = x /\ Append(<<>>, x) = <<x>>
           /\ <<>> \in Seq(A) /\ Len(<<>>) = 0
OBVIOUS

(* What is kept of two lists, one after the other.                          *)
LEMMA FilterConcat ==
    ASSUME NEW A, NEW s \in Seq(A), NEW p \in Seq(A), NEW S
    PROVE  Filter(s \o p, S) = Filter(s, S) \o Filter(p, S)
<1> DEFINE q == s \o p
           K == Kept(s, S)
           L == Kept(p, S)
           M == Kept(q, S)
<1> DEFINE n == Len(s)
           m == Len(p)
<1>1. /\ q \in Seq(A) /\ Len(q) = n + m /\ n \in Nat /\ m \in Nat
      /\ \A i \in 1 .. n : q[i] = s[i]
      /\ \A i \in 1 .. m : q[n + i] = p[i]
  OBVIOUS
<1>2. /\ K[0] = <<>>
      /\ \A i \in 1 .. n : K[i] = IF s[i] \in S THEN Append(K[i - 1], s[i]) ELSE K[i - 1]
  BY KeptOfPrefix
<1>3. /\ L[0] = <<>>
      /\ \A i \in 1 .. m : L[i] = IF p[i] \in S THEN Append(L[i - 1], p[i]) ELSE L[i - 1]
  BY KeptOfPrefix
<1>4. K[n] = Filter(s, S) /\ L[m] = Filter(p, S) /\ M[Len(q)] = Filter(q, S)
  BY Zenon DEF Filter
<1>5. K[n] \in Seq(A)
  <2> DEFINE f == Filter(s, S)
  <2> HIDE DEF f
  <2>1. f \in Seq(A \cap S)
    BY FilterIs DEF f
  <2>2. f \in Seq(A)
    BY <2>1, SeqOfPart
  <2> HIDE DEF K
  <2> QED BY <1>4, <2>2, Zenon DEF f
<1>6. \A i \in 1 .. m : p[i] \in A
  OBVIOUS
<1> HIDE DEF q, n, m
<1>7. /\ M[0] = <<>>
      /\ \A i \in 1 .. n + m : M[i] = IF q[i] \in S THEN Append(M[i - 1], q[i]) ELSE M[i - 1]
  <2>1. q \in Seq(A) /\ Len(q) = n + m
    BY <1>1
  <2> QED BY <2>1, KeptOfPrefix
<1> HIDE DEF K, L, M
<1>8. n \in Nat /\ m \in Nat
  BY <1>1
<1>9. M[n] = K[n]
  <2> DEFINE T == {i \in 0 .. n : M[i] = K[i]}
  <2>1. 0 \in T
    BY <1>8, <1>2, <1>7
  <2>2. ASSUME NEW i \in 0 .. n - 1, M[i] = K[i] PROVE M[i + 1] = K[i + 1]
    <3>1. i + 1 \in 1 .. n /\ i + 1 \in 1 .. n + m /\ (i + 1) - 1 = i
      BY <1>8
    <3>2. M[i + 1] = IF q[i + 1] \in S THEN Append(M[i], q[i + 1]) ELSE M[i]
      BY <1>7, <3>1
    <3>3. K[i + 1] = IF s[i + 1] \in S THEN Append(K[i], s[i + 1]) ELSE K[i]
      BY <1>2, <3>1
    <3>4. q[i + 1] = s[i + 1]
      BY <1>1, <3>1
    <3> QED BY <2>2, <3>2, <3>3, <3>4
  <2>3. \A i \in 0 .. n - 1 : i \in T => i + 1 \in T
    BY <1>8, <2>2
  <2> HIDE DEF T
  <2>4. \A i \in 0 .. n : i \in T
    BY <1>8, <2>1, <2>3, UpTo, Zenon
  <2> QED BY <1>8, <2>4 DEF T
<1>10. \A i \in 0 .. m : L[i] \in Seq(A) /\ M[n + i] = K[n] \o L[i]
  <2> DEFINE T == {i \in 0 .. m : L[i] \in Seq(A) /\ M[n + i] = K[n] \o L[i]}
  <2>1. 0 \in T
    <3>1. K[n] \o <<>> = K[n] /\ <<>> \in Seq(A)
      BY <1>5, ConcatEmptySeq
    <3>2. n + 0 = n /\ 0 \in 0 .. m
      BY <1>8
    <3> QED BY <1>3, <1>9, <3>1, <3>2
  <2>2. ASSUME NEW i \in 0 .. m - 1, L[i] \in Seq(A), M[n + i] = K[n] \o L[i]
        PROVE  L[i + 1] \in Seq(A) /\ M[n + (i + 1)] = K[n] \o L[i + 1]
    <3> DEFINE j == n + (i + 1)
               x == p[i + 1]
               k == K[n]
               l == L[i]
    <3>1. i + 1 \in 1 .. m /\ (i + 1) - 1 = i /\ j \in 1 .. n + m /\ j - 1 = n + i
      BY <1>8
    <3>2. q[j] = x /\ x \in A
      BY <1>1, <1>6, <3>1
    <3>3. M[j] = IF x \in S THEN Append(M[n + i], x) ELSE M[n + i]
      BY <1>7, <3>1, <3>2
    <3>4. L[i + 1] = IF x \in S THEN Append(l, x) ELSE l
      BY <1>3, <3>1
    <3>5. k \in Seq(A) /\ l \in Seq(A) /\ M[n + i] = k \o l
      BY <1>5, <2>2
    <3> HIDE DEF j, x, k, l
    <3>6. Append(k \o l, x) = k \o Append(l, x) /\ Append(l, x) \in Seq(A)
      <4>1. x \in A /\ k \in Seq(A) /\ l \in Seq(A)
        BY <3>2, <3>5
      <4>2. \A a, b \in Seq(A), e \in A : Append(a \o b, e) = a \o Append(b, e) /\ Append(b, e) \in Seq(A)
        BY AppendToTwo
      <4> HIDE DEF T
      <4> QED BY <4>1, <4>2, Zenon
    <3>7. L[i + 1] \in Seq(A) /\ M[j] = k \o L[i + 1]
      BY <3>3, <3>4, <3>5, <3>6
    <3> QED BY <3>7 DEF j, k
  <2>3. \A i \in 0 .. m - 1 : i \in T => i + 1 \in T
    <3>1. \A i \in 0 .. m - 1 : i + 1 \in 0 .. m
      BY <1>8
    <3> QED BY <2>2, <3>1, Zenon
  <2> HIDE DEF T
  <2>4. \A i \in 0 .. m : i \in T
    BY <1>8, <2>1, <2>3, UpTo, Zenon
  <2> QED BY <2>4 DEF T
<1>11. M[n + m] = K[n] \o L[m]
  <2>1. m \in 0 .. m
    BY <1>8
  <2> QED BY <1>10, <2>1, Zenon
<1>12. Filter(q, S) = Filter(s, S) \o Filter(p, S)
  BY <1>1, <1>4, <1>11, Zenon
<1> QED BY <1>12, Zenon DEF q

(* What is kept of a list of one element, and of none.                      *)
LEMMA FilterOfOne ==
    ASSUME NEW A, NEW x \in A, NEW S
    PROVE  /\ Filter(<<x>>, S) = IF x \in S THEN <<x>> ELSE <<>>
           /\ Filter(<<>>, S) = <<>>
<1> DEFINE e == <<x>>
           o == <<>>
           K == Kept(e, S)
           L == Kept(o, S)
<1>1. /\ e \in Seq(A) /\ Len(e) = 1 /\ e[1] = x /\ o \in Seq(A) /\ Len(o) = 0
      /\ Append(o, x) = e
  BY OneElement
<1> HIDE DEF e, o
<1>2. L[0] = <<>>
  <2>1. o \in Seq(A)
    BY <1>1
  <2> QED BY <2>1, KeptOfPrefix
<1>3. /\ K[0] = <<>>
      /\ \A i \in 1 .. Len(e) : K[i] = IF e[i] \in S THEN Append(K[i - 1], e[i]) ELSE K[i - 1]
  <2>1. e \in Seq(A)
    BY <1>1
  <2> QED BY <2>1, KeptOfPrefix
<1>4. Filter(e, S) = K[Len(e)] /\ Filter(o, S) = L[Len(o)]
  BY Zenon DEF Filter
<1> HIDE DEF K, L
<1>5. K[1] = IF x \in S THEN Append(K[0], x) ELSE K[0]
  <2>1. 1 \in 1 .. Len(e) /\ 1 - 1 = 0 /\ e[1] = x
    BY <1>1
  <2> QED BY <1>3, <2>1
<1>6. K[1] = IF x \in S THEN e ELSE <<>>
  BY <1>1, <1>3, <1>5 DEF o
<1> QED BY <1>1, <1>2, <1>4, <1>6, Zenon DEF e, o

(* The first element is kept, or not, and the rest after it.                *)
LEMMA FilterTail ==
    ASSUME NEW A, NEW s \in Seq(A), s # <<>>, NEW S
    PROVE  /\ Head(s) \notin S => Filter(Tail(s), S) = Filter(s, S)
           /\ Head(s) \in S => Filter(s, S) = <<Head(s)>> \o Filter(Tail(s), S)
<1> DEFINE x == Head(s)
           e == <<x>>
           t == Tail(s)
           f == Filter(t, S)
<1>1. x \in A /\ t \in Seq(A) /\ s = e \o t /\ e \in Seq(A)
  BY HeadTailProperties
<1>2. Filter(e, S) = IF x \in S THEN e ELSE <<>>
  BY <1>1, FilterOfOne, Zenon
<1> HIDE DEF x, t, e
<1>3. Filter(e \o t, S) = Filter(e, S) \o f
  <2>1. e \in Seq(A) /\ t \in Seq(A)
    BY <1>1
  <2> QED BY <2>1, FilterConcat
<1>4. f \in Seq(A \cap S)
  BY <1>1, FilterIs, Zenon
<1> HIDE DEF f
<1>5. <<>> \o f = f
  BY <1>4, ConcatEmptySeq
<1>6. x \notin S => Filter(s, S) = f
  BY <1>1, <1>2, <1>3, <1>5
<1>7. x \in S => Filter(s, S) = e \o f
  BY <1>1, <1>2, <1>3
<1> QED BY <1>6, <1>7 DEF x, t, e, f

(* One element more.                                                        *)
LEMMA FilterAppend ==
    ASSUME NEW A, NEW s \in Seq(A), NEW x \in A, NEW S
    PROVE  Filter(Append(s, x), S) = IF x \in S THEN Append(Filter(s, S), x) ELSE Filter(s, S)
<1> DEFINE e == <<x>>
           f == Filter(s, S)
<1>1. e \in Seq(A) /\ Append(s, x) = s \o e
  OBVIOUS
<1>2. Filter(e, S) = IF x \in S THEN e ELSE <<>>
  BY FilterOfOne, Zenon
<1> HIDE DEF e
<1>3. Filter(s \o e, S) = f \o Filter(e, S)
  <2>1. e \in Seq(A)
    BY <1>1
  <2> QED BY <2>1, FilterConcat
<1>4. f \in Seq(A \cap S)
  BY FilterIs, Zenon
<1> HIDE DEF f
<1>5. f \in Seq(A)
  BY <1>4, SeqOfPart, Zenon
<1>6. f \o <<>> = f /\ f \o e = Append(f, x)
  BY <1>5, ConcatEmptySeq DEF e
<1> QED BY <1>1, <1>2, <1>3, <1>6 DEF f

(* A list of which everything passes.                                       *)
LEMMA FilterAll ==
    ASSUME NEW A, NEW S, NEW s \in Seq(A), \A i \in 1 .. Len(s) : s[i] \in S
    PROVE  Filter(s, S) = s
<1> DEFINE K == Kept(s, S)
           n == Len(s)
           P(i) == SubSeq(s, 1, i)
<1>1. /\ K[0] = <<>>
      /\ \A i \in 1 .. n : K[i] = IF s[i] \in S THEN Append(K[i - 1], s[i]) ELSE K[i - 1]
  BY KeptOfPrefix
<1>2. Filter(s, S) = K[n]
  BY Zenon DEF Filter
<1> HIDE DEF K
<1>3. n \in Nat /\ P(0) = <<>> /\ P(n) = s
  BY SubSeqEmpty, SubSeqFull
<1>4. \A i \in 0 .. n - 1 : P(i + 1) = Append(P(i), s[i + 1])
  OBVIOUS
<1> HIDE DEF P, n
<1>5. ASSUME NEW i \in 0 .. n - 1, K[i] = P(i) PROVE K[i + 1] = P(i + 1)
  <2>1. i + 1 \in 1 .. n /\ (i + 1) - 1 = i
    BY <1>3
  <2>2. s[i + 1] \in S
    BY <2>1 DEF n
  <2>3. K[i + 1] = Append(K[i], s[i + 1])
    BY <1>1, <2>1, <2>2
  <2> QED BY <1>4, <1>5, <2>3, Zenon
<1> DEFINE T == {i \in 0 .. n : K[i] = P(i)}
<1>6. 0 \in T
  BY <1>1, <1>3
<1>7. \A i \in 0 .. n - 1 : i \in T => i + 1 \in T
  <2>1. \A i \in 0 .. n - 1 : i + 1 \in 0 .. n
    BY <1>3
  <2> QED BY <1>5, <2>1, Zenon
<1>8. n \in T
  <2> HIDE DEF T
  <2>1. \A i \in 0 .. n : i \in T
    BY <1>3, <1>6, <1>7, UpTo, Zenon
  <2>2. n \in 0 .. n
    BY <1>3
  <2> QED BY <2>1, <2>2, Zenon
<1> QED BY <1>2, <1>3, <1>8

(* Of a list of which nothing passes, nothing is kept.                      *)
LEMMA FilterNone ==
    ASSUME NEW A, NEW S, NEW s \in Seq(A), \A i \in 1 .. Len(s) : s[i] \notin S
    PROVE  Filter(s, S) = <<>>
<1> DEFINE f == Filter(s, S)
<1>1. ToSet(f) = ToSet(s) \cap S /\ f \in Seq(A \cap S)
  BY FilterIs, Zenon
<1> HIDE DEF f
<1>2. ToSet(s) \cap S = {}
  BY DEF ToSet
<1>3. \A i \in DOMAIN f : f[i] \in ToSet(f)
  BY DEF ToSet
<1>4. Len(f) \in Nat /\ DOMAIN f = 1 .. Len(f)
  BY <1>1, LenProperties
<1>5. Len(f) = 0
  BY <1>1, <1>2, <1>3, <1>4
<1> QED BY <1>1, <1>5, EmptySeq DEF f
=============================================================================
