---------------------------- MODULE ListsProofs -----------------------------
(***************************************************************************)
(* What dropping elements from a list returns, for every list.  The proof  *)
(* is an induction over the length, by the least counterexample.           *)
(***************************************************************************)
EXTENDS Lists, WellFoundedInduction, TLAPS

\* A set of numbers that is not empty has a least element.
LEMMA LeastExists ==
  ASSUME NEW T, T \subseteq Nat, T # {}
  PROVE  \E x \in T : \A y \in T : x <= y
<1> DEFINE R == {ss \in Nat \X Nat : ss[1] < ss[2]}
<1>1. IsWellFoundedOn(R, Nat)
  BY NatLessThanWellFounded DEF OpToRel
<1> HIDE DEF R
<1>2. PICK x \in T : \A y \in T : ~ (<<y, x>> \in R)
  BY <1>1, WFMin
<1>3. \A y \in T : ~ (y < x)
  BY <1>2 DEF R
<1>4. \A y \in T : x <= y
  BY <1>3
<1> QED
  BY <1>4

\* Induction: a set that has 0, and n + 1 with every n < N it has, is all of 0..N.
LEMMA UpTo ==
  ASSUME NEW N \in Nat, NEW T, 0 \in T,
         \A n \in 0..N : n # N /\ n \in T => n + 1 \in T
  PROVE  0..N \subseteq T
<1> DEFINE Bad == {n \in 0..N : n \notin T}
<1>1. SUFFICES ASSUME Bad # {} PROVE FALSE
  OBVIOUS
<1>2. Bad \subseteq Nat
  OBVIOUS
<1>3. PICK x \in Bad : \A y \in Bad : x <= y
  <2> HIDE DEF Bad
  <2> QED BY <1>1, <1>2, LeastExists
<1>4. x \in 1..N /\ x - 1 \in 0..N /\ x - 1 # N
  BY <1>3
<1>5. x - 1 \in T
  BY <1>3, <1>4
<1> QED
  BY <1>3, <1>4, <1>5

\* The function that Kept is the last value of: Kept goes through the list once.
Keeping(s, K, m, g) ==
  g = [n \in 0..m |-> IF n = 0 THEN <<>>
                      ELSE IF s[n] \in K THEN Append(g[n - 1], s[n]) ELSE g[n - 1]]

LEMMA KeepingAt ==
  ASSUME NEW s, NEW K, NEW m \in Nat, NEW g, Keeping(s, K, m, g)
  PROVE  /\ g[0] = <<>>
         /\ \A n \in 0..m :
              n # 0 => g[n] = IF s[n] \in K THEN Append(g[n - 1], s[n]) ELSE g[n - 1]
<1> DEFINE e(n) == IF s[n] \in K THEN Append(g[n - 1], s[n]) ELSE g[n - 1]
<1>1. g = [n \in 0..m |-> IF n = 0 THEN <<>> ELSE e(n)]
  BY DEF Keeping
<1> HIDE DEF e
<1>2. \A n \in 0..m : g[n] = IF n = 0 THEN <<>> ELSE e(n)
  BY <1>1
<1>3. 0 \in 0..m
  OBVIOUS
<1>4. g[0] = <<>>
  BY <1>2, <1>3, Zenon
<1> QED BY <1>2, <1>4 DEF e

LEMMA KeepingExists ==
  ASSUME NEW s, NEW K, Len(s) \in Nat
  PROVE  \E g : Keeping(s, K, Len(s), g)
<1> DEFINE T == {m \in 0..Len(s) : \E g : Keeping(s, K, m, g)}
<1>1. 0 \in T
  <2>1. Keeping(s, K, 0, [n \in 0..0 |-> <<>>])
    BY DEF Keeping
  <2> QED BY <2>1
<1>2. ASSUME NEW m \in 0..Len(s), m # Len(s), m \in T PROVE m + 1 \in T
  <2>1. PICK g : Keeping(s, K, m, g)
    BY <1>2
  <2> DEFINE e == IF s[m + 1] \in K THEN Append(g[m], s[m + 1]) ELSE g[m]
             h == [n \in 0..(m + 1) |-> IF n = m + 1 THEN e ELSE g[n]]
  <2> HIDE DEF e
  <2>2. \A n \in 0..(m + 1) :
          h[n] = IF n = 0 THEN <<>>
                 ELSE IF s[n] \in K THEN Append(h[n - 1], s[n]) ELSE h[n - 1]
    <3> TAKE n \in 0..(m + 1)
    <3>1. CASE n = m + 1
      <4>1. n # 0 /\ n - 1 = m /\ m \in 0..(m + 1) /\ m # m + 1 
        BY <3>1
      <4>2. h[n] = e /\ h[n - 1] = g[m]
        BY <3>1, <4>1
      <4> QED BY <3>1, <4>1, <4>2 DEF e
    <3>2. CASE n # m + 1
      <4>1. n \in 0..m /\ h[n] = g[n]
        BY <3>2
      <4>2. n # 0 => n - 1 \in 0..(m + 1) /\ n - 1 # m + 1
        BY <3>2
      <4>3. n # 0 => h[n - 1] = g[n - 1]
        BY <4>2
      <4> HIDE DEF h
      <4> QED BY <4>1, <4>3, <2>1 DEF Keeping
    <3> QED BY <3>1, <3>2
  <2>3. h = [n \in 0..(m + 1) |-> h[n]]
    OBVIOUS
  <2> HIDE DEF h
  <2>4. Keeping(s, K, m + 1, h)
    BY <2>2, <2>3 DEF Keeping
  <2>5. m + 1 \in 0..Len(s)
    BY <1>2
  <2> HIDE DEF Keeping
  <2> QED BY <2>4, <2>5
<1> HIDE DEF T
<1>3. 0..Len(s) \subseteq T
  BY <1>1, <1>2, UpTo
<1> QED
  BY <1>3 DEF T

\* What Kept returns: elements of the list that are in K, all of them, no element
\* more often than the list has it, and no list that is longer.
Once(s) == \A i, j \in DOMAIN s : s[i] = s[j] => i = j

LEMMA KeptShape ==
  ASSUME NEW S, NEW s \in Seq(S), NEW K
  PROVE  /\ Kept(s, K) \in Seq(S) /\ Elems(Kept(s, K)) = Elems(s) \cap K
         /\ Len(Kept(s, K)) <= Len(s) /\ (Once(s) => Once(Kept(s, K)))
<1>1. Len(s) \in Nat
  OBVIOUS
<1>d. DOMAIN s = 1..Len(s)
  OBVIOUS
<1> DEFINE f == CHOOSE g : Keeping(s, K, Len(s), g)
<1>2. Keeping(s, K, Len(s), f)
  BY <1>1, KeepingExists
<1>3. Kept(s, K) = f[Len(s)]
  BY DEF Kept, Keeping
<1> HIDE DEF f
<1> DEFINE Some(n) == {s[i] : i \in 1..n}
           Good(n) == /\ f[n] \in Seq(S) /\ Elems(f[n]) = Some(n) \cap K
                      /\ Len(f[n]) <= n /\ (Once(s) => Once(f[n]))
           T == {n \in 0..Len(s) : Good(n)}
<1>t. \A n : n \in T <=> n \in 0..Len(s) /\ Good(n)
  OBVIOUS
<1> HIDE DEF T, Good, Some
<1>4. 0 \in T
  <2>1. f[0] = <<>>
    BY <1>1, <1>2, KeepingAt
  <2>2. Some(0) = {}
    BY DEF Some
  <2>3. /\ <<>> \in Seq(S) /\ Len(<<>>) = 0 /\ DOMAIN <<>> = {}
    OBVIOUS
  <2>4. Elems(<<>>) = {} /\ Once(<<>>)
    BY <2>3 DEF Elems, Once
  <2>5. Good(0)
    BY <2>1, <2>2, <2>3, <2>4 DEF Good
  <2> QED BY <2>5, <1>t, <1>1
<1>5. ASSUME NEW n \in 0..Len(s), n # Len(s), n \in T PROVE n + 1 \in T
  <2>1. n + 1 \in 1..Len(s) /\ (n + 1) - 1 = n /\ n + 1 \in 0..Len(s)
    BY <1>1, <1>5
  <2>2. f[n + 1] = IF s[n + 1] \in K THEN Append(f[n], s[n + 1]) ELSE f[n]
    <3>1. n + 1 # 0
      BY <1>1, <1>5
    <3> QED BY <3>1, <1>1, <1>2, <2>1, KeepingAt
  <2>3. Some(n + 1) = Some(n) \cup {s[n + 1]}
    BY <2>1 DEF Some
  <2>n. n \in Nat /\ \A i \in 1..n : i \in 1..Len(s) /\ i # n + 1
    BY <1>1, <1>5
  <2>4. s[n + 1] \in S /\ (Once(s) => s[n + 1] \notin Some(n))
    BY <1>d, <2>1, <2>n DEF Once, Some
  <2>5. /\ f[n] \in Seq(S) /\ Elems(f[n]) = Some(n) \cap K
        /\ Len(f[n]) <= n /\ (Once(s) => Once(f[n]))
    BY <1>5, <1>t DEF Good
  <2>6. CASE s[n + 1] \notin K
    BY <2>1, <2>2, <2>3, <2>5, <2>6, <2>n, <1>t DEF Good
  <2>7. CASE s[n + 1] \in K
    <3> DEFINE g == f[n]  x == s[n + 1]
    <3>0. g \in Seq(S) /\ x \in S /\ Len(g) \in Nat /\ DOMAIN g = 1..Len(g)
      BY <2>4, <2>5
    <3>1. f[n + 1] = Append(g, x)
      BY <2>2, <2>7
    <3> HIDE DEF g, x
    <3>2. /\ Append(g, x) \in Seq(S) /\ Len(Append(g, x)) = Len(g) + 1
          /\ DOMAIN Append(g, x) = 1..(Len(g) + 1)
          /\ \A i \in 1..Len(g) : Append(g, x)[i] = g[i]
          /\ Append(g, x)[Len(g) + 1] = x
      BY <3>0
    <3>3. Elems(Append(g, x)) = Elems(g) \cup {x}
      BY <3>0, <3>2 DEF Elems
    <3>4. Once(g) /\ x \notin Elems(g) => Once(Append(g, x))
      BY <3>0, <3>2 DEF Elems, Once
    <3>5. Elems(Append(g, x)) = Some(n + 1) \cap K
      BY <3>3, <2>3, <2>5, <2>7 DEF g, x
    <3>6. Once(s) => Once(Append(g, x))
      BY <3>4, <2>4, <2>5 DEF g, x
    <3>7. Len(Append(g, x)) <= n + 1
      BY <3>2, <3>0, <2>5, <2>n DEF g
    <3> QED BY <3>1, <3>2, <3>5, <3>6, <3>7, <2>1, <1>t DEF Good
  <2> QED BY <2>6, <2>7
<1>6. Len(s) \in T
  <2>1. 0..Len(s) \subseteq T
    BY <1>1, <1>4, <1>5, UpTo
  <2>2. Len(s) \in 0..Len(s)
    BY <1>1
  <2> QED BY <2>1, <2>2
<1>7. Some(Len(s)) = Elems(s)
  BY <1>d DEF Elems, Some
<1> QED
  BY <1>3, <1>6, <1>7, <1>t DEF Good

\* Kept goes through the list once.
LEMMA KeptLoop ==
  ASSUME NEW s, NEW K, Len(s) \in Nat
  PROVE  \E f : /\ Kept(s, K) = f[Len(s)] /\ f[0] = <<>>
                /\ \A n \in 0..Len(s) : n # 0 =>
                     f[n] = IF s[n] \in K THEN Append(f[n - 1], s[n]) ELSE f[n - 1]
<1>0. Len(s) \in Nat
  OBVIOUS
<1> DEFINE f == CHOOSE g : Keeping(s, K, Len(s), g)
<1>1. Keeping(s, K, Len(s), f)
  BY KeepingExists
<1>2. Kept(s, K) = f[Len(s)]
  BY DEF Kept, Keeping
<1> HIDE DEF f
<1>3. /\ f[0] = <<>>
      /\ \A n \in 0..Len(s) :
           n # 0 => f[n] = IF s[n] \in K THEN Append(f[n - 1], s[n]) ELSE f[n - 1]
  BY <1>0, <1>1, KeepingAt
<1> QED BY <1>2, <1>3

\* A list of elements of K is kept as it is.
LEMMA KeptAll ==
  ASSUME NEW S, NEW s \in Seq(S), NEW K, Elems(s) \subseteq K
  PROVE  Kept(s, K) = s
<1>1. Len(s) \in Nat
  OBVIOUS
<1>d. DOMAIN s = 1..Len(s) /\ s \in [1..Len(s) -> S]
  OBVIOUS
<1>2. PICK f : /\ Kept(s, K) = f[Len(s)] /\ f[0] = <<>>
               /\ \A n \in 0..Len(s) : n # 0 =>
                    f[n] = IF s[n] \in K THEN Append(f[n - 1], s[n]) ELSE f[n - 1]
  BY <1>1, KeptLoop
<1> DEFINE Good(n) == f[n] \in Seq(S) /\ Len(f[n]) = n /\ \A i \in 1..n : f[n][i] = s[i]
           T == {n \in 0..Len(s) : Good(n)}
<1>t. \A n : n \in T <=> n \in 0..Len(s) /\ Good(n)
  OBVIOUS
<1> HIDE DEF T, Good
<1>4. 0 \in T
  <2>1. f[0] = <<>>
    BY <1>2
  <2>2. <<>> \in Seq(S) /\ Len(<<>>) = 0
    OBVIOUS
  <2>3. Good(0)
    BY <2>1, <2>2 DEF Good
  <2> QED BY <2>3, <1>t, <1>1
<1>5. ASSUME NEW n \in 0..Len(s), n # Len(s), n \in T PROVE n + 1 \in T
  <2>1. n + 1 \in 1..Len(s) /\ (n + 1) - 1 = n /\ n + 1 \in 0..Len(s)
    BY <1>1, <1>5
  <2>n. n + 1 # 0 /\ n \in Nat
    BY <1>1, <1>5
  <2>2. s[n + 1] \in K /\ s[n + 1] \in S
    BY <1>d, <2>1 DEF Elems
  <2>3. f[n + 1] = Append(f[n], s[n + 1])
    BY <1>2, <2>1, <2>2, <2>n
  <2> DEFINE g == f[n]  x == s[n + 1]
  <2>4. g \in Seq(S) /\ Len(g) = n /\ \A i \in 1..n : g[i] = s[i]
    BY <1>5, <1>t DEF Good
  <2>5. x \in S /\ f[n + 1] = Append(g, x)
    BY <2>2, <2>3
  <2> HIDE DEF g
  <2>6. /\ Append(g, x) \in Seq(S) /\ Len(Append(g, x)) = n + 1
        /\ \A i \in 1..n : Append(g, x)[i] = g[i]
        /\ Append(g, x)[n + 1] = x
    BY <2>n, <2>4, <2>5
  <2>7. \A i \in 1..(n + 1) : Append(g, x)[i] = s[i]
    <3> TAKE i \in 1..(n + 1)
    <3>1. i = n + 1 \/ i \in 1..n
      BY <2>n
    <3> QED BY <3>1, <2>4, <2>6
  <2>8. Good(n + 1)
    BY <2>5, <2>6, <2>7 DEF Good
  <2> QED BY <2>8, <2>1, <1>t
<1>6. Len(s) \in T
  <2>1. 0..Len(s) \subseteq T
    BY <1>1, <1>4, <1>5, UpTo
  <2>2. Len(s) \in 0..Len(s)
    BY <1>1
  <2> QED BY <2>1, <2>2
<1> DEFINE g == f[Len(s)]
<1>7. g \in Seq(S) /\ Len(g) = Len(s) /\ \A i \in 1..Len(s) : g[i] = s[i]
  BY <1>6, <1>t DEF Good
<1> HIDE DEF g
<1>8. g = s
  <2>1. g \in [1..Len(s) -> S]
    BY <1>7
  <2> QED BY <1>d, <1>7, <2>1
<1> QED BY <1>2, <1>8 DEF g

LEMMA ElemsConcat ==
  ASSUME NEW S, NEW s \in Seq(S), NEW t \in Seq(S)
  PROVE  /\ s \o t \in Seq(S) /\ Elems(s \o t) = Elems(s) \cup Elems(t)
         /\ s # <<>> \/ t # <<>> => s \o t # <<>>
<1>1. /\ s \o t \in Seq(S) /\ Len(s \o t) = Len(s) + Len(t)
      /\ Len(s) \in Nat /\ Len(t) \in Nat
  OBVIOUS
<1>2. \A i \in DOMAIN s : i \in DOMAIN (s \o t) /\ (s \o t)[i] = s[i]
  OBVIOUS
<1>3. \A i \in DOMAIN t : Len(s) + i \in DOMAIN (s \o t) /\ (s \o t)[Len(s) + i] = t[i]
  OBVIOUS
<1>4. ASSUME NEW i \in DOMAIN (s \o t), i \notin DOMAIN s
      PROVE  \E j \in DOMAIN t : i = Len(s) + j
  <2>1. i \in Nat /\ i > Len(s) /\ i <= Len(s) + Len(t)
    BY <1>1, <1>4
  <2>2. i - Len(s) \in DOMAIN t /\ i = Len(s) + (i - Len(s))
    BY <1>1, <2>1
  <2> QED BY <2>2
<1>5. Elems(s) \cup Elems(t) \subseteq Elems(s \o t)
  BY <1>2, <1>3 DEF Elems
<1>6. Elems(s \o t) \subseteq Elems(s) \cup Elems(t)
  BY <1>2, <1>3, <1>4 DEF Elems
<1>7. s # <<>> \/ t # <<>> => s \o t # <<>>
  BY <1>1
<1> QED
  BY <1>1, <1>5, <1>6, <1>7

LEMMA ElemsTail ==
  ASSUME NEW S, NEW s \in Seq(S), s # <<>>
  PROVE  /\ Head(s) \in S /\ Tail(s) \in Seq(S)
         /\ Elems(s) = {Head(s)} \cup Elems(Tail(s))
         /\ Len(s) > 1 <=> Tail(s) # <<>>
         /\ Len(Tail(s)) = Len(s) - 1
<1>1. /\ Len(s) \in Nat /\ Len(s) >= 1 /\ Head(s) = s[1]
      /\ Tail(s) \in Seq(S) /\ Len(Tail(s)) = Len(s) - 1
  OBVIOUS
<1>2. 1 \in DOMAIN s /\ Head(s) \in S
  BY <1>1
<1>3. \A i \in DOMAIN Tail(s) : i + 1 \in DOMAIN s /\ Tail(s)[i] = s[i + 1]
  OBVIOUS
<1>4. ASSUME NEW i \in DOMAIN s, i # 1
      PROVE  \E j \in DOMAIN Tail(s) : i = j + 1
  <2>1. i - 1 \in DOMAIN Tail(s) /\ i = (i - 1) + 1
    BY <1>4
  <2> QED BY <2>1
<1>5. Elems(s) \subseteq {Head(s)} \cup Elems(Tail(s))
  BY <1>1, <1>3, <1>4 DEF Elems
<1>6. {Head(s)} \cup Elems(Tail(s)) \subseteq Elems(s)
  BY <1>1, <1>2, <1>3 DEF Elems
<1>7. Len(s) > 1 <=> Tail(s) # <<>>
  BY <1>1
<1> QED
  BY <1>1, <1>2, <1>5, <1>6, <1>7

LEMMA TailAt ==
  ASSUME NEW S, NEW s \in Seq(S), s # <<>>
  PROVE  /\ Head(s) = s[1] /\ 1 \in DOMAIN s /\ Len(s) \in DOMAIN s
         /\ \A i \in DOMAIN Tail(s) : i + 1 \in DOMAIN s /\ Tail(s)[i] = s[i + 1]
         /\ Tail(s) # <<>> => Tail(s)[Len(Tail(s))] = s[Len(s)]
<1>1. /\ Len(s) \in Nat /\ Len(s) >= 1 /\ DOMAIN s = 1..Len(s) /\ Head(s) = s[1]
      /\ Tail(s) \in Seq(S) /\ Len(Tail(s)) = Len(s) - 1
  OBVIOUS
<1>2. \A i \in DOMAIN Tail(s) : i + 1 \in DOMAIN s /\ Tail(s)[i] = s[i + 1]
  OBVIOUS
<1>3. Tail(s) # <<>> => Len(Tail(s)) \in DOMAIN Tail(s)
  BY <1>1
<1> QED BY <1>1, <1>2, <1>3

\* A list with one more element.
LEMMA OneMore ==
  ASSUME NEW S, NEW s \in Seq(S), NEW x \in S
  PROVE  /\ s \o <<x>> \in Seq(S) /\ s \o <<x>> # <<>>
         /\ Len(s \o <<x>>) = Len(s) + 1
         /\ (s \o <<x>>)[Len(s) + 1] = x
         /\ \A i \in 1..Len(s) : (s \o <<x>>)[i] = s[i]
         /\ Append(s, x) = s \o <<x>>
<1>1. Len(s) \in Nat /\ <<x>> \in Seq(S) /\ Len(<<x>>) = 1 /\ <<x>>[1] = x
  OBVIOUS
<1>2. s \o <<x>> \in Seq(S) /\ Len(s \o <<x>>) = Len(s) + 1
  BY <1>1
<1> QED BY <1>1, <1>2

LEMMA OnceConcat ==
  ASSUME NEW S, NEW s \in Seq(S), NEW t \in Seq(S), Once(s), Once(t),
         Elems(s) \cap Elems(t) = {}
  PROVE  Once(s \o t)
<1> DEFINE u == s \o t
<1>1. /\ Len(s) \in Nat /\ Len(t) \in Nat /\ DOMAIN u = 1..(Len(s) + Len(t))
      /\ \A i \in 1..Len(s) : i \in DOMAIN s /\ u[i] = s[i]
      /\ \A i \in (Len(s) + 1)..(Len(s) + Len(t)) :
           i - Len(s) \in DOMAIN t /\ u[i] = t[i - Len(s)]
  OBVIOUS
<1> HIDE DEF u
<1>2. ASSUME NEW i \in DOMAIN u, NEW j \in DOMAIN u, u[i] = u[j] PROVE i = j
  <2>1. \A k \in DOMAIN u : k \in 1..Len(s) \/ k \in (Len(s) + 1)..(Len(s) + Len(t))
    BY <1>1
  <2>2. \A k \in 1..Len(s) : u[k] \in Elems(s)
    BY <1>1 DEF Elems
  <2>3. \A k \in (Len(s) + 1)..(Len(s) + Len(t)) : u[k] \in Elems(t)
    BY <1>1 DEF Elems
  <2>4. CASE i \in 1..Len(s) /\ j \in 1..Len(s)
    BY <2>4, <1>1, <1>2 DEF Once
  <2>5. CASE i \in (Len(s) + 1)..(Len(s) + Len(t)) /\ j \in (Len(s) + 1)..(Len(s) + Len(t))
    <3>1. i - Len(s) = j - Len(s)
      BY <2>5, <1>1, <1>2 DEF Once
    <3> QED BY <3>1, <2>5, <1>1
  <2> QED BY <2>1, <2>2, <2>3, <2>4, <2>5, <1>2
<1> QED BY <1>2 DEF Once, u

LEMMA EmptyList == \A S : <<>> \in Seq(S)
OBVIOUS

LEMMA ElemsShort ==
  /\ Elems(<<>>) = {}
  /\ \A a : Elems(<<a>>) = {a}
  /\ \A a, b : Elems(<<a, b>>) = {a, b}
  /\ \A a, b, c : Elems(<<a, b, c>>) = {a, b, c}
BY DEF Elems

LEMMA ElemsOneMore ==
  ASSUME NEW S, NEW s \in Seq(S), NEW x \in S
  PROVE  Elems(s \o <<x>>) = Elems(s) \cup {x}
<1>1. Elems(<<x>>) = {x}
  BY ElemsShort
<1>2. <<x>> \in Seq(S)
  OBVIOUS
<1>3. Elems(s \o <<x>>) = Elems(s) \cup Elems(<<x>>)
  BY <1>2, ElemsConcat
<1> QED BY <1>1, <1>3
=============================================================================
