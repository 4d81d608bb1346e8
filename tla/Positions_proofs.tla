-------------------------- MODULE Positions_proofs ---------------------------
(***************************************************************************)
(* Lemmas about sequences: what is selected from one, removed from one and *)
(* appended to one, and the sequence of a set.                             *)
(***************************************************************************)
EXTENDS Positions, Functions, SequencesExt, FiniteSetTheorems, WellFoundedInduction, TLAPS

-----------------------------------------------------------------------------
(* Positions of a sequence. *)

\* A set of numbers that has one has a smallest one.
LEMMA SmallestIn ==
    ASSUME NEW T, T \subseteq Nat, T # {}
    PROVE  \E x \in T : \A y \in T : x <= y
<1>1. PICK x \in T : \A y \in T : <<y, x>> \notin OpToRel(<, Nat)
  BY WFMin, NatLessThanWellFounded, Zenon
<1>2. \A y \in T : ~ (y < x)
  BY <1>1, Zenon DEF OpToRel
<1> QED BY <1>2

\* Induction, over a set.
LEMMA AllNumbersIn ==
    ASSUME NEW T, 0 \in T, \A n \in Nat : n \in T => n + 1 \in T
    PROVE  Nat \subseteq T
<1>1. SUFFICES ASSUME Nat \ T # {} PROVE FALSE
  OBVIOUS
<1>2. PICK x \in Nat \ T : \A y \in Nat \ T : x <= y
  BY <1>1, SmallestIn
<1>3. x # 0 /\ x - 1 \in Nat /\ ~ (x <= x - 1)
  BY <1>2
<1>4. x - 1 \in T
  BY <1>2, <1>3
<1> QED BY <1>2, <1>3, <1>4

\* The function that SelectPositions reads, of every length it is asked of.
UpTo(s, at, k, f) ==
    f = [n \in 0..k |-> IF n = 0 THEN <<>>
                        ELSE IF n \in at THEN Append(f[n - 1], s[n]) ELSE f[n - 1]]
LEMMA UpToIsThere ==
    ASSUME NEW s, NEW at, NEW k \in Nat
    PROVE  \E f : UpTo(s, at, k, f)
<1> DEFINE T == {n \in Nat : \E f : UpTo(s, at, n, f)}
<1>1. 0 \in T
  <2> DEFINE f == [n \in 0..0 |-> <<>>]
  <2>1. UpTo(s, at, 0, f)
    BY DEF UpTo
  <2> QED BY <2>1
<1>2. ASSUME NEW n \in Nat, n \in T PROVE n + 1 \in T
  <2>1. PICK f : UpTo(s, at, n, f)
    BY <1>2
  <2> DEFINE g == [i \in 0..n + 1 |-> IF i = 0 THEN <<>>
                        ELSE IF i \in at THEN Append(f[i - 1], s[i]) ELSE f[i - 1]]
  <2>2. ASSUME NEW i \in 0..n PROVE g[i] = f[i]
    <3> DEFINE v == IF i = 0 THEN <<>>
                    ELSE IF i \in at THEN Append(f[i - 1], s[i]) ELSE f[i - 1]
    <3>1. f[i] = v
      BY <2>1, Zenon DEF UpTo
    <3>2. i \in 0..n + 1
      OBVIOUS
    <3>3. g[i] = v
      BY <3>2, Zenon
    <3> QED BY <3>1, <3>3, Zenon
  <2>3. ASSUME NEW i \in 0..n + 1, i # 0 PROVE g[i - 1] = f[i - 1]
    <3>1. i - 1 \in 0..n
      BY <2>3
    <3> QED BY <3>1, <2>2, Zenon
  <2> HIDE DEF g
  <2>4. g = [i \in 0..n + 1 |-> IF i = 0 THEN <<>>
                        ELSE IF i \in at THEN Append(g[i - 1], s[i]) ELSE g[i - 1]]
    BY <2>3 DEF g
  <2>5. UpTo(s, at, n + 1, g)
    BY <2>4, Zenon DEF UpTo
  <2> QED BY <2>5
<1>3. Nat \subseteq T
  <2> HIDE DEF T
  <2> QED BY <1>1, <1>2, AllNumbersIn
<1> QED BY <1>3

LEMMA SelectPositionsIs ==
    ASSUME NEW s, NEW at, Len(s) \in Nat
    PROVE  \E f : UpTo(s, at, Len(s), f) /\ SelectPositions(s, at) = f[Len(s)]
<1> DEFINE f == CHOOSE g : UpTo(s, at, Len(s), g)
<1>1. UpTo(s, at, Len(s), f)
  <2>1. \E g : UpTo(s, at, Len(s), g)
    BY UpToIsThere
  <2> QED BY <2>1, Zenon
<1>2. SelectPositions(s, at) = f[Len(s)]
  BY Zenon DEF SelectPositions, UpTo
<1> QED BY <1>1, <1>2, Zenon

\* A sequence of what is at these of the first n positions, each once, in
\* their order: h says which.
Selected(S, s, at, n, r, h) ==
    /\ r \in Seq(S) /\ h \in [1..Len(r) -> 1..n]
    /\ \A m \in 1..Len(r) : h[m] \in at /\ r[m] = s[h[m]]
    /\ \A m, k \in 1..Len(r) : m < k => h[m] < h[k]
    /\ \A i \in 1..n : i \in at => \E m \in 1..Len(r) : h[m] = i
LEMMA SelectedMore ==
    ASSUME NEW S, NEW s \in Seq(S), NEW at, NEW n \in Nat, n + 1 <= Len(s),
           NEW r, NEW h, Selected(S, s, at, n, r, h)
    PROVE  /\ n + 1 \in at => \E g : Selected(S, s, at, n + 1, Append(r, s[n + 1]), g)
           /\ n + 1 \notin at => \E g : Selected(S, s, at, n + 1, r, g)
<1>1. ASSUME n + 1 \in at PROVE \E g : Selected(S, s, at, n + 1, Append(r, s[n + 1]), g)
  <2> DEFINE L == Len(r) + 1
             q == Append(r, s[n + 1])
             g == [m \in 1..L |-> IF m = L THEN n + 1 ELSE h[m]]
  <2>1. q \in Seq(S) /\ Len(q) = L /\ q[L] = s[n + 1] /\ \A m \in 1..Len(r) : q[m] = r[m]
    BY DEF Selected
  <2>2. g \in [1..L -> 1..n + 1] /\ g[L] = n + 1 /\ \A m \in 1..Len(r) : g[m] = h[m]
    BY DEF Selected
  <2>3. L \in Nat /\ Len(r) \in Nat /\ 1..L = 1..Len(r) \cup {L}
    BY DEF Selected
  <2> HIDE DEF q, g, L
  <2>4. \A m \in 1..L : g[m] \in at /\ q[m] = s[g[m]]
    BY <1>1, <2>1, <2>2, <2>3 DEF Selected
  <2>5. \A m, k \in 1..L : m < k => g[m] < g[k]
    <3>1. L = Len(r) + 1
      BY DEF L
    <3>2. \A m \in 1..Len(r) : h[m] \in 1..n
      BY DEF Selected
    <3> QED BY <2>2, <2>3, <3>1, <3>2 DEF Selected
  <2>6. \A i \in 1..n + 1 : i \in at => \E m \in 1..L : g[m] = i
    <3> SUFFICES ASSUME NEW i \in 1..n + 1, i \in at PROVE \E m \in 1..L : g[m] = i
      OBVIOUS
    <3>1. CASE i = n + 1
      BY <3>1, <2>2, <2>3
    <3>2. CASE i # n + 1
      <4>1. PICK m \in 1..Len(r) : h[m] = i
        BY <3>2 DEF Selected
      <4> QED BY <4>1, <2>2, <2>3
    <3> QED BY <3>1, <3>2
  <2>7. Selected(S, s, at, n + 1, q, g)
    BY <2>1, <2>2, <2>4, <2>5, <2>6 DEF Selected
  <2> QED BY <2>7 DEF q
<1>2. ASSUME n + 1 \notin at PROVE Selected(S, s, at, n + 1, r, h)
  BY <1>2 DEF Selected
<1> QED BY <1>1, <1>2

\* What SelectPositions selects.
LEMMA Selects ==
    ASSUME NEW S, NEW s \in Seq(S), NEW at
    PROVE  \E h : Selected(S, s, at, Len(s), SelectPositions(s, at), h)
<1>1. PICK f : UpTo(s, at, Len(s), f) /\ SelectPositions(s, at) = f[Len(s)]
  BY SelectPositionsIs
<1>2. f[0] = <<>>
  <2>1. 0 \in 0..Len(s)
    OBVIOUS
  <2> QED BY <1>1, <2>1, Zenon DEF UpTo
<1>3. ASSUME NEW n \in Nat, n + 1 <= Len(s)
      PROVE  f[n + 1] = IF n + 1 \in at THEN Append(f[n], s[n + 1]) ELSE f[n]
  <2> DEFINE k == n + 1
  <2>1. k \in 0..Len(s) /\ k # 0 /\ k - 1 = n
    BY <1>3
  <2> HIDE DEF k
  <2>2. f[k] = IF k \in at THEN Append(f[k - 1], s[k]) ELSE f[k - 1]
    BY <2>1, <1>1, Zenon DEF UpTo
  <2> QED BY <2>1, <2>2 DEF k
<1> DEFINE T == {n \in Nat : n <= Len(s) => \E h : Selected(S, s, at, n, f[n], h)}
<1>4. 0 \in T
  <2> DEFINE h == [m \in 1..0 |-> 0]
  <2>1. h \in [1..0 -> 1..0]
    OBVIOUS
  <2> HIDE DEF h
  <2>2. Selected(S, s, at, 0, f[0], h)
    BY <1>2, <2>1 DEF Selected
  <2> QED BY <2>2
<1>5. ASSUME NEW n \in Nat, n \in T PROVE n + 1 \in T
  <2> SUFFICES ASSUME n + 1 <= Len(s) PROVE \E h : Selected(S, s, at, n + 1, f[n + 1], h)
    OBVIOUS
  <2>1. n <= Len(s)
    OBVIOUS
  <2>2. PICK h : Selected(S, s, at, n, f[n], h)
    BY <1>5, <2>1
  <2> HIDE DEF T
  <2> QED BY <2>2, <1>3, SelectedMore
<1>6. Nat \subseteq T
  <2> HIDE DEF T
  <2> QED BY <1>4, <1>5, AllNumbersIn
<1> QED BY <1>1, <1>6

\* Nothing is left out when every position is selected.
LEMMA SelectsAll ==
    ASSUME NEW S, NEW s \in Seq(S), NEW at, 1..Len(s) \subseteq at
    PROVE  SelectPositions(s, at) = s
<1>1. PICK f : UpTo(s, at, Len(s), f) /\ SelectPositions(s, at) = f[Len(s)]
  BY SelectPositionsIs
<1>2. f[0] = <<>>
  <2>1. 0 \in 0..Len(s)
    OBVIOUS
  <2> QED BY <1>1, <2>1, Zenon DEF UpTo
<1>3. ASSUME NEW n \in Nat, n + 1 <= Len(s)
      PROVE  f[n + 1] = Append(f[n], s[n + 1])
  <2> DEFINE k == n + 1
  <2>1. k \in 0..Len(s) /\ k # 0 /\ k - 1 = n /\ k \in at
    BY <1>3
  <2> HIDE DEF k
  <2>2. f[k] = IF k \in at THEN Append(f[k - 1], s[k]) ELSE f[k - 1]
    BY <2>1, <1>1, Zenon DEF UpTo
  <2> QED BY <2>1, <2>2 DEF k
<1> DEFINE T == {n \in Nat : n <= Len(s) => /\ f[n] \in Seq(S) /\ Len(f[n]) = n
                                            /\ \A i \in 1..n : f[n][i] = s[i]}
<1>4. 0 \in T
  <2>1. <<>> \in Seq(S) /\ Len(<<>>) = 0 /\ \A i \in 1..0 : <<>>[i] = s[i]
    OBVIOUS
  <2> QED BY <2>1, <1>2
<1>5. ASSUME NEW n \in Nat, n \in T PROVE n + 1 \in T
  <2> SUFFICES ASSUME n + 1 <= Len(s)
               PROVE  /\ f[n + 1] \in Seq(S) /\ Len(f[n + 1]) = n + 1
                      /\ \A i \in 1..(n + 1) : f[n + 1][i] = s[i]
    OBVIOUS
  <2>1. n <= Len(s) /\ s[n + 1] \in S
    OBVIOUS
  <2>2. f[n] \in Seq(S) /\ Len(f[n]) = n /\ \A i \in 1..n : f[n][i] = s[i]
    BY <1>5, <2>1
  <2> DEFINE a == f[n]
             x == s[n + 1]
  <2> HIDE DEF T, a, x
  <2>3. a \in Seq(S) /\ Len(a) = n /\ \A i \in 1..n : a[i] = s[i]
    BY <2>2 DEF a
  <2>4. /\ Append(a, x) \in Seq(S) /\ Len(Append(a, x)) = n + 1
        /\ Append(a, x)[n + 1] = x /\ \A i \in 1..n : Append(a, x)[i] = a[i]
    BY <2>1, <2>3 DEF x
  <2>5. f[n + 1] = Append(a, x)
    BY <1>3 DEF a, x
  <2> QED BY <2>3, <2>4, <2>5 DEF x
<1>6. Nat \subseteq T
  <2> HIDE DEF T
  <2> QED BY <1>4, <1>5, AllNumbersIn
<1> DEFINE r == f[Len(s)]
<1>7. r \in Seq(S) /\ Len(r) = Len(s) /\ \A i \in 1..Len(s) : r[i] = s[i]
  BY <1>6
<1> HIDE DEF r
<1>8. r = s
  BY <1>7
<1> QED BY <1>1, <1>8 DEF r

LEMMA SelectsNone ==
    ASSUME NEW at
    PROVE  SelectPositions(<<>>, at) = <<>>
<1>0. <<>> \in Seq({})
  OBVIOUS
<1>1. PICK h : Selected({}, <<>>, at, Len(<<>>), SelectPositions(<<>>, at), h)
  BY <1>0, Selects
<1> DEFINE r == SelectPositions(<<>>, at)
<1> HIDE DEF r
<1>2. r \in Seq({})
  BY <1>1 DEF Selected, r
<1> QED BY <1>2 DEF r

\* What is left of a sequence without one of its elements.
LEMMA Removed ==
    ASSUME NEW S, NEW s \in Seq(S), NEW i \in 1..Len(s)
    PROVE  /\ RemoveAt(s, i) \in Seq(S) /\ Len(RemoveAt(s, i)) = Len(s) - 1
           /\ \A j \in 1..(Len(s) - 1) : RemoveAt(s, i)[j] = IF j < i THEN s[j] ELSE s[j + 1]
<1> DEFINE b == SubSeq(s, 1, i - 1)
           e == SubSeq(s, i + 1, Len(s))
           n == Len(s) - 1
           r == b \o e
<1>1. b \in Seq(S) /\ Len(b) = i - 1 /\ \A j \in 1..(i - 1) : b[j] = s[j]
  OBVIOUS
<1>2. e \in Seq(S) /\ Len(e) = Len(s) - i /\ \A j \in 1..(Len(s) - i) : e[j] = s[j + i]
  OBVIOUS
<1> HIDE DEF b, e
<1>3. r \in Seq(S) /\ Len(r) = n
  <2>0. b \in Seq(S) /\ e \in Seq(S)
    BY <1>1, <1>2
  <2>1. r \in Seq(S) /\ Len(r) = Len(b) + Len(e)
    BY <2>0
  <2>2. Len(b) + Len(e) = n
    BY <1>1, <1>2
  <2> QED BY <2>1, <2>2
<1>4. \A j \in 1..n : r[j] = IF j < i THEN s[j] ELSE s[j + 1]
  <2>1. \A j \in 1..(Len(b) + Len(e)) : r[j] = IF j <= Len(b) THEN b[j] ELSE e[j - Len(b)]
    BY <1>1, <1>2
  <2>2. Len(b) + Len(e) = n
    BY <1>1, <1>2
  <2> SUFFICES ASSUME NEW j \in 1..n PROVE r[j] = IF j < i THEN s[j] ELSE s[j + 1]
    OBVIOUS
  <2>3. r[j] = IF j <= i - 1 THEN b[j] ELSE e[j - (i - 1)]
    BY <2>1, <2>2, <1>1
  <2>4. CASE j < i
    <3>1. j \in 1..(i - 1) /\ j <= i - 1
      BY <2>4
    <3> QED BY <3>1, <2>3, <2>4, <1>1
  <2>5. CASE ~(j < i)
    <3>1. j - (i - 1) \in 1..(Len(s) - i) /\ ~(j <= i - 1) /\ j - (i - 1) + i = j + 1
      BY <2>5
    <3>2. e[j - (i - 1)] = s[j - (i - 1) + i]
      BY <3>1, <1>2
    <3> QED BY <3>1, <3>2, <2>3, <2>5
  <2> QED BY <2>4, <2>5
<1>5. r = RemoveAt(s, i)
  BY DEF b, e, RemoveAt
<1> QED BY <1>3, <1>4, <1>5

-----------------------------------------------------------------------------
(* Sequences that have each element of a set once. *)

EachOnce(s, T) == s \in Seq(T) /\ ToSet(s) = T /\ IsInjective(s)

LEMMA EachOnceBy ==
    ASSUME NEW s, NEW T, NEW n \in Nat, s \in [1..n -> T],
           \A x \in T : \E i \in 1..n : s[i] = x,
           \A i, j \in 1..n : i < j => s[i] # s[j]
    PROVE  EachOnce(s, T)
<1>1. s \in Seq(T) /\ DOMAIN s = 1..n
  OBVIOUS
<1>2. ToSet(s) = T
  BY <1>1 DEF ToSet
<1>3. \A i, j \in 1..n : s[i] = s[j] => i = j
  OBVIOUS
<1>4. IsInjective(s)
  BY <1>1, <1>3 DEF IsInjective
<1> QED BY <1>1, <1>2, <1>4 DEF EachOnce

LEMMA EachOnceGives ==
    ASSUME NEW s, NEW T, EachOnce(s, T)
    PROVE  /\ s \in Seq(T) /\ Len(s) \in Nat /\ DOMAIN s = 1..Len(s)
           /\ s \in [1..Len(s) -> T]
           /\ \A x \in T : \E i \in 1..Len(s) : s[i] = x
           /\ \A i, j \in 1..Len(s) : s[i] = s[j] => i = j
<1>1. s \in Seq(T) /\ Len(s) \in Nat /\ DOMAIN s = 1..Len(s) /\ s \in [1..Len(s) -> T]
  BY DEF EachOnce
<1>2. \A x \in T : \E i \in 1..Len(s) : s[i] = x
  BY <1>1 DEF EachOnce, ToSet
<1>3. \A i, j \in 1..Len(s) : s[i] = s[j] => i = j
  BY <1>1 DEF EachOnce, IsInjective
<1> QED BY <1>1, <1>2, <1>3

LEMMA EachOnceEmpty == EachOnce(<<>>, {})
BY DEF EachOnce, ToSet, IsInjective

LEMMA EachOnceAppend ==
    ASSUME NEW s, NEW T, EachOnce(s, T), NEW x, x \notin T
    PROVE  EachOnce(Append(s, x), T \cup {x})
<1> DEFINE U == T \cup {x}
           n == Len(s) + 1
           r == Append(s, x)
<1>1. s \in Seq(U) /\ Len(s) \in Nat /\ s \in [1..Len(s) -> T]
  BY EachOnceGives
<1>2. n \in Nat /\ 1..n = 1..Len(s) \cup {n} /\ n \notin 1..Len(s)
  BY <1>1
<1>3. r \in [1..n -> U] /\ r[n] = x /\ \A i \in 1..Len(s) : r[i] = s[i]
  <2>1. r \in Seq(U) /\ Len(r) = n
    <3> HIDE DEF U
    <3>1. x \in U
      BY DEF U
    <3> QED BY <3>1, <1>1
  <2>2. r \in [1..n -> U]
    <3> HIDE DEF U, r
    <3> QED BY <2>1
  <2>3. r[n] = x /\ \A i \in 1..Len(s) : r[i] = s[i]
    <3> HIDE DEF U
    <3> QED BY <1>1
  <2> QED BY <2>2, <2>3
<1> HIDE DEF n, r
<1>4. ASSUME NEW y \in U PROVE \E i \in 1..n : r[i] = y
  <2>1. CASE y = x
    BY <2>1, <1>2, <1>3
  <2>2. CASE y # x
    <3>1. PICK i \in 1..Len(s) : s[i] = y
      BY <2>2, EachOnceGives
    <3> QED BY <3>1, <1>2, <1>3
  <2> QED BY <2>1, <2>2
<1>5. ASSUME NEW i \in 1..n, NEW j \in 1..n, i < j PROVE r[i] # r[j]
  <2>1. i \in 1..Len(s)
    BY <1>1, <1>5 DEF n
  <2>2. s[i] \in T /\ r[i] = s[i]
    BY <2>1, <1>1, <1>3
  <2>3. CASE j = n
    BY <2>2, <2>3, <1>3
  <2>4. CASE j # n
    <3>1. j \in 1..Len(s) /\ i # j
      BY <2>4, <1>2, <1>5
    <3>2. s[i] # s[j]
      BY <3>1, <2>1, EachOnceGives
    <3> QED BY <3>1, <3>2, <2>2, <1>3
  <2> QED BY <2>3, <2>4
<1>6. EachOnce(r, U)
  <2> HIDE DEF U
  <2> QED BY <1>2, <1>3, <1>4, <1>5, EachOnceBy
<1> QED BY <1>6 DEF r

LEMMA EachOnceOmit ==
    ASSUME NEW s, NEW T, EachOnce(s, T), NEW R
    PROVE  EachOnce(Omit(s, R), T \ R)
<1> DEFINE U == T \ R
           at == {i \in DOMAIN s : s[i] \notin R}
           r == Omit(s, R)
<1>1. s \in Seq(T) /\ Len(s) \in Nat /\ DOMAIN s = 1..Len(s) /\ s \in [1..Len(s) -> T]
  BY EachOnceGives
<1>2. PICK h : Selected(T, s, at, Len(s), r, h)
  BY <1>1, Selects DEF Omit
<1>a. \A i : i \in at <=> i \in 1..Len(s) /\ s[i] \notin R
  BY <1>1
<1> HIDE DEF r, at
<1>3. Len(r) \in Nat /\ r \in [1..Len(r) -> T] /\ h \in [1..Len(r) -> 1..Len(s)]
  BY <1>2 DEF Selected
<1>4. \A m \in 1..Len(r) : h[m] \in at /\ r[m] = s[h[m]]
  BY <1>2 DEF Selected
<1>5. \A m \in 1..Len(r) : r[m] \in T \ R
  BY <1>3, <1>4, <1>a
<1>6. r \in [1..Len(r) -> U]
  BY <1>3, <1>5
<1>7. ASSUME NEW x \in U PROVE \E m \in 1..Len(r) : r[m] = x
  <2>1. PICK i \in 1..Len(s) : s[i] = x
    BY EachOnceGives
  <2>2. i \in at
    BY <2>1, <1>a
  <2>3. PICK m \in 1..Len(r) : h[m] = i
    BY <2>2, <1>2 DEF Selected
  <2> QED BY <2>1, <2>3, <1>4
<1>8. ASSUME NEW m \in 1..Len(r), NEW k \in 1..Len(r), m < k PROVE r[m] # r[k]
  <2>1. h[m] < h[k]
    BY <1>2, <1>8 DEF Selected
  <2>2. h[m] \in 1..Len(s) /\ h[k] \in 1..Len(s) /\ h[m] # h[k]
    BY <2>1, <1>3
  <2>3. s[h[m]] # s[h[k]]
    BY <2>2, EachOnceGives
  <2> QED BY <2>3, <1>4
<1>9. EachOnce(r, U)
  <2> HIDE DEF U
  <2> QED BY <1>3, <1>6, <1>7, <1>8, EachOnceBy
<1> QED BY <1>9 DEF r

LEMMA EachOnceConcat ==
    ASSUME NEW s, NEW T, EachOnce(s, T), NEW t, NEW U, EachOnce(t, U), T \cap U = {}
    PROVE  EachOnce(s \o t, T \cup U)
<1> DEFINE V == T \cup U
           a == Len(s)
           n == Len(s) + Len(t)
           r == s \o t
<1>1. s \in Seq(V) /\ t \in Seq(V) /\ a \in Nat /\ Len(t) \in Nat /\ n \in Nat
  BY EachOnceGives
<1>2. r \in [1..n -> V] /\ \A i \in 1..n : r[i] = IF i <= a THEN s[i] ELSE t[i - a]
  <2> HIDE DEF V
  <2>1. r \in Seq(V) /\ Len(r) = n
    BY <1>1
  <2>2. r \in [1..n -> V]
    <3> HIDE DEF r
    <3> QED BY <2>1
  <2>3. \A i \in 1..n : r[i] = IF i <= a THEN s[i] ELSE t[i - a]
    BY <1>1
  <2> QED BY <2>2, <2>3
<1>3. ASSUME NEW i \in 1..n
      PROVE  \/ i \in 1..a /\ r[i] = s[i] /\ s[i] \in T
             \/ i > a /\ i - a \in 1..Len(t) /\ r[i] = t[i - a] /\ t[i - a] \in U
  <2>1. CASE i <= a
    <3>1. i \in 1..a /\ s \in [1..a -> T]
      BY <2>1, <1>1, EachOnceGives
    <3> QED BY <3>1, <2>1, <1>2
  <2>2. CASE i > a
    <3>1. i - a \in 1..Len(t) /\ t \in [1..Len(t) -> U]
      BY <2>2, <1>1, EachOnceGives
    <3> QED BY <3>1, <2>2, <1>1, <1>2
  <2> QED BY <2>1, <2>2, <1>1
<1>4. \A i \in 1..a : i \in 1..n /\ r[i] = s[i]
  BY <1>1, <1>2
<1>5. \A i \in 1..Len(t) : a + i \in 1..n /\ r[a + i] = t[i]
  BY <1>1, <1>2
<1>6. ASSUME NEW x \in V PROVE \E i \in 1..n : r[i] = x
  <2>1. CASE x \in T
    <3>1. PICK i \in 1..a : s[i] = x
      BY <2>1, EachOnceGives
    <3> QED BY <3>1, <1>4
  <2>2. CASE x \in U
    <3>1. PICK i \in 1..Len(t) : t[i] = x
      BY <2>2, EachOnceGives
    <3> QED BY <3>1, <1>5
  <2> QED BY <2>1, <2>2
<1> HIDE DEF r, n
<1>7. ASSUME NEW i \in 1..n, NEW j \in 1..n, i < j PROVE r[i] # r[j]
  <2>1. CASE i \in 1..a /\ j \in 1..a
    <3>1. s[i] # s[j]
      BY <2>1, <1>7, EachOnceGives
    <3> QED BY <3>1, <2>1, <1>4
  <2>2. CASE i > a /\ j > a
    <3>1. i - a \in 1..Len(t) /\ j - a \in 1..Len(t) /\ r[i] = t[i - a] /\ r[j] = t[j - a]
      BY <2>2, <1>3, <1>1
    <3>2. i - a # j - a
      BY <1>7, <1>1
    <3>3. t[i - a] # t[j - a]
      BY <3>1, <3>2, EachOnceGives
    <3> QED BY <3>1, <3>3
  <2>3. CASE i \in 1..a /\ j > a
    <3>1. r[i] \in T /\ r[j] \in U
      BY <2>3, <1>3, <1>1
    <3> QED BY <3>1
  <2> QED BY <2>1, <2>2, <2>3, <1>3, <1>7, <1>1
<1>8. EachOnce(r, V)
  <2>1. n \in Nat /\ r \in [1..n -> V]
    BY <1>1, <1>2
  <2> HIDE DEF V
  <2> QED BY <2>1, <1>6, <1>7, EachOnceBy
<1> QED BY <1>8 DEF r

\* The one place of x goes.
LEMMA EachOnceRemoveFirst ==
    ASSUME NEW s, NEW T, EachOnce(s, T), NEW x \in T
    PROVE  EachOnce(RemoveFirst(s, x), T \ {x})
<1> DEFINE U == T \ {x}
           n == Len(s) - 1
           r == RemoveFirst(s, x)
<1>1. s \in Seq(T) /\ Len(s) \in Nat /\ s \in [1..Len(s) -> T]
  BY EachOnceGives
<1>2. PICK p \in 1..Len(s) : s[p] = x
  BY EachOnceGives
<1>3. \A i \in 1..Len(s) : s[i] = x => i = p
  BY <1>2, EachOnceGives
<1>4. {i \in 1..Len(s) : s[i] = x} = {p}
  BY <1>2, <1>3
<1>5. Min({p}) = p
  BY <1>2 DEF Min
<1>6. r = RemoveAt(s, p)
  <2>1. SelectInSeq(s, LAMBDA v : v = x) = p
    <3>1. SelectInSeq(s, LAMBDA v : v = x) = IF {p} # {} THEN Min({p}) ELSE 0
      BY <1>4, Zenon DEF SelectInSeq
    <3> QED BY <3>1, <1>5
  <2>2. \E i \in 1..Len(s) : s[i] = x
    BY <1>2
  <2>3. r = RemoveAt(s, SelectInSeq(s, LAMBDA v : v = x))
    BY <2>2, Zenon DEF RemoveFirst
  <2> QED BY <2>1, <2>3, Zenon
<1>8. n \in Nat /\ r \in [1..n -> T] /\ \A i \in 1..n : r[i] = IF i < p THEN s[i] ELSE s[i + 1]
  <2>1. r \in Seq(T) /\ Len(r) = n /\ \A i \in 1..n : r[i] = IF i < p THEN s[i] ELSE s[i + 1]
    BY <1>1, <1>2, <1>6, Removed
  <2>2. n \in Nat
    BY <1>1, <1>2
  <2> HIDE DEF r, n
  <2> QED BY <2>1, <2>2
<1> DEFINE at(i) == IF i < p THEN i ELSE i + 1
<1>9. \A i \in 1..n : at(i) \in 1..Len(s) /\ at(i) # p
  BY <1>1, <1>2
<1>10. \A i, j \in 1..n : i < j => at(i) # at(j)
  BY <1>1, <1>2
<1>11. \A k \in 1..Len(s) : k # p => \E i \in 1..n : at(i) = k
  <2> SUFFICES ASSUME NEW k \in 1..Len(s), k # p PROVE \E i \in 1..n : at(i) = k
    OBVIOUS
  <2>1. CASE k < p
    <3>1. k \in 1..n /\ at(k) = k
      BY <2>1, <1>1, <1>2
    <3> QED BY <3>1
  <2>2. CASE k > p
    <3>1. k - 1 \in 1..n /\ at(k - 1) = k
      BY <2>2, <1>1, <1>2
    <3> QED BY <3>1
  <2> QED BY <2>1, <2>2, <1>2
<1>12. \A i \in 1..n : r[i] = s[at(i)]
  BY <1>8
<1> HIDE DEF n, r, at
<1>13. ASSUME NEW i \in 1..n PROVE r[i] \in U
  <2>1. s[at(i)] \in T /\ s[at(i)] # x
    BY <1>1, <1>3, <1>9
  <2> QED BY <2>1, <1>12
<1>14. r \in [1..n -> U]
  BY <1>8, <1>13
<1>15. ASSUME NEW y \in U PROVE \E i \in 1..n : r[i] = y
  <2>1. PICK k \in 1..Len(s) : s[k] = y
    BY EachOnceGives
  <2>2. k # p
    BY <2>1, <1>2
  <2>3. PICK i \in 1..n : at(i) = k
    BY <2>2, <1>11
  <2> QED BY <2>1, <2>3, <1>12
<1>16. ASSUME NEW i \in 1..n, NEW j \in 1..n, i < j PROVE r[i] # r[j]
  <2>1. at(i) \in 1..Len(s) /\ at(j) \in 1..Len(s) /\ at(i) # at(j)
    BY <1>9, <1>10, <1>16
  <2>2. s[at(i)] # s[at(j)]
    BY <2>1, EachOnceGives
  <2> QED BY <2>2, <1>12
<1>17. EachOnce(r, U)
  <2>1. n \in Nat
    BY <1>8
  <2> HIDE DEF U
  <2> QED BY <2>1, <1>14, <1>15, <1>16, EachOnceBy
<1> QED BY <1>17 DEF r

LEMMA ListedOnce ==
    ASSUME NEW T, IsFiniteSet(T)
    PROVE  /\ SetToSeq(T) \in [1..Cardinality(T) -> T] /\ IsInjective(SetToSeq(T))
           /\ SetToSeq(T) \in Seq(T) /\ Len(SetToSeq(T)) = Cardinality(T)
<1> DEFINE n == Cardinality(T)
           r == SetToSeq(T)
<1>1. n \in Nat /\ ExistsBijection(1..n, T)
  BY FS_CardinalityType
<1>2. PICK f \in Bijection(1..n, T) : TRUE
  BY <1>1, Zenon DEF ExistsBijection
<1> HIDE DEF n
<1>3. f \in [1..n -> T] /\ IsInjective(f)
  BY <1>2 DEF Bijection, Injection, Surjection
<1>4. r \in [1..n -> T] /\ IsInjective(r)
  <2>1. \E g : g \in [1..n -> T] /\ IsInjective(g)
    BY <1>3
  <2> QED BY <2>1, Zenon DEF SetToSeq, n
<1> HIDE DEF r
<1>5. r \in Seq(T) /\ Len(r) = n
  BY <1>1, <1>4
<1> QED BY <1>4, <1>5 DEF r, n

LEMMA EachOnceSetToSeq ==
    ASSUME NEW T, IsFiniteSet(T)
    PROVE  EachOnce(SetToSeq(T), T)
<1> DEFINE n == Cardinality(T)
           r == SetToSeq(T)
<1>1. n \in Nat
  BY FS_CardinalityType
<1>5. r \in [1..n -> T] /\ IsInjective(r)
  BY ListedOnce
<1> HIDE DEF n, r
<1>6. \A i, j \in 1..n : i < j => r[i] # r[j]
  BY <1>5, <1>1 DEF IsInjective
<1>7. \A y \in T : \E i \in 1..n : r[i] = y
  <2>1. r \in Injection(1..n, T)
    BY <1>5, Zenon DEF Injection
  <2>2. Cardinality(1..n) = n
    BY <1>1, FS_Interval
  <2>3. r \in Surjection(1..n, T)
    BY <2>1, <2>2, FS_Injection DEF n
  <2> QED BY <2>3 DEF Surjection
<1>8. EachOnce(r, T)
  BY <1>1, <1>5, <1>6, <1>7, EachOnceBy
<1> QED BY <1>8 DEF r

-----------------------------------------------------------------------------
(* Parts of any sequence. *)

IsSeq(s) == s \in Seq(ToSet(s))

LEMMA IsSeqIs ==
    ASSUME NEW s, NEW T, s \in Seq(T)
    PROVE  IsSeq(s) /\ ToSet(s) \subseteq T /\ Len(s) \in Nat /\ DOMAIN s = 1..Len(s)
<1>1. Len(s) \in Nat /\ DOMAIN s = 1..Len(s) /\ s \in [1..Len(s) -> T]
  OBVIOUS
<1>2. \A i \in 1..Len(s) : s[i] \in ToSet(s) /\ s[i] \in T
  BY <1>1 DEF ToSet
<1>3. s \in [1..Len(s) -> ToSet(s)]
  BY <1>1, <1>2
<1>4. s \in Seq(ToSet(s))
  BY <1>1, <1>3
<1>5. ToSet(s) \subseteq T
  BY <1>1, <1>2 DEF ToSet
<1> QED BY <1>1, <1>4, <1>5 DEF IsSeq

LEMMA SelectsSome ==
    ASSUME NEW s, IsSeq(s), NEW at
    PROVE  IsSeq(SelectPositions(s, at)) /\ ToSet(SelectPositions(s, at)) \subseteq ToSet(s)
<1> DEFINE r == SelectPositions(s, at)
           T == ToSet(s)
<1>1. s \in Seq(T)
  BY DEF IsSeq
<1>2. PICK h : Selected(T, s, at, Len(s), r, h)
  BY <1>1, Selects
<1> HIDE DEF r, T
<1>3. r \in Seq(T)
  BY <1>2 DEF Selected
<1>4. IsSeq(r) /\ ToSet(r) \subseteq T
  BY <1>3, IsSeqIs
<1> QED BY <1>4 DEF r, T

LEMMA OmitsAll ==
    ASSUME NEW s, IsSeq(s), NEW R
    PROVE  IsSeq(Omit(s, R)) /\ ToSet(Omit(s, R)) = ToSet(s) \ R
<1> DEFINE at == {i \in DOMAIN s : s[i] \notin R}
           r == SelectPositions(s, at)
           T == ToSet(s)
<1>1. s \in Seq(T) /\ Len(s) \in Nat /\ DOMAIN s = 1..Len(s)
  BY DEF IsSeq
<1>2. PICK h : Selected(T, s, at, Len(s), r, h)
  BY <1>1, Selects
<1>a. \A i : i \in at <=> i \in 1..Len(s) /\ s[i] \notin R
  BY <1>1
<1>5. IsSeq(r) /\ ToSet(r) \subseteq T
  BY SelectsSome
<1> HIDE DEF r, at
<1>3. \A m \in 1..Len(r) : h[m] \in at /\ r[m] = s[h[m]]
  BY <1>2 DEF Selected
<1>4. DOMAIN r = 1..Len(r)
  BY <1>5 DEF IsSeq
<1>6. \A m \in DOMAIN r : r[m] \notin R
  BY <1>3, <1>4, <1>a
<1>7. ToSet(r) \cap R = {}
  BY <1>6 DEF ToSet
<1>9. ASSUME NEW x \in T, x \notin R PROVE x \in ToSet(r)
  <2>1. PICK i \in 1..Len(s) : s[i] = x
    BY <1>1 DEF ToSet
  <2>2. i \in at
    BY <1>9, <2>1, <1>a
  <2>3. PICK m \in 1..Len(r) : h[m] = i
    BY <2>2, <1>2 DEF Selected
  <2>4. m \in DOMAIN r /\ r[m] = x
    BY <2>1, <2>3, <1>3, <1>4
  <2> QED BY <2>4 DEF ToSet
<1> HIDE DEF T
<1>8. IsSeq(r) /\ ToSet(r) = T \ R
  BY <1>5, <1>7, <1>9
<1> QED BY <1>8 DEF r, T, at, Omit

LEMMA ListedFinite ==
    ASSUME NEW s, IsSeq(s)
    PROVE  IsFiniteSet(ToSet(s))
<1> DEFINE T == ToSet(s)
           D == 1..Len(s)
<1>1. s \in Seq(T) /\ Len(s) \in Nat /\ s \in [D -> T] /\ DOMAIN s = D
  BY DEF IsSeq
<1>2. \A x \in T : \E i \in D : s[i] = x
  BY <1>1 DEF ToSet
<1>3. IsFiniteSet(D)
  BY <1>1, FS_Interval
<1> HIDE DEF T, D
<1>4. s \in Surjection(D, T)
  BY <1>1, <1>2 DEF Surjection
<1>5. IsFiniteSet(T)
  BY <1>3, <1>4, FS_Surjection
<1> QED BY <1>5 DEF T

LEMMA ToSetConcat ==
    ASSUME NEW s, IsSeq(s), NEW t, IsSeq(t)
    PROVE  IsSeq(s \o t) /\ ToSet(s \o t) = ToSet(s) \cup ToSet(t)
<1> DEFINE T == ToSet(s) \cup ToSet(t)
           r == s \o t
           a == Len(s)
           b == Len(t)
<1>1. s \in Seq(T) /\ t \in Seq(T) /\ a \in Nat /\ b \in Nat
      /\ DOMAIN s = 1..a /\ DOMAIN t = 1..b
  <2>1. s \in Seq(ToSet(s)) /\ t \in Seq(ToSet(t))
    BY DEF IsSeq
  <2> QED BY <2>1
<1>2. /\ r \in Seq(T) /\ Len(r) = a + b /\ DOMAIN r = 1..(a + b)
      /\ \A i \in 1..(a + b) : r[i] = IF i <= a THEN s[i] ELSE t[i - a]
  <2> HIDE DEF T
  <2> QED BY <1>1
<1> HIDE DEF r, a, b
<1>3. ASSUME NEW x \in ToSet(s) PROVE x \in ToSet(r)
  <2>1. PICK i \in 1..a : s[i] = x
    BY <1>1 DEF ToSet
  <2>2. i \in 1..(a + b) /\ r[i] = x
    BY <1>1, <1>2, <2>1
  <2> QED BY <2>2, <1>2 DEF ToSet
<1>4. ASSUME NEW x \in ToSet(t) PROVE x \in ToSet(r)
  <2>1. PICK i \in 1..b : t[i] = x
    BY <1>1 DEF ToSet
  <2>2. a + i \in 1..(a + b) /\ r[a + i] = x
    BY <1>1, <1>2, <2>1
  <2> QED BY <2>2, <1>2 DEF ToSet
<1>5. IsSeq(r) /\ ToSet(r) \subseteq T
  <2> HIDE DEF T
  <2> QED BY <1>2, IsSeqIs
<1>6. IsSeq(r) /\ ToSet(r) = T
  BY <1>3, <1>4, <1>5
<1> QED BY <1>6 DEF r

\* The first time each of them comes that is not in R.
LEMMA EachOnceFirsts ==
    ASSUME NEW s, IsSeq(s), NEW R,
           NEW at, at = {i \in DOMAIN s : s[i] \notin R /\ \A j \in 1..(i - 1) : s[j] # s[i]}
    PROVE  EachOnce(SelectPositions(s, at), ToSet(s) \ R)
<1> DEFINE T == ToSet(s)
           U == T \ R
           r == SelectPositions(s, at)
<1>1. s \in Seq(T) /\ Len(s) \in Nat /\ DOMAIN s = 1..Len(s) /\ s \in [1..Len(s) -> T]
  BY DEF IsSeq
<1>2. PICK h : Selected(T, s, at, Len(s), r, h)
  BY <1>1, Selects
<1>a. \A i : i \in at <=> i \in 1..Len(s) /\ s[i] \notin R /\ \A j \in 1..(i - 1) : s[j] # s[i]
  BY <1>1
<1> HIDE DEF r
<1>3. Len(r) \in Nat /\ r \in [1..Len(r) -> T] /\ h \in [1..Len(r) -> 1..Len(s)]
  BY <1>2 DEF Selected
<1>4. \A m \in 1..Len(r) : h[m] \in at /\ r[m] = s[h[m]]
  BY <1>2 DEF Selected
<1>5. \A m \in 1..Len(r) : r[m] \in T \ R
  BY <1>3, <1>4, <1>a
<1>6. r \in [1..Len(r) -> U]
  BY <1>3, <1>5
<1>7. ASSUME NEW x \in U PROVE \E m \in 1..Len(r) : r[m] = x
  <2> DEFINE P == {i \in 1..Len(s) : s[i] = x}
  <2>1. P # {} /\ P \subseteq Nat
    <3>1. x \in {s[i] : i \in DOMAIN s}
      BY DEF ToSet
    <3> QED BY <3>1, <1>1
  <2>2. PICK i \in P : \A j \in P : i <= j
    <3> HIDE DEF P
    <3> QED BY <2>1, SmallestIn
  <2>3. i \in 1..Len(s) /\ s[i] = x
    OBVIOUS
  <2>4. ASSUME NEW j \in 1..(i - 1) PROVE s[j] # s[i]
    BY <2>2, <2>3, <1>1
  <2>5. i \in at
    BY <2>3, <2>4, <1>a
  <2>6. PICK m \in 1..Len(r) : h[m] = i
    BY <2>3, <2>5, <1>2 DEF Selected
  <2> QED BY <2>3, <2>6, <1>4
<1>8. ASSUME NEW m \in 1..Len(r), NEW k \in 1..Len(r), m < k PROVE r[m] # r[k]
  <2>1. h[m] < h[k]
    BY <1>2, <1>8 DEF Selected
  <2>2. h[m] \in 1..(h[k] - 1) /\ h[k] \in at
    BY <2>1, <1>3, <1>4
  <2>3. s[h[m]] # s[h[k]]
    BY <2>2, <1>a
  <2> QED BY <2>3, <1>4
<1>9. EachOnce(r, U)
  <2> HIDE DEF U
  <2> QED BY <1>3, <1>6, <1>7, <1>8, EachOnceBy
<1> QED BY <1>9 DEF r

=============================================================================
