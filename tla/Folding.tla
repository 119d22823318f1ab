------------------------------ MODULE Folding ------------------------------
(***************************************************************************)
(* FoldLeft, proved about: the fold of a step Op over a sequence starts    *)
(* with its base and goes on with one step for each element.  A module     *)
(* that folds takes an instance of this one for its step; p is for what    *)
(* the step is given beside its accumulator and its element.               *)
(***************************************************************************)
EXTENDS Integers, Sequences, Folds, WellFoundedInduction, TLAPS

CONSTANT Op(_, _, _)

\* as FoldLeft of SequencesExt is defined
Top(T) == CHOOSE x \in T : \A y \in T : x >= y
Fold(p, base, seq) ==
  MapThenFoldSet(LAMBDA x, a : Op(p, a, x), base, LAMBDA i : seq[i], LAMBDA T : Top(T), DOMAIN seq)

\* induction, for a set of naturals
LEMMA NatSet ==
  ASSUME NEW T, 0 \in T, \A n \in Nat : n \in T => n + 1 \in T
  PROVE  Nat \subseteq T
<1> DEFINE U == {n \in Nat : n \notin T}
<1> SUFFICES ASSUME U # {} PROVE FALSE
  OBVIOUS
<1>1. PICK x \in U : \A y \in U : ~ (<<y, x>> \in OpToRel(<, Nat))
  BY NatLessThanWellFounded, WFMin, Zenon
<1>2. \A y \in Nat : y < x => y \in T
  BY <1>1 DEF OpToRel
<1>3. x # 0 /\ x \in Nat /\ x \notin T
  OBVIOUS
<1>4. x - 1 \in Nat /\ x - 1 < x /\ (x - 1) + 1 = x
  BY <1>3
<1> QED
  BY <1>2, <1>3, <1>4

\* a set of indexes has a largest one
LEMMA Largest ==
  ASSUME NEW n \in Nat, NEW T \in SUBSET (1..n), T # {}
  PROVE  \E x \in T : \A y \in T : x >= y
<1> DEFINE G == {k \in Nat : \A V \in SUBSET (1..k) : V # {} => \E x \in V : \A y \in V : x >= y}
<1>1. 0 \in G
  <2>1. \A V \in SUBSET (1..0) : V = {}
    OBVIOUS
  <2> QED
    BY <2>1
<1>2. ASSUME NEW k \in Nat, k \in G PROVE k + 1 \in G
  <2> SUFFICES ASSUME NEW V \in SUBSET (1..k+1), V # {} PROVE \E x \in V : \A y \in V : x >= y
    OBVIOUS
  <2>1. CASE k + 1 \in V
    BY <2>1
  <2>2. CASE k + 1 \notin V
    <3>1. V \in SUBSET (1..k)
      BY <2>2
    <3> QED
      BY <3>1, <1>2
  <2> QED
    BY <2>1, <2>2
<1> HIDE DEF G
<1>3. n \in G
  BY <1>1, <1>2, NatSet
<1> QED
  BY <1>3 DEF G

\* and so it has a smallest one
LEMMA Smallest ==
  ASSUME NEW n \in Nat, NEW T \in SUBSET (1..n), T # {}
  PROVE  \E x \in T : \A y \in T : x <= y
<1> DEFINE V == {n + 1 - y : y \in T}
<1>1. V \in SUBSET (1..n) /\ V # {}
  <2>1. \A y \in T : y \in 1..n
    OBVIOUS
  <2>2. \A y \in T : n + 1 - y \in 1..n
    BY <2>1
  <2> QED
    BY <2>2
<1>2. PICK v \in V : \A y \in V : v >= y
  <2> HIDE DEF V
  <2> QED
    BY <1>1, Largest
<1>3. PICK x \in T : v = n + 1 - x
  OBVIOUS
<1>4. \A y \in T : n + 1 - y \in V
  OBVIOUS
<1>5. \A y \in T : x <= y
  BY <1>2, <1>3, <1>4
<1> QED
  BY <1>5

\* Top of a set of indexes is its largest
LEMMA TopOf ==
  ASSUME NEW n \in Nat, NEW T \in SUBSET (1..n), T # {}
  PROVE  Top(T) \in T /\ \A y \in T : y <= Top(T)
<1>1. \E x \in T : \A y \in T : x >= y
  BY Largest
<1>2. Top(T) \in T /\ \A y \in T : Top(T) >= y
  BY <1>1 DEF Top
<1> QED
  BY <1>2

\* what a fold's function on sets of indexes is
Folds(g, p, base, seq, D) ==
  g = [T \in SUBSET D |-> IF T = {} THEN base ELSE Op(p, g[T \ {Top(T)}], seq[Top(T)])]

\* there is one
LEMMA FoldExists ==
  ASSUME NEW p, NEW base, NEW seq, NEW n \in Nat
  PROVE  \E g : Folds(g, p, base, seq, 1..n)
<1> DEFINE G == {k \in Nat : \E g : Folds(g, p, base, seq, 1..k)}
<1>1. 0 \in G
  <2> DEFINE g == [T \in SUBSET (1..0) |-> base]
  <2>1. \A T \in SUBSET (1..0) : T = {}
    OBVIOUS
  <2>2. Folds(g, p, base, seq, 1..0)
    BY <2>1 DEF Folds
  <2> QED
    BY <2>2
<1>2. ASSUME NEW k \in Nat, k \in G PROVE k + 1 \in G
  <2>1. PICK g : Folds(g, p, base, seq, 1..k)
    BY <1>2
  <2> DEFINE h == [T \in SUBSET (1..k+1) |->
                     IF k + 1 \in T THEN Op(p, g[T \ {k + 1}], seq[k + 1]) ELSE g[T]]
             b(T) == IF T = {} THEN base ELSE Op(p, h[T \ {Top(T)}], seq[Top(T)])
  <2>2. ASSUME NEW T \in SUBSET (1..k+1) PROVE h[T] = b(T)
    <3>1. CASE k + 1 \in T
      <4>1. Top(T) = k + 1
        <5>1. Top(T) \in T /\ \A y \in T : y <= Top(T)
          BY <3>1, TopOf, k + 1 \in Nat, T # {}
        <5>2. Top(T) \in 1..(k + 1) /\ k + 1 <= Top(T)
          BY <3>1, <5>1
        <5> QED
          BY <5>2
      <4>2. T \ {k + 1} \in SUBSET (1..k+1) /\ k + 1 \notin T \ {k + 1}
        OBVIOUS
      <4>3. h[T \ {k + 1}] = g[T \ {k + 1}]
        BY <4>2
      <4> QED
        BY <3>1, <4>1, <4>3
    <3>2. CASE k + 1 \notin T
      <4>1. T \in SUBSET (1..k)
        BY <3>2
      <4>2. g[T] = IF T = {} THEN base ELSE Op(p, g[T \ {Top(T)}], seq[Top(T)])
        BY <2>1, <4>1 DEF Folds
      <4>3. T \ {Top(T)} \in SUBSET (1..k+1) /\ k + 1 \notin T \ {Top(T)}
        BY <3>2
      <4>4. h[T \ {Top(T)}] = g[T \ {Top(T)}]
        BY <4>3
      <4> QED
        BY <3>2, <4>2, <4>4
    <3> QED
      BY <3>1, <3>2
  <2>3. h = [T \in SUBSET (1..k+1) |-> b(T)]
    BY <2>2
  <2>4. Folds(h, p, base, seq, 1..(k+1))
    BY <2>3 DEF Folds
  <2> HIDE DEF h
  <2> QED
    BY <2>4
<1> HIDE DEF G
<1>3. n \in G
  BY <1>1, <1>2, NatSet
<1> QED
  BY <1>3 DEF G

\* FoldLeft is the value of such a function
LEMMA FoldValue ==
  ASSUME NEW p, NEW base, NEW n \in Nat, NEW seq, DOMAIN seq = 1..n
  PROVE  \E g : Folds(g, p, base, seq, 1..n) /\ Fold(p, base, seq) = g[1..n]
<1> DEFINE g == CHOOSE f : Folds(f, p, base, seq, 1..n)
<1>1. Folds(g, p, base, seq, 1..n)
  BY FoldExists
<1>2. Fold(p, base, seq) = g[1..n]
  BY DEF Fold, MapThenFoldSet, Folds
<1> QED
  BY <1>1, <1>2

\* along the sequence such a function takes one step for each element
LEMMA FoldChain ==
  ASSUME NEW p, NEW base, NEW seq, NEW n \in Nat, NEW g, Folds(g, p, base, seq, 1..n)
  PROVE  /\ g[1..0] = base
         /\ \A k \in 1..n : g[1..k] = Op(p, g[1..(k - 1)], seq[k])
<1>1. g[1..0] = base
  <2>1. 1..0 = {} /\ {} \in SUBSET (1..n)
    OBVIOUS
  <2> QED
    BY <2>1 DEF Folds
<1>2. ASSUME NEW k \in 1..n PROVE g[1..k] = Op(p, g[1..(k - 1)], seq[k])
  <2>1. 1..k \in SUBSET (1..n) /\ 1..k # {} /\ k \in 1..k /\ k \in Nat
    OBVIOUS
  <2>2. Top(1..k) \in 1..k /\ k <= Top(1..k)
    BY <2>1, TopOf
  <2>3. Top(1..k) = k
    BY <2>2
  <2>4. (1..k) \ {k} = 1..(k - 1)
    OBVIOUS
  <2>5. g[1..k] = Op(p, g[(1..k) \ {Top(1..k)}], seq[Top(1..k)])
    BY <2>1 DEF Folds
  <2> QED
    BY <2>3, <2>4, <2>5
<1> QED
  BY <1>1, <1>2

\* A fold over nothing is its base (FoldLeft, as the loops over env vars,
\* volumes, mounts and characters are modelled).
THEOREM FoldEmpty == \A p, base : Fold(p, base, <<>>) = base
<1> SUFFICES ASSUME NEW p, NEW base PROVE Fold(p, base, <<>>) = base
  OBVIOUS
<1> DEFINE nil == <<>>
<1>1. DOMAIN nil = 1..0
  OBVIOUS
<1> HIDE DEF nil
<1>2. PICK g : Folds(g, p, base, nil, 1..0) /\ Fold(p, base, nil) = g[1..0]
  BY <1>1, FoldValue, 0 \in Nat
<1>3. g[1..0] = base
  BY <1>2, 1..0 = {} DEF Folds
<1> QED
  BY <1>2, <1>3 DEF nil

\* A fold over one element more is one step more: what each turn of such a loop
\* keeps, the loop keeps.
THEOREM FoldAppend ==
  ASSUME NEW p, NEW base, NEW S, NEW seq \in Seq(S), NEW e \in S
  PROVE  Fold(p, base, Append(seq, e)) = Op(p, Fold(p, base, seq), e)
<1> DEFINE n == Len(seq)
           s == Append(seq, e)
<1>1. /\ n \in Nat /\ n + 1 \in Nat /\ DOMAIN seq = 1..n /\ DOMAIN s = 1..(n + 1)
      /\ s[n + 1] = e
      /\ \A k \in 1..n : s[k] = seq[k]
  OBVIOUS
<1> HIDE DEF n, s
<1>2. PICK g : Folds(g, p, base, seq, 1..n) /\ Fold(p, base, seq) = g[1..n]
  BY <1>1, FoldValue
<1>3. PICK h : Folds(h, p, base, s, 1..(n + 1)) /\ Fold(p, base, s) = h[1..(n + 1)]
  BY <1>1, FoldValue
<1>4. g[1..0] = base /\ \A k \in 1..n : g[1..k] = Op(p, g[1..(k - 1)], seq[k])
  BY <1>1, <1>2, FoldChain
<1>5. h[1..0] = base /\ \A k \in 1..(n + 1) : h[1..k] = Op(p, h[1..(k - 1)], s[k])
  BY <1>1, <1>3, FoldChain
<1> DEFINE G == {k \in Nat : k <= n => g[1..k] = h[1..k]}
<1>6. 0 \in G
  BY <1>4, <1>5
<1>7. ASSUME NEW k \in Nat, k \in G PROVE k + 1 \in G
  <2> SUFFICES ASSUME k + 1 <= n PROVE g[1..(k + 1)] = h[1..(k + 1)]
    OBVIOUS
  <2>1. k <= n /\ g[1..k] = h[1..k]
    BY <1>1, <1>7
  <2>2. k + 1 \in 1..n /\ k + 1 \in 1..(n + 1) /\ (k + 1) - 1 = k
    BY <1>1
  <2>3. s[k + 1] = seq[k + 1]
    BY <1>1, <2>2
  <2>4. g[1..(k + 1)] = Op(p, g[1..k], seq[k + 1])
    BY <1>4, <2>2
  <2>5. h[1..(k + 1)] = Op(p, h[1..k], s[k + 1])
    BY <1>5, <2>2
  <2> QED
    BY <2>1, <2>3, <2>4, <2>5
<1>8. n \in G
  <2> HIDE DEF G
  <2> QED
    BY <1>1, <1>6, <1>7, NatSet
<1>9. g[1..n] = h[1..n]
  BY <1>1, <1>8
<1>10. h[1..(n + 1)] = Op(p, h[1..n], e)
  <2>1. n + 1 \in 1..(n + 1) /\ (n + 1) - 1 = n
    BY <1>1
  <2> QED
    BY <1>1, <1>5, <2>1
<1> QED
  BY <1>2, <1>3, <1>9, <1>10 DEF s

\* induction, for a set of sequences
LEMMA SeqSet ==
  ASSUME NEW S, NEW T, <<>> \in T, \A u \in Seq(S), e \in S : u \in T => Append(u, e) \in T
  PROVE  Seq(S) \subseteq T
<1> DEFINE G == {k \in Nat : \A t \in Seq(S) : Len(t) = k => t \in T}
<1>1. 0 \in G
  OBVIOUS
<1>2. ASSUME NEW k \in Nat, k \in G PROVE k + 1 \in G
  <2> SUFFICES ASSUME NEW t \in Seq(S), Len(t) = k + 1 PROVE t \in T
    OBVIOUS
  <2> DEFINE u == [i \in 1..k |-> t[i]]
  <2>1. u \in Seq(S) /\ Len(u) = k
    OBVIOUS
  <2>2. t[k + 1] \in S /\ t = Append(u, t[k + 1])
    OBVIOUS
  <2>3. u \in T
    BY <1>2, <2>1
  <2> HIDE DEF u
  <2> QED
    BY <2>1, <2>2, <2>3
<1>3. Nat \subseteq G
  <2> HIDE DEF G
  <2> QED
    BY <1>1, <1>2, NatSet
<1> QED
  <2> SUFFICES ASSUME NEW t \in Seq(S) PROVE t \in T
    OBVIOUS
  <2>1. Len(t) \in G
    BY <1>3
  <2> QED
    BY <2>1

\* A fold over two sequences is the one after the other.
THEOREM FoldConcat ==
  ASSUME NEW p, NEW base, NEW S, NEW s \in Seq(S), NEW t \in Seq(S)
  PROVE  Fold(p, base, s \o t) = Fold(p, Fold(p, base, s), t)
<1> DEFINE G == {u \in Seq(S) : Fold(p, base, s \o u) = Fold(p, Fold(p, base, s), u)}
<1>1. <<>> \in G
  <2>1. s \o <<>> = s /\ <<>> \in Seq(S)
    OBVIOUS
  <2>2. Fold(p, Fold(p, base, s), <<>>) = Fold(p, base, s)
    BY FoldEmpty
  <2> QED
    BY <2>1, <2>2
<1>2. ASSUME NEW u \in Seq(S), NEW e \in S, u \in G PROVE Append(u, e) \in G
  <2>1. s \o Append(u, e) = Append(s \o u, e) /\ s \o u \in Seq(S) /\ Append(u, e) \in Seq(S)
    OBVIOUS
  <2>2. Fold(p, base, Append(s \o u, e)) = Op(p, Fold(p, base, s \o u), e)
    <3> DEFINE v == s \o u
    <3>1. v \in Seq(S)
      BY <2>1
    <3> HIDE DEF v
    <3>2. Fold(p, base, Append(v, e)) = Op(p, Fold(p, base, v), e)
      BY <3>1, FoldAppend
    <3> QED
      BY <3>2 DEF v
  <2>3. Fold(p, Fold(p, base, s), Append(u, e)) = Op(p, Fold(p, Fold(p, base, s), u), e)
    BY FoldAppend
  <2>4. Fold(p, base, s \o u) = Fold(p, Fold(p, base, s), u)
    BY <1>2
  <2>5. Fold(p, base, s \o Append(u, e)) = Fold(p, Fold(p, base, s), Append(u, e))
    BY <2>1, <2>2, <2>3, <2>4
  <2> QED
    BY <2>1, <2>5
<1>3. Seq(S) \subseteq G
  <2> HIDE DEF G
  <2> QED
    BY <1>1, <1>2, SeqSet
<1> QED
  BY <1>3

\* A fold over one element is one step.
LEMMA FoldOne ==
  ASSUME NEW p, NEW base, NEW e
  PROVE  Fold(p, base, <<e>>) = Op(p, base, e)
<1> DEFINE nil == <<>>
<1>1. nil \in Seq({e}) /\ e \in {e} /\ <<e>> = Append(nil, e) /\ Fold(p, base, nil) = base
  BY FoldEmpty
<1> HIDE DEF nil
<1>2. Fold(p, base, Append(nil, e)) = Op(p, Fold(p, base, nil), e)
  BY <1>1, FoldAppend
<1> QED
  BY <1>1, <1>2
=============================================================================
