------------------------------- MODULE Facts -------------------------------
(***************************************************************************)
(* Facts for the proofs of the other modules: about induction, about       *)
(* sequences, their subsequences and folds over them, and about what the   *)
(* operations of StoreOps leave in the store, in which order, and how      *)
(* much, for any bounds of the store.                                      *)
(*                                                                         *)
(* The provers cannot instantiate a theorem that takes a predicate, so     *)
(* induction is stated for sets of numbers (Induction), and a recursive    *)
(* function is shown to exist for a step that is itself a function         *)
(* (RecursionExists, FoldExists).                                          *)
(***************************************************************************)
EXTENDS StoreOps, WellFoundedInduction, TLAPS

-----------------------------------------------------------------------------
(* Induction and recursion *)

LEMMA LeastNumber ==
  ASSUME NEW T, T \subseteq Nat, T # {}
  PROVE  \E x \in T : \A y \in T : x <= y
<1>1. IsWellFoundedOn({ss \in Nat \X Nat : ss[1] < ss[2]}, Nat)
      BY NatLessThanWellFounded, Zenon DEF OpToRel
<1>2. PICK x \in T : \A y \in T : ~(<<y, x>> \in {ss \in Nat \X Nat : ss[1] < ss[2]})
      BY <1>1, WFMin, Zenon
<1>3. ASSUME NEW y \in T PROVE x <= y
  <2>1. ~(<<y, x>> \in {ss \in Nat \X Nat : ss[1] < ss[2]})
        BY <1>2
  <2>2. x \in Nat /\ y \in Nat
        OBVIOUS
  <2> QED  BY <2>1, <2>2
<1> QED  BY <1>3

\* A set that has 0 and is closed under successors up to n has every number up to n.
LEMMA Induction ==
  ASSUME NEW n \in Nat, NEW S, 0 \in S, \A i \in 0..(n - 1) : i \in S => i + 1 \in S
  PROVE  0..n \subseteq S
<1> SUFFICES ASSUME (0..n) \ S # {} PROVE FALSE
    OBVIOUS
<1> DEFINE T == (0..n) \ S
<1>1. T \subseteq Nat /\ T # {}
      OBVIOUS
<1>2. PICK x \in T : \A y \in T : x <= y
  <2> HIDE DEF T
  <2> QED  BY <1>1, LeastNumber
<1>3. x \in 0..n /\ x # 0
      BY <1>2
<1>4. x - 1 \in 0..(n - 1) /\ x - 1 \in S
      BY <1>2, <1>3
<1> QED  BY <1>2, <1>4

\* f is computed from x0 by n steps.
Recurs(f, n, x0, step) ==
  \A i \in 0..n : f[i] = IF i = 0 THEN x0 ELSE step[i][f[i - 1]]

LEMMA RecursionExists ==
  ASSUME NEW n \in Nat, NEW X, NEW x0 \in X, NEW step \in [1..n -> [X -> X]]
  PROVE  \E f \in [0..n -> X] : Recurs(f, n, x0, step)
<1> DEFINE Solves(f, m) == \A i \in 0..m : f[i] = IF i = 0 THEN x0 ELSE step[i][f[i - 1]]
           S == {m \in 0..n : \E f \in [0..m -> X] : Solves(f, m)}
<1>1. 0 \in S
  <2> DEFINE f == [i \in 0..0 |-> x0]
  <2>1. f \in [0..0 -> X] /\ Solves(f, 0)
        OBVIOUS
  <2> HIDE DEF f
  <2> QED  BY <2>1
<1>2. ASSUME NEW m \in 0..(n - 1), m \in S PROVE m + 1 \in S
  <2>1. PICK f \in [0..m -> X] : Solves(f, m)
        BY <1>2
  <2> DEFINE g == [i \in 0..(m + 1) |-> IF i <= m THEN f[i] ELSE step[m + 1][f[m]]]
  <2>2. g \in [0..(m + 1) -> X]
        BY <2>1
  <2>3. Solves(g, m + 1)
    <3> SUFFICES ASSUME NEW i \in 0..(m + 1)
                 PROVE  g[i] = IF i = 0 THEN x0 ELSE step[i][g[i - 1]]
        OBVIOUS
    <3>1. CASE i <= m
          BY <2>1, <3>1
    <3>2. CASE i = m + 1
          BY <2>1, <3>2
    <3> QED  BY <3>1, <3>2
  <2> HIDE DEF g
  <2> QED  BY <2>2, <2>3
<1>3. 0..n \subseteq S
  <2> HIDE DEF S
  <2> QED  BY <1>1, <1>2, Induction
<1>4. n \in S
      BY <1>3
<1> QED  BY <1>4 DEF Recurs

LEMMA MaxIs ==
  ASSUME NEW T, T \subseteq Int, NEW m \in T, \A y \in T : m >= y
  PROVE  Max(T) = m
<1>1. Max(T) \in T /\ \A y \in T : Max(T) >= y
      BY Zenon DEF Max
<1>2. Max(T) >= m /\ m >= Max(T) /\ Max(T) \in Int /\ m \in Int
      BY <1>1
<1> HIDE DEF Max
<1> QED  BY <1>2

LEMMA MaxExists ==
  ASSUME NEW n \in Nat, NEW T \in SUBSET (1..n), T # {}
  PROVE  Max(T) \in T
<1> DEFINE U == {k \in Nat : n - k \in T}
<1>1. U \subseteq Nat /\ U # {}
  <2>1. PICK y \in T : TRUE
        OBVIOUS
  <2>2. n - y \in Nat /\ n - (n - y) = y
        OBVIOUS
  <2> QED  BY <2>2
<1>2. PICK k \in U : \A j \in U : k <= j
  <2> HIDE DEF U
  <2> QED  BY <1>1, LeastNumber
<1>3. ASSUME NEW y \in T PROVE n - k >= y
  <2>1. n - y \in U
        OBVIOUS
  <2>2. k <= n - y /\ k \in Nat
        BY <1>2, <2>1
  <2> QED  BY <2>2
<1>4. n - k \in T /\ T \subseteq Int
      OBVIOUS
<1>5. Max(T) = n - k
  <2> HIDE DEF U
  <2> QED  BY <1>3, <1>4, MaxIs
<1> QED  BY <1>4, <1>5

\* The folds of the community modules recurse on the set of the positions that are left.
FoldsOver(f, n, x0, step) ==
  \A t \in SUBSET (1..n) : f[t] = IF t = {} THEN x0 ELSE step[Max(t)][f[t \ {Max(t)}]]

LEMMA FoldExists ==
  ASSUME NEW n \in Nat, NEW X, NEW x0 \in X, NEW step \in [1..n -> [X -> X]]
  PROVE  \E f \in [SUBSET (1..n) -> X] : FoldsOver(f, n, x0, step)
<1> DEFINE Solves(f, m) == \A t \in SUBSET (1..m) :
                             f[t] = IF t = {} THEN x0 ELSE step[Max(t)][f[t \ {Max(t)}]]
           S == {m \in 0..n : \E f \in [SUBSET (1..m) -> X] : Solves(f, m)}
<1>1. 0 \in S
  <2> DEFINE f == [t \in SUBSET (1..0) |-> x0]
  <2>1. f \in [SUBSET (1..0) -> X] /\ Solves(f, 0)
        OBVIOUS
  <2>2. 0 \in 0..n
        OBVIOUS
  <2>3. \E h \in [SUBSET (1..0) -> X] : Solves(h, 0)
    <3> HIDE DEF f, Solves
    <3> QED  BY <2>1
  <2> HIDE DEF f, Solves
  <2> QED  BY <2>2, <2>3
<1>2. ASSUME NEW m \in 0..(n - 1), m \in S PROVE m + 1 \in S
  <2>1. PICK f \in [SUBSET (1..m) -> X] : Solves(f, m)
        BY <1>2
  <2> DEFINE g == [t \in SUBSET (1..(m + 1)) |->
                     IF m + 1 \in t THEN step[m + 1][f[t \ {m + 1}]] ELSE f[t]]
  <2>2. ASSUME NEW t \in SUBSET (1..(m + 1)) PROVE t \ {m + 1} \in SUBSET (1..m)
        OBVIOUS
  <2>3. g \in [SUBSET (1..(m + 1)) -> X]
    <3>1. ASSUME NEW t \in SUBSET (1..(m + 1)), m + 1 \in t
          PROVE  step[m + 1][f[t \ {m + 1}]] \in X
          BY <2>1, <2>2
    <3>2. ASSUME NEW t \in SUBSET (1..(m + 1)), m + 1 \notin t
          PROVE  f[t] \in X
      <4>1. t \in SUBSET (1..m)
            BY <2>2, <3>2
      <4> QED  BY <2>1, <4>1
    <3> QED  BY <3>1, <3>2
  <2>4. Solves(g, m + 1)
    <3> SUFFICES ASSUME NEW t \in SUBSET (1..(m + 1)), t # {}
                 PROVE  g[t] = step[Max(t)][g[t \ {Max(t)}]]
        BY <2>1
    <3>1. CASE m + 1 \in t
      <4>1. Max(t) = m + 1
        <5>1. t \subseteq Int /\ m + 1 \in t /\ \A y \in t : m + 1 >= y
              BY <3>1
        <5> HIDE DEF g, S, Solves
        <5> QED  BY <5>1, MaxIs
      <4>2. t \ {m + 1} \in SUBSET (1..(m + 1)) /\ m + 1 \notin t \ {m + 1}
            OBVIOUS
      <4> QED  BY <3>1, <4>1, <4>2
    <3>2. CASE m + 1 \notin t
      <4>1. t \in SUBSET (1..m) /\ t \ {Max(t)} \in SUBSET (1..m)
            BY <2>2, <3>2
      <4>2. g[t] = f[t] /\ g[t \ {Max(t)}] = f[t \ {Max(t)}]
            BY <3>2, <4>1
      <4> QED  BY <2>1, <4>1, <4>2
    <3> QED  BY <3>1, <3>2
  <2>5. \E h \in [SUBSET (1..(m + 1)) -> X] : Solves(h, m + 1)
    <3> HIDE DEF g, Solves
    <3> QED  BY <2>3, <2>4
  <2> HIDE DEF g, Solves
  <2> QED  BY <2>5
<1>3. n \in S
  <2> HIDE DEF S
  <2>1. 0..n \subseteq S
        BY <1>1, <1>2, Induction
  <2> QED  BY <2>1
<1> QED  BY <1>3 DEF FoldsOver

-----------------------------------------------------------------------------
(* Sequences *)

LEMMA PrefixGrows ==
  ASSUME NEW S, NEW s \in Seq(S), NEW k \in 0..(Len(s) - 1)
  PROVE  /\ SubSeq(s, 1, k) \in Seq(S) /\ s[k + 1] \in S
         /\ SubSeq(s, 1, k + 1) = Append(SubSeq(s, 1, k), s[k + 1])
<1>1. SubSeq(s, 1, k) \in Seq(S) /\ s[k + 1] \in S /\ SubSeq(s, 1, k + 1) \in Seq(S)
      OBVIOUS
<1>2. Append(SubSeq(s, 1, k), s[k + 1]) \in Seq(S)
      BY <1>1
<1>3. Len(SubSeq(s, 1, k + 1)) = k + 1 /\ Len(Append(SubSeq(s, 1, k), s[k + 1])) = k + 1
      BY <1>1
<1>4. ASSUME NEW i \in 1..(k + 1)
      PROVE  SubSeq(s, 1, k + 1)[i] = Append(SubSeq(s, 1, k), s[k + 1])[i]
      BY <1>1
<1> QED  BY <1>1, <1>2, <1>3, <1>4

LEMMA WholePrefix ==
  ASSUME NEW S, NEW s \in Seq(S)
  PROVE  SubSeq(s, 1, Len(s)) = s /\ SubSeq(s, 1, 0) = <<>>
OBVIOUS

\* A set that has the empty sequence and is closed under Append has every sequence.
LEMMA SequenceInduction ==
  ASSUME NEW S, NEW P, <<>> \in P,
         \A s \in Seq(S) : \A e \in S : s \in P => Append(s, e) \in P
  PROVE  Seq(S) \subseteq P
<1> SUFFICES ASSUME NEW s \in Seq(S) PROVE s \in P
    OBVIOUS
<1> DEFINE T == {k \in 0..Len(s) : SubSeq(s, 1, k) \in P}
<1>1. 0 \in T
  <2>1. SubSeq(s, 1, 0) \in P
        BY WholePrefix, Zenon
  <2>2. 0 \in 0..Len(s)
        OBVIOUS
  <2> QED  BY <2>1, <2>2, Zenon
<1>2. ASSUME NEW k \in 0..(Len(s) - 1), k \in T PROVE k + 1 \in T
  <2>1. /\ SubSeq(s, 1, k) \in Seq(S) /\ s[k + 1] \in S
        /\ SubSeq(s, 1, k + 1) = Append(SubSeq(s, 1, k), s[k + 1])
        BY PrefixGrows
  <2>2. SubSeq(s, 1, k + 1) \in P
        BY <1>2, <2>1
  <2> QED  BY <2>2
<1>3. Len(s) \in Nat
      OBVIOUS
<1>4. 0..Len(s) \subseteq T
  <2> HIDE DEF T
  <2> QED  BY <1>1, <1>2, <1>3, Induction
<1>5. Len(s) \in T
      BY <1>3, <1>4
<1> QED  BY <1>5, WholePrefix

-----------------------------------------------------------------------------
(* Subsequences *)

\* How the elements that stay are collected.
Collects(f, s, K) ==
  /\ f[0] = <<>>
  /\ \A i \in 1..Len(s) : f[i] = IF s[i] \in K THEN Append(f[i - 1], s[i]) ELSE f[i - 1]

LEMMA OnlyIsCollected ==
  ASSUME NEW S, NEW s \in Seq(S), NEW K
  PROVE  \E f \in [0..Len(s) -> Seq(S)] : Collects(f, s, K) /\ Only(s, K) = f[Len(s)]
<1> DEFINE n == Len(s)
           X == Seq(S)
           step == [i \in 1..n |-> [x \in X |-> IF s[i] \in K THEN Append(x, s[i]) ELSE x]]
           Def(f) == [i \in 0..Len(s) |->
                        IF i = 0 THEN <<>>
                        ELSE IF s[i] \in K THEN Append(f[i - 1], s[i]) ELSE f[i - 1]]
           only == CHOOSE f : f = Def(f)
<1>1. n \in Nat /\ <<>> \in X /\ step \in [1..n -> [X -> X]]
      OBVIOUS
<1>2. PICK f \in [0..n -> X] : Recurs(f, n, <<>>, step)
  <2> HIDE DEF n, X, step
  <2> QED  BY <1>1, RecursionExists
<1>3. ASSUME NEW i \in 1..n
      PROVE  f[i] = IF s[i] \in K THEN Append(f[i - 1], s[i]) ELSE f[i - 1]
  <2>1. i \in 0..n /\ i # 0 /\ i - 1 \in 0..n
        OBVIOUS
  <2>2. f[i] = step[i][f[i - 1]] /\ f[i - 1] \in X
    <3> HIDE DEF step, X, n
    <3> QED  BY <1>2, <2>1 DEF Recurs
  <2>3. \A x \in X : step[i][x] = IF s[i] \in K THEN Append(x, s[i]) ELSE x
        OBVIOUS
  <2> HIDE DEF step, X, n
  <2> QED  BY <2>2, <2>3
<1>4. f = Def(f)
  <2>1. f[0] = <<>>
    <3> HIDE DEF step, X, n
    <3> QED  BY <1>1, <1>2 DEF Recurs
  <2>2. f = [i \in 0..n |-> f[i]]
    <3> HIDE DEF step, X, n
    <3> QED  BY <1>2
  <2>3. ASSUME NEW i \in 0..n
        PROVE  f[i] = IF i = 0 THEN <<>>
                      ELSE IF s[i] \in K THEN Append(f[i - 1], s[i]) ELSE f[i - 1]
    <3> HIDE DEF step, X
    <3>1. i = 0 \/ i \in 1..n
          BY <1>1
    <3> HIDE DEF n
    <3> QED  BY <1>3, <2>1, <3>1
  <2> HIDE DEF step, X
  <2> QED  BY <2>2, <2>3
<1>5. only = Def(only)
  <2> HIDE DEF Def
  <2> QED  BY <1>4, Zenon
<1>6. Only(s, K) = only[Len(s)]
      BY DEF Only
<1>7. Collects(only, s, K)
  <2> HIDE DEF only, step, X
  <2>1. \A i \in 0..n : only[i] = IF i = 0 THEN <<>>
                                  ELSE IF s[i] \in K THEN Append(only[i - 1], s[i]) ELSE only[i - 1]
        BY <1>5, Zenon
  <2>2. only[0] = <<>>
        BY <1>1, <2>1
  <2>3. ASSUME NEW i \in 1..Len(s)
        PROVE  only[i] = IF s[i] \in K THEN Append(only[i - 1], s[i]) ELSE only[i - 1]
    <3>1. i \in 0..n /\ i # 0
          OBVIOUS
    <3> HIDE DEF n
    <3> QED  BY <2>1, <3>1
  <2> QED  BY <2>2, <2>3 DEF Collects
<1>8. only \in [0..n -> X]
  <2> DEFINE T == {i \in 0..n : only[i] \in X}
  <2> HIDE DEF only, step, Def
  <2>1. 0 \in T
    <3>1. 0 \in 0..n /\ only[0] = <<>>
          BY <1>7, <1>1 DEF Collects
    <3> HIDE DEF X, n
    <3> QED  BY <1>1, <3>1
  <2>2. ASSUME NEW i \in 0..(n - 1), i \in T PROVE i + 1 \in T
    <3>1. only[i] \in X /\ i + 1 \in 1..n /\ s[i + 1] \in S /\ (i + 1) - 1 = i
          BY <2>2
    <3>2. only[i + 1] = IF s[i + 1] \in K THEN Append(only[i], s[i + 1]) ELSE only[i]
          BY <1>7, <3>1 DEF Collects
    <3>3. only[i + 1] \in X
          BY <3>1, <3>2
    <3>4. i + 1 \in 0..n
          OBVIOUS
    <3> HIDE DEF X, n
    <3> QED  BY <3>3, <3>4
  <2>3. 0..n \subseteq T
    <3> HIDE DEF T, n, X
    <3> QED  BY <1>1, <2>1, <2>2, Induction
  <2>4. only = [i \in 0..n |-> only[i]]
        BY <1>5, Zenon DEF Def
  <2> HIDE DEF X, n
  <2> QED  BY <2>3, <2>4
<1> HIDE DEF only
<1> QED  BY <1>6, <1>7, <1>8

LEMMA OnlyIsSeq ==
  ASSUME NEW S, NEW s \in Seq(S), NEW K
  PROVE  Only(s, K) \in Seq(S)
<1>1. PICK f \in [0..Len(s) -> Seq(S)] : Only(s, K) = f[Len(s)]
      BY OnlyIsCollected
<1> QED  BY <1>1

LEMMA OnlyOfEmpty == ASSUME NEW K PROVE Only(<<>>, K) = <<>>
<1>1. <<>> \in Seq({}) /\ Len(<<>>) = 0
      OBVIOUS
<1>2. PICK f \in [0..Len(<<>>) -> Seq({})] : Collects(f, <<>>, K) /\ Only(<<>>, K) = f[Len(<<>>)]
      BY <1>1, OnlyIsCollected
<1> QED  BY <1>1, <1>2 DEF Collects

LEMMA OnlyOfAppend ==
  ASSUME NEW S, NEW s \in Seq(S), NEW e \in S, NEW K
  PROVE  Only(Append(s, e), K) = IF e \in K THEN Append(Only(s, K), e) ELSE Only(s, K)
<1> DEFINE n == Len(s)
           t == Append(s, e)
<1>1. n \in Nat /\ t \in Seq(S) /\ Len(t) = n + 1 /\ t[n + 1] = e /\ \A i \in 1..n : t[i] = s[i]
      OBVIOUS
<1>2. PICK f \in [0..Len(s) -> Seq(S)] : Collects(f, s, K) /\ Only(s, K) = f[Len(s)]
      BY OnlyIsCollected
<1>3. PICK g \in [0..Len(t) -> Seq(S)] : Collects(g, t, K) /\ Only(t, K) = g[Len(t)]
  <2> HIDE DEF n, t
  <2> QED  BY <1>1, OnlyIsCollected
<1> DEFINE T == {i \in 0..n : f[i] = g[i]}
<1> HIDE DEF t
<1>4. 0 \in T
      BY <1>1, <1>2, <1>3 DEF Collects
<1>5. ASSUME NEW i \in 0..(n - 1), i \in T PROVE i + 1 \in T
  <2>1. f[i] = g[i] /\ i + 1 \in 1..n /\ i + 1 \in 1..(n + 1) /\ (i + 1) - 1 = i
        BY <1>1, <1>5
  <2>2. t[i + 1] = s[i + 1]
        BY <1>1, <2>1
  <2>3. f[i + 1] = IF s[i + 1] \in K THEN Append(f[i], s[i + 1]) ELSE f[i]
        BY <1>2, <2>1 DEF Collects
  <2>4. g[i + 1] = IF t[i + 1] \in K THEN Append(g[i], t[i + 1]) ELSE g[i]
        BY <1>1, <1>3, <2>1 DEF Collects
  <2> QED  BY <2>1, <2>2, <2>3, <2>4
<1>6. 0..n \subseteq T
  <2> HIDE DEF T, n
  <2> QED  BY <1>1, <1>4, <1>5, Induction
<1>7. f[n] = g[n] /\ n + 1 \in 1..(n + 1) /\ (n + 1) - 1 = n
      BY <1>1, <1>6
<1>8. Only(t, K) = IF e \in K THEN Append(g[n], e) ELSE g[n]
      BY <1>1, <1>3, <1>7 DEF Collects
<1> QED  BY <1>2, <1>7, <1>8 DEF t

-----------------------------------------------------------------------------
(* Elements and their order *)

LEMMA AppendedAt ==
  ASSUME NEW S, NEW s \in Seq(S), NEW e \in S
  PROVE  /\ Append(s, e) \in Seq(S) /\ Len(Append(s, e)) = Len(s) + 1
         /\ DOMAIN s = 1..Len(s) /\ DOMAIN Append(s, e) = 1..(Len(s) + 1) /\ Len(s) \in Nat
         /\ Append(s, e)[Len(s) + 1] = e /\ \A i \in 1..Len(s) : Append(s, e)[i] = s[i]
OBVIOUS

LEMMA ToSetEmpty == ToSet(<<>>) = {}
BY DEF ToSet

\* What pushing onto a list adds to its members.
LEMMA ToSetAppend ==
  ASSUME NEW S, NEW s \in Seq(S), NEW e \in S
  PROVE  ToSet(Append(s, e)) = ToSet(s) \cup {e}
<1> DEFINE t == Append(s, e)
<1>1. /\ Len(t) = Len(s) + 1 /\ Len(s) \in Nat /\ t[Len(s) + 1] = e
      /\ \A i \in 1..Len(s) : t[i] = s[i]
      /\ DOMAIN s = 1..Len(s) /\ DOMAIN t = 1..(Len(s) + 1)
      BY AppendedAt
<1> HIDE DEF t
<1>2. \A x : (\E i \in DOMAIN t : x = t[i]) <=> x = e \/ \E i \in DOMAIN s : x = s[i]
      BY <1>1
<1>3. ToSet(t) = ToSet(s) \cup {e}
      BY <1>2, Zenon DEF ToSet
<1> QED  BY <1>3 DEF t

LEMMA ToSetIn ==
  ASSUME NEW S, NEW s \in Seq(S)
  PROVE  ToSet(s) \subseteq S /\ \A i \in 1..Len(s) : s[i] \in ToSet(s)
BY DEF ToSet

LEMMA OnlyMembers ==
  ASSUME NEW S, NEW K
  PROVE  \A s \in Seq(S) : ToSet(Only(s, K)) = ToSet(s) \cap K
<1> DEFINE Q == {s \in Seq(S) : ToSet(Only(s, K)) = ToSet(s) \cap K}
<1>1. <<>> \in Q
      BY OnlyOfEmpty, ToSetEmpty
<1>2. ASSUME NEW s \in Seq(S), NEW e \in S, s \in Q PROVE Append(s, e) \in Q
  <2>1. Append(s, e) \in Seq(S) /\ Only(s, K) \in Seq(S)
        BY OnlyIsSeq, AppendedAt
  <2>2. ToSet(Append(s, e)) = ToSet(s) \cup {e}
        BY ToSetAppend
  <2>3. CASE e \in K
    <3>1. Only(Append(s, e), K) = Append(Only(s, K), e)
          BY OnlyOfAppend, <2>3
    <3>2. ToSet(Append(Only(s, K), e)) = ToSet(Only(s, K)) \cup {e}
          BY ToSetAppend, <2>1
    <3> QED  BY <1>2, <2>1, <2>2, <2>3, <3>1, <3>2, Zenon
  <2>4. CASE e \notin K
    <3>1. Only(Append(s, e), K) = Only(s, K)
          BY OnlyOfAppend, <2>4
    <3> QED  BY <1>2, <2>1, <2>2, <2>4, <3>1, Zenon
  <2> QED  BY <2>3, <2>4
<1>3. Seq(S) \subseteq Q
  <2> HIDE DEF Q
  <2> QED  BY <1>1, <1>2, SequenceInduction
<1> QED  BY <1>3

LEMMA OnlyShorter ==
  ASSUME NEW S, NEW K
  PROVE  \A s \in Seq(S) : /\ Len(Only(s, K)) <= Len(s)
                           /\ ~(ToSet(s) \subseteq K) => Len(Only(s, K)) < Len(s)
<1> DEFINE Q == {s \in Seq(S) : /\ Len(Only(s, K)) <= Len(s)
                                /\ ~(ToSet(s) \subseteq K) => Len(Only(s, K)) < Len(s)}
<1>1. <<>> \in Q
      BY OnlyOfEmpty, ToSetEmpty
<1>2. ASSUME NEW s \in Seq(S), NEW e \in S, s \in Q PROVE Append(s, e) \in Q
  <2>1. /\ Append(s, e) \in Seq(S) /\ Only(s, K) \in Seq(S) /\ Len(s) \in Nat
        /\ Len(Append(s, e)) = Len(s) + 1 /\ Len(Only(s, K)) \in Nat
        /\ Len(Append(Only(s, K), e)) = Len(Only(s, K)) + 1
        BY OnlyIsSeq, AppendedAt
  <2>2. ToSet(Append(s, e)) = ToSet(s) \cup {e}
        BY ToSetAppend
  <2>3. Only(Append(s, e), K) = IF e \in K THEN Append(Only(s, K), e) ELSE Only(s, K)
        BY OnlyOfAppend
  <2> HIDE DEF Q
  <2>4. Len(Only(s, K)) <= Len(s) /\ (~(ToSet(s) \subseteq K) => Len(Only(s, K)) < Len(s))
        BY <1>2 DEF Q
  <2>5. CASE e \in K
        BY <2>1, <2>2, <2>3, <2>4, <2>5 DEF Q
  <2>6. CASE e \notin K
        BY <2>1, <2>2, <2>3, <2>4, <2>6 DEF Q
  <2> QED  BY <2>5, <2>6
<1>3. Seq(S) \subseteq Q
  <2> HIDE DEF Q
  <2> QED  BY <1>1, <1>2, SequenceInduction
<1> QED  BY <1>3

LEMMA OnlyAll ==
  ASSUME NEW S, NEW K
  PROVE  \A s \in Seq(S) : /\ ToSet(s) \subseteq K => Only(s, K) = s
                           /\ ToSet(s) \cap K = {} => Only(s, K) = <<>>
<1> DEFINE Q == {s \in Seq(S) : /\ ToSet(s) \subseteq K => Only(s, K) = s
                                /\ ToSet(s) \cap K = {} => Only(s, K) = <<>>}
<1>1. <<>> \in Q
      BY OnlyOfEmpty
<1>2. ASSUME NEW s \in Seq(S), NEW e \in S, s \in Q PROVE Append(s, e) \in Q
  <2>1. Append(s, e) \in Seq(S)
        BY AppendedAt
  <2>2. ToSet(Append(s, e)) = ToSet(s) \cup {e}
        BY ToSetAppend
  <2>3. Only(Append(s, e), K) = IF e \in K THEN Append(Only(s, K), e) ELSE Only(s, K)
        BY OnlyOfAppend
  <2> QED  BY <1>2, <2>1, <2>2, <2>3, Zenon
<1>3. Seq(S) \subseteq Q
  <2> HIDE DEF Q
  <2> QED  BY <1>1, <1>2, SequenceInduction
<1> QED  BY <1>3

LEMMA OnlyOfOnly ==
  ASSUME NEW S, NEW A, NEW B
  PROVE  \A s \in Seq(S) : Only(Only(s, A), B) = Only(s, A \cap B)
<1> DEFINE Q == {s \in Seq(S) : Only(Only(s, A), B) = Only(s, A \cap B)}
<1>1. <<>> \in Q
      BY OnlyOfEmpty
<1>2. ASSUME NEW s \in Seq(S), NEW e \in S, s \in Q PROVE Append(s, e) \in Q
  <2>1. Append(s, e) \in Seq(S) /\ Only(s, A) \in Seq(S)
        BY AppendedAt, OnlyIsSeq
  <2>2. /\ Only(Append(s, e), A) = IF e \in A THEN Append(Only(s, A), e) ELSE Only(s, A)
        /\ Only(Append(s, e), A \cap B)
             = IF e \in A \cap B THEN Append(Only(s, A \cap B), e) ELSE Only(s, A \cap B)
        BY OnlyOfAppend
  <2>3. Only(Append(Only(s, A), e), B)
          = IF e \in B THEN Append(Only(Only(s, A), B), e) ELSE Only(Only(s, A), B)
        BY <2>1, OnlyOfAppend
  <2>4. Only(Only(s, A), B) = Only(s, A \cap B)
        BY <1>2
  <2>5. Only(Only(Append(s, e), A), B) = Only(Append(s, e), A \cap B)
    <3>1. CASE e \in A /\ e \in B
          BY <2>2, <2>3, <2>4, <3>1, Zenon
    <3>2. CASE e \in A /\ e \notin B
          BY <2>2, <2>3, <2>4, <3>2, Zenon
    <3>3. CASE e \notin A
          BY <2>2, <2>3, <2>4, <3>3, Zenon
    <3> QED  BY <3>1, <3>2, <3>3
  <2> QED  BY <2>1, <2>5
<1>3. Seq(S) \subseteq Q
  <2> HIDE DEF Q
  <2> QED  BY <1>1, <1>2, SequenceInduction
<1> QED  BY <1>3

\* x stands before y in s.
Before(s, x, y) == \E i, j \in DOMAIN s : i < j /\ s[i] = x /\ s[j] = y

LEMMA BeforeInAppend ==
  ASSUME NEW S, NEW s \in Seq(S), NEW e \in S, NEW x, NEW y
  PROVE  Before(Append(s, e), x, y) <=> Before(s, x, y) \/ (x \in ToSet(s) /\ y = e)
<1> DEFINE t == Append(s, e)
<1>1. /\ Len(t) = Len(s) + 1 /\ Len(s) \in Nat /\ t[Len(s) + 1] = e
      /\ \A i \in 1..Len(s) : t[i] = s[i]
      /\ DOMAIN s = 1..Len(s) /\ DOMAIN t = 1..(Len(s) + 1)
      BY AppendedAt
<1> HIDE DEF t
<1>2. x \in ToSet(s) <=> \E i \in DOMAIN s : s[i] = x
      BY DEF ToSet
<1>3. ASSUME Before(t, x, y) PROVE Before(s, x, y) \/ (x \in ToSet(s) /\ y = e)
      BY <1>1, <1>2, <1>3 DEF Before
<1>4. ASSUME Before(s, x, y) PROVE Before(t, x, y)
      BY <1>1, <1>4 DEF Before
<1>5. ASSUME x \in ToSet(s), y = e PROVE Before(t, x, y)
  <2>1. PICK i \in 1..Len(s) : s[i] = x
        BY <1>1, <1>2, <1>5
  <2>2. i \in DOMAIN t /\ Len(s) + 1 \in DOMAIN t /\ i < Len(s) + 1 /\ t[i] = x
        BY <1>1, <2>1
  <2> QED  BY <1>1, <1>5, <2>2 DEF Before
<1> QED  BY <1>3, <1>4, <1>5 DEF t

\* Leaving elements out does not change the order of the others.
LEMMA OnlyKeepsOrder ==
  ASSUME NEW S, NEW K, NEW x, NEW y
  PROVE  \A s \in Seq(S) : Before(Only(s, K), x, y) => Before(s, x, y)
<1> DEFINE Q == {s \in Seq(S) : Before(Only(s, K), x, y) => Before(s, x, y)}
<1>1. <<>> \in Q
      BY OnlyOfEmpty DEF Before
<1>2. ASSUME NEW s \in Seq(S), NEW e \in S, s \in Q PROVE Append(s, e) \in Q
  <2>1. Append(s, e) \in Seq(S) /\ Only(s, K) \in Seq(S)
        BY AppendedAt, OnlyIsSeq
  <2>2. Before(Append(s, e), x, y) <=> Before(s, x, y) \/ (x \in ToSet(s) /\ y = e)
        BY BeforeInAppend
  <2>3. Before(Append(Only(s, K), e), x, y)
          <=> Before(Only(s, K), x, y) \/ (x \in ToSet(Only(s, K)) /\ y = e)
        BY <2>1, BeforeInAppend
  <2>4. Only(Append(s, e), K) = IF e \in K THEN Append(Only(s, K), e) ELSE Only(s, K)
        BY OnlyOfAppend
  <2>5. ToSet(Only(s, K)) \subseteq ToSet(s)
        BY OnlyMembers
  <2> QED  BY <1>2, <2>1, <2>2, <2>3, <2>4, <2>5, Zenon
<1>3. Seq(S) \subseteq Q
  <2> HIDE DEF Q
  <2> QED  BY <1>1, <1>2, SequenceInduction
<1> QED  BY <1>3

-----------------------------------------------------------------------------
(* Concatenations and suffixes *)

LEMMA ConcatAt ==
  ASSUME NEW S, NEW s \in Seq(S), NEW u \in Seq(S)
  PROVE  /\ s \o u \in Seq(S) /\ Len(s \o u) = Len(s) + Len(u)
         /\ DOMAIN s = 1..Len(s) /\ DOMAIN u = 1..Len(u) /\ DOMAIN (s \o u) = 1..(Len(s) + Len(u))
         /\ Len(s) \in Nat /\ Len(u) \in Nat
         /\ \A i \in 1..Len(s) : (s \o u)[i] = s[i]
         /\ \A i \in 1..Len(u) : (s \o u)[Len(s) + i] = u[i]
OBVIOUS

LEMMA ToSetConcat ==
  ASSUME NEW S, NEW s \in Seq(S), NEW u \in Seq(S)
  PROVE  ToSet(s \o u) = ToSet(s) \cup ToSet(u)
<1> DEFINE t == s \o u
<1>1. /\ DOMAIN s = 1..Len(s) /\ DOMAIN u = 1..Len(u) /\ DOMAIN t = 1..(Len(s) + Len(u))
      /\ Len(s) \in Nat /\ Len(u) \in Nat
      /\ \A i \in 1..Len(s) : t[i] = s[i]
      /\ \A i \in 1..Len(u) : t[Len(s) + i] = u[i]
      BY ConcatAt
<1> HIDE DEF t
<1>2. ASSUME NEW i \in DOMAIN t PROVE t[i] \in ToSet(s) \cup ToSet(u)
  <2>1. CASE i <= Len(s)
        BY <1>1, <1>2, <2>1 DEF ToSet
  <2>2. CASE i > Len(s)
    <3>1. i - Len(s) \in 1..Len(u) /\ Len(s) + (i - Len(s)) = i
          BY <1>1, <1>2, <2>2
    <3>2. t[i] = u[i - Len(s)] /\ i - Len(s) \in DOMAIN u
          BY <1>1, <3>1
    <3> QED  BY <3>2 DEF ToSet
  <2> QED  BY <1>1, <2>1, <2>2
<1>3. ASSUME NEW i \in DOMAIN s PROVE s[i] \in ToSet(t)
  <2>1. i \in DOMAIN t /\ t[i] = s[i]
        BY <1>1
  <2> QED  BY <2>1 DEF ToSet
<1>4. ASSUME NEW i \in DOMAIN u PROVE u[i] \in ToSet(t)
  <2>1. Len(s) + i \in DOMAIN t /\ t[Len(s) + i] = u[i]
        BY <1>1
  <2> QED  BY <2>1 DEF ToSet
<1>5. ToSet(t) = ToSet(s) \cup ToSet(u)
      BY <1>2, <1>3, <1>4 DEF ToSet
<1> QED  BY <1>5 DEF t

LEMMA ConcatAppend ==
  ASSUME NEW S, NEW s \in Seq(S), NEW u \in Seq(S), NEW e \in S
  PROVE  s \o Append(u, e) = Append(s \o u, e)
OBVIOUS

LEMMA OnlyOfConcat ==
  ASSUME NEW S, NEW K, NEW s \in Seq(S)
  PROVE  \A u \in Seq(S) : Only(s \o u, K) = Only(s, K) \o Only(u, K)
<1> DEFINE Q == {u \in Seq(S) : Only(s \o u, K) = Only(s, K) \o Only(u, K)}
<1>1. <<>> \in Q
  <2>1. s \o <<>> = s /\ Only(s, K) \in Seq(S)
        BY OnlyIsSeq
  <2>2. Only(s, K) \o <<>> = Only(s, K)
        BY <2>1
  <2> QED  BY <2>1, <2>2, OnlyOfEmpty
<1>2. ASSUME NEW u \in Seq(S), NEW e \in S, u \in Q PROVE Append(u, e) \in Q
  <2>1. /\ Append(u, e) \in Seq(S) /\ s \o u \in Seq(S)
        /\ Only(u, K) \in Seq(S) /\ Only(s, K) \in Seq(S)
        BY AppendedAt, OnlyIsSeq, ConcatAt
  <2>2. s \o Append(u, e) = Append(s \o u, e)
        BY ConcatAppend
  <2>3. Only(Append(s \o u, e), K)
          = IF e \in K THEN Append(Only(s \o u, K), e) ELSE Only(s \o u, K)
        BY <2>1, OnlyOfAppend
  <2>4. Only(Append(u, e), K) = IF e \in K THEN Append(Only(u, K), e) ELSE Only(u, K)
        BY OnlyOfAppend
  <2>5. Only(s, K) \o Append(Only(u, K), e) = Append(Only(s, K) \o Only(u, K), e)
        BY <2>1, ConcatAppend
  <2> QED  BY <1>2, <2>1, <2>2, <2>3, <2>4, <2>5, Zenon
<1>3. Seq(S) \subseteq Q
  <2> HIDE DEF Q
  <2> QED  BY <1>1, <1>2, SequenceInduction
<1> QED  BY <1>3

\* s is a, of length n, and then b.
CutsAt(s, n, a, b) ==
  /\ s = a \o b /\ Len(a) = n /\ Len(b) = Len(s) - n
  /\ \A i \in 1..n : a[i] = s[i]
  /\ \A i \in 1..(Len(s) - n) : b[i] = s[n + i]

LEMMA Cut ==
  ASSUME NEW S, NEW s \in Seq(S), NEW n \in 0..Len(s)
  PROVE  /\ SubSeq(s, 1, n) \in Seq(S) /\ SubSeq(s, n + 1, Len(s)) \in Seq(S)
         /\ CutsAt(s, n, SubSeq(s, 1, n), SubSeq(s, n + 1, Len(s)))
<1> DEFINE a == SubSeq(s, 1, n)
           b == SubSeq(s, n + 1, Len(s))
<1>1. a \in Seq(S) /\ Len(a) = n /\ \A i \in 1..n : a[i] = s[i]
      OBVIOUS
<1>2. b \in Seq(S)
      OBVIOUS
<1>3. Len(b) = Len(s) - n
      OBVIOUS
<1>4. \A i \in 1..(Len(s) - n) : b[i] = s[n + i]
      OBVIOUS
<1> HIDE DEF a, b
<1>5. Len(s) \in Nat /\ DOMAIN s = 1..Len(s) /\ n \in Int
      OBVIOUS
<1>6. /\ a \o b \in Seq(S) /\ Len(a \o b) = Len(s)
      /\ \A i \in 1..n : (a \o b)[i] = a[i]
      /\ \A i \in 1..(Len(s) - n) : (a \o b)[n + i] = b[i]
      BY <1>1, <1>2, <1>3, <1>5, ConcatAt
<1>7. ASSUME NEW i \in 1..Len(s) PROVE s[i] = (a \o b)[i]
  <2>1. CASE i <= n
        BY <1>1, <1>6, <2>1
  <2>2. CASE i > n
    <3>1. i - n \in 1..(Len(s) - n) /\ n + (i - n) = i
          BY <1>5, <2>2
    <3> QED  BY <1>4, <1>6, <3>1
  <2>3. i <= n \/ i > n
        BY <1>5
  <2> QED  BY <2>1, <2>2, <2>3
<1>8. s = a \o b
  <2> DEFINE t == a \o b
  <2>1. t \in Seq(S) /\ Len(t) = Len(s) /\ \A i \in 1..Len(s) : s[i] = t[i]
        BY <1>6, <1>7
  <2> HIDE DEF t
  <2>2. s = t
        BY <2>1
  <2> QED  BY <2>2 DEF t
<1>9. CutsAt(s, n, a, b)
      BY <1>1, <1>3, <1>4, <1>8 DEF CutsAt
<1> QED  BY <1>1, <1>2, <1>9 DEF a, b

\* In a sequence without duplicates, a suffix is what is left of its elements.
LEMMA SuffixIsOnly ==
  ASSUME NEW S, NEW s \in Seq(S), NEW n \in 0..Len(s),
         \A i, j \in DOMAIN s : s[i] = s[j] => i = j
  PROVE  Only(s, ToSet(SubSeq(s, n + 1, Len(s)))) = SubSeq(s, n + 1, Len(s))
<1> DEFINE a == SubSeq(s, 1, n)
           b == SubSeq(s, n + 1, Len(s))
<1>0. a \in Seq(S) /\ b \in Seq(S) /\ CutsAt(s, n, a, b)
      BY Cut
<1> HIDE DEF a, b
<1>1. /\ a \in Seq(S) /\ b \in Seq(S) /\ s = a \o b
      /\ Len(a) = n /\ Len(b) = Len(s) - n
      /\ \A i \in 1..n : a[i] = s[i]
      /\ \A i \in 1..(Len(s) - n) : b[i] = s[n + i]
      BY <1>0 DEF CutsAt
<1>2. /\ DOMAIN a = 1..n /\ DOMAIN b = 1..(Len(s) - n)
      /\ DOMAIN s = 1..Len(s) /\ Len(s) \in Nat
      BY <1>1
<1>3. ToSet(a) \cap ToSet(b) = {}
  <2> SUFFICES ASSUME NEW i \in DOMAIN a, NEW j \in DOMAIN b, a[i] = b[j] PROVE FALSE
      BY DEF ToSet
  <2>1. i \in DOMAIN s /\ n + j \in DOMAIN s /\ s[i] = s[n + j] /\ i # n + j
        BY <1>1, <1>2
  <2> QED  BY <2>1
<1>4. Only(a, ToSet(b)) = <<>> /\ Only(b, ToSet(b)) = b
      BY <1>1, <1>3, OnlyAll
<1>5. Only(a \o b, ToSet(b)) = Only(a, ToSet(b)) \o Only(b, ToSet(b))
      BY <1>1, OnlyOfConcat
<1>6. <<>> \o b = b
      BY <1>1
<1>7. Only(s, ToSet(b)) = b
      BY <1>1, <1>4, <1>5, <1>6, Zenon
<1> QED  BY <1>7 DEF b

-----------------------------------------------------------------------------
(* Folds *)

\* A fold over all of 1..n takes the numbers in their order.
LEMMA FoldsInOrder ==
  ASSUME NEW n \in Nat, NEW i \in 0..(n - 1)
  PROVE  /\ 1..(i + 1) \in SUBSET (1..n) /\ 1..(i + 1) # {}
         /\ Max(1..(i + 1)) = i + 1 /\ (1..(i + 1)) \ {i + 1} = 1..i
<1>1. i \in Nat /\ i + 1 <= n /\ i + 1 \in 1..(i + 1)
      OBVIOUS
<1>2. Max(1..(i + 1)) = i + 1
  <2>1. 1..(i + 1) \subseteq Int /\ \A y \in 1..(i + 1) : i + 1 >= y
        OBVIOUS
  <2> QED  BY <1>1, <2>1, MaxIs
<1>3. \A y : y \in (1..(i + 1)) \ {i + 1} <=> y \in 1..i
      BY <1>1
<1>4. (1..(i + 1)) \ {i + 1} = 1..i
      BY <1>3, Zenon
<1>5. \A y \in 1..(i + 1) : y \in 1..n
      BY <1>1
<1> QED  BY <1>1, <1>2, <1>4, <1>5, Zenon

-----------------------------------------------------------------------------
(* The sizes of the stored results *)

Sized(S) == \A e \in S : e.bytes \in Nat

Sums(g, s) == g[0] = 0 /\ \A i \in 1..Len(s) : g[i] = g[i - 1] + s[i].bytes

\* The total is what adding the sizes one by one, from the oldest on, comes to.
LEMMA TotalIsSum ==
  ASSUME NEW S, Sized(S), NEW s \in Seq(S)
  PROVE  \E g \in [0..Len(s) -> Nat] : Sums(g, s) /\ TotalBytes(s) = g[Len(s)]
<1> DEFINE n == Len(s)
           step == [i \in 1..n |-> [x \in Nat |-> x + s[i].bytes]]
           Def(f) == [t \in SUBSET DOMAIN s |->
                        IF t = {} THEN 0
                        ELSE LET x == Max(t) IN f[t \ {x}] + s[x].bytes]
           iter == CHOOSE f : f = Def(f)
<1>1. n \in Nat /\ DOMAIN s = 1..n /\ \A i \in 1..n : s[i].bytes \in Nat
      BY DEF Sized
<1>2. step \in [1..n -> [Nat -> Nat]]
      BY <1>1
<1>3. PICK f \in [SUBSET (1..n) -> Nat] : FoldsOver(f, n, 0, step)
  <2> HIDE DEF n, step
  <2> QED  BY <1>1, <1>2, FoldExists
<1>4. f = Def(f)
  <2>1. ASSUME NEW t \in SUBSET (1..n)
        PROVE  f[t] = IF t = {} THEN 0 ELSE f[t \ {Max(t)}] + s[Max(t)].bytes
    <3>1. CASE t = {}
      <4> HIDE DEF n, step
      <4> QED  BY <1>3, <3>1 DEF FoldsOver
    <3>2. CASE t # {}
      <4>1. Max(t) \in 1..n
        <5> HIDE DEF n, step
        <5>1. Max(t) \in t
              BY <1>1, <3>2, MaxExists
        <5> QED  BY <5>1
      <4>2. f[t] = step[Max(t)][f[t \ {Max(t)}]] /\ f[t \ {Max(t)}] \in Nat
        <5> HIDE DEF n, step
        <5>1. t \ {Max(t)} \in SUBSET (1..n)
              OBVIOUS
        <5> QED  BY <1>3, <3>2, <5>1 DEF FoldsOver
      <4>3. \A x \in Nat : step[Max(t)][x] = x + s[Max(t)].bytes
            BY <4>1
      <4> HIDE DEF step, n
      <4> QED  BY <3>2, <4>2, <4>3
    <3> QED  BY <3>1, <3>2
  <2>2. f = [t \in SUBSET (1..n) |-> f[t]]
    <3> HIDE DEF step, n
    <3> QED  BY <1>3
  <2> HIDE DEF step, n
  <2>3. Def(f) = [t \in SUBSET (1..n) |-> IF t = {} THEN 0 ELSE f[t \ {Max(t)}] + s[Max(t)].bytes]
        BY <1>1
  <2> QED  BY <2>1, <2>2, <2>3
<1>5. iter = Def(iter)
  <2> HIDE DEF Def
  <2> QED  BY <1>4, Zenon
<1>6. TotalBytes(s) = iter[DOMAIN s]
      BY DEF TotalBytes, FoldLeft, MapThenFoldSet
<1> HIDE DEF iter, step
<1>7. \A t \in SUBSET (1..n) : iter[t] = IF t = {} THEN 0 ELSE iter[t \ {Max(t)}] + s[Max(t)].bytes
      BY <1>1, <1>5, Zenon
<1> HIDE DEF Def, n
<1> DEFINE g == [i \in 0..n |-> iter[1..i]]
<1>8. Sums(g, s)
  <2>1. 1..0 = {} /\ {} \in SUBSET (1..n) /\ 0 \in 0..n
        BY <1>1
  <2>2. iter[{}] = 0
        BY <1>7, <2>1, Zenon
  <2>3. ASSUME NEW i \in 1..n PROVE iter[1..i] = iter[1..(i - 1)] + s[i].bytes
    <3>1. i - 1 \in 0..(n - 1) /\ (i - 1) + 1 = i
          BY <1>1
    <3>2. 1..i \in SUBSET (1..n) /\ 1..i # {} /\ Max(1..i) = i /\ (1..i) \ {i} = 1..(i - 1)
          BY <1>1, <3>1, FoldsInOrder
    <3> QED  BY <1>7, <3>2
  <2>4. \A i \in 1..n : i \in 0..n /\ i - 1 \in 0..n
        BY <1>1
  <2>5. g[0] = 0
        BY <2>1, <2>2
  <2>6. \A i \in 1..n : g[i] = g[i - 1] + s[i].bytes
        BY <2>3, <2>4
  <2> QED  BY <2>5, <2>6 DEF Sums, n
<1>9. \A i \in 0..n : g[i] \in Nat
  <2> DEFINE T == {i \in 0..n : g[i] \in Nat}
  <2> HIDE DEF g
  <2>1. 0 \in T
        BY <1>1, <1>8 DEF Sums
  <2>2. ASSUME NEW i \in 0..(n - 1), i \in T PROVE i + 1 \in T
    <3>1. i + 1 \in 1..n /\ (i + 1) - 1 = i /\ i + 1 \in 0..n
          BY <1>1
    <3>2. g[i + 1] = g[i] + s[i + 1].bytes
          BY <1>8, <3>1 DEF Sums, n
    <3> QED  BY <1>1, <2>2, <3>1, <3>2
  <2>3. 0..n \subseteq T
    <3> HIDE DEF T
    <3> QED  BY <1>1, <2>1, <2>2, Induction
  <2> QED  BY <2>3
<1>10. g \in [0..n -> Nat] /\ TotalBytes(s) = g[n]
  <2>1. n \in 0..n
        BY <1>1
  <2> QED  BY <1>1, <1>6, <1>9, <2>1
<1> HIDE DEF g
<1> QED  BY <1>8, <1>10 DEF n

LEMMA TotalOfEmpty == TotalBytes(<<>>) = 0
<1>1. <<>> \in Seq({}) /\ Len(<<>>) = 0 /\ Sized({})
      BY DEF Sized
<1>2. PICK g \in [0..Len(<<>>) -> Nat] : Sums(g, <<>>) /\ TotalBytes(<<>>) = g[Len(<<>>)]
      BY <1>1, TotalIsSum
<1> QED  BY <1>1, <1>2 DEF Sums

LEMMA TotalIsNat ==
  ASSUME NEW S, Sized(S), NEW s \in Seq(S)
  PROVE  TotalBytes(s) \in Nat
<1>1. PICK g \in [0..Len(s) -> Nat] : TotalBytes(s) = g[Len(s)]
      BY TotalIsSum
<1> QED  BY <1>1

\* Sequences that begin with the same sizes.
LEMMA SumsAgree ==
  ASSUME NEW S, Sized(S), NEW s \in Seq(S), NEW t \in Seq(S), Len(s) <= Len(t),
         \A i \in 1..Len(s) : t[i].bytes = s[i].bytes,
         NEW f, Sums(f, s), NEW g, Sums(g, t)
  PROVE  f[Len(s)] = g[Len(s)]
<1> DEFINE n == Len(s)
           T == {i \in 0..n : f[i] = g[i]}
<1>1. n \in Nat /\ Len(t) \in Nat /\ n <= Len(t)
      OBVIOUS
<1>2. 0 \in T
      BY <1>1 DEF Sums
<1>3. ASSUME NEW i \in 0..(n - 1), i \in T PROVE i + 1 \in T
  <2>1. f[i] = g[i] /\ i + 1 \in 1..Len(s) /\ i + 1 \in 1..Len(t) /\ (i + 1) - 1 = i
        BY <1>1, <1>3
  <2>2. f[i + 1] = f[i] + s[i + 1].bytes
        BY <2>1 DEF Sums
  <2>3. g[i + 1] = g[i] + t[i + 1].bytes
        BY <2>1 DEF Sums
  <2> QED  BY <1>1, <2>1, <2>2, <2>3
<1>4. 0..n \subseteq T
  <2> HIDE DEF T, n
  <2> QED  BY <1>1, <1>2, <1>3, Induction
<1> QED  BY <1>1, <1>4

LEMMA TotalAgrees ==
  ASSUME NEW S, Sized(S), NEW s \in Seq(S), NEW t \in Seq(S), Len(s) = Len(t),
         \A i \in 1..Len(s) : t[i].bytes = s[i].bytes
  PROVE  TotalBytes(t) = TotalBytes(s)
<1>1. PICK f \in [0..Len(s) -> Nat] : Sums(f, s) /\ TotalBytes(s) = f[Len(s)]
      BY TotalIsSum
<1>2. PICK g \in [0..Len(t) -> Nat] : Sums(g, t) /\ TotalBytes(t) = g[Len(t)]
      BY TotalIsSum
<1> QED  BY <1>1, <1>2, SumsAgree

LEMMA TotalOfAppend ==
  ASSUME NEW S, Sized(S), NEW s \in Seq(S), NEW e \in S
  PROVE  TotalBytes(Append(s, e)) = TotalBytes(s) + e.bytes
<1> DEFINE n == Len(s)
           t == Append(s, e)
<1>1. /\ n \in Nat /\ t \in Seq(S) /\ Len(t) = n + 1 /\ t[n + 1] = e
      /\ \A i \in 1..n : t[i] = s[i]
      BY AppendedAt
<1>2. PICK f \in [0..Len(s) -> Nat] : Sums(f, s) /\ TotalBytes(s) = f[Len(s)]
      BY TotalIsSum
<1> HIDE DEF t
<1>3. PICK g \in [0..Len(t) -> Nat] : Sums(g, t) /\ TotalBytes(t) = g[Len(t)]
      BY <1>1, TotalIsSum
<1>4. f[n] = g[n]
      BY <1>1, <1>2, <1>3, SumsAgree
<1>5. n + 1 \in 1..(n + 1) /\ (n + 1) - 1 = n
      BY <1>1
<1>6. TotalBytes(t) = g[n] + e.bytes
      BY <1>1, <1>3, <1>5 DEF Sums
<1> QED  BY <1>2, <1>4, <1>6 DEF t

\* What is left out is not counted any more.
LEMMA TotalOfOnly ==
  ASSUME NEW S, Sized(S), NEW K
  PROVE  \A s \in Seq(S) : /\ TotalBytes(Only(s, K)) <= TotalBytes(s)
                           /\ \A x \in ToSet(s) \ K :
                                TotalBytes(Only(s, K)) + x.bytes <= TotalBytes(s)
<1> DEFINE Less(s) == /\ TotalBytes(Only(s, K)) <= TotalBytes(s)
                      /\ \A x \in ToSet(s) \ K :
                           TotalBytes(Only(s, K)) + x.bytes <= TotalBytes(s)
           Q == {s \in Seq(S) : Less(s)}
<1>1. <<>> \in Q
      BY OnlyOfEmpty, ToSetEmpty, TotalOfEmpty
<1>2. ASSUME NEW s \in Seq(S), NEW e \in S, s \in Q PROVE Append(s, e) \in Q
  <2>1. Append(s, e) \in Seq(S) /\ Only(s, K) \in Seq(S) /\ e.bytes \in Nat
        BY AppendedAt, OnlyIsSeq DEF Sized
  <2>2. ToSet(Append(s, e)) = ToSet(s) \cup {e} /\ \A x \in ToSet(s) : x.bytes \in Nat
        BY ToSetAppend, ToSetIn DEF Sized
  <2>3. Only(Append(s, e), K) = IF e \in K THEN Append(Only(s, K), e) ELSE Only(s, K)
        BY OnlyOfAppend
  <2>4. /\ TotalBytes(Append(s, e)) = TotalBytes(s) + e.bytes
        /\ TotalBytes(Append(Only(s, K), e)) = TotalBytes(Only(s, K)) + e.bytes
        /\ TotalBytes(s) \in Nat /\ TotalBytes(Only(s, K)) \in Nat
        BY <2>1, TotalOfAppend, TotalIsNat
  <2>5. Less(s)
        BY <1>2
  <2>6. CASE e \in K
    <3>1. TotalBytes(Only(Append(s, e), K)) = TotalBytes(Only(s, K)) + e.bytes
          BY <2>3, <2>4, <2>6
    <3> QED  BY <2>1, <2>2, <2>4, <2>5, <2>6, <3>1
  <2>7. CASE e \notin K
    <3>1. TotalBytes(Only(Append(s, e), K)) = TotalBytes(Only(s, K))
          BY <2>3, <2>7
    <3> QED  BY <2>1, <2>2, <2>4, <2>5, <2>7, <3>1
  <2> QED  BY <2>6, <2>7
<1>3. Seq(S) \subseteq Q
  <2> HIDE DEF Q
  <2> QED  BY <1>1, <1>2, SequenceInduction
<1> QED  BY <1>3

-----------------------------------------------------------------------------
(* The fingerprints *)

\* One entry at most for a fingerprint.
Unique(rs) == \A i, j \in DOMAIN rs : rs[i].fp = rs[j].fp => i = j

FpsOf(rs) == {e.fp : e \in ToSet(rs)}

LEMMA HasInFps ==
  ASSUME NEW S, NEW rs \in Seq(S), NEW fp
  PROVE  Has(rs, fp) <=> fp \in FpsOf(rs)
BY DEF Has, FpsOf, ToSet

\* Where fingerprints are unique, the entry of one is the only element that has it.
LEMMA EntryIs ==
  ASSUME NEW S, NEW rs \in Seq(S), Unique(rs), NEW e \in ToSet(rs)
  PROVE  Has(rs, e.fp) /\ EntryOf(rs, e.fp) = e
<1>1. PICK i \in DOMAIN rs : rs[i] = e
      BY DEF ToSet
<1>2. \A j \in DOMAIN rs : rs[j].fp = e.fp => j = i
      BY <1>1 DEF Unique
<1>3. (CHOOSE j \in DOMAIN rs : rs[j].fp = e.fp) = i
      BY <1>1, <1>2
<1> QED  BY <1>1, <1>3 DEF Has, EntryOf

LEMMA EntryIn ==
  ASSUME NEW S, NEW rs \in Seq(S), NEW fp, Has(rs, fp)
  PROVE  EntryOf(rs, fp) \in ToSet(rs) /\ EntryOf(rs, fp).fp = fp
<1> DEFINE i == CHOOSE j \in DOMAIN rs : rs[j].fp = fp
<1>1. i \in DOMAIN rs /\ rs[i].fp = fp
      BY Zenon DEF Has
<1>2. EntryOf(rs, fp) = rs[i]
      BY DEF EntryOf
<1> HIDE DEF i
<1> QED  BY <1>1, <1>2 DEF ToSet

LEMMA UniqueAppend ==
  ASSUME NEW S, NEW rs \in Seq(S), NEW e \in S
  PROVE  Unique(Append(rs, e)) <=> Unique(rs) /\ e.fp \notin FpsOf(rs)
<1> DEFINE t == Append(rs, e)
<1>1. /\ Len(rs) \in Nat /\ DOMAIN rs = 1..Len(rs) /\ DOMAIN t = 1..(Len(rs) + 1)
      /\ t[Len(rs) + 1] = e /\ \A i \in 1..Len(rs) : t[i] = rs[i]
      BY AppendedAt
<1> HIDE DEF t
<1>2. e.fp \in FpsOf(rs) <=> \E i \in DOMAIN rs : rs[i].fp = e.fp
      BY DEF FpsOf, ToSet
<1>3. ASSUME Unique(t) PROVE Unique(rs) /\ e.fp \notin FpsOf(rs)
      BY <1>1, <1>2, <1>3 DEF Unique
<1>4. ASSUME Unique(rs), e.fp \notin FpsOf(rs) PROVE Unique(t)
      BY <1>1, <1>2, <1>4 DEF Unique
<1> QED  BY <1>3, <1>4 DEF t

LEMMA UniqueOnly ==
  ASSUME NEW S, NEW K
  PROVE  \A rs \in Seq(S) : Unique(rs) => Unique(Only(rs, K))
<1> DEFINE Q == {rs \in Seq(S) : Unique(rs) => Unique(Only(rs, K))}
<1>1. <<>> \in Q
      BY OnlyOfEmpty
<1>2. ASSUME NEW rs \in Seq(S), NEW e \in S, rs \in Q PROVE Append(rs, e) \in Q
  <2>1. Append(rs, e) \in Seq(S) /\ Only(rs, K) \in Seq(S)
        BY AppendedAt, OnlyIsSeq
  <2>2. Only(Append(rs, e), K) = IF e \in K THEN Append(Only(rs, K), e) ELSE Only(rs, K)
        BY OnlyOfAppend
  <2>3. /\ Unique(Append(rs, e)) <=> Unique(rs) /\ e.fp \notin FpsOf(rs)
        /\ Unique(Append(Only(rs, K), e)) <=> Unique(Only(rs, K)) /\ e.fp \notin FpsOf(Only(rs, K))
        BY <2>1, UniqueAppend
  <2>4. FpsOf(Only(rs, K)) \subseteq FpsOf(rs)
        BY OnlyMembers DEF FpsOf
  <2> QED  BY <1>2, <2>1, <2>2, <2>3, <2>4
<1>3. Seq(S) \subseteq Q
  <2> HIDE DEF Q
  <2> QED  BY <1>1, <1>2, SequenceInduction
<1> QED  BY <1>3

-----------------------------------------------------------------------------
(* What the operations leave *)

LEMMA WithoutLeaves ==
  ASSUME NEW S, NEW rs \in Seq(S), NEW fp
  PROVE  /\ Without(rs, fp) \in Seq(S)
         /\ ToSet(Without(rs, fp)) = {e \in ToSet(rs) : e.fp # fp}
         /\ Unique(rs) => Unique(Without(rs, fp))
         /\ Len(Without(rs, fp)) <= Len(rs)
         /\ Has(rs, fp) => Len(Without(rs, fp)) < Len(rs)
<1> DEFINE K == {e \in ToSet(rs) : e.fp # fp}
<1>1. Only(rs, K) \in Seq(S)
      BY OnlyIsSeq
<1>2. ToSet(Only(rs, K)) = ToSet(rs) \cap K
      BY OnlyMembers
<1>3. Unique(rs) => Unique(Only(rs, K))
      BY UniqueOnly
<1>4. /\ Len(Only(rs, K)) <= Len(rs)
      /\ ~(ToSet(rs) \subseteq K) => Len(Only(rs, K)) < Len(rs)
      BY OnlyShorter
<1>5. Has(rs, fp) => ~(ToSet(rs) \subseteq K)
      BY EntryIn
<1>6. Without(rs, fp) = Only(rs, K)
      BY DEF Without
<1>7. K = ToSet(rs) \cap K
      OBVIOUS
<1> HIDE DEF K
<1>8. ToSet(Without(rs, fp)) = K
      BY <1>2, <1>6, <1>7
<1> QED  BY <1>1, <1>3, <1>4, <1>5, <1>6, <1>8 DEF K

LEMMA SweptLeaves ==
  ASSUME NEW S, NEW rs \in Seq(S), NEW now
  PROVE  /\ Swept(rs, now) \in Seq(S)
         /\ ToSet(Swept(rs, now)) = {e \in ToSet(rs) : ~Expired(e, now)}
         /\ Unique(rs) => Unique(Swept(rs, now))
         /\ Len(Swept(rs, now)) <= Len(rs)
<1> DEFINE K == {e \in ToSet(rs) : ~Expired(e, now)}
<1>1. Only(rs, K) \in Seq(S)
      BY OnlyIsSeq
<1>2. ToSet(Only(rs, K)) = ToSet(rs) \cap K
      BY OnlyMembers
<1>3. Unique(rs) => Unique(Only(rs, K))
      BY UniqueOnly
<1>4. Len(Only(rs, K)) <= Len(rs)
      BY OnlyShorter
<1>5. Swept(rs, now) = Only(rs, K)
      BY DEF Swept
<1>6. K = ToSet(rs) \cap K
      OBVIOUS
<1> HIDE DEF K
<1>7. ToSet(Swept(rs, now)) = K
      BY <1>2, <1>5, <1>6
<1> QED  BY <1>1, <1>3, <1>4, <1>5, <1>7 DEF K

LEMMA DroppingLeaves ==
  ASSUME NEW S, NEW rs \in Seq(S), NEW n \in 0..Len(rs)
  PROVE  /\ Dropping(rs, n) \in Seq(S) /\ Len(Dropping(rs, n)) = Len(rs) - n
         /\ ToSet(Dropping(rs, n)) \subseteq ToSet(rs)
         /\ \A i \in 1..(Len(rs) - n) : Dropping(rs, n)[i] = rs[n + i]
         /\ Unique(rs) => Unique(Dropping(rs, n))
<1> DEFINE b == Dropping(rs, n)
<1>0. b \in Seq(S) /\ CutsAt(rs, n, SubSeq(rs, 1, n), b)
      BY Cut DEF Dropping
<1>1. /\ Len(b) = Len(rs) - n
      /\ \A i \in 1..(Len(rs) - n) : b[i] = rs[n + i]
      BY <1>0 DEF CutsAt
<1> HIDE DEF b
<1>2. DOMAIN b = 1..(Len(rs) - n) /\ DOMAIN rs = 1..Len(rs) /\ Len(rs) \in Nat
      BY <1>0, <1>1
<1>3. ASSUME NEW i \in DOMAIN b PROVE n + i \in DOMAIN rs /\ b[i] = rs[n + i]
      BY <1>1, <1>2
<1>4. ToSet(b) \subseteq ToSet(rs)
      BY <1>3 DEF ToSet
<1>5. ASSUME Unique(rs) PROVE Unique(b)
  <2> SUFFICES ASSUME NEW i \in DOMAIN b, NEW j \in DOMAIN b, b[i].fp = b[j].fp PROVE i = j
      BY DEF Unique
  <2>1. n + i = n + j
        BY <1>3, <1>5 DEF Unique
  <2> QED  BY <1>2, <2>1
<1> QED  BY <1>0, <1>1, <1>4, <1>5 DEF b

\* The eviction loop ends: at the latest, an empty store fits.
LEMMA TrimmedDrops ==
  ASSUME NEW S, NEW rs \in Seq(S)
  PROVE  \E n \in 0..Len(rs) : /\ Trimmed(rs) = Dropping(rs, n) /\ Fits(Dropping(rs, n))
                               /\ \A k \in 0..(n - 1) : ~Fits(Dropping(rs, k))
<1> DEFINE T == {n \in 0..Len(rs) : Fits(Dropping(rs, n))}
           Least(n) == Fits(Dropping(rs, n)) /\ \A k \in 0..(n - 1) : ~Fits(Dropping(rs, k))
           m == CHOOSE n \in 0..Len(rs) : Least(n)
<1>1. Len(rs) \in 0..Len(rs) /\ Len(rs) \in Nat
      OBVIOUS
<1>2. Dropping(rs, Len(rs)) = <<>>
  <2>1. Dropping(rs, Len(rs)) \in Seq(S) /\ Len(Dropping(rs, Len(rs))) = Len(rs) - Len(rs)
        BY <1>1, DroppingLeaves
  <2> DEFINE d == Dropping(rs, Len(rs))
  <2> HIDE DEF d
  <2>2. d \in Seq(S) /\ Len(d) = 0
        BY <1>1, <2>1 DEF d
  <2>3. d = <<>>
        BY <2>2
  <2> QED  BY <2>3 DEF d
<1>3. Fits(<<>>)
      BY TotalOfEmpty, StoreAssumption DEF Fits
<1>4. T \subseteq Nat /\ T # {}
      BY <1>1, <1>2, <1>3
<1>5. PICK n \in T : \A y \in T : n <= y
  <2> HIDE DEF T
  <2> QED  BY <1>4, LeastNumber
<1>6. n \in 0..Len(rs) /\ Fits(Dropping(rs, n))
      BY <1>5
<1>7. ASSUME NEW k \in 0..(n - 1) PROVE ~Fits(Dropping(rs, k))
  <2>1. k \in 0..Len(rs) /\ ~(n <= k)
        BY <1>1, <1>6
  <2> QED  BY <1>5, <2>1
<1>8. m \in 0..Len(rs) /\ Least(m)
  <2>1. Least(n)
        BY <1>6, <1>7
  <2> HIDE DEF Least
  <2> QED  BY <1>6, <2>1, Zenon
<1>9. Trimmed(rs) = Dropping(rs, m)
      BY DEF Trimmed
<1> HIDE DEF m
<1> QED  BY <1>8, <1>9

\* put drops the old entry of the fingerprint and makes room; nothing else comes in.
LEMMA PutLeaves ==
  ASSUME NEW S, Sized(S), NEW rs \in Seq(S), NEW e \in S
  PROVE  /\ AfterPut(rs, e) \in Seq(S)
         /\ ToSet(AfterPut(rs, e)) \subseteq ToSet(rs) \cup {e}
         /\ e.bytes <= MaxEntryBytes =>
              \A x \in ToSet(AfterPut(rs, e)) : x = e \/ (x \in ToSet(rs) /\ x.fp # e.fp)
         /\ Fits(rs) => Fits(AfterPut(rs, e))
         /\ Unique(rs) => Unique(AfterPut(rs, e))
<1>1. CASE e.bytes > MaxEntryBytes
  <2>1. AfterPut(rs, e) = rs
        BY <1>1 DEF AfterPut
  <2>2. ~(e.bytes <= MaxEntryBytes)
        BY <1>1, StoreAssumption DEF Sized
  <2> QED  BY <2>1, <2>2
<1>2. CASE ~(e.bytes > MaxEntryBytes)
  <2> DEFINE w == Without(rs, e.fp)
             t == Append(w, e)
  <2>1. /\ w \in Seq(S) /\ ToSet(w) = {x \in ToSet(rs) : x.fp # e.fp}
        /\ Unique(rs) => Unique(w)
        BY WithoutLeaves
  <2> HIDE DEF w
  <2>2. t \in Seq(S) /\ ToSet(t) = ToSet(w) \cup {e}
        BY <2>1, AppendedAt, ToSetAppend
  <2>3. Unique(rs) => Unique(t)
    <3>1. e.fp \notin FpsOf(w)
          BY <2>1 DEF FpsOf
    <3> QED  BY <2>1, <3>1, UniqueAppend
  <2>4. AfterPut(rs, e) = Trimmed(t)
        BY <1>2 DEF AfterPut, w
  <2> HIDE DEF t
  <2>5. PICK n \in 0..Len(t) : Trimmed(t) = Dropping(t, n) /\ Fits(Dropping(t, n))
        BY <2>2, TrimmedDrops
  <2>6. /\ Trimmed(t) \in Seq(S) /\ ToSet(Trimmed(t)) \subseteq ToSet(t)
        /\ Unique(t) => Unique(Trimmed(t))
        BY <2>2, <2>5, DroppingLeaves
  <2> QED  BY <2>1, <2>2, <2>3, <2>4, <2>5, <2>6
<1> QED  BY <1>1, <1>2

LEMMA OnlyFits ==
  ASSUME NEW S, Sized(S), NEW rs \in Seq(S), NEW K, Fits(rs)
  PROVE  Fits(Only(rs, K))
<1>1. Only(rs, K) \in Seq(S) /\ Len(Only(rs, K)) \in Nat /\ Len(rs) \in Nat
      BY OnlyIsSeq
<1>2. Len(Only(rs, K)) <= Len(rs) /\ TotalBytes(Only(rs, K)) <= TotalBytes(rs)
      BY OnlyShorter, TotalOfOnly
<1>3. TotalBytes(Only(rs, K)) \in Nat /\ TotalBytes(rs) \in Nat
      BY <1>1, TotalIsNat
<1> QED  BY <1>1, <1>2, <1>3, StoreAssumption DEF Fits

\* touch puts back the entry it took out.
LEMMA TouchedLeaves ==
  ASSUME NEW S, Sized(S), NEW rs \in Seq(S), NEW fp, Has(rs, fp), NEW now
  PROVE  /\ Touched(rs, fp, now) \in Seq(S)
         /\ ToSet(Touched(rs, fp, now)) \subseteq ToSet(rs)
         /\ Unique(rs) => /\ Unique(Touched(rs, fp, now))
                          /\ ToSet(Touched(rs, fp, now)) = ToSet(rs)
         /\ Fits(rs) => Fits(Touched(rs, fp, now))
<1> DEFINE w == Without(rs, fp)
           e == EntryOf(rs, fp)
           t == Append(w, e)
<1>1. e \in ToSet(rs) /\ e.fp = fp /\ e \in S
      BY EntryIn, ToSetIn
<1>2. /\ w \in Seq(S) /\ ToSet(w) = {x \in ToSet(rs) : x.fp # fp}
      /\ Unique(rs) => Unique(w)
      /\ Len(w) < Len(rs)
      BY WithoutLeaves
<1>3. TotalBytes(w) + e.bytes <= TotalBytes(rs)
  <2> DEFINE K == {x \in ToSet(rs) : x.fp # fp}
  <2>1. e \in ToSet(rs) \ K
        BY <1>1
  <2>2. w = Only(rs, K)
        BY DEF Without
  <2> HIDE DEF K, w, e
  <2> QED  BY <2>1, <2>2, TotalOfOnly
<1>4. Touched(rs, fp, now) = t
      BY DEF Touched
<1>5. Unique(rs) => \A x \in ToSet(rs) : x.fp = fp => x = e
      BY EntryIs
<1> HIDE DEF w, e
<1>6. /\ t \in Seq(S) /\ ToSet(t) = ToSet(w) \cup {e} /\ Len(t) = Len(w) + 1
      /\ TotalBytes(t) = TotalBytes(w) + e.bytes
      BY <1>1, <1>2, AppendedAt, ToSetAppend, TotalOfAppend
<1>7. ToSet(t) \subseteq ToSet(rs)
      BY <1>1, <1>2, <1>6
<1>8. ASSUME Unique(rs) PROVE Unique(t) /\ ToSet(t) = ToSet(rs)
  <2>1. e.fp \notin FpsOf(w)
        BY <1>1, <1>2 DEF FpsOf
  <2>2. Unique(t)
        BY <1>1, <1>2, <1>8, <2>1, UniqueAppend
  <2>3. ToSet(rs) \subseteq ToSet(t)
        BY <1>2, <1>5, <1>6, <1>8
  <2> QED  BY <1>7, <2>2, <2>3
<1> HIDE DEF t
<1>9. ASSUME Fits(rs) PROVE Fits(t)
  <2>1. /\ Len(rs) \in Nat /\ Len(w) \in Nat /\ TotalBytes(rs) \in Nat /\ TotalBytes(w) \in Nat
        /\ TotalBytes(t) \in Nat
        BY <1>2, <1>6, TotalIsNat
  <2> QED  BY <1>2, <1>3, <1>6, <1>9, <2>1, StoreAssumption DEF Fits
<1> QED  BY <1>4, <1>6, <1>7, <1>8, <1>9

\* take only loses what has expired.
LEMMA TakeLeaves ==
  ASSUME NEW S, Sized(S), NEW rs \in Seq(S), NEW fp, NEW key, NEW now
  PROVE  /\ AfterTake(rs, fp, key, now) \in Seq(S)
         /\ ToSet(AfterTake(rs, fp, key, now)) \subseteq ToSet(Swept(rs, now))
         /\ Unique(rs) => /\ Unique(AfterTake(rs, fp, key, now))
                          /\ ToSet(AfterTake(rs, fp, key, now)) = ToSet(Swept(rs, now))
         /\ Fits(rs) => Fits(AfterTake(rs, fp, key, now))
<1> DEFINE sw == Swept(rs, now)
<1>1. sw \in Seq(S) /\ (Unique(rs) => Unique(sw))
      BY SweptLeaves
<1>2. Fits(rs) => Fits(sw)
      BY OnlyFits DEF Swept
<1> HIDE DEF sw
<1>3. CASE TakeHits(rs, fp, key, now)
  <2>1. Has(sw, fp) /\ AfterTake(rs, fp, key, now) = Touched(sw, fp, now)
        BY <1>3 DEF TakeHits, AfterTake, sw
  <2> QED  BY <1>1, <1>2, <2>1, TouchedLeaves DEF sw
<1>4. CASE ~TakeHits(rs, fp, key, now)
  <2>1. AfterTake(rs, fp, key, now) = sw
        BY <1>4 DEF AfterTake, sw
  <2> QED  BY <1>1, <1>2, <2>1 DEF sw
<1> QED  BY <1>3, <1>4

-----------------------------------------------------------------------------
(* The order of use *)

\* The fingerprints of the entries, in the order of the entries.
Keys(rs) == [i \in DOMAIN rs |-> rs[i].fp]

Keyed(S, F) == \A e \in S : e.fp \in F

LEMMA KeysEmpty == Keys(<<>>) = <<>>
BY DEF Keys

LEMMA KeysIsSeq ==
  ASSUME NEW S, NEW F, Keyed(S, F), NEW rs \in Seq(S)
  PROVE  Keys(rs) \in Seq(F) /\ Len(Keys(rs)) = Len(rs)
BY DEF Keys, Keyed

LEMMA KeysAppend ==
  ASSUME NEW S, NEW F, Keyed(S, F), NEW rs \in Seq(S), NEW e \in S
  PROVE  Keys(Append(rs, e)) = Append(Keys(rs), e.fp)
<1> DEFINE t == Append(rs, e)
           l == Keys(t)
           m == Keys(rs)
           r == Append(m, e.fp)
<1>1. /\ t \in Seq(S) /\ Len(t) = Len(rs) + 1 /\ Len(rs) \in Nat
      /\ DOMAIN rs = 1..Len(rs) /\ DOMAIN t = 1..(Len(rs) + 1)
      /\ t[Len(rs) + 1] = e /\ \A i \in 1..Len(rs) : t[i] = rs[i]
      BY AppendedAt
<1> HIDE DEF t
<1>2. m \in Seq(F) /\ Len(m) = Len(rs) /\ l \in Seq(F) /\ Len(l) = Len(rs) + 1 /\ e.fp \in F
      BY <1>1, KeysIsSeq DEF Keyed
<1>3. \A i \in 1..Len(rs) : m[i] = rs[i].fp /\ l[i] = t[i].fp
      BY <1>1 DEF Keys
<1>4. l[Len(rs) + 1] = e.fp
      BY <1>1 DEF Keys
<1> HIDE DEF l, m
<1>5. /\ r \in Seq(F) /\ Len(r) = Len(rs) + 1 /\ r[Len(rs) + 1] = e.fp
      /\ \A i \in 1..Len(rs) : r[i] = m[i]
      BY <1>1, <1>2, AppendedAt
<1> HIDE DEF r
<1>6. \A i \in 1..(Len(rs) + 1) : l[i] = r[i]
      BY <1>1, <1>3, <1>4, <1>5
<1>7. l = r
      BY <1>1, <1>2, <1>5, <1>6
<1> QED  BY <1>7 DEF l, m, r, t

\* Leaving entries out and leaving their fingerprints out is the same.
LEMMA KeysOnly ==
  ASSUME NEW S, NEW F, Keyed(S, F), NEW K, NEW J
  PROVE  \A rs \in Seq(S) : (\A e \in ToSet(rs) : e \in K <=> e.fp \in J)
                            => Keys(Only(rs, K)) = Only(Keys(rs), J)
<1> DEFINE Agree(rs) == \A e \in ToSet(rs) : e \in K <=> e.fp \in J
           Q == {rs \in Seq(S) : Agree(rs) => Keys(Only(rs, K)) = Only(Keys(rs), J)}
<1>1. <<>> \in Q
      BY OnlyOfEmpty, KeysEmpty
<1>2. ASSUME NEW rs \in Seq(S), NEW e \in S, rs \in Q PROVE Append(rs, e) \in Q
  <2>1. Append(rs, e) \in Seq(S) /\ Only(rs, K) \in Seq(S) /\ Keys(rs) \in Seq(F) /\ e.fp \in F
        BY AppendedAt, OnlyIsSeq, KeysIsSeq DEF Keyed
  <2> SUFFICES ASSUME Agree(Append(rs, e))
               PROVE  Keys(Only(Append(rs, e), K)) = Only(Keys(Append(rs, e)), J)
      BY <2>1
  <2>2. Agree(rs) /\ (e \in K <=> e.fp \in J)
        BY ToSetAppend
  <2>3. Keys(Only(rs, K)) = Only(Keys(rs), J)
        BY <1>2, <2>2
  <2> HIDE DEF Agree, Q
  <2>4. Only(Append(rs, e), K) = IF e \in K THEN Append(Only(rs, K), e) ELSE Only(rs, K)
        BY OnlyOfAppend
  <2>5. Only(Append(Keys(rs), e.fp), J)
          = IF e.fp \in J THEN Append(Only(Keys(rs), J), e.fp) ELSE Only(Keys(rs), J)
    <3>1. \A m \in Seq(F) : \A f \in F :
             Only(Append(m, f), J) = IF f \in J THEN Append(Only(m, J), f) ELSE Only(m, J)
          BY OnlyOfAppend
    <3> QED  BY <2>1, <3>1, Zenon
  <2>6. Keys(Append(Only(rs, K), e)) = Append(Keys(Only(rs, K)), e.fp)
        BY <2>1, KeysAppend
  <2>7. Keys(Append(rs, e)) = Append(Keys(rs), e.fp)
        BY KeysAppend
  <2> QED  BY <2>2, <2>3, <2>4, <2>5, <2>6, <2>7, Zenon
<1>3. Seq(S) \subseteq Q
  <2> HIDE DEF Q
  <2> QED  BY <1>1, <1>2, SequenceInduction
<1> QED  BY <1>3

Present(rs, F) == {f \in F : Has(rs, f)}

\* The entries that stay are those whose fingerprints stay.
LEMMA KeysOfPart ==
  ASSUME NEW S, NEW F, Keyed(S, F), NEW rs \in Seq(S), Unique(rs), NEW K
  PROVE  Keys(Only(rs, K)) = Only(Keys(rs), Present(Only(rs, K), F))
<1> DEFINE o == Only(rs, K)
           J == Present(o, F)
<1>1. o \in Seq(S) /\ ToSet(o) = ToSet(rs) \cap K
      BY OnlyIsSeq, OnlyMembers
<1> HIDE DEF o
<1>2. ASSUME NEW e \in ToSet(rs) PROVE e \in K <=> e.fp \in J
  <2>1. e \in S /\ e.fp \in F
        BY ToSetIn DEF Keyed
  <2>2. Has(o, e.fp) <=> \E x \in ToSet(o) : x.fp = e.fp
        BY <1>1, HasInFps DEF FpsOf
  <2>3. \A x \in ToSet(rs) : x.fp = e.fp => x = e
    <3>1. EntryOf(rs, e.fp) = e
          BY EntryIs
    <3> QED  BY <3>1, EntryIs
  <2> QED  BY <1>1, <2>1, <2>2, <2>3 DEF Present
<1> HIDE DEF J
<1>3. Keys(Only(rs, K)) = Only(Keys(rs), J)
      BY <1>2, KeysOnly
<1> QED  BY <1>3 DEF J, o

\* What the eviction loop drops is older than what it keeps.
LEMMA DroppedIsOlder ==
  ASSUME NEW S, NEW rs \in Seq(S), NEW n \in 0..Len(rs),
         NEW x \in ToSet(rs), x \notin ToSet(Dropping(rs, n)), NEW y \in ToSet(Dropping(rs, n))
  PROVE  Before(rs, x, y)
<1> DEFINE d == Dropping(rs, n)
<1>1. /\ d \in Seq(S) /\ Len(d) = Len(rs) - n
      /\ \A i \in 1..(Len(rs) - n) : d[i] = rs[n + i]
      BY DroppingLeaves
<1> HIDE DEF d
<1>2. DOMAIN rs = 1..Len(rs) /\ DOMAIN d = 1..(Len(rs) - n) /\ Len(rs) \in Nat /\ n \in Nat
      BY <1>1
<1>3. PICK i \in DOMAIN rs : rs[i] = x
      BY DEF ToSet
<1>4. PICK j \in DOMAIN d : d[j] = y
      BY DEF ToSet, d
<1>5. i <= n
  <2> SUFFICES ASSUME i > n PROVE FALSE
      BY <1>2
  <2>1. i - n \in DOMAIN d /\ n + (i - n) = i
        BY <1>2
  <2>2. d[i - n] = x
        BY <1>1, <1>2, <1>3, <2>1
  <2>3. x \in ToSet(d)
        BY <2>1, <2>2 DEF ToSet
  <2> QED  BY <2>3 DEF d
<1>6. n + j \in DOMAIN rs /\ rs[n + j] = y /\ i < n + j
      BY <1>1, <1>2, <1>4, <1>5
<1> QED  BY <1>3, <1>6 DEF Before
=============================================================================
