------------------------------ MODULE LoopProofs ------------------------------
(***************************************************************************)
(* Lemmas about loops: induction over the natural numbers, functions that  *)
(* are defined by recursion, and the orders of a set.                      *)
(***************************************************************************)
EXTENDS Loops, Sequences, FiniteSetTheorems, NaturalsInduction, TLAPS

\* An order of a set goes through all of it and nothing else.
LEMMA OrderFacts ==
    ASSUME NEW S, IsFiniteSet(S), NEW seq \in Orders(S)
    PROVE  /\ seq \in Seq(S)
           /\ DOMAIN seq = 1..Len(seq)
           /\ \A i \in DOMAIN seq : seq[i] \in S
           /\ \A x \in S : \E i \in DOMAIN seq : seq[i] = x
<1> DEFINE n == Cardinality(S)
<1>1. n \in Nat
  BY FS_CardinalityType
<1>2. seq \in [1..n -> S] /\ \A x \in S : \E i \in 1..n : seq[i] = x
  BY DEF Orders, Bijection, Injection, Surjection
<1>3. seq \in Seq(S) /\ Len(seq) = n
  BY <1>1, <1>2
<1> QED
  BY <1>2, <1>3

LEMMA AllInOrder ==
    ASSUME NEW S, IsFiniteSet(S)
    PROVE  /\ InOrder(S) \in Seq(S)
           /\ DOMAIN InOrder(S) = 1..Len(InOrder(S))
           /\ \A i \in DOMAIN InOrder(S) : InOrder(S)[i] \in S
           /\ \A x \in S : \E i \in DOMAIN InOrder(S) : InOrder(S)[i] = x
<1>1. Orders(S) # {}
  BY FS_CardinalityType DEF Orders, ExistsBijection
<1>2. InOrder(S) \in Orders(S)
  BY <1>1 DEF InOrder
<1> HIDE DEF InOrder
<1> QED
  BY <1>2, OrderFacts

\* What is left of the statuses when the first one has been written.
LEMMA TailFacts ==
    ASSUME NEW S, NEW seq \in Seq(S), seq # <<>>
    PROVE  /\ Tail(seq) \in Seq(S)
           /\ 1 \in DOMAIN seq /\ Head(seq) = seq[1] /\ Head(seq) \in S
           /\ \A i \in DOMAIN Tail(seq) : i + 1 \in DOMAIN seq /\ Tail(seq)[i] = seq[i + 1]
           /\ \A i \in DOMAIN seq : i = 1 \/ (i - 1 \in DOMAIN Tail(seq) /\ Tail(seq)[i - 1] = seq[i])
  OBVIOUS

\* Induction over the natural numbers, for a set.
LEMMA Induct ==
    ASSUME NEW S, 0 \in S, \A n \in Nat : n \in S => n + 1 \in S
    PROVE  Nat \subseteq S
<1> DEFINE R == {ss \in Nat \X Nat : ss[1] < ss[2]}
           T == Nat \ S
<1>1. R = OpToRel(<, Nat)
  BY DEF OpToRel
<1>2. IsWellFoundedOn(R, Nat)
  BY <1>1, NatLessThanWellFounded, Zenon
<1>3. SUFFICES ASSUME T # {} PROVE FALSE
  OBVIOUS
<1>4. T \subseteq Nat
  OBVIOUS
<1>5. PICK x \in T : \A y \in T : ~(<<y, x>> \in R)
  <2> HIDE DEF T, R
  <2> QED BY <1>2, <1>3, <1>4, WFMin, Zenon
<1>6. x \in Nat /\ x # 0 /\ x - 1 \in Nat /\ x - 1 < x
  OBVIOUS
<1>7. <<x - 1, x>> \in R
  BY <1>6
<1>8. x - 1 \in S
  BY <1>5, <1>6, <1>7
<1> QED
  BY <1>6, <1>8

\* A set of numbers with a member has a least one and, below a bound, a greatest.
LEMMA LeastMember ==
    ASSUME NEW T, T \subseteq Nat, T # {}
    PROVE  \E x \in T : \A y \in T : x <= y
<1> DEFINE R == {ss \in Nat \X Nat : ss[1] < ss[2]}
<1>1. R = OpToRel(<, Nat)
  BY DEF OpToRel
<1>2. IsWellFoundedOn(R, Nat)
  BY <1>1, NatLessThanWellFounded, Zenon
<1>3. PICK x \in T : \A y \in T : ~(<<y, x>> \in R)
  <2> HIDE DEF R
  <2> QED BY <1>2, WFMin, Zenon
<1>4. \A y \in T : y \in Nat /\ x \in Nat /\ ~(y < x)
  BY <1>3, Zenon
<1> QED
  BY <1>4

LEMMA GreatestMember ==
    ASSUME NEW n \in Nat, NEW T, T \subseteq 0..n, T # {}
    PROVE  \E x \in T : \A y \in T : y <= x
<1> DEFINE U == {n - x : x \in T}
<1>1. U \subseteq Nat /\ U # {}
  <2>1. \A x \in T : n - x \in Nat
    OBVIOUS
  <2> QED BY <2>1, Zenon
<1>2. PICK u \in U : \A y \in U : u <= y
  <2> HIDE DEF U
  <2> QED BY <1>1, LeastMember, Zenon
<1>3. PICK x \in T : u = n - x
  OBVIOUS
<1>4. \A y \in T : n - x <= n - y /\ x \in 0..n /\ y \in 0..n
  BY <1>2, <1>3
<1>5. \A y \in T : y <= x
  BY <1>4
<1> QED
  BY <1>5

\* A loop that makes of each value the next has a value after each turn.
Turns(f, N, A, base, step) ==
    f \in [0..N -> A] /\ f[0] = base /\ \A n \in 1..N : f[n] = step[<<n, f[n - 1]>>]

LEMMA Recursion ==
    ASSUME NEW N \in Nat, NEW A, NEW base \in A, NEW step \in [(1..N) \X A -> A]
    PROVE  \E f : Turns(f, N, A, base, step)
<1> DEFINE F(m, f) == f \in [0..m -> A] /\ f[0] = base /\ \A n \in 1..m : f[n] = step[<<n, f[n - 1]>>]
           S == {m \in Nat : m \in 0..N => \E f : F(m, f)}
<1>1. 0 \in S
  <2>1. F(0, [n \in 0..0 |-> base])
    OBVIOUS
  <2> QED
    BY <2>1, Zenon
<1>2. ASSUME NEW m \in Nat, m \in S PROVE m + 1 \in S
  <2> SUFFICES ASSUME m + 1 \in 0..N PROVE \E f : F(m + 1, f)
    OBVIOUS
  <2>1. PICK f : F(m, f)
    BY <1>2
  <2>2. f[m] \in A /\ m + 1 \in 1..N
    BY <2>1
  <2> DEFINE last == step[<<m + 1, f[m]>>]
             g == [n \in 0..(m + 1) |-> IF n = m + 1 THEN last ELSE f[n]]
  <2>3. last \in A
    BY <2>2
  <2>4. g \in [0..(m + 1) -> A] /\ (\A n \in 0..m : g[n] = f[n]) /\ g[m + 1] = last
    <3> HIDE DEF last
    <3> QED BY <2>1, <2>3
  <2> HIDE DEF g
  <2>5. \A n \in 1..(m + 1) : g[n] = step[<<n, g[n - 1]>>]
    <3> TAKE n \in 1..(m + 1)
    <3>1. CASE n = m + 1
      <4>1. g[n - 1] = f[m] /\ g[n] = last
        BY <2>4, <3>1
      <4> QED BY <3>1, <4>1
    <3>2. CASE n # m + 1
      <4>1. n \in 1..m /\ n \in 0..m /\ n - 1 \in 0..m
        BY <3>2
      <4>2. g[n] = f[n] /\ g[n - 1] = f[n - 1] /\ f[n] = step[<<n, f[n - 1]>>]
        BY <2>1, <2>4, <4>1
      <4> QED BY <4>2
    <3> QED BY <3>1, <3>2
  <2>6. g[0] = base
    BY <2>1, <2>4
  <2>7. F(m + 1, g)
    BY <2>4, <2>5, <2>6
  <2> HIDE DEF F
  <2> QED
    BY <2>7
<1>3. Nat \subseteq S
  <2> HIDE DEF S
  <2> QED BY <1>1, <1>2, Induct
<1>4. \E f : F(N, f)
  <2>1. N \in S
    BY <1>3, Zenon
  <2> HIDE DEF F
  <2> QED BY <2>1
<1> QED
  BY <1>4 DEF Turns

\* Two sequences joined.
LEMMA JoinFacts ==
    ASSUME NEW S, NEW q \in Seq(S), NEW r \in Seq(S)
    PROVE  /\ q \o r \in Seq(S) /\ Len(q \o r) = Len(q) + Len(r)
           /\ DOMAIN q = 1..Len(q) /\ DOMAIN r = 1..Len(r) /\ DOMAIN (q \o r) = 1..(Len(q) + Len(r))
           /\ Len(q) \in Nat /\ Len(r) \in Nat
           /\ \A k \in DOMAIN q : k \in DOMAIN (q \o r) /\ (q \o r)[k] = q[k]
           /\ \A k \in DOMAIN r : Len(q) + k \in DOMAIN (q \o r) /\ (q \o r)[Len(q) + k] = r[k]
           /\ \A k \in DOMAIN (q \o r) : k \in DOMAIN q \/ k - Len(q) \in DOMAIN r
  OBVIOUS

=============================================================================
