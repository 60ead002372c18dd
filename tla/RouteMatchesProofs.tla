------------------------- MODULE RouteMatchesProofs -------------------------
(***************************************************************************)
(* The action sets of a gateway: Less is a strict order on them that       *)
(* leaves no two of them equal, sorting by it puts them in one order, and  *)
(* the first that matches a request has a most specific match for it.      *)
(***************************************************************************)
EXTENDS RouteMatches, LoopProofs

\* Comparing sequences of numbers of one length, first member first, is a strict order
\* that leaves no two of them equal.
LEMMA LexOrder ==
    ASSUME NEW n \in Nat
    PROVE  /\ \A s \in [1..n -> Int] : ~Lexicographic(s, s)
           /\ \A s, t, u \in [1..n -> Int] : Lexicographic(s, t) /\ Lexicographic(t, u) => Lexicographic(s, u)
           /\ \A s, t \in [1..n -> Int] : s = t \/ Lexicographic(s, t) \/ Lexicographic(t, s)
<1>1. \A s \in [1..n -> Int] : ~Lexicographic(s, s)
  BY DEF Lexicographic
<1>2. ASSUME NEW s \in [1..n -> Int], NEW t \in [1..n -> Int], NEW u \in [1..n -> Int],
             Lexicographic(s, t), Lexicographic(t, u)
      PROVE  Lexicographic(s, u)
  <2>1. PICK i \in 1..n : s[i] < t[i] /\ \A j \in 1..(i - 1) : s[j] = t[j]
    BY <1>2 DEF Lexicographic
  <2>2. PICK k \in 1..n : t[k] < u[k] /\ \A j \in 1..(k - 1) : t[j] = u[j]
    BY <1>2, Zenon DEF Lexicographic
  <2>3. CASE i < k
    <3>1. s[i] < u[i] /\ \A j \in 1..(i - 1) : s[j] = u[j]
      BY <2>1, <2>2, <2>3
    <3> QED BY <3>1 DEF Lexicographic
  <2>4. CASE i = k
    <3>1. s[i] < u[i] /\ \A j \in 1..(i - 1) : s[j] = u[j]
      BY <2>1, <2>2, <2>4
    <3> QED BY <3>1 DEF Lexicographic
  <2>5. CASE i > k
    <3>1. s[k] < u[k] /\ \A j \in 1..(k - 1) : s[j] = u[j]
      BY <2>1, <2>2, <2>5
    <3> QED BY <3>1 DEF Lexicographic
  <2> QED BY <2>3, <2>4, <2>5
<1>3. ASSUME NEW s \in [1..n -> Int], NEW t \in [1..n -> Int], s # t
      PROVE  Lexicographic(s, t) \/ Lexicographic(t, s)
  <2> DEFINE D == {i \in 1..n : s[i] # t[i]}
  <2>1. D \subseteq Nat /\ D # {}
    <3>1. s = [i \in 1..n |-> s[i]] /\ t = [i \in 1..n |-> t[i]]
      OBVIOUS
    <3>2. \E i \in 1..n : s[i] # t[i]
      BY <1>3, <3>1, Zenon
    <3> QED BY <3>2
  <2>2. PICK i \in D : \A k \in D : i <= k
    <3> HIDE DEF D
    <3> QED BY <2>1, LeastMember, Zenon
  <2>3. i \in 1..n /\ s[i] # t[i] /\ \A j \in 1..(i - 1) : s[j] = t[j]
    <3>1. i \in 1..n /\ s[i] # t[i]
      OBVIOUS
    <3>2. ASSUME NEW j \in 1..(i - 1) PROVE s[j] = t[j]
      <4>1. j \in 1..n /\ ~(i <= j)
        BY <3>1
      <4> QED BY <2>2, <4>1
    <3> QED BY <3>1, <3>2
  <2>4. CASE s[i] < t[i]
    BY <2>3, <2>4 DEF Lexicographic
  <2>5. CASE t[i] < s[i]
    BY <2>3, <2>5 DEF Lexicographic
  <2> QED BY <2>3, <2>4, <2>5
<1> QED
  BY <1>1, <1>2, <1>3, Zenon

\* The hostnames: by the number of labels, then by wildcards, then by the labels.
LEMMA HostOrder ==
    /\ \A g \in Hostnames : ~CompareHostnamesSpecificity(g, g)
    /\ \A g, h, k \in Hostnames :
          CompareHostnamesSpecificity(g, h) /\ CompareHostnamesSpecificity(h, k)
            => CompareHostnamesSpecificity(g, k)
    /\ \A g, h \in Hostnames :
          g = h \/ CompareHostnamesSpecificity(g, h) \/ CompareHostnamesSpecificity(h, g)
<1>1. \A h \in Hostnames : Len(h) \in Nat /\ h \in [1..Len(h) -> Int]
  BY DEF Hostnames
<1>2. ASSUME NEW g \in Hostnames PROVE ~CompareHostnamesSpecificity(g, g)
  BY <1>1, LexOrder, Zenon DEF CompareHostnamesSpecificity
<1>3. ASSUME NEW g \in Hostnames, NEW h \in Hostnames, NEW k \in Hostnames,
             CompareHostnamesSpecificity(g, h), CompareHostnamesSpecificity(h, k)
      PROVE  CompareHostnamesSpecificity(g, k)
  <2>1. Len(g) \in Nat /\ Len(h) \in Nat /\ Len(k) \in Nat
    BY <1>1
  <2>2. Len(g) = Len(h) /\ Len(h) = Len(k) /\ Lexicographic(g, h) /\ Lexicographic(h, k) => Lexicographic(g, k)
    <3> SUFFICES ASSUME Len(g) = Len(h), Len(h) = Len(k), Lexicographic(g, h), Lexicographic(h, k)
                 PROVE  Lexicographic(g, k)
      OBVIOUS
    <3>1. g \in [1..Len(g) -> Int] /\ h \in [1..Len(g) -> Int] /\ k \in [1..Len(g) -> Int]
      BY <1>1
    <3>2. \A s, t, u \in [1..Len(g) -> Int] : Lexicographic(s, t) /\ Lexicographic(t, u) => Lexicographic(s, u)
      BY <2>1, LexOrder, Zenon
    <3> QED BY <3>1, <3>2
  <2> QED BY <1>3, <2>1, <2>2 DEF CompareHostnamesSpecificity, IsWildCarded
<1>4. ASSUME NEW g \in Hostnames, NEW h \in Hostnames, g # h
      PROVE  CompareHostnamesSpecificity(g, h) \/ CompareHostnamesSpecificity(h, g)
  <2>1. Len(g) \in Nat /\ Len(h) \in Nat
    BY <1>1
  <2>2. Len(g) = Len(h) => Lexicographic(g, h) \/ Lexicographic(h, g)
    <3> SUFFICES ASSUME Len(g) = Len(h) PROVE Lexicographic(g, h) \/ Lexicographic(h, g)
      OBVIOUS
    <3>1. g \in [1..Len(g) -> Int] /\ h \in [1..Len(g) -> Int]
      BY <1>1
    <3>2. \A s, t \in [1..Len(g) -> Int] : s = t \/ Lexicographic(s, t) \/ Lexicographic(t, s)
      BY <2>1, LexOrder, Zenon
    <3> QED BY <1>4, <3>1, <3>2, Zenon
  <2> QED BY <2>1, <2>2 DEF CompareHostnamesSpecificity, IsWildCarded
<1> QED
  BY <1>2, <1>3, <1>4, Zenon

-----------------------------------------------------------------------------
\* An action set as BuildActionSetsForPath makes it: a path that is matched has a value.
ConfigOK(c) ==
    /\ c.host \in Hostnames
    /\ c.match.path.type \in {"none", "Exact", "PathPrefix", "RegularExpression"}
    /\ Len(c.match.path.value) \in Nat
    /\ c.match.path.type = "none" <=> Len(c.match.path.value) = 0
    /\ Cardinality(c.match.headers) \in Nat /\ Len(c.match.query) \in Nat
    /\ c.created \in Int /\ c.route \in Int /\ c.rule \in Int /\ c.index \in Int /\ c.identifier \in Int

\* What an action set is sorted by within its hostname.
MatchKey(c) ==
    << -PathRank(c.match.path.type), -Len(c.match.path.value), Method(c),
       -Cardinality(c.match.headers), -Len(c.match.query) >>

RouteKey(c) == <<c.created, c.route, c.rule, c.index, c.identifier>>

\* The keys of two action sets, in two sequences.
Firsts(keys) == [i \in 1..5 |-> keys[i][1]]
Seconds(keys) == [i \in 1..5 |-> keys[i][2]]

LEMMA FiveInts ==
    ASSUME NEW k, DOMAIN k = 1..5, k = [i \in 1..5 |-> k[i]],
           k[1] \in Int, k[2] \in Int, k[3] \in Int, k[4] \in Int, k[5] \in Int
    PROVE  k \in [1..5 -> Int]
<1>1. \A i \in 1..5 : k[i] \in Int
  OBVIOUS
<1> QED BY <1>1

\* The keys are five numbers.
LEMMA KeyTypes ==
    ASSUME NEW c, ConfigOK(c)
    PROVE  MatchKey(c) \in [1..5 -> Int] /\ RouteKey(c) \in [1..5 -> Int]
<1>1. PathRank(c.match.path.type) \in Int /\ Method(c) \in Int
  BY DEF ConfigOK, PathRank, Method
<1>2. MatchKey(c) \in [1..5 -> Int]
  <2> DEFINE k == MatchKey(c)
  <2>1. DOMAIN k = 1..5 /\ k = [i \in 1..5 |-> k[i]]
    BY DEF MatchKey
  <2>2. k[1] \in Int /\ k[2] \in Int /\ k[3] \in Int /\ k[4] \in Int /\ k[5] \in Int
    BY <1>1 DEF MatchKey, ConfigOK
  <2> HIDE DEF k
  <2> QED BY <2>1, <2>2, FiveInts, Zenon DEF k
<1>3. RouteKey(c) \in [1..5 -> Int]
  <2> DEFINE k == RouteKey(c)
  <2>1. DOMAIN k = 1..5 /\ k = [i \in 1..5 |-> k[i]]
    BY DEF RouteKey
  <2>2. k[1] \in Int /\ k[2] \in Int /\ k[3] \in Int /\ k[4] \in Int /\ k[5] \in Int
    BY DEF RouteKey, ConfigOK
  <2> HIDE DEF k
  <2> QED BY <2>1, <2>2, FiveInts DEF k
<1> QED BY <1>2, <1>3, Zenon

\* One key after the other.
LEMMA KeyByKey ==
    ASSUME NEW keys, DOMAIN keys = 1..5
    PROVE  /\ Decide(keys) <=> Lexicographic(Firsts(keys), Seconds(keys))
           /\ Tie(keys) <=> Firsts(keys) = Seconds(keys)
<1> DEFINE a == Firsts(keys)
           b == Seconds(keys)
<1>1. DOMAIN a = 1..5 /\ DOMAIN b = 1..5 /\ \A i \in 1..5 : a[i] = keys[i][1] /\ b[i] = keys[i][2]
  BY DEF Firsts, Seconds
<1>2. a = [i \in 1..5 |-> a[i]] /\ b = [i \in 1..5 |-> b[i]]
  BY DEF Firsts, Seconds
<1>3. \A i \in 1..5 : \A j \in 1..(i - 1) : j \in 1..5
  OBVIOUS
<1> HIDE DEF a, b
<1>4. Lexicographic(a, b) <=> Decide(keys)
  BY <1>1, <1>3 DEF Lexicographic, Decide
<1>5. a = b <=> Tie(keys)
  BY <1>1, <1>2 DEF Tie
<1> QED BY <1>4, <1>5, Zenon DEF a, b

\* Comparing the keys of the routes one by one is comparing their sequences.
LEMMA ByRouteKey ==
    ASSUME NEW c, NEW d, ConfigOK(c), ConfigOK(d)
    PROVE  Decide(RouteKeys(c, d)) <=> Lexicographic(RouteKey(c), RouteKey(d))
<1>1. DOMAIN RouteKeys(c, d) = 1..5
  BY DEF RouteKeys
<1>2. Firsts(RouteKeys(c, d)) = RouteKey(c)
  <2> DEFINE k == RouteKey(c)
             f == Firsts(RouteKeys(c, d))
  <2>1. k = [i \in 1..5 |-> k[i]]
    BY DEF RouteKey
  <2>2. f = [i \in 1..5 |-> f[i]]
    BY DEF Firsts
  <2>3. f[1] = k[1] /\ f[2] = k[2] /\ f[3] = k[3] /\ f[4] = k[4] /\ f[5] = k[5]
    BY DEF Firsts, RouteKeys, RouteKey
  <2> HIDE DEF k, f
  <2>4. \A i \in 1..5 : f[i] = k[i]
    BY <2>3
  <2>5. f = k
    BY <2>1, <2>2, <2>4, Zenon
  <2> QED BY <2>5 DEF k, f
<1>3. Seconds(RouteKeys(c, d)) = RouteKey(d)
  <2> DEFINE k == RouteKey(d)
             f == Seconds(RouteKeys(c, d))
  <2>1. k = [i \in 1..5 |-> k[i]]
    BY DEF RouteKey
  <2>2. f = [i \in 1..5 |-> f[i]]
    BY DEF Seconds
  <2>3. f[1] = k[1] /\ f[2] = k[2] /\ f[3] = k[3] /\ f[4] = k[4] /\ f[5] = k[5]
    BY DEF Seconds, RouteKeys, RouteKey
  <2> HIDE DEF k, f
  <2>4. \A i \in 1..5 : f[i] = k[i]
    BY <2>3
  <2>5. f = k
    BY <2>1, <2>2, <2>4
  <2> QED BY <2>5 DEF k, f
<1> QED BY <1>1, <1>2, <1>3, KeyByKey, Zenon

\* Not to compare the ranks of two matches (x and y) if one of them is none is the same as to
\* put those without a rank last, if their lengths (v and w) tell them apart as well.
Ranked(a, b, s, t, x, y, v, w) ==
    /\ x \in Nat /\ y \in Nat /\ v \in Nat /\ w \in Nat /\ (x = 0 <=> v = 0) /\ (y = 0 <=> w = 0)
    /\ IF 0 \in {x, y} THEN a[1] = 0 /\ b[1] = 0 ELSE a[1] = y /\ b[1] = x
    /\ s[1] = -x /\ t[1] = -y /\ a[2] = w /\ b[2] = v /\ s[2] = -v /\ t[2] = -w
    /\ \A i \in 3..5 : \/ a[i] = s[i] /\ b[i] = t[i]
                       \/ a[i] = -t[i] /\ b[i] = -s[i]

\* Path types are compared as if a match without a path ranked last.
LEMMA RanksLast ==
    ASSUME NEW a \in [1..5 -> Int], NEW b \in [1..5 -> Int], NEW s \in [1..5 -> Int], NEW t \in [1..5 -> Int],
           NEW x, NEW y, NEW v, NEW w, Ranked(a, b, s, t, x, y, v, w)
    PROVE  (Lexicographic(a, b) <=> Lexicographic(s, t)) /\ (a = b <=> s = t)
<1> USE DEF Ranked
<1>1. CASE x = 0 <=> y = 0
  <2>1. (a[1] < b[1] <=> s[1] < t[1]) /\ (a[1] = b[1] <=> s[1] = t[1])
    BY <1>1
  <2>2. (a[2] < b[2] <=> s[2] < t[2]) /\ (a[2] = b[2] <=> s[2] = t[2])
    OBVIOUS
  <2>3. \A i \in 3..5 : (a[i] < b[i] <=> s[i] < t[i]) /\ (a[i] = b[i] <=> s[i] = t[i])
    <3> TAKE i \in 3..5
    <3>1. s[i] \in Int /\ t[i] \in Int
      OBVIOUS
    <3> QED BY <3>1
  <2>4. \A i \in 1..5 : (a[i] < b[i] <=> s[i] < t[i]) /\ (a[i] = b[i] <=> s[i] = t[i])
    <3> TAKE i \in 1..5
    <3>1. i = 1 \/ i = 2 \/ i \in 3..5
      OBVIOUS
    <3> QED BY <2>1, <2>2, <2>3, <3>1, Zenon
  <2>5. DOMAIN a = 1..5 /\ DOMAIN s = 1..5 /\ \A i \in 1..5 : \A j \in 1..(i - 1) : j \in 1..5
    OBVIOUS
  <2>6. Lexicographic(a, b) <=> Lexicographic(s, t)
    BY ONLY <2>4, <2>5, Zenon DEF Lexicographic
  <2>7. a = b <=> s = t
    <3>1. a = b <=> \A i \in 1..5 : a[i] = b[i]
      OBVIOUS
    <3>2. s = t <=> \A i \in 1..5 : s[i] = t[i]
      OBVIOUS
    <3> QED BY ONLY <2>4, <3>1, <3>2, Zenon
  <2> QED BY <2>6, <2>7, Zenon
<1>2. CASE x = 0 /\ y # 0
  <2>1. a[1] = b[1] /\ b[2] < a[2] /\ t[1] < s[1] /\ a[2] # b[2] /\ s[1] # t[1]
    BY <1>2
  <2>2. ~Lexicographic(s, t)
    <3> SUFFICES ASSUME NEW i \in 1..5, s[i] < t[i], \A j \in 1..(i - 1) : s[j] = t[j] PROVE FALSE
      BY DEF Lexicographic
    <3>1. CASE i = 1
      BY <2>1, <3>1
    <3>2. CASE i # 1
      <4>1. 1 \in 1..(i - 1)
        BY <3>2
      <4> QED BY <2>1, <4>1, Zenon
    <3> QED BY <3>1, <3>2, Zenon
  <2>3. ~Lexicographic(a, b)
    <3> SUFFICES ASSUME NEW i \in 1..5, a[i] < b[i], \A j \in 1..(i - 1) : a[j] = b[j] PROVE FALSE
      BY DEF Lexicographic
    <3>1. CASE i = 1 \/ i = 2
      BY <2>1, <3>1
    <3>2. CASE i # 1 /\ i # 2
      <4>1. 2 \in 1..(i - 1)
        BY <3>2
      <4> QED BY <2>1, <4>1, Zenon
    <3> QED BY <3>1, <3>2, Zenon
  <2> QED BY <2>1, <2>2, <2>3, Zenon
<1>3. CASE x # 0 /\ y = 0
  <2>1. a[1] = b[1] /\ a[2] < b[2] /\ s[1] < t[1] /\ a[2] # b[2] /\ s[1] # t[1]
    BY <1>3
  <2>2. Lexicographic(s, t)
    <3>1. 1 \in DOMAIN s /\ \A j \in 1..(1 - 1) : s[j] = t[j]
      OBVIOUS
    <3> QED BY <2>1, <3>1, Zenon DEF Lexicographic
  <2>3. Lexicographic(a, b)
    <3>1. 2 \in DOMAIN a /\ \A j \in 1..(2 - 1) : a[j] = b[j]
      BY <2>1
    <3> QED BY <2>1, <3>1, Zenon DEF Lexicographic
  <2> QED BY <2>1, <2>2, <2>3, Zenon
<1> QED BY <1>1, <1>2, <1>3, Zenon

LEMMA RankFacts ==
    ASSUME NEW c, ConfigOK(c)
    PROVE  /\ PathRank(c.match.path.type) \in 0..3
           /\ PathRank(c.match.path.type) = 0 <=> c.match.path.type = "none"
           /\ PathRank(c.match.path.type) = 3 <=> c.match.path.type = "Exact"
           /\ Len(c.match.path.value) \in Nat
           /\ c.match.path.type = "none" <=> Len(c.match.path.value) = 0
<1> DEFINE x == c.match.path.type
           n == Len(c.match.path.value)
<1>1. x \in {"none", "Exact", "PathPrefix", "RegularExpression"} /\ n \in Nat /\ (x = "none" <=> n = 0)
  BY Zenon DEF ConfigOK
<1> HIDE DEF x, n
<1>2. PathRank(x) \in 0..3 /\ (PathRank(x) = 0 <=> x = "none") /\ (PathRank(x) = 3 <=> x = "Exact")
  BY ONLY <1>1 DEF PathRank
<1> QED BY <1>1, <1>2, Zenon DEF x, n

\* As every path has a value, not to compare the types of paths if one of two has none is the
\* same as to put those without a path last.
LEMMA ByMatchKey ==
    ASSUME NEW c, NEW d, ConfigOK(c), ConfigOK(d)
    PROVE  /\ Decide(MatchKeys(c, d)) <=> Lexicographic(MatchKey(c), MatchKey(d))
           /\ Tie(MatchKeys(c, d)) <=> MatchKey(c) = MatchKey(d)
<1> DEFINE a == Firsts(MatchKeys(c, d))
           b == Seconds(MatchKeys(c, d))
           s == MatchKey(c)
           t == MatchKey(d)
           p == c.match.path
           q == d.match.path
           x == PathRank(p.type)
           y == PathRank(q.type)
           v == Len(p.value)
           w == Len(q.value)
           m == Cardinality(c.match.headers)
           n == Cardinality(d.match.headers)
           e == Len(c.match.query)
           f == Len(d.match.query)
<1>1. s[1] = -x /\ s[2] = -v /\ s[3] = Method(c) /\ s[4] = -m /\ s[5] = -e
  BY DEF MatchKey
<1>2. t[1] = -y /\ t[2] = -w /\ t[3] = Method(d) /\ t[4] = -n /\ t[5] = -f
  BY DEF MatchKey
<1>3. /\ x \in 0..3 /\ y \in 0..3
      /\ x = 0 <=> p.type = "none"
      /\ y = 0 <=> q.type = "none"
      /\ v \in Nat /\ w \in Nat
      /\ p.type = "none" <=> v = 0
      /\ q.type = "none" <=> w = 0
  BY RankFacts, Zenon
<1>4. IF 0 \in {x, y} THEN a[1] = 0 /\ b[1] = 0 ELSE a[1] = y /\ b[1] = x
  BY <1>3 DEF Firsts, Seconds, MatchKeys
<1>5. a[2] = w /\ b[2] = v /\ a[3] = Method(c) /\ b[3] = Method(d)
  BY DEF Firsts, Seconds, MatchKeys, pathMatchCount
<1>6. a[4] = n /\ b[4] = m /\ a[5] = f /\ b[5] = e
  BY DEF Firsts, Seconds, MatchKeys
<1>7. a = [i \in 1..5 |-> a[i]] /\ b = [i \in 1..5 |-> b[i]]
  BY DEF Firsts, Seconds
<1>8. m \in Nat /\ n \in Nat /\ e \in Nat /\ f \in Nat /\ Method(c) \in Int /\ Method(d) \in Int
  BY DEF ConfigOK, Method
<1>9. s \in [1..5 -> Int] /\ t \in [1..5 -> Int]
  BY KeyTypes, Zenon
<1>10. DOMAIN MatchKeys(c, d) = 1..5
  BY DEF MatchKeys
<1>11. /\ Decide(MatchKeys(c, d)) <=> Lexicographic(a, b)
       /\ Tie(MatchKeys(c, d)) <=> a = b
  BY <1>10, KeyByKey, Zenon
<1> HIDE DEF a, b, s, t, x, y, v, w, m, n, e, f
<1>12. a \in [1..5 -> Int] /\ b \in [1..5 -> Int]
  <2>1. a[1] \in Int /\ b[1] \in Int
    BY <1>3, <1>4
  <2>2. \A i \in 1..5 : a[i] \in Int /\ b[i] \in Int
    BY <2>1, <1>3, <1>5, <1>6, <1>8
  <2> QED BY <1>7, <2>2, Zenon
<1>13. \A i \in 3..5 : \/ a[i] = s[i] /\ b[i] = t[i]
                       \/ a[i] = -t[i] /\ b[i] = -s[i]
  <2>1. a[3] = s[3] /\ b[3] = t[3]
    BY <1>1, <1>2, <1>5, Zenon
  <2>2. a[4] = -t[4] /\ b[4] = -s[4]
    BY ONLY <1>1, <1>2, <1>6, <1>8
  <2>3. a[5] = -t[5] /\ b[5] = -s[5]
    BY ONLY <1>1, <1>2, <1>6, <1>8
  <2> QED BY ONLY <2>1, <2>2, <2>3
<1>14. Ranked(a, b, s, t, x, y, v, w)
  <2>1. x \in Nat /\ y \in Nat /\ v \in Nat /\ w \in Nat /\ (x = 0 <=> v = 0) /\ (y = 0 <=> w = 0)
    BY <1>3
  <2>2. s[1] = -x /\ t[1] = -y /\ a[2] = w /\ b[2] = v /\ s[2] = -v /\ t[2] = -w
    BY ONLY <1>1, <1>2, <1>5, Zenon
  <2> QED BY ONLY <1>4, <1>13, <2>1, <2>2, Zenon DEF Ranked
<1>15. (Lexicographic(a, b) <=> Lexicographic(s, t)) /\ (a = b <=> s = t)
  BY <1>9, <1>12, <1>14, RanksLast, Zenon
<1> QED BY <1>11, <1>15, Zenon DEF s, t

\* Less is a strict order, and of two action sets one comes first if not all keys are the same.
LEMMA LessOrder ==
    ASSUME NEW C, \A c \in C : ConfigOK(c)
    PROVE  /\ \A c, d, e \in C : Less(c, d) /\ Less(d, e) => Less(c, e)
           /\ \A c, d \in C : \/ Less(c, d) \/ Less(d, c)
                              \/ c.host = d.host /\ MatchKey(c) = MatchKey(d) /\ RouteKey(c) = RouteKey(d)
<1> DEFINE L(s, t) == Lexicographic(s, t)
<1>1. \A c \in C : c.host \in Hostnames /\ MatchKey(c) \in [1..5 -> Int] /\ RouteKey(c) \in [1..5 -> Int]
  BY KeyTypes, Zenon DEF ConfigOK
<1>2. \A c, d \in C : c.host = d.host => 
         (Less(c, d) <=> \/ L(MatchKey(c), MatchKey(d))
                         \/ MatchKey(c) = MatchKey(d) /\ L(RouteKey(c), RouteKey(d)))
  <2> TAKE c, d \in C
  <2> HAVE c.host = d.host
  <2>1. ConfigOK(c) /\ ConfigOK(d)
    BY Zenon
  <2>2. Decide(MatchKeys(c, d)) <=> L(MatchKey(c), MatchKey(d))
    BY <2>1, ByMatchKey, Zenon
  <2>3. Tie(MatchKeys(c, d)) <=> MatchKey(c) = MatchKey(d)
    BY <2>1, ByMatchKey, Zenon
  <2>4. Decide(RouteKeys(c, d)) <=> L(RouteKey(c), RouteKey(d))
    BY <2>1, ByRouteKey, Zenon
  <2> QED BY <2>2, <2>3, <2>4, Zenon DEF Less
<1>3. \A c, d \in C : c.host # d.host => (Less(c, d) <=> CompareHostnamesSpecificity(c.host, d.host))
  BY DEF Less
<1>4. /\ \A s \in [1..5 -> Int] : ~L(s, s)
      /\ \A s, t, u \in [1..5 -> Int] : L(s, t) /\ L(t, u) => L(s, u)
      /\ \A s, t \in [1..5 -> Int] : s = t \/ L(s, t) \/ L(t, s)
  <2>1. 5 \in Nat
    OBVIOUS
  <2> QED BY <2>1, LexOrder, Zenon
<1> HIDE DEF L
<1>5. ASSUME NEW c \in C, NEW d \in C, NEW e \in C, Less(c, d), Less(d, e)
      PROVE  Less(c, e)
  <2>1. CASE c.host = d.host /\ d.host = e.host
    <3> DEFINE mc == MatchKey(c)
               md == MatchKey(d)
               me == MatchKey(e)
               rc == RouteKey(c)
               rd == RouteKey(d)
               re == RouteKey(e)
    <3>1. /\ mc \in [1..5 -> Int] /\ md \in [1..5 -> Int] /\ me \in [1..5 -> Int]
          /\ rc \in [1..5 -> Int] /\ rd \in [1..5 -> Int] /\ re \in [1..5 -> Int]
      BY <1>1, Zenon
    <3>2. L(mc, md) \/ (mc = md /\ L(rc, rd))
      BY <1>2, <1>5, <2>1, Zenon
    <3>3. L(md, me) \/ (md = me /\ L(rd, re))
      BY <1>2, <1>5, <2>1, Zenon
    <3>4. Less(c, e) <=> L(mc, me) \/ (mc = me /\ L(rc, re))
      BY <1>2, <2>1, Zenon
    <3> HIDE DEF mc, md, me, rc, rd, re
    <3>5. L(mc, me) \/ (mc = me /\ L(rc, re))
      BY ONLY <1>4, <3>1, <3>2, <3>3, Zenon
    <3> QED BY <3>4, <3>5, Zenon
  <2>2. CASE c.host # d.host \/ d.host # e.host
    <3> DEFINE H(g, h) == CompareHostnamesSpecificity(g, h)
    <3>1. c.host \in Hostnames /\ d.host \in Hostnames /\ e.host \in Hostnames
      BY <1>1, Zenon
    <3>2. c.host = d.host \/ H(c.host, d.host)
      BY <1>3, <1>5, ZenonT(40)
    <3>3. d.host = e.host \/ H(d.host, e.host)
      BY <1>3, <1>5, Zenon
    <3>4. /\ \A g \in Hostnames : ~H(g, g)
          /\ \A g, h, k \in Hostnames : H(g, h) /\ H(h, k) => H(g, k)
      BY HostOrder, Zenon
    <3> HIDE DEF H
    <3>5. H(c.host, e.host) /\ c.host # e.host
      BY <2>2, <3>1, <3>2, <3>3, <3>4, Zenon
    <3> QED BY <1>3, <3>5, Zenon DEF H
  <2> QED BY <2>1, <2>2, Zenon
<1>6. ASSUME NEW c \in C, NEW d \in C
      PROVE  \/ Less(c, d) \/ Less(d, c)
             \/ c.host = d.host /\ MatchKey(c) = MatchKey(d) /\ RouteKey(c) = RouteKey(d)
  <2>1. CASE c.host = d.host
    BY <1>1, <1>2, <1>4, <2>1, Zenon
  <2>2. CASE c.host # d.host
    BY <1>1, <1>3, <2>2, HostOrder, Zenon
  <2> QED BY <2>1, <2>2, Zenon
<1> QED BY <1>5, <1>6, Zenon

-----------------------------------------------------------------------------
\* The list is in order.
AtMost(c, d) == Less(c, d) \/ c = d

Ascending(list) == \A i, j \in DOMAIN list : i < j => AtMost(list[i], list[j])

\* q is `list`, with e in the place i.
Inserted(q, list, i, e, S) ==
    /\ q \in Seq(S) /\ DOMAIN q = 1..(Len(list) + 1)
    /\ \A k \in 1..(i - 1) : k \in DOMAIN list /\ q[k] = list[k]
    /\ q[i] = e
    /\ \A k \in (i + 1)..(Len(list) + 1) : k - 1 \in DOMAIN list /\ q[k] = list[k - 1]

\* The list with an action set put in at one place.
LEMMA InsertFacts ==
    ASSUME NEW S, NEW list \in Seq(S), NEW e \in S, NEW i \in 1..(Len(list) + 1)
    PROVE  Inserted(InsertAt(list, i, e), list, i, e, S)
<1> DEFINE n == Len(list)
           a == SubSeq(list, 1, i - 1)
           b == SubSeq(list, i, n)
           c == a \o <<e>>
           q == c \o b
<1>1. n \in Nat /\ i \in Nat /\ i >= 1 /\ i <= n + 1 /\ DOMAIN list = 1..n
  OBVIOUS
<1>2. a \in Seq(S) /\ Len(a) = i - 1 /\ \A k \in 1..(i - 1) : a[k] = list[k]
  OBVIOUS
<1>3. b \in Seq(S) /\ Len(b) = n + 1 - i /\ \A k \in 1..(n + 1 - i) : b[k] = list[i + k - 1]
  OBVIOUS
<1>4. <<e>> \in Seq(S) /\ Len(<<e>>) = 1 /\ <<e>>[1] = e /\ DOMAIN <<e>> = 1..1
  OBVIOUS
<1> HIDE DEF a, b
<1>5. c \in Seq(S) /\ Len(c) = i /\ (\A k \in 1..(i - 1) : c[k] = a[k]) /\ c[i] = e
  <2> DEFINE r == <<e>>
  <2>1. a \in Seq(S) /\ r \in Seq(S)
    BY <1>2, <1>4, Zenon
  <2> HIDE DEF r
  <2>2. /\ c \in Seq(S) /\ Len(c) = Len(a) + Len(r) /\ DOMAIN a = 1..Len(a)
        /\ \A k \in DOMAIN a : c[k] = a[k]
        /\ \A k \in DOMAIN r : c[Len(a) + k] = r[k]
    BY ONLY <2>1, JoinFacts DEF c, r
  <2>3. Len(r) = 1 /\ r[1] = e /\ DOMAIN r = 1..1
    BY <1>4, Zenon DEF r
  <2> HIDE DEF c
  <2>4. Len(c) = i /\ Len(a) + 1 = i
    BY <1>1, <1>2, <2>2, <2>3
  <2>5. c[i] = e
    BY <2>2, <2>3, <2>4
  <2> QED BY <1>2, <2>2, <2>4, <2>5, Zenon
<1> HIDE DEF c
<1>6. /\ q \in Seq(S) /\ Len(q) = Len(c) + Len(b) /\ DOMAIN q = 1..(Len(c) + Len(b)) 
      /\ DOMAIN c = 1..Len(c) /\ DOMAIN b = 1..Len(b)
      /\ \A k \in DOMAIN c : q[k] = c[k]
      /\ \A k \in DOMAIN b : q[Len(c) + k] = b[k]
  <2>1. c \in Seq(S) /\ b \in Seq(S)
    BY <1>3, <1>5
  <2> QED BY ONLY <2>1, JoinFacts DEF q
<1> HIDE DEF q
<1>7. q \in Seq(S) /\ DOMAIN q = 1..(n + 1)
  <2>1. Len(c) + Len(b) = n + 1
    BY <1>1, <1>3, <1>5
  <2> QED BY <1>6, <2>1, Zenon
<1>8. \A k \in 1..(i - 1) : k \in DOMAIN list /\ q[k] = list[k]
  <2> TAKE k \in 1..(i - 1)
  <2>1. k \in 1..n /\ k \in 1..i
    BY <1>1
  <2>2. q[k] = c[k] /\ c[k] = a[k] /\ a[k] = list[k]
    BY <1>2, <1>5, <1>6, <2>1, ZenonT(40)
  <2> QED BY <1>1, <2>1, <2>2, Zenon
<1>9. q[i] = e
  BY <1>1, <1>5, <1>6
<1>10. \A k \in (i + 1)..(n + 1) : k - 1 \in DOMAIN list /\ q[k] = list[k - 1]
  <2> TAKE k \in (i + 1)..(n + 1)
  <2>1. k - i \in 1..(n + 1 - i) /\ i + (k - i) = k /\ i + (k - i) - 1 = k - 1 /\ k - 1 \in 1..n
    BY <1>1
  <2>2. q[i + (k - i)] = b[k - i]
    BY <1>3, <1>5, <1>6, <2>1, Zenon
  <2>3. b[k - i] = list[i + (k - i) - 1]
    BY <1>3, <2>1, Zenon
  <2> QED BY <1>1, <2>1, <2>2, <2>3, Zenon
<1>11. q = InsertAt(list, i, e)
  BY Zenon DEF q, c, a, b, InsertAt
<1> QED BY <1>7, <1>8, <1>9, <1>10, <1>11, Zenon DEF Inserted

\* Where Insert puts an action set: after the last that it is not less than.
LEMMA InsertPlace ==
    ASSUME NEW S, NEW list \in Seq(S), NEW c \in S
    PROVE  \E i \in 1..(Len(list) + 1) :
              /\ Insert(list, c) = InsertAt(list, i, c)
              /\ i # 1 => ~Less(c, list[i - 1])
              /\ \A k \in i..Len(list) : Less(c, list[k])
<1> DEFINE n == Len(list)
           stops == {i \in DOMAIN list : ~Less(c, list[i])}
           last == IF stops = {} THEN 0 ELSE CHOOSE i \in stops : \A j \in stops : j <= i
<1>1. n \in Nat /\ DOMAIN list = 1..n /\ stops \subseteq 0..n
  OBVIOUS
<1>2. Insert(list, c) = InsertAt(list, last + 1, c)
  BY DEF Insert
<1>3. CASE stops = {}
  <2>1. \A k \in 1..n : Less(c, list[k])
    BY <1>1, <1>3, Zenon
  <2>2. last = 0 /\ last + 1 = 1
    BY <1>3
  <2> HIDE DEF last
  <2> QED BY <1>1, <1>2, <2>1, <2>2
<1>4. CASE stops # {}
  <2>1. last \in stops /\ \A j \in stops : j <= last
    <3>1. \E i \in stops : \A j \in stops : j <= i
      <4> HIDE DEF stops
      <4> QED BY <1>1, <1>4, GreatestMember, Zenon
    <3> HIDE DEF stops
    <3> QED BY <1>4, <3>1, Zenon
  <2>2. last \in 1..n /\ ~Less(c, list[last])
    BY <1>1, <2>1, Zenon
  <2>3. \A k \in (last + 1)..n : Less(c, list[k])
    <3> TAKE k \in (last + 1)..n
    <3>1. k \in 1..n /\ ~(k <= last)
      BY <1>1, <2>2
    <3> HIDE DEF last
    <3> QED BY <1>1, <2>1, <3>1, Zenon
  <2> HIDE DEF last, stops
  <2>4. last + 1 \in 1..(n + 1) /\ (last + 1) - 1 = last
    BY <1>1, <2>2
  <2> QED BY <1>2, <2>2, <2>3, <2>4, Zenon
<1> QED BY <1>3, <1>4, Zenon

\* Insert keeps the list in order.
LEMMA InsertKeeps ==
    ASSUME NEW C, \A c \in C : ConfigOK(c), NEW list \in Seq(C), NEW c \in C
    PROVE  /\ Insert(list, c) \in Seq(C)
           /\ Ascending(list) /\ (\A i \in DOMAIN list : AtMost(c, list[i]) \/ AtMost(list[i], c))
              => Ascending(Insert(list, c))
<1> DEFINE n == Len(list)
           q == Insert(list, c)
<1>1. n \in Nat /\ DOMAIN list = 1..n /\ \A k \in 1..n : list[k] \in C
  OBVIOUS
<1>2. PICK i \in 1..(n + 1) : /\ Insert(list, c) = InsertAt(list, i, c)
                              /\ i # 1 => ~Less(c, list[i - 1])
                              /\ \A k \in i..n : Less(c, list[k])
  BY InsertPlace, Zenon
<1>3. /\ q \in Seq(C) /\ DOMAIN q = 1..(n + 1)
      /\ \A k \in 1..(i - 1) : k \in DOMAIN list /\ q[k] = list[k]
      /\ q[i] = c
      /\ \A k \in (i + 1)..(n + 1) : k - 1 \in DOMAIN list /\ q[k] = list[k - 1]
  <2>1. Inserted(q, list, i, c, C)
    BY <1>2, InsertFacts, Zenon
  <2> HIDE DEF q
  <2> QED BY <2>1, Zenon DEF Inserted
<1> HIDE DEF q
<1>4. \A k \in 1..(n + 1) : k \in 1..(i - 1) \/ k = i \/ k \in (i + 1)..(n + 1)
  BY <1>1
<1>5. ASSUME Ascending(list), \A k \in DOMAIN list : AtMost(c, list[k]) \/ AtMost(list[k], c)
      PROVE  Ascending(q)
  <2>1. \A x, y, z \in C : AtMost(x, y) /\ AtMost(y, z) => AtMost(x, z)
    BY LessOrder, Zenon DEF AtMost
  <2>2. \A k \in 1..(i - 1) : AtMost(list[k], c)
    <3> TAKE k \in 1..(i - 1)
    <3>1. i # 1 /\ i - 1 \in 1..n /\ k \in 1..n /\ (k = i - 1 \/ k < i - 1)
      BY <1>1
    <3>2. AtMost(list[i - 1], c)
      BY <1>1, <1>2, <1>5, <3>1, Zenon DEF AtMost
    <3>3. k < i - 1 => AtMost(list[k], list[i - 1])
      BY <1>1, <1>5, <3>1, Zenon DEF Ascending
    <3>4. list[k] \in C /\ list[i - 1] \in C
      BY <1>1, <3>1, Zenon
    <3> QED BY <2>1, <3>1, <3>2, <3>3, <3>4, Zenon
  <2> SUFFICES ASSUME NEW k \in 1..(n + 1), NEW m \in 1..(n + 1), k < m PROVE AtMost(q[k], q[m])
    BY <1>3, Zenon DEF Ascending
  <2>3. CASE m \in 1..(i - 1)
    <3>1. k \in 1..(i - 1)
      BY <2>3
    <3> QED BY <1>3, <1>5, <2>3, <3>1, Zenon DEF Ascending
  <2>4. CASE m = i
    <3>1. k \in 1..(i - 1)
      BY <2>4
    <3> QED BY <1>3, <2>2, <2>4, <3>1, Zenon
  <2>5. CASE m \in (i + 1)..(n + 1)
    <3>1. m - 1 \in i..n /\ m - 1 \in 1..n /\ q[m] = list[m - 1] /\ AtMost(c, list[m - 1])
      BY <1>1, <1>2, <1>3, <2>5 DEF AtMost
    <3>2. CASE k \in 1..(i - 1)
      <4>1. q[k] = list[k] /\ k \in 1..n /\ k < m - 1
        BY <1>1, <1>3, <2>5, <3>2
      <4> QED BY <1>1, <1>5, <3>1, <4>1, Zenon DEF Ascending
    <3>3. CASE k = i
      BY <1>3, <3>1, <3>3, Zenon
    <3>4. CASE k \in (i + 1)..(n + 1)
      <4>1. q[k] = list[k - 1] /\ k - 1 \in 1..n /\ k - 1 < m - 1
        BY <1>1, <1>3, <2>5, <3>4
      <4> QED BY <1>1, <1>5, <3>1, <4>1, Zenon DEF Ascending
    <3> QED BY <1>4, <3>2, <3>3, <3>4, Zenon
  <2> QED BY <1>4, <2>3, <2>4, <2>5, Zenon
<1> QED BY <1>3, <1>5, Zenon DEF q

\* Action sets that Less tells apart are sorted.
LEMMA InsertAllFacts ==
    ASSUME NEW C, \A c \in C : ConfigOK(c), NEW cs \in Seq(C),
           \A c, d \in C : AtMost(c, d) \/ AtMost(d, c)
    PROVE  InsertAll(cs) \in Seq(C) /\ Ascending(InsertAll(cs))
<1> DEFINE N == Len(cs)
           step == [p \in (1..N) \X Seq(C) |-> Insert(p[2], cs[p[1]])]
<1>1. N \in Nat /\ DOMAIN cs = 1..N /\ \A i \in 1..N : cs[i] \in C
  OBVIOUS
<1>2. \A list \in Seq(C), c \in C : Insert(list, c) \in Seq(C)
  BY InsertKeeps, Zenon
<1>3. step \in [(1..N) \X Seq(C) -> Seq(C)] /\ <<>> \in Seq(C)
  BY <1>1, <1>2
<1>4. PICK f : Turns(f, N, Seq(C), <<>>, step)
  <2> HIDE DEF step, N
  <2> QED BY <1>1, <1>3, Recursion, Zenon
<1>5. f \in [0..N -> Seq(C)] /\ f[0] = <<>> /\ \A n \in 1..N : f[n] = step[<<n, f[n - 1]>>]
  <2> HIDE DEF step, N
  <2> QED BY <1>4, Zenon DEF Turns
<1>6. \A n \in 1..N : f[n] = Insert(f[n - 1], cs[n])
  <2> TAKE n \in 1..N
  <2>1. n - 1 \in 0..N
    BY <1>1
  <2>2. <<n, f[n - 1]>> \in (1..N) \X Seq(C)
    BY <1>5, <2>1, Zenon
  <2> QED BY <1>5, <2>2, Zenon
<1> HIDE DEF step
<1> DEFINE Eq(g) == g = [n \in 0..N |-> IF n = 0 THEN <<>> ELSE Insert(g[n - 1], cs[n])]
           g == CHOOSE g : Eq(g)
<1>7. Eq(f)
  <2>1. \A n \in 0..N : f[n] = IF n = 0 THEN <<>> ELSE Insert(f[n - 1], cs[n])
    <3> TAKE n \in 0..N
    <3>1. n = 0 \/ n \in 1..N
      BY <1>1
    <3> QED BY <1>5, <1>6, <3>1, Zenon
  <2>2. f = [n \in 0..N |-> f[n]]
    BY <1>5, Zenon
  <2> QED BY <2>1, <2>2, Zenon
<1>8. Eq(g)
  <2> HIDE DEF Eq
  <2> QED BY <1>7, Zenon
<1>9. InsertAll(cs) = g[N]
  BY DEF InsertAll
<1>10. \A n \in 0..N : g[n] = IF n = 0 THEN <<>> ELSE Insert(g[n - 1], cs[n])
  <2> HIDE DEF g
  <2> QED BY <1>8, Zenon
<1> HIDE DEF g
<1> DEFINE Good(n) == g[n] \in Seq(C) /\ Ascending(g[n])
           T == {n \in Nat : n \in 0..N => Good(n)}
<1>11. 0 \in T
  <2>1. g[0] = <<>>
    BY <1>1, <1>10
  <2>2. Good(0)
    BY <2>1 DEF Ascending
  <2> QED BY <2>2, Zenon
<1>12. ASSUME NEW n \in Nat, n \in T PROVE n + 1 \in T
  <2> SUFFICES ASSUME n + 1 \in 0..N PROVE Good(n + 1)
    OBVIOUS
  <2> DEFINE c == cs[n + 1]
             q == g[n]
  <2>1. n \in 0..N /\ n + 1 \in 1..N /\ n + 1 # 0 /\ (n + 1) - 1 = n /\ c \in C
    BY <1>1
  <2>2. Good(n)
    BY <1>12, <2>1, Zenon
  <2>3. g[n + 1] = Insert(q, c)
    BY <1>10, <2>1, Zenon
  <2>4. q \in Seq(C) /\ Ascending(q)
    BY <2>2, Zenon
  <2> HIDE DEF q, c
  <2>5. \A k \in DOMAIN q : AtMost(c, q[k]) \/ AtMost(q[k], c)
    BY <2>1, <2>4
  <2>6. Insert(q, c) \in Seq(C) /\ Ascending(Insert(q, c))
    BY <2>1, <2>4, <2>5, InsertKeeps, Zenon
  <2> QED BY <2>3, <2>6, Zenon
<1>13. Nat \subseteq T
  <2> HIDE DEF T
  <2> QED BY <1>11, <1>12, Induct, Zenon
<1>14. Good(N)
  <2>1. N \in T /\ N \in 0..N
    BY <1>1, <1>13
  <2> HIDE DEF Good
  <2> QED BY <2>1, Zenon
<1> QED BY <1>9, <1>14, Zenon

-----------------------------------------------------------------------------
\* The action sets of a path, in no order.
HostsOf(p) == HostnamesFromListenerAndHTTPRoute(p.listener, p.route)

ConfigsOf(p) ==
    {Config(p, h, j, MatchesOf(p.route, p.rule)[j]) :
       h \in {g \in Hostnames : \E i \in DOMAIN HostsOf(p) : HostsOf(p)[i] = g},
       j \in DOMAIN MatchesOf(p.route, p.rule)}

\* FlattenSeq, that is lo.FlatMap.
LEMMA FlattenFacts ==
    ASSUME NEW S, NEW ss \in Seq(Seq(S))
    PROVE  FlattenSeq(ss) \in Seq(S)
<1> DEFINE N == Len(ss)
           F == FlattenSeq(ss)
<1>1. N \in Nat /\ DOMAIN ss = 1..N /\ \A i \in 1..N : ss[i] \in Seq(S)
  OBVIOUS
<1>2. CASE N = 0
  <2>1. F = ss /\ ss = <<>>
    BY <1>2 DEF FlattenSeq
  <2> QED BY <2>1
<1>3. CASE N # 0
  <2> DEFINE step == [p \in (1..N) \X Seq(S) |-> p[2] \o ss[p[1]]]
  <2>1. step \in [(1..N) \X Seq(S) -> Seq(S)] /\ <<>> \in Seq(S)
    BY <1>1
  <2>0. PICK f : Turns(f, N, Seq(S), <<>>, step)
    <3> HIDE DEF step, N
    <3> QED BY <1>1, <2>1, Recursion, Zenon
  <2>2. f \in [0..N -> Seq(S)] /\ f[0] = <<>> /\ \A n \in 1..N : f[n] = step[<<n, f[n - 1]>>]
    <3> HIDE DEF step, N
    <3> QED BY <2>0, Zenon DEF Turns
  <2>3. \A n \in 1..N : f[n - 1] \in Seq(S) /\ f[n] = f[n - 1] \o ss[n]
    <3> SUFFICES ASSUME NEW n \in 1..N
                 PROVE  f[n - 1] \in Seq(S) /\ f[n] = f[n - 1] \o ss[n]
      BY Zenon
    <3>1. n - 1 \in 0..N
      BY <1>1
    <3>2. f[n - 1] \in Seq(S) /\ <<n, f[n - 1]>> \in (1..N) \X Seq(S)
      BY <2>2, <3>1, Zenon
    <3> QED BY <2>2, <3>2, Zenon
  <2> HIDE DEF step
  <2> DEFINE Eq(g) == g = [i \in 1..N |-> IF i = 1 THEN ss[i] ELSE g[i - 1] \o ss[i]]
             h == [i \in 1..N |-> f[i]]
  <2>4. Eq(h)
    <3>1. \A i \in 1..N : h[i] = IF i = 1 THEN ss[i] ELSE h[i - 1] \o ss[i]
      <4> SUFFICES ASSUME NEW i \in 1..N
                   PROVE  h[i] = IF i = 1 THEN ss[i] ELSE h[i - 1] \o ss[i]
        BY Zenon
      <4>1. CASE i = 1
        <5>1. <<>> \o ss[1] = ss[1] /\ h[1] = f[1] /\ f[1] = f[0] \o ss[1]
          BY <1>1, <1>3, <2>3, <4>1
        <5> QED BY <2>2, <4>1, <5>1, Zenon
      <4>2. CASE i # 1
        <5>1. i - 1 \in 1..N
          BY <1>1, <4>2
        <5>2. h[i] = f[i] /\ h[i - 1] = f[i - 1]
          BY <5>1, Zenon
        <5> QED BY <2>3, <4>2, <5>2, Zenon
      <4> QED BY <4>1, <4>2, Zenon
    <3>2. h = [i \in 1..N |-> h[i]]
      OBVIOUS
    <3> HIDE DEF h
    <3> QED BY <3>1, <3>2, Zenon
  <2> DEFINE g == CHOOSE g : Eq(g)
  <2>5. Eq(g) /\ F = g[N]
    <3>1. Eq(g)
      <4> HIDE DEF Eq, h
      <4> QED BY <2>4
    <3> QED BY <1>3, <3>1, Zenon DEF FlattenSeq
  <2>6. \A i \in 1..N : g[i] = IF i = 1 THEN ss[i] ELSE g[i - 1] \o ss[i]
    <3> HIDE DEF g
    <3> QED BY <2>5, Zenon
  <2> HIDE DEF g
  <2> DEFINE T == {n \in Nat : n \in 1..N => g[n] \in Seq(S)}
  <2>7. 0 \in T
    BY <1>1
  <2>8. ASSUME NEW n \in Nat, n \in T PROVE n + 1 \in T
    <3> SUFFICES ASSUME n + 1 \in 1..N PROVE g[n + 1] \in Seq(S)
      OBVIOUS
    <3>1. CASE n = 0
      BY <1>1, <2>6, <3>1
    <3>2. CASE n # 0
      <4>1. n \in 1..N /\ n + 1 # 1 /\ (n + 1) - 1 = n
        BY <1>1, <3>2
      <4>2. g[n] \in Seq(S) /\ ss[n + 1] \in Seq(S)
        BY <1>1, <2>8, <4>1, Zenon
      <4>3. g[n + 1] = g[n] \o ss[n + 1]
        BY <2>6, <4>1, Zenon
      <4> QED BY <4>2, <4>3
    <3> QED BY <3>1, <3>2, Zenon
  <2>9. Nat \subseteq T
    <3> HIDE DEF T
    <3> QED BY <2>7, <2>8, Induct, Zenon
  <2>10. g[N] \in Seq(S)
    <3>1. N \in T /\ N \in 1..N
      BY <1>1, <1>3, <2>9
    <3> QED BY <3>1, Zenon
  <2> QED BY <2>5, <2>10, Zenon
<1> QED
  BY <1>2, <1>3, Zenon

\* A path goes through a listener, a route and a rule of the gateway.
LEMMA PathFacts ==
    ASSUME NEW routes \in GatewayRoutes, NEW p \in PathsOf(routes)
    PROVE  /\ p.listener \in Listeners /\ p.route \in routes[p.listener] /\ p.rule \in DOMAIN p.route.rules
           /\ p = [listener |-> p.listener, route |-> p.route, rule |-> p.rule]
           /\ p.listener.name \in Nat /\ p.listener.hostname \in Hostnames
           /\ RouteOK(p.route)
<1>1. PICK l \in Listeners : \E r \in routes[l] : \E i \in DOMAIN r.rules :
         p = [listener |-> l, route |-> r, rule |-> i]
  BY DEF PathsOf
<1>2. PICK r \in routes[l] : \E i \in DOMAIN r.rules : p = [listener |-> l, route |-> r, rule |-> i]
  BY <1>1, Zenon
<1>3. PICK i \in DOMAIN r.rules : p = [listener |-> l, route |-> r, rule |-> i]
  BY <1>2, Zenon
<1>4. RouteOK(r)
  BY RoutesAssumption, Zenon
<1>5. l.name \in Nat /\ l.hostname \in Hostnames
  BY ListenersAssumption, Zenon
<1> QED BY <1>3, <1>4, <1>5, Zenon

\* What the API server admits of a route.
LEMMA RouteFacts ==
    ASSUME NEW r, RouteOK(r)
    PROVE  /\ r.kind \in {"HTTPRoute", "GRPCRoute"} /\ r.name \in Nat /\ r.created \in Nat
           /\ r.hostnames \in Seq(Hostnames)
           /\ r.kind = "HTTPRoute" => r.rules \in Seq(Seq(HTTPMatches))
           /\ r.kind = "GRPCRoute" => r.rules \in Seq(Seq(GRPCMatches))
<1>1. CASE r \in Routes("HTTPRoute", HTTPMatches)
  BY <1>1, Zenon DEF RouteOK, Routes
<1>2. CASE r \in Routes("GRPCRoute", GRPCMatches)
  BY <1>2, Zenon DEF RouteOK, Routes
<1> QED BY <1>1, <1>2, Zenon DEF RouteOK

\* The hostnames of a path are hostnames.
LEMMA HostsFacts ==
    ASSUME NEW l, l.hostname \in Hostnames, NEW r, RouteOK(r)
    PROVE  HostnamesFromListenerAndHTTPRoute(l, r) \in Seq(Hostnames)
<1> DEFINE hosts == r.hostnames
           ss == [i \in DOMAIN hosts |-> IF SubsetOf(hosts[i], l.hostname) THEN <<hosts[i]>> ELSE <<>>]
<1>1. hosts \in Seq(Hostnames)
  BY RouteFacts, Zenon
<1>2. CASE hosts = <<>>
  BY <1>2 DEF HostnamesFromListenerAndHTTPRoute
<1>3. CASE hosts # <<>>
  <2>1. HostnamesFromListenerAndHTTPRoute(l, r) = FlattenSeq(ss)
    BY <1>3, Zenon DEF HostnamesFromListenerAndHTTPRoute
  <2>2. DOMAIN ss = 1..Len(hosts) /\ Len(hosts) \in Nat /\ \A i \in DOMAIN ss : hosts[i] \in Hostnames
    BY <1>1
  <2>3. \A i \in DOMAIN ss : ss[i] \in Seq(Hostnames)
    BY <2>2
  <2>4. ss = [i \in 1..Len(hosts) |-> ss[i]]
    BY <2>2
  <2> HIDE DEF ss
  <2>5. ss \in Seq(Seq(Hostnames))
    BY <2>2, <2>3, <2>4
  <2> QED BY <2>1, <2>5, FlattenFacts, ZenonT(40)
<1> QED BY <1>2, <1>3, Zenon

\* Names after slashes are longer than nothing.
LEMMA LongerFacts ==
    ASSUME NEW S, NEW a \in Seq(S), NEW b \in Seq(S), Len(a) # 0
    PROVE  a \o b \in Seq(S) /\ Len(a \o b) # 0
<1>1. a \o b \in Seq(S) /\ Len(a \o b) = Len(a) + Len(b) /\ Len(a) \in Nat /\ Len(b) \in Nat
  OBVIOUS
<1> QED BY <1>1

LEMMA SlashFacts ==
    ASSUME NEW S, NEW x \in S, NEW a \in Seq(S), NEW b \in Seq(S)
    PROVE  /\ <<x>> \o a \o b \in Seq(S) /\ Len(<<x>> \o a \o b) # 0
           /\ <<x>> \o a \o <<x>> \o b \in Seq(S) /\ Len(<<x>> \o a \o <<x>> \o b) # 0
<1> DEFINE slash == <<x>>
<1>1. slash \in Seq(S) /\ Len(slash) # 0
  OBVIOUS
<1> HIDE DEF slash
<1> DEFINE s == slash \o a
<1>2. s \in Seq(S) /\ Len(s) # 0
  BY <1>1, LongerFacts, Zenon
<1> HIDE DEF s
<1> DEFINE t == s \o slash
<1>3. t \in Seq(S) /\ Len(t) # 0
  BY <1>1, <1>2, LongerFacts, Zenon
<1> HIDE DEF t
<1>4. s \o b \in Seq(S) /\ Len(s \o b) # 0
  BY <1>2, LongerFacts, Zenon
<1>5. t \o b \in Seq(S) /\ Len(t \o b) # 0
  BY <1>3, LongerFacts, Zenon
<1> QED BY <1>4, <1>5, Zenon DEF s, t, slash

\* A path that is matched has a value, and one that is not has none.
LEMMA ConvertFacts ==
    ASSUME NEW m \in GRPCMatches, IsFiniteSet(m.headers)
    PROVE  LET h == ConvertGRPCRouteMatchToHTTP(m) IN
           /\ h.path.type \in {"none", "Exact", "PathPrefix", "RegularExpression"}
           /\ Len(h.path.value) \in Nat
           /\ h.path.type = "none" <=> Len(h.path.value) = 0
           /\ Cardinality(h.headers) \in Nat /\ Len(h.query) \in Nat
<1> DEFINE h == ConvertGRPCRouteMatchToHTTP(m)
           both == m.service # <<>> /\ m.rpc # <<>>
           value == IF both THEN <<"/">> \o m.service \o <<"/">> \o m.rpc
                    ELSE <<"/">> \o m.service \o m.rpc
<1>1. m.service \in Seq(Texts) /\ m.rpc \in Seq(Texts)
  BY DEF GRPCMatches
<1>2. value \in Seq(Texts) /\ Len(value) # 0
  <2> DEFINE a == m.service
             b == m.rpc
  <2>1. "/" \in Texts /\ a \in Seq(Texts) /\ b \in Seq(Texts)
    BY <1>1 DEF Texts
  <2>2. value = <<"/">> \o a \o <<"/">> \o b \/ value = <<"/">> \o a \o b
    BY Zenon
  <2> HIDE DEF value, a, b
  <2> QED BY ONLY <2>1, <2>2, SlashFacts, Zenon
<1>3. h.headers = m.headers /\ h.query = <<>>
  BY DEF ConvertGRPCRouteMatchToHTTP
<1> HIDE DEF value
<1>4. CASE m.service = <<>> /\ m.rpc = <<>>
  <2>1. h.path = NoPathMatch
    BY <1>4, Zenon DEF ConvertGRPCRouteMatchToHTTP
  <2> QED BY <1>3, <2>1, FS_CardinalityType DEF NoPathMatch, Path
<1>5. CASE ~(m.service = <<>> /\ m.rpc = <<>>)
  <2>1. h.path.type \in {"Exact", "PathPrefix", "RegularExpression"} /\ h.path.value = value
    BY <1>5 DEF ConvertGRPCRouteMatchToHTTP, Path, value
  <2> HIDE DEF h
  <2>2. Len(h.path.value) \in Nat /\ Len(h.path.value) # 0
    BY <1>2, <2>1
  <2>3. Cardinality(h.headers) \in Nat /\ Len(h.query) \in Nat
    BY <1>3, FS_CardinalityType, Zenon
  <2>4. h.path.type # "none"
    BY <2>1, Zenon
  <2> QED BY <2>1, <2>2, <2>3, <2>4, Zenon DEF h
<1> QED BY <1>4, <1>5, Zenon

\* The matches of a rule, with those that are given by default.
LEMMA MatchesFacts ==
    ASSUME NEW r, RouteOK(r), NEW i \in DOMAIN r.rules
    PROVE  /\ DOMAIN MatchesOf(r, i) = 1..Len(MatchesOf(r, i)) /\ Len(MatchesOf(r, i)) \in Nat
           /\ \A j \in DOMAIN MatchesOf(r, i) :
                 /\ IsFiniteSet(MatchesOf(r, i)[j].headers)
                 /\ r.kind = "HTTPRoute" => MatchesOf(r, i)[j] \in HTTPMatches
                 /\ r.kind # "HTTPRoute" => MatchesOf(r, i)[j] \in GRPCMatches
<1> DEFINE ms == MatchesOf(r, i)
<1>1. r.kind \in {"HTTPRoute", "GRPCRoute"}
  BY RouteFacts, Zenon
<1>2. CASE r.rules[i] # <<>>
  <2>1. ms = r.rules[i]
    BY <1>2, Zenon DEF MatchesOf
  <2>2. \A j \in DOMAIN ms : IsFiniteSet(ms[j].headers)
    BY <2>1, Zenon DEF RouteOK
  <2>3. CASE r.kind = "HTTPRoute"
    <3>1. ms \in Seq(HTTPMatches)
      BY <2>1, <2>3, RouteFacts
    <3> HIDE DEF ms
    <3> QED BY <2>2, <2>3, <3>1 DEF ms
  <2>4. CASE r.kind = "GRPCRoute"
    <3>1. ms \in Seq(GRPCMatches)
      BY <2>1, <2>4, RouteFacts
    <3> HIDE DEF ms
    <3> QED BY <2>2, <2>4, <3>1 DEF ms
  <2> QED BY <1>1, <2>3, <2>4, Zenon
<1>3. CASE r.rules[i] = <<>>
  <2>1. IsFiniteSet({})
    BY FS_EmptySet, Zenon
  <2>2. CASE r.kind = "HTTPRoute"
    <3>1. ms = <<CatchAll>>
      BY <1>3, <2>2, Zenon DEF MatchesOf
    <3>2. CatchAll \in HTTPMatches /\ CatchAll.headers = {}
      BY DEF CatchAll, HTTPMatches, Path, Texts
    <3> HIDE DEF ms
    <3> QED BY <2>1, <2>2, <3>1, <3>2 DEF ms
  <2>3. CASE r.kind = "GRPCRoute"
    <3>1. ms = <<EmptyGRPCMatch>>
      BY <1>3, <2>3, Zenon DEF MatchesOf
    <3>2. EmptyGRPCMatch \in GRPCMatches /\ EmptyGRPCMatch.headers = {}
      BY DEF EmptyGRPCMatch, GRPCMatches
    <3> HIDE DEF ms
    <3> QED BY <2>1, <2>3, <3>1, <3>2 DEF ms
  <2> QED BY <1>1, <2>2, <2>3
<1> QED BY <1>2, <1>3, Zenon

\* An action set has all that the comparator looks at.
LEMMA ConfigFacts ==
    ASSUME NEW routes \in GatewayRoutes, NEW p \in PathsOf(routes), NEW c \in ConfigsOf(p)
    PROVE  /\ ConfigOK(c)
           /\ c.route = p.route.name /\ c.rule = p.rule /\ c.identifier = p.listener.name
           /\ c.index \in DOMAIN MatchesOf(p.route, p.rule)
           /\ c = Config(p, c.host, c.index, MatchesOf(p.route, p.rule)[c.index])
<1> DEFINE r == p.route
           ms == MatchesOf(p.route, p.rule)
<1>1. p.listener.name \in Nat /\ RouteOK(r) /\ p.rule \in DOMAIN r.rules
  BY PathFacts, Zenon
<1>2. r.name \in Nat /\ r.created \in Nat /\ r.rules \in Seq(Seq(HTTPMatches) \cup Seq(GRPCMatches))
  BY <1>1, RouteFacts
<1>3. PICK h \in Hostnames, j \in DOMAIN ms : c = Config(p, h, j, ms[j])
  BY DEF ConfigsOf
<1>4. /\ DOMAIN ms = 1..Len(ms) /\ Len(ms) \in Nat
      /\ IsFiniteSet(ms[j].headers)
      /\ r.kind = "HTTPRoute" => ms[j] \in HTTPMatches
      /\ r.kind # "HTTPRoute" => ms[j] \in GRPCMatches
  BY <1>1, MatchesFacts, Zenon
<1> HIDE DEF ms
<1>5. /\ c.host = h /\ c.index = j /\ c.created = r.created
      /\ c.route = r.name /\ c.rule = p.rule /\ c.identifier = p.listener.name
      /\ c.match = IF r.kind = "HTTPRoute" THEN ms[j] ELSE ConvertGRPCRouteMatchToHTTP(ms[j])
  BY <1>3, Zenon DEF Config
<1>6. /\ c.match.path.type \in {"none", "Exact", "PathPrefix", "RegularExpression"}
      /\ Len(c.match.path.value) \in Nat
      /\ c.match.path.type = "none" <=> Len(c.match.path.value) = 0
      /\ Cardinality(c.match.headers) \in Nat /\ Len(c.match.query) \in Nat
  <2>1. CASE r.kind = "HTTPRoute"
    <3> DEFINE m == ms[j]
    <3>1. m \in HTTPMatches /\ c.match = m
      BY <1>4, <1>5, <2>1, Zenon
    <3> HIDE DEF m
    <3>2. m.path.type \in {"Exact", "PathPrefix", "RegularExpression"} /\ m.path.value \in Seq(Texts)
          /\ m.path.value # <<>> /\ Len(m.query) \in Nat
      BY <3>1 DEF HTTPMatches
    <3>3. Len(m.path.value) \in Nat /\ Len(m.path.value) # 0
      BY <3>2
    <3>4. Cardinality(m.headers) \in Nat
      BY <1>4, FS_CardinalityType, Zenon DEF m
    <3> QED BY <3>1, <3>2, <3>3, <3>4, ZenonT(40)
  <2>2. CASE r.kind # "HTTPRoute"
    BY <1>4, <1>5, <2>2, ConvertFacts, Zenon
  <2> QED BY <2>1, <2>2, Zenon
<1>7. c.created \in Int /\ c.route \in Int /\ c.rule \in Int /\ c.index \in Int /\ c.identifier \in Int
  BY <1>1, <1>2, <1>4, <1>5
<1> QED BY <1>3, <1>5, <1>6, <1>7, Zenon DEF ConfigOK, ms

\* No two paths have an action set in common, and what Less compares tells two action sets apart.
LEMMA KeysIdentify ==
    ASSUME NEW routes \in GatewayRoutes, NEW p \in PathsOf(routes), NEW q \in PathsOf(routes),
           NEW c \in ConfigsOf(p), NEW d \in ConfigsOf(q), c.host = d.host, RouteKey(c) = RouteKey(d)
    PROVE  p = q /\ c = d
<1>1. c.route = d.route /\ c.rule = d.rule /\ c.index = d.index /\ c.identifier = d.identifier
  BY DEF RouteKey
<1>2. p.listener = q.listener
  BY <1>1, ConfigFacts, PathFacts, ListenersAssumption
<1>3. p.route = q.route
  BY <1>1, ConfigFacts, PathFacts, RoutesAssumption
<1>4. p.rule = q.rule
  BY <1>1, ConfigFacts, ZenonT(40)
<1>5. p = q
  BY <1>2, <1>3, <1>4, PathFacts, ZenonT(40)
<1>6. c = Config(p, c.host, c.index, MatchesOf(p.route, p.rule)[c.index])
  BY ConfigFacts, Zenon
<1>7. d = Config(q, d.host, d.index, MatchesOf(q.route, q.rule)[d.index])
  BY ConfigFacts, ZenonT(40)
<1> QED BY <1>1, <1>5, <1>6, <1>7, Zenon

\* BuildActionSetsForPath makes action sets of the path.
LEMMA BuildFacts ==
    ASSUME NEW routes \in GatewayRoutes, NEW p \in PathsOf(routes)
    PROVE  BuildActionSetsForPath(p) \in Seq(ConfigsOf(p))
<1> DEFINE hosts == HostsOf(p)
           ms == MatchesOf(p.route, p.rule)
           ss == [h \in DOMAIN hosts |-> [j \in DOMAIN ms |-> Config(p, hosts[h], j, ms[j])]]
           C == ConfigsOf(p)
<1>1. hosts \in Seq(Hostnames)
  BY PathFacts, HostsFacts, Zenon DEF HostsOf
<1>2. DOMAIN ms = 1..Len(ms) /\ Len(ms) \in Nat
  BY PathFacts, MatchesFacts, Zenon
<1>3. BuildActionSetsForPath(p) = FlattenSeq(ss)
  BY DEF BuildActionSetsForPath, HostsOf
<1>4. \A h \in DOMAIN hosts, j \in DOMAIN ms : Config(p, hosts[h], j, ms[j]) \in C
  BY <1>1 DEF ConfigsOf
<1> HIDE DEF hosts, ms, C
<1>5. \A h \in DOMAIN hosts : ss[h] \in Seq(C)
  BY <1>2, <1>4
<1>6. DOMAIN ss = 1..Len(hosts) /\ DOMAIN hosts = 1..Len(hosts) /\ Len(hosts) \in Nat
      /\ ss = [h \in DOMAIN hosts |-> ss[h]]
  BY <1>1
<1> HIDE DEF ss
<1>7. ss \in Seq(Seq(C))
  BY <1>5, <1>6
<1> QED BY <1>3, <1>7, FlattenFacts, Zenon DEF C

-----------------------------------------------------------------------------
\* The action sets are of paths of the gateway, and the sorted ones ascend.
Configs(routes) == UNION {ConfigsOf(p) : p \in PathsOf(routes)}

MatchInv ==
    /\ gatewayRoutes \in GatewayRoutes
    /\ pendingPaths \subseteq PathsOf(gatewayRoutes)
    /\ configs \in Seq(Configs(gatewayRoutes))
    /\ sorted \in Seq(Configs(gatewayRoutes))
    /\ Ascending(sorted)

LEMMA SeqOfMore ==
    ASSUME NEW A, NEW B, A \subseteq B, NEW q \in Seq(A)
    PROVE  q \in Seq(B)
  OBVIOUS

LEMMA AddPathStep ==
    ASSUME MatchInv, NEW p \in pendingPaths, AddPath(p)
    PROVE  MatchInv'
<1> DEFINE C == Configs(gatewayRoutes)
           new == BuildActionSetsForPath(p)
<1>1. /\ gatewayRoutes' = gatewayRoutes /\ sorted' = sorted /\ pendingPaths' = pendingPaths \ {p}
      /\ configs' = configs \o new
  BY DEF AddPath
<1>2. p \in PathsOf(gatewayRoutes) /\ gatewayRoutes \in GatewayRoutes /\ configs \in Seq(C)
  BY DEF MatchInv
<1>3. new \in Seq(ConfigsOf(p))
  BY <1>2, BuildFacts, Zenon
<1>4. ConfigsOf(p) \subseteq C
  BY <1>2, Zenon DEF Configs
<1> HIDE DEF new, C
<1>5. new \in Seq(C)
  BY <1>3, <1>4, SeqOfMore, ZenonT(40)
<1>6. configs' \in Seq(C)
  BY <1>1, <1>2, <1>5
<1> QED BY <1>1, <1>6, Zenon DEF MatchInv, C, Ascending

\* Of two action sets of a gateway one comes first.
LEMMA ConfigsOrdered ==
    ASSUME NEW routes \in GatewayRoutes
    PROVE  /\ \A c \in Configs(routes) : ConfigOK(c)
           /\ \A c, d \in Configs(routes) : AtMost(c, d) \/ AtMost(d, c)
<1> DEFINE C == Configs(routes)
<1>1. \A c \in C : ConfigOK(c)
  BY ConfigFacts, Zenon DEF Configs
<1>2. ASSUME NEW c \in C, NEW d \in C, c # d PROVE Less(c, d) \/ Less(d, c)
  <2>1. PICK p \in PathsOf(routes) : c \in ConfigsOf(p)
    BY DEF Configs
  <2>2. PICK q \in PathsOf(routes) : d \in ConfigsOf(q)
    BY DEF Configs
  <2>3. ~(c.host = d.host /\ RouteKey(c) = RouteKey(d))
    BY <1>2, <2>1, <2>2, KeysIdentify, Zenon
  <2> HIDE DEF C
  <2> QED BY <1>1, <2>3, LessOrder, Zenon
<1> QED BY <1>1, <1>2, Zenon DEF AtMost

LEMMA SortConfigsStep ==
    ASSUME MatchInv, SortConfigs
    PROVE  MatchInv'
<1> DEFINE C == Configs(gatewayRoutes)
<1>1. /\ UNCHANGED <<gatewayRoutes, pendingPaths, configs>> /\ sorted' = InsertAll(configs)
      /\ gatewayRoutes \in GatewayRoutes /\ configs \in Seq(C)
  BY Zenon DEF SortConfigs, MatchInv
<1>2. (\A c \in C : ConfigOK(c)) /\ (\A c, d \in C : AtMost(c, d) \/ AtMost(d, c))
  BY <1>1, ConfigsOrdered, Zenon
<1> HIDE DEF C
<1>3. sorted' \in Seq(C) /\ Ascending(sorted')
  BY <1>1, <1>2, InsertAllFacts, Zenon
<1> QED BY <1>1, <1>3, Zenon DEF MatchInv, Ascending, C

LEMMA MatchStep == MatchInv /\ [MatchNext]_matchVars => MatchInv'
<1> SUFFICES ASSUME MatchInv, [MatchNext]_matchVars PROVE MatchInv'
  BY Zenon
<1>1. CASE UNCHANGED matchVars
  BY <1>1, Zenon DEF MatchInv, matchVars, Ascending
<1> QED
  BY <1>1, AddPathStep, SortConfigsStep, Zenon DEF MatchNext

LEMMA MatchInitially ==
    ASSUME NEW routes \in GatewayRoutes, NEW covered \in SUBSET PathsOf(routes), MatchInit(routes, covered)
    PROVE  MatchInv
  BY DEF MatchInit, MatchInv, Ascending

\* The order that the action sets have in the filter is that of Less.
THEOREM SortedInOneOrder == MatchSpec => []OneOrder
<1>1. (\E routes \in GatewayRoutes : \E covered \in SUBSET PathsOf(routes) : MatchInit(routes, covered))
         => MatchInv
  BY MatchInitially, Zenon
<1>2. MatchInv => OneOrder
  BY DEF MatchInv, Ascending, AtMost, OneOrder
<1> QED
  BY <1>1, <1>2, MatchStep, PTL DEF MatchSpec

-----------------------------------------------------------------------------
\* Of two hostnames with as many labels, one that is a wildcard covers no other wildcard.
LEMMA WildcardsApart ==
    ASSUME NEW n \in Hostnames, NEW o \in Hostnames, Len(n) = Len(o), Head(n) = Head(o), IsSuffix(Tail(o), n)
    PROVE  n = o
<1> DEFINE k == Len(o)
           a == Reverse(Tail(o))
           b == Reverse(n)
<1>1. k \in Nat /\ k # 0 /\ Len(Tail(o)) = k - 1 /\ DOMAIN n = 1..k /\ DOMAIN o = 1..k /\ n[1] = o[1]
  BY DEF Hostnames
<1>2. Tail(o) \in Seq(Nat) /\ \A i \in 1..(k - 1) : Tail(o)[i] = o[i + 1]
  BY DEF Hostnames
<1>3. a \in Seq(Nat) /\ Len(a) = k - 1 /\ \A i \in 1..(k - 1) : a[i] = Tail(o)[((k - 1) - i) + 1]
  BY <1>1, <1>2 DEF Reverse
<1>4. b \in Seq(Nat) /\ Len(b) = k /\ \A i \in 1..k : b[i] = n[(k - i) + 1]
  BY <1>1 DEF Reverse, Hostnames
<1>5. SubSeq(a, 1, k - 1) = SubSeq(b, 1, k - 1)
  BY <1>3, Zenon DEF IsSuffix, IsPrefix
<1> HIDE DEF a, b
<1>6. \A i \in 1..(k - 1) : a[i] = b[i]
  <2> TAKE i \in 1..(k - 1)
  <2>1. SubSeq(a, 1, k - 1)[i] = a[i]
    BY <1>1, <1>3
  <2>2. SubSeq(b, 1, k - 1)[i] = b[i]
    BY <1>1, <1>4
  <2> QED BY <1>5, <2>1, <2>2, Zenon
<1>7. \A j \in 2..k : n[j] = o[j]
  <2> TAKE j \in 2..k
  <2> DEFINE i == (k - j) + 1
  <2>1. i \in 1..(k - 1) /\ i \in 1..k /\ (k - i) + 1 = j /\ ((k - 1) - i) + 1 = j - 1 /\ j - 1 \in 1..(k - 1) /\ (j - 1) + 1 = j
    BY <1>1
  <2> HIDE DEF i
  <2>2. b[i] = n[j]
    BY <1>4, <2>1, Zenon
  <2>3. a[i] = Tail(o)[j - 1]
    BY <1>3, <2>1, Zenon
  <2>4. Tail(o)[j - 1] = o[j]
    BY <1>2, <2>1, Zenon
  <2> QED BY <1>6, <2>1, <2>2, <2>3, <2>4, Zenon
<1>8. \A j \in 1..k : n[j] = o[j]
  <2> TAKE j \in 1..k
  <2>1. j = 1 \/ j \in 2..k
    BY <1>1
  <2> QED BY <1>1, <1>7, <2>1, Zenon
<1> QED BY <1>1, <1>8 DEF Hostnames

\* A hostname comes before those that cover it.
LEMMA CoveredFirst ==
    ASSUME NEW n \in Hostnames, NEW o \in Hostnames, SubsetOf(n, o), CompareHostnamesSpecificity(o, n)
    PROVE  n = o
<1>1. CASE ~IsWildCarded(o)
  BY <1>1, Zenon DEF SubsetOf
<1>2. CASE IsWildCarded(o)
  <2>1. Len(n) \in Nat /\ Len(o) \in Nat /\ Len(n) >= Len(o) /\ IsSuffix(Tail(o), n)
    BY <1>2 DEF SubsetOf, Hostnames
  <2>2. Len(n) = Len(o) /\ IsWildCarded(n)
    BY <1>2, <2>1 DEF CompareHostnamesSpecificity, IsWildCarded
  <2>3. Head(n) = Head(o)
    BY <1>2, <2>2, Zenon DEF IsWildCarded
  <2> QED BY <2>1, <2>2, <2>3, WildcardsApart, Zenon
<1> QED BY <1>1, <1>2, Zenon

\* What comes first in the order of the keys has no worse a path.
LEMMA FirstKeyFirst ==
    ASSUME NEW s \in [1..5 -> Int], NEW t \in [1..5 -> Int], Lexicographic(s, t) \/ s = t
    PROVE  s[1] <= t[1] /\ (s[1] = t[1] => s[2] <= t[2])
<1>1. s[1] \in Int /\ s[2] \in Int /\ t[1] \in Int /\ t[2] \in Int
  OBVIOUS
<1>2. CASE s = t
  BY <1>1, <1>2
<1>3. CASE Lexicographic(s, t)
  <2>1. PICK i \in 1..5 : s[i] < t[i] /\ \A j \in 1..(i - 1) : s[j] = t[j]
    BY <1>3, Zenon DEF Lexicographic
  <2>2. CASE i = 1
    BY <1>1, <2>1, <2>2
  <2>3. CASE i = 2
    <3>1. 1 \in 1..(i - 1)
      BY <2>3
    <3> QED BY <1>1, <2>1, <2>3, <3>1
  <2>4. CASE i # 1 /\ i # 2
    <3>1. 1 \in 1..(i - 1) /\ 2 \in 1..(i - 1)
      BY <2>4
    <3> QED BY <1>1, <2>1, <3>1
  <2> QED BY <2>2, <2>3, <2>4, Zenon
<1> QED BY <1>2, <1>3, Zenon

\* Of two action sets for a hostname, the lesser has no worse a path.
LEMMA LessPath ==
    ASSUME NEW s, NEW c, ConfigOK(s), ConfigOK(c), s.host = c.host, Less(s, c)
    PROVE  /\ c.match.path.type = "Exact" => s.match.path.type = "Exact"
           /\ c.match.path.type = "PathPrefix" /\ s.match.path.type = "PathPrefix" =>
                 Len(c.match.path.value) <= Len(s.match.path.value)
<1> DEFINE a == MatchKey(s)
           b == MatchKey(c)
<1>1. a \in [1..5 -> Int] /\ b \in [1..5 -> Int]
  BY KeyTypes, Zenon
<1>2. Decide(MatchKeys(s, c)) \/ Tie(MatchKeys(s, c))
  BY Zenon DEF Less
<1>3. Lexicographic(a, b) \/ a = b
  BY <1>2, ByMatchKey, Zenon
<1>4. /\ a[1] = -PathRank(s.match.path.type) /\ a[2] = -Len(s.match.path.value)
      /\ b[1] = -PathRank(c.match.path.type) /\ b[2] = -Len(c.match.path.value)
  BY Zenon DEF MatchKey
<1> HIDE DEF a, b
<1>5. a[1] <= b[1] /\ (a[1] = b[1] => a[2] <= b[2])
  BY <1>1, <1>3, FirstKeyFirst, ZenonT(40)
<1>6. PathRank(s.match.path.type) \in 0..3 /\ PathRank(c.match.path.type) \in 0..3
      /\ Len(s.match.path.value) \in Nat /\ Len(c.match.path.value) \in Nat
  BY RankFacts, Zenon
<1>7. PathRank(c.match.path.type) <= PathRank(s.match.path.type)
  BY ONLY <1>4, <1>5, <1>6
<1>8. c.match.path.type = "Exact" => s.match.path.type = "Exact"
  <2>1. PathRank(c.match.path.type) = 3 => PathRank(s.match.path.type) = 3
    BY ONLY <1>6, <1>7
  <2> QED BY <2>1, RankFacts, Zenon
<1>9. c.match.path.type = s.match.path.type => Len(c.match.path.value) <= Len(s.match.path.value)
  <2> SUFFICES ASSUME c.match.path.type = s.match.path.type
               PROVE  Len(c.match.path.value) <= Len(s.match.path.value)
    BY Zenon
  <2>1. a[1] = b[1]
    BY <1>4, Zenon
  <2>2. -Len(s.match.path.value) <= -Len(c.match.path.value)
    BY <1>4, <1>5, <2>1, Zenon
  <2> DEFINE v == Len(s.match.path.value)
             w == Len(c.match.path.value)
  <2>3. v \in Nat /\ w \in Nat /\ -v <= -w
    BY <1>6, <2>2, ZenonT(40)
  <2> HIDE DEF v, w
  <2>4. w <= v
    BY ONLY <2>3
  <2> QED BY <2>4 DEF v, w
<1> QED BY <1>8, <1>9, Zenon

\* The first action set that a request satisfies is the most specific one.
THEOREM ServedByMostSpecific == MatchSpec => []MostSpecificServed
<1>1. (\E routes \in GatewayRoutes : \E covered \in SUBSET PathsOf(routes) : MatchInit(routes, covered))
         => MatchInv
  BY MatchInitially
<1>2. MatchInv => MostSpecificServed
  <2> SUFFICES ASSUME MatchInv, NEW r \in Requests, NEW k \in First(Candidates(r)), NEW i \in Candidates(r)
               PROVE  /\ SubsetOf(sorted[i].host, sorted[k].host) => sorted[i].host = sorted[k].host
                      /\ sorted[i].host = sorted[k].host =>
                           /\ sorted[i].match.path.type = "Exact" => sorted[k].match.path.type = "Exact"
                           /\ sorted[i].match.path.type = "PathPrefix" /\ sorted[k].match.path.type = "PathPrefix" =>
                                Len(sorted[i].match.path.value) <= Len(sorted[k].match.path.value)
    BY Zenon DEF MostSpecificServed
  <2> DEFINE c == sorted[i]
             s == sorted[k]
             C == Configs(gatewayRoutes)
  <2>1. sorted \in Seq(C) /\ Ascending(sorted)
    BY DEF MatchInv
  <2>2. \A x \in C : ConfigOK(x)
    BY ConfigsOrdered, Zenon DEF MatchInv
  <2> HIDE DEF C
  <2>3. i \in DOMAIN sorted /\ k \in DOMAIN sorted /\ k <= i /\ i \in Nat /\ k \in Nat
    BY <2>1 DEF First, Candidates
  <2>4. ConfigOK(c) /\ ConfigOK(s)
    BY <2>1, <2>2, <2>3
  <2>5. c.host \in Hostnames /\ Len(c.match.path.value) \in Nat
    BY <2>4, Zenon DEF ConfigOK
  <2>6. s.host \in Hostnames
    BY <2>4, Zenon DEF ConfigOK
  <2>7. s = c \/ Less(s, c)
    BY <2>1, <2>3 DEF Ascending, AtMost
  <2>8. CASE s = c
    BY <2>5, <2>8
  <2>9. CASE Less(s, c)
    <3>1. Less(s, c)
      BY <2>9, Zenon
    <3> HIDE DEF c, s
    <3>2. SubsetOf(c.host, s.host) => c.host = s.host
      BY <2>5, <2>6, <3>1, CoveredFirst, Zenon DEF Less
    <3>3. c.host = s.host =>
             /\ c.match.path.type = "Exact" => s.match.path.type = "Exact"
             /\ c.match.path.type = "PathPrefix" /\ s.match.path.type = "PathPrefix" =>
                   Len(c.match.path.value) <= Len(s.match.path.value)
      BY <2>4, <3>1, LessPath, Zenon
    <3> QED BY <3>2, <3>3, Zenon DEF c, s
  <2> QED BY <2>7, <2>8, <2>9, Zenon
<1> QED
  BY <1>1, <1>2, MatchStep, PTL DEF MatchSpec

=============================================================================
