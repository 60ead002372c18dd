------------------------ MODULE EffectivePolicyProofs ------------------------
(***************************************************************************)
(* That the loop computes the effective policy, for any number of policies *)
(* on a path of any length, with any rules.                                *)
(*                                                                         *)
(* The inductive invariant says of the policies merged so far what         *)
(* RulesFollowPrecedence says of all of them.  It also needs that they are *)
(* the most specific ones (the loop has gone from the end), and that the   *)
(* effective policy is not empty: AtomicDefaults would take an empty one   *)
(* for a missing policy.                                                   *)
(***************************************************************************)
EXTENDS EffectivePolicy, TLAPS

\* The policies the effective policy is made of so far.  The loop starts with
\* the last policy in it, before it comes to that policy.
Merged == {p \in PathPolicies : p \notin todo \/ IsLast(p, PathPolicies)}

InOrder ==
    /\ todo \subseteq PathPolicies
    /\ \A p \in todo, q \in PathPolicies \ todo : Before(p, q)
    /\ \E last \in PathPolicies : IsLast(last, PathPolicies)

\* eff gives each rule the policy of S that gives it.  The second conjunct says
\* that a rule some policy contributes is never without a policy to give it.
Matches(eff, S) ==
    \A r \in RuleIDs :
        /\ \A p \in Policies : eff[r] = p <=> Gives(p, r, S)
        /\ eff[r] = NoSource =>
              \A p \in S : Counts(p, S) => r \notin policy[p].rules

IInv == TypeOK /\ InOrder /\ ~Empty(effective) /\ Matches(effective, Merged)

\* Before is a strict total order on the policies.
LEMMA BeforeOrder ==
  ASSUME policy \in [Policies -> PolicySpecs]
  PROVE  /\ \A p \in Policies : ~Before(p, p)
         /\ \A p, q \in Policies : p = q \/ Before(p, q) \/ Before(q, p)
         /\ \A p, q \in Policies : ~(Before(p, q) /\ Before(q, p))
         /\ \A p, q, s \in Policies : Before(p, q) /\ Before(q, s) => Before(p, s)
<1>1. \A p \in Policies : policy[p].level \in Nat /\ p \in Nat
  BY PoliciesAssumption, Zenon DEF PolicySpecs
<1> QED
  BY <1>1 DEF Before

\* The rules of a policy, as the merge sees them.
LEMMA RulesOf ==
  ASSUME policy \in [Policies -> PolicySpecs], NEW p \in Policies
  PROVE  /\ Rules(p) \in [RuleIDs -> Policies \cup {NoSource}]
         /\ \A r \in RuleIDs, q \in Policies :
               Rules(p)[r] = q <=> q = p /\ r \in policy[p].rules
         /\ \A r \in RuleIDs : Rules(p)[r] = NoSource <=> r \notin policy[p].rules
         /\ ~Empty(Rules(p))
<1>1. p \in Nat /\ p # NoSource /\ NoSource \notin Policies
  BY PoliciesAssumption DEF NoSource
<1>2. \E r \in ProperRules : r \in policy[p].rules
  BY DEF PolicySpecs
<1> QED
  BY <1>1, <1>2, RulesAssumption, Zenon DEF Rules, Empty

\* A merge gives rules to policies, and leaves none empty.
LEMMA MergeType ==
  ASSUME policy \in [Policies -> PolicySpecs], NEW p \in Policies,
         NEW target \in [RuleIDs -> Policies \cup {NoSource}], ~Empty(target)
  PROVE  /\ Merge(p, target) \in [RuleIDs -> Policies \cup {NoSource}]
         /\ ~Empty(Merge(p, target))
<1> DEFINE source == Rules(p)
<1>1. source \in [RuleIDs -> Policies \cup {NoSource}] /\ ~Empty(source)
  BY RulesOf
<1> HIDE DEF source
<1>2. /\ AtomicDefaults(source, target) \in [RuleIDs -> Policies \cup {NoSource}]
      /\ ~Empty(AtomicDefaults(source, target))
  BY <1>1 DEF AtomicDefaults
<1>3. /\ AtomicOverrides(source, target) \in [RuleIDs -> Policies \cup {NoSource}]
      /\ ~Empty(AtomicOverrides(source, target))
  BY <1>1 DEF AtomicOverrides
<1>4. /\ PolicyRuleDefaults(source, target) \in [RuleIDs -> Policies \cup {NoSource}]
      /\ ~Empty(PolicyRuleDefaults(source, target))
  BY <1>1, RulesAssumption, Zenon DEF PolicyRuleDefaults, Empty
<1>5. /\ PolicyRuleOverrides(source, target) \in [RuleIDs -> Policies \cup {NoSource}]
      /\ ~Empty(PolicyRuleOverrides(source, target))
  BY <1>1, RulesAssumption, Zenon DEF PolicyRuleOverrides, Empty
<1> QED
  BY <1>2, <1>3, <1>4, <1>5
     DEF Merge, DefaultsMergeStrategy, OverridesMergeStrategy, source

\* What a single policy gives: its own rules.
LEMMA GivesAlone ==
  ASSUME policy \in [Policies -> PolicySpecs], NEW b \in Policies,
         NEW p \in Policies, NEW r \in RuleIDs
  PROVE  Gives(p, r, {b}) <=> p = b /\ r \in policy[b].rules
  BY DEF Gives, Counts, IsBase, IsLast, IsAtomicOverride

\* A policy that comes before all of S and is no atomic override leaves the
\* base as it is.
LEMMA SameBase ==
  ASSUME policy \in [Policies -> PolicySpecs], NEW S \in SUBSET Policies,
         NEW n \in Policies, \A q \in S : Before(n, q), S # {},
         ~IsAtomicOverride(n), NEW b \in Policies
  PROVE  IsBase(b, S \cup {n}) <=> IsBase(b, S)
<1>1. n \notin S
  BY BeforeOrder
<1>2. ~IsLast(n, S \cup {n})
  BY <1>1, BeforeOrder DEF IsLast
<1>3. IsLast(b, S \cup {n}) <=> IsLast(b, S)
  BY <1>1, <1>2 DEF IsLast
<1>4. (\E o \in S \cup {n} : IsAtomicOverride(o)) <=> \E o \in S : IsAtomicOverride(o)
  OBVIOUS
<1> QED
  BY <1>3, <1>4 DEF IsBase

\* A turn of the loop with an atomic override: everything merged before is gone.
LEMMA AtomicOverrideMatches ==
  ASSUME policy \in [Policies -> PolicySpecs], NEW S \in SUBSET Policies,
         NEW n \in Policies, \A q \in S : Before(n, q), IsAtomicOverride(n)
  PROVE  Matches(Rules(n), S \cup {n})
<1> DEFINE T == S \cup {n}
<1>1. \A b \in T : IsBase(b, T) <=> b = n
  BY BeforeOrder DEF IsBase
<1>2. \A p \in Policies : Counts(p, T) <=> p = n
  BY <1>1, BeforeOrder, Zenon DEF Counts
<1>3. \A p \in Policies, r \in RuleIDs :
         Gives(p, r, T) <=> p = n /\ r \in policy[n].rules
  BY <1>2 DEF Gives
<1>4. T \subseteq Policies
  OBVIOUS
<1>5. \A r \in RuleIDs, p \in Policies :
         Rules(n)[r] = p <=> p = n /\ r \in policy[n].rules
  BY RulesOf, Zenon
<1>6. \A r \in RuleIDs : Rules(n)[r] = NoSource <=> r \notin policy[n].rules
  BY RulesOf
<1> HIDE DEF T
<1>7. Matches(Rules(n), T)
  BY <1>2, <1>3, <1>4, <1>5, <1>6 DEF Matches
<1> QED
  BY <1>7 DEF T

\* A turn with an atomic default: nothing changes.
LEMMA AtomicDefaultMatches ==
  ASSUME policy \in [Policies -> PolicySpecs], NEW S \in SUBSET Policies,
         NEW n \in Policies, \A q \in S : Before(n, q), S # {},
         ~IsOverride(n), policy[n].strategy = "atomic",
         NEW eff, Matches(eff, S)
  PROVE  Matches(eff, S \cup {n})
<1> DEFINE T == S \cup {n}
<1>1. n \notin S
  BY BeforeOrder
<1>2. \A b \in Policies : IsBase(b, T) <=> IsBase(b, S)
  BY SameBase DEF IsAtomicOverride
<1>3. \A b \in Policies : IsBase(b, S) => b \in S
  BY DEF IsBase, IsLast
<1>4. \A p \in Policies : Counts(p, T) <=> Counts(p, S)
  BY <1>1, <1>2, <1>3 DEF Counts
<1>5. \A p \in Policies : Counts(p, S) => p \in S
  BY DEF Counts
<1>6. \A p \in Policies, r \in RuleIDs : Gives(p, r, T) <=> Gives(p, r, S)
  BY <1>4, <1>5, Zenon DEF Gives
<1>7. \A p \in T : Counts(p, T) => p \in S /\ Counts(p, S)
  BY <1>4, <1>5
<1> HIDE DEF T
<1> QED
  BY <1>6, <1>7 DEF Matches, T

\* Whose rules count after a turn with a policy that merges rule by rule.
LEMMA MergeCounts ==
  ASSUME policy \in [Policies -> PolicySpecs], NEW S \in SUBSET Policies,
         NEW n \in Policies, \A q \in S : Before(n, q), S # {},
         policy[n].strategy = "merge", \E q \in Policies : Counts(q, S),
         NEW p \in Policies
  PROVE  Counts(p, S \cup {n}) <=> p = n \/ Counts(p, S)
<1> DEFINE T == S \cup {n}
<1>1. n \notin S
  BY BeforeOrder
<1>2. \A b \in Policies : IsBase(b, T) <=> IsBase(b, S)
  BY SameBase DEF IsAtomicOverride
<1>3. \A b \in Policies : IsBase(b, S) => b \in S
  BY DEF IsBase, IsLast
<1>4. PICK b \in S : IsBase(b, S)
  BY DEF Counts
<1>5. Counts(n, T)
  BY <1>2, <1>4 DEF Counts
<1>6. p # n => (Counts(p, T) <=> Counts(p, S))
  BY <1>2, <1>3 DEF Counts
<1> QED
  BY <1>5, <1>6

\* A turn with a policy that merges rule by rule.
LEMMA MergeMatches ==
  ASSUME policy \in [Policies -> PolicySpecs], NEW S \in SUBSET Policies,
         NEW n \in Policies, \A q \in S : Before(n, q), S # {},
         policy[n].strategy = "merge", \E q \in Policies : Counts(q, S),
         NEW eff \in [RuleIDs -> Policies \cup {NoSource}], Matches(eff, S)
  PROVE  Matches(Merge(n, eff), S \cup {n})
<1> DEFINE T == S \cup {n}
<1>1. n \notin S
  BY BeforeOrder
<1>2. \A p \in Policies : Counts(p, T) <=> p = n \/ Counts(p, S)
  BY MergeCounts
<1>3. \A p \in Policies : Counts(p, S) => p \in S
  BY DEF Counts
<1>4. \A p \in S : Prevails(n, p) = IsOverride(n) /\ Prevails(p, n) = ~IsOverride(n)
  BY BeforeOrder, Zenon DEF Prevails, IsOverride
<1>5. NoSource \notin Policies
  BY PoliciesAssumption DEF NoSource
<1>6. T \subseteq Policies
  OBVIOUS
<1>7. ASSUME NEW r \in RuleIDs, NEW p \in S
      PROVE  Gives(p, r, T) <=> /\ Gives(p, r, S)
                                /\ r \in policy[n].rules => ~IsOverride(n)
  BY <1>1, <1>2, <1>4, Zenon DEF Gives
<1>8. ASSUME NEW r \in RuleIDs
      PROVE  Gives(n, r, T) <=>
                /\ r \in policy[n].rules
                /\ IsOverride(n) \/ \A q \in S : Counts(q, S) => r \notin policy[q].rules
  BY <1>1, <1>2, <1>4, Zenon DEF Gives
<1>9. \A r \in RuleIDs, p \in Policies : Gives(p, r, T) => p \in T
  BY DEF Gives, Counts
<1>10. \A r \in RuleIDs, p \in Policies : Gives(p, r, S) =>
          p \in S /\ Counts(p, S) /\ r \in policy[p].rules
  BY DEF Gives, Counts
<1>11. \A r \in RuleIDs : Merge(n, eff)[r] =
          IF IsOverride(n)
          THEN IF r \in policy[n].rules THEN n ELSE eff[r]
          ELSE IF eff[r] = NoSource
               THEN IF r \in policy[n].rules THEN n ELSE NoSource
               ELSE eff[r]
  BY <1>5 DEF Merge, DefaultsMergeStrategy, OverridesMergeStrategy,
              PolicyRuleDefaults, PolicyRuleOverrides, Rules, IsOverride
<1>12. ASSUME NEW r \in RuleIDs, NEW p \in Policies
       PROVE  Merge(n, eff)[r] = p <=> Gives(p, r, T)
  <2>1. CASE p = n
    <3>1. eff[r] # n
      BY <1>1, <1>10 DEF Matches
    <3>2. eff[r] = NoSource <=> \A q \in S : Counts(q, S) => r \notin policy[q].rules
      BY <1>10 DEF Matches
    <3>3. Merge(n, eff)[r] = n <=>
             r \in policy[n].rules /\ (IsOverride(n) \/ eff[r] = NoSource)
      BY <1>5, <1>11, <3>1
    <3>4. Gives(n, r, T) <=>
             r \in policy[n].rules /\ (IsOverride(n) \/ eff[r] = NoSource)
      BY <1>8, <3>2
    <3> QED
      BY <2>1, <3>3, <3>4
  <2>2. CASE p \in S
    <3>1. eff[r] = p <=> Gives(p, r, S)
      BY DEF Matches
    <3> QED
      BY <2>2, <1>1, <1>5, <1>7, <1>11, <3>1
  <2>3. CASE p \notin T
    <3>1. eff[r] # p
      BY <2>3, <1>10 DEF Matches
    <3> QED
      BY <2>3, <1>5, <1>9, <1>11, <3>1
  <2> QED
    BY <2>1, <2>2, <2>3
<1>13. ASSUME NEW r \in RuleIDs, Merge(n, eff)[r] = NoSource, NEW p \in T, Counts(p, T)
       PROVE  r \notin policy[p].rules
  <2>1. eff[r] = NoSource /\ r \notin policy[n].rules
    BY <1>5, <1>11, <1>13
  <2> QED
    BY <2>1, <1>2, <1>3, <1>13 DEF Matches
<1> HIDE DEF T
<1> QED
  BY <1>12, <1>13, Zenon DEF Matches, T

\* Merging a policy into itself, as the first turn of the loop does, changes
\* nothing.
LEMMA MergeIntoItself ==
  ASSUME policy \in [Policies -> PolicySpecs], NEW n \in Policies
  PROVE  \A r \in RuleIDs : Merge(n, Rules(n))[r] = Rules(n)[r]
<1>1. ~Empty(Rules(n))
  BY RulesOf
<1> QED
  BY <1>1 DEF Merge, DefaultsMergeStrategy, OverridesMergeStrategy,
              PolicyRuleDefaults, PolicyRuleOverrides, AtomicDefaults, AtomicOverrides,
              Rules

\* A turn of the loop.
LEMMA ReduceMatches ==
  ASSUME policy \in [Policies -> PolicySpecs], NEW S \in SUBSET Policies,
         NEW n \in Policies, \A q \in S : Before(n, q), S # {},
         NEW eff \in [RuleIDs -> Policies \cup {NoSource}], ~Empty(eff),
         Matches(eff, S)
  PROVE  Matches(Merge(n, eff), S \cup {n})
<1>1. PICK r \in RuleIDs : eff[r] \in Policies
  BY RulesAssumption DEF Empty
<1>2. \E q \in Policies : Counts(q, S)
  BY <1>1 DEF Matches, Gives
<1>3. policy[n].strategy \in {"atomic", "merge"}
  BY DEF PolicySpecs
<1>4. CASE policy[n].strategy = "merge"
  BY <1>2, <1>4, MergeMatches
<1>5. CASE policy[n].strategy = "atomic" /\ IsOverride(n)
  <2>1. Merge(n, eff) = Rules(n)
    BY <1>5 DEF Merge, OverridesMergeStrategy, AtomicOverrides, IsOverride
  <2> QED
    BY <2>1, <1>5, AtomicOverrideMatches DEF IsAtomicOverride
<1>6. CASE policy[n].strategy = "atomic" /\ ~IsOverride(n)
  <2>1. Merge(n, eff) = eff
    BY <1>6 DEF Merge, DefaultsMergeStrategy, AtomicDefaults, IsOverride
  <2> QED
    BY <2>1, <1>6, AtomicDefaultMatches
<1> QED
  BY <1>3, <1>4, <1>5, <1>6

\* The policy the loop starts with.
LEMMA InitIInv == Init => IInv
<1> SUFFICES ASSUME Init PROVE IInv
  OBVIOUS
<1>1. policy \in [Policies -> PolicySpecs] /\ todo = PathPolicies
  BY DEF Init
<1>2. PICK last \in PathPolicies : IsLast(last, PathPolicies) /\ effective = Rules(last)
  BY DEF Init
<1>3. PathPolicies \subseteq Policies
  BY DEF PathPolicies
<1>4. Merged = {last}
  BY <1>1, <1>2, <1>3, BeforeOrder DEF Merged, IsLast
<1>5. TypeOK /\ ~Empty(effective)
  BY <1>1, <1>2, <1>3, RulesOf DEF TypeOK
<1>6. InOrder
  BY <1>1, <1>2 DEF InOrder
<1>7. Matches(effective, {last})
  <2>1. \A r \in RuleIDs, p \in Policies :
           Gives(p, r, {last}) <=> p = last /\ r \in policy[last].rules
    BY <1>1, <1>3, GivesAlone, Zenon
  <2>2. \A r \in RuleIDs, p \in Policies :
           effective[r] = p <=> p = last /\ r \in policy[last].rules
    BY <1>1, <1>2, <1>3, RulesOf, Zenon
  <2>3. \A r \in RuleIDs : effective[r] = NoSource => r \notin policy[last].rules
    BY <1>1, <1>2, <1>3, RulesOf
  <2> QED
    BY <2>1, <2>2, <2>3 DEF Matches
<1> QED
  BY <1>4, <1>5, <1>6, <1>7 DEF IInv

\* A step keeps the invariant.
LEMMA ReduceIInv ==
  ASSUME IInv, NEW n \in Policies, Reduce(n)
  PROVE  IInv'
<1>1. policy \in [Policies -> PolicySpecs] /\ policy' = policy
  BY DEF IInv, TypeOK, Reduce
<1>2. PathPolicies' = PathPolicies /\ PathPolicies \subseteq Policies
  BY <1>1 DEF PathPolicies, IsAcceptedAndNotDeleted
<1>3. \A p, q : Before(p, q)' = Before(p, q)
  BY <1>1 DEF Before
<1>4. n \in todo /\ n \in PathPolicies
  BY DEF Reduce, IsLast, IInv, InOrder
<1>5. TypeOK'
  BY <1>1, MergeType DEF IInv, TypeOK, Reduce
<1>6. ~Empty(effective)'
  BY <1>1, MergeType DEF IInv, TypeOK, Reduce, Empty
<1>7. InOrder'
  BY <1>2, <1>3 DEF IInv, InOrder, Reduce, IsLast
<1>8. \A p : IsLast(p, PathPolicies)' <=> IsLast(p, PathPolicies)
  BY <1>2, <1>3 DEF IsLast
<1>9. Merged' = Merged \cup {n}
  BY <1>2, <1>4, <1>8 DEF Merged, Reduce
<1>10. effective' = Merge(n, effective) /\ effective \in [RuleIDs -> Policies \cup {NoSource}]
  BY DEF Reduce, IInv, TypeOK
<1>11. Matches(Merge(n, effective), Merged \cup {n})
  <2>1. CASE IsLast(n, PathPolicies)
    <3>1. Merged = {n}
      BY <2>1, <1>1, <1>2, <1>4, BeforeOrder DEF Merged, IsLast, IInv, InOrder
    <3>2. \A r \in RuleIDs : effective[r] = Rules(n)[r]
      <4>1. \A r \in RuleIDs, p \in Policies :
               effective[r] = p <=> p = n /\ r \in policy[n].rules
        BY <1>1, <3>1, GivesAlone DEF IInv, Matches
      <4>2. \A r \in RuleIDs, p \in Policies :
               Rules(n)[r] = p <=> p = n /\ r \in policy[n].rules
        BY <1>1, RulesOf
      <4>3. Rules(n) \in [RuleIDs -> Policies \cup {NoSource}]
        BY <1>1, RulesOf
      <4> QED
        BY <1>10, <4>1, <4>2, <4>3
    <3>3. effective = Rules(n)
      BY <1>10, <3>2 DEF Rules
    <3>4. \A r \in RuleIDs : Merge(n, effective)[r] = effective[r]
      BY <1>1, <3>3, MergeIntoItself
    <3>5. Matches(effective, {n})
      BY <3>1 DEF IInv
    <3>6. Merged \cup {n} = {n}
      BY <3>1
    <3> QED
      BY <3>4, <3>5, <3>6 DEF Matches
  <2>2. CASE ~IsLast(n, PathPolicies)
    <3>1. PICK last \in PathPolicies : IsLast(last, PathPolicies)
      BY DEF IInv, InOrder
    <3>2. last \in Merged /\ Merged \subseteq Policies
      BY <3>1, <1>2 DEF Merged
    <3>3. ASSUME NEW q \in Merged PROVE Before(n, q)
      BY <2>2, <1>4 DEF Merged, IsLast, IInv, InOrder
    <3> QED
      BY <1>1, <1>10, <3>2, <3>3, ReduceMatches DEF IInv
  <2> QED
    BY <2>1, <2>2
<1>12. Matches(effective, Merged)'
  <2>1. \A e, S : Matches(e, S)' <=> Matches(e, S)
    BY <1>1, <1>3 DEF Matches, Gives, Counts, IsBase, IsLast, Prevails, IsOverride,
                      IsAtomicOverride
  <2> QED
    BY <2>1, <1>9, <1>10, <1>11
<1> QED
  BY <1>5, <1>6, <1>7, <1>12 DEF IInv

\* The invariant holds at every turn of the loop.
THEOREM LoopInvariant == Spec => []IInv
<1>1. IInv /\ [Next]_vars => IInv'
  <2> SUFFICES ASSUME IInv, [Next]_vars PROVE IInv'
    OBVIOUS
  <2>1. CASE Next
    BY <2>1, ReduceIInv DEF Next
  <2>2. CASE UNCHANGED vars
    <3>1. policy' = policy /\ todo' = todo /\ effective' = effective
      BY <2>2 DEF vars
    <3>2. \A p, q : Before(p, q)' <=> Before(p, q)
      BY <3>1 DEF Before
    <3>3. PathPolicies' = PathPolicies
      BY <3>1 DEF PathPolicies, IsAcceptedAndNotDeleted
    <3>4. \A p, T : IsLast(p, T)' <=> IsLast(p, T)
      BY <3>2 DEF IsLast
    <3>5. Merged' = Merged
      BY <3>1, <3>3, <3>4 DEF Merged, IsLast
    <3>6. TypeOK' /\ InOrder' /\ ~Empty(effective)'
      BY <3>1, <3>2, <3>3, <3>4 DEF IInv, TypeOK, InOrder, Empty, IsLast
    <3>7. \A e, T : Matches(e, T)' <=> Matches(e, T)
      BY <3>1, <3>2 DEF Matches, Gives, Counts, IsBase, IsLast, Prevails, IsOverride,
                        IsAtomicOverride
    <3>8. Matches(effective, Merged)'
      BY <3>1, <3>5, <3>7 DEF IInv
    <3> QED
      BY <3>6, <3>8 DEF IInv
  <2> QED
    BY <2>1, <2>2
<1> QED
  BY InitIInv, <1>1, PTL DEF Spec

\* What EffectivePolicyForPath returns is the effective policy: each rule comes
\* from the policy that the merge strategies together say it comes from.
THEOREM LoopFollowsPrecedence == Spec => []RulesFollowPrecedence
<1>1. IInv => RulesFollowPrecedence
  <2> SUFFICES ASSUME IInv, Done PROVE
        \A r \in RuleIDs, p \in Policies :
           effective[r] = p <=>
              Gives(p, r, {q \in Policies : IsAcceptedAndNotDeleted(q)})
    BY Zenon DEF RulesFollowPrecedence
  <2>1. Merged = {q \in Policies : IsAcceptedAndNotDeleted(q)}
    BY DEF Done, Merged, PathPolicies
  <2> QED
    BY <2>1, Zenon DEF IInv, Matches
<1> QED
  BY LoopInvariant, <1>1, PTL

\* No rule is in effect that a less specific policy overrides.
THEOREM OverridesPrevail == Spec => []OverridesWin
<1>1. IInv => OverridesWin
  <2> DEFINE S == {q \in Policies : IsAcceptedAndNotDeleted(q)}
  <2> SUFFICES ASSUME IInv, Done, NEW p \in S, NEW q \in S, NEW r \in RuleIDs,
                      IsOverride(p), Before(p, q), effective[r] = q,
                      r \in policy[p].rules \/ policy[p].strategy = "atomic"
               PROVE  FALSE
    BY DEF OverridesWin
  <2>1. S \subseteq Policies /\ policy \in [Policies -> PolicySpecs]
    BY DEF IInv, TypeOK
  <2>2. Gives(q, r, S)
    <3>1. Merged = S
      BY DEF Done, Merged, PathPolicies
    <3> QED
      BY <3>1, Zenon DEF IInv, Matches
  <2>3. PICK b \in S : IsBase(b, S) /\ (q = b \/ Before(q, b))
    BY <2>2, Zenon DEF Gives, Counts
  <2>4. Before(p, b)
    BY <2>1, <2>3, BeforeOrder
  <2>5. policy[p].strategy # "atomic"
    BY <2>1, <2>3, <2>4, BeforeOrder DEF IsBase, IsAtomicOverride
  <2>6. policy[p].strategy = "merge"
    BY <2>1, <2>5 DEF PolicySpecs
  <2>7. Counts(p, S)
    BY <2>3, <2>4, <2>6, Zenon DEF Counts
  <2>8. ~Before(q, p) /\ p # q
    BY <2>1, BeforeOrder
  <2> QED
    BY <2>2, <2>5, <2>7, <2>8, Zenon DEF Gives, Prevails
<1> QED
  BY LoopInvariant, <1>1, PTL
=============================================================================
