--------------------------- MODULE EffectivePolicy ---------------------------
(***************************************************************************)
(* The effective policy of one path of the topology, from a gateway class  *)
(* down to a route rule: api/v1/merge_strategies.go, as the effective      *)
(* policies reconcilers call it for each path and each kind of policy.     *)
(*                                                                         *)
(* EffectivePolicyForPath is a loop, from the most specific policy of the  *)
(* path to the least specific one, that merges each policy into the        *)
(* effective policy so far.  A step of this module is a turn of that loop. *)
(* The policies are fixed while it runs: it works on a snapshot.           *)
(*                                                                         *)
(* What a rule says is left out.  The effective policy gives each rule the *)
(* policy it comes from, the source that MergeableRule keeps.              *)
(***************************************************************************)
EXTENDS Integers

CONSTANTS
    Policies,   \* the policies attached to the path, numbered by creation
                \* timestamp, and by name where that is the same
    Levels,     \* the targetables of the path, numbered from the gateway class
    RuleIDs,    \* the rules a policy may have
    ProperRules \* the ones Empty looks at: the limits, or the auth scheme

ASSUME PoliciesAssumption == Policies \subseteq Nat /\ Levels \subseteq Nat

ASSUME RulesAssumption == ProperRules \subseteq RuleIDs

NoSource == -1

\* Rules stated outside of defaults and overrides are in neither section.
Sections == {"neither", "defaults", "overrides"}

\* A policy as the topology holds it.  The API server admits no policy
\* without a proper rule.
PolicySpecs ==
    {p \in [level : Levels, section : Sections, strategy : {"atomic", "merge"},
            rules : SUBSET RuleIDs, state : {"accepted", "rejected", "deleted"}] :
        /\ p.rules \cap ProperRules # {}
        /\ p.section = "neither" => p.strategy = "atomic"}

VARIABLES
    policy,     \* the policies
    todo,       \* the policies the loop has not come to
    effective   \* the source of each rule of the effective policy so far

vars == <<policy, todo, effective>>

-----------------------------------------------------------------------------
\* PoliciesInPath: the policies the loop goes through, and their order.

\* The predicate of the reconcilers, on what is known of p in this snapshot.
IsAcceptedAndNotDeleted(p) == policy[p].state = "accepted"

NotDeleted == {p \in Policies : policy[p].state # "deleted"}
PathPolicies == {p \in Policies : IsAcceptedAndNotDeleted(p)}

\* p comes before q: it is less specific, or is attached to the same object
\* and is older.
Before(p, q) ==
    \/ policy[p].level < policy[q].level
    \/ policy[p].level = policy[q].level /\ p < q

IsLast(p, S) == p \in S /\ \A q \in S \ {p} : Before(q, p)

-----------------------------------------------------------------------------
\* The merge strategies, on functions from rules to sources.

\* The rules of a policy that has not been merged: each is its own.
Rules(p) == [r \in RuleIDs |-> IF r \in policy[p].rules THEN p ELSE NoSource]

Empty(rules) == \A r \in ProperRules : rules[r] = NoSource

AtomicDefaults(source, target) == IF Empty(target) THEN source ELSE target

AtomicOverrides(source, target) == source

PolicyRuleDefaults(source, target) ==
    [r \in RuleIDs |-> IF target[r] = NoSource THEN source[r] ELSE target[r]]

TargetFirst(source, target) ==
    [r \in RuleIDs |-> IF target[r] = NoSource THEN source[r] ELSE target[r]]
PolicyRuleOverrides(source, target) ==
    [r \in RuleIDs |-> IF source[r] = NoSource THEN target[r] ELSE source[r]]

\* GetMergeStrategy of p, applied to p and the effective policy.
DefaultsMergeStrategy(p, target) ==
    IF policy[p].strategy = "merge" THEN PolicyRuleDefaults(Rules(p), target)
                                    ELSE AtomicDefaults(Rules(p), target)

OverridesMergeStrategy(p, target) ==
    IF policy[p].strategy = "merge" THEN PolicyRuleOverrides(Rules(p), target)
                                    ELSE AtomicOverrides(Rules(p), target)

Merge(p, target) ==
    IF policy[p].section = "overrides" THEN OverridesMergeStrategy(p, target)
                                       ELSE DefaultsMergeStrategy(p, target)

-----------------------------------------------------------------------------
\* EffectivePolicyForPath.

\* A path with no policy has no effective policy.  The loop starts from the
\* last policy, and comes to that policy first.
Init ==
    /\ policy \in [Policies -> PolicySpecs]
    /\ todo = PathPolicies
    /\ \E last \in PathPolicies : IsLast(last, PathPolicies)
                                  /\ effective = Rules(last)

Reduce(p) ==
    /\ IsLast(p, todo)
    /\ todo' = todo \ {p}
    /\ effective' = Merge(p, effective)
    /\ UNCHANGED policy

Next == \E p \in Policies : Reduce(p)

Spec == Init /\ [][Next]_vars

Done == todo = {}

-----------------------------------------------------------------------------
\* What the effective policy is, without the loop.

IsOverride(p) == policy[p].section = "overrides"
IsAtomicOverride(p) == IsOverride(p) /\ policy[p].strategy = "atomic"

\* The policy everything else adds to: of the policies S, the broadest atomic
\* override, or the most specific policy if there is none.
IsBase(b, S) ==
    IF \E o \in S : IsAtomicOverride(o)
    THEN /\ b \in S /\ IsAtomicOverride(b)
         /\ \A o \in S \ {b} : IsAtomicOverride(o) => Before(b, o)
    ELSE IsLast(b, S)

\* The policies of S whose rules count: the base, and the less specific ones
\* that merge rule by rule.
Counts(p, S) ==
    /\ p \in S
    /\ \E b \in S : /\ IsBase(b, S)
                    /\ \/ p = b
                       \/ policy[p].strategy = "merge" /\ Before(p, b)

\* Which of two policies with the same rule prevails: the less specific one
\* exactly if it is an override.
Prevails(p, q) == IF Before(p, q) THEN IsOverride(p) ELSE ~IsOverride(q)

\* p is the policy among S that gives rule r.
Gives(p, r, S) ==
    /\ Counts(p, S) /\ r \in policy[p].rules
    /\ \A q \in S \ {p} :
          Counts(q, S) /\ r \in policy[q].rules => Prevails(p, q)

-----------------------------------------------------------------------------
\* Properties

\* The effective policy maps rules to policies, and the loop only removes from
\* the policies it has to go through.
TypeOK ==
    /\ policy \in [Policies -> PolicySpecs]
    /\ todo \subseteq Policies
    /\ effective \in [RuleIDs -> Policies \cup {NoSource}]

\* The loop computes what the four strategies promise together, whatever the
\* mix of them on a path: when EffectivePolicyForPath returns, a rule is in the
\* effective policy with p as its source exactly if p is accepted, its rules
\* count (it is the broadest atomic override, or the most specific policy where
\* there is none, or a less specific policy that merges), and p prevails over
\* every other such policy that has the rule.
RulesFollowPrecedence ==
    Done => \A r \in RuleIDs, p \in Policies :
               effective[r] = p <=>
                  Gives(p, r, {q \in Policies : IsAcceptedAndNotDeleted(q)})

\* "Override rules win over any more specific policies"
\* (doc/overviews/auth.md): no rule of a policy is in effect where a less
\* specific accepted policy overrides that rule, or overrides atomically.
OverridesWin ==
    Done => \A p, q \in Policies :
               /\ IsAcceptedAndNotDeleted(p) /\ IsOverride(p)
               /\ IsAcceptedAndNotDeleted(q) /\ Before(p, q)
               => \A r \in RuleIDs :
                     r \in policy[p].rules \/ policy[p].strategy = "atomic"
                        => effective[r] # q
=============================================================================
