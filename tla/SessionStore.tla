---------------------------- MODULE SessionStore ----------------------------
(***************************************************************************)
(* The operator's table of extension sessions (internal/extension/         *)
(* session.go). Every operation holds the store's mutex, so each is one    *)
(* action. Callers are arbitrary here; ExtensionSession adds the gRPC      *)
(* handlers and the extension processes.                                   *)
(*                                                                         *)
(* Time: a session carries its age, the time since lastSeen, counted in    *)
(* ticks and saturating one past the TTL. Nothing in the code tells two    *)
(* ages beyond the TTL apart.                                              *)
(***************************************************************************)
EXTENDS Naturals, Functions

CONSTANTS Identities,   \* names of built-in extensions and Kubernetes users
          Builtins,     \* the built-in extensions discovered on disk
          Kinds,        \* policy kinds
          Tokens,       \* session tokens
          Credentials,  \* ephemeral credentials of the built-ins
          TTL,          \* sessionTTL, in ticks
          NoOwner       \* the owner of a kind nobody has claimed

ASSUME BuiltinsAssumption == Builtins \subseteq Identities
ASSUME TTLAssumption == TTL \in Nat
ASSUME NoOwnerAssumption == NoOwner \notin Identities

VARIABLES sessions,       \* token -> [identity, policyKind, age]
          credentials,    \* built-in name -> credential
          builtinNames,   \* the names the warmup waits for
          warmupComplete,
          warmupTimer     \* the warmup's time.AfterFunc is pending

storeVars == <<sessions, credentials, builtinNames, warmupComplete, warmupTimer>>

NoKind == ""   \* a handshake that names no policy kind

PolicyKindGiven(k) == k # NoKind

Session == [identity : Identities, policyKind : Kinds, age : 0..(TTL + 1)]

isStaleLocked(sess) == sess.age > TTL

Drop(ss, gone) == Restrict(ss, DOMAIN ss \ gone)

Put(ss, t, sess) == [u \in DOMAIN ss \cup {t} |-> IF u = t THEN sess ELSE ss[u]]

(***************************************************************************)
(* The lookups return the first match of a map iteration, whose order Go   *)
(* leaves open: any one match, or none when there is none.                 *)
(***************************************************************************)
AnyOne(matches) == IF matches = {} THEN {{}} ELSE {{t} : t \in matches}

sessionByIdentityLocked(ss, i) == AnyOne({t \in DOMAIN ss : ss[t].identity = i})

sessionByPolicyKindSkipsStale(ss, k) ==
  AnyOne({t \in DOMAIN ss : ss[t].policyKind = k /\ ~isStaleLocked(ss[t])})

sessionByPolicyKindLocked(ss, k) == AnyOne({t \in DOMAIN ss : ss[t].policyKind = k})

allBuiltinsRegisteredLocked(ss, names) ==
  \A n \in names : \E t \in DOMAIN ss : ss[t].identity = n

NewSessionStore == /\ sessions = [t \in {} |-> {}]
                   /\ credentials = [n \in {} |-> {}]
                   /\ builtinNames = {}
                   /\ warmupComplete = TRUE
                   /\ warmupTimer = FALSE

BeginWarmup(names) ==
  /\ builtinNames' = builtinNames \cup names
  /\ warmupComplete' = allBuiltinsRegisteredLocked(sessions, builtinNames')
  /\ warmupTimer' = (warmupTimer \/ ~warmupComplete')
  /\ UNCHANGED <<sessions, credentials>>

WarmupTimeout ==
  /\ warmupTimer
  /\ warmupTimer' = FALSE
  /\ warmupComplete' = TRUE
  /\ UNCHANGED <<sessions, credentials, builtinNames>>

revokeIdentityLocked(i) ==
  \E mine \in sessionByIdentityLocked(sessions, i) : sessions' = Drop(sessions, mine)

(***************************************************************************)
(* A changed credential revokes the session opened with the old one.       *)
(***************************************************************************)
SetCredential(n, cred) ==
  /\ credentials' = Put(credentials, n, cred)
  /\ IF n \in DOMAIN credentials /\ credentials[n] # cred
       THEN revokeIdentityLocked(n)
       ELSE sessions' = sessions
  /\ UNCHANGED <<builtinNames, warmupComplete, warmupTimer>>

StaleUnchecked(ss, found) == TRUE

Stale(ss, found) == \A t \in found : isStaleLocked(ss[t])

CreateSession(i, k, token) ==
  /\ PolicyKindGiven(k)
  /\ \E mine \in sessionByIdentityLocked(sessions, i) :
       LET others == Drop(sessions, mine) IN
       \E owner \in sessionByPolicyKindLocked(others, k) :
         /\ Stale(sessions, mine)
         /\ Stale(others, owner)
         /\ token \notin DOMAIN sessions
         /\ sessions' = Put(Drop(others, owner), token,
                            [identity |-> i, policyKind |-> k, age |-> 0])
  /\ warmupComplete' = (warmupComplete \/ allBuiltinsRegisteredLocked(sessions', builtinNames))
  /\ UNCHANGED <<credentials, builtinNames, warmupTimer>>

(***************************************************************************)
(* The error returns of CreateSession: no kind; the caller is connected;   *)
(* another identity owns the kind (the caller's own stale session is gone  *)
(* by then); no token could be generated.                                  *)
(***************************************************************************)
ErrPolicyKindRequired(k) == ~PolicyKindGiven(k) /\ UNCHANGED storeVars

ErrAlreadyConnectedTouches(i, k) ==
  /\ PolicyKindGiven(k)
  /\ \E mine \in sessionByIdentityLocked(sessions, i) :
       /\ ~Stale(sessions, mine)
       /\ sessions' = [t \in DOMAIN sessions |->
                         IF t \in mine THEN [sessions[t] EXCEPT !.age = 0] ELSE sessions[t]]
  /\ UNCHANGED <<credentials, builtinNames, warmupComplete, warmupTimer>>

ErrAlreadyConnected(i, k) ==
  /\ PolicyKindGiven(k)
  /\ \E mine \in sessionByIdentityLocked(sessions, i) : ~Stale(sessions, mine)
  /\ UNCHANGED storeVars

ErrPolicyKindTaken(i, k) ==
  /\ PolicyKindGiven(k)
  /\ \E mine \in sessionByIdentityLocked(sessions, i) :
       /\ Stale(sessions, mine)
       /\ sessions' = Drop(sessions, mine)
       /\ \E owner \in sessionByPolicyKindLocked(sessions', k) : ~Stale(sessions', owner)
  /\ UNCHANGED <<credentials, builtinNames, warmupComplete, warmupTimer>>

GenerateSessionTokenFails(i, k) ==
  /\ PolicyKindGiven(k)
  /\ \E mine \in sessionByIdentityLocked(sessions, i) :
       LET others == Drop(sessions, mine) IN
       \E owner \in sessionByPolicyKindLocked(others, k) :
         /\ Stale(sessions, mine)
         /\ Stale(others, owner)
         /\ sessions' = Drop(others, owner)
  /\ UNCHANGED <<credentials, builtinNames, warmupComplete, warmupTimer>>

Touch(token) ==
  /\ sessions' = [t \in DOMAIN sessions |->
                    IF t = token THEN [sessions[t] EXCEPT !.age = 0] ELSE sessions[t]]
  /\ UNCHANGED <<credentials, builtinNames, warmupComplete, warmupTimer>>

ReapStale ==
  /\ sessions' = Drop(sessions, {t \in DOMAIN sessions : isStaleLocked(sessions[t])})
  /\ UNCHANGED <<credentials, builtinNames, warmupComplete, warmupTimer>>

ValidateSession(token) == token \in DOMAIN sessions

RevokeByName(i) ==
  /\ revokeIdentityLocked(i)
  /\ UNCHANGED <<credentials, builtinNames, warmupComplete, warmupTimer>>

(***************************************************************************)
(* A tick of the clock the store reads through s.now().                    *)
(***************************************************************************)
Older(sess) == [sess EXCEPT !.age = IF sess.age > TTL THEN sess.age ELSE sess.age + 1]

ClockTick == /\ sessions' = [t \in DOMAIN sessions |-> Older(sessions[t])]
             /\ UNCHANGED <<credentials, builtinNames, warmupComplete, warmupTimer>>

StoreNext ==
  \/ builtinNames = {} /\ BeginWarmup(Builtins)
  \/ WarmupTimeout
  \/ \E n \in Builtins, cred \in Credentials : SetCredential(n, cred)
  \/ \E i \in Identities, k \in Kinds \cup {NoKind} :
       \/ \E t \in Tokens : CreateSession(i, k, t)
       \/ ErrPolicyKindRequired(k)
       \/ ErrAlreadyConnected(i, k)
       \/ ErrPolicyKindTaken(i, k)
       \/ GenerateSessionTokenFails(i, k)
  \/ \E t \in Tokens : Touch(t)
  \/ ReapStale
  \/ \E i \in Identities : RevokeByName(i)
  \/ ClockTick

StoreSpec == NewSessionStore /\ [][StoreNext]_storeVars
-----------------------------------------------------------------------------
StoreTypeOK ==
  /\ DOMAIN sessions \subseteq Tokens
  /\ sessions \in [DOMAIN sessions -> Session]
  /\ DOMAIN credentials \subseteq Builtins
  /\ credentials \in [DOMAIN credentials -> Credentials]
  /\ builtinNames \subseteq Builtins
  /\ warmupComplete \in BOOLEAN
  /\ warmupTimer \in BOOLEAN

(***************************************************************************)
(* An identity has at most one session: sessionByIdentityLocked, which     *)
(* returns the first match of a map iteration, has only one to find, and   *)
(* RevokeByName leaves no second session behind.                           *)
(***************************************************************************)
OneSessionPerIdentity ==
  \A t, u \in DOMAIN sessions : sessions[t].identity = sessions[u].identity => t = u

(***************************************************************************)
(* A policy kind has at most one owning session, also while stale sessions *)
(* wait for the reaper or are taken over by CreateSession.                 *)
(***************************************************************************)
OneSessionPerKind ==
  \A t, u \in DOMAIN sessions : sessions[t].policyKind = sessions[u].policyKind => t = u

(***************************************************************************)
(* While the warmup is pending its timer is armed, so standalone           *)
(* extensions cannot be kept waiting for ever by a built-in that never     *)
(* registers.                                                              *)
(***************************************************************************)
WarmupEnds == ~warmupComplete => warmupTimer

(***************************************************************************)
(* The store seen as leases of policy kinds.                               *)
(***************************************************************************)
SessionOf(ss, k) == CHOOSE t \in DOMAIN ss : ss[t].policyKind = k

LeaseOwner(ss) == [k \in Kinds |-> IF \E t \in DOMAIN ss : ss[t].policyKind = k
                                     THEN ss[SessionOf(ss, k)].identity
                                     ELSE NoOwner]

LeaseExpired(ss) == {k \in Kinds : \E t \in DOMAIN ss :
                                      ss[t].policyKind = k /\ isStaleLocked(ss[t])}

Lease == INSTANCE KindLease WITH owner <- LeaseOwner(sessions),
                                 expired <- LeaseExpired(sessions), Free <- NoOwner

(***************************************************************************)
(* SessionStore implements KindLease: whatever operation runs, a kind      *)
(* changes hands only when it is free, expired or given up by its holder.  *)
(***************************************************************************)
ImplementsKindLease == Lease!Spec
=============================================================================
