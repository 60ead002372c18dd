----------------------- MODULE ExtensionSessionProofs -----------------------
(***************************************************************************)
(* The sessions of extensions.                                             *)
(*                                                                         *)
(* SessionStore keeps one session per identity and per policy kind, and    *)
(* implements KindLease, for every set of identities, kinds and tokens and *)
(* every TTL.                                                              *)
(*                                                                         *)
(* In ExtensionSession a token is known to one process at a time, and the  *)
(* session it opens is that process's own, for any number of processes,    *)
(* crashes, lost replies, takeovers and releases.  With one session per    *)
(* policy kind this leaves one server per kind.                            *)
(***************************************************************************)
EXTENDS ExtensionSession, TLAPS

(***************************************************************************)
(* A table of sessions that is typed and names no identity and no policy   *)
(* kind twice. It is inductive: no operation looks at more than the table. *)
(***************************************************************************)
TableOK(ss) ==
  /\ DOMAIN ss \subseteq Tokens
  /\ ss \in [DOMAIN ss -> Session]
  /\ \A t, u \in DOMAIN ss : ss[t].identity = ss[u].identity => t = u
  /\ \A t, u \in DOMAIN ss : ss[t].policyKind = ss[u].policyKind => t = u

StoreInv == /\ StoreTypeOK
            /\ OneSessionPerIdentity
            /\ OneSessionPerKind
            /\ WarmupEnds

(***************************************************************************)
(* Deleting tokens keeps the table in order.                               *)
(***************************************************************************)
LEMMA DropOK ==
  ASSUME NEW ss, NEW gone, TableOK(ss)
  PROVE  TableOK(Drop(ss, gone))
<1> DEFINE d == Drop(ss, gone)
<1>1. /\ DOMAIN d = DOMAIN ss \ gone
      /\ \A t \in DOMAIN d : d[t] = ss[t]
      /\ d = [t \in DOMAIN d |-> d[t]]
  BY DEF Drop, Restrict
<1>2. \A t \in DOMAIN ss : ss[t] \in Session
  BY DEF TableOK
<1> HIDE DEF d
<1>3. d \in [DOMAIN d -> Session]
  BY <1>1, <1>2
<1>4. TableOK(d)
  BY <1>1, <1>3 DEF TableOK
<1> QED  BY <1>4 DEF d

(***************************************************************************)
(* Adding a session of an identity and a kind the table does not have.     *)
(***************************************************************************)
LEMMA PutOK ==
  ASSUME NEW ss, TableOK(ss), NEW t \in Tokens \ DOMAIN ss, NEW sess \in Session,
         \A u \in DOMAIN ss : ss[u].identity # sess.identity /\ ss[u].policyKind # sess.policyKind
  PROVE  TableOK(Put(ss, t, sess))
<1> DEFINE p == Put(ss, t, sess)
<1>1. /\ DOMAIN p = DOMAIN ss \cup {t}
      /\ p[t] = sess
      /\ \A u \in DOMAIN ss : p[u] = ss[u]
      /\ p = [u \in DOMAIN p |-> p[u]]
  BY DEF Put
<1>2. \A u \in DOMAIN ss : ss[u] \in Session
  BY DEF TableOK
<1> HIDE DEF p
<1>3. p \in [DOMAIN p -> Session]
  BY <1>1, <1>2
<1>4. TableOK(p)
  BY <1>1, <1>3 DEF TableOK
<1> QED  BY <1>4 DEF p

(***************************************************************************)
(* Replacing each session by one of the same identity and kind.            *)
(***************************************************************************)
LEMMA SameOwnersOK ==
  ASSUME NEW ss, TableOK(ss), NEW tt, tt \in [DOMAIN ss -> Session],
         \A t \in DOMAIN ss : /\ tt[t].identity = ss[t].identity
                              /\ tt[t].policyKind = ss[t].policyKind
  PROVE  TableOK(tt)
BY DEF TableOK

LEMMA AgeChange ==
  ASSUME NEW sess \in Session
  PROVE  /\ [sess EXCEPT !.age = 0] \in Session
         /\ [sess EXCEPT !.age = 0].identity = sess.identity
         /\ [sess EXCEPT !.age = 0].policyKind = sess.policyKind
         /\ Older(sess) \in Session
         /\ Older(sess).identity = sess.identity
         /\ Older(sess).policyKind = sess.policyKind
BY TTLAssumption DEF Session, Older

(***************************************************************************)
(* In such a table a lookup finds the only session there is.               *)
(***************************************************************************)
LEMMA LookupFacts ==
  ASSUME NEW ss, TableOK(ss), NEW i, NEW k
  PROVE  /\ \A found \in sessionByIdentityLocked(ss, i) :
               found = {t \in DOMAIN ss : ss[t].identity = i}
         /\ \A found \in sessionByPolicyKindLocked(ss, k) :
               found = {t \in DOMAIN ss : ss[t].policyKind = k}
<1>1. \A S : (\A t, u \in S : t = u) => \A found \in AnyOne(S) : found = S
  BY DEF AnyOne
<1>2. \A found \in sessionByIdentityLocked(ss, i) : found = {t \in DOMAIN ss : ss[t].identity = i}
  <2> DEFINE S == {t \in DOMAIN ss : ss[t].identity = i}
  <2>1. \A t, u \in S : t = u
    BY DEF TableOK
  <2> QED  BY <2>1, <1>1 DEF sessionByIdentityLocked
<1>3. \A found \in sessionByPolicyKindLocked(ss, k) : found = {t \in DOMAIN ss : ss[t].policyKind = k}
  <2> DEFINE S == {t \in DOMAIN ss : ss[t].policyKind = k}
  <2>1. \A t, u \in S : t = u
    BY DEF TableOK
  <2> QED  BY <2>1, <1>1 DEF sessionByPolicyKindLocked
<1> QED  BY <1>2, <1>3

(***************************************************************************)
(* CreateSession adds one session and leaves the others it keeps alone.    *)
(***************************************************************************)
LEMMA CreateKeeps ==
  ASSUME TableOK(sessions), NEW i \in Identities, NEW k \in Kinds, NEW t \in Tokens,
         CreateSession(i, k, t)
  PROVE  /\ TableOK(sessions')
         /\ t \in DOMAIN sessions'
         /\ sessions'[t].identity = i /\ sessions'[t].policyKind = k
         /\ \A u \in DOMAIN sessions' \ {t} : u \in DOMAIN sessions /\ sessions'[u] = sessions[u]
<1> DEFINE sess == [identity |-> i, policyKind |-> k, age |-> 0]
<1>1. PICK mine \in sessionByIdentityLocked(sessions, i) :
        \E owner \in sessionByPolicyKindLocked(Drop(sessions, mine), k) :
          /\ t \notin DOMAIN sessions
          /\ sessions' = Put(Drop(Drop(sessions, mine), owner), t, sess)
  BY DEF CreateSession
<1> DEFINE others == Drop(sessions, mine)
<1>2. PICK owner \in sessionByPolicyKindLocked(others, k) :
          /\ t \notin DOMAIN sessions
          /\ sessions' = Put(Drop(others, owner), t, sess)
  BY <1>1
<1> DEFINE left == Drop(others, owner)
<1>3. TableOK(others) /\ TableOK(left)
  BY DropOK
<1>4. /\ mine = {u \in DOMAIN sessions : sessions[u].identity = i}
      /\ owner = {u \in DOMAIN others : others[u].policyKind = k}
  BY <1>3, LookupFacts, Zenon
<1>5. /\ t \in Tokens \ DOMAIN left
      /\ \A u \in DOMAIN left : /\ left[u].identity # i /\ left[u].policyKind # k
                                /\ u \in DOMAIN sessions /\ left[u] = sessions[u]
  BY <1>2, <1>4 DEF Drop, Restrict
<1> HIDE DEF left, others
<1>6. sess \in Session /\ sess.identity = i /\ sess.policyKind = k
  BY TTLAssumption DEF Session
<1>7. sessions' = Put(left, t, sess)
  BY <1>2 DEF left
<1> HIDE DEF sess
<1>8. TableOK(sessions')
  BY <1>3, <1>5, <1>6, <1>7, PutOK
<1>9. /\ DOMAIN sessions' = DOMAIN left \cup {t}
      /\ sessions'[t] = sess
      /\ \A u \in DOMAIN left \ {t} : sessions'[u] = left[u]
  BY <1>7 DEF Put
<1> QED
  BY <1>5, <1>6, <1>8, <1>9

LEMMA InvTable == StoreInv => TableOK(sessions)
BY DEF StoreInv, StoreTypeOK, OneSessionPerIdentity, OneSessionPerKind, TableOK

LEMMA InitInv == NewSessionStore => StoreInv
BY Zenon DEF NewSessionStore, StoreInv, StoreTypeOK, OneSessionPerIdentity, OneSessionPerKind, WarmupEnds

LEMMA StepInv == StoreInv /\ [StoreNext]_storeVars => StoreInv'
<1> SUFFICES ASSUME StoreInv, [StoreNext]_storeVars PROVE StoreInv'
  OBVIOUS
<1>t. TableOK(sessions)
  BY InvTable
<1>s. \A t \in DOMAIN sessions : sessions[t] \in Session
  BY <1>t DEF TableOK
<1> DEFINE Rest == /\ DOMAIN credentials \subseteq Builtins
                   /\ credentials \in [DOMAIN credentials -> Credentials]
                   /\ builtinNames \subseteq Builtins
                   /\ warmupComplete \in BOOLEAN
                   /\ warmupTimer \in BOOLEAN
                   /\ WarmupEnds
<1>r. Rest
  BY DEF StoreInv, StoreTypeOK
<1>u. ASSUME TableOK(sessions'), Rest' PROVE StoreInv'
  BY <1>u DEF StoreInv, StoreTypeOK, OneSessionPerIdentity, OneSessionPerKind, TableOK
<1>k. ASSUME UNCHANGED <<credentials, builtinNames, warmupComplete, warmupTimer>> PROVE Rest'
  BY <1>k, <1>r DEF WarmupEnds
<1>1. CASE BeginWarmup(Builtins)
  <2>1. Rest'
    BY <1>1, <1>r DEF BeginWarmup, WarmupEnds, allBuiltinsRegisteredLocked
  <2> QED  BY <1>1, <2>1, <1>t, <1>u DEF BeginWarmup
<1>2. CASE WarmupTimeout
  <2>1. Rest'
    BY <1>2, <1>r, Zenon DEF WarmupTimeout, WarmupEnds
  <2> QED  BY <1>2, <2>1, <1>t, <1>u DEF WarmupTimeout
<1>3. ASSUME NEW n \in Builtins, NEW cred \in Credentials, SetCredential(n, cred)
      PROVE  StoreInv'
  <2>1. Rest'
    BY <1>3, <1>r DEF SetCredential, WarmupEnds, Put
  <2>2. TableOK(sessions')
    BY <1>3, <1>t, DropOK DEF SetCredential, revokeIdentityLocked
  <2> QED  BY <2>1, <2>2, <1>u
<1>4. ASSUME NEW i \in Identities, NEW k \in Kinds \cup {NoKind}, NEW t \in Tokens,
             CreateSession(i, k, t)
      PROVE  StoreInv'
  <2>0. k \in Kinds
    BY <1>4 DEF CreateSession, PolicyKindGiven
  <2>1. TableOK(sessions')
    BY <1>4, <1>t, <2>0, CreateKeeps
  <2>2. Rest'
    BY <1>4, <1>r DEF CreateSession, WarmupEnds, allBuiltinsRegisteredLocked
  <2> QED  BY <2>1, <2>2, <1>u
<1>5. ASSUME NEW i \in Identities, NEW k \in Kinds \cup {NoKind},
             \/ ErrPolicyKindTaken(i, k)
             \/ GenerateSessionTokenFails(i, k)
      PROVE  StoreInv'
  <2>1. TableOK(sessions')
    BY <1>5, <1>t, DropOK DEF ErrPolicyKindTaken, GenerateSessionTokenFails
  <2> QED  BY <1>5, <2>1, <1>k, <1>u DEF ErrPolicyKindTaken, GenerateSessionTokenFails
<1>6. ASSUME NEW t \in Tokens, Touch(t)
      PROVE  StoreInv'
  <2>1. TableOK(sessions')
    <3>1. /\ sessions' \in [DOMAIN sessions -> Session]
          /\ \A u \in DOMAIN sessions : /\ sessions'[u].identity = sessions[u].identity
                                        /\ sessions'[u].policyKind = sessions[u].policyKind
      BY <1>6, <1>s, AgeChange DEF Touch
    <3> QED  BY <3>1, <1>t, SameOwnersOK
  <2> QED  BY <1>6, <2>1, <1>k, <1>u DEF Touch
<1>7. CASE ReapStale
  <2>1. TableOK(sessions')
    BY <1>7, <1>t, DropOK DEF ReapStale
  <2> QED  BY <1>7, <2>1, <1>k, <1>u DEF ReapStale
<1>8. ASSUME NEW i \in Identities, RevokeByName(i)
      PROVE  StoreInv'
  <2>1. TableOK(sessions')
    BY <1>8, <1>t, DropOK DEF RevokeByName, revokeIdentityLocked
  <2> QED  BY <1>8, <2>1, <1>k, <1>u DEF RevokeByName
<1>9. CASE ClockTick
  <2>1. TableOK(sessions')
    <3>1. /\ sessions' \in [DOMAIN sessions -> Session]
          /\ \A u \in DOMAIN sessions : /\ sessions'[u].identity = sessions[u].identity
                                        /\ sessions'[u].policyKind = sessions[u].policyKind
      BY <1>9, <1>s, AgeChange, Zenon DEF ClockTick
    <3> QED  BY <3>1, <1>t, SameOwnersOK
  <2> QED  BY <1>9, <2>1, <1>k, <1>u DEF ClockTick
<1>10. CASE UNCHANGED storeVars
  BY <1>10, <1>t, <1>k, <1>u DEF storeVars
<1> QED
  BY <1>1, <1>2, <1>3, <1>4, <1>5, <1>6, <1>7, <1>8, <1>9, <1>10 DEF StoreNext, ErrAlreadyConnected, ErrPolicyKindRequired

(***************************************************************************)
(* Whatever the callers of session.go do, an identity and a policy kind    *)
(* have at most one session, and a pending warmup has its timer armed.     *)
(***************************************************************************)
THEOREM StoreInvariant == StoreSpec => []StoreInv
BY InitInv, StepInv, PTL DEF StoreSpec

(***************************************************************************)
(* The instance of StoreInvariant that the handshake relies on: CreateSession *)
(* never leaves two sessions that own the same kind.                       *)
(***************************************************************************)
THEOREM KindOwnership == StoreSpec => []OneSessionPerKind
<1>1. StoreInv => OneSessionPerKind
  BY DEF StoreInv
<1> QED  BY <1>1, StoreInvariant, PTL
-----------------------------------------------------------------------------
(***************************************************************************)
(* The lease table of a table of sessions: the owner of a kind is the      *)
(* identity of the session that holds it.                                  *)
(***************************************************************************)
LEMMA LeaseFacts ==
  ASSUME NEW ss, TableOK(ss)
  PROVE  /\ LeaseOwner(ss) = [k \in Kinds |-> LeaseOwner(ss)[k]]
         /\ \A t \in DOMAIN ss : /\ ss[t].policyKind \in Kinds
                                 /\ ss[t].identity \in Identities
                                 /\ LeaseOwner(ss)[ss[t].policyKind] = ss[t].identity
         /\ \A k \in Kinds : (\A t \in DOMAIN ss : ss[t].policyKind # k)
                                => LeaseOwner(ss)[k] = NoOwner
         /\ \A t \in DOMAIN ss : ss[t].policyKind \in LeaseExpired(ss) <=> isStaleLocked(ss[t])
         /\ \A k \in LeaseExpired(ss) : \E t \in DOMAIN ss : ss[t].policyKind = k
<1>1. \A t \in DOMAIN ss : ss[t].policyKind \in Kinds /\ ss[t].identity \in Identities
  BY DEF TableOK, Session
<1>2. \A t \in DOMAIN ss : SessionOf(ss, ss[t].policyKind) = t
  BY DEF TableOK, SessionOf
<1>3. \A t \in DOMAIN ss : LeaseOwner(ss)[ss[t].policyKind] = ss[t].identity
  BY <1>1, <1>2 DEF LeaseOwner
<1>4. \A t \in DOMAIN ss : ss[t].policyKind \in LeaseExpired(ss) <=> isStaleLocked(ss[t])
  BY <1>1 DEF LeaseExpired, TableOK
<1> QED  BY <1>1, <1>3, <1>4 DEF LeaseOwner, LeaseExpired

(***************************************************************************)
(* Deleting sessions ends the leases of their kinds and of no other.       *)
(***************************************************************************)
KindsOf(ss, toks) == {ss[t].policyKind : t \in toks}

LEMMA DropLease ==
  ASSUME NEW ss, TableOK(ss), NEW gone \in SUBSET DOMAIN ss
  PROVE  /\ LeaseOwner(Drop(ss, gone)) =
              [k \in Kinds |-> IF k \in KindsOf(ss, gone) THEN NoOwner ELSE LeaseOwner(ss)[k]]
         /\ LeaseExpired(Drop(ss, gone)) = LeaseExpired(ss) \ KindsOf(ss, gone)
<1> DEFINE d == Drop(ss, gone)
<1>1. /\ DOMAIN d = DOMAIN ss \ gone
      /\ \A t \in DOMAIN d : d[t] = ss[t]
  BY DEF Drop, Restrict
<1>2. TableOK(d)
  BY DropOK
<1> HIDE DEF d
<1>3. ASSUME NEW k \in Kinds
      PROVE  LeaseOwner(d)[k] = IF k \in KindsOf(ss, gone) THEN NoOwner ELSE LeaseOwner(ss)[k]
  <2>1. CASE k \in KindsOf(ss, gone)
    <3>1. \A t \in DOMAIN d : d[t].policyKind # k
      BY <2>1, <1>1 DEF KindsOf, TableOK
    <3> QED  BY <2>1, <3>1, <1>2, LeaseFacts
  <2>2. CASE k \notin KindsOf(ss, gone) /\ \E t \in DOMAIN ss : ss[t].policyKind = k
    <3>1. PICK t \in DOMAIN ss : ss[t].policyKind = k
      BY <2>2
    <3>2. t \in DOMAIN d
      BY <2>2, <3>1, <1>1 DEF KindsOf
    <3> QED  BY <2>2, <3>1, <3>2, <1>1, <1>2, LeaseFacts
  <2>3. CASE k \notin KindsOf(ss, gone) /\ \A t \in DOMAIN ss : ss[t].policyKind # k
    <3>1. \A t \in DOMAIN d : d[t].policyKind # k
      BY <2>3, <1>1
    <3> QED  BY <2>3, <3>1, <1>2, LeaseFacts
  <2> QED  BY <2>1, <2>2, <2>3
<1>4. LeaseOwner(d) = [k \in Kinds |-> IF k \in KindsOf(ss, gone) THEN NoOwner ELSE LeaseOwner(ss)[k]]
  BY <1>3, <1>2, LeaseFacts
<1>5. LeaseExpired(d) = LeaseExpired(ss) \ KindsOf(ss, gone)
  BY <1>1 DEF LeaseExpired, KindsOf, TableOK
<1> QED  BY <1>4, <1>5 DEF d

(***************************************************************************)
(* Adding a session gives its kind to its identity, unexpired.             *)
(***************************************************************************)
LEMMA PutLease ==
  ASSUME NEW ss, TableOK(ss), NEW t \in Tokens \ DOMAIN ss, NEW i \in Identities, NEW k \in Kinds,
         \A u \in DOMAIN ss : ss[u].identity # i /\ ss[u].policyKind # k
  PROVE  LET p == Put(ss, t, [identity |-> i, policyKind |-> k, age |-> 0]) IN
         /\ LeaseOwner(p) = [j \in Kinds |-> IF j = k THEN i ELSE LeaseOwner(ss)[j]]
         /\ LeaseExpired(p) = LeaseExpired(ss)
<1> DEFINE sess == [identity |-> i, policyKind |-> k, age |-> 0]
           p == Put(ss, t, sess)
<1>1. /\ DOMAIN p = DOMAIN ss \cup {t}
      /\ p[t] = sess
      /\ \A u \in DOMAIN ss : p[u] = ss[u]
  BY DEF Put
<1>2. /\ sess \in Session
      /\ sess.identity = i /\ sess.policyKind = k
      /\ ~isStaleLocked(sess)
  BY TTLAssumption DEF Session, isStaleLocked
<1> HIDE DEF sess
<1>3. TableOK(p)
  BY <1>2, PutOK
<1> HIDE DEF p
<1>4. ASSUME NEW j \in Kinds
      PROVE  LeaseOwner(p)[j] = IF j = k THEN i ELSE LeaseOwner(ss)[j]
  <2>1. CASE j = k
    BY <2>1, <1>1, <1>2, <1>3, LeaseFacts
  <2>2. CASE j # k /\ \E u \in DOMAIN ss : ss[u].policyKind = j
    BY <2>2, <1>1, <1>3, LeaseFacts
  <2>3. CASE j # k /\ \A u \in DOMAIN ss : ss[u].policyKind # j
    BY <2>3, <1>1, <1>2, <1>3, LeaseFacts
  <2> QED  BY <2>1, <2>2, <2>3
<1>5. LeaseOwner(p) = [j \in Kinds |-> IF j = k THEN i ELSE LeaseOwner(ss)[j]]
  BY <1>4, <1>3, LeaseFacts
<1>6. LeaseExpired(p) = LeaseExpired(ss)
  BY <1>1, <1>2 DEF LeaseExpired
<1> QED  BY <1>5, <1>6 DEF p, sess

(***************************************************************************)
(* Sessions of the same identities and kinds give the same owners.         *)
(***************************************************************************)
LEMMA SameOwnersLease ==
  ASSUME NEW ss, TableOK(ss), NEW tt, tt \in [DOMAIN ss -> Session],
         \A t \in DOMAIN ss : /\ tt[t].identity = ss[t].identity
                              /\ tt[t].policyKind = ss[t].policyKind
  PROVE  LeaseOwner(tt) = LeaseOwner(ss)
<1>1. TableOK(tt) /\ DOMAIN tt = DOMAIN ss
  BY SameOwnersOK
<1>2. ASSUME NEW k \in Kinds PROVE LeaseOwner(tt)[k] = LeaseOwner(ss)[k]
  <2>1. CASE \E t \in DOMAIN ss : ss[t].policyKind = k
    BY <2>1, <1>1, LeaseFacts
  <2>2. CASE \A t \in DOMAIN ss : ss[t].policyKind # k
    BY <2>2, <1>1, LeaseFacts
  <2> QED  BY <2>1, <2>2
<1> QED  BY <1>1, <1>2, LeaseFacts
LEMMA InitLease == NewSessionStore => Lease!Init
BY DEF NewSessionStore, Lease!Init, LeaseOwner, LeaseExpired

(***************************************************************************)
(* Deleting stale sessions lapses expired leases; deleting the session of  *)
(* an identity releases its lease.                                         *)
(***************************************************************************)
LEMMA DropStaleLapses ==
  ASSUME TableOK(sessions), NEW STATE gone, gone \subseteq DOMAIN sessions,
         \A t \in gone : isStaleLocked(sessions[t]),
         sessions' = Drop(sessions, gone)
  PROVE  Lease!Lapse
<1> DEFINE K == KindsOf(sessions, gone)
<1>1. K \in SUBSET LeaseExpired(sessions)
  BY LeaseFacts DEF KindsOf
<1>2. /\ LeaseOwner(sessions') = [k \in Kinds |-> IF k \in K THEN NoOwner ELSE LeaseOwner(sessions)[k]]
      /\ LeaseExpired(sessions') = LeaseExpired(sessions) \ K
  BY DropLease
<1> QED  BY <1>1, <1>2 DEF Lease!Lapse

LEMMA DropIdentityReleases ==
  ASSUME TableOK(sessions), NEW i \in Identities, revokeIdentityLocked(i)
  PROVE  Lease!Release(i)
<1> DEFINE gone == {t \in DOMAIN sessions : sessions[t].identity = i}
           K == KindsOf(sessions, gone)
<1>1. sessions' = Drop(sessions, gone)
  BY LookupFacts, Zenon DEF revokeIdentityLocked
<1>2. /\ LeaseOwner(sessions') = [k \in Kinds |-> IF k \in K THEN NoOwner ELSE LeaseOwner(sessions)[k]]
      /\ LeaseExpired(sessions') = LeaseExpired(sessions) \ K
  BY <1>1, DropLease
<1>3. K = {k \in Kinds : LeaseOwner(sessions)[k] = i}
  BY LeaseFacts, NoOwnerAssumption DEF KindsOf
<1> QED  BY <1>2, <1>3 DEF Lease!Release

LEMMA CreateGrants ==
  ASSUME TableOK(sessions), NEW i \in Identities, NEW k \in Kinds, NEW t \in Tokens,
         CreateSession(i, k, t)
  PROVE  Lease!Grant(i, k)
<1> DEFINE sess == [identity |-> i, policyKind |-> k, age |-> 0]
           mine == {u \in DOMAIN sessions : sessions[u].identity = i}
           others == Drop(sessions, mine)
           owner == {u \in DOMAIN others : others[u].policyKind = k}
           left == Drop(others, owner)
           own == {j \in Kinds : LeaseOwner(sessions)[j] = i}
<1>1. TableOK(others) /\ TableOK(left)
  BY DropOK, Zenon
<1>2. /\ \A u \in mine : isStaleLocked(sessions[u])
      /\ \A u \in owner : isStaleLocked(others[u])
      /\ t \notin DOMAIN sessions
      /\ sessions' = Put(left, t, sess)
  <2>1. PICK m \in sessionByIdentityLocked(sessions, i) :
          \E o \in sessionByPolicyKindLocked(Drop(sessions, m), k) :
            /\ Stale(sessions, m)
            /\ Stale(Drop(sessions, m), o)
            /\ t \notin DOMAIN sessions
            /\ sessions' = Put(Drop(Drop(sessions, m), o), t, sess)
    BY DEF CreateSession
  <2>2. m = mine
    BY LookupFacts
  <2>3. PICK o \in sessionByPolicyKindLocked(others, k) :
            /\ Stale(sessions, mine)
            /\ Stale(others, o)
            /\ t \notin DOMAIN sessions
            /\ sessions' = Put(Drop(others, o), t, sess)
    BY <2>1, <2>2, Zenon
  <2>4. o = owner
    BY <1>1, LookupFacts, Zenon
  <2> QED  BY <2>3, <2>4 DEF Stale
<1>3. /\ DOMAIN others = DOMAIN sessions \ mine
      /\ \A u \in DOMAIN others : others[u] = sessions[u]
      /\ DOMAIN left = DOMAIN others \ owner
      /\ \A u \in DOMAIN left : left[u] = others[u]
  BY DEF Drop, Restrict
<1>4. /\ KindsOf(sessions, mine) = own
      /\ own \subseteq LeaseExpired(sessions)
  BY <1>2, LeaseFacts, NoOwnerAssumption DEF KindsOf
<1>5. KindsOf(others, owner) \subseteq {k}
  BY Zenon DEF KindsOf
<1>6. /\ LeaseOwner(others) = [j \in Kinds |-> IF j \in own THEN NoOwner ELSE LeaseOwner(sessions)[j]]
      /\ LeaseExpired(others) = LeaseExpired(sessions) \ own
  BY <1>4, DropLease
<1>7. /\ LeaseOwner(left) = [j \in Kinds |-> IF j \in KindsOf(others, owner)
                                               THEN NoOwner ELSE LeaseOwner(others)[j]]
      /\ LeaseExpired(left) = LeaseExpired(others) \ KindsOf(others, owner)
  BY <1>1, DropLease, ZenonT(40)
<1>8. k \notin LeaseExpired(left)
  BY <1>1, <1>3, LeaseFacts
<1>9. /\ LeaseOwner(sessions') = [j \in Kinds |-> IF j = k THEN i ELSE LeaseOwner(left)[j]]
      /\ LeaseExpired(sessions') = LeaseExpired(left)
  <2>1. /\ t \in Tokens \ DOMAIN left
        /\ \A u \in DOMAIN left : left[u].identity # i /\ left[u].policyKind # k
    BY <1>2, <1>3, Zenon
  <2> HIDE DEF left
  <2> QED  BY <1>1, <1>2, <2>1, PutLease
<1>10. LeaseOwner(sessions)[k] # NoOwner => k \in LeaseExpired(sessions)
  <2>1. SUFFICES ASSUME LeaseOwner(sessions)[k] # NoOwner PROVE k \in LeaseExpired(sessions)
    OBVIOUS
  <2>2. PICK u \in DOMAIN sessions : sessions[u].policyKind = k
    BY <2>1, LeaseFacts
  <2>3. isStaleLocked(sessions[u])
    BY <1>2, <1>3, <2>2, Zenon
  <2> QED  BY <2>2, <2>3, LeaseFacts
<1> HIDE DEF own, left, others, owner, mine
<1>11. LeaseOwner(sessions') = [j \in Kinds |-> CASE j = k -> i
                                                 [] j # k /\ j \in own -> NoOwner
                                                 [] OTHER -> LeaseOwner(sessions)[j]]
  BY <1>5, <1>6, <1>7, <1>9
<1>12. LeaseExpired(sessions') = LeaseExpired(sessions) \ (own \cup {k})
  BY <1>5, <1>6, <1>7, <1>8, <1>9
<1> QED  BY <1>4, <1>10, <1>11, <1>12 DEF Lease!Grant, Lease!Leased, own
LEMMA StepLease ==
  StoreInv /\ [StoreNext]_storeVars => [Lease!Next]_(Lease!vars)
<1> SUFFICES ASSUME StoreInv, [StoreNext]_storeVars PROVE [Lease!Next]_(Lease!vars)
  OBVIOUS
<1>t. TableOK(sessions)
  BY InvTable
<1>s. \A t \in DOMAIN sessions : sessions[t] \in Session
  BY <1>t DEF TableOK
<1>u. ASSUME sessions' = sessions PROVE [Lease!Next]_(Lease!vars)
  <2>1. LeaseOwner(sessions') = LeaseOwner(sessions) /\ LeaseExpired(sessions') = LeaseExpired(sessions)
    BY <1>u
  <2> QED  BY <2>1 DEF Lease!vars
<1>1. CASE \/ BeginWarmup(Builtins) \/ WarmupTimeout
           \/ \E i \in Identities, k \in Kinds \cup {NoKind} :
                ErrAlreadyConnected(i, k) \/ ErrPolicyKindRequired(k)
           \/ UNCHANGED storeVars
  BY <1>1, <1>u DEF BeginWarmup, WarmupTimeout, ErrAlreadyConnected, ErrPolicyKindRequired, storeVars
<1>2. ASSUME NEW n \in Builtins, NEW cred \in Credentials, SetCredential(n, cred)
      PROVE  [Lease!Next]_(Lease!vars)
  <2>1. n \in Identities
    BY BuiltinsAssumption
  <2>2. CASE revokeIdentityLocked(n)
    BY <2>1, <2>2, <1>t, DropIdentityReleases DEF Lease!Next
  <2> QED  BY <1>2, <2>2, <1>u DEF SetCredential
<1>3. ASSUME NEW i \in Identities, NEW k \in Kinds \cup {NoKind}, NEW t \in Tokens,
             CreateSession(i, k, t)
      PROVE  [Lease!Next]_(Lease!vars)
  <2>1. k \in Kinds
    BY <1>3 DEF CreateSession, PolicyKindGiven
  <2> QED  BY <1>3, <2>1, <1>t, CreateGrants DEF Lease!Next
<1>4. ASSUME NEW i \in Identities, NEW k \in Kinds \cup {NoKind}, ErrPolicyKindTaken(i, k)
      PROVE  [Lease!Next]_(Lease!vars)
  <2>1. PICK mine \in sessionByIdentityLocked(sessions, i) :
          /\ Stale(sessions, mine)
          /\ sessions' = Drop(sessions, mine)
    BY <1>4 DEF ErrPolicyKindTaken
  <2>2. mine \subseteq DOMAIN sessions
    BY <1>t, LookupFacts
  <2>3. Lease!Lapse
    BY <2>1, <2>2, <1>t, DropStaleLapses DEF Stale
  <2> QED  BY <2>3 DEF Lease!Next
<1>5. ASSUME NEW i \in Identities, NEW k \in Kinds \cup {NoKind}, GenerateSessionTokenFails(i, k)
      PROVE  [Lease!Next]_(Lease!vars)
  <2>1. PICK mine \in sessionByIdentityLocked(sessions, i) :
          \E owner \in sessionByPolicyKindLocked(Drop(sessions, mine), k) :
            /\ Stale(sessions, mine)
            /\ Stale(Drop(sessions, mine), owner)
            /\ sessions' = Drop(Drop(sessions, mine), owner)
    BY <1>5 DEF GenerateSessionTokenFails
  <2> DEFINE others == Drop(sessions, mine)
  <2>2. PICK owner \in sessionByPolicyKindLocked(others, k) :
            /\ Stale(sessions, mine)
            /\ Stale(others, owner)
            /\ sessions' = Drop(others, owner)
    BY <2>1
  <2>3. TableOK(others)
    BY <1>t, DropOK
  <2>4. mine \subseteq DOMAIN sessions /\ owner \subseteq DOMAIN others
    BY <1>t, <2>3, LookupFacts
  <2>5. /\ DOMAIN others = DOMAIN sessions \ mine
        /\ \A t \in DOMAIN others : others[t] = sessions[t]
    BY DEF Drop, Restrict
  <2>6. sessions' = Drop(sessions, mine \cup owner)
    <3>1. Drop(others, owner) = Drop(sessions, mine \cup owner)
      BY <2>5 DEF Drop, Restrict
    <3> QED  BY <2>2, <3>1
  <2>7. mine \cup owner \subseteq DOMAIN sessions
    BY <2>4, <2>5
  <2>8. \A t \in mine \cup owner : isStaleLocked(sessions[t])
    BY <2>2, <2>4, <2>5 DEF Stale
  <2>9. Lease!Lapse
    <3> DEFINE gone == mine \cup owner
    <3> HIDE DEF gone
    <3>1. /\ gone \subseteq DOMAIN sessions
          /\ \A t \in gone : isStaleLocked(sessions[t])
          /\ sessions' = Drop(sessions, gone)
      BY <2>6, <2>7, <2>8 DEF gone
    <3> QED  BY <3>1, <1>t, DropStaleLapses
  <2> QED  BY <2>9 DEF Lease!Next
<1>6. ASSUME NEW t \in Tokens, Touch(t)
      PROVE  [Lease!Next]_(Lease!vars)
  <2>1. /\ sessions' \in [DOMAIN sessions -> Session]
        /\ \A u \in DOMAIN sessions : /\ sessions'[u].identity = sessions[u].identity
                                      /\ sessions'[u].policyKind = sessions[u].policyKind
    BY <1>6, <1>s, AgeChange DEF Touch
  <2>2. LeaseOwner(sessions') = LeaseOwner(sessions)
    BY <2>1, <1>t, SameOwnersLease
  <2>3. CASE t \in DOMAIN sessions
    <3>1. sessions[t].policyKind \in Kinds
      BY <2>3, <1>s DEF Session
    <3>2. \A u \in DOMAIN sessions : isStaleLocked(sessions'[u])
                                       <=> u # t /\ isStaleLocked(sessions[u])
      BY <1>6, <2>3, <1>s, TTLAssumption DEF Touch, isStaleLocked, Session
    <3>3. LeaseExpired(sessions') = LeaseExpired(sessions) \ {sessions[t].policyKind}
      BY <2>1, <2>3, <3>2, <1>t DEF LeaseExpired, TableOK
    <3>4. Lease!Renew(sessions[t].policyKind)
      BY <2>2, <3>3 DEF Lease!Renew
    <3> QED  BY <3>1, <3>4 DEF Lease!Next
  <2>4. CASE t \notin DOMAIN sessions
    <3>1. sessions' = sessions
      BY <2>4, <1>6, <1>t DEF Touch, TableOK
    <3> QED  BY <3>1, <1>u
  <2> QED  BY <2>3, <2>4
<1>7. CASE ReapStale
  <2> DEFINE gone == {t \in DOMAIN sessions : isStaleLocked(sessions[t])}
  <2>1. /\ gone \subseteq DOMAIN sessions
        /\ \A t \in gone : isStaleLocked(sessions[t])
        /\ sessions' = Drop(sessions, gone)
    BY <1>7 DEF ReapStale
  <2> HIDE DEF gone
  <2>2. Lease!Lapse
    BY <2>1, <1>t, DropStaleLapses
  <2> QED  BY <2>2 DEF Lease!Next
<1>8. ASSUME NEW i \in Identities, RevokeByName(i)
      PROVE  [Lease!Next]_(Lease!vars)
  BY <1>8, <1>t, DropIdentityReleases DEF RevokeByName, Lease!Next
<1>9. CASE ClockTick
  <2>1. /\ sessions' \in [DOMAIN sessions -> Session]
        /\ \A u \in DOMAIN sessions : /\ sessions'[u].identity = sessions[u].identity
                                      /\ sessions'[u].policyKind = sessions[u].policyKind
    BY <1>9, <1>s, AgeChange, Zenon DEF ClockTick
  <2>2. LeaseOwner(sessions') = LeaseOwner(sessions)
    BY <2>1, <1>t, SameOwnersLease
  <2>3. TableOK(sessions') /\ DOMAIN sessions' = DOMAIN sessions
    BY <2>1, <1>t, SameOwnersOK
  <2> DEFINE late == LeaseExpired(sessions')
  <2>4. late \subseteq {k \in Kinds : LeaseOwner(sessions)[k] # NoOwner}
    BY <2>1, <2>3, <1>t, LeaseFacts, NoOwnerAssumption DEF LeaseExpired
  <2>5. \A u \in DOMAIN sessions : isStaleLocked(sessions[u]) => isStaleLocked(sessions'[u])
    BY <1>9, <1>s, TTLAssumption DEF ClockTick, Older, isStaleLocked, Session
  <2>6. LeaseExpired(sessions) \subseteq late
    BY <2>1, <2>3, <2>5 DEF LeaseExpired
  <2>7. late = LeaseExpired(sessions) \cup late
    BY <2>6
  <2>8. Lease!Expire
    BY <2>2, <2>4, <2>7 DEF Lease!Expire, Lease!Leased
  <2> QED  BY <2>8 DEF Lease!Next
<1> QED
  BY <1>1, <1>2, <1>3, <1>4, <1>5, <1>6, <1>7, <1>8, <1>9 DEF StoreNext

(***************************************************************************)
(* The store implements KindLease: whatever the interleaving of            *)
(* handshakes, heartbeats, reaper sweeps, credential changes and releases, *)
(* a kind changes hands only when it is free, expired or given up.         *)
(***************************************************************************)
THEOREM StoreImplementsKindLease == StoreSpec => ImplementsKindLease
BY InitLease, StepLease, StoreInvariant, PTL DEF StoreSpec, ImplementsKindLease, Lease!Spec

-----------------------------------------------------------------------------
\* The processes and the operator.

Stages == {"sent", "validated", "touched"}

Releases == [client : Clients, token : Tokens, stage : Stages]

\* Where tokens are: with a process, or on their way to one; no token is in two
\* such places.  Releases still in progress carry copies.
TokensOK ==
  /\ token \in [Clients -> Tokens \cup {NoToken}]
  /\ reply \in [Clients -> Tokens \cup {NoToken}]
  /\ \A c, d \in Clients : token[c] = token[d] /\ token[c] # NoToken => c = d
  /\ \A c, d \in Clients : reply[c] = reply[d] /\ reply[c] # NoToken => c = d
  /\ \A c, d \in Clients : token[c] = reply[d] => token[c] = NoToken
  /\ releases \subseteq Releases

\* The session of t, when there still is one, was created by a handshake of c.
Owned(t, c) ==
  t \in DOMAIN sessions => /\ sessions[t].identity = identityOf[c]
                           /\ sessions[t].policyKind = kindOf[c]

(***************************************************************************)
(* A token opens the session of the process that presents it, or of none:  *)
(* the identity that the interceptor hands to ReleaseSession and the other *)
(* handlers is the caller's own.                                           *)
(***************************************************************************)
TokensOwned ==
  /\ \A c \in Clients : Owned(token[c], c) /\ Owned(reply[c], c)
  /\ \A r \in releases : Owned(r.token, r.client)

HandoverInv == TableOK(sessions) /\ TokensOK /\ TokensOwned

\* A step opens no session and changes the owner of none.
SameOwners ==
  \A t \in DOMAIN sessions' : /\ t \in DOMAIN sessions
                              /\ sessions'[t].identity = sessions[t].identity
                              /\ sessions'[t].policyKind = sessions[t].policyKind

LEMMA DropKeeps ==
  ASSUME TableOK(sessions), NEW gone, sessions' = Drop(sessions, gone)
  PROVE  TableOK(sessions') /\ SameOwners
<1>1. TableOK(sessions')
  BY DropOK
<1> QED
  BY <1>1 DEF SameOwners, Drop, Restrict

LEMMA StoreKeeps ==
  ASSUME TableOK(sessions),
         \/ UNCHANGED storeVars \/ ReapStale \/ ClockTick
         \/ \E t : Touch(t)
         \/ \E i : RevokeByName(i)
         \/ \E i, k : ErrAlreadyConnected(i, k) \/ ErrPolicyKindTaken(i, k)
         \/ WarmupTimeout
  PROVE  TableOK(sessions') /\ SameOwners
<1>0. \A t \in DOMAIN sessions : sessions[t] \in Session
  BY DEF TableOK
<1>1. CASE sessions' = sessions
  BY <1>1 DEF SameOwners
<1>2. ASSUME NEW gone, sessions' = Drop(sessions, gone)
      PROVE  TableOK(sessions') /\ SameOwners
  BY <1>2, DropKeeps
<1>3. ASSUME /\ sessions' \in [DOMAIN sessions -> Session]
             /\ \A u \in DOMAIN sessions : /\ sessions'[u].identity = sessions[u].identity
                                           /\ sessions'[u].policyKind = sessions[u].policyKind
      PROVE  TableOK(sessions') /\ SameOwners
  <2>1. TableOK(sessions')
    BY <1>3, SameOwnersOK
  <2> QED
    BY <1>3, <2>1 DEF SameOwners
<1>4. CASE ClockTick
  BY <1>0, <1>3, <1>4, AgeChange, Zenon DEF ClockTick
<1>5. ASSUME NEW t, Touch(t)
      PROVE  TableOK(sessions') /\ SameOwners
  BY <1>0, <1>3, <1>5, AgeChange DEF Touch
<1>6. CASE ReapStale
  BY <1>2, <1>6 DEF ReapStale
<1>7. ASSUME NEW i, RevokeByName(i)
      PROVE  TableOK(sessions') /\ SameOwners
  BY <1>2, <1>7 DEF RevokeByName, revokeIdentityLocked
<1>8. ASSUME NEW i, NEW k, ErrPolicyKindTaken(i, k)
      PROVE  TableOK(sessions') /\ SameOwners
  BY <1>2, <1>8 DEF ErrPolicyKindTaken
<1> QED
  BY <1>1, <1>4, <1>5, <1>6, <1>7, <1>8 DEF ErrAlreadyConnected, WarmupTimeout, storeVars

\* A step moves tokens between the places of one process, or drops them.
Carried ==
  /\ token' = [c \in Clients |-> token'[c]]
  /\ reply' = [c \in Clients |-> reply'[c]]
  /\ \A c \in Clients :
       \/ token'[c] \in {token[c], NoToken} /\ reply'[c] \in {reply[c], NoToken}
       \/ token'[c] = reply[c] /\ reply'[c] = NoToken
  /\ releases' \subseteq Releases
  /\ \A r \in releases' : \/ \E q \in releases : r.client = q.client /\ r.token = q.token
                          \/ r.token = token[r.client]

LEMMA CarriedStep ==
  ASSUME HandoverInv, TableOK(sessions'), SameOwners, Carried
  PROVE  HandoverInv'
<1>1. /\ token' \in [Clients -> Tokens \cup {NoToken}]
      /\ reply' \in [Clients -> Tokens \cup {NoToken}]
  BY DEF HandoverInv, TokensOK, Carried
<1>2. /\ \A c, d \in Clients : token'[c] = token'[d] /\ token'[c] # NoToken => c = d
      /\ \A c, d \in Clients : reply'[c] = reply'[d] /\ reply'[c] # NoToken => c = d
      /\ \A c, d \in Clients : token'[c] = reply'[d] => token'[c] = NoToken
  BY DEF HandoverInv, TokensOK, Carried
<1>3. \A r \in releases' : r.client \in Clients /\ r.token \in Tokens
  BY Zenon DEF Carried, Releases
<1>4. TokensOK'
  BY <1>1, <1>2 DEF TokensOK, Carried
<1>5. /\ NoToken \notin DOMAIN sessions'
      /\ \A c \in Clients, t \in Tokens \cup {NoToken} :
           Owned(t, c) /\ t \in DOMAIN sessions'
              => sessions'[t].identity = identityOf[c] /\ sessions'[t].policyKind = kindOf[c]
  BY NoTokenAssumption DEF TableOK, SameOwners, Owned
<1>6. ASSUME NEW c \in Clients
      PROVE  /\ token'[c] \in DOMAIN sessions' => /\ sessions'[token'[c]].identity = identityOf[c]
                                                  /\ sessions'[token'[c]].policyKind = kindOf[c]
             /\ reply'[c] \in DOMAIN sessions' => /\ sessions'[reply'[c]].identity = identityOf[c]
                                                  /\ sessions'[reply'[c]].policyKind = kindOf[c]
  <2>1. /\ token[c] \in Tokens \cup {NoToken} /\ Owned(token[c], c)
        /\ reply[c] \in Tokens \cup {NoToken} /\ Owned(reply[c], c)
    BY Zenon DEF HandoverInv, TokensOK, TokensOwned
  <2> QED
    BY <1>5, <2>1 DEF Carried
<1>7. ASSUME NEW r \in releases', r.token \in DOMAIN sessions'
      PROVE  sessions'[r.token].identity = identityOf[r.client] /\ sessions'[r.token].policyKind = kindOf[r.client]
  <2>1. r.client \in Clients /\ r.token \in Tokens /\ Owned(r.token, r.client)
    BY <1>3, Zenon DEF Carried, HandoverInv, TokensOwned
  <2> QED
    BY <1>5, <1>7, <2>1
<1>8. TokensOwned'
  BY <1>6, <1>7 DEF TokensOwned, Owned
<1> QED
  BY <1>4, <1>8 DEF HandoverInv

LEMMA InitHandover == Init => HandoverInv
<1> SUFFICES ASSUME Init PROVE HandoverInv
  OBVIOUS
<1>1. TableOK(sessions)
  BY InitInv, InvTable DEF Init
<1>2. TokensOK
  BY Zenon DEF Init, TokensOK
<1>3. TokensOwned
  BY NoTokenAssumption DEF Init, NewSessionStore, TokensOwned, Owned
<1> QED
  BY <1>1, <1>2, <1>3 DEF HandoverInv

LEMMA AcceptedStep ==
  ASSUME HandoverInv, NEW c \in Clients, HandshakeAccepted(c)
  PROVE  HandoverInv'
<1>1. PICK t : /\ Fresh(t)
               /\ CreateSession(identityOf[c], kindOf[c], t)
               /\ reply' = reply \/ reply' = [reply EXCEPT ![c] = t]
  BY DEF HandshakeAccepted
<1>2. UNCHANGED <<token, releases>>
  BY Zenon DEF HandshakeAccepted
<1>3. /\ t \in Tokens /\ t # NoToken
      /\ t \notin DOMAIN sessions
      /\ \A d \in Clients : t # token[d] /\ t # reply[d]
      /\ \A r \in releases : t # r.token
  BY <1>1, NoTokenAssumption, Zenon DEF Fresh
<1>4. /\ TableOK(sessions')
      /\ t \in DOMAIN sessions'
      /\ sessions'[t].identity = identityOf[c] /\ sessions'[t].policyKind = kindOf[c]
      /\ \A u \in DOMAIN sessions' \ {t} : u \in DOMAIN sessions /\ sessions'[u] = sessions[u]
  BY <1>1, <1>3, ClientsAssumption, CreateKeeps, Zenon DEF HandoverInv
<1>5. TokensOK'
  BY <1>1, <1>2, <1>3, Zenon DEF HandoverInv, TokensOK
<1>6. \A d \in Clients : reply'[d] = reply[d] \/ (d = c /\ reply'[d] = t)
  BY <1>1 DEF HandoverInv, TokensOK
<1>7. ASSUME NEW u, NEW d, u # t, Owned(u, d)
      PROVE  u \in DOMAIN sessions' =>
                sessions'[u].identity = identityOf[d] /\ sessions'[u].policyKind = kindOf[d]
  BY <1>4, <1>7, Zenon DEF Owned
<1>8. ASSUME NEW d \in Clients PROVE Owned(token[d], d)' /\ Owned(reply[d], d)'
  <2>1. token[d] # t /\ reply[d] # t /\ Owned(token[d], d) /\ Owned(reply[d], d)
    BY <1>3, Zenon DEF HandoverInv, TokensOwned
  <2>2. Owned(token[d], d)'
    BY <1>2, <1>7, <2>1, Zenon DEF Owned
  <2>3. CASE reply'[d] = reply[d]
    <3>1. Owned(reply[d], d)'
      BY <1>7, <2>1, <2>3 DEF Owned
    <3> QED BY <2>2, <3>1, Zenon
  <2>4. CASE d = c /\ reply'[d] = t
    <3>1. Owned(reply[d], d)'
      BY <1>4, <2>4, Zenon DEF Owned
    <3> QED BY <2>2, <3>1
  <2> QED
    BY <1>6, <2>3, <2>4, Zenon
<1>9. ASSUME NEW r \in releases PROVE Owned(r.token, r.client)'
  <2>1. r.token # t /\ Owned(r.token, r.client)
    BY <1>3, Zenon DEF HandoverInv, TokensOwned
  <2> QED
    BY <1>7, <2>1, Zenon DEF Owned
<1>10. TokensOwned'
  BY <1>2, <1>8, <1>9 DEF TokensOwned
<1> QED
  BY <1>4, <1>5, <1>10, Zenon DEF HandoverInv

\* Steps that leave the tokens where they are.
LEMMA StillStep ==
  ASSUME HandoverInv, TableOK(sessions'), SameOwners, UNCHANGED <<token, reply, releases>>
  PROVE  HandoverInv'
<1>1. Carried
  BY DEF Carried, HandoverInv, TokensOK
<1> QED
  BY <1>1, CarriedStep

LEMMA OperatorStep ==
  ASSUME HandoverInv,
         OperatorStart \/ OperatorCrash \/ Tick \/ Reap \/ WarmupElapses \/ UNCHANGED vars
  PROVE  HandoverInv'
<1>1. CASE OperatorStart
  BY <1>1, StillStep DEF OperatorStart, HandoverInv, SameOwners
<1>2. CASE OperatorCrash
  <2>1. TableOK(sessions') /\ SameOwners
    BY <1>2, DropKeeps, Zenon DEF OperatorCrash, HandoverInv
  <2>2. Carried
    BY <1>2, ZenonT(40) DEF OperatorCrash, Carried
  <2> QED
    BY <2>1, <2>2, CarriedStep, Zenon
<1>3. CASE Tick \/ Reap \/ WarmupElapses \/ UNCHANGED vars
  <2>1. TableOK(sessions') /\ SameOwners
    BY <1>3, StoreKeeps, Zenon DEF Tick, Reap, WarmupElapses, vars, HandoverInv
  <2> QED
    BY <1>3, <2>1, StillStep DEF Tick, Reap, WarmupElapses, vars, clientVars
<1> QED
  BY <1>1, <1>2, <1>3, Zenon

LEMMA ClientStep ==
  ASSUME HandoverInv, NEW c \in Clients,
         \/ SendHandshake(c) \/ HandshakeTimeout(c)
         \/ Admit(c) \/ RejectInWarmup(c) \/ authenticateStandaloneFails(c)
         \/ HandshakeRejected(c) \/ HandshakeReply(c)
         \/ SendPing(c) \/ PingValidated(c) \/ PingTouched(c)
         \/ PingUnauthenticated(c) \/ PingFails(c)
         \/ Resubscribe(c)
         \/ shutdown(c) \/ Crash(c) \/ Restart(c)
  PROVE  HandoverInv'
<1>0. /\ TableOK(sessions)
      /\ token \in [Clients -> Tokens \cup {NoToken}]
      /\ reply \in [Clients -> Tokens \cup {NoToken}]
      /\ releases \subseteq Releases
  BY Zenon DEF HandoverInv, TokensOK
<1>1. CASE \/ SendHandshake(c) \/ Admit(c) \/ RejectInWarmup(c) \/ authenticateStandaloneFails(c)
           \/ SendPing(c) \/ PingValidated(c) \/ PingUnauthenticated(c) \/ PingFails(c) \/ Restart(c)
  <2>1. UNCHANGED <<storeVars, token, reply, releases>>
    BY <1>1, Zenon DEF SendHandshake, Admit, RejectInWarmup, authenticateStandaloneFails, SendPing,
                PingValidated, PingUnauthenticated, PingFails, Restart
  <2> QED
    BY <1>0, <2>1, StoreKeeps, StillStep
<1>2. CASE HandshakeRejected(c) \/ PingTouched(c)
  <2>1. TableOK(sessions') /\ SameOwners
    BY <1>0, <1>2, StoreKeeps, Zenon DEF HandshakeRejected, PingTouched
  <2> QED
    BY <1>2, <2>1, StillStep, Zenon DEF HandshakeRejected, PingTouched
<1>3. CASE Resubscribe(c)
  <2>1. TableOK(sessions') /\ SameOwners
    BY <1>0, <1>3, StoreKeeps, Zenon DEF Resubscribe
  <2>2. Carried
    BY <1>0, <1>3, Zenon DEF Resubscribe, Carried
  <2> QED
    BY <2>1, <2>2, CarriedStep, Zenon
<1>4. CASE HandshakeTimeout(c) \/ HandshakeReply(c)
  <2>1. TableOK(sessions') /\ SameOwners
    BY <1>0, <1>4, StoreKeeps DEF HandshakeTimeout, HandshakeReply
  <2>2. Carried
    <3>1. CASE HandshakeTimeout(c)
      BY <1>0, <3>1, Zenon DEF HandshakeTimeout, NoCall, Carried
    <3>2. CASE HandshakeReply(c)
      BY <1>0, <3>2, Zenon DEF HandshakeReply, NoCall, Carried
    <3> QED BY <1>4, <3>1, <3>2
  <2> QED
    BY <2>1, <2>2, CarriedStep
<1>5. CASE shutdown(c) \/ Crash(c)
  <2>1. ProcessGone(c)
    BY <1>5, Zenon DEF shutdown, Crash
  <2>2. TableOK(sessions') /\ SameOwners
    BY <1>0, <2>1, StoreKeeps, Zenon DEF ProcessGone
  <2>3. \A r \in releases' : r \in releases \/ (r \in Releases /\ r.client = c /\ r.token = token[c])
    BY <1>0, <1>5 DEF shutdown, Crash, Releases, Stages
  <2>4. Carried
    BY <1>0, <2>1, <2>3, Zenon DEF ProcessGone, NoCall, Carried
  <2> QED
    BY <2>2, <2>4, CarriedStep
<1> QED
  BY <1>1, <1>2, <1>3, <1>4, <1>5, Zenon

LEMMA ReleasingStep ==
  ASSUME HandoverInv, NEW r \in releases, ReleaseStep(r)
  PROVE  HandoverInv'
<1>1. TableOK(sessions') /\ SameOwners
  BY StoreKeeps DEF ReleaseStep, ReleaseValidated, ReleaseTouched, ReleaseRevokes, HandoverInv
<1>2. \A q \in releases' :
        q \in releases \/ (q \in Releases /\ q.client = r.client /\ q.token = r.token)
  <2>1. r \in Releases
    BY DEF HandoverInv, TokensOK
  <2>2. ASSUME NEW stage \in Stages
        PROVE  LET q == [r EXCEPT !.stage = stage]
               IN  q \in Releases /\ q.client = r.client /\ q.token = r.token
    BY <2>1 DEF Releases
  <2>3. "validated" \in Stages /\ "touched" \in Stages
    BY DEF Stages
  <2> QED
    BY <2>2, <2>3, Zenon DEF ReleaseStep, ReleaseValidated, ReleaseTouched, ReleaseRevokes
<1>3. UNCHANGED <<token, reply>>
  BY Zenon DEF ReleaseStep, ReleaseValidated, ReleaseTouched, ReleaseRevokes, clientVars
<1>4. Carried
  BY <1>2, <1>3, Zenon DEF Carried, HandoverInv, TokensOK
<1> QED
  BY <1>1, <1>4, CarriedStep

LEMMA StepHandover == HandoverInv /\ [Next]_vars => HandoverInv'
BY OperatorStep, AcceptedStep, ClientStep, ReleasingStep DEF Next

(***************************************************************************)
(* The identity behind a token is the caller's own, whatever processes and *)
(* the operator crashed and came back in between.                          *)
(***************************************************************************)
THEOREM TokensAreOwn == Spec => []TokensOwned
<1>1. HandoverInv => TokensOwned
  BY Zenon DEF HandoverInv
<1> QED
  BY <1>1, InitHandover, StepHandover, PTL DEF Spec

(***************************************************************************)
(* Two processes never both hold a session of the same policy kind.        *)
(***************************************************************************)
THEOREM OneServer == Spec => []OneServerPerKind
<1>1. HandoverInv => OneServerPerKind
  BY NoTokenAssumption
  DEF HandoverInv, TableOK, TokensOK, OneServerPerKind, HoldsSession, ValidateSession
<1> QED
  BY <1>1, InitHandover, StepHandover, PTL DEF Spec
=============================================================================
