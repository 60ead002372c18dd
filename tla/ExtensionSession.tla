-------------------------- MODULE ExtensionSession --------------------------
(***************************************************************************)
(* Extension processes and the operator's gRPC handlers around the session *)
(* store: handshake (manager.go), the authenticating interceptor           *)
(* (interceptor.go), the heartbeat and the supervision loop of the SDK     *)
(* (pkg/extension/controller/controller.go, client.go).                    *)
(*                                                                         *)
(* A handler is one action per critical section of the store it enters.    *)
(* Calls may outlive the caller's timeout, replies may be lost, processes  *)
(* and the operator may crash and come back. The operator keeps sessions   *)
(* in memory only.                                                         *)
(*                                                                         *)
(* Time passes in ticks. A caller gives up on a handshake RT ticks after   *)
(* it sent it and sends a heartbeat every HB ticks; the tick waits for a   *)
(* heartbeat or a timeout that is due.                                     *)
(***************************************************************************)
EXTENDS SessionStore, FiniteSets

CONSTANTS Clients,      \* extension processes
          identityOf,   \* the name or Kubernetes user a process authenticates as
          kindOf,       \* the policy kind it serves
          HB,           \* heartbeat interval
          RT,           \* handshake timeout
          NoToken,      \* no session token
          MaxFaults     \* bound: crashes, stops and lost or failed calls

ASSUME ClientsAssumption == /\ identityOf \in [Clients -> Identities]
                            /\ kindOf \in [Clients -> Kinds]
ASSUME PeriodsAssumption == HB \in Nat \ {0} /\ RT \in Nat
ASSUME NoTokenAssumption == NoToken \notin Tokens

VARIABLES up,        \* the operator serves the extension API
          phase,     \* what the supervision loop of a process is doing
          token,     \* the token its calls carry
          call,      \* the handshake it waits for
          reply,     \* the token granted to that handshake, on its way back
          callAge,   \* ticks since it was sent
          stray,     \* handshakes whose caller has gone: <<client, stage>>
          ping,      \* its current heartbeat
          beat,      \* ticks since the heartbeat ticker fired
          missed,    \* heartbeats sent since one last succeeded, up to 2
          releases,  \* ReleaseSession calls in progress
          faults

clientVars == <<phase, token, call, reply, callAge, ping, beat, missed>>
vars == <<storeVars, clientVars, up, stray, releases, faults>>

Builtin(c) == identityOf[c] \in Builtins
Running(c) == phase[c] # "down"

Fault == faults < MaxFaults /\ faults' = faults + 1

(***************************************************************************)
(* Tokens are 32 random bytes: a new one is not one in use anywhere.       *)
(***************************************************************************)
Fresh(t) == /\ t \in Tokens
            /\ t \notin DOMAIN sessions
            /\ \A c \in Clients : t # token[c] /\ t # reply[c]
            /\ \A r \in releases : t # r.token

newToken == CHOOSE t \in Tokens : Fresh(t)

Init == /\ NewSessionStore
        /\ up = FALSE
        /\ phase = [c \in Clients |-> IF Builtin(c) THEN "down" ELSE "connecting"]
        /\ token = [c \in Clients |-> NoToken]
        /\ call = [c \in Clients |-> "none"]
        /\ reply = [c \in Clients |-> NoToken]
        /\ callAge = [c \in Clients |-> 0]
        /\ stray = {}
        /\ ping = [c \in Clients |-> "idle"]
        /\ beat = [c \in Clients |-> 0]
        /\ missed = [c \in Clients |-> 0]
        /\ releases = {}
        /\ faults = 0
-----------------------------------------------------------------------------
(***************************************************************************)
(* NewManager and Manager.Start: a new store with new credentials, the     *)
(* warmup, the reaper and the server, then the built-in processes, some of *)
(* which may fail to start.                                                *)
(***************************************************************************)
OperatorStart ==
  /\ ~up
  /\ up' = TRUE
  /\ sessions' = sessions
  /\ \E creds \in [Builtins -> Credentials] : credentials' = creds
  /\ builtinNames' = Builtins
  /\ warmupComplete' = (Builtins = {})
  /\ warmupTimer' = (Builtins # {})
  /\ \E started \in SUBSET {c \in Clients : Builtin(c)} :
       phase' = [c \in Clients |-> IF c \in started THEN "connecting" ELSE phase[c]]
  /\ UNCHANGED <<token, call, reply, callAge, ping, beat, missed, stray, releases, faults>>

(***************************************************************************)
(* The operator's container dies: the store, the calls in progress and the *)
(* built-in child processes go with it. Awaited calls end in an error.     *)
(***************************************************************************)
OperatorCrash ==
  /\ up
  /\ Fault
  /\ up' = FALSE
  /\ sessions' = Drop(sessions, DOMAIN sessions)
  /\ credentials' = Drop(credentials, DOMAIN credentials)
  /\ builtinNames' = {}
  /\ warmupComplete' = TRUE
  /\ warmupTimer' = FALSE
  /\ phase' = [c \in Clients |-> IF Builtin(c) THEN "down" ELSE phase[c]]
  /\ token' = [c \in Clients |-> IF Builtin(c) THEN NoToken ELSE token[c]]
  /\ call' = [c \in Clients |-> "none"]
  /\ reply' = [c \in Clients |-> NoToken]
  /\ callAge' = [c \in Clients |-> 0]
  /\ ping' = [c \in Clients |-> "idle"]
  /\ beat' = [c \in Clients |-> IF Builtin(c) THEN 0 ELSE beat[c]]
  /\ missed' = [c \in Clients |-> IF Builtin(c) THEN 0 ELSE missed[c]]
  /\ stray' = {}
  /\ releases' = {}
-----------------------------------------------------------------------------
(***************************************************************************)
(* handshakeWithBackoff and attemptHandshake: the next attempt, after some *)
(* delay.                                                                  *)
(***************************************************************************)
SendHandshake(c) ==
  /\ up
  /\ phase[c] = "connecting"
  /\ call[c] = "none"
  /\ call' = [call EXCEPT ![c] = "sent"]
  /\ UNCHANGED <<storeVars, up, phase, token, reply, callAge, stray, ping, beat, missed, releases, faults>>

(***************************************************************************)
(* The caller's context ends, by timeout or by shutdown. The handler runs  *)
(* on; a reply already on its way is lost.                                 *)
(***************************************************************************)
Abandoned(c) == IF call[c] \in {"sent", "admitted"} THEN {<<c, call[c]>>} ELSE {}

NoCall(c) == /\ call' = [call EXCEPT ![c] = "none"]
             /\ reply' = [reply EXCEPT ![c] = NoToken]
             /\ callAge' = [callAge EXCEPT ![c] = 0]

HandshakeTimeout(c) ==
  /\ call[c] # "none"
  /\ Fault
  /\ stray' = stray \cup Abandoned(c)
  /\ NoCall(c)
  /\ UNCHANGED <<storeVars, up, phase, token, ping, beat, missed, releases>>

(***************************************************************************)
(* Handshake up to CreateSession: a built-in is known by its credential;   *)
(* any other process is turned away during the warmup and then reviewed by *)
(* the Kubernetes API.                                                     *)
(***************************************************************************)
Admissible(c) == Builtin(c) \/ warmupComplete

(* A handshake handler in progress, awaited or not, and its next stage. *)
Handling(c, stage) == call[c] = stage \/ <<c, stage>> \in stray

Advance(c, stage, next) ==
  \/ /\ call[c] = stage
     /\ call' = [call EXCEPT ![c] = next]
     /\ stray' = stray
  \/ /\ <<c, stage>> \in stray
     /\ stray' = (stray \ {<<c, stage>>}) \cup (IF next = "admitted" THEN {<<c, next>>} ELSE {})
     /\ call' = call

Admit(c) ==
  /\ Admissible(c)
  /\ Advance(c, "sent", "admitted")
  /\ UNCHANGED <<storeVars, up, phase, token, reply, callAge, ping, beat, missed, releases, faults>>

RejectInWarmup(c) ==
  /\ ~Admissible(c)
  /\ Advance(c, "sent", "rejected")
  /\ UNCHANGED <<storeVars, up, phase, token, reply, callAge, ping, beat, missed, releases, faults>>

authenticateStandaloneFails(c) ==
  /\ ~Builtin(c)
  /\ Admissible(c)
  /\ Fault
  /\ Advance(c, "sent", "rejected")
  /\ UNCHANGED <<storeVars, up, phase, token, reply, callAge, ping, beat, missed, releases>>

HandshakeAccepted(c) ==
  LET t == newToken IN
  /\ Fresh(t)
  /\ CreateSession(identityOf[c], kindOf[c], t)
  /\ Advance(c, "admitted", "granted")
  /\ reply' = IF call' = call THEN reply ELSE [reply EXCEPT ![c] = t]
  /\ UNCHANGED <<up, phase, token, callAge, ping, beat, missed, releases, faults>>

HandshakeRejected(c) ==
  /\ Handling(c, "admitted")
  /\ \/ ErrAlreadyConnected(identityOf[c], kindOf[c])
     \/ ErrPolicyKindTaken(identityOf[c], kindOf[c])
  /\ Advance(c, "admitted", "rejected")
  /\ UNCHANGED <<up, phase, token, reply, callAge, ping, beat, missed, releases, faults>>

(***************************************************************************)
(* The reply reaches the process: it takes the token, replays its policies *)
(* and starts the heartbeat and the event stream; or it tries again.       *)
(***************************************************************************)
HandshakeReply(c) ==
  /\ call[c] \in {"granted", "rejected"}
  /\ NoCall(c)
  /\ IF call[c] = "granted"
       THEN /\ token' = [token EXCEPT ![c] = reply[c]]
            /\ phase' = [phase EXCEPT ![c] = "streaming"]
       ELSE UNCHANGED <<token, phase>>
  /\ UNCHANGED <<storeVars, up, stray, ping, beat, missed, releases, faults>>
-----------------------------------------------------------------------------
(***************************************************************************)
(* heartbeat: Ping through the interceptor, which validates the token and  *)
(* touches the session in two critical sections. An Unauthenticated answer *)
(* cancels the stream, and the supervision loop starts over.               *)
(***************************************************************************)
StopHeartbeat(c) == /\ ping' = [ping EXCEPT ![c] = "idle"]
                    /\ beat' = [beat EXCEPT ![c] = 0]
                    /\ missed' = [missed EXCEPT ![c] = 0]

SendPing(c) ==
  /\ phase[c] = "streaming"
  /\ beat[c] = HB
  /\ ping[c] = "idle"
  /\ ping' = [ping EXCEPT ![c] = "sent"]
  /\ beat' = [beat EXCEPT ![c] = 0]
  /\ missed' = [missed EXCEPT ![c] = IF @ < 2 THEN @ + 1 ELSE @]
  /\ UNCHANGED <<storeVars, up, phase, token, call, reply, callAge, stray, releases, faults>>

PingValidated(c) ==
  /\ up
  /\ ping[c] = "sent"
  /\ ValidateSession(token[c])
  /\ ping' = [ping EXCEPT ![c] = "validated"]
  /\ UNCHANGED <<storeVars, up, phase, token, call, reply, callAge, stray, beat, missed, releases, faults>>

PingTouched(c) ==
  /\ ping[c] = "validated"
  /\ Touch(token[c])
  /\ ping' = [ping EXCEPT ![c] = "idle"]
  /\ missed' = [missed EXCEPT ![c] = 0]
  /\ UNCHANGED <<up, phase, token, call, reply, callAge, stray, beat, releases, faults>>

PingUnauthenticated(c) ==
  /\ up
  /\ ping[c] = "sent"
  /\ ~ValidateSession(token[c])
  /\ StopHeartbeat(c)
  /\ phase' = [phase EXCEPT ![c] = "connecting"]
  /\ UNCHANGED <<storeVars, up, token, call, reply, callAge, stray, releases, faults>>

PingFails(c) ==
  /\ ping[c] \in {"sent", "validated"}
  /\ \/ Fault
     \/ ~up /\ UNCHANGED faults
  /\ ping' = [ping EXCEPT ![c] = "idle"]
  /\ UNCHANGED <<storeVars, up, phase, token, call, reply, callAge, stray, beat, missed, releases>>

(***************************************************************************)
(* streamSession: a stream that ended is opened again on the same session; *)
(* an Unauthenticated answer ends the session on this side.                *)
(***************************************************************************)
Resubscribe(c) ==
  /\ up
  /\ phase[c] = "streaming"
  /\ IF ValidateSession(token[c])
       THEN /\ Touch(token[c])
            /\ UNCHANGED <<token, phase, ping, beat, missed>>
       ELSE /\ token' = [token EXCEPT ![c] = NoToken]
            /\ phase' = [phase EXCEPT ![c] = "connecting"]
            /\ StopHeartbeat(c)
            /\ UNCHANGED storeVars
  /\ UNCHANGED <<up, call, reply, callAge, stray, releases, faults>>
-----------------------------------------------------------------------------
(***************************************************************************)
(* The process ends. On an orderly stop, shutdown() first calls            *)
(* ReleaseSession with whatever token the process holds.                   *)
(***************************************************************************)
ProcessGone(c) ==
  /\ Running(c)
  /\ Fault
  /\ phase' = [phase EXCEPT ![c] = "down"]
  /\ token' = [token EXCEPT ![c] = NoToken]
  /\ stray' = stray \cup Abandoned(c)
  /\ NoCall(c)
  /\ StopHeartbeat(c)
  /\ UNCHANGED <<storeVars, up>>

shutdown(c) ==
  /\ ProcessGone(c)
  /\ releases' = IF up /\ token[c] # NoToken
                   THEN releases \cup {[client |-> c, token |-> token[c], stage |-> "sent"]}
                   ELSE releases

Crash(c) == ProcessGone(c) /\ UNCHANGED releases

(* Kubernetes restarts a standalone extension; nothing restarts a built-in. *)
Restart(c) ==
  /\ phase[c] = "down"
  /\ ~Builtin(c)
  /\ phase' = [phase EXCEPT ![c] = "connecting"]
  /\ UNCHANGED <<storeVars, up, token, call, reply, callAge, stray, ping, beat, missed, releases, faults>>

(***************************************************************************)
(* ReleaseSession: the interceptor validates the token, then touches the   *)
(* session; the handler revokes by the identity the validation returned.   *)
(***************************************************************************)
ReleaseValidated(r) ==
  /\ r.stage = "sent"
  /\ releases' = (releases \ {r}) \cup
                   (IF ValidateSession(r.token) THEN {[r EXCEPT !.stage = "validated"]} ELSE {})
  /\ UNCHANGED <<storeVars, clientVars, up, stray, faults>>

ReleaseTouched(r) ==
  /\ r.stage = "validated"
  /\ Touch(r.token)
  /\ releases' = (releases \ {r}) \cup {[r EXCEPT !.stage = "touched"]}
  /\ UNCHANGED <<clientVars, up, stray, faults>>

ReleaseRevokes(r) ==
  /\ r.stage = "touched"
  /\ RevokeByName(identityOf[r.client])
  /\ releases' = releases \ {r}
  /\ UNCHANGED <<clientVars, up, stray, faults>>
-----------------------------------------------------------------------------
(***************************************************************************)
(* The clock: heartbeats and timeouts that are due come first.             *)
(***************************************************************************)
Tick ==
  /\ \A c \in Clients : phase[c] = "streaming" => beat[c] < HB
  /\ \A c \in Clients : call[c] # "none" => callAge[c] < RT
  /\ ClockTick
  /\ beat' = [c \in Clients |-> IF phase[c] = "streaming" THEN beat[c] + 1 ELSE beat[c]]
  /\ callAge' = [c \in Clients |-> IF call[c] # "none" THEN callAge[c] + 1 ELSE callAge[c]]
  /\ UNCHANGED <<up, phase, token, call, reply, stray, ping, missed, releases, faults>>

Reap == up /\ ReapStale /\ UNCHANGED <<clientVars, up, stray, releases, faults>>

WarmupElapses == WarmupTimeout /\ UNCHANGED <<clientVars, up, stray, releases, faults>>

ReleaseStep(r) == ReleaseValidated(r) \/ ReleaseTouched(r) \/ ReleaseRevokes(r)

Next ==
  \/ OperatorStart
  \/ OperatorCrash
  \/ Tick
  \/ Reap
  \/ WarmupElapses
  \/ \E c \in Clients :
       \/ SendHandshake(c) \/ HandshakeTimeout(c)
       \/ Admit(c) \/ RejectInWarmup(c) \/ authenticateStandaloneFails(c)
       \/ HandshakeAccepted(c) \/ HandshakeRejected(c) \/ HandshakeReply(c)
       \/ SendPing(c) \/ PingValidated(c) \/ PingTouched(c)
       \/ PingUnauthenticated(c) \/ PingFails(c)
       \/ Resubscribe(c)
       \/ shutdown(c) \/ Crash(c) \/ Restart(c)
  \/ \E r \in releases : ReleaseStep(r)

Spec == Init /\ [][Next]_vars

(***************************************************************************)
(* Fairness: goroutines and tickers run, calls that are not lost complete, *)
(* Kubernetes restarts the operator and standalone extensions. Nothing is  *)
(* assumed of faults, of stream errors or of who wins a race.              *)
(***************************************************************************)
Fairness ==
  /\ WF_vars(OperatorStart) /\ WF_vars(Tick) /\ WF_vars(Reap) /\ WF_vars(WarmupElapses)
  /\ WF_vars(\E r \in releases : ReleaseStep(r))
  /\ \A c \in Clients :
       /\ WF_vars(SendHandshake(c))
       /\ WF_vars(Admit(c) \/ RejectInWarmup(c))
       /\ WF_vars(HandshakeAccepted(c) \/ HandshakeRejected(c))
       /\ WF_vars(HandshakeReply(c))
       /\ WF_vars(SendPing(c))
       /\ WF_vars(PingValidated(c) \/ PingUnauthenticated(c))
       /\ WF_vars(PingTouched(c))
       /\ WF_vars(Restart(c))

FairSpec == Spec /\ Fairness
-----------------------------------------------------------------------------
HoldsSession(c, k) == ValidateSession(token[c]) /\ sessions[token[c]].policyKind = k

(***************************************************************************)
(* At no time can two processes make calls that the interceptor accepts    *)
(* for the same policy kind, whatever crashes, lost replies, takeovers and *)
(* releases came before.                                                   *)
(***************************************************************************)
OneServerPerKind ==
  \A c, d \in Clients, k \in Kinds : HoldsSession(c, k) /\ HoldsSession(d, k) => c = d

(***************************************************************************)
(* A policy kind some process keeps asking for is eventually served, after *)
(* any bounded number of crashes, lost calls and operator restarts.        *)
(***************************************************************************)
KindServed ==
  \A k \in Kinds :
    (\E c \in Clients : kindOf[c] = k /\ Running(c)) ~> (\E c \in Clients : HoldsSession(c, k))

(***************************************************************************)
(* "Release the caller's own session" (kuadrant.proto, ReleaseSession): a  *)
(* release ends no session but the one whose token the caller presented.   *)
(***************************************************************************)
ReleaseEndsOwnSession ==
  [][\A r \in releases : ReleaseRevokes(r) => DOMAIN sessions \ DOMAIN sessions' \subseteq {r.token}]_vars
=============================================================================
