------------------------- MODULE MCExtensionSession -------------------------
(***************************************************************************)
(* A built-in b and a standalone extension p that want the same policy     *)
(* kind, or two pods p, q of one standalone deployment during a rolling    *)
(* update. One tick is 15 s: TTL 45 s and heartbeat 15 s are the code's    *)
(* defaults; a handshake may take 15 s, longer than its timeout of 10 s.   *)
(***************************************************************************)
EXTENDS ExtensionSession

CONSTANTS b, p, q, b1, s1, k1

MCidentityOf == [c \in Clients |-> IF c = b THEN b1 ELSE s1]
MCkindOf == [c \in Clients |-> k1]
=============================================================================
