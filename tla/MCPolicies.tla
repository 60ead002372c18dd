----------------------------- MODULE MCPolicies -----------------------------
(***************************************************************************)
(* The DNS and the TLS workflow for TLC.                                   *)
(***************************************************************************)
EXTENDS Policies

CONSTANTS l1, l2, i1, i2

ForGateway(lb, ex) == [target |-> "gateway", lb |-> lb, exclude |-> ex]

MCDNSInitial == {ForGateway("simple", "none")}

MCDNSSpecs == MCDNSInitial \cup
    {ForGateway("weight1", "none"), ForGateway("simple", "malformed"),
     [target |-> l1, lb |-> "weight2", exclude |-> "none"],
     [target |-> l2, lb |-> "simple", exclude |-> "all"]}

MCTLSSpecs == {[target |-> "gateway", issuer |-> i1], [target |-> "gateway", issuer |-> i2],
               [target |-> l1, issuer |-> i2]}

MCTLSBlocks == {<<>>, <<"secret1">>, <<"secret1", "secret2">>}

MCTLSFirstBlock == <<"secret1">>

=============================================================================
