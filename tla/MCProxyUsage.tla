---------------------------- MODULE MCProxyUsage ----------------------------
(* Instances of ProxyUsage for TLC: a response of each provider, of a dated *)
(* model and of one that has no price.                                      *)
EXTENDS ProxyUsage, TLC

CONSTANTS r1, r2

MCScript ==
  r1 :> <<[type |-> "start", out |-> 1], [type |-> "delta", out |-> 0], [type |-> "delta", out |-> 2]>>
  @@ r2 :> <<[type |-> "chunk", out |-> 0], [type |-> "usage", out |-> 1]>>

MCModel  == r1 :> <<"claude", "x", "2026">> @@ r2 :> <<"gpt", "y">>
MCPrices == <<"claude", "x">> :> 1 @@ <<"claude">> :> 5
=============================================================================
