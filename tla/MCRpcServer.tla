---------------------------- MODULE MCRpcServer ----------------------------
(***************************************************************************)
(* Model-checking instances of RpcServer: one payload of each effect.      *)
(***************************************************************************)
EXTENDS RpcServer

CONSTANTS a, b, inspect, apply, trigger

MCEffectOf ==
  [p \in Payloads |-> CASE p = inspect -> "read"
                       [] p = apply   -> "durable"
                       [] p = trigger -> "ephemeral"]
=============================================================================
