------------------------------ MODULE MCWebhooks ------------------------------
(***************************************************************************)
(* A small instance of Webhooks for TLC: the registering process with its  *)
(* timeout, one callback and a cancellation, another process with a        *)
(* duplicate of the callback.                                              *)
(***************************************************************************)
EXTENDS Webhooks

ProcOfDef == [recv1 |-> "home", recv2 |-> "other", cancel |-> "home", timeout |-> "home"]
=============================================================================
