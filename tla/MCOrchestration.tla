-------------------------- MODULE MCOrchestration --------------------------
(* Two handlers of domain events and the job of pending notifications at a   *)
(* time, a customer whom a message can reach, a list of one message.          *)
EXTENDS Orchestration, TLC

CONSTANTS handler1, handler2

Symmetry == Permutations({handler1, handler2})

MCPhoneBooks == {{"customer"}}
=============================================================================
