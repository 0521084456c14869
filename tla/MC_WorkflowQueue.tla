--------------------------- MODULE MC_WorkflowQueue ---------------------------
(***************************************************************************)
(* Small consumer groups; the consumers and the timers are interchange-    *)
(* able.                                                                   *)
(***************************************************************************)
EXTENDS WorkflowQueue, TLC

\* Every event has an id of its own (a response, an alert); or two events carry
\* the id of one entity.
OwnField == [e \in NaturalEvents |-> e]
SharedField == [e \in NaturalEvents |-> CHOOSE x \in NaturalEvents : TRUE]

QueueSymmetry == Permutations(Consumers) \union Permutations(Timers)
=============================================================================
