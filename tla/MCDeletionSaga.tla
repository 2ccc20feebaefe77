-------------------------- MODULE MCDeletionSaga --------------------------
(* Two services that keep resources of projects; an account deletion waits *)
(* for the first of them only, as in the code.                             *)
EXTENDS DeletionSaga, TLC

CONSTANTS p1, d1, s1, s2

MCOrder == <<"NodeService", "DataService">>
MCUser == {"ProjectService", "AIModelService"}
MCWaits == {"NodeService"}

Symmetry == Permutations(SagaIds)
=============================================================================
