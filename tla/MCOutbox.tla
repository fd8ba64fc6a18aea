------------------------------- MODULE MCOutbox -------------------------------
(***************************************************************************)
(* Small instances of Outbox.                                              *)
(***************************************************************************)
EXTENDS Outbox

(* A world in which nothing fails any more and nobody is unreachable.      *)
Calmo == <>[][/\ broker'
              /\ \A t \in Tarefas : ~(TaskDies(t) \/ SendTransient(t)
                                      \/ SoftTimeLimit(t))
              /\ \A e \in Eventos : ~EmitterDies(e)]_vars

CalmSpec == FairSpec /\ Calmo
=============================================================================
