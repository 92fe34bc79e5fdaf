---------------------------- MODULE MCKanbanSerial ----------------------------
(* KanbanSerial for TLC: the .cfg gives every constant its value. *)
EXTENDS KanbanSerial

ASSUME UmaRequisicaoAssumption == UmaRequisicao
=============================================================================
