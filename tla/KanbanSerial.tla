----------------------------- MODULE KanbanSerial -----------------------------
(***************************************************************************)
(* Kanban implements the board of Quadro when its requests do not overlap  *)
(* and no PATCH carries a position.                                        *)
(***************************************************************************)
EXTENDS Kanban

UmaRequisicao == \E r \in Reqs : Reqs = {r}

Presentes == { i \in Ids : Presente(i) }

\* The order in which the listings sort a column: ORDER BY coluna_id, ordem.
Antes ==
    { p \in Presentes \X Presentes :
         /\ tarefas[p[1]].coluna = tarefas[p[2]].coluna
         /\ tarefas[p[1]].ordem < tarefas[p[2]].ordem }

Listas == INSTANCE Quadro
    WITH Tarefas <- Ids, coluna <- [i \in Presentes |-> tarefas[i].coluna], antes <- Antes

\* One after the other, the requests treat the positions as a list: a shift by one
\* of the right rows, and only them, is an insertion or a removal.
ImplementaQuadro == Listas!Spec
=============================================================================
