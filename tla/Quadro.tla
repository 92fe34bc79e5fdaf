-------------------------------- MODULE Quadro --------------------------------
(***************************************************************************)
(* What a kanban board promises: every column is a list of tasks.  A task  *)
(* is put somewhere in a list, taken out, or moved to a place in the same  *)
(* or another list; the others stay where they are, in the order they are  *)
(* in.  No position numbers, no rows, no transactions.                     *)
(***************************************************************************)
CONSTANTS
    Colunas,       \* the columns of the board
    Tarefas        \* the ids of tasks

VARIABLES
    coluna,        \* the column of each task on the board
    antes          \* the pairs of tasks of one column, the upper one first

quadro == << coluna, antes >>

NoQuadro == DOMAIN coluna

\* antes puts the tasks of every column in a list.
Lista ==
    /\ antes \subseteq NoQuadro \X NoQuadro
    /\ \A t, u \in NoQuadro :
          /\ << t, u >> \in antes => t # u /\ coluna[t] = coluna[u]
          /\ t # u /\ coluna[t] = coluna[u] =>
                (<< t, u >> \in antes <=> << u, t >> \notin antes)
    /\ \A t, u, v \in NoQuadro :
          << t, u >> \in antes /\ << u, v >> \in antes => << t, v >> \in antes

Init ==
    /\ coluna = [t \in {} |-> {}]
    /\ antes = {}

\* After a step that is about task t the columns are lists still, and the others are in
\* the order they were in.
SoReordena(t) ==
    /\ Lista'
    /\ \A u, v \in Tarefas \ {t} : << u, v >> \in antes' <=> << u, v >> \in antes

Por(t, c) ==
    /\ coluna' = [u \in NoQuadro \cup {t} |-> IF u = t THEN c ELSE coluna[u]]
    /\ SoReordena(t)

Colocar(t, c) == t \notin NoQuadro /\ Por(t, c)

Mover(t, c) == t \in NoQuadro /\ Por(t, c)

Retirar(t) ==
    /\ t \in NoQuadro
    /\ coluna' = [u \in NoQuadro \ {t} |-> coluna[u]]
    /\ SoReordena(t)

Next ==
    \E t \in Tarefas :
       \/ Retirar(t)
       \/ \E c \in Colunas : Colocar(t, c) \/ Mover(t, c)

Spec == Init /\ [][Next]_quadro
=============================================================================
