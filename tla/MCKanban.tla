------------------------------- MODULE MCKanban -------------------------------
(* Instances of Kanban for TLC. *)
EXTENDS Kanban, TLC

\* Requests are interchangeable, and so are the columns.
Simetria == Permutations(Reqs) \cup Permutations(Colunas)
=============================================================================
