------------------------------ MODULE MCProjeto ------------------------------
(* Instances of Projeto for TLC. *)
EXTENDS Projeto, TLC

CONSTANTS c1, c2

DuasColunas == c1 :> 1 @@ c2 :> 2
Simetria == Permutations(Reqs) \cup Permutations(Tarefas) \cup Permutations(Pessoas)
            \cup Permutations(Colunas \ DOMAIN Padrao)
=============================================================================
