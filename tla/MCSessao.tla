------------------------------- MODULE MCSessao -------------------------------
(* Instances of Sessao for TLC. *)
EXTENDS Sessao, TLC

\* Tabs, users and the slots of calls are interchangeable in the safety run.
Simetria == Permutations(Abas) \cup Permutations(Usuarios)
            \cup Permutations(Chamadas \ Renovadoras)
=============================================================================
