------------------------------- MODULE MCContas -------------------------------
(***************************************************************************)
(* Who may log in, for TLC: the accounts (Contas) and the blocked          *)
(* addresses (Bloqueios).  Neither part reads or writes what the other     *)
(* keeps, so that their interleavings would show nothing: a behaviour is   *)
(* of one part or of the other.                                            *)
(***************************************************************************)
EXTENDS Contas, Bloqueios, TLC

VARIABLE parte

varsEntrada == << vars, varsBloqueios, parte >>

InitEntrada == Init /\ InitBloqueios /\ parte \in {"contas", "bloqueios"}

NextEntrada ==
    \/ parte = "contas" /\ Next /\ UNCHANGED << varsBloqueios, parte >>
    \/ parte = "bloqueios" /\ NextBloqueios /\ UNCHANGED << vars, parte >>

SpecEntrada == InitEntrada /\ [][NextEntrada]_varsEntrada

\* The variables of either part have their types.
TiposOK == TypeOK /\ BloqueiosTypeOK

\* Requests are interchangeable, and so are passwords.
Simetria == Permutations(Reqs) \cup Permutations(Senhas) \cup Permutations(Verificacoes)
=============================================================================
