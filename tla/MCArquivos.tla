------------------------------ MODULE MCArquivos ------------------------------
(***************************************************************************)
(* The files and what is kept beside them, for TLC: the shelves with their *)
(* storage and index (Pastas), and the backups (Copias), which have the    *)
(* tables and uploads/ as wholes.  What a restore does to the rows of one  *)
(* shelf is not modelled: a behaviour is of one part or of the other.      *)
(***************************************************************************)
EXTENDS Pastas, Copias, TLC

VARIABLE parte

varsArquivos == << varsPastas, varsCopias, parte >>

DuasPastas == 1 .. 2

Simetria == Permutations(Reqs) \cup Permutations(Operacoes)

\* The part that has no steps starts in one of its initial states.
Init ==
    /\ InitPastas /\ InitCopias
    /\ \/ parte = "pastas" /\ uploads = {} /\ \A n \in Nomes : ~Ha(n)
       \/ parte = "copias" /\ pastas = [p \in Ids |-> Ausente]

Next ==
    \/ parte = "pastas" /\ NextPastas /\ UNCHANGED << varsCopias, parte >>
    \/ parte = "copias" /\ NextCopias /\ UNCHANGED << varsPastas, parte >>

Spec == Init /\ [][Next]_varsArquivos

\* The variables of either part have their types.
TypeOK == PastasTypeOK /\ CopiasTypeOK
=============================================================================
