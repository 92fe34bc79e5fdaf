------------------------------ MODULE MCNugecid ------------------------------
(* Instances of Nugecid for TLC. *)
EXTENDS Nugecid, TLC

CONSTANTS adm, ana, bia

MCUsuarios == { adm, ana, bia }
\* bia is an OPERADOR: privileged for a change of status, but she reaches only the
\* records she created or is responsible for.
MCRoleOf == (adm :> "ADMIN") @@ (ana :> "USUARIO") @@ (bia :> "OPERADOR")

Dto(s, resp, sag, dev) ==
    [ status |-> s, responsavel |-> resp, sag |-> sag, devolucao |-> dev ]
N == NaoInformado

\* Concurrent instance: a body that leaves the status alone, an assignment, a
\* correction of the status back into the flow and the two ways to finish.
DtosConcorrentes ==
    { Dto(N, N, N, N), Dto(N, bia, N, N), Dto("DESARQUIVADO", N, N, N),
      Dto("FINALIZADO", N, N, N) }
FormulariosConcorrentes == { [responsavel |-> Nulo, sag |-> Nulo, devolucao |-> Nulo] }
PlanilhaConcorrente ==
    { [status |-> "NAO_LOCALIZADO", sag |-> Nulo, devolucao |-> Nulo] }
=============================================================================
