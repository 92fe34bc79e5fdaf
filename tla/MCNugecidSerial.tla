--------------------------- MODULE MCNugecidSerial ---------------------------
(* An instance of Nugecid with one request at a time, for TLC. *)
EXTENDS NugecidSerial, TLC

ASSUME UmaRequisicaoAssumption == UmaRequisicao

CONSTANTS adm, ana, bia

MCUsuarios == { adm, ana, bia }
MCRoleOf == (adm :> "ADMIN") @@ (ana :> "USUARIO") @@ (bia :> "OPERADOR")

Dto(s, resp, dev) ==
    [ status |-> s, responsavel |-> resp, sag |-> NaoInformado, devolucao |-> dev ]

\* Every status, naming nobody, and an assignment alone and with a status.
DtosSeriais ==
    { Dto(s, NaoInformado, NaoInformado) : s \in Status }
        \cup { Dto(s, bia, NaoInformado) : s \in {NaoInformado, "NAO_COLETADO"} }
FormulariosSeriais == { [responsavel |-> Nulo, sag |-> Nulo, devolucao |-> Nulo] }
PlanilhaSerial == { [status |-> "FINALIZADO", sag |-> Nulo, devolucao |-> Nulo] }
=============================================================================
