---------------------------- MODULE NugecidSerial ----------------------------
(***************************************************************************)
(* Nugecid with one request at a time keeps the promise of CicloDeVida.    *)
(* With two it does not: that is what the runs of Nugecid with two         *)
(* requests show.                                                          *)
(***************************************************************************)
EXTENDS Nugecid

\* One client: every request ends before the next one comes.
UmaRequisicao == \E r \in Reqs : Reqs = {r}

Requisicao == CHOOSE r \in Reqs : TRUE

\* The life of a record, seen from outside: a row drawn by an import that has not
\* committed does not exist yet; an issued id without a row is gone.
Vida(id) ==
    IF Presente(id)
    THEN [ vida |-> "registrado", status |-> fichas[id].status,
           lixeira |-> fichas[id].excluida ]
    ELSE IF Sumiu(id) THEN [vida |-> "eliminado"]
    ELSE [vida |-> "inexistente"]

EstadoVisto == [id \in Ids |-> Vida(id)]

Atendido ==
    IF pedidos[Requisicao] = Livre THEN Nulo ELSE pedidos[Requisicao].usuario

Ciclo == INSTANCE CicloDeVida
    WITH Livres <- { u \in Usuarios : Admin(u) },
         Privilegiados <- { u \in Usuarios : IsPrivileged(u) },
         Ninguem <- Nulo,
         estado <- EstadoVisto,
         atendido <- Atendido

\* Requests served one at a time implement the abstract life cycle: each role
\* stays within its reach of the status flow, only administrators restore,
\* eliminate or reopen, and an eliminated record never comes back.
ImplementaCiclo == Ciclo!Spec
=============================================================================
