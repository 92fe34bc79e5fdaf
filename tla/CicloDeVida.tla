----------------------------- MODULE CicloDeVida -----------------------------
(***************************************************************************)
(* What the module promises about the life of a desarquivamento when the   *)
(* requests do not overlap: the status flow each role is held to, the      *)
(* trash, and the end.  No columns, no copies, no database: one estado per *)
(* id and the user being attended.                                         *)
(***************************************************************************)
EXTENDS StatusDesarquivamento

CONSTANTS
    Ids,           \* the ids of desarquivamentos
    Usuarios,
    Livres,        \* users no rule holds back: the administrators
    Privilegiados, \* users whose change of status is forced
    Ninguem        \* nobody is being attended

VARIABLES
    estado,        \* what each id is
    atendido       \* the user whose request is being served

ciclo == << estado, atendido >>

Inexistente == [vida |-> "inexistente"]
Eliminado == [vida |-> "eliminado"]
Registrado == [vida: {"registrado"}, status: Status, lixeira: BOOLEAN]
Registro(s, l) == [vida |-> "registrado", status |-> s, lixeira |-> l]

TypeOK ==
    /\ estado \in [Ids -> {Inexistente, Eliminado} \cup Registrado]
    /\ atendido \in Usuarios \cup {Ninguem}

Init ==
    /\ estado = [id \in Ids |-> Inexistente]
    /\ atendido = Ninguem

Vivo(id) == estado[id].vida = "registrado"

\* Any user registers a request; it starts as SOLICITADO.
Registrar(id) ==
    /\ estado[id] = Inexistente
    /\ estado' = [estado EXCEPT ![id] = Registro("SOLICITADO", FALSE)]
    /\ UNCHANGED atendido

Atender(u) ==
    /\ atendido = Ninguem
    /\ atendido' = u
    /\ UNCHANGED estado

\* An administrator's import registers records in any status, several at once,
\* and may lose ids it drew for rows it does not register.
Importar ==
    /\ atendido \in Livres
    /\ estado' \in [Ids -> {Inexistente, Eliminado} \cup Registrado]
    /\ \A id \in Ids :
          IF estado[id] = Inexistente
          THEN estado'[id].vida = "registrado" => ~estado'[id].lixeira
          ELSE estado'[id] = estado[id]
    /\ atendido' = Ninguem

\* Where the flow lets a user without privileges take a record in one request:
\* nowhere, one transition on, or, by naming a responsible for a pending record,
\* to DESARQUIVADO and one transition further.
Adiante(s) ==
    {s} \cup { t \in Status : CanTransitionTo(s, t) }
        \cup IF IsPending(s)
             THEN { t \in Status : CanTransitionTo("DESARQUIVADO", t) } ELSE {}

\* The reach of u's PATCH on a record in status s.
Alcance(u, s) ==
    IF u \in Livres THEN Status
    ELSE IF IsFinal(s) THEN {}
    ELSE IF u \in Privilegiados THEN Status
    ELSE Adiante(s)

Mover(id) ==
    /\ Vivo(id) /\ ~estado[id].lixeira
    /\ atendido \in Usuarios
    /\ \E s \in Alcance(atendido, estado[id].status) :
          estado' = [estado EXCEPT ![id].status = s]
    /\ atendido' = Ninguem

\* A record in progress or finished goes to the trash by an administrator or, not
\* finished, by its responsible.
Excluir(id) ==
    /\ Vivo(id) /\ ~estado[id].lixeira
    /\ atendido \in (IF IsFinal(estado[id].status) THEN Livres ELSE Usuarios)
    /\ estado' = [estado EXCEPT ![id].lixeira = TRUE]
    /\ atendido' = Ninguem

Restaurar(id) ==
    /\ Vivo(id) /\ estado[id].lixeira
    /\ atendido \in Livres
    /\ estado' = [estado EXCEPT ![id].lixeira = FALSE]
    /\ atendido' = Ninguem

Eliminar(id) ==
    /\ Vivo(id)
    /\ atendido \in Livres
    /\ estado' = [estado EXCEPT ![id] = Eliminado]
    /\ atendido' = Ninguem

\* The request ends and leaves every record as it was.
Encerrar ==
    /\ atendido \in Usuarios
    /\ atendido' = Ninguem
    /\ UNCHANGED estado

Next ==
    \/ \E u \in Usuarios : Atender(u)
    \/ \E id \in Ids : \/ Registrar(id) \/ Mover(id) \/ Excluir(id)
                       \/ Restaurar(id) \/ Eliminar(id)
    \/ Importar
    \/ Encerrar

Spec == Init /\ [][Next]_ciclo

-----------------------------------------------------------------------------
\* Nothing happens to an eliminated record any more.
PromessaEliminacao ==
    [][ \A id \in Ids : estado[id] = Eliminado => estado'[id] = Eliminado ]_ciclo
\* A finished record reopens only for an administrator.
PromessaFinal ==
    [][ \A id \in Ids :
           Vivo(id) /\ Vivo(id)' /\ IsFinal(estado[id].status)
           /\ estado'[id].status # estado[id].status => atendido \in Livres ]_ciclo
=============================================================================
