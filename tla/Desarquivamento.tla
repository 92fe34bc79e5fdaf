--------------------------- MODULE Desarquivamento ---------------------------
(***************************************************************************)
(* The aggregate root DesarquivamentoDomain (domain/entities) and the      *)
(* update it undergoes in one PATCH, as operators on records: who may read,*)
(* edit and delete a record, and what the domain methods do to it.         *)
(*                                                                         *)
(* A ficha keeps the columns the rules depend on; the descriptive fields   *)
(* (names, numbers, texts) are left out.  A date is Nulo or one of         *)
(* Instantes: only its presence matters to the code.                       *)
(***************************************************************************)
EXTENDS StatusDesarquivamento

CONSTANTS
    Usuarios,      \* the users' ids
    RoleOf,        \* RoleOf[u]: the name of u's role, upper-cased
    Instantes,     \* the dates a column may hold
    Nulo,          \* SQL NULL (and undefined in a domain object)
    NaoInformado   \* a key the body of the request does not have

Roles == { "ADMIN", "COORDENADOR", "NUGECID_OPERATOR", "NUGECID_VIEWER",
           "OPERADOR", "USUARIO" }

ASSUME RoleOfAssumption == RoleOf \in [Usuarios -> Roles]
ASSUME SentinelAssumption ==
    /\ Nulo \notin Usuarios \cup Instantes
    /\ NaoInformado \notin Usuarios \cup Instantes \cup Status \cup {Nulo}

Data == Instantes \cup {Nulo}
Responsavel == Usuarios \cup {Nulo}

\* A row of the table desarquivamentos.
Ficha == [ status: Status, criadoPor: Usuarios, responsavel: Responsavel,
           sag: Data, devolucao: Data, excluida: BOOLEAN ]

\* The body of PATCH /nugecid/:id.  dataDesarquivamentoSAG sent as null becomes
\* new Date(null), the epoch: it never clears the column, so null is no value
\* of sag here.  responsavelId is undefined or positive (validateRequest).
UpdateDto == [ status: Status \cup {NaoInformado},
               responsavel: Usuarios \cup {NaoInformado},
               sag: Instantes \cup {NaoInformado},
               devolucao: Data \cup {NaoInformado} ]

-----------------------------------------------------------------------------
(* Who may do what. *)

Admin(u) == RoleOf[u] = "ADMIN"

\* The roles for which applyUpdates passes force to transitionToStatus.
IsPrivileged(u) ==
    RoleOf[u] \in { "ADMIN", "COORDENADOR", "NUGECID_OPERATOR", "OPERADOR" }

CanBeAccessedBy(f, u) ==
    \/ f.criadoPor = u
    \/ f.responsavel = u
    \/ RoleOf[u] \in { "ADMIN", "NUGECID_VIEWER", "NUGECID_OPERATOR" }

\* Mutant: the isFinal early return comes after the role checks.
CanBeEditedBySemFinal(f, u) ==
    \/ Admin(u)
    \/ f.criadoPor = u /\ IsPending(f.status)
    \/ f.responsavel = u
    \/ RoleOf[u] \in { "NUGECID_OPERATOR", "COORDENADOR", "OPERADOR" }
CanBeEditedBy(f, u) ==
    \/ Admin(u)
    \/ /\ ~IsFinal(f.status)
       /\ \/ f.criadoPor = u /\ IsPending(f.status)
          \/ f.responsavel = u
          \/ RoleOf[u] \in { "NUGECID_OPERATOR", "COORDENADOR", "OPERADOR" }

\* The creator's branch returns before the responsible's is tried: a creator who
\* is also responsible cannot delete a record in progress.
CanBeDeletedBy(f, u) ==
    \/ Admin(u)
    \/ f.criadoPor = u /\ ~IsFinal(f.status) /\ ~IsInProgress(f.status)
    \/ f.criadoPor # u /\ f.responsavel = u /\ ~IsFinal(f.status)

-----------------------------------------------------------------------------
(* The domain methods. *)

\* assignResponsible, called when the key is present: a pending record moves on
\* to DESARQUIVADO whatever status the request asks for.
\* Mutant: called without testing that the key is present.
AtribuirSempre(f, u) ==
    [f EXCEPT !.responsavel = u,
              !.status = IF IsPending(@) THEN "DESARQUIVADO" ELSE @]
AssignResponsible(f, u) ==
    IF u = NaoInformado THEN f
    ELSE [f EXCEPT !.responsavel = u,
                   !.status = IF IsPending(@) THEN "DESARQUIVADO" ELSE @]

\* The two dates: SAG is set when the key is present; devolucao is always set,
\* because the controller passes the key even when the body lacks it, and
\* undefined or null clear it.
ComDatas(f, d) ==
    [f EXCEPT !.sag = IF d.sag = NaoInformado THEN @ ELSE d.sag,
              !.devolucao = IF d.devolucao = NaoInformado THEN Nulo
                                                          ELSE d.devolucao]

\* What changeStatus and changeStatusForce do once the transition is accepted:
\* a record that becomes FINALIZADO gets a SAG date if it has none.
ComStatus(f, s, agora) ==
    [f EXCEPT !.status = s,
              !.sag = IF s = "FINALIZADO" /\ @ = Nulo THEN agora ELSE @]

\* transitionToStatus: the privileged roles force, the others must follow
\* VALID_TRANSITIONS (a transition to the current status is not one of them).
\* Mutant: the creator of the record forces it too.
TransicaoAceitaDoCriador(f, u, s) ==
    IsPrivileged(u) \/ f.criadoPor = u \/ CanTransitionTo(f.status, s)
TransicaoAceita(f, u, s) == IsPrivileged(u) \/ CanTransitionTo(f.status, s)

\* applyUpdates, up to the status: its order is responsible, dates, status.
AntesDoStatus(f, d) == ComDatas(AssignResponsible(f, d.responsavel), d)

\* Whether applyUpdates ends without throwing, and the record it then returns.
UpdateAceito(f, u, d) ==
    d.status # NaoInformado => TransicaoAceita(AntesDoStatus(f, d), u, d.status)
ApplyUpdates(f, d, agora) ==
    LET g == AntesDoStatus(f, d)
    IN  IF d.status = NaoInformado THEN g ELSE ComStatus(g, d.status, agora)
=============================================================================
