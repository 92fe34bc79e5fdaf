------------------------------- MODULE Nugecid -------------------------------
(***************************************************************************)
(* The desarquivamento requests of NugecidController, the use cases they   *)
(* call and the TypeORM repository underneath, served concurrently: every  *)
(* await is a point where the other requests run.  A request is an entry   *)
(* of pedidos whose fase names the await it stands at; what it read before *)
(* the await stays in its entry until the request ends.                    *)
(***************************************************************************)
EXTENDS Desarquivamento, Naturals

CONSTANTS
    Reqs,          \* the requests that may be in progress at one time
    MaxIds,        \* bound: ids the sequence of the table may issue
    Formularios,   \* bound: the bodies of POST /nugecid that are tried
    Planilha,      \* bound: the spreadsheet rows that are imported
    Dtos,          \* bound: the bodies of PATCH /nugecid/:id that are tried
    Ausente        \* no row of the table has this id

Ids == 1 .. MaxIds

Formulario == [ responsavel: Responsavel, sag: Data, devolucao: Data ]
LinhaPlanilha == [ status: Status, sag: Data, devolucao: Data ]

ASSUME BoundsAssumption ==
    /\ MaxIds \in Nat
    /\ Formularios \subseteq Formulario
    /\ Planilha \subseteq LinhaPlanilha
    /\ Dtos \subseteq UpdateDto
ASSUME AusenteAssumption == Ausente \notin Ficha

VARIABLES
    fichas,     \* the table: fichas[id] is the row with that id, or Ausente
    seq,        \* the last id issued; auto-increment never gives one back
    pedidos     \* what each request in progress holds

vars == << fichas, seq, pedidos >>

-----------------------------------------------------------------------------
(* The shapes of a request in progress. *)

Livre == [fase |-> "livre"]

Consulta == [ fase: {"consultado"}, usuario: Usuarios, id: Ids, dto: UpdateDto ]
\* lida is the row the permission was checked on, copia the entity being edited.
Edicao == [ fase: {"editado", "insercao"}, usuario: Usuarios, id: Ids,
            lida: Ficha, copia: Ficha ]
Colunas == { "status", "criadoPor", "responsavel", "sag", "devolucao" }
Atualizacao == [ fase: {"atualizacao"}, usuario: Usuarios, id: Ids,
                 lida: Ficha, copia: Ficha, colunas: SUBSET Colunas ]
Remocao == [ fase: {"exclusao", "eliminacao", "restauracao"},
             usuario: Usuarios, id: Ids ]
\* An import transaction: the rows inserted and not yet committed.
Importacao == [ fase: {"importacao"}, usuario: Usuarios,
                lote: [Ids -> Ficha \cup {Ausente}] ]

Pedido == {Livre} \cup Consulta \cup Edicao \cup Atualizacao \cup Remocao
                  \cup Importacao

Presente(id) == fichas[id] # Ausente
Ativa(id) == Presente(id) /\ ~fichas[id].excluida

Init ==
    /\ fichas = [id \in Ids |-> Ausente]
    /\ seq = 0
    /\ pedidos = [r \in Reqs |-> Livre]

-----------------------------------------------------------------------------
(* POST /nugecid: CreateDesarquivamentoUseCase saves once. *)

FichaNova(u, s, resp, sag, dev) ==
    [ status |-> s, criadoPor |-> u, responsavel |-> resp,
      sag |-> sag, devolucao |-> dev, excluida |-> FALSE ]

\* Mutant: the id is taken from the table, so an id may be issued twice.
CriarSemSequencia(u, form) ==
    /\ seq < MaxIds
    /\ fichas' = [fichas EXCEPT ![seq + 1] =
           FichaNova(u, "SOLICITADO", form.responsavel, form.sag, form.devolucao)]
    /\ UNCHANGED << seq, pedidos >>
Criar(u, form) ==
    /\ seq < MaxIds
    /\ seq' = seq + 1
    /\ fichas' = [fichas EXCEPT ![seq + 1] =
           FichaNova(u, "SOLICITADO", form.responsavel, form.sag, form.devolucao)]
    /\ UNCHANGED pedidos

-----------------------------------------------------------------------------
(* POST /nugecid/import: one transaction, one INSERT per spreadsheet row.  *)
(* The rows carry any status and dates; they are visible after the commit. *)

IniciarImportacao(r, u) ==
    /\ pedidos[r] = Livre
    /\ Admin(u)
    /\ pedidos' = [pedidos EXCEPT ![r] =
           [ fase |-> "importacao", usuario |-> u,
             lote |-> [id \in Ids |-> Ausente] ]]
    /\ UNCHANGED << fichas, seq >>

ImportarLinha(r, l) ==
    /\ pedidos[r].fase = "importacao"
    /\ seq < MaxIds
    /\ seq' = seq + 1
    /\ pedidos' = [pedidos EXCEPT ![r].lote[seq + 1] =
           FichaNova(pedidos[r].usuario, l.status, Nulo, l.sag, l.devolucao)]
    /\ UNCHANGED fichas

ConfirmarImportacao(r) ==
    /\ pedidos[r].fase = "importacao"
    /\ fichas' = [id \in Ids |-> IF pedidos[r].lote[id] # Ausente
                                 THEN pedidos[r].lote[id] ELSE fichas[id]]
    /\ pedidos' = [pedidos EXCEPT ![r] = Livre]
    /\ UNCHANGED seq

-----------------------------------------------------------------------------
(* PATCH /nugecid/:id *)

\* Mutant: only the first and the last status bring the date.
ComDataDesarquivamentoCurto == { "DESARQUIVADO", "FINALIZADO" }
ComDataDesarquivamento ==
    { "DESARQUIVADO", "REARQUIVAMENTO_SOLICITADO", "FINALIZADO", "RETIRADO_PELO_SETOR" }
ComDataDevolucao == { "REARQUIVAMENTO_SOLICITADO", "FINALIZADO" }

\* applyStatusDateDefaults: a change of status brings the dates it implies, where
\* neither the body nor the row has them.
ComPadroes(f, d, agora) ==
    IF d.status \in {NaoInformado, f.status} THEN d
    ELSE [d EXCEPT
            !.sag = IF @ = NaoInformado /\ f.sag = Nulo
                       /\ d.status \in ComDataDesarquivamento THEN agora ELSE @,
            !.devolucao = IF @ = NaoInformado /\ f.devolucao = Nulo
                             /\ d.status \in ComDataDevolucao THEN agora ELSE @]

\* The controller's own read, through FindDesarquivamentoByIdUseCase.
Consultar(r, u, id, d) ==
    /\ pedidos[r] = Livre
    /\ Ativa(id)
    /\ CanBeAccessedBy(fichas[id], u)
    /\ \E agora \in Instantes :
          pedidos' = [pedidos EXCEPT ![r] =
             [ fase |-> "consultado", usuario |-> u, id |-> id,
               dto |-> ComPadroes(fichas[id], d, agora) ]]
    /\ UNCHANGED << fichas, seq >>

\* UpdateDesarquivamentoUseCase reads again, checks the permission on what it
\* read and edits that copy; no await until it calls save.
Editar(r) ==
    LET p == pedidos[r]
        f == fichas[p.id]
    IN  /\ p.fase = "consultado"
        /\ Ativa(p.id)
        /\ CanBeEditedBy(f, p.usuario)
        /\ UpdateAceito(f, p.usuario, p.dto)
        /\ \E agora \in Instantes :
              pedidos' = [pedidos EXCEPT ![r] =
                 [ fase |-> "editado", usuario |-> p.usuario, id |-> p.id,
                   lida |-> f, copia |-> ApplyUpdates(f, p.dto, agora) ]]
        /\ UNCHANGED << fichas, seq >>

\* repository.save loads the row, in the trash or not, and decides between an
\* UPDATE of the columns that differ and an INSERT with the entity's own id.
\* The mapper leaves deletedAt undefined: it is never among the columns.
Diferentes(a, b) == { c \in Colunas : a[c] # b[c] }

Carregar(r) ==
    LET p == pedidos[r]
    IN  /\ p.fase = "editado"
        /\ pedidos' = [pedidos EXCEPT ![r] =
             IF Presente(p.id)
             THEN [ fase |-> "atualizacao", usuario |-> p.usuario, id |-> p.id,
                    lida |-> p.lida, copia |-> p.copia,
                    colunas |-> Diferentes(p.copia, fichas[p.id]) ]
             ELSE [p EXCEPT !.fase = "insercao"]]
        /\ UNCHANGED << fichas, seq >>

\* Mutant: the mapper sends null for deletedAt, so UPDATE writes it.
MesclarComExclusao(atual, copia, colunas) ==
    [copia EXCEPT !.excluida = FALSE]
\* The row after the UPDATE: the columns of the diff from the entity.
Mesclar(atual, copia, colunas) ==
    [ status      |-> IF "status" \in colunas THEN copia.status ELSE atual.status,
      criadoPor   |-> IF "criadoPor" \in colunas THEN copia.criadoPor
                                                 ELSE atual.criadoPor,
      responsavel |-> IF "responsavel" \in colunas THEN copia.responsavel
                                                   ELSE atual.responsavel,
      sag         |-> IF "sag" \in colunas THEN copia.sag ELSE atual.sag,
      devolucao   |-> IF "devolucao" \in colunas THEN copia.devolucao
                                                 ELSE atual.devolucao,
      excluida    |-> atual.excluida ]

\* The UPDATE matches no row when the row was deleted since it was loaded.
Atualizar(r) ==
    LET p == pedidos[r]
    IN  /\ p.fase = "atualizacao"
        /\ fichas' = IF Presente(p.id)
                     THEN [fichas EXCEPT ![p.id] = Mesclar(@, p.copia, p.colunas)]
                     ELSE fichas
        /\ pedidos' = [pedidos EXCEPT ![r] = Livre]
        /\ UNCHANGED seq

\* The INSERT fails on the primary key when another one came first.
Inserir(r) ==
    LET p == pedidos[r]
    IN  /\ p.fase = "insercao"
        /\ ~Presente(p.id)
        /\ fichas' = [fichas EXCEPT ![p.id] = [p.copia EXCEPT !.excluida = FALSE]]
        /\ pedidos' = [pedidos EXCEPT ![r] = Livre]
        /\ UNCHANGED seq

-----------------------------------------------------------------------------
(* DELETE /nugecid/:id, DELETE /nugecid/lixeira/:id/permanente and         *)
(* PATCH /nugecid/lixeira/:id/restaurar: read and check, then one write.   *)

Reter(r, fase, u, id) ==
    /\ pedidos[r] = Livre
    /\ pedidos' = [pedidos EXCEPT ![r] =
           [ fase |-> fase, usuario |-> u, id |-> id ]]
    /\ UNCHANGED << fichas, seq >>

\* A record already in the trash is answered with success and left alone.
PedirExclusao(r, u, id) ==
    Ativa(id) /\ CanBeDeletedBy(fichas[id], u) /\ Reter(r, "exclusao", u, id)

\* Despite its route the record need not be in the trash.
PedirEliminacao(r, u, id) ==
    Presente(id) /\ Admin(u) /\ Reter(r, "eliminacao", u, id)

\* The use case would accept NUGECID_OPERATOR too; the route does not.
PedirRestauracao(r, u, id) ==
    /\ Presente(id) /\ fichas[id].excluida
    /\ Admin(u)
    /\ Reter(r, "restauracao", u, id)

\* A write keyed by id alone: no row, nothing written.
Excluir(r) ==
    LET p == pedidos[r]
    IN  /\ p.fase = "exclusao"
        /\ Presente(p.id)
        /\ fichas' = [fichas EXCEPT ![p.id].excluida = TRUE]
        /\ pedidos' = [pedidos EXCEPT ![r] = Livre]
        /\ UNCHANGED seq

Eliminar(r) ==
    LET p == pedidos[r]
    IN  /\ p.fase = "eliminacao"
        /\ fichas' = [fichas EXCEPT ![p.id] = Ausente]
        /\ pedidos' = [pedidos EXCEPT ![r] = Livre]
        /\ UNCHANGED seq

Restaurar(r) ==
    LET p == pedidos[r]
    IN  /\ p.fase = "restauracao"
        /\ fichas' = IF Presente(p.id)
                     THEN [fichas EXCEPT ![p.id].excluida = FALSE]
                     ELSE fichas
        /\ pedidos' = [pedidos EXCEPT ![r] = Livre]
        /\ UNCHANGED seq

-----------------------------------------------------------------------------
\* The request is answered with an error: a use case threw (not found, access
\* denied, transition refused, key violated), a query was rejected, or the
\* import's transaction rolled back.  The ids it drew stay drawn.
Falhar(r) ==
    /\ pedidos[r] # Livre
    /\ pedidos' = [pedidos EXCEPT ![r] = Livre]
    /\ UNCHANGED << fichas, seq >>

Continuar(r) ==
    \/ \E l \in Planilha : ImportarLinha(r, l)
    \/ ConfirmarImportacao(r)
    \/ Editar(r)
    \/ Carregar(r)
    \/ Atualizar(r)
    \/ Inserir(r)
    \/ Excluir(r)
    \/ Eliminar(r)
    \/ Restaurar(r)
    \/ Falhar(r)

Chegar(r, u) ==
    \/ IniciarImportacao(r, u)
    \/ \E id \in Ids :
          \/ \E d \in Dtos : Consultar(r, u, id, d)
          \/ PedirExclusao(r, u, id)
          \/ PedirEliminacao(r, u, id)
          \/ PedirRestauracao(r, u, id)

Next ==
    \/ \E u \in Usuarios, form \in Formularios : Criar(u, form)
    \/ \E r \in Reqs, u \in Usuarios : Chegar(r, u)
    \/ \E r \in Reqs : Continuar(r)

Spec == Init /\ [][Next]_vars

-----------------------------------------------------------------------------
(* Properties. *)

TypeOK ==
    /\ fichas \in [Ids -> Ficha \cup {Ausente}]
    /\ seq \in 0 .. MaxIds
    /\ pedidos \in [Reqs -> Pedido]

\* The fases in which a request carries a copy of a row across an await.
ComCopia == { "editado", "atualizacao", "insercao" }

\* The ids the request in progress p knows of.
Referidos(p) ==
    { id \in Ids : \/ p.fase = "importacao" /\ p.lote[id] # Ausente
                   \/ p.fase \notin {"livre", "importacao"} /\ p.id = id }

\* An id belongs to one record for ever: an id the sequence has yet to issue is in
\* no row and in no request, so no INSERT that brings back an eliminated row takes
\* it ...
IdNaoEmitidoLivre ==
    \A id \in Ids : id > seq =>
       ~Presente(id) /\ \A r \in Reqs : id \notin Referidos(pedidos[r])
\* ... and an id drawn by an uncommitted import is known to that import alone.
IdImportadoReservado ==
    \A r \in Reqs : pedidos[r].fase = "importacao" =>
       \A id \in Referidos(pedidos[r]) :
          ~Presente(id)
          /\ \A s \in Reqs \ {r} : id \notin Referidos(pedidos[s])
IdUnico == IdNaoEmitidoLivre /\ IdImportadoReservado

\* The creator decides who may read, edit and delete.  Whatever the interleaving
\* of stale copies, partial UPDATEs and INSERTs that bring a row back, all copies
\* of a record in flight and its row name one creator.
CriadorPreservado ==
    \A r \in Reqs : pedidos[r].fase \in ComCopia =>
       /\ Presente(pedidos[r].id) =>
             fichas[pedidos[r].id].criadoPor = pedidos[r].copia.criadoPor
       /\ \A s \in Reqs :
             pedidos[s].fase \in ComCopia /\ pedidos[s].id = pedidos[r].id =>
                pedidos[s].copia.criadoPor = pedidos[r].copia.criadoPor

\* A step takes id out of a final status.
DeixaFinal(id) ==
    /\ Presente(id) /\ IsFinal(fichas[id].status)
    /\ fichas'[id] # Ausente /\ ~IsFinal(fichas'[id].status)

\* A finished record reopens only by the hand of an administrator, or by a PATCH
\* that read it before it was finished: the stale read is the only way around
\* the check of canBeEditedBy.
FinalSoPorAdminOuLeituraAntiga ==
    [][ \A id \in Ids : DeixaFinal(id) =>
           \E r \in Reqs :
              /\ pedidos[r].fase = "atualizacao" /\ pedidos[r].id = id
              /\ pedidos'[r] = Livre
              /\ Admin(pedidos[r].usuario) \/ ~IsFinal(pedidos[r].lida.status) ]_vars

\* A row leaves the trash, and stays a row, only by an administrator's restore: a
\* PATCH that read it before the DELETE and saves after it does not bring it back.
SoRestaurarTiraDaLixeira ==
    [][ \A id \in Ids :
           /\ Presente(id) /\ fichas[id].excluida
           /\ fichas'[id] # Ausente /\ ~fichas'[id].excluida
           => \E r \in Reqs : /\ pedidos[r].fase = "restauracao"
                              /\ pedidos[r].id = id /\ pedidos'[r] = Livre
                              /\ Admin(pedidos[r].usuario) ]_vars

\* The id was issued and no row, nor any import about to commit, has it.
Sumiu(id) ==
    /\ id <= seq /\ ~Presente(id)
    /\ \A r \in Reqs : pedidos[r].fase = "importacao" => id \notin Referidos(pedidos[r])

\* A record that a PATCH takes out of the archive's hands has the date it left the
\* archive (SAG), even if it became DESARQUIVADO by an assignment, which sets no
\* date.
RetiradaRegistraSAG ==
    [][ \A id \in Ids :
           /\ Presente(id) /\ fichas'[id] # Ausente
           /\ fichas[id].status # fichas'[id].status
           /\ fichas'[id].status \in
                { "RETIRADO_PELO_SETOR", "REARQUIVAMENTO_SOLICITADO", "FINALIZADO" }
           => fichas'[id].sag # Nulo ]_vars
=============================================================================
