# Nugecid: a verification project

TLA+ models of the backend under `src/src` (NestJS, TypeORM over PostgreSQL, Redis,
BullMQ, Meilisearch), of the parts of the web client that share its state, and of what the
components promise, checked with TLC and, for the
results listed below, proved with TLAPS. Paths below are relative to `src/src/modules`
unless they begin with `src/`.

## 1. The system

Nugecid manages *desarquivamentos* (requests to take a case file out of the archive), the
trail of who did what, and a Kanban board for the team. It is one Node process: handlers run
interleaved at every `await`, and the database at READ COMMITTED is the only shared memory.
Almost no handler opens a transaction, and no entity has a version column. So nearly every
hard behaviour has one shape: *read, decide, await, write what was decided*. TypeORM's `save`
sharpens it: it reads the row anew, writes the columns in which the entity differs, and inserts
the row when it is gone. Redis, the storage, the index and the browser each hold a second copy
of something, and nothing but the order of calls keeps the copies together.

| Component | State | Operations | What is hard | What makes it correct |
|---|---|---|---|---|
| Desarquivamento records (`nugecid/domain`, `application`, `infrastructure`, controller) | table `desarquivamentos`, its id sequence, entities held by requests | create, import, PATCH, trash, eliminate, restore | entities saved over newer rows; `save` inserts when the row is gone; permission checked on an old copy; default dates | status flow per role, finality, trash, elimination, creator, ids, dates |
| Audit hash chain (`audit/audit-hash.service.ts`) | table `auditorias` (`hash`, `previous_hash`) | `prepareHash`, save, `verifyChain` | last row read outside a transaction; the save is another await and its failure is swallowed | links lead to stored rows; verification accepts what was written |
| Kanban tasks (`tarefas/services/tarefas.service.ts`) | `coluna_id`, `ordem` of each task | create, move, remove, archive, edit | position read before the transaction; range shifts under row locks; deadlocks | positions distinct per column; shifts applied to current values |
| Kanban columns, projects (`colunas.service.ts`, `projetos.service.ts`) | column order; the archive column; members and roles | reorder, create, edit, delete; archive; add, change, remove member | one save per column, no transaction; `save` carries the tasks a column was read with; last-administrator count read before the write | distinct orders; one archive; tasks stay where they were put; a project keeps an administrator |
| Accounts (`users`, `auth/auth.service.ts`) | table `users`: password, active, deleted, failures, block | login, unblock, update, password, settings, delete, restore, create, register | whole entities saved over newer rows; lost increments of the counter | failures block; deletion and deactivation hold |
| Sessions (`auth`, `redis`, `AuthContext.tsx`, `api.ts`) | cookies, list of revoked refresh tokens, what each tab shows, its timers | login, refresh, logout, reload, settings, any call | answers late, lost or out of order; Redis away; another tab | who is on screen is who the cookies name; a revoked or deactivated session ends |
| IP blocking (`security`) | blocked addresses, attempt counters | check before a login, block, unblock, automatic block | the check saves the row it read, over a newer one | a block and an unblock hold |
| Backup (`backup`) | the directory of backups, `uploads/`, the whole database during a restore | full and partial backup, cleanup, restore | truncate before load, no common lock, names by the second, other processes that fail half way | what a restore erases it has a copy of; a good backup stays until it is cleaned |
| Notifications (`notificacoes`, `notificacoesStore.ts`, its hooks) | rows, event streams, what the tab lists and counts | create (with deduplication), mark, delete, clean up, stream, poll | check then insert; whole lists against single pushes; optimistic changes undone; restarts | one notification per recurring fact; nothing unread is missing; the badge counts the list |
| Shelves (`pastas`, `storage`) | rows, rows of files, objects in the storage | create, edit, remove, add and remove files | three stores, no transaction over them | a file's row and object come and go together |
| Search (`search`) | Meilisearch documents | upsert, remove, rebuild | fire and forget, no order between calls, batches by offset | the index ends as the table is |
| List caches (`pastas`, `notificacoes`, `nugecid`, `estatisticas`) | lists under a number, which expires too | raise the number, read through | number read then set | no list older than an answered write |
| Queues (`queues`) | BullMQ jobs | import, documents, backup, notifications | none yet: nothing sends a job | - |
| Sync (`sync`) | connected clients | broadcast | - | - |
| The rest | single rows, files, external systems | CRUD, rendering, queries | I/O | - |

How they interact: the controllers call the use cases; a use case writes through the TypeORM
repository and then publishes effects (cache bump, search upsert, notification, sync event,
audit), each awaited or fired separately. The audit chain is written by logins, logouts,
desarquivamento changes and password changes alike. The shelves write the storage and the table
themselves and ask the search service for an update nobody waits for. A browser's tabs share the
cookies and nothing else; each keeps a stream of notifications open and polls when it has none. The import runs from the
controller. The restore replaces every table under running requests.

`PROJECT.json` lists every component, and under `hazards` each place where this code could go
wrong in a way a test would hardly reach, with the properties that cover it.

## 2. The modules

| Module | What it models |
|---|---|
| `StatusDesarquivamento` | the value object of the status: `ValidTransitions`, `IsFinal`, `IsPending`, `IsInProgress` |
| `Desarquivamento` | the aggregate: who may access, edit and delete; `applyUpdates`; the default SAG date of `changeStatus` |
| `Nugecid` | the requests, one action per await, over the table, the id sequence and what each request holds |
| `CicloDeVida` | abstract: the life of a record when requests do not overlap |
| `NugecidSerial` | the refinement mapping `Nugecid` -> `CicloDeVida`, one request at a time |
| `AuditChain` | the audit trail: preparation, INSERT, COMMIT, loss |
| `Quadro` | abstract: a board has a list of tasks per column, given as who is above whom |
| `Kanban` | the transactions of `TarefasService`, statement by statement, with row locks |
| `KanbanSerial` | the refinement mapping `Kanban` -> `Quadro`, one request at a time |
| `Projeto` | the columns and the members of one project, one action per statement |
| `Contas` | the accounts: every operation that reads one, works on its copy and saves it |
| `Acesso` | abstract: the lockout and the life of an account when requests do not overlap |
| `ContasSerial` | the refinement mapping `Contas` -> `Acesso`, one request at a time |
| `Bloqueios` | the blocked addresses: the check of the guard, block, unblock, automatic block |
| `Sessao` | a browser: tabs, cookies and calls, with the server's logins, refreshes and logouts |
| `Notificacoes` | the notifications of a user, from the job to the tab that shows them |
| `Pastas` | the shelves, the objects of their files and their documents in the index |
| `ListaEmCache` | a list in the cache under a number that writes raise |
| `Copias` | backups, restores and cleanings over one directory, with `uploads/` and the database |
| `MCNavegador` | `Sessao` in two scenes: several tabs and accounts, or one tab with Redis and the administrators at work |
| `MCNugecid`, `MCNugecidSerial`, `MCAuditChain`, `MCKanban`, `MCKanbanSerial`, `MCProjeto`, `MCContasSerial`, `MCSessao` | instances for TLC |
| `MCContas` (`Contas`, `Bloqueios`), `MCNotificacoes` (`Notificacoes`, `ListaEmCache`), `MCArquivos` (`Pastas`, `Copias`) | two modules in one run: they share no variable, and a behaviour is of one or of the other |
| `Nugecid_proofs`, `AuditChain_proofs`, `Kanban_proofs`, `Projeto_proofs`, `Contas_proofs` (with `Bloqueios`), `Sessao_proofs`, `Notificacoes_proofs` (with `ListaEmCache`), `Arquivos_proofs` (`Pastas` and `Copias`) | the proofs |

### Nugecid

`fichas[id]` is the row with that id, cut down to the columns a rule depends on: status, creator,
responsible, the two dates, the deletion mark. `seq` is the id sequence, which PostgreSQL does
not roll back. `pedidos[r]` is a request in progress; its `fase` names the await it stands at.

| Code | Actions |
|---|---|
| `POST /nugecid` | `Criar` (one INSERT; nothing is read before it that a rule needs) |
| `POST /nugecid/import`, one transaction | `IniciarImportacao`, `ImportarLinha`, `ConfirmarImportacao`, or `Falhar` (rollback) |
| `PATCH /nugecid/:id` | `Consultar` (controller reads, checks access and fills the default dates), `Editar` (use case reads again, checks `canBeEditedBy`, applies the updates to its copy), `Carregar` (`save` reads the row to find what differs), then `Atualizar` (UPDATE of those columns) or `Inserir` (no row was found: INSERT with the copy's id) |
| `DELETE /nugecid/:id` | `PedirExclusao`, `Excluir` |
| `DELETE /nugecid/lixeira/:id/permanente` | `PedirEliminacao`, `Eliminar` |
| `PATCH /nugecid/lixeira/:id/restaurar` | `PedirRestauracao`, `Restaurar` |
| any error after the first await | `Falhar` |

A request refused before it has awaited anything has no action: it changes nothing. A date is
present or absent (`Instantes`, `Nulo`); a key the body lacks is `NaoInformado`, which is
different from null because the code tells them apart. Dropped: descriptive fields, comments,
attachments, and the effects published afterwards (caches, search, notifications, audit).

### AuditChain

SHA-256 over a JSON text is taken to be injective, so the hash of a row is the sequence of the
contents hashed from the genesis down to it. A content keeps the keys whose presence the hash
depends on: `JSON.stringify` leaves an undefined key out, the database gives back null, and
`@CreateDateColumn` fills the timestamp only when the row is saved. `autor` and `pai` are history
variables: they guard nothing. Rows older than the two columns have neither hash nor link
(`MaxLegadas`). The truncation of the table by a restore is not modelled.

### Kanban

A request is the list of SQL statements it has still to run, built from the row it read *before*
its transaction, as the service does. A locking SELECT is two steps: the snapshot, and, once the
rows in it are free, their re-evaluation, which is what READ COMMITTED does. A row written or
locked by another transaction makes a statement wait; `Falhar` stands for a rejected query and
for the victim of a deadlock. The set of columns is fixed, and permissions, assignees, history,
subtasks and filters are left out. Archiving is a move without a position to one of the columns.

### Projeto

`colunas[c]` is a column's row, its order and whether it is the archive; `onde[t]` the column of a
task; `membros[p]` a role. `pedidos[r]` holds what a request has read: `alvo` (the column, with the
tasks that came with it in `lidas`), `lista` (the columns still to be shifted, with the new order),
`item` (the one being saved).

| Code | Actions |
|---|---|
| `create`, `update`, `moveColumn`, `remove` of `ColunasService` | `PedirColuna`, `PedirEdicao`, `PedirPosicao`, `PedirRemocao` begin; `LerUltima` and `Inserir`, `Salvar`, `Excluir` end |
| `reorderColumns` | `Listar` (find), then for each column `Deslocar` (the SELECT of `save`) and `Atualizar` or `Repor` (UPDATE, or INSERT of a row that is gone) |
| `arquivarTarefa` | `PedirArquivo`, `Procurar`, `LerUltima`, `Inserir`, `Levar` |
| other changes to tasks | `MexerTarefa` |
| `addMembro`, `updateMembro`, `removeMembro` | `PedirMembro`, `LerMembro`, `SalvarMembro`, `EscreverMembro` |
| any error, after what has been written | `Falhar` |

A column is loaded with its tasks and saved with them: TypeORM brings the relation to what was
read, so a task that has left is put back (`Devolver`), and one that has come in would be taken out
of a column that may not be null, which fails. The flags `so` and `eram` are history.

### Contas

`contas[u]` is a row of `users`; `pedidos[r].copia` the entity or domain object the request works
on; `muda` the columns its UPDATE will write, found by `Carregar`, the SELECT inside `save`.
`Salvas` says which columns a kind of object may write at all: `UserMapper.toEntity` leaves the
lockout undefined, the entities of `AuthService` and of the settings do not. The clock moves by
`Passar`. `erros` is history. `PedirCriacao` is `POST /users` as it runs: `isDeleted` compares with
`undefined` and the database gives `null`, so an account *in use* under that name is updated.

### Sessao

One browser. `tela`, `timer` and `retentativas` are per tab; `acesso` and `renovacao` are the two
cookies, reduced to whose they are and to the token's id; `chamadas[c]` is a call with the cookies it
left with. A call is served in the server's own steps (`ConsultarLista`, then `ConsultarConta`;
`Revogar`, then `RemoverOnline`), and its answer is delivered, lost (`Perder`, a network error or the
30 seconds of axios, which the code tells apart) or finds its page gone (`Descartar`). `Fechar` and
`Abrir` are `updateUser` with the timer that goes with it. The settings calls put the user they were
rendered with back on screen. Redis drops, comes back, or is given up (`MudarRedis`); without it a
token cannot be revoked and is not looked up. Wrong passwords, CSRF and the express session are left
out.

### Notificacoes

`notas` are the rows of one user in the order of creation; `fila` the events on their way to the one
tab; `leituras` the two readings of the unread list (the first event of a stream, a poll or the
fetch after a failed call); `tela` what is listed and the badge. A job is `PedirCriacao`, `Procurar`,
`Inserir` or `Salvar`, `Avisar`; a call of the tab changes `tela` first and is then served (`Buscar`,
`Salvar`, `Apagar`, `Atualizar`), answered (`Responder`) or fails: `Falhar` is the server's part coming
to nothing (the call never arrives, a query throws, that of the preferences between a save and its push
included), `Desistir` is the tab hearing of an error, or giving up on a call the server is still at, and
undoing the change as far as the store does. The fetch that marking falls back on may fail as well
(`FalharLista`). `Cair` and `Assinar` close and open the stream, `Reiniciar` is a restart of the server.
Which types the user wants is left out (all of them are wanted), so is web push, and the list is taken
to fit one page.

### Pastas

`pastas[p]` counts the edits of a shelf, so that an index document can be told to be old;
`arquivos[a]` is the row of a file, `objetos` the storage. Requests go through `Guardar` (object),
`Gravar` (row), `Reler`, `LerArquivos`, `ApagarObjetos`, `ApagarLinhas`, `Apagar` and `Publicar`, which
starts a task of the index nobody waits for (`Montar`, `Enviar`, or `Perder`). `Reindexar`, `Lote`,
`MontarLote`, `EnviarLote`, `PerderLote` are `reindexAllDocuments` with batches of one shelf, and
`ReindexarSemConta` is the same after a count that failed and was taken for zero. `Falhar` and
`Reiniciar` interrupt requests between any two steps. A deletion from the storage fails in two ways: the
remote driver throws, and the request ends (`Falhar`); the local one, the default, hides it, and the
request goes on to delete the row (`ApagarObjetos`; `largados` has the objects left behind so).

### ListaEmCache

`numero` is the cache entry with the list's number, `entradas[n]` the list kept under number `n`,
reduced to how many writes it has seen. Writers (`Escrever`, `LerNumero`, `PorNumero`) and readers
(`Listar`, `ProcurarLista`, `ConsultarLista`, `Por`) interleave, and both kinds of entry expire.

### Bloqueios

`bloqueios[ip]` is the row of an address, active or not; `verificacoes[v]` a request with the row it
read (`lida`), its copy and, after the SELECT of `save` (`CarregarBloqueio`), the columns it will write.
`IsIpBlocked` is a reader to its callers and a writer all the same: it counts the attempt, or ends
a block that has expired. The automatic block calls it and then `BlockIp`, with nothing carried from
one to the other. Which addresses are suspicious is any choice; reasons and mails are left out.

### Copias

`banco` says which of the two groups of tables (those a backup of the desarquivamentos has, and the
others) hold their data; `diretorio` has the dumps, archives, temporary directories and copies of
`uploads/`, each with what it holds and its time. An operation goes through `Exportar`, `CopiarUploads`,
`Compactar`, `Arrumar` (a backup), `Extrair`, `Truncar`, `DerrubarTabelas`, `CarregarDump`,
`GuardarUploads`, `Esvaziar`, `Repor` (a restore) or `Listar` and `Remover`, once for each policy (a
cleaning, which also follows every scheduled backup and every restore). Dumps are made with `--clean
--if-exists`, so a load first drops the tables of the dump, and with them what another restore has put
there. Each step may fail, and `psql`, which does not stop at an error, and the file system may have done
any part of it: so a dump that is not whole needs no mark of its own. `DumpSumido` is the stream that opens a file which has
gone, whose error nobody listens to; `Cair` is a death of the process. Users upload and delete
meanwhile. `pronto`, `pedido`, `novos` and `limpas` are history. Sizes are left out, so that the third
policy may remove any number of the oldest; so are a dump that is written anew while `psql` reads it, and
storage other than `uploads/`.

## 3. The runs

| Run | Bounds | What it shows |
|---|---|---|
| `concorrente` | 2 requests, 1 id, 3 users (administrator, plain user, OPERADOR), 4 bodies | with requests overlapping at every await: types; `IdUnico` (an id belongs to one record for ever); `CriadorPreservado` (all copies in flight and the row name one creator); `FinalSoPorAdminOuLeituraAntiga` (the stale read is the only way around finality); `SoRestaurarTiraDaLixeira` |
| `serial` | 1 request, 2 ids, every status in the bodies, alone and with an assignment | `ImplementaCiclo` (each role keeps to its reach of the status flow, finality, trash, elimination); `RetiradaRegistraSAG` |
| `auditoria` | 3 writers, 4 rows, up to 1 older row, symmetry in the writers | types; `ElosEnraizados` (no link dangles, links go up to the genesis); `IrmaosDeAutoresDistintos` (only different writers fork) |
| `kanban` | 2 requests, 2 columns, 2 tasks, positions 1..3, symmetry in requests and columns | `CommitSoMudaOSeuOuDesloca` (a commit shifts other tasks by one, from where they are, in their column; it puts elsewhere only the task of a move or an edit; a deleted task comes back only by an edit that had read it, as it was then) |
| `kanban_serial` | 1 request, 2 columns, 3 tasks, positions 1..4, no position edits | `PosicoesCoerentes` (types, and distinct positions); `ImplementaQuadro` (the shifts are insertion, removal and move in lists) |
| `contas` | 2 requests, 1 account, 2 passwords, limit 2, counter to 3, 2 instants; 2 requests, 1 address, 4 instants, 2 attempts; symmetry | types; `ErrosLimitados` (how many wrong passwords two overlapping clients get compared before the block holds); `ContaSoVoltaPorAdminOuLeituraAntiga` (deletion and deactivation); `BloqueioSoMudaPorPedidoOuLeituraAntiga` |
| `contas_serial` | 1 request, limit 3, block of 2 ticks, clock to 4 | `ImplementaAcesso` (failures in a row block, a block ends with time, a success or an administrator clears it, deletion is final) |
| `sessao` | 2 calls at once (one of them a refresh), 2 logins, 1 retry timer; 2 tabs and 2 accounts with Redis up and active accounts, or 1 tab and 1 account with Redis and administrators free | types; `TelaSemRenovacaoSoPorPreferencias`; `TelaDeOutroSoPorOutraAbaOuAtraso`; `AcessoAlheioSoPorAtraso` |
| `sessao_viva` | 1 tab, 1 account, 1 login, fairness | `DesativadaSai`, `RevogadaSai` |
| `projeto` | 2 requests, 3 in all, 3 column ids, 1 task, 2 possible members besides the owner, orders 1..3 | types (no task points to a missing column); `ColunasCoerentesSeSozinha` (orders distinct, one archive); `TarefaSoDevolvidaAOndeFoiLida`; `UltimoAdminNaoSeRebaixa` |
| `notificacoes` | 2 jobs or calls, 3 rows, a recurring and another matter, 1 restart; and 2 writers, 1 reader, 3 writes, fairness | types; `NadaFaltaNaTelaQuieta`; `ContagemSoErraPorMarcaOuVolta`; `SegundaSoPorCruzamento`; `ListaVelhaSoSobNumeroDeVolta`; `ListaAcabaAtual` |
| `arquivos` | 2 shelves, 1 file, 2 requests, 2 failures, 1 restart, 1 reindexing; and 2 operations, 1 upload, 2 seconds, 1 death of the process, backups kept for 1 tick and at most 1; symmetry in requests and operations | types; `ArquivoEObjetoAndamJuntos`; `IndiceSoErraPorDesvio`; `PulaSoSeMudam`; `RestauracaoSoApagaComCopia`; `BackupProntoFica` |

Why these bounds are enough: a stale write needs two requests on one record, and the rules look
at one record at a time. Three writers give a fork with two children and a late commit. Shifts
need two rows besides the one moved in one column: that is `kanban_serial`; the locks need two
transactions over the same rows: that is `kanban`. The users cover the three cases the rules tell
apart: held by nothing, held by the flow, and forcing the flow but not reaching every record.
A lost increment takes two logins and a limit above one; the block's end takes three instants and a
limit reached twice. A late answer takes two calls, one older than the change of session; two
accounts are needed for one to see the other, and two tabs for a login in one to change what the
other holds. Both at once with a failing Redis and deactivations do not fit the five minutes of a
run, so `MCNavegador` takes two scenes: the cases between accounts and tabs do not depend on Redis or
on deactivation, and the cases of those two need one account only. A
reordering crossed by another, or stopped half way, takes three columns at most; two archivings of a
first task and an edit of the column they make take three requests. A notification is missed with one
row saved between a reading and its delivery, or with one call that fails twice; a second one on a matter with two jobs; a deletion or a
clean-up in between adds a third row. A shelf is passed over with two shelves and batches of one; an
update is overtaken with two requests. A number comes back after two writes and an expiry.
A block is revived, or ended, by a check that read an older row: two requests and the end of a block,
with instants before and after it. A backup is spoiled by another of the same second, a restore by a
cleaning or an upload: two operations and two seconds, so that a backup may also be older than another. Two operations are also
two restores, one of which drops what the other has loaded. An object is left behind, or a reindexing
finds nothing to take, with one failure.

Larger instances of `Projeto`, `Notificacoes`, `Pastas`, `ListaEmCache` and `Contas` (three
requests, more rows, columns and files) were explored at random with TLC's simulation and showed no
violation; they are not runs.

What caps the state: `MaxIds`, `MaxLegadas`, `MaxOrdem`, `MaxPedidos`, `MaxTentativas`, `MaxAgora`,
`MaxEntradas`, `MaxRetentativas`, `MaxNotas`, `MaxReinicios`, `MaxFalhas`, `MaxReindexacoes`,
`MaxEscritas`, `MaxInstante`, `MaxContagem`, `MaxSegundo`, `MaxOperacoes` and `MaxQuedas` in the
guards, and the sets of inputs (`Formularios`, `Planilha`, `Dtos`, `Eventos`,
`Pedidas`, `Editadas`) which the configurations choose.

Deadlock is checked in every run but `arquivos`: elsewhere something can always happen (a request
fails, a clock or an answer comes, or nobody asks for anything any more, which `Projeto` has as a
step). In `arquivos` the bounds on requests and operations end a behaviour.

Symmetry is used only in runs without liveness, and only over sets the module does not tell apart.

### Fairness

`sessao_viva` checks `SpecJusta`. Weak fairness of `Disparar` in each tab: a browser runs the
callback of a timer that is due. Weak fairness of `Descartar`: the slot of a call whose page is gone
does not stay taken. Strong fairness of `Atender` and `Entregar` for the refresh calls: a refresh
that is retried every 30 seconds is not lost every time. Without it the network would be away for
ever, and the session would stay on screen by design (`refreshTokens` keeps it on network errors).
Nothing is assumed of users, administrators, of Redis (`RevogadaSai` has its return as a premise) or
of any other call.

`notificacoes` assumes weak fairness of a reader's steps (Node runs the continuation of an await that
has completed) and of the expiry of each list (the cache drops an entry whose time is over). Writers
may stop anywhere.

### Where the code departs from its documents, or from what one expects

Seen while modelling; the models do what the code does, and the properties name these cases as
their exceptions. They are not runs.

- Records. A PATCH that read a record before it was finished saves its copy over the final status,
  though its user is no administrator (`desarquivamento.entity.ts:422` says "Não pode editar se
  estiver concluído"). A PATCH in flight during a permanent elimination inserts the record again
  under its id (`delete-desarquivamento.use-case.ts:322`: "PERMANENTE e IRREVERSÍVEL"). `PATCH {status:
  FINALIZADO}` on a record with a return date erases it: the controller passes the absent key on as
  an explicit `undefined` (`nugecid.controller.ts:964`).
- Audit. Two overlapping audits take the same predecessor (`audit-hash.service.ts:21`: "The chain
  links every row to the hash of the previous row"). The hash is taken before the timestamp exists, so
  `verifyChain` would refuse rows nobody touched; its comment says the last N records and it takes the
  first N; nothing calls it, and it is not modelled. `docs/AUDITORIA_GLM.md` describes a partial import
  and the import is all or nothing.
- Kanban. Of two overlapping moves the later one writes back the position it read before its
  transaction (`tarefas.service.ts:877`: "Evita race conditions"). A column saved after its removal
  is inserted again. Two archivings of a first task make two columns "Arquivadas". `removeMembro`, and an owner who is no member, may leave a project without an
  administrator.
- Accounts. `POST /users` under a name in use updates that account, password and role included,
  instead of "Usuário já está em uso" (`create-user.use-case.ts:25`, `user.ts:141`). A login that fails
  late may take the block of others away; a settings call may undo a deletion that came in between.
- Blocked addresses. An attempt counted late writes its block back after an unblock, since `save`
  compares the copy with the row as it is by then; a check that saw the old block expired ends the new
  one. While an expired block has not been seen by a check, a new one is refused as "já está bloqueado"
  (`security.service.ts:103`).
- Backups. A restore empties every table, also when the backup has only the desarquivamentos
  (`backup.service.ts:1060`, `:1124`). A dump in progress can be restored. Two backups of one second
  have the same names, and the one that fails removes the other's files. A dump removed between its
  look-up and its load ends the process after the tables are empty. A file uploaded while a restore is
  copying `uploads/` is erased with the rest and is in no copy. Of two restores at once the second drops
  the tables the first has filled.
  Tables emptied and not loaded keep their sequences, and the settings are looked up as row 1
  (`system-settings.service.ts:20`): without it every read inserts a row of its own.
- Sessions. Without Redis a logout answers 500 and leaves the cookies, and no token counts as revoked.
  A settings answer after a logout puts the user back on screen, with no timer.
- Notifications. Marking one that is not listed lowers the badge; a failed deletion restores the list
  and not the count; a list read before a push and delivered after it takes the notification away. One that was being marked
  stays off the screen, unread, if the call and the fetch after it both fail; one whose push comes after a
  failed query of the preferences is never pushed.
- Shelves and index. Objects are deleted before their rows; the local driver hides a failed deletion, and
  the object stays without a row though the request succeeded. A count that fails makes a reindexing of
  nothing. A failed update of the index is never
  sent again, and a reindexing adds documents but removes none.
- Caches. The number of a list expires like any entry (30 units against 20 of the list, which the
  in-memory store reads as milliseconds and not as the seconds of the comment), and so may come back
  while a list kept under it is still there.

## 4. The proofs

For every value of the constants that satisfies the named assumptions, that is, for any number of
users, requests, ids, bodies, writers, rows, columns, tasks, files, operations and addresses. The
assumptions say that bounds are numbers, inputs are within their types and the values that stand for
"nothing" are none of the values they are told apart from; one says more, and the code justifies it:
`IdsAssumption` of `Pastas`: the shelves that ever exist are finitely many and are numbered in the order
of their ids. The ids themselves are random UUIDs (`pastas.service.ts:172`), compared only where batches
are ordered by id, so a shelf created later may have any number that is free. Where a property is of requests that do not overlap,
the theorem says so in a hypothesis of its own.

**Records** (`Nugecid_proofs`)

- `TypeCorrect`: `TypeOK`.
- `IdsUnicos`: `IdUnico`, inductive together with `TypeOK`. It needs both of its
  halves: an id above `seq` is known to nobody, and an id drawn by an open import is known to that
  import alone. Otherwise the re-insert of a stale PATCH could meet a fresh row.
- `CriadorUnico`: `CriadorPreservado`, from the two above. The creator is in the set
  of columns an UPDATE may write; it never differs because every copy in flight of an id agrees.
- `ReaberturaJustificada`, `LixeiraSoPorRestauracao`: the two action properties, from
  `IInv == TypeOK /\ IdUnico /\ Autorizado`, where `Autorizado` remembers what a request was
  allowed: an edit in flight was checked against the row it keeps in `lida`, and a restore in flight
  is an administrator's.
- `UmaAUmaImplementaCiclo`: `ImplementaCiclo`, and `UmaAUmaRegistraSAG`: `RetiradaRegistraSAG`, under the
  hypothesis `UmaRequisicao` that requests do not overlap, which is what `serial` instantiates. `Sozinho`
  says what a request alone knows: its row is there and as it read it, its copy is within the user's
  reach of the row's status (`ApplyUpdatesMove`, a case analysis of `applyUpdates`) and brings the SAG
  date if the status asks for it (`ComPadroesPreve`), and no INSERT brings a row back. Each write is then
  a step of `CicloDeVida`; the end of an import is `Importar`, with the ids it drew for nothing; what is
  done before a write is not seen.
- `EliminationIsFinal`, `FinalMovesOnlyForFree`: the two promises of `CicloDeVida`, which `Nugecid` keeps by
  the refinement when requests do not overlap.

**Audit chain** (`AuditChain_proofs`)

- `TypeCorrect`: `TypeOK`.
- `ChainRooted` and `ForkByDistinctWriters`, from one inductive invariant:
  `SemFuturo` (ids above `seq` are free), `LinhaLigada` (a stored row's `pai` is a stored row with a
  smaller id, whose hash is the link), `EscritaLigada` (the same for a row being written, whose
  writer has no other row with that `pai`) and `IrmaosDeAutoresDistintos` itself. The second half of
  `EscritaLigada` is what makes the fork property inductive: after a writer's own commit, the row it
  hung from is not the last one any more.
- `UmEscritorFazUmaLinha`: if the audits never overlap, a hypothesis of the theorem, each row of the chain
  carries the hash of the row just before it in the table (`ElosSeguidos`). What a lone writer has read last
  stays the last row until it commits (`EscritaNoFim`).

**Kanban tasks** (`Kanban_proofs`)

- `KanbanSempreCoerente`, `TiposDoKanban`: `KanbanInv`, and its first part `TypeOK`. The rest of
  `KanbanInv`: `SemFuturo` (nobody knows of an id above `seq`), `TravasDisjuntas` (one transaction
  holds a row), `FormaDosPassos` (the statements to come: a column is shifted once; the write
  follows the look-up of the last place), `ColunasPorVir` (the others' rows written so far are in no
  column that is still to be shifted) and `EscritasCertas` (what is written is locked, and of another
  task it is one place from where the task is).
- `CommitSoTocaOQueDeve`: `CommitSoMudaOSeuOuDesloca`. Of the tasks a transaction is not about,
  `EscritasCertas` says it before the commit; it is inductive because a commit changes only rows its
  transaction has locked, so nobody else's, and because `ColunasPorVir` keeps a second shift off a row
  already shifted. `OrigemInv` says where the other rows come from (`OrigemCerta`): an edit writes only
  its own task, with what it read or what is there (`Editada`); a row of a task that is not there is the
  one a creation adds with its last statement; a removal writes a row only in its one shift, its last
  statement (`PassosDoTipo`: which statements each kind of request runs). A row seen before the wait for
  a lock may have been deleted meanwhile: a shift drops it, the UPDATE of a move finds none, and only
  the `save` of an edit inserts it again.
- `PosicoesSempreCoerentes`: `PosicoesCoerentes`, if there is one request at a time and no edit asks for
  a position, as in `kanban_serial`. The invariant `SerialInv` follows the transaction through the
  table it sees: all other tasks are at distinct places (`OutrasDistintas`), a shift is of the whole
  column and closes or opens the place it names (`DesvioCerto`), the write goes to a place the
  shift has opened or to one past the last (`GravacaoCerta`), what the task's own row is at the end
  (`FimCerto`), and an edit writes what it read (`EdicaoCerta`).
- `PosicoesSaoListas`: `ImplementaQuadro`, under the same two hypotheses. `ListasInv` says of the table a
  transaction sees that the other tasks are in the columns of the committed one, in the same order
  (`MesmasListas`), and that a row that is new in it is the one the request creates, by its last
  statement (`SoATarefaNova`). It needs `SerialInv`: a shift keeps the order (`DeslocadaMonotona`)
  because the place it closes is vacant. A commit is then a step of `Quadro` about one task, or
  none, and distinct positions make each column a list.

**Columns and members** (`Projeto_proofs`)

- `ProjetoSempreCoerente`, `TiposDoProjeto`: `ProjetoInv`, and its first part `TypeOK`, which includes
  that a task is in a column that is there. For each request `ProjetoInv` says what it holds
  (`FormaColuna`, `FormaMembro`) and, while its flag `so` says that no other request has written,
  what it knows of the table (`SabeDasColunas`, `SabeDosMembros`).
- `PedidoSozinhoDeixaOrdensDistintas`: `ColunasCoerentesSeSozinha`. Between the saves of a reordering
  two columns do share a place, so "the orders are distinct" is not inductive. `PlanoDistinto` is: the
  places where the shifts still to be made will take the columns (`VaiPara`) are distinct, and none
  is the one that is to be free. `Listar` makes the plan (`DeslocadaSepara`: the arithmetic of
  reorderColumns), each save carries out one item of it (`PlanoMenor`), and the last write takes the
  free place.
- `UltimoAdminFica`: `UltimoAdminNaoSeRebaixa`. While `so` holds, the administrators a request counted
  are those of the table, and past the check the only one of them is not giving up the role.
- `TarefasVoltamAOndeForamLidas`: `TarefaSoDevolvidaAOndeFoiLida`, because only the last write of a change
  saves tasks along, and it is of the column the request is about.

**Accounts and addresses** (`Contas_proofs`)

- `ContasSempreCoerentes`, `SoVoltaPorAdminOuLeituraAntiga`: `ContaSoVoltaPorAdminOuLeituraAntiga`, from
  `ContasInv`: a request that will write has read a row that is still there (none is ever taken
  away), and its copy has the `deletedAt` it read, and the `ativo`, unless it is an administrator's.
- `BloqueiosSempreCoerentes`, `SoMudaPorPedidoOuLeituraAntiga`: `BloqueioSoMudaPorPedidoOuLeituraAntiga`, from
  `BloqueiosInv`, which says what each kind of request makes of the row it read, column by column.
- `TiposDaEntrada`: `TiposOK` of the composition.
- `DoisClientesErramPouco`: `ErrosLimitados`, for two requests at a time and a limit of at least two (the
  source has 5 in auth.service.ts). For a limit of one TLC finds it false: a block that lasts one
  instant may be over by the time it is written. The invariant `ErrosInv` says how much room is left
  below `Teto` on an account that has seen `e` errors: with no login in progress (`CabeSo`), with one that
  may still write an error (`CabeUm`), and with two (`CabeDois`). What a request takes of the room depends on
  its copy: one that found the counter as it would leave it (`Inerte`) makes an error and does not move
  the counter, one that will block (`Fecha`) ends the count, and one that read the row before it was
  blocked opens it again (`Abre`). `Folga(n)` is what is left, doubled,
  from a counter at `n` when each error is undone once by a stale save; it falls by
  `2 * (Limite - n + 1)` with every error that stays (`FolgaPasso`), and the sum of that is `Teto`.
  A write of another kind, or the clock, begins the count again, and then there is room for everything
  (`SemErrosSo`, `SemErrosUm`, `SemErrosDois`). TLC checked `ErrosInv` for limits 2, 3 and 4 before, and
  that `Teto - 1` is too little for 2 and 3.
- `UmaAUmaImplementaAcesso`: `ImplementaAcesso`, under the hypothesis `UmaRequisicao` that requests do
  not overlap, which is what `contas_serial` instantiates. `FielALinha` is the invariant it needs:
  while a request is alone, its copy is made of the row as it is now, so each UPDATE is one of
  `Acesso`'s steps (a success, a failure, an unblock, an administrator's save) or changes nothing it
  speaks of. Two requests that overlap break it, as `ErrosLimitados` shows.

**Sessions** (`Sessao_proofs`)

- `SessaoSempreCoerente`, `TiposDaSessao`: `SessaoInv`, and its first part `TypeOK`. The rest of
  `SessaoInv`: the access cookie is of the owner of the refresh cookie until a refresh crosses a change
  of session (`CookiesCertos`); and what a call in progress holds (`Coerente`): a token that was issued,
  an answer that names its owner and, as long as the call is not from before the last change of session,
  the refresh cookie of the browser and an access token of the same account.
- `AcessoDeOutroChegaAtrasado`: `AcessoAlheioSoPorAtraso`, because a refresh that is not late brings a token
  for the owner of the very cookie that is there.
- `OutroNaTelaSoComMotivo`: `TelaDeOutroSoPorOutraAbaOuAtraso`. The cookies change owner only with an answer
  (`SoRecebendo`), and who an answer puts on screen is who the call's access token named, hence, by
  `Coerente`, the owner of the cookies; the exceptions are the ones the property lists.
- `TelaMantemRenovacao`: `TelaSemRenovacaoSoPorPreferencias`. Every step keeps the renewals of a tab
  (`RenovacaoFica`), replaces one by another or takes the user off the screen.

They are about `Spec`; `SpecCena`, which the run `sessao` explores, has fewer behaviours.

**Notifications and list caches** (`Notificacoes_proofs`)

- `NotasSempreCoerentes`, `NadaFaltaNaTela`, `ContagemSoErraPorMarca`, `SegundaSoDeCruzamento`: the three
  properties of `Notificacoes`, from `NotasInv`. Its core is `NadaEscapa`: if the tab has its stream
  and awaits no list, an unread notification it does not show is on its way in the stream, was taken
  off or left out by a whole list or lost by a failure (`perdidas`), or is being marked or deleted by the
  tab itself; a call whose request will not be served (`morta`) is still the tab's until it hears so. The other two
  need besides that what a request remembers of the table is what it still is, as long as nobody
  else wrote (`SoAindaVale`); `TotaisCabem` counts what creations and pushes can still add.
- `ListaSempreEmDia`, `VelhaSoSobNumeroDeVolta`: `ListaVelhaSoSobNumeroDeVolta`, from `ListaInv`: while a
  number has not come back, what is kept under it, or about to be, has seen every write answered
  (`CorrenteEmDia`); `NumerosCabem` counts the writes that have still to raise it.
- `TiposDasListas`: `TiposOK` of the composition.

**Shelves, index, backups** (`Arquivos_proofs`)

- `PastasSempreCoerentes`, `ArquivoEObjetoJuntos`, `IndiceSoErraDesviado`, `NadaPuladoSemMudanca`: the
  three properties of `Pastas`, from `PastasInv`. For the files: who may know of a new file or
  shelf (`CriacaoASos`, `ArquivoASos`), what a deletion has read (`AlvosCertos`,
  `RemocaoLeuTudo`), and that an object without a row is one whose deletion was hidden (`largados`).
  For the index: a document that is not what the table has is `desviada`, or an
  update is still to come (`IndicePorVir`, and the same of updates under way and of the batch).
  For the reindexing: as long as no shelf comes or goes and nothing has failed, the batches sent are the first places
  (`LotesEmOrdem`). `Cabem` counts requests and updates, so that there is always a free slot.
- `CopiasSempreCoerentes`, `RestauracaoTemCopia`, `ProntoFica`: `RestauracaoSoApagaComCopia` and
  `BackupProntoFica`, from `CopiasInv`: what each operation is in the middle of
  (`OperacoesCertas`: a restore that loads holds the dump whose tables it has dropped), whose the name of a finished backup is (`ProntosDoNome`), and that a restore
  past its copy of `uploads/` has in the copy all that is there and did not come since
  (`UploadsCopiados`).
- `TiposDosArquivos`: `TypeOK` of the composition.

Each proof module follows one plan: the invariant in named parts, lemmas about the operators and
about types, one lemma per action, the step, and the temporal theorem by `PTL`. The invariants were
checked by TLC on the instances of the runs before they were proved.

Only model-checked:

- Liveness (`ListaAcabaAtual`, `DesativadaSai`, `RevogadaSai`), which like `ENABLED` is out of the
  provers' reach. No module uses recursion.

The theorems that name a hypothesis hold under it alone: one audit, one request at a time, no edit that
asks for a position, two requests for `ErrosLimitados`. How many errors three clients or more may see
is neither checked nor proved: `Teto` is the bound of two.

## 5. What is not modelled, and the plan

Modelled: records, audit chain, tasks, columns and members, accounts, blocked addresses, sessions,
notifications, shelves with their objects and documents, list caches, backups. The proofs
reach every one of these; what they leave to TLC is at the end of section 4.

Not modelled yet: the system settings, the keys of users who are online, the detection of
suspicious addresses, the broadcast of changes (`sync`), the documents of the index other than those of
shelves (the same methods send them), notification preferences and web push, which event creates which
notification, whole projects, the optimistic board.

Left out for good: PDF, DOCX, export and spreadsheet layout, statistics and other read-only queries,
antivirus, OCR and mail adapters, the queues (nothing in the repository calls `addImportJob` or its
siblings, and the feature is off by default), external systems (SEI, SEIRN), health and metrics, seeding,
migrations, CSRF and the rest of the HTTP pipeline, pages and forms of the frontend; they are input and
output, and keep no state that a rule of the system depends on. The share of the repository's lines
that is modelled stays small for that reason: most of it is pages, queries and layout.
