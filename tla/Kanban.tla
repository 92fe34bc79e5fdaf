-------------------------------- MODULE Kanban --------------------------------
(***************************************************************************)
(* The positions of tasks on a project's board: TarefasService, served to  *)
(* several members at once.  A request reads its task before the           *)
(* transaction and keeps the column and the position it read; inside, the  *)
(* positions of a column are shifted under SELECT ... FOR UPDATE.          *)
(*                                                                         *)
(* A transaction is the list of the statements it has still to run, each   *)
(* an await, at PostgreSQL's READ COMMITTED: a statement sees what is      *)
(* committed and the transaction's own writes, a row written or locked by  *)
(* another transaction makes it wait.  Which columns exist and who may     *)
(* edit them belong to ColunasService and ProjetosService.                 *)
(***************************************************************************)
EXTENDS Naturals, Sequences

CONSTANTS
    Reqs,          \* the requests that may be in progress at one time
    Colunas,       \* the columns of the board
    MaxIds,        \* bound: ids the sequence of the table may issue
    MaxOrdem,      \* bound: positions
    Pedidas,       \* bound: the positions a body may ask for
    Editadas,      \* bound: the positions a body of PATCH /tarefas/:id may carry
    SemOrdem,      \* a body without a position (0 counts as none)
    Ausente,       \* no row of the table has this id
    Intacta        \* a row the transaction has not written

Ids == 1 .. MaxIds
Ordem == 1 .. MaxOrdem
Linha == [ coluna: Colunas, ordem: Ordem ]

ASSUME LimitesAssumption ==
    /\ MaxIds \in Nat /\ MaxOrdem \in Nat
    /\ Pedidas \subseteq Ordem /\ Editadas \subseteq Ordem
ASSUME SentinelasAssumption ==
    /\ SemOrdem \notin Ordem
    /\ Ausente \notin Linha /\ Intacta \notin Linha /\ Intacta # Ausente

VARIABLES
    tarefas,       \* the committed rows
    seq,           \* the last id issued
    pedidos        \* what each request in progress holds

vars == << tarefas, seq, pedidos >>

-----------------------------------------------------------------------------
(* The statements of a transaction. *)

Campos == {"coluna", "ordem"}
Selecao == [op: {"selecionar"}, coluna: Colunas]
Deslocamento == [ op: {"reordenar"}, coluna: Colunas, alvo: Ordem,
                  modo: {"insert", "update", "delete"}, atual: Ordem ]
Ultima == [op: {"ultima"}, coluna: Colunas]
Gravacao == [op: {"gravar", "inserir"}, coluna: Colunas, ordem: Ordem \cup {SemOrdem}]
Salvamento == [op: {"salvar"}, linha: Linha, campos: SUBSET Campos]
Carga == [op: {"carregar", "reinserir"}, linha: Linha]
Saida == [op: {"remover"}]
Passo == Selecao \cup Deslocamento \cup Ultima \cup Gravacao \cup Salvamento
                 \cup Carga \cup Saida

\* id is the task the request is about (0: one to be created) and lida its row as
\* read before the transaction.
Tipos == {"criar", "mover", "remover", "editar"}
Transacao == [ fase: {"transacao"}, tipo: Tipos, id: 0 .. MaxIds,
               lida: Linha \cup {Ausente}, passos: Seq(Passo),
               vistas: SUBSET Ids, travadas: SUBSET Ids,
               escritas: [Ids -> Linha \cup {Ausente, Intacta}] ]
Livre == [fase |-> "livre"]

\* reorderTasksWithManager: the locking SELECT, then the shift of what it returns.
Reordenacao(c, modo, alvo, atual) ==
    << [op |-> "selecionar", coluna |-> c],
       [op |-> "reordenar", coluna |-> c, modo |-> modo, alvo |-> alvo,
        atual |-> atual] >>
Gravar(op, c, o) == << [op |-> op, coluna |-> c, ordem |-> o] >>

\* Without a position the task goes after the last one of the column.
Abrir(op, c, o) ==
    IF o = SemOrdem THEN << [op |-> "ultima", coluna |-> c] >> \o Gravar(op, c, o)
    ELSE Reordenacao(c, "insert", o, o) \o Gravar(op, c, o)

PassosMover(lida, c, o) ==
    IF c # lida.coluna
    THEN Reordenacao(lida.coluna, "delete", lida.ordem, lida.ordem)
            \o Abrir("gravar", c, o)
    ELSE IF o \notin {SemOrdem, lida.ordem}
    THEN Reordenacao(c, "update", o, lida.ordem) \o Gravar("gravar", c, o)
    ELSE Gravar("gravar", c, lida.ordem)

PassosRemover(lida) ==
    << [op |-> "remover"] >>
       \o Reordenacao(lida.coluna, "delete", lida.ordem, lida.ordem)

-----------------------------------------------------------------------------
(* What a transaction sees. *)

Presente(i) == tarefas[i] # Ausente

\* Row i for request r.
Vista(r, i) ==
    IF pedidos[r].escritas[i] = Intacta THEN tarefas[i] ELSE pedidos[r].escritas[i]
NaColuna(r, c) == { i \in Ids : Vista(r, i) # Ausente /\ Vista(r, i).coluna = c }

TravadaPorOutra(r, i) ==
    \E s \in Reqs \ {r} : pedidos[s] # Livre /\ i \in pedidos[s].travadas

\* A row at position o is shifted down the list, or up the list, by shift m.
\* Mutant: the insert leaves the task at the position asked for where it is.
DesceSemAlvo(o, m) ==
    \/ m.modo = "insert" /\ o > m.alvo
    \/ m.modo = "update" /\ o >= m.alvo /\ o < m.atual
Desce(o, m) ==
    \/ m.modo = "insert" /\ o >= m.alvo
    \/ m.modo = "update" /\ o >= m.alvo /\ o < m.atual
Sobe(o, m) ==
    \/ m.modo = "delete" /\ o > m.alvo
    \/ m.modo = "update" /\ o > m.atual /\ o <= m.alvo

\* Mutant: the update swaps two tasks rather than shifting those in between.
DeslocadaPorTroca(o, m) ==
    IF m.modo = "update" THEN (IF o = m.alvo THEN m.atual ELSE o)
    ELSE IF Desce(o, m) THEN o + 1 ELSE IF Sobe(o, m) THEN o - 1 ELSE o
\* The position it then has.
Deslocada(o, m) ==
    IF Desce(o, m) THEN o + 1 ELSE IF Sobe(o, m) THEN o - 1 ELSE o

-----------------------------------------------------------------------------
Init ==
    /\ tarefas = [i \in Ids |-> Ausente]
    /\ seq = 0
    /\ pedidos = [r \in Reqs |-> Livre]

Iniciar(r, tipo, id, lida, passos) ==
    /\ pedidos[r] = Livre
    /\ pedidos' = [pedidos EXCEPT ![r] =
          [ fase |-> "transacao", tipo |-> tipo, id |-> id, lida |-> lida,
            passos |-> passos, vistas |-> {}, travadas |-> {},
            escritas |-> [i \in Ids |-> Intacta] ]]
    /\ UNCHANGED << tarefas, seq >>

\* POST /tarefas and POST /tarefas/:id/duplicar (which asks for no position).
PedirCriacao(r, c, o) == Iniciar(r, "criar", 0, Ausente, Abrir("inserir", c, o))

\* PATCH /tarefas/:id/mover and PATCH /tarefas/:id/arquivar (a move, with no
\* position, to the column Arquivadas): findOne, then the transaction.
PedirMovimento(r, i, c, o) ==
    /\ Presente(i)
    /\ Iniciar(r, "mover", i, tarefas[i], PassosMover(tarefas[i], c, o))

\* DELETE /tarefas/:id
PedirRemocao(r, i) ==
    /\ Presente(i)
    /\ Iniciar(r, "remover", i, tarefas[i], PassosRemover(tarefas[i]))

\* PATCH /tarefas/:id: findOne, Object.assign of the body, save.  A position in the
\* body is written as it is, without shifting anything.
PedirEdicao(r, i, o) ==
    /\ Presente(i)
    /\ Iniciar(r, "editar", i, tarefas[i],
          << [op |-> "carregar",
              linha |-> IF o = SemOrdem THEN tarefas[i]
                        ELSE [tarefas[i] EXCEPT !.ordem = o]] >>)

-----------------------------------------------------------------------------
(* One statement of a transaction in progress. *)

Proximo(r, op) ==
    /\ pedidos[r] # Livre
    /\ pedidos[r].passos # << >>
    /\ Head(pedidos[r].passos).op = op

\* The request goes on with p, its first statement done; nothing is committed yet.
Seguir(r, p) ==
    /\ pedidos' = [pedidos EXCEPT ![r] = [p EXCEPT !.passos = Tail(@)]]
    /\ UNCHANGED tarefas
Escrever(p, i, linha) ==
    [p EXCEPT !.escritas[i] = linha, !.travadas = @ \cup {i}]

\* The locking SELECT takes its snapshot ...
Selecionar(r) ==
    /\ Proximo(r, "selecionar")
    /\ LET p == pedidos[r]
       IN  Seguir(r, [p EXCEPT !.vistas = NaColuna(r, Head(p.passos).coluna)])
    /\ UNCHANGED seq

\* ... waits for the rows in it, drops those that have left the column meanwhile,
\* and the rows it returns, now locked, are shifted and saved.
\* Mutant: without the lock.
ReordenarSemTrava(r) ==
    /\ Proximo(r, "reordenar")
    /\ LET p == pedidos[r]
           m == Head(p.passos)
           linhas == p.vistas \cap NaColuna(r, m.coluna)
       IN  /\ \A i \in linhas : Deslocada(Vista(r, i).ordem, m) <= MaxOrdem
           /\ Seguir(r, [p EXCEPT
                 !.escritas = [i \in Ids |->
                    IF i \in linhas
                    THEN [Vista(r, i) EXCEPT !.ordem = Deslocada(@, m)] ELSE @[i]]])
    /\ UNCHANGED seq
Reordenar(r) ==
    /\ Proximo(r, "reordenar")
    /\ LET p == pedidos[r]
           m == Head(p.passos)
           linhas == p.vistas \cap NaColuna(r, m.coluna)
           novaOrdem(i) == Deslocada(Vista(r, i).ordem, m)
       IN  /\ \A i \in p.vistas : ~TravadaPorOutra(r, i)
           /\ \A i \in linhas : novaOrdem(i) <= MaxOrdem
           /\ Seguir(r, [p EXCEPT
                 !.travadas = @ \cup linhas,
                 !.escritas = [i \in Ids |->
                    IF i \in linhas /\ novaOrdem(i) # Vista(r, i).ordem
                    THEN [Vista(r, i) EXCEPT !.ordem = novaOrdem(i)] ELSE @[i]]])
    /\ UNCHANGED seq

\* findOne of the last task of the column, without a lock: o is its position, 0 if
\* there is none.  The next statement gets the position after it.
LerUltima(r) ==
    /\ Proximo(r, "ultima")
    /\ LET p == pedidos[r]
           ordens == { Vista(r, i).ordem : i \in NaColuna(r, Head(p.passos).coluna) }
       IN  \E o \in 0 .. MaxOrdem - 1 :
              /\ \A x \in ordens : x <= o
              /\ o \in ordens \/ (o = 0 /\ ordens = {})
              /\ Seguir(r, [p EXCEPT !.passos[2].ordem = o + 1])
    /\ UNCHANGED seq

\* moveTarefa's UPDATE of its own row, by id: no row, nothing written, unless the
\* column changed: then the history entry that follows has no task to refer to.
GravarPosicao(r) ==
    /\ Proximo(r, "gravar")
    /\ LET p == pedidos[r]
           g == Head(p.passos)
       IN  /\ ~TravadaPorOutra(r, p.id)
           /\ IF Vista(r, p.id) # Ausente
              THEN Seguir(r, Escrever(p, p.id, [coluna |-> g.coluna, ordem |-> g.ordem]))
              ELSE g.coluna = p.lida.coluna /\ Seguir(r, p)
    /\ UNCHANGED seq

\* create's INSERT.
InserirTarefa(r) ==
    /\ Proximo(r, "inserir")
    /\ seq < MaxIds
    /\ seq' = seq + 1
    /\ LET g == Head(pedidos[r].passos)
       IN  Seguir(r, Escrever(pedidos[r], seq + 1,
                              [coluna |-> g.coluna, ordem |-> g.ordem]))

\* remove's DELETE by id.
RemoverTarefa(r) ==
    /\ Proximo(r, "remover")
    /\ LET p == pedidos[r]
       IN  /\ ~TravadaPorOutra(r, p.id)
           /\ Seguir(r, IF Vista(r, p.id) # Ausente THEN Escrever(p, p.id, Ausente)
                                                  ELSE p)
    /\ UNCHANGED seq

\* save loads the row to find what differs from the entity; without a row it will
\* INSERT the entity with its id.
CarregarTarefa(r) ==
    /\ Proximo(r, "carregar")
    /\ LET p == pedidos[r]
           l == Head(p.passos).linha
       IN  pedidos' = [pedidos EXCEPT ![r].passos =
              IF Presente(p.id)
              THEN << [op |-> "salvar", linha |-> l,
                       campos |-> { k \in Campos : l[k] # tarefas[p.id][k] }] >>
              ELSE << [op |-> "reinserir", linha |-> l] >>]
    /\ UNCHANGED << tarefas, seq >>

SalvarTarefa(r) ==
    /\ Proximo(r, "salvar")
    /\ LET p == pedidos[r]
           s == Head(p.passos)
       IN  /\ ~TravadaPorOutra(r, p.id)
           /\ Seguir(r, IF Presente(p.id)
                        THEN Escrever(p, p.id,
                                [k \in Campos |-> IF k \in s.campos THEN s.linha[k]
                                                  ELSE tarefas[p.id][k]])
                        ELSE p)
    /\ UNCHANGED seq

ReinserirTarefa(r) ==
    /\ Proximo(r, "reinserir")
    /\ LET p == pedidos[r]
       IN  /\ ~Presente(p.id) /\ ~TravadaPorOutra(r, p.id)
           /\ Seguir(r, Escrever(p, p.id, Head(p.passos).linha))
    /\ UNCHANGED seq

\* COMMIT
Confirmar(r) ==
    /\ pedidos[r] # Livre /\ pedidos[r].passos = << >>
    /\ tarefas' = [i \in Ids |-> Vista(r, i)]
    /\ pedidos' = [pedidos EXCEPT ![r] = Livre]
    /\ UNCHANGED seq

\* ROLLBACK: a rejected query, a violated key, or the victim PostgreSQL picks when
\* transactions wait for each other.  An id it drew stays drawn.
Falhar(r) ==
    /\ pedidos[r] # Livre
    /\ pedidos' = [pedidos EXCEPT ![r] = Livre]
    /\ UNCHANGED << tarefas, seq >>

Chegar(r) ==
    \/ \E c \in Colunas, o \in Pedidas \cup {SemOrdem} :
          \/ PedirCriacao(r, c, o)
          \/ \E i \in Ids : PedirMovimento(r, i, c, o)
    \/ \E i \in Ids : PedirRemocao(r, i)
    \/ \E i \in Ids, o \in Editadas \cup {SemOrdem} : PedirEdicao(r, i, o)

Continuar(r) ==
    \/ Selecionar(r)
    \/ Reordenar(r)
    \/ LerUltima(r)
    \/ GravarPosicao(r)
    \/ InserirTarefa(r)
    \/ RemoverTarefa(r)
    \/ CarregarTarefa(r)
    \/ SalvarTarefa(r)
    \/ ReinserirTarefa(r)
    \/ Confirmar(r)
    \/ Falhar(r)

Next == \E r \in Reqs : Chegar(r) \/ Continuar(r)

Spec == Init /\ [][Next]_vars

-----------------------------------------------------------------------------
(* Properties. *)

TypeOK ==
    /\ tarefas \in [Ids -> Linha \cup {Ausente}]
    /\ seq \in 0 .. MaxIds
    /\ pedidos \in [Reqs -> {Livre} \cup Transacao]

\* Row i is shifted by one position, from where it is, never above the first.
DeslocadaPorUm(i) ==
    /\ Presente(i) /\ tarefas'[i].coluna = tarefas[i].coluna
    /\ tarefas'[i].ordem \in { tarefas[i].ordem + 1, tarefas[i].ordem - 1 } \ {0}

\* What the edit of a task, read as lida, may make of its row t (Ausente: inserted again):
\* column and position are those read or those it has by now, or the position in the body.
Editada(l, lida, t) ==
    \E a, b \in {lida, t} \ {Ausente} :
       l.coluna = a.coluna /\ l.ordem \in {b.ordem} \cup Editadas

\* What the locks are for: whatever the interleaving, a commit shifts a task it is not
\* about by one position at most, from where that task is at the commit, and leaves it in
\* its column; without the lock shifts overwrite each other.  It puts elsewhere only the
\* task of a move or of an edit, adds the one task that its request creates, and a task
\* that was deleted comes back only by an edit that had read it, as it was then: neither
\* a move that had read it nor a shift that had seen it brings it back.
CommitSoMudaOSeuOuDesloca ==
    [][ \A i \in Ids :
           tarefas'[i] # Ausente /\ tarefas'[i] # tarefas[i]
           => \E r \in Reqs :
                 /\ pedidos[r] # Livre /\ pedidos'[r] = Livre
                 /\ \/ DeslocadaPorUm(i)
                    \/ /\ pedidos[r].tipo = "criar" /\ ~Presente(i)
                       /\ \A j \in Ids \ {i} : Presente(j) \/ tarefas'[j] = Ausente
                    \/ pedidos[r].tipo = "mover" /\ pedidos[r].id = i /\ Presente(i)
                    \/ /\ pedidos[r].tipo = "editar" /\ pedidos[r].id = i
                       /\ Editada(tarefas'[i], pedidos[r].lida, tarefas[i]) ]_vars

\* "Evita race conditions quando multiplos usuarios movem tarefas simultaneamente":
\* no two tasks of a column have the same position.
OrdensDistintas ==
    \A i, j \in Ids :
       Presente(i) /\ Presente(j) /\ i # j /\ tarefas[i].coluna = tarefas[j].coluna
          => tarefas[i].ordem # tarefas[j].ordem

\* Requests that follow each other keep the tasks in distinct positions, none of them
\* above the first.
PosicoesCoerentes == TypeOK /\ OrdensDistintas
=============================================================================
