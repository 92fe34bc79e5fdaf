------------------------------- MODULE Projeto -------------------------------
(***************************************************************************)
(* One Kanban project: its columns (ColunasService, arquivarTarefa) and    *)
(* its members (ProjetosService), with several requests at once.           *)
(*                                                                         *)
(* Nothing here runs in a transaction but the search for the archive: a    *)
(* reordering reads all the columns and then saves those it shifts one by  *)
(* one.  save looks the row up again: it updates what differs, and inserts *)
(* a row that is gone.                                                     *)
(***************************************************************************)
EXTENDS Naturals, FiniteSets

CONSTANTS
    Reqs,           \* the requests that may be in progress at one time
    Colunas,        \* column ids
    Padrao,         \* the columns a new project gets, as [Colunas -> order], or fewer
    Tarefas,        \* the tasks
    MaxOrdem,       \* bound: order of a column
    MaxPedidos,     \* bound: requests in all
    Pessoas,        \* those who may be members
    Dono,           \* the creator, or a global administrator: not among the members
    Ausente         \* no such row

ASSUME PadraoAssumption ==
    /\ DOMAIN Padrao \subseteq Colunas
    /\ \A c \in DOMAIN Padrao : Padrao[c] \in 1 .. MaxOrdem
ASSUME DonoAssumption == Dono \notin Pessoas
ASSUME LimitesAssumption == MaxOrdem \in Nat /\ MaxPedidos \in Nat

VARIABLES
    colunas,        \* the table of columns
    onde,           \* the column each task is in
    membros,        \* the role of each member
    pedidos,        \* what each request in progress holds
    chegaram        \* how many requests have begun

vars == << colunas, onde, membros, pedidos, chegaram >>

Ordens == 1 .. MaxOrdem
Coluna == [ordem: Ordens, arquivadas: BOOLEAN]
Papeis == {"admin", "editor"}
Livre == [fase |-> "livre"]

ASSUME SentinelaAssumption ==
    /\ Ausente \notin Coluna /\ Ausente \notin Papeis /\ Ausente \notin Ordens
    /\ Ausente \notin Colunas /\ Ausente \notin Tarefas

Presente(c) == colunas[c] # Ausente
Presentes == { c \in Colunas : Presente(c) }
NaColuna(c) == { t \in Tarefas : onde[t] = c }
Ultima == IF Presentes = {} THEN 0
          ELSE CHOOSE m \in { colunas[c].ordem : c \in Presentes } :
                  \A c \in Presentes : colunas[c].ordem <= m
Distintas(tabela) ==
    \A c, d \in Colunas :
       c # d /\ tabela[c] # Ausente /\ tabela[d] # Ausente
       => tabela[c].ordem # tabela[d].ordem
Admins(tabela) == { p \in Pessoas : tabela[p] = "admin" }

\* A request about columns.  alvo is the column it names, as read, with the tasks that
\* came with it in lidas; lista the columns to be shifted, with their new order; item
\* the one being saved, fim if it is the last.  History: so as long as no other request
\* has written a column, eram if the orders were distinct at the start.
Linha == [id: Colunas, ordem: Ordens, arquivadas: BOOLEAN]
PedidoColuna ==
    [ fase: {"listar", "deslocar", "salvar", "atualizar", "repor", "ultima", "inserir",
             "excluir", "procurar", "levar"},
      tipo: {"criar", "mover", "remover", "arquivar"},
      alvo: Linha \cup {Ausente}, ordem: Ordens \cup {Ausente},
      lidas: SUBSET Tarefas, tarefa: Tarefas \cup {Ausente},
      lista: SUBSET Linha, item: Linha \cup {Ausente}, fim: BOOLEAN,
      so: BOOLEAN, eram: BOOLEAN ]
PedidoMembro ==
    [ fase: {"lerMembro", "salvarMembro", "gravarMembro", "inserirMembro", "excluirMembro"},
      tipo: {"incluir", "alterar", "retirar"}, quem: Pessoas \cup {Dono},
      alvo: Pessoas, papel: Papeis \cup {Ausente}, admins: SUBSET Pessoas, so: BOOLEAN ]

Ocupado(r) == pedidos[r] # Livre
DeColuna(r) == Ocupado(r) /\ pedidos[r].tipo \in {"criar", "mover", "remover", "arquivar"}

\* The id of a new row: one that no request knows of.
IdNovo(c) ==
    /\ ~Presente(c)
    /\ \A r \in Reqs : DeColuna(r) =>
          LET p == pedidos[r]
          IN  \A x \in p.lista \cup ({p.alvo, p.item} \ {Ausente}) : x.id # c

-----------------------------------------------------------------------------
\* create saves the default columns one by one: it may have stopped in between.
Init ==
    /\ \E n \in Ordens \cup {0} :
          colunas = [c \in Colunas |->
                       IF c \in DOMAIN Padrao /\ Padrao[c] <= n
                       THEN [ordem |-> Padrao[c], arquivadas |-> FALSE] ELSE Ausente]
    /\ onde = [t \in Tarefas |-> Ausente]
    /\ membros = [p \in Pessoas |-> Ausente]
    /\ pedidos = [r \in Reqs |-> Livre]
    /\ chegaram = 0

-----------------------------------------------------------------------------
(* Requests about columns begin. *)

LinhaDe(c) == [id |-> c, ordem |-> colunas[c].ordem, arquivadas |-> colunas[c].arquivadas]

Iniciar(r, tipo, fase, alvo, ordem, lidas, t) ==
    /\ ~Ocupado(r)
    /\ pedidos' = [pedidos EXCEPT ![r] =
          [ fase |-> fase, tipo |-> tipo, alvo |-> alvo, ordem |-> ordem,
            lidas |-> lidas, tarefa |-> t, lista |-> {}, item |-> Ausente,
            fim |-> FALSE, so |-> TRUE, eram |-> Distintas(colunas) ]]
    /\ chegaram < MaxPedidos /\ chegaram' = chegaram + 1
    /\ UNCHANGED << colunas, onde, membros >>

\* POST /colunas, at a place or at the end.
PedirColuna(r, ordem) ==
    Iniciar(r, "criar", IF ordem = Ausente THEN "ultima" ELSE "listar",
            Ausente, ordem, {}, Ausente)

\* PATCH /colunas/:id with an order, or without one: the order read is saved along.
PedirEdicao(r, c, ordem) ==
    /\ Presente(c)
    /\ IF ordem \in {Ausente, colunas[c].ordem}
       THEN Iniciar(r, "mover", "salvar", LinhaDe(c), colunas[c].ordem, NaColuna(c), Ausente)
       ELSE Iniciar(r, "mover", "listar", LinhaDe(c), ordem, NaColuna(c), Ausente)

\* PATCH /colunas/:id/move/:ordem: up to the number of columns.
PedirPosicao(r, c, ordem) ==
    /\ Presente(c) /\ ordem <= Cardinality(Presentes) /\ ordem # colunas[c].ordem
    /\ Iniciar(r, "mover", "listar", LinhaDe(c), ordem, NaColuna(c), Ausente)

\* DELETE /colunas/:id: refused if there are tasks in it.
PedirRemocao(r, c) ==
    /\ Presente(c) /\ NaColuna(c) = {}
    /\ Iniciar(r, "remover", "listar", LinhaDe(c), Ausente, {}, Ausente)

\* POST /tarefas/:id/arquivar
PedirArquivo(r, t) ==
    /\ onde[t] # Ausente
    /\ Iniciar(r, "arquivar", "procurar", Ausente, Ausente, {}, t)

-----------------------------------------------------------------------------
(* Their steps. *)

NadaMuda == UNCHANGED << colunas, onde, membros, chegaram >>
Fica(r, p) == pedidos' = [pedidos EXCEPT ![r] = p]
\* Request r has written a column and goes on with p.
Escreve(r, p) ==
    pedidos' = [q \in Reqs |-> IF q = r THEN p
                               ELSE IF DeColuna(q) THEN [pedidos[q] EXCEPT !.so = FALSE]
                               ELSE pedidos[q]]

\* Which columns reorderColumns shifts, and where to.
\* Mutant: moving back, the column in the place aimed at is left there.
DeslocadaSemDestino(p, o) ==
    CASE p.tipo = "criar" -> IF o >= p.ordem THEN o + 1 ELSE o
      [] p.tipo = "remover" -> IF o > p.alvo.ordem THEN o - 1 ELSE o
      [] p.tipo = "mover" /\ p.ordem > p.alvo.ordem ->
            IF o > p.alvo.ordem /\ o <= p.ordem THEN o - 1 ELSE o
      [] OTHER -> IF o > p.ordem /\ o < p.alvo.ordem THEN o + 1 ELSE o
Deslocada(p, o) ==
    CASE p.tipo = "criar" -> IF o >= p.ordem THEN o + 1 ELSE o
      [] p.tipo = "remover" -> IF o > p.alvo.ordem THEN o - 1 ELSE o
      [] p.tipo = "mover" /\ p.ordem > p.alvo.ordem ->
            IF o > p.alvo.ordem /\ o <= p.ordem THEN o - 1 ELSE o
      [] OTHER -> IF o >= p.ordem /\ o < p.alvo.ordem THEN o + 1 ELSE o

\* After the columns of the list comes what the request is about.
Adiante(p) ==
    [p EXCEPT !.fase = IF p.lista # {} THEN "deslocar"
                       ELSE CASE p.tipo = "criar" -> "inserir"
                              [] p.tipo = "mover" -> "salvar"
                              [] p.tipo = "remover" -> "excluir"]
Depois(p) == IF p.fim THEN Livre ELSE Adiante(p)

\* reorderColumns: find.
Listar(r) ==
    LET p == pedidos[r]
        lista == { [LinhaDe(c) EXCEPT !.ordem = Deslocada(p, @)] :
                   c \in { d \in Presentes :
                             Deslocada(p, colunas[d].ordem) # colunas[d].ordem } }
    IN  /\ p.fase = "listar"
        /\ \A x \in lista : x.ordem \in Ordens
        /\ Fica(r, Adiante([p EXCEPT !.lista = lista]))
        /\ NadaMuda

\* save: a SELECT of the row as it is now decides what is to be written, if anything.
Examinar(r, p) ==
    /\ Fica(r, IF ~Presente(p.item.id) THEN [p EXCEPT !.fase = "repor"]
               ELSE IF colunas[p.item.id].ordem # p.item.ordem \/ (p.fim /\ p.lidas # {})
                    THEN [p EXCEPT !.fase = "atualizar"]
                    ELSE Depois(p))
    /\ NadaMuda

\* reorderColumns: the columns of the list in their order.
Deslocar(r) ==
    LET p == pedidos[r]
    IN  /\ p.fase = "deslocar"
        /\ \E x \in p.lista :
              /\ \A y \in p.lista : x.ordem <= y.ordem
              /\ Examinar(r, [p EXCEPT !.lista = @ \ {x}, !.item = x])

\* update, moveColumn: the column itself, with the tasks it was read with.  TypeORM
\* takes a task that has come in since out of the column, which may not be null, ...
Salvar(r) ==
    LET p == pedidos[r]
    IN  /\ p.fase = "salvar" /\ NaColuna(p.alvo.id) \subseteq p.lidas
        /\ Examinar(r, [p EXCEPT !.item = [p.alvo EXCEPT !.ordem = p.ordem],
                                 !.lidas = @ \ NaColuna(p.alvo.id), !.fim = TRUE])

\* ... and puts one that has left it back.
\* Mutant: it puts any task of the project into the column.
DevolverTudo(p) ==
    [t \in Tarefas |-> IF p.fim /\ onde[t] # Ausente THEN p.item.id ELSE onde[t]]
Devolver(p) ==
    [t \in Tarefas |-> IF p.fim /\ t \in p.lidas /\ onde[t] # Ausente THEN p.item.id
                       ELSE onde[t]]

\* The UPDATE, which does not find a row deleted in between; tasks cannot point to it.
Atualizar(r) ==
    LET p == pedidos[r]
        x == p.item
    IN  /\ p.fase = "atualizar"
        /\ Presente(x.id) \/ Devolver(p) = onde
        /\ colunas' = [colunas EXCEPT ![x.id] =
              IF @ = Ausente THEN @ ELSE [@ EXCEPT !.ordem = x.ordem]]
        /\ onde' = Devolver(p)
        /\ Escreve(r, Depois(p))
        /\ UNCHANGED << membros, chegaram >>

\* The INSERT of a row that was gone.
Repor(r) ==
    LET p == pedidos[r]
        x == p.item
    IN  /\ p.fase = "repor" /\ ~Presente(x.id)
        /\ colunas' = [colunas EXCEPT ![x.id] =
              [ordem |-> x.ordem, arquivadas |-> x.arquivadas]]
        /\ onde' = Devolver(p)
        /\ Escreve(r, Depois(p))
        /\ UNCHANGED << membros, chegaram >>

\* remove: the DELETE, refused by the foreign key while a task is in the column.
\* Mutant: it is not refused.
ExcluirComTarefas(r) ==
    LET p == pedidos[r]
    IN  /\ p.fase = "excluir"
        /\ colunas' = [colunas EXCEPT ![p.alvo.id] = Ausente]
        /\ Escreve(r, Livre)
        /\ UNCHANGED << onde, membros, chegaram >>
Excluir(r) ==
    LET p == pedidos[r]
    IN  /\ p.fase = "excluir" /\ NaColuna(p.alvo.id) = {}
        /\ colunas' = [colunas EXCEPT ![p.alvo.id] = Ausente]
        /\ Escreve(r, Livre)
        /\ UNCHANGED << onde, membros, chegaram >>

\* arquivarTarefa: find the column "Arquivadas".
Procurar(r) ==
    LET p == pedidos[r]
        achadas == { c \in Presentes : colunas[c].arquivadas }
    IN  /\ p.fase = "procurar"
        /\ \/ \E c \in achadas : Fica(r, [p EXCEPT !.fase = "levar", !.alvo = LinhaDe(c)])
           \/ achadas = {} /\ Fica(r, [p EXCEPT !.fase = "ultima"])
        /\ NadaMuda

\* The order after the last column.
LerUltima(r) ==
    /\ pedidos[r].fase = "ultima" /\ Ultima < MaxOrdem
    /\ Fica(r, [pedidos[r] EXCEPT !.fase = "inserir", !.ordem = Ultima + 1])
    /\ NadaMuda

\* A new column.
Inserir(r) ==
    LET p == pedidos[r]
    IN  /\ p.fase = "inserir"
        /\ \E c \in Colunas :
              /\ IdNovo(c)
              /\ colunas' = [colunas EXCEPT ![c] =
                    [ordem |-> p.ordem, arquivadas |-> p.tipo = "arquivar"]]
              /\ Escreve(r, IF p.tipo = "criar" THEN Livre
                            ELSE [p EXCEPT !.fase = "levar",
                                     !.alvo = [id |-> c, ordem |-> p.ordem,
                                               arquivadas |-> TRUE]])
        /\ UNCHANGED << onde, membros, chegaram >>

\* moveTarefa to the archive.
Levar(r) ==
    LET p == pedidos[r]
    IN  /\ p.fase = "levar" /\ Presente(p.alvo.id) /\ onde[p.tarefa] # Ausente
        /\ onde' = [onde EXCEPT ![p.tarefa] = p.alvo.id]
        /\ Fica(r, Livre)
        /\ UNCHANGED << colunas, membros, chegaram >>

\* A task is created in a column, moved to another one, or removed.
MexerTarefa(t, c) ==
    /\ c # onde[t] /\ (c # Ausente => Presente(c))
    /\ onde' = [onde EXCEPT ![t] = c]
    /\ UNCHANGED << colunas, membros, pedidos, chegaram >>

-----------------------------------------------------------------------------
(* Members: every request reads the project with its members, and whether who asks may *)
(* manage them; then the member; then it writes.                                       *)

PedirMembro(r, tipo, quem, alvo, papel) ==
    /\ ~Ocupado(r)
    /\ quem \in {Dono} \cup Admins(membros)
    /\ tipo = "retirar" <=> papel = Ausente
    /\ pedidos' = [pedidos EXCEPT ![r] =
          [ fase |-> "lerMembro", tipo |-> tipo, quem |-> quem, alvo |-> alvo,
            papel |-> papel, admins |-> Admins(membros), so |-> TRUE ]]
    /\ chegaram < MaxPedidos /\ chegaram' = chegaram + 1
    /\ UNCHANGED << colunas, onde, membros >>

\* The only administrator who changes their own role must remain one: the member is
\* read again, the number of administrators is not.
\* Mutant: there is no such condition.
PodeAlterarSempre(p) == membros[p.alvo] # Ausente
PodeAlterar(p) ==
    /\ membros[p.alvo] # Ausente
    /\ p.alvo = p.quem /\ membros[p.alvo] = "admin" /\ Cardinality(p.admins) <= 1
       => p.papel = "admin"

LerMembro(r) ==
    LET p == pedidos[r]
    IN  /\ p.fase = "lerMembro"
        /\ \/ /\ p.tipo = "incluir" /\ membros[p.alvo] = Ausente
              /\ Fica(r, [p EXCEPT !.fase = "inserirMembro"])
           \/ /\ p.tipo = "alterar" /\ PodeAlterar(p)
              /\ Fica(r, [p EXCEPT !.fase = "salvarMembro"])
           \/ /\ p.tipo = "retirar" /\ membros[p.alvo] # Ausente
              /\ Fica(r, [p EXCEPT !.fase = "excluirMembro"])
        /\ NadaMuda

\* save: a SELECT, then an UPDATE, an INSERT if the member has been removed, or nothing.
SalvarMembro(r) ==
    LET p == pedidos[r]
    IN  /\ p.fase = "salvarMembro"
        /\ Fica(r, IF membros[p.alvo] = p.papel THEN Livre
                   ELSE [p EXCEPT !.fase = IF membros[p.alvo] = Ausente
                                           THEN "inserirMembro" ELSE "gravarMembro"])
        /\ NadaMuda

\* The write.  A member is there once; an UPDATE may find nobody.
EscreverMembro(r) ==
    LET p == pedidos[r]
    IN  /\ p.fase \in {"inserirMembro", "gravarMembro", "excluirMembro"}
        /\ p.fase = "inserirMembro" => membros[p.alvo] = Ausente
        /\ membros' = [membros EXCEPT ![p.alvo] =
              IF p.fase = "gravarMembro" /\ @ = Ausente THEN @ ELSE p.papel]
        /\ pedidos' = [q \in Reqs |->
              IF q = r THEN Livre
              ELSE IF Ocupado(q) /\ ~DeColuna(q) THEN [pedidos[q] EXCEPT !.so = FALSE]
              ELSE pedidos[q]]
        /\ UNCHANGED << colunas, onde, chegaram >>

\* An error ends the request; what it has written stays.
Falhar(r) == Ocupado(r) /\ Fica(r, Livre) /\ NadaMuda

-----------------------------------------------------------------------------
Chegar(r) ==
    \/ \E o \in Ordens \cup {Ausente} : \/ PedirColuna(r, o)
                                        \/ \E c \in Colunas : PedirEdicao(r, c, o)
    \/ \E c \in Colunas : PedirRemocao(r, c) \/ \E o \in Ordens : PedirPosicao(r, c, o)
    \/ \E t \in Tarefas : PedirArquivo(r, t)
    \/ \E tipo \in {"incluir", "alterar", "retirar"}, quem \in Pessoas \cup {Dono},
          alvo \in Pessoas, papel \in Papeis \cup {Ausente} :
          PedirMembro(r, tipo, quem, alvo, papel)

ContinuarColuna(r) ==
    \/ Listar(r)
    \/ Deslocar(r)
    \/ Salvar(r)
    \/ Atualizar(r)
    \/ Repor(r)
    \/ Excluir(r)
    \/ Procurar(r)
    \/ LerUltima(r)
    \/ Inserir(r)
    \/ Levar(r)

\* Nobody asks for anything any more.
Parar ==
    /\ chegaram = MaxPedidos /\ \A r \in Reqs : ~Ocupado(r)
    /\ UNCHANGED vars

Next ==
    \/ Parar
    \/ \E r \in Reqs : \/ Chegar(r)
                       \/ ContinuarColuna(r)
                       \/ LerMembro(r)
                       \/ SalvarMembro(r)
                       \/ EscreverMembro(r)
                       \/ Falhar(r)
    \/ \E t \in Tarefas, c \in Colunas \cup {Ausente} : MexerTarefa(t, c)

Spec == Init /\ [][Next]_vars
-----------------------------------------------------------------------------
TypeOK ==
    /\ colunas \in [Colunas -> Coluna \cup {Ausente}]
    /\ onde \in [Tarefas -> Colunas \cup {Ausente}]
    /\ \A t \in Tarefas : onde[t] # Ausente => Presente(onde[t])
    /\ membros \in [Pessoas -> Papeis \cup {Ausente}]
    /\ chegaram \in 0 .. MaxPedidos
    /\ pedidos \in [Reqs -> {Livre} \cup PedidoColuna \cup PedidoMembro]

\* A request about columns whose every write came off, with no other one's in between,
\* leaves the orders distinct if they were, and creates no column "Arquivadas" where
\* there is one: two columns share a place, and there are two archives, only after
\* requests that crossed, or one that stopped half way.
ColunasCoerentesSeSozinha ==
    [][ \A r \in Reqs :
           DeColuna(r) /\ pedidos[r].so /\ pedidos'[r] # pedidos[r] /\ colunas' # colunas =>
           /\ pedidos[r].eram /\ pedidos'[r] = Livre => Distintas(colunas')
           /\ /\ pedidos[r].tipo = "arquivar" /\ pedidos[r].fase = "inserir"
              /\ pedidos'[r] # Livre /\ pedidos'[r].fase = "levar"
              => \A c \in Presentes : ~colunas[c].arquivadas ]_vars

\* A request about a column moves a task only to the archive it was asked to, or back
\* to the column it had read it in.
TarefaSoDevolvidaAOndeFoiLida ==
    [][ \A t \in Tarefas :
           onde'[t] # onde[t] /\ pedidos' # pedidos
           => \E r \in Reqs :
                 /\ DeColuna(r) /\ pedidos'[r] # pedidos[r]
                 /\ \/ pedidos[r].tarefa = t
                    \/ t \in pedidos[r].lidas /\ onde'[t] = pedidos[r].alvo.id ]_vars

\* "Deve haver pelo menos um administrador no projeto": the last one does not step down,
\* if nobody else changed the members meanwhile; the owner, and a removal, may.
UltimoAdminNaoSeRebaixa ==
    [][ Admins(membros) # {} /\ Admins(membros') = {}
        => \E r \in Reqs :
              /\ Ocupado(r) /\ ~DeColuna(r) /\ pedidos'[r] = Livre
              /\ \/ pedidos[r].tipo = "retirar"
                 \/ pedidos[r].quem # pedidos[r].alvo
                 \/ ~pedidos[r].so ]_vars
=============================================================================
