---------------------------- MODULE Projeto_proofs -----------------------------
(***************************************************************************)
(* Proofs about the columns and the members of a project (Projeto): for    *)
(* any number of requests, columns, tasks and people.                      *)
(***************************************************************************)
EXTENDS Projeto, FiniteSetTheorems, WellFoundedInduction, TLAPS

-----------------------------------------------------------------------------
(* The inductive invariant. *)

\* What each kind of request about columns holds when it is at each of its steps.
DeCriar(p) ==
    /\ p.fase \in {"ultima", "listar", "deslocar", "atualizar", "repor", "inserir"}
    /\ p.fase # "ultima" => p.ordem \in Ordens
DeMover(p) ==
    /\ p.fase \in {"listar", "deslocar", "atualizar", "repor", "salvar"}
    /\ p.alvo \in Linha /\ p.ordem \in Ordens
    /\ p.fim => p.item \in Linha /\ p.item.id = p.alvo.id /\ p.item.ordem = p.ordem
DeRemover(p) ==
    /\ p.fase \in {"listar", "deslocar", "atualizar", "repor", "excluir"}
    /\ p.alvo \in Linha
DeArquivar(p) ==
    /\ p.fase \in {"procurar", "ultima", "inserir", "levar"} /\ p.tarefa \in Tarefas
    /\ p.fase = "inserir" => p.ordem \in Ordens
    /\ p.fase = "levar" => p.alvo \in Linha
FormaColuna(p) ==
    /\ p.tipo = "criar" => DeCriar(p)
    /\ p.tipo = "mover" => DeMover(p)
    /\ p.tipo = "remover" => DeRemover(p)
    /\ p.tipo = "arquivar" => DeArquivar(p)
    /\ p.fase \in {"atualizar", "repor"} => p.item \in Linha
    /\ p.fim => p.tipo = "mover" /\ p.fase \in {"atualizar", "repor"}
    /\ p.fim \/ p.fase \in {"procurar", "ultima", "salvar", "inserir", "excluir"}
       => p.lista = {}

\* The shifts that are still to be made, and where they take column c of the table.
PorMudar(p) == p.lista \cup (IF p.fase = "atualizar" THEN {p.item} ELSE {})
VaiPara(tabela, p, c, o) ==
    \/ \E x \in PorMudar(p) : x.id = c /\ x.ordem = o
    \/ (\A x \in PorMudar(p) : x.id # c) /\ tabela[c].ordem = o

\* The columns that make room for the one the request is about.
Outras(tabela, p) ==
    { c \in Colunas : /\ tabela[c] # Ausente
                      /\ p.tipo \in {"mover", "remover"} => c # p.alvo.id }

\* Once all shifts are made they are at distinct orders, none of them at the one the
\* request wants for its own.
PlanoDistinto(tabela, p) ==
    /\ \A c, d \in Outras(tabela, p), o \in Ordens :
          VaiPara(tabela, p, c, o) /\ VaiPara(tabela, p, d, o) => c = d
    /\ p.tipo # "remover" =>
          \A c \in Outras(tabela, p) : ~VaiPara(tabela, p, c, p.ordem)

\* What a request knows of the columns as long as nobody else writes one.
SabeDasColunas(tabela, p) ==
    /\ p.fase # "repor"
    /\ p.tipo \in {"mover", "remover"} =>
          /\ tabela[p.alvo.id] # Ausente
          /\ p.fase = "listar" => tabela[p.alvo.id].ordem = p.alvo.ordem
    /\ \A x \in PorMudar(p) : tabela[x.id] # Ausente
    /\ p.tipo = "arquivar" /\ p.fase \in {"ultima", "inserir"} =>
          \A c \in Colunas : tabela[c] # Ausente => ~tabela[c].arquivadas
    /\ p.eram /\ p.tipo # "arquivar" =>
          IF p.fase \in {"listar", "ultima"} THEN Distintas(tabela)
          ELSE PlanoDistinto(tabela, p)

\* What a request about members holds, and what it knows of them as long as nobody else
\* writes one.
FormaMembro(p) ==
    /\ p.fase \in {"gravarMembro", "salvarMembro"} => p.tipo = "alterar"
    /\ p.fase = "excluirMembro" => p.tipo = "retirar"
SabeDosMembros(tabela, p) ==
    /\ p.admins = Admins(tabela)
    /\ /\ p.fase \in {"salvarMembro", "gravarMembro"} /\ p.alvo = p.quem
       /\ tabela[p.alvo] = "admin" /\ Cardinality(p.admins) <= 1
       => p.papel = "admin"

PedidoCoerente(tc, tm, p) ==
    \/ p = Livre
    \/ p \in PedidoColuna /\ FormaColuna(p) /\ (p.so => SabeDasColunas(tc, p))
    \/ p \in PedidoMembro /\ FormaMembro(p) /\ (p.so => SabeDosMembros(tm, p))

ProjetoInv == TypeOK /\ \A r \in Reqs : PedidoCoerente(colunas, membros, pedidos[r])

-----------------------------------------------------------------------------
(* Types. *)

LEMMA CamposDaColuna ==
  ASSUME NEW p \in PedidoColuna
  PROVE  /\ p # Livre /\ p \notin PedidoMembro
         /\ p.fase \in {"listar", "deslocar", "salvar", "atualizar", "repor", "ultima",
                        "inserir", "excluir", "procurar", "levar"}
         /\ p.tipo \in {"criar", "mover", "remover", "arquivar"}
         /\ p.alvo \in Linha \cup {Ausente} /\ p.ordem \in Ordens \cup {Ausente}
         /\ p.lidas \subseteq Tarefas /\ p.lista \subseteq Linha
         /\ p.item \in Linha \cup {Ausente} /\ p.fim \in BOOLEAN /\ p.so \in BOOLEAN
<1>1. p.fase # "livre" /\ Livre.fase = "livre"
  BY DEF PedidoColuna, Livre
<1>2. p \notin PedidoMembro
  BY DEF PedidoColuna, PedidoMembro
<1> QED BY <1>1, <1>2 DEF PedidoColuna

LEMMA CamposDoMembro ==
  ASSUME NEW p \in PedidoMembro
  PROVE  /\ p # Livre /\ p \notin PedidoColuna
         /\ p.fase \in {"lerMembro", "salvarMembro", "gravarMembro", "inserirMembro",
                        "excluirMembro"}
         /\ p.tipo \in {"incluir", "alterar", "retirar"}
         /\ p.alvo \in Pessoas /\ p.papel \in Papeis \cup {Ausente} /\ p.so \in BOOLEAN
<1>1. p.fase # "livre" /\ Livre.fase = "livre"
  BY DEF PedidoMembro, Livre
<1>2. p \notin PedidoColuna
  BY DEF PedidoColuna, PedidoMembro
<1> QED BY <1>1, <1>2 DEF PedidoMembro

\* A request is about columns or about members.
LEMMA Especies ==
  ASSUME TypeOK, NEW r \in Reqs
  PROVE  /\ Ocupado(r) <=> pedidos[r] # Livre
         /\ DeColuna(r) <=> pedidos[r] \in PedidoColuna
         /\ Ocupado(r) /\ ~DeColuna(r) <=> pedidos[r] \in PedidoMembro
<1>1. pedidos[r] \in {Livre} \cup PedidoColuna \cup PedidoMembro
  BY DEF TypeOK
<1> QED BY <1>1, CamposDaColuna, CamposDoMembro DEF Ocupado, DeColuna

LEMMA FaseLivre == Livre.fase = "livre"
BY DEF Livre

LEMMA TiposDaLinha ==
  ASSUME NEW x \in Linha
  PROVE  x.id \in Colunas /\ x.ordem \in Ordens /\ x.arquivadas \in BOOLEAN
BY DEF Linha

LEMMA DaColuna ==
  ASSUME TypeOK, NEW c \in Colunas, Presente(c)
  PROVE  /\ colunas[c] \in Coluna /\ colunas[c].ordem \in Ordens
         /\ LinhaDe(c) \in Linha /\ LinhaDe(c).id = c
         /\ LinhaDe(c).ordem = colunas[c].ordem
         /\ LinhaDe(c).arquivadas = colunas[c].arquivadas
BY DEF TypeOK, Presente, Coluna, Linha, LinhaDe

-----------------------------------------------------------------------------
(* The steps, by what they change. *)

\* One request goes on, or ends; nothing else changes.
LEMMA InvSoPedido ==
  ASSUME ProjetoInv, NEW r \in Reqs, NEW q, pedidos' = [pedidos EXCEPT ![r] = q],
         colunas' = colunas, onde' = onde, membros' = membros,
         chegaram' \in 0 .. MaxPedidos, PedidoCoerente(colunas, membros, q)
  PROVE  ProjetoInv'
<1>1. TypeOK /\ \A s \in Reqs : PedidoCoerente(colunas, membros, pedidos[s])
  BY DEF ProjetoInv
<1>2. q \in {Livre} \cup PedidoColuna \cup PedidoMembro
  BY DEF PedidoCoerente
<1>3. TypeOK'
  BY <1>1, <1>2 DEF TypeOK, Presente
<1>4. \A s \in Reqs : pedidos'[s] = IF s = r THEN q ELSE pedidos[s]
  BY <1>1 DEF TypeOK
<1>5. \A s \in Reqs : PedidoCoerente(colunas', membros', pedidos'[s])
  BY <1>1, <1>4
<1> QED BY <1>3, <1>5 DEF ProjetoInv

\* What others know of the columns no longer counts once one is written.
LEMMA JaNaoSo ==
  ASSUME NEW tc, NEW td, NEW tm, NEW p \in PedidoColuna, PedidoCoerente(tc, tm, p)
  PROVE  PedidoCoerente(td, tm, [p EXCEPT !.so = FALSE])
<1> DEFINE q == [p EXCEPT !.so = FALSE]
<1>1. FormaColuna(p)
  BY CamposDaColuna DEF PedidoCoerente
<1>2. q \in PedidoColuna /\ q.so = FALSE
  BY DEF PedidoColuna
<1>3. /\ q.fase = p.fase /\ q.tipo = p.tipo /\ q.alvo = p.alvo /\ q.ordem = p.ordem
      /\ q.tarefa = p.tarefa /\ q.lista = p.lista /\ q.item = p.item /\ q.fim = p.fim
  BY DEF PedidoColuna
<1> HIDE DEF q
<1>4. FormaColuna(q)
  BY <1>1, <1>3 DEF FormaColuna, DeCriar, DeMover, DeRemover, DeArquivar
<1>5. PedidoCoerente(td, tm, q)
  BY <1>2, <1>4 DEF PedidoCoerente
<1> QED BY <1>5 DEF q

\* A request writes a column.
LEMMA InvEscreveColuna ==
  ASSUME ProjetoInv, NEW r \in Reqs, NEW q, Escreve(r, q), NEW tc, colunas' = tc,
         tc \in [Colunas -> Coluna \cup {Ausente}],
         onde' \in [Tarefas -> Colunas \cup {Ausente}],
         \A t \in Tarefas : onde'[t] # Ausente => tc[onde'[t]] # Ausente,
         membros' = membros, chegaram' = chegaram, PedidoCoerente(tc, membros, q)
  PROVE  ProjetoInv'
<1>1. TypeOK /\ \A s \in Reqs : PedidoCoerente(colunas, membros, pedidos[s])
  BY DEF ProjetoInv
<1>2. \A s \in Reqs :
         pedidos'[s] = IF s = r THEN q
                       ELSE IF DeColuna(s) THEN [pedidos[s] EXCEPT !.so = FALSE]
                       ELSE pedidos[s]
  BY DEF Escreve
<1>3. ASSUME NEW s \in Reqs
      PROVE  PedidoCoerente(tc, membros, pedidos'[s])
  <2>1. CASE s = r
    BY <1>2, <2>1
  <2>2. CASE s # r /\ DeColuna(s)
    <3>1. pedidos[s] \in PedidoColuna
      BY <1>1, <2>2, Especies
    <3>2. PedidoCoerente(tc, membros, [pedidos[s] EXCEPT !.so = FALSE])
      BY <1>1, <3>1, JaNaoSo
    <3> QED BY <1>2, <2>2, <3>2
  <2>3. CASE s # r /\ ~DeColuna(s)
    <3>1. pedidos[s] \notin PedidoColuna
      BY <1>1, <2>3, Especies
    <3>2. PedidoCoerente(tc, membros, pedidos[s])
      BY <1>1, <3>1 DEF PedidoCoerente
    <3> QED BY <1>2, <2>3, <3>2
  <2> QED BY <2>1, <2>2, <2>3
<1>4. pedidos' \in [Reqs -> {Livre} \cup PedidoColuna \cup PedidoMembro]
  <2>1. \A s \in Reqs : pedidos'[s] \in {Livre} \cup PedidoColuna \cup PedidoMembro
    BY <1>3 DEF PedidoCoerente
  <2> QED BY <2>1 DEF Escreve
<1>5. TypeOK'
  BY <1>1, <1>4 DEF TypeOK, Presente
<1> QED BY <1>3, <1>5 DEF ProjetoInv

\* A task goes elsewhere.
LEMMA InvSoTarefa ==
  ASSUME ProjetoInv, colunas' = colunas, pedidos' = pedidos, membros' = membros,
         chegaram' = chegaram, onde' \in [Tarefas -> Colunas \cup {Ausente}],
         \A t \in Tarefas : onde'[t] # Ausente => Presente(onde'[t])
  PROVE  ProjetoInv'
<1>1. TypeOK /\ \A s \in Reqs : PedidoCoerente(colunas, membros, pedidos[s])
  BY DEF ProjetoInv
<1>2. TypeOK'
  BY <1>1 DEF TypeOK, Presente
<1> QED BY <1>1, <1>2 DEF ProjetoInv

-----------------------------------------------------------------------------
(* Requests begin. *)

\* A request that has read nothing but the column it names.
LEMMA InvIniciar ==
  ASSUME ProjetoInv, NEW r \in Reqs,
         NEW tipo \in {"criar", "mover", "remover", "arquivar"},
         NEW fase \in {"listar", "salvar", "ultima", "procurar"},
         NEW alvo \in Linha \cup {Ausente}, NEW ordem \in Ordens \cup {Ausente},
         NEW lidas \in SUBSET Tarefas, NEW t \in Tarefas \cup {Ausente},
         Iniciar(r, tipo, fase, alvo, ordem, lidas, t),
         \/ tipo = "criar" /\ (fase = "ultima" \/ (fase = "listar" /\ ordem \in Ordens))
         \/ /\ tipo = "mover" /\ fase \in {"listar", "salvar"}
            /\ ordem \in Ordens /\ alvo \in Linha
         \/ tipo = "remover" /\ fase = "listar" /\ alvo \in Linha
         \/ tipo = "arquivar" /\ fase = "procurar" /\ t \in Tarefas,
         tipo \in {"mover", "remover"} =>
            /\ colunas[alvo.id] # Ausente /\ colunas[alvo.id].ordem = alvo.ordem
            /\ fase = "salvar" => ordem = alvo.ordem
  PROVE  ProjetoInv'
<1> DEFINE d == Distintas(colunas)
           q == [ fase |-> fase, tipo |-> tipo, alvo |-> alvo, ordem |-> ordem,
                  lidas |-> lidas, tarefa |-> t, lista |-> {}, item |-> Ausente,
                  fim |-> FALSE, so |-> TRUE, eram |-> d ]
<1>1. /\ pedidos' = [pedidos EXCEPT ![r] = q] /\ chegaram < MaxPedidos
      /\ chegaram' = chegaram + 1 /\ colunas' = colunas /\ onde' = onde
      /\ membros' = membros
  BY DEF Iniciar
<1>2. chegaram' \in 0 .. MaxPedidos
  BY <1>1, LimitesAssumption DEF ProjetoInv, TypeOK
<1>3. d \in BOOLEAN
  BY DEF Distintas
<1>4. d => Distintas(colunas)
  OBVIOUS
<1> HIDE DEF d
<1>5. q \in PedidoColuna
  BY <1>3 DEF PedidoColuna
<1>6. /\ q.fase = fase /\ q.tipo = tipo /\ q.alvo = alvo /\ q.ordem = ordem
      /\ q.tarefa = t /\ q.lista = {} /\ q.fim = FALSE /\ q.eram = d
  OBVIOUS
<1> HIDE DEF q
<1>7. FormaColuna(q)
  BY <1>6 DEF FormaColuna, DeCriar, DeMover, DeRemover, DeArquivar
<1>8. PorMudar(q) = {}
  BY <1>6 DEF PorMudar
<1>9. fase = "salvar" /\ d => PlanoDistinto(colunas, q)
  <2> SUFFICES ASSUME fase = "salvar", d PROVE PlanoDistinto(colunas, q)
    OBVIOUS
  <2>1. \A c, o : VaiPara(colunas, q, c, o) <=> colunas[c].ordem = o
    BY <1>8 DEF VaiPara
  <2>2. tipo = "mover" /\ alvo \in Linha /\ colunas[alvo.id] # Ausente
        /\ colunas[alvo.id].ordem = ordem
    OBVIOUS
  <2>3. alvo.id \in Colunas
    BY <2>2, TiposDaLinha
  <2> QED BY <1>4, <1>6, <2>1, <2>2, <2>3 DEF PlanoDistinto, Outras, Distintas
<1>10. SabeDasColunas(colunas, q)
  BY <1>4, <1>6, <1>8, <1>9 DEF SabeDasColunas
<1>11. PedidoCoerente(colunas, membros, q)
  BY <1>5, <1>7, <1>10 DEF PedidoCoerente
<1> QED BY <1>1, <1>2, <1>11, InvSoPedido

LEMMA InvChegarColuna ==
  ASSUME ProjetoInv, NEW r \in Reqs,
         \/ \E o \in Ordens \cup {Ausente} : \/ PedirColuna(r, o)
                                             \/ \E c \in Colunas : PedirEdicao(r, c, o)
         \/ \E c \in Colunas : PedirRemocao(r, c) \/ \E o \in Ordens : PedirPosicao(r, c, o)
         \/ \E t \in Tarefas : PedirArquivo(r, t)
  PROVE  ProjetoInv'
<1>0. TypeOK
  BY DEF ProjetoInv
<1>1. ASSUME NEW c \in Colunas, Presente(c)
      PROVE  /\ LinhaDe(c) \in Linha /\ LinhaDe(c) \in Linha \cup {Ausente}
             /\ colunas[LinhaDe(c).id] # Ausente
             /\ colunas[LinhaDe(c).id].ordem = LinhaDe(c).ordem
             /\ colunas[c].ordem \in Ordens /\ NaColuna(c) \in SUBSET Tarefas
             /\ LinhaDe(c).ordem = colunas[c].ordem
  BY <1>0, <1>1, DaColuna DEF Presente, NaColuna
<1>2. PICK criar, mover, remover, arquivar \in {"criar", "mover", "remover", "arquivar"} :
         criar = "criar" /\ mover = "mover" /\ remover = "remover" /\ arquivar = "arquivar"
  OBVIOUS
<1>3. PICK listar, salvar, ultima, procurar \in {"listar", "salvar", "ultima", "procurar"} :
         /\ listar = "listar" /\ salvar = "salvar" /\ ultima = "ultima"
         /\ procurar = "procurar"
  OBVIOUS
<1>4. {} \in SUBSET Tarefas /\ Ausente \in Linha \cup {Ausente}
      /\ Ausente \in Ordens \cup {Ausente} /\ Ausente \in Tarefas \cup {Ausente}
  OBVIOUS
<1>5. ASSUME NEW o \in Ordens \cup {Ausente}, PedirColuna(r, o)
      PROVE  ProjetoInv'
  <2>1. CASE o = Ausente
    <3>1. Iniciar(r, criar, ultima, Ausente, o, {}, Ausente)
      BY <1>2, <1>3, <1>5, <2>1 DEF PedirColuna
    <3> QED BY <1>2, <1>3, <1>4, <3>1, InvIniciar
  <2>2. CASE o # Ausente
    <3>1. Iniciar(r, criar, listar, Ausente, o, {}, Ausente)
      BY <1>2, <1>3, <1>5, <2>2 DEF PedirColuna
    <3> QED BY <1>2, <1>3, <1>4, <2>2, <3>1, InvIniciar
  <2> QED BY <2>1, <2>2
<1>6. ASSUME NEW c \in Colunas, NEW o \in Ordens \cup {Ausente}, PedirEdicao(r, c, o)
      PROVE  ProjetoInv'
  <2>0. Presente(c)
    BY <1>6 DEF PedirEdicao
  <2>1. CASE o \in {Ausente, colunas[c].ordem}
    <3>1. Iniciar(r, mover, salvar, LinhaDe(c), colunas[c].ordem, NaColuna(c), Ausente)
      BY <1>2, <1>3, <1>6, <2>1 DEF PedirEdicao
    <3>2. colunas[c].ordem \in Ordens \cup {Ausente}
      BY <1>1, <2>0
    <3> DEFINE alvo == LinhaDe(c)
               ordem == colunas[c].ordem
               lidas == NaColuna(c)
    <3>3. /\ alvo \in Linha /\ colunas[alvo.id] # Ausente
          /\ colunas[alvo.id].ordem = alvo.ordem /\ ordem = alvo.ordem
          /\ ordem \in Ordens /\ alvo \in Linha \cup {Ausente}
          /\ ordem \in Ordens \cup {Ausente} /\ lidas \in SUBSET Tarefas
      BY <1>1, <2>0, <3>2
    <3>4. Iniciar(r, mover, salvar, alvo, ordem, lidas, Ausente)
      BY <3>1
    <3> HIDE DEF alvo, ordem, lidas
    <3> QED BY <1>2, <1>3, <1>4, <3>3, <3>4, InvIniciar
  <2>2. CASE o \notin {Ausente, colunas[c].ordem}
    <3>1. Iniciar(r, mover, listar, LinhaDe(c), o, NaColuna(c), Ausente)
      BY <1>2, <1>3, <1>6, <2>2 DEF PedirEdicao
    <3> QED BY <1>1, <1>2, <1>3, <1>4, <2>0, <2>2, <3>1, InvIniciar
  <2> QED BY <2>1, <2>2
<1>7. ASSUME NEW c \in Colunas, PedirRemocao(r, c)
      PROVE  ProjetoInv'
  <2>1. Presente(c) /\ Iniciar(r, remover, listar, LinhaDe(c), Ausente, {}, Ausente)
    BY <1>2, <1>3, <1>7 DEF PedirRemocao
  <2> QED BY <1>1, <1>2, <1>3, <1>4, <2>1, InvIniciar
<1>8. ASSUME NEW c \in Colunas, NEW o \in Ordens, PedirPosicao(r, c, o)
      PROVE  ProjetoInv'
  <2>1. Presente(c) /\ Iniciar(r, mover, listar, LinhaDe(c), o, NaColuna(c), Ausente)
    BY <1>2, <1>3, <1>8 DEF PedirPosicao
  <2>2. o \in Ordens \cup {Ausente}
    OBVIOUS
  <2> QED BY <1>1, <1>2, <1>3, <1>4, <2>1, <2>2, InvIniciar
<1>9. ASSUME NEW t \in Tarefas, PedirArquivo(r, t)
      PROVE  ProjetoInv'
  <2>1. Iniciar(r, arquivar, procurar, Ausente, Ausente, {}, t)
    BY <1>2, <1>3, <1>9 DEF PedirArquivo
  <2>2. t \in Tarefas \cup {Ausente}
    OBVIOUS
  <2> QED BY <1>2, <1>3, <1>4, <2>1, <2>2, InvIniciar
<1> QED BY <1>5, <1>6, <1>7, <1>8, <1>9

-----------------------------------------------------------------------------
(* Members. *)

LEMMA PedidoDeColuna ==
  ASSUME ProjetoInv, NEW r \in Reqs,
         pedidos[r].fase \in {"listar", "deslocar", "salvar", "atualizar", "repor",
                              "ultima", "inserir", "excluir", "procurar", "levar"}
  PROVE  /\ pedidos[r] \in PedidoColuna /\ FormaColuna(pedidos[r])
         /\ pedidos[r].so => SabeDasColunas(colunas, pedidos[r])
         /\ DeColuna(r) /\ TypeOK
<1>1. TypeOK /\ PedidoCoerente(colunas, membros, pedidos[r])
  BY DEF ProjetoInv
<1>2. pedidos[r] # Livre /\ pedidos[r] \notin PedidoMembro
  BY FaseLivre, CamposDoMembro
<1>3. pedidos[r] \in PedidoColuna
  BY <1>1, <1>2 DEF PedidoCoerente
<1> QED BY <1>1, <1>2, <1>3, Especies DEF PedidoCoerente

LEMMA PedidoDeMembro ==
  ASSUME ProjetoInv, NEW r \in Reqs,
         pedidos[r].fase \in {"lerMembro", "salvarMembro", "gravarMembro",
                              "inserirMembro", "excluirMembro"}
  PROVE  /\ pedidos[r] \in PedidoMembro /\ FormaMembro(pedidos[r])
         /\ pedidos[r].so => SabeDosMembros(membros, pedidos[r])
         /\ ~DeColuna(r) /\ Ocupado(r) /\ TypeOK
<1>1. TypeOK /\ PedidoCoerente(colunas, membros, pedidos[r])
  BY DEF ProjetoInv
<1>2. pedidos[r] # Livre /\ pedidos[r] \notin PedidoColuna
  BY FaseLivre, CamposDaColuna
<1>3. pedidos[r] \in PedidoMembro
  BY <1>1, <1>2 DEF PedidoCoerente
<1> QED BY <1>1, <1>2, <1>3, Especies DEF PedidoCoerente

LEMMA InvPedirMembro ==
  ASSUME ProjetoInv, NEW r \in Reqs, NEW tipo \in {"incluir", "alterar", "retirar"},
         NEW quem \in Pessoas \cup {Dono}, NEW alvo \in Pessoas,
         NEW papel \in Papeis \cup {Ausente}, PedirMembro(r, tipo, quem, alvo, papel)
  PROVE  ProjetoInv'
<1> DEFINE a == Admins(membros)
           q == [ fase |-> "lerMembro", tipo |-> tipo, quem |-> quem, alvo |-> alvo,
                  papel |-> papel, admins |-> a, so |-> TRUE ]
<1>1. /\ pedidos' = [pedidos EXCEPT ![r] = q] /\ chegaram < MaxPedidos
      /\ chegaram' = chegaram + 1 /\ colunas' = colunas /\ onde' = onde
      /\ membros' = membros
  BY DEF PedirMembro
<1>2. chegaram' \in 0 .. MaxPedidos
  BY <1>1, LimitesAssumption DEF ProjetoInv, TypeOK
<1>3. q \in PedidoMembro
  BY DEF PedidoMembro, Admins
<1>4. q.fase = "lerMembro" /\ q.admins = Admins(membros)
  OBVIOUS
<1> HIDE DEF q
<1>5. FormaMembro(q) /\ SabeDosMembros(membros, q)
  BY <1>4 DEF FormaMembro, SabeDosMembros
<1>6. PedidoCoerente(colunas, membros, q)
  BY <1>3, <1>5 DEF PedidoCoerente
<1> QED BY <1>1, <1>2, <1>6, InvSoPedido

\* A request about members goes on to another phase.
LEMMA OutraFaseMembro ==
  ASSUME NEW p \in PedidoMembro, NEW f \in {"lerMembro", "salvarMembro", "gravarMembro",
                                            "inserirMembro", "excluirMembro"}
  PROVE  LET q == [p EXCEPT !.fase = f]
         IN  /\ q \in PedidoMembro /\ q.fase = f /\ q.tipo = p.tipo /\ q.quem = p.quem
             /\ q.alvo = p.alvo /\ q.papel = p.papel /\ q.admins = p.admins /\ q.so = p.so
BY DEF PedidoMembro

LEMMA InvLerMembro ==
  ASSUME ProjetoInv, NEW r \in Reqs, LerMembro(r)
  PROVE  ProjetoInv'
<1> DEFINE p == pedidos[r]
<1>1. p.fase = "lerMembro" /\ NadaMuda
  BY DEF LerMembro
<1>2. /\ p \in PedidoMembro /\ FormaMembro(p) /\ (p.so => SabeDosMembros(membros, p))
      /\ TypeOK
  BY <1>1, PedidoDeMembro
<1>3. PICK f \in {"lerMembro", "salvarMembro", "gravarMembro", "inserirMembro",
                  "excluirMembro"} :
         /\ Fica(r, [p EXCEPT !.fase = f])
         /\ \/ f = "inserirMembro"
            \/ f = "salvarMembro" /\ p.tipo = "alterar" /\ PodeAlterar(p)
            \/ f = "excluirMembro" /\ p.tipo = "retirar"
  BY DEF LerMembro
<1> DEFINE q == [p EXCEPT !.fase = f]
<1>4. /\ q \in PedidoMembro /\ q.fase = f /\ q.tipo = p.tipo /\ q.quem = p.quem
      /\ q.alvo = p.alvo /\ q.papel = p.papel /\ q.admins = p.admins /\ q.so = p.so
  BY <1>2, OutraFaseMembro
<1>5. pedidos' = [pedidos EXCEPT ![r] = q] /\ chegaram' \in 0 .. MaxPedidos
      /\ colunas' = colunas /\ onde' = onde /\ membros' = membros
  BY <1>1, <1>2, <1>3 DEF Fica, NadaMuda, TypeOK
<1> HIDE DEF q, p
<1>6. FormaMembro(q)
  BY <1>3, <1>4 DEF FormaMembro
<1>7. q.so => SabeDosMembros(membros, q)
  BY <1>2, <1>3, <1>4 DEF SabeDosMembros, PodeAlterar
<1>8. PedidoCoerente(colunas, membros, q)
  BY <1>4, <1>6, <1>7 DEF PedidoCoerente
<1> QED BY <1>5, <1>8, InvSoPedido

LEMMA InvSalvarMembro ==
  ASSUME ProjetoInv, NEW r \in Reqs, SalvarMembro(r)
  PROVE  ProjetoInv'
<1> DEFINE p == pedidos[r]
<1>1. p.fase = "salvarMembro" /\ NadaMuda
  BY DEF SalvarMembro
<1>2. /\ p \in PedidoMembro /\ FormaMembro(p) /\ (p.so => SabeDosMembros(membros, p))
      /\ TypeOK
  BY <1>1, PedidoDeMembro
<1>3. chegaram' \in 0 .. MaxPedidos /\ colunas' = colunas /\ onde' = onde
      /\ membros' = membros
  BY <1>1, <1>2 DEF NadaMuda, TypeOK
<1>4. CASE membros[p.alvo] = p.papel
  <2>1. pedidos' = [pedidos EXCEPT ![r] = Livre]
    BY <1>4 DEF SalvarMembro, Fica
  <2>2. PedidoCoerente(colunas, membros, Livre)
    BY DEF PedidoCoerente
  <2> QED BY <1>3, <2>1, <2>2, InvSoPedido
<1>5. CASE membros[p.alvo] # p.papel
  <2>1. PICK f \in {"inserirMembro", "gravarMembro"} : Fica(r, [p EXCEPT !.fase = f])
    BY <1>5 DEF SalvarMembro
  <2> DEFINE q == [p EXCEPT !.fase = f]
  <2>2. f \in {"lerMembro", "salvarMembro", "gravarMembro", "inserirMembro",
               "excluirMembro"}
    OBVIOUS
  <2>3. /\ q \in PedidoMembro /\ q.fase = f /\ q.tipo = p.tipo /\ q.quem = p.quem
        /\ q.alvo = p.alvo /\ q.papel = p.papel /\ q.admins = p.admins /\ q.so = p.so
    BY <1>2, <2>2, OutraFaseMembro
  <2>4. pedidos' = [pedidos EXCEPT ![r] = q]
    BY <2>1 DEF Fica
  <2>5. p.fase = "salvarMembro"
    BY <1>1
  <2> HIDE DEF q, p
  <2>6. FormaMembro(q)
    BY <1>2, <2>3, <2>5 DEF FormaMembro
  <2>7. q.so => SabeDosMembros(membros, q)
    BY <1>2, <2>3, <2>5 DEF SabeDosMembros
  <2>8. PedidoCoerente(colunas, membros, q)
    BY <2>3, <2>6, <2>7 DEF PedidoCoerente
  <2> QED BY <1>3, <2>4, <2>8, InvSoPedido
<1> QED BY <1>4, <1>5

LEMMA InvEscreverMembro ==
  ASSUME ProjetoInv, NEW r \in Reqs, EscreverMembro(r)
  PROVE  ProjetoInv'
<1> DEFINE p == pedidos[r]
<1>1. /\ p.fase \in {"inserirMembro", "gravarMembro", "excluirMembro"}
      /\ colunas' = colunas /\ onde' = onde /\ chegaram' = chegaram
  BY DEF EscreverMembro
<1>2. p \in PedidoMembro /\ TypeOK /\ p.alvo \in Pessoas /\ p.papel \in Papeis \cup {Ausente}
  BY <1>1, PedidoDeMembro, CamposDoMembro
<1>3. membros' \in [Pessoas -> Papeis \cup {Ausente}]
  BY <1>2 DEF EscreverMembro, TypeOK
<1>4. /\ pedidos' \in [Reqs -> { pedidos'[s] : s \in Reqs }]
      /\ \A s \in Reqs :
            pedidos'[s] = IF s = r THEN Livre
                          ELSE IF Ocupado(s) /\ ~DeColuna(s)
                               THEN [pedidos[s] EXCEPT !.so = FALSE]
                          ELSE pedidos[s]
  BY DEF EscreverMembro
<1>5. ASSUME NEW s \in Reqs
      PROVE  PedidoCoerente(colunas', membros', pedidos'[s])
  <2>0. PedidoCoerente(colunas, membros, pedidos[s])
    BY DEF ProjetoInv
  <2>1. CASE s = r
    BY <1>4, <2>1 DEF PedidoCoerente
  <2>2. CASE s # r /\ Ocupado(s) /\ ~DeColuna(s)
    <3> DEFINE q == [pedidos[s] EXCEPT !.so = FALSE]
    <3>1. pedidos[s] \in PedidoMembro
      BY <1>2, <2>2, Especies
    <3>2. q \in PedidoMembro /\ q.so = FALSE /\ q.fase = pedidos[s].fase
          /\ q.tipo = pedidos[s].tipo
      BY <3>1 DEF PedidoMembro
    <3>3. pedidos'[s] = q
      BY <1>4, <2>2
    <3> HIDE DEF q
    <3>4. FormaMembro(pedidos[s])
      BY <2>0, <3>1, CamposDoMembro DEF PedidoCoerente
    <3>5. FormaMembro(q)
      BY <3>2, <3>4 DEF FormaMembro
    <3> QED BY <3>2, <3>3, <3>5 DEF PedidoCoerente
  <2>3. CASE s # r /\ ~(Ocupado(s) /\ ~DeColuna(s))
    <3>1. pedidos[s] \notin PedidoMembro
      BY <1>2, <2>3, Especies
    <3>2. PedidoCoerente(colunas, membros', pedidos[s])
      BY <2>0, <3>1 DEF PedidoCoerente
    <3>3. pedidos'[s] = pedidos[s]
      BY <1>4, <2>3
    <3> QED BY <1>1, <3>2, <3>3
  <2> QED BY <2>1, <2>2, <2>3
<1>6. pedidos' \in [Reqs -> {Livre} \cup PedidoColuna \cup PedidoMembro]
  <2>1. \A s \in Reqs : pedidos'[s] \in {Livre} \cup PedidoColuna \cup PedidoMembro
    BY <1>5 DEF PedidoCoerente
  <2> QED BY <1>4, <2>1
<1>7. TypeOK'
  BY <1>1, <1>2, <1>3, <1>6 DEF TypeOK, Presente
<1> QED BY <1>5, <1>7 DEF ProjetoInv

LEMMA InvFalhar ==
  ASSUME ProjetoInv, NEW r \in Reqs, Falhar(r)
  PROVE  ProjetoInv'
<1>1. pedidos' = [pedidos EXCEPT ![r] = Livre] /\ chegaram' \in 0 .. MaxPedidos
      /\ colunas' = colunas /\ onde' = onde /\ membros' = membros
  BY DEF Falhar, Fica, NadaMuda, ProjetoInv, TypeOK
<1>2. PedidoCoerente(colunas, membros, Livre)
  BY DEF PedidoCoerente
<1> QED BY <1>1, <1>2, InvSoPedido

LEMMA InvMexerTarefa ==
  ASSUME ProjetoInv, NEW t \in Tarefas, NEW c \in Colunas \cup {Ausente},
         MexerTarefa(t, c)
  PROVE  ProjetoInv'
<1>1. TypeOK
  BY DEF ProjetoInv
<1>2. onde' \in [Tarefas -> Colunas \cup {Ausente}]
  BY <1>1 DEF MexerTarefa, TypeOK
<1>3. \A s \in Tarefas : onde'[s] # Ausente => Presente(onde'[s])
  BY <1>1 DEF MexerTarefa, TypeOK
<1>4. /\ colunas' = colunas /\ pedidos' = pedidos /\ membros' = membros
      /\ chegaram' = chegaram
  BY DEF MexerTarefa
<1> QED BY <1>2, <1>3, <1>4, InvSoTarefa

-----------------------------------------------------------------------------
(* A reordering. *)

LEMMA CamposAdiante ==
  ASSUME NEW p \in PedidoColuna, p.tipo # "arquivar"
  PROVE  LET q == Adiante(p)
         IN  /\ q \in PedidoColuna /\ q.tipo = p.tipo /\ q.alvo = p.alvo
             /\ q.ordem = p.ordem /\ q.lidas = p.lidas /\ q.tarefa = p.tarefa
             /\ q.lista = p.lista /\ q.item = p.item /\ q.fim = p.fim /\ q.so = p.so
             /\ q.eram = p.eram
             /\ \/ q.fase = "deslocar" /\ p.lista # {}
                \/ q.fase = "inserir" /\ p.tipo = "criar" /\ p.lista = {}
                \/ q.fase = "salvar" /\ p.tipo = "mover" /\ p.lista = {}
                \/ q.fase = "excluir" /\ p.tipo = "remover" /\ p.lista = {}
<1>1. PICK f \in {"deslocar", "inserir", "salvar", "excluir"} :
         /\ Adiante(p) = [p EXCEPT !.fase = f]
         /\ \/ f = "deslocar" /\ p.lista # {}
            \/ f = "inserir" /\ p.tipo = "criar" /\ p.lista = {}
            \/ f = "salvar" /\ p.tipo = "mover" /\ p.lista = {}
            \/ f = "excluir" /\ p.tipo = "remover" /\ p.lista = {}
  <2> DEFINE f == IF p.lista # {} THEN "deslocar"
                  ELSE CASE p.tipo = "criar" -> "inserir"
                         [] p.tipo = "mover" -> "salvar"
                         [] p.tipo = "remover" -> "excluir"
  <2>1. Adiante(p) = [p EXCEPT !.fase = f]
    BY DEF Adiante
  <2>2. p.tipo \in {"criar", "mover", "remover"}
    BY CamposDaColuna
  <2>3. \/ f = "deslocar" /\ p.lista # {}
        \/ f = "inserir" /\ p.tipo = "criar" /\ p.lista = {}
        \/ f = "salvar" /\ p.tipo = "mover" /\ p.lista = {}
        \/ f = "excluir" /\ p.tipo = "remover" /\ p.lista = {}
    <3>1. CASE p.lista # {}
      <4>1. f = "deslocar"
        BY <3>1
      <4> HIDE DEF f
      <4> QED BY <3>1, <4>1
    <3>2. CASE p.lista = {} /\ p.tipo = "criar"
      <4>1. f = "inserir"
        BY <3>2
      <4> HIDE DEF f
      <4> QED BY <3>2, <4>1
    <3>3. CASE p.lista = {} /\ p.tipo = "mover"
      <4>1. f = "salvar"
        BY <3>3
      <4> HIDE DEF f
      <4> QED BY <3>3, <4>1
    <3>4. CASE p.lista = {} /\ p.tipo = "remover"
      <4>1. f = "excluir"
        BY <3>4
      <4> HIDE DEF f
      <4> QED BY <3>4, <4>1
    <3> HIDE DEF f
    <3> QED BY <2>2, <3>1, <3>2, <3>3, <3>4
  <2> HIDE DEF f
  <2> QED BY <2>1, <2>3
<1> QED BY <1>1 DEF PedidoColuna

\* What a reordering holds between two columns, and what it knows: q is where it goes
\* on, and the table tc what it is by then.
LEMMA CoerenteAdiante ==
  ASSUME NEW tc, NEW tm, NEW p \in PedidoColuna, p.tipo # "arquivar", ~p.fim,
         p.tipo \in {"criar", "mover"} => p.ordem \in Ordens,
         p.tipo \in {"mover", "remover"} => p.alvo \in Linha,
         NEW q, q = Adiante(p),
         p.so => /\ p.tipo \in {"mover", "remover"} => tc[p.alvo.id] # Ausente
                 /\ \A x \in p.lista : tc[x.id] # Ausente
                 /\ p.eram => PlanoDistinto(tc, q)
  PROVE  PedidoCoerente(tc, tm, q)
<1>1. /\ q \in PedidoColuna /\ q.tipo = p.tipo /\ q.alvo = p.alvo
      /\ q.ordem = p.ordem /\ q.lista = p.lista /\ q.fim = FALSE /\ q.so = p.so
      /\ q.eram = p.eram
      /\ \/ q.fase = "deslocar" /\ p.lista # {}
         \/ q.fase = "inserir" /\ p.tipo = "criar" /\ p.lista = {}
         \/ q.fase = "salvar" /\ p.tipo = "mover" /\ p.lista = {}
         \/ q.fase = "excluir" /\ p.tipo = "remover" /\ p.lista = {}
  BY CamposAdiante, CamposDaColuna
<1>2. p.tipo \in {"criar", "mover", "remover"}
  BY CamposDaColuna
<1>3. FormaColuna(q)
  BY <1>1, <1>2 DEF FormaColuna, DeCriar, DeMover, DeRemover, DeArquivar
<1>4. PorMudar(q) = p.lista
  BY <1>1 DEF PorMudar
<1>5. q.so => SabeDasColunas(tc, q)
  BY <1>1, <1>2, <1>4 DEF SabeDasColunas
<1> QED BY <1>1, <1>3, <1>5 DEF PedidoCoerente

\* Two columns that do not share a place do not share one after the shift, nor do they
\* take the place that is to be free, but for the column the request is about.
LEMMA DeslocadaSepara ==
  ASSUME NEW p, p.tipo \in {"criar", "mover", "remover"},
         p.tipo \in {"criar", "mover"} => p.ordem \in Ordens,
         p.tipo \in {"mover", "remover"} => p.alvo.ordem \in Ordens,
         NEW a \in Ordens, NEW b \in Ordens,
         p.tipo \in {"mover", "remover"} => a # p.alvo.ordem /\ b # p.alvo.ordem
  PROVE  /\ Deslocada(p, a) = Deslocada(p, b) => a = b
         /\ p.tipo # "remover" => Deslocada(p, a) # p.ordem
<1> DEFINE x == Deslocada(p, a)
           y == Deslocada(p, b)
           n == p.ordem
           k == p.alvo.ordem
<1>1. a \in Int /\ b \in Int
  BY LimitesAssumption DEF Ordens
<1>2. CASE p.tipo = "criar"
  <2>1. /\ x = IF a >= n THEN a + 1 ELSE a
        /\ y = IF b >= n THEN b + 1 ELSE b
    BY <1>2 DEF Deslocada
  <2>2. n \in Int
    BY <1>2, LimitesAssumption DEF Ordens
  <2> HIDE DEF x, y, n
  <2>3. (x = y => a = b) /\ x # n
    BY <1>1, <2>1, <2>2
  <2> QED BY <2>3 DEF x, y, n
<1>3. CASE p.tipo = "remover"
  <2>1. /\ x = IF a > k THEN a - 1 ELSE a
        /\ y = IF b > k THEN b - 1 ELSE b
    BY <1>3 DEF Deslocada
  <2>2. k \in Int /\ a # k /\ b # k
    BY <1>3, LimitesAssumption DEF Ordens
  <2> HIDE DEF x, y, k
  <2>3. x = y => a = b
    BY <1>1, <2>1, <2>2
  <2> QED BY <1>3, <2>3 DEF x, y
<1>4. CASE p.tipo = "mover"
  <2>1. n \in Int /\ k \in Int /\ a # k /\ b # k
    BY <1>4, LimitesAssumption DEF Ordens
  <2>2. CASE n > k
    <3>1. /\ x = IF a > k /\ a <= n THEN a - 1 ELSE a
          /\ y = IF b > k /\ b <= n THEN b - 1 ELSE b
      BY <1>4, <2>2 DEF Deslocada
    <3> HIDE DEF x, y, n, k
    <3>2. (x = y => a = b) /\ x # n
      BY <1>1, <2>1, <2>2, <3>1
    <3> QED BY <3>2 DEF x, y, n
  <2>3. CASE ~(n > k)
    <3>1. /\ x = IF a >= n /\ a < k THEN a + 1 ELSE a
          /\ y = IF b >= n /\ b < k THEN b + 1 ELSE b
      BY <1>4, <2>3 DEF Deslocada
    <3> HIDE DEF x, y, n, k
    <3>2. (x = y => a = b) /\ x # n
      BY <1>1, <2>1, <2>3, <3>1
    <3> QED BY <3>2 DEF x, y, n
  <2> QED BY <2>2, <2>3
<1> QED BY <1>2, <1>3, <1>4

LEMMA InvListar ==
  ASSUME ProjetoInv, NEW r \in Reqs, Listar(r)
  PROVE  ProjetoInv'
<1> DEFINE p == pedidos[r]
           muda == { d \in Presentes : Deslocada(p, colunas[d].ordem) # colunas[d].ordem }
           nova(c) == [LinhaDe(c) EXCEPT !.ordem = Deslocada(p, @)]
           lista == { nova(c) : c \in muda }
           m == [p EXCEPT !.lista = lista]
           q == Adiante(m)
<1>1. /\ p.fase = "listar" /\ \A x \in lista : x.ordem \in Ordens
      /\ pedidos' = [pedidos EXCEPT ![r] = q] /\ NadaMuda
  BY DEF Listar, Fica
<1>2. /\ p \in PedidoColuna /\ FormaColuna(p) /\ TypeOK
      /\ p.so => SabeDasColunas(colunas, p)
  BY <1>1, PedidoDeColuna
<1>3. chegaram' \in 0 .. MaxPedidos /\ colunas' = colunas /\ onde' = onde
      /\ membros' = membros
  BY <1>1, <1>2 DEF NadaMuda, TypeOK
<1>4. /\ p.tipo \in {"criar", "mover", "remover"} /\ p.fim = FALSE
      /\ p.tipo \in {"criar", "mover"} => p.ordem \in Ordens
      /\ p.tipo \in {"mover", "remover"} => p.alvo \in Linha
  <2>1. /\ p.tipo \in {"criar", "mover", "remover", "arquivar"} /\ p.fim \in BOOLEAN
        /\ p.fase = "listar"
    BY <1>1, <1>2, CamposDaColuna
  <2>2. FormaColuna(p)
    BY <1>2
  <2> HIDE DEF p
  <2> QED BY <2>1, <2>2 DEF FormaColuna, DeCriar, DeMover, DeRemover, DeArquivar
<1>5. ASSUME NEW c \in Presentes
      PROVE  /\ c \in Colunas /\ Presente(c) /\ colunas[c].ordem \in Ordens
             /\ nova(c).id = c /\ nova(c).ordem = Deslocada(p, colunas[c].ordem)
             /\ nova(c).arquivadas \in BOOLEAN
             /\ nova(c) = [id |-> c, ordem |-> Deslocada(p, colunas[c].ordem),
                           arquivadas |-> colunas[c].arquivadas]
  <2>1. c \in Colunas /\ Presente(c)
    BY DEF Presentes
  <2>2. colunas[c] \in Coluna
    BY <1>2, <2>1, DaColuna
  <2> QED BY <2>1, <2>2 DEF LinhaDe, Coluna
<1> HIDE DEF nova
<1>6. lista \subseteq Linha
  <2> SUFFICES ASSUME NEW c \in muda PROVE nova(c) \in Linha
    OBVIOUS
  <2>1. nova(c).ordem \in Ordens
    BY <1>1
  <2> QED BY <1>5, <2>1 DEF Linha
<1>7. /\ m \in PedidoColuna /\ m.tipo = p.tipo /\ m.alvo = p.alvo /\ m.ordem = p.ordem
      /\ m.lista = lista /\ m.fim = p.fim /\ m.so = p.so /\ m.eram = p.eram
  BY <1>2, <1>6 DEF PedidoColuna
<1>8. \A x \in lista : colunas[x.id] # Ausente
  BY <1>5 DEF Presente
<1> HIDE DEF m
<1>9. /\ q.tipo = p.tipo /\ q.alvo = p.alvo /\ q.ordem = p.ordem /\ q.lista = lista
      /\ q.fase # "atualizar"
  BY <1>4, <1>7, CamposAdiante
<1>10. q = Adiante(m)
  OBVIOUS
<1> HIDE DEF q
<1>11. PorMudar(q) = lista
  BY <1>9 DEF PorMudar
<1>12. ASSUME NEW c \in Presentes, NEW o, VaiPara(colunas, q, c, o)
       PROVE  o = Deslocada(p, colunas[c].ordem)
  <2>1. CASE \E x \in lista : x.id = c /\ x.ordem = o
    <3>1. PICK d \in muda : nova(d).id = c /\ nova(d).ordem = o
      BY <2>1
    <3> QED BY <1>5, <3>1
  <2>2. CASE (\A x \in lista : x.id # c) /\ colunas[c].ordem = o
    <3>1. c \notin muda
      BY <1>5, <2>2
    <3> QED BY <2>2, <3>1
  <2> QED BY <1>11, <1>12, <2>1, <2>2 DEF VaiPara
<1>13. ASSUME Distintas(colunas),
              p.tipo \in {"mover", "remover"} =>
                 colunas[p.alvo.id] # Ausente /\ colunas[p.alvo.id].ordem = p.alvo.ordem
       PROVE  PlanoDistinto(colunas, q)
  <2>1. ASSUME NEW c \in Outras(colunas, q)
        PROVE  /\ c \in Presentes /\ colunas[c].ordem \in Ordens
               /\ p.tipo \in {"mover", "remover"} => colunas[c].ordem # p.alvo.ordem
    <3>1. c \in Presentes
      BY DEF Outras, Presentes, Presente
    <3>2. ASSUME p.tipo \in {"mover", "remover"}
          PROVE  colunas[c].ordem # p.alvo.ordem
      <4>1. p.alvo.id \in Colunas
        BY <1>4, <3>2, TiposDaLinha
      <4>2. c # p.alvo.id /\ c \in Colunas /\ colunas[c] # Ausente
        BY <1>9, <3>2 DEF Outras
      <4> QED BY <1>13, <3>2, <4>1, <4>2 DEF Distintas
    <3> QED BY <1>5, <3>1, <3>2
  <2>2. p.tipo \in {"mover", "remover"} => p.alvo.ordem \in Ordens
    BY <1>4, TiposDaLinha
  <2>3. ASSUME NEW c \in Outras(colunas, q), NEW d \in Outras(colunas, q), NEW o \in Ordens,
               VaiPara(colunas, q, c, o), VaiPara(colunas, q, d, o)
        PROVE  c = d
    <3>1. Deslocada(p, colunas[c].ordem) = Deslocada(p, colunas[d].ordem)
      BY <1>12, <2>1, <2>3
    <3>2. colunas[c].ordem = colunas[d].ordem
      BY <1>4, <2>1, <2>2, <3>1, DeslocadaSepara
    <3> QED BY <1>5, <1>13, <2>1, <3>2 DEF Distintas, Presente
  <2>4. ASSUME NEW c \in Outras(colunas, q), p.tipo # "remover"
        PROVE  ~VaiPara(colunas, q, c, p.ordem)
    <3>1. Deslocada(p, colunas[c].ordem) # p.ordem
      BY <1>4, <2>1, <2>2, <2>4, DeslocadaSepara
    <3> QED BY <1>12, <2>1, <3>1
  <2> QED BY <1>9, <2>3, <2>4 DEF PlanoDistinto
<1>14. p.so => /\ p.tipo \in {"mover", "remover"} => colunas[p.alvo.id] # Ausente
               /\ p.eram => PlanoDistinto(colunas, q)
  BY <1>1, <1>2, <1>4, <1>13 DEF SabeDasColunas
<1>15. PedidoCoerente(colunas, membros, q)
  <2>1. /\ m.tipo # "arquivar" /\ ~m.fim
        /\ m.tipo \in {"criar", "mover"} => m.ordem \in Ordens
        /\ m.tipo \in {"mover", "remover"} => m.alvo \in Linha
    BY <1>4, <1>7
  <2>2. m.so => /\ m.tipo \in {"mover", "remover"} => colunas[m.alvo.id] # Ausente
                /\ \A x \in m.lista : colunas[x.id] # Ausente
                /\ m.eram => PlanoDistinto(colunas, q)
    BY <1>7, <1>8, <1>14
  <2>3. m \in PedidoColuna
    BY <1>7
  <2> HIDE DEF p, lista
  <2> QED BY <1>10, <2>1, <2>2, <2>3, CoerenteAdiante
<1> QED BY <1>1, <1>3, <1>15, InvSoPedido

\* A column of the list has been dealt with: the shifts still to be made lead no column
\* to a place they did not lead it to before.
LEMMA PlanoMenor ==
  ASSUME NEW tc, NEW td, NEW p, NEW q, PlanoDistinto(tc, p),
         q.tipo = p.tipo, q.alvo = p.alvo, q.ordem = p.ordem,
         \A c \in Colunas : td[c] # Ausente => tc[c] # Ausente,
         \A c \in Outras(td, q) : \A o : VaiPara(td, q, c, o) => VaiPara(tc, p, c, o)
  PROVE  PlanoDistinto(td, q)
<1>1. \A c \in Outras(td, q) : c \in Outras(tc, p)
  BY DEF Outras
<1>2. ASSUME NEW c \in Outras(td, q), NEW d \in Outras(td, q), NEW o \in Ordens,
             VaiPara(td, q, c, o), VaiPara(td, q, d, o)
      PROVE  c = d
  <2>1. VaiPara(tc, p, c, o) /\ VaiPara(tc, p, d, o)
    BY <1>2
  <2> QED BY <1>1, <2>1 DEF PlanoDistinto
<1>3. ASSUME q.tipo # "remover", NEW c \in Outras(td, q)
      PROVE  ~VaiPara(td, q, c, q.ordem)
  <2>1. ~VaiPara(tc, p, c, p.ordem)
    BY <1>1, <1>3 DEF PlanoDistinto
  <2> QED BY <2>1
<1> QED BY <1>2, <1>3 DEF PlanoDistinto

\* Request r, at p, has its next column x looked up: m holds x as the one to be saved.
LEMMA InvExaminar ==
  ASSUME ProjetoInv, NEW r \in Reqs, NEW p, p = pedidos[r],
         p.fase \in {"deslocar", "salvar"},
         NEW x \in Linha, NEW m \in PedidoColuna, Examinar(r, m),
         m.tipo = p.tipo, m.alvo = p.alvo, m.ordem = p.ordem, m.so = p.so,
         m.eram = p.eram, m.tarefa = p.tarefa, m.item = x,
         \/ p.fase = "deslocar" /\ x \in p.lista /\ m.lista = p.lista \ {x} /\ m.fim = FALSE
         \/ /\ p.fase = "salvar" /\ m.lista = {} /\ m.fim = TRUE
            /\ x.id = p.alvo.id /\ x.ordem = p.ordem
  PROVE  ProjetoInv'
<1>1. /\ p \in PedidoColuna /\ FormaColuna(p) /\ TypeOK
      /\ p.so => SabeDasColunas(colunas, p)
  BY PedidoDeColuna
<1>2. chegaram' \in 0 .. MaxPedidos /\ colunas' = colunas /\ onde' = onde
      /\ membros' = membros
  BY <1>1 DEF Examinar, NadaMuda, TypeOK
<1>3. /\ p.tipo \in {"criar", "mover", "remover"} /\ (p.fase = "salvar" => p.tipo = "mover")
      /\ p.tipo \in {"criar", "mover"} => p.ordem \in Ordens
      /\ p.tipo \in {"mover", "remover"} => p.alvo \in Linha
      /\ p.fase = "salvar" => p.lista = {}
  <2>1. p.tipo \in {"criar", "mover", "remover", "arquivar"}
    BY <1>1, CamposDaColuna
  <2> QED BY <1>1, <2>1 DEF FormaColuna, DeCriar, DeMover, DeRemover, DeArquivar
<1>4. PorMudar(p) = p.lista
  BY DEF PorMudar
<1>5. p.so => /\ p.tipo \in {"mover", "remover"} => colunas[p.alvo.id] # Ausente
              /\ \A y \in p.lista : colunas[y.id] # Ausente
              /\ p.eram => PlanoDistinto(colunas, p)
              /\ Presente(x.id)
  BY <1>1, <1>3, <1>4 DEF SabeDasColunas, Presente
<1>6. x.id \in Colunas /\ x.ordem \in Ordens
  BY TiposDaLinha
<1>7. CASE ~Presente(x.id)
  <2> DEFINE q == [m EXCEPT !.fase = "repor"]
  <2>1. pedidos' = [pedidos EXCEPT ![r] = q]
    BY <1>7 DEF Examinar, Fica
  <2>2. /\ q \in PedidoColuna /\ q.fase = "repor" /\ q.tipo = p.tipo /\ q.alvo = p.alvo
        /\ q.ordem = p.ordem /\ q.so = p.so /\ q.item = x /\ q.fim = m.fim
        /\ q.lista = m.lista
    BY DEF PedidoColuna
  <2> HIDE DEF q
  <2>3. FormaColuna(q)
    BY <1>3, <2>2 DEF FormaColuna, DeCriar, DeMover, DeRemover, DeArquivar
  <2>4. PedidoCoerente(colunas, membros, q)
    BY <1>5, <1>7, <2>2, <2>3 DEF PedidoCoerente
  <2> QED BY <1>2, <2>1, <2>4, InvSoPedido
<1>8. CASE Presente(x.id) /\ (colunas[x.id].ordem # x.ordem \/ (m.fim /\ m.lidas # {}))
  <2> DEFINE q == [m EXCEPT !.fase = "atualizar"]
  <2>1. pedidos' = [pedidos EXCEPT ![r] = q]
    BY <1>8 DEF Examinar, Fica
  <2>2. /\ q \in PedidoColuna /\ q.fase = "atualizar" /\ q.tipo = p.tipo
        /\ q.alvo = p.alvo /\ q.ordem = p.ordem /\ q.so = p.so /\ q.item = x
        /\ q.fim = m.fim /\ q.lista = m.lista /\ q.eram = p.eram
    BY DEF PedidoColuna
  <2> HIDE DEF q
  <2>3. FormaColuna(q)
    BY <1>3, <2>2 DEF FormaColuna, DeCriar, DeMover, DeRemover, DeArquivar
  <2>4. PorMudar(q) = m.lista \cup {x}
    BY <2>2 DEF PorMudar
  <2>5. ASSUME PlanoDistinto(colunas, p)
        PROVE  PlanoDistinto(colunas, q)
    <3>1. ASSUME NEW c \in Outras(colunas, q), NEW o, VaiPara(colunas, q, c, o)
          PROVE  VaiPara(colunas, p, c, o)
      <4>1. CASE p.fase = "deslocar"
        <5>1. PorMudar(q) = PorMudar(p)
          BY <1>4, <2>4, <4>1
        <5> QED BY <3>1, <5>1 DEF VaiPara
      <4>2. CASE p.fase = "salvar"
        <5>1. PorMudar(q) = {x} /\ PorMudar(p) = {}
          BY <1>3, <1>4, <2>4, <4>2
        <5>2. c # x.id
          BY <1>3, <2>2, <4>2 DEF Outras
        <5> QED BY <3>1, <5>1, <5>2 DEF VaiPara
      <4> QED BY <4>1, <4>2
    <3> QED BY <2>2, <2>5, <3>1, PlanoMenor
  <2>6. q.so => SabeDasColunas(colunas, q)
    <3>1. q.so => \A y \in PorMudar(q) : colunas[y.id] # Ausente
      BY <1>3, <1>5, <2>2, <2>4 DEF Presente
    <3> QED BY <1>3, <1>5, <2>2, <2>5, <3>1 DEF SabeDasColunas
  <2>7. PedidoCoerente(colunas, membros, q)
    BY <2>2, <2>3, <2>6 DEF PedidoCoerente
  <2> QED BY <1>2, <2>1, <2>7, InvSoPedido
<1>9. CASE Presente(x.id) /\ ~(colunas[x.id].ordem # x.ordem \/ (m.fim /\ m.lidas # {}))
  <2>1. pedidos' = [pedidos EXCEPT ![r] = Depois(m)]
    BY <1>9 DEF Examinar, Fica
  <2>2. CASE p.fase = "salvar"
    <3>1. Depois(m) = Livre
      BY <2>2 DEF Depois
    <3>2. PedidoCoerente(colunas, membros, Livre)
      BY DEF PedidoCoerente
    <3> QED BY <1>2, <2>1, <3>1, <3>2, InvSoPedido
  <2>3. CASE p.fase = "deslocar"
    <3> DEFINE q == Adiante(m)
    <3>1. Depois(m) = q
      BY <2>3 DEF Depois
    <3>2. m.tipo # "arquivar" /\ ~m.fim /\ m.lista = p.lista \ {x} /\ x \in p.lista
      BY <1>3, <2>3
    <3>3. /\ q.tipo = p.tipo /\ q.alvo = p.alvo /\ q.ordem = p.ordem
          /\ q.lista = m.lista /\ q.fase # "atualizar"
      BY <3>2, CamposAdiante
    <3>4. q = Adiante(m)
      OBVIOUS
    <3> HIDE DEF q
    <3>5. PorMudar(q) = p.lista \ {x}
      BY <3>2, <3>3 DEF PorMudar
    <3>6. ASSUME PlanoDistinto(colunas, p)
          PROVE  PlanoDistinto(colunas, q)
      <4>1. ASSUME NEW c \in Outras(colunas, q), NEW o, VaiPara(colunas, q, c, o)
            PROVE  VaiPara(colunas, p, c, o)
        <5>1. CASE \E y \in PorMudar(q) : y.id = c /\ y.ordem = o
          BY <1>4, <3>5, <5>1 DEF VaiPara
        <5>2. CASE (\A y \in PorMudar(q) : y.id # c) /\ colunas[c].ordem = o
          BY <1>4, <1>9, <3>2, <3>5, <5>2 DEF VaiPara
        <5> QED BY <4>1, <5>1, <5>2 DEF VaiPara
      <4> QED BY <3>3, <3>6, <4>1, PlanoMenor
    <3>7. m.so => /\ m.tipo \in {"mover", "remover"} => colunas[m.alvo.id] # Ausente
                  /\ \A y \in m.lista : colunas[y.id] # Ausente
                  /\ m.eram => PlanoDistinto(colunas, q)
      BY <1>5, <3>2, <3>6
    <3>8. /\ m.tipo \in {"criar", "mover"} => m.ordem \in Ordens
          /\ m.tipo \in {"mover", "remover"} => m.alvo \in Linha
      BY <1>3
    <3>9. PedidoCoerente(colunas, membros, q)
      BY <3>2, <3>4, <3>7, <3>8, CoerenteAdiante
    <3> QED BY <1>2, <2>1, <3>1, <3>9, InvSoPedido
  <2> QED BY <2>2, <2>3
<1> QED BY <1>7, <1>8, <1>9

LEMMA InvDeslocar ==
  ASSUME ProjetoInv, NEW r \in Reqs, Deslocar(r)
  PROVE  ProjetoInv'
<1> DEFINE p == pedidos[r]
<1>1. p.fase = "deslocar"
  BY DEF Deslocar
<1>2. p \in PedidoColuna
  BY <1>1, PedidoDeColuna
<1>3. PICK x \in p.lista : Examinar(r, [p EXCEPT !.lista = @ \ {x}, !.item = x])
  BY DEF Deslocar
<1>4. x \in Linha /\ p.lista \subseteq Linha /\ p.fim \in BOOLEAN
  BY <1>2, <1>3, CamposDaColuna
<1> DEFINE m == [p EXCEPT !.lista = @ \ {x}, !.item = x]
<1>5. /\ m \in PedidoColuna /\ m.tipo = p.tipo /\ m.alvo = p.alvo /\ m.ordem = p.ordem
      /\ m.so = p.so /\ m.eram = p.eram /\ m.tarefa = p.tarefa /\ m.item = x
      /\ m.lista = p.lista \ {x} /\ m.fim = p.fim
  BY <1>2, <1>4 DEF PedidoColuna
<1>6. Examinar(r, m)
  BY <1>3
<1>7. p = pedidos[r] /\ p.fase \in {"deslocar", "salvar"}
  BY <1>1
<1>8. FormaColuna(p)
  BY <1>1, PedidoDeColuna
<1> HIDE DEF m, p
<1>9. p.fim = FALSE
  BY <1>1, <1>4, <1>8 DEF FormaColuna
<1>10. \/ p.fase = "deslocar" /\ x \in p.lista /\ m.lista = p.lista \ {x} /\ m.fim = FALSE
       \/ /\ p.fase = "salvar" /\ m.lista = {} /\ m.fim = TRUE
          /\ x.id = p.alvo.id /\ x.ordem = p.ordem
  BY <1>1, <1>3, <1>5, <1>9
<1> QED BY <1>4, <1>5, <1>6, <1>7, <1>10, InvExaminar

LEMMA InvSalvar ==
  ASSUME ProjetoInv, NEW r \in Reqs, Salvar(r)
  PROVE  ProjetoInv'
<1> DEFINE p == pedidos[r]
           x == [p.alvo EXCEPT !.ordem = p.ordem]
           m == [p EXCEPT !.item = x, !.lidas = @ \ NaColuna(p.alvo.id), !.fim = TRUE]
<1>1. p.fase = "salvar" /\ Examinar(r, m)
  BY DEF Salvar
<1>2. p \in PedidoColuna /\ FormaColuna(p)
  BY <1>1, PedidoDeColuna
<1>3. p.alvo \in Linha /\ p.ordem \in Ordens /\ p.lista = {}
  <2>1. p.fase = "salvar" /\ p.tipo \in {"criar", "mover", "remover", "arquivar"}
    BY <1>1, <1>2, CamposDaColuna
  <2>2. FormaColuna(p)
    BY <1>2
  <2> HIDE DEF p
  <2> QED BY <2>1, <2>2 DEF FormaColuna, DeCriar, DeMover, DeRemover, DeArquivar
<1>4. x \in Linha /\ x.id = p.alvo.id /\ x.ordem = p.ordem
  BY <1>3 DEF Linha
<1> HIDE DEF x
<1>5. /\ m \in PedidoColuna /\ m.tipo = p.tipo /\ m.alvo = p.alvo /\ m.ordem = p.ordem
      /\ m.so = p.so /\ m.eram = p.eram /\ m.tarefa = p.tarefa /\ m.item = x
      /\ m.lista = p.lista /\ m.fim = TRUE
  BY <1>2, <1>4 DEF PedidoColuna
<1>6. p = pedidos[r] /\ p.fase \in {"deslocar", "salvar"} /\ Examinar(r, m)
  BY <1>1
<1>7. p.fase = "salvar"
  BY <1>1
<1> HIDE DEF m, p
<1>8. \/ p.fase = "deslocar" /\ x \in p.lista /\ m.lista = p.lista \ {x} /\ m.fim = FALSE
      \/ /\ p.fase = "salvar" /\ m.lista = {} /\ m.fim = TRUE
         /\ x.id = p.alvo.id /\ x.ordem = p.ordem
  BY <1>3, <1>4, <1>5, <1>7
<1> QED BY <1>4, <1>5, <1>6, <1>8, InvExaminar

\* A column of the list is saved: x goes where the list wants it, and is off the list.
LEMMA InvAtualizar ==
  ASSUME ProjetoInv, NEW r \in Reqs, Atualizar(r)
  PROVE  ProjetoInv'
<1> DEFINE p == pedidos[r]
           x == p.item
           tc == [colunas EXCEPT ![x.id] =
                    IF @ = Ausente THEN @ ELSE [@ EXCEPT !.ordem = x.ordem]]
           q == Depois(p)
<1>1. /\ p.fase = "atualizar" /\ (Presente(x.id) \/ Devolver(p) = onde)
      /\ colunas' = tc /\ onde' = Devolver(p) /\ Escreve(r, q)
      /\ membros' = membros /\ chegaram' = chegaram
  BY DEF Atualizar
<1>2. /\ p \in PedidoColuna /\ FormaColuna(p) /\ TypeOK
      /\ p.so => SabeDasColunas(colunas, p)
  BY <1>1, PedidoDeColuna
<1>3. /\ x \in Linha /\ p.tipo \in {"criar", "mover", "remover"} /\ p.fim \in BOOLEAN
      /\ p.tipo \in {"criar", "mover"} => p.ordem \in Ordens
      /\ p.tipo \in {"mover", "remover"} => p.alvo \in Linha
  <2>1. /\ p.tipo \in {"criar", "mover", "remover", "arquivar"} /\ p.fim \in BOOLEAN
        /\ p.fase = "atualizar" /\ FormaColuna(p)
    BY <1>1, <1>2, CamposDaColuna
  <2> HIDE DEF p
  <2> QED BY <2>1 DEF FormaColuna, DeCriar, DeMover, DeRemover, DeArquivar
<1>4. x.id \in Colunas /\ x.ordem \in Ordens
  BY <1>3, TiposDaLinha
<1>5. /\ \A c \in Colunas : tc[c] = Ausente <=> colunas[c] = Ausente
      /\ \A c \in Colunas : c # x.id => tc[c] = colunas[c]
      /\ tc[x.id] # Ausente => tc[x.id].ordem = x.ordem
      /\ tc \in [Colunas -> Coluna \cup {Ausente}]
  <2>1. colunas \in [Colunas -> Coluna \cup {Ausente}]
    BY <1>2 DEF TypeOK
  <2>2. ASSUME colunas[x.id] # Ausente
        PROVE  /\ [colunas[x.id] EXCEPT !.ordem = x.ordem] \in Coluna
               /\ [colunas[x.id] EXCEPT !.ordem = x.ordem].ordem = x.ordem
               /\ [colunas[x.id] EXCEPT !.ordem = x.ordem] # Ausente
    <3>1. colunas[x.id] \in Coluna
      BY <1>4, <2>1, <2>2
    <3>2. [colunas[x.id] EXCEPT !.ordem = x.ordem] \in Coluna
      BY <1>4, <3>1 DEF Coluna
    <3>3. [colunas[x.id] EXCEPT !.ordem = x.ordem].ordem = x.ordem
      BY <3>1 DEF Coluna
    <3> QED BY <3>2, <3>3, SentinelaAssumption
  <2>3. /\ \A c \in Colunas : c # x.id => tc[c] = colunas[c]
        /\ tc[x.id] = IF colunas[x.id] = Ausente THEN Ausente
                      ELSE [colunas[x.id] EXCEPT !.ordem = x.ordem]
    BY <1>4, <2>1
  <2>4. tc[x.id] \in Coluna \cup {Ausente}
    BY <2>2, <2>3
  <2>5. tc \in [Colunas -> Coluna \cup {Ausente}]
    BY <2>1, <2>4
  <2> QED BY <2>2, <2>3, <2>5
<1>6. onde' \in [Tarefas -> Colunas \cup {Ausente}]
  BY <1>1, <1>2, <1>4 DEF Devolver, TypeOK
<1>7. \A t \in Tarefas : onde'[t] # Ausente => tc[onde'[t]] # Ausente
  <2> SUFFICES ASSUME NEW t \in Tarefas, onde'[t] # Ausente
               PROVE  onde'[t] \in Colunas /\ colunas[onde'[t]] # Ausente
    BY <1>5
  <2>1. onde'[t] = onde[t] \/ (onde'[t] = x.id /\ Presente(x.id))
    <3>1. CASE Devolver(p) = onde
      BY <1>1, <3>1
    <3>2. CASE Presente(x.id)
      BY <1>1, <3>2 DEF Devolver
    <3> QED BY <1>1, <3>1, <3>2
  <2>2. onde[t] # Ausente => onde[t] \in Colunas /\ colunas[onde[t]] # Ausente
    BY <1>2 DEF TypeOK, Presente
  <2> QED BY <1>4, <2>1, <2>2 DEF Presente
<1> HIDE DEF tc
<1>8. PedidoCoerente(tc, membros, q)
  <2>1. CASE p.fim
    BY <2>1 DEF Depois, PedidoCoerente
  <2>2. CASE ~p.fim
    <3>1. q = Adiante(p) /\ p.tipo # "arquivar"
      BY <1>3, <2>2 DEF Depois
    <3>2. /\ q.tipo = p.tipo /\ q.alvo = p.alvo /\ q.ordem = p.ordem
          /\ q.lista = p.lista /\ q.fase # "atualizar"
      BY <1>2, <3>1, CamposAdiante
    <3>3. p.fase = "atualizar" /\ p \in PedidoColuna
      BY <1>1, <1>2
    <3>4. /\ FormaColuna(p)
          /\ p.so => SabeDasColunas(colunas, p)
      BY <1>2
    <3> HIDE DEF q, p
    <3>5. PorMudar(q) = p.lista /\ PorMudar(p) = p.lista \cup {x}
      BY <3>2, <3>3 DEF PorMudar
    <3>6. ASSUME PlanoDistinto(colunas, p)
          PROVE  PlanoDistinto(tc, q)
      <4>1. ASSUME NEW c \in Outras(tc, q), NEW o, VaiPara(tc, q, c, o)
            PROVE  VaiPara(colunas, p, c, o)
        <5>0. c \in Colunas /\ tc[c] # Ausente
          BY DEF Outras
        <5>1. CASE \E y \in PorMudar(q) : y.id = c /\ y.ordem = o
          BY <3>5, <5>1 DEF VaiPara
        <5>2. CASE (\A y \in PorMudar(q) : y.id # c) /\ tc[c].ordem = o
          <6>1. CASE c = x.id
            BY <1>5, <3>5, <5>0, <5>2, <6>1 DEF VaiPara
          <6>2. CASE c # x.id
            BY <1>5, <3>5, <5>0, <5>2, <6>2 DEF VaiPara
          <6> QED BY <6>1, <6>2
        <5> QED BY <4>1, <5>1, <5>2 DEF VaiPara
      <4> QED BY <1>5, <3>2, <3>6, <4>1, PlanoMenor
    <3>7. p.so => /\ p.tipo \in {"mover", "remover"} => tc[p.alvo.id] # Ausente
                  /\ \A y \in p.lista : tc[y.id] # Ausente
                  /\ p.eram => PlanoDistinto(tc, q)
      <4> SUFFICES ASSUME p.so
                   PROVE  /\ p.tipo \in {"mover", "remover"} => tc[p.alvo.id] # Ausente
                          /\ \A y \in p.lista : tc[y.id] # Ausente
                          /\ p.eram => PlanoDistinto(tc, q)
        OBVIOUS
      <4>1. SabeDasColunas(colunas, p)
        BY <3>4
      <4>2. p.tipo \in {"mover", "remover"} => tc[p.alvo.id] # Ausente
        BY <1>3, <1>5, <4>1, TiposDaLinha DEF SabeDasColunas
      <4>3. \A y \in p.lista : y \in Linha
        BY <3>3, CamposDaColuna
      <4>4. \A y \in p.lista : tc[y.id] # Ausente
        BY <1>5, <3>5, <4>1, <4>3, TiposDaLinha DEF SabeDasColunas
      <4>5. p.eram => PlanoDistinto(colunas, p)
        BY <3>1, <3>3, <4>1 DEF SabeDasColunas
      <4> QED BY <3>6, <4>2, <4>4, <4>5
    <3> QED BY <1>3, <2>2, <3>1, <3>3, <3>7, CoerenteAdiante
  <2> QED BY <1>3, <2>1, <2>2
<1> QED BY <1>1, <1>5, <1>6, <1>7, <1>8, InvEscreveColuna

\* The row was gone: somebody else has written a column.
LEMMA InvRepor ==
  ASSUME ProjetoInv, NEW r \in Reqs, Repor(r)
  PROVE  ProjetoInv'
<1> DEFINE p == pedidos[r]
           x == p.item
           l == [ordem |-> x.ordem, arquivadas |-> x.arquivadas]
           tc == [colunas EXCEPT ![x.id] = l]
           q == Depois(p)
<1>1. /\ p.fase = "repor" /\ colunas' = tc /\ onde' = Devolver(p) /\ Escreve(r, q)
      /\ membros' = membros /\ chegaram' = chegaram
  BY DEF Repor
<1>2. /\ p \in PedidoColuna /\ FormaColuna(p) /\ TypeOK
      /\ p.so => SabeDasColunas(colunas, p)
  BY <1>1, PedidoDeColuna
<1>3. /\ x \in Linha /\ p.tipo \in {"criar", "mover", "remover"} /\ p.fim \in BOOLEAN
      /\ p.tipo \in {"criar", "mover"} => p.ordem \in Ordens
      /\ p.tipo \in {"mover", "remover"} => p.alvo \in Linha
      /\ p.so \in BOOLEAN
  <2>1. /\ p.tipo \in {"criar", "mover", "remover", "arquivar"} /\ p.fim \in BOOLEAN
        /\ p.fase = "repor" /\ FormaColuna(p) /\ p.so \in BOOLEAN
    BY <1>1, <1>2, CamposDaColuna
  <2> HIDE DEF p
  <2> QED BY <2>1 DEF FormaColuna, DeCriar, DeMover, DeRemover, DeArquivar
<1>4. ~p.so
  BY <1>1, <1>2 DEF SabeDasColunas
<1>5. l \in Coluna /\ x.id \in Colunas
  BY <1>3, TiposDaLinha DEF Coluna
<1> HIDE DEF l
<1>6. tc \in [Colunas -> Coluna \cup {Ausente}]
      /\ tc[x.id] # Ausente /\ \A c \in Colunas : c # x.id => tc[c] = colunas[c]
  BY <1>2, <1>5, SentinelaAssumption DEF TypeOK
<1>7. onde' \in [Tarefas -> Colunas \cup {Ausente}]
  BY <1>1, <1>2, <1>5 DEF Devolver, TypeOK
<1>8. \A t \in Tarefas : onde'[t] # Ausente => tc[onde'[t]] # Ausente
  <2> SUFFICES ASSUME NEW t \in Tarefas, onde'[t] # Ausente
               PROVE  tc[onde'[t]] # Ausente
    OBVIOUS
  <2>1. onde'[t] = onde[t] \/ onde'[t] = x.id
    BY <1>1 DEF Devolver
  <2>2. onde[t] # Ausente => onde[t] \in Colunas /\ colunas[onde[t]] # Ausente
    BY <1>2 DEF TypeOK, Presente
  <2> QED BY <1>6, <2>1, <2>2
<1> HIDE DEF tc
<1>9. PedidoCoerente(tc, membros, q)
  <2>1. CASE p.fim
    BY <2>1 DEF Depois, PedidoCoerente
  <2>2. CASE ~p.fim
    <3>1. q = Adiante(p) /\ p.tipo # "arquivar" /\ p \in PedidoColuna
      BY <1>2, <1>3, <2>2 DEF Depois
    <3> HIDE DEF q, p
    <3>2. p.so => /\ p.tipo \in {"mover", "remover"} => tc[p.alvo.id] # Ausente
                  /\ \A y \in p.lista : tc[y.id] # Ausente
                  /\ p.eram => PlanoDistinto(tc, q)
      BY <1>4
    <3> QED BY <1>3, <2>2, <3>1, <3>2, CoerenteAdiante
  <2> QED BY <1>3, <2>1, <2>2
<1> QED BY <1>1, <1>6, <1>7, <1>8, <1>9, InvEscreveColuna

LEMMA InvExcluir ==
  ASSUME ProjetoInv, NEW r \in Reqs, Excluir(r)
  PROVE  ProjetoInv'
<1> DEFINE p == pedidos[r]
           tc == [colunas EXCEPT ![p.alvo.id] = Ausente]
<1>1. /\ p.fase = "excluir" /\ NaColuna(p.alvo.id) = {} /\ colunas' = tc
      /\ Escreve(r, Livre) /\ onde' = onde /\ membros' = membros /\ chegaram' = chegaram
  BY DEF Excluir
<1>2. p \in PedidoColuna /\ FormaColuna(p) /\ TypeOK
  BY <1>1, PedidoDeColuna
<1>3. p.alvo \in Linha
  <2>1. p.tipo \in {"criar", "mover", "remover", "arquivar"} /\ p.fase = "excluir"
        /\ FormaColuna(p)
    BY <1>1, <1>2, CamposDaColuna
  <2> HIDE DEF p
  <2> QED BY <2>1 DEF FormaColuna, DeCriar, DeMover, DeRemover, DeArquivar
<1>4. p.alvo.id \in Colunas
  BY <1>3, TiposDaLinha
<1>5. tc \in [Colunas -> Coluna \cup {Ausente}]
      /\ \A c \in Colunas : c # p.alvo.id => tc[c] = colunas[c]
  BY <1>2, <1>4 DEF TypeOK
<1>6. /\ onde' \in [Tarefas -> Colunas \cup {Ausente}]
      /\ \A t \in Tarefas : onde'[t] # Ausente => tc[onde'[t]] # Ausente
  <2>1. \A t \in Tarefas : onde[t] # p.alvo.id
    BY <1>1 DEF NaColuna
  <2>2. \A t \in Tarefas : onde[t] # Ausente =>
                            onde[t] \in Colunas /\ colunas[onde[t]] # Ausente
    BY <1>2 DEF TypeOK, Presente
  <2> QED BY <1>1, <1>2, <1>5, <2>1, <2>2 DEF TypeOK
<1>7. PedidoCoerente(tc, membros, Livre)
  BY DEF PedidoCoerente
<1> HIDE DEF tc
<1> QED BY <1>1, <1>5, <1>6, <1>7, InvEscreveColuna

-----------------------------------------------------------------------------
(* A new column, and the archive. *)

LEMMA InvProcurar ==
  ASSUME ProjetoInv, NEW r \in Reqs, Procurar(r)
  PROVE  ProjetoInv'
<1> DEFINE p == pedidos[r]
<1>1. p.fase = "procurar" /\ NadaMuda
  BY DEF Procurar
<1>2. /\ p \in PedidoColuna /\ FormaColuna(p) /\ TypeOK
      /\ p.so => SabeDasColunas(colunas, p)
  BY <1>1, PedidoDeColuna
<1>3. chegaram' \in 0 .. MaxPedidos /\ colunas' = colunas /\ onde' = onde
      /\ membros' = membros
  BY <1>1, <1>2 DEF NadaMuda, TypeOK
<1>4. p.tipo = "arquivar" /\ p.fim = FALSE /\ p.tarefa \in Tarefas /\ p.lista = {}
  <2>1. /\ p.tipo \in {"criar", "mover", "remover", "arquivar"} /\ p.fim \in BOOLEAN
        /\ p.fase = "procurar" /\ FormaColuna(p)
    BY <1>1, <1>2, CamposDaColuna
  <2> HIDE DEF p
  <2> QED BY <2>1 DEF FormaColuna, DeCriar, DeMover, DeRemover, DeArquivar
<1>5. ASSUME NEW c \in Presentes, colunas[c].arquivadas,
             Fica(r, [p EXCEPT !.fase = "levar", !.alvo = LinhaDe(c)])
      PROVE  ProjetoInv'
  <2> DEFINE l == LinhaDe(c)
             q == [p EXCEPT !.fase = "levar", !.alvo = l]
  <2>1. l \in Linha
    BY <1>2, DaColuna DEF Presentes
  <2>2. pedidos' = [pedidos EXCEPT ![r] = q]
    BY <1>5 DEF Fica
  <2> HIDE DEF l
  <2>3. /\ q \in PedidoColuna /\ q.fase = "levar" /\ q.tipo = "arquivar" /\ q.alvo = l
        /\ q.lista = {} /\ q.fim = FALSE /\ q.tarefa = p.tarefa
    BY <1>2, <1>4, <2>1 DEF PedidoColuna
  <2> HIDE DEF q
  <2>4. FormaColuna(q)
    BY <1>4, <2>1, <2>3 DEF FormaColuna, DeArquivar
  <2>5. PorMudar(q) = {}
    BY <2>3 DEF PorMudar
  <2>6. SabeDasColunas(colunas, q)
    BY <2>3, <2>5 DEF SabeDasColunas
  <2>7. PedidoCoerente(colunas, membros, q)
    BY <2>3, <2>4, <2>6 DEF PedidoCoerente
  <2> QED BY <1>3, <2>2, <2>7, InvSoPedido
<1>6. ASSUME \A c \in Presentes : ~colunas[c].arquivadas,
             Fica(r, [p EXCEPT !.fase = "ultima"])
      PROVE  ProjetoInv'
  <2> DEFINE q == [p EXCEPT !.fase = "ultima"]
  <2>1. pedidos' = [pedidos EXCEPT ![r] = q]
    BY <1>6 DEF Fica
  <2>2. /\ q \in PedidoColuna /\ q.fase = "ultima" /\ q.tipo = "arquivar"
        /\ q.lista = {} /\ q.fim = FALSE /\ q.tarefa = p.tarefa
    BY <1>2, <1>4 DEF PedidoColuna
  <2> HIDE DEF q
  <2>3. FormaColuna(q)
    BY <1>4, <2>2 DEF FormaColuna, DeArquivar
  <2>4. PorMudar(q) = {}
    BY <2>2 DEF PorMudar
  <2>5. SabeDasColunas(colunas, q)
    BY <1>6, <2>2, <2>4 DEF SabeDasColunas, Presentes, Presente
  <2>6. PedidoCoerente(colunas, membros, q)
    BY <2>2, <2>3, <2>5 DEF PedidoCoerente
  <2> QED BY <1>3, <2>1, <2>6, InvSoPedido
<1> QED BY <1>5, <1>6 DEF Procurar

LEMMA MaiorExiste ==
  ASSUME NEW S \in SUBSET Ordens, S # {}
  PROVE  \E m \in S : \A n \in S : n <= m
<1> DEFINE R == { ss \in Nat \X Nat : ss[1] < ss[2] }
           T == { MaxOrdem - n : n \in S }
<1>1. IsWellFoundedOn(R, Nat)
  BY NatLessThanWellFounded DEF OpToRel
<1>2. \A x, y \in Nat : ~ (<< y, x >> \in R) => x <= y
  OBVIOUS
<1>3. \A n \in S : n \in Int /\ MaxOrdem - n \in Nat
  BY LimitesAssumption DEF Ordens
<1>4. T \in SUBSET Nat /\ T # {}
  BY <1>3
<1> HIDE DEF R, T
<1>5. \E x \in T : \A y \in T : ~ (<< y, x >> \in R)
  BY <1>1, <1>4, WFMin
<1>6. PICK x \in T : \A y \in T : x <= y
  BY <1>2, <1>4, <1>5
<1>7. PICK m \in S : x = MaxOrdem - m
  BY DEF T
<1>8. ASSUME NEW n \in S
      PROVE  n <= m
  <2>1. MaxOrdem - m <= MaxOrdem - n
    BY <1>6, <1>7 DEF T
  <2> QED BY <1>3, <2>1, LimitesAssumption
<1> QED BY <1>8

\* No column is after the last one.
LEMMA UltimaDepoisDeTodas ==
  ASSUME TypeOK
  PROVE  /\ Ultima \in 0 .. MaxOrdem
         /\ \A c \in Presentes : colunas[c].ordem <= Ultima
<1> DEFINE S == { colunas[c].ordem : c \in Presentes }
<1>1. S \in SUBSET Ordens
  BY DaColuna DEF Presentes
<1>2. CASE Presentes = {}
  BY <1>2, LimitesAssumption DEF Ultima
<1>3. CASE Presentes # {}
  <2>1. \E m \in S : \A n \in S : n <= m
    BY <1>1, <1>3, MaiorExiste
  <2>2. \E m \in S : \A c \in Presentes : colunas[c].ordem <= m
    BY <2>1
  <2>3. Ultima \in S /\ \A c \in Presentes : colunas[c].ordem <= Ultima
    BY <1>3, <2>2 DEF Ultima
  <2>4. Ultima \in Ordens
    BY <1>1, <2>3
  <2> QED BY <2>3, <2>4, LimitesAssumption DEF Ordens
<1> QED BY <1>2, <1>3

LEMMA InvLerUltima ==
  ASSUME ProjetoInv, NEW r \in Reqs, LerUltima(r)
  PROVE  ProjetoInv'
<1> DEFINE p == pedidos[r]
           n == Ultima + 1
           q == [p EXCEPT !.fase = "inserir", !.ordem = n]
<1>1. p.fase = "ultima" /\ Ultima < MaxOrdem /\ NadaMuda
      /\ pedidos' = [pedidos EXCEPT ![r] = q]
  BY DEF LerUltima, Fica
<1>2. /\ p \in PedidoColuna /\ FormaColuna(p) /\ TypeOK
      /\ p.so => SabeDasColunas(colunas, p)
  BY <1>1, PedidoDeColuna
<1>3. chegaram' \in 0 .. MaxPedidos /\ colunas' = colunas /\ onde' = onde
      /\ membros' = membros
  BY <1>1, <1>2 DEF NadaMuda, TypeOK
<1>4. /\ p.tipo \in {"criar", "arquivar"} /\ p.fim = FALSE /\ p.lista = {}
      /\ p.tipo = "arquivar" => p.tarefa \in Tarefas
  <2>1. /\ p.tipo \in {"criar", "mover", "remover", "arquivar"} /\ p.fim \in BOOLEAN
        /\ p.fase = "ultima" /\ FormaColuna(p)
    BY <1>1, <1>2, CamposDaColuna
  <2> HIDE DEF p
  <2> QED BY <2>1 DEF FormaColuna, DeCriar, DeMover, DeRemover, DeArquivar
<1>5. Ultima \in 0 .. MaxOrdem /\ \A c \in Presentes : colunas[c].ordem <= Ultima
  BY <1>2, UltimaDepoisDeTodas
<1>6. n \in Ordens
  BY <1>1, <1>5, LimitesAssumption DEF Ordens
<1>7. \A c \in Presentes : colunas[c].ordem # n
  <2>1. \A c \in Presentes : colunas[c].ordem \in Ordens
    BY <1>2, DaColuna DEF Presentes
  <2> QED BY <1>5, <2>1, LimitesAssumption DEF Ordens
<1> HIDE DEF n
<1>8. /\ q \in PedidoColuna /\ q.fase = "inserir" /\ q.tipo = p.tipo /\ q.ordem = n
      /\ q.lista = {} /\ q.fim = FALSE /\ q.tarefa = p.tarefa /\ q.so = p.so
      /\ q.eram = p.eram
  BY <1>2, <1>4, <1>6 DEF PedidoColuna
<1>9. p.fase = "ultima"
  BY <1>1
<1> HIDE DEF q, p
<1>10. FormaColuna(q)
  BY <1>4, <1>6, <1>8 DEF FormaColuna, DeCriar, DeArquivar
<1>11. PorMudar(q) = {}
  BY <1>8 DEF PorMudar
<1>12. ASSUME Distintas(colunas)
       PROVE  PlanoDistinto(colunas, q)
  <2>1. \A c \in Outras(colunas, q) : c \in Colunas /\ c \in Presentes /\ colunas[c] # Ausente
    BY DEF Outras, Presentes, Presente
  <2>2. \A c, o : VaiPara(colunas, q, c, o) <=> colunas[c].ordem = o
    BY <1>11 DEF VaiPara
  <2>3. \A c, d \in Outras(colunas, q), o \in Ordens :
           VaiPara(colunas, q, c, o) /\ VaiPara(colunas, q, d, o) => c = d
    BY <1>12, <2>1, <2>2 DEF Distintas
  <2>4. \A c \in Outras(colunas, q) : ~VaiPara(colunas, q, c, q.ordem)
    BY <1>7, <1>8, <2>1, <2>2
  <2> QED BY <2>3, <2>4 DEF PlanoDistinto
<1>13. q.so => SabeDasColunas(colunas, q)
  BY <1>2, <1>4, <1>8, <1>9, <1>11, <1>12 DEF SabeDasColunas
<1>14. PedidoCoerente(colunas, membros, q)
  BY <1>8, <1>10, <1>13 DEF PedidoCoerente
<1> QED BY <1>1, <1>3, <1>14, InvSoPedido

LEMMA InvInserir ==
  ASSUME ProjetoInv, NEW r \in Reqs, Inserir(r)
  PROVE  ProjetoInv'
<1> DEFINE p == pedidos[r]
           l == [ordem |-> p.ordem, arquivadas |-> p.tipo = "arquivar"]
<1>1. /\ p.fase = "inserir" /\ onde' = onde /\ membros' = membros
      /\ chegaram' = chegaram
  BY DEF Inserir
<1>2. p \in PedidoColuna /\ FormaColuna(p) /\ TypeOK
  BY <1>1, PedidoDeColuna
<1>3. PICK c \in Colunas :
         /\ IdNovo(c) /\ colunas' = [colunas EXCEPT ![c] = l]
         /\ Escreve(r, IF p.tipo = "criar" THEN Livre
                       ELSE [p EXCEPT !.fase = "levar",
                                !.alvo = [id |-> c, ordem |-> p.ordem,
                                          arquivadas |-> TRUE]])
  BY DEF Inserir
<1>4. /\ p.tipo \in {"criar", "arquivar"} /\ p.fim = FALSE /\ p.lista = {}
      /\ p.ordem \in Ordens
      /\ p.tipo = "arquivar" => p.tarefa \in Tarefas
  <2>1. /\ p.tipo \in {"criar", "mover", "remover", "arquivar"} /\ p.fim \in BOOLEAN
        /\ p.fase = "inserir" /\ FormaColuna(p)
    BY <1>1, <1>2, CamposDaColuna
  <2> HIDE DEF p
  <2> QED BY <2>1 DEF FormaColuna, DeCriar, DeMover, DeRemover, DeArquivar
<1> DEFINE tc == [colunas EXCEPT ![c] = l]
<1>5. l \in Coluna
  BY <1>4 DEF Coluna
<1> HIDE DEF l
<1>6. tc \in [Colunas -> Coluna \cup {Ausente}]
      /\ \A d \in Colunas : colunas[d] # Ausente => tc[d] # Ausente
  BY <1>2, <1>5, SentinelaAssumption DEF TypeOK
<1>7. /\ onde' \in [Tarefas -> Colunas \cup {Ausente}]
      /\ \A t \in Tarefas : onde'[t] # Ausente => tc[onde'[t]] # Ausente
  <2>1. \A t \in Tarefas : onde[t] # Ausente =>
                            onde[t] \in Colunas /\ colunas[onde[t]] # Ausente
    BY <1>2 DEF TypeOK, Presente
  <2> QED BY <1>1, <1>2, <1>6, <2>1 DEF TypeOK
<1>8. colunas' = tc
  BY <1>3
<1> HIDE DEF tc
<1>9. CASE p.tipo = "criar"
  <2>1. Escreve(r, Livre)
    BY <1>3, <1>9
  <2>2. PedidoCoerente(tc, membros, Livre)
    BY DEF PedidoCoerente
  <2> QED BY <1>1, <1>6, <1>7, <1>8, <2>1, <2>2, InvEscreveColuna
<1>10. CASE p.tipo = "arquivar"
  <2> DEFINE a == [id |-> c, ordem |-> p.ordem, arquivadas |-> TRUE]
             q == [p EXCEPT !.fase = "levar", !.alvo = a]
  <2>1. Escreve(r, q)
    BY <1>3, <1>10
  <2>2. a \in Linha
    BY <1>4 DEF Linha
  <2> HIDE DEF a
  <2>3. /\ q \in PedidoColuna /\ q.fase = "levar" /\ q.tipo = "arquivar" /\ q.alvo = a
        /\ q.lista = {} /\ q.fim = FALSE /\ q.tarefa = p.tarefa
    BY <1>2, <1>4, <1>10, <2>2 DEF PedidoColuna
  <2> HIDE DEF q
  <2>4. FormaColuna(q)
    BY <1>4, <1>10, <2>2, <2>3 DEF FormaColuna, DeArquivar
  <2>5. PorMudar(q) = {}
    BY <2>3 DEF PorMudar
  <2>6. SabeDasColunas(tc, q)
    BY <2>3, <2>5 DEF SabeDasColunas
  <2>7. PedidoCoerente(tc, membros, q)
    BY <2>3, <2>4, <2>6 DEF PedidoCoerente
  <2> QED BY <1>1, <1>6, <1>7, <1>8, <2>1, <2>7, InvEscreveColuna
<1> QED BY <1>4, <1>9, <1>10

LEMMA InvLevar ==
  ASSUME ProjetoInv, NEW r \in Reqs, Levar(r)
  PROVE  ProjetoInv'
<1> DEFINE p == pedidos[r]
<1>1. /\ p.fase = "levar" /\ Presente(p.alvo.id)
      /\ onde' = [onde EXCEPT ![p.tarefa] = p.alvo.id]
      /\ pedidos' = [pedidos EXCEPT ![r] = Livre]
      /\ colunas' = colunas /\ membros' = membros /\ chegaram' = chegaram
  BY DEF Levar, Fica
<1>2. p \in PedidoColuna /\ FormaColuna(p) /\ TypeOK
  BY <1>1, PedidoDeColuna
<1>3. p.alvo \in Linha
  <2>1. p.tipo \in {"criar", "mover", "remover", "arquivar"} /\ p.fase = "levar"
        /\ FormaColuna(p)
    BY <1>1, <1>2, CamposDaColuna
  <2> HIDE DEF p
  <2> QED BY <2>1 DEF FormaColuna, DeCriar, DeMover, DeRemover, DeArquivar
<1>4. p.alvo.id \in Colunas
  BY <1>3, TiposDaLinha
<1>5. /\ onde' \in [Tarefas -> Colunas \cup {Ausente}]
      /\ \A t \in Tarefas : onde'[t] # Ausente => Presente(onde'[t])
  BY <1>1, <1>2, <1>4 DEF TypeOK
<1>6. /\ pedidos' \in [Reqs -> {Livre} \cup PedidoColuna \cup PedidoMembro]
      /\ \A s \in Reqs : pedidos'[s] = IF s = r THEN Livre ELSE pedidos[s]
  BY <1>1, <1>2 DEF TypeOK
<1>7. TypeOK'
  BY <1>1, <1>2, <1>5, <1>6 DEF TypeOK, Presente
<1>8. \A s \in Reqs : PedidoCoerente(colunas', membros', pedidos'[s])
  BY <1>1, <1>6 DEF ProjetoInv, PedidoCoerente
<1> QED BY <1>7, <1>8 DEF ProjetoInv

-----------------------------------------------------------------------------
(* The specification. *)

LEMMA InvInit == Init => ProjetoInv
<1> SUFFICES ASSUME Init PROVE ProjetoInv
  OBVIOUS
<1>1. colunas \in [Colunas -> Coluna \cup {Ausente}]
  BY PadraoAssumption DEF Init, Coluna, Ordens
<1>2. TypeOK
  BY <1>1, LimitesAssumption DEF Init, TypeOK
<1>3. \A r \in Reqs : PedidoCoerente(colunas, membros, pedidos[r])
  BY DEF Init, PedidoCoerente
<1> QED BY <1>2, <1>3 DEF ProjetoInv

LEMMA InvParado == ASSUME ProjetoInv, UNCHANGED vars PROVE ProjetoInv'
BY DEF vars, ProjetoInv, TypeOK, Presente

\* ProjetoInv is inductive.
LEMMA InvNext == ProjetoInv /\ [Next]_vars => ProjetoInv'
<1> SUFFICES ASSUME ProjetoInv, [Next]_vars
             PROVE  ProjetoInv'
  OBVIOUS
<1>1. CASE Parar \/ UNCHANGED vars
  BY <1>1, InvParado DEF Parar
<1>2. ASSUME NEW r \in Reqs, Chegar(r)
      PROVE  ProjetoInv'
  BY <1>2, InvChegarColuna, InvPedirMembro DEF Chegar
<1>3. ASSUME NEW r \in Reqs, ContinuarColuna(r)
      PROVE  ProjetoInv'
  BY <1>3, InvListar, InvDeslocar, InvSalvar, InvAtualizar, InvRepor, InvExcluir,
     InvProcurar, InvLerUltima, InvInserir, InvLevar DEF ContinuarColuna
<1>4. ASSUME NEW r \in Reqs, LerMembro(r) \/ SalvarMembro(r) \/ EscreverMembro(r)
      PROVE  ProjetoInv'
  BY <1>4, InvLerMembro, InvSalvarMembro, InvEscreverMembro
<1>5. ASSUME NEW r \in Reqs, Falhar(r)
      PROVE  ProjetoInv'
  BY <1>5, InvFalhar
<1>6. ASSUME NEW t \in Tarefas, NEW c \in Colunas \cup {Ausente}, MexerTarefa(t, c)
      PROVE  ProjetoInv'
  BY <1>6, InvMexerTarefa
<1> QED BY <1>1, <1>2, <1>3, <1>4, <1>5, <1>6 DEF Next

\* The types hold in every state, and so does what each request knows.
THEOREM ProjetoSempreCoerente == Spec => []ProjetoInv
<1>1. Init => ProjetoInv
  BY InvInit
<1>2. ProjetoInv /\ [Next]_vars => ProjetoInv'
  BY InvNext
<1> QED BY <1>1, <1>2, PTL DEF Spec

\* The tables and the requests have their types; a task is in a column that is there, for
\* the foreign key holds back whoever would remove it.
THEOREM TiposDoProjeto == Spec => []TypeOK
<1>1. ProjetoInv => TypeOK
  BY DEF ProjetoInv
<1> QED BY <1>1, ProjetoSempreCoerente, PTL

-----------------------------------------------------------------------------
(* Tasks. *)

\* A change of the column itself is the last of a reordering, and is about the column it
\* was asked for.
LEMMA UltimaEscrita ==
  ASSUME ProjetoInv, NEW r \in Reqs, pedidos[r].fase \in {"atualizar", "repor"},
         pedidos[r].fim
  PROVE  /\ pedidos[r].tipo = "mover" /\ pedidos[r].item \in Linha
         /\ pedidos[r].alvo \in Linha /\ pedidos[r].ordem \in Ordens
         /\ pedidos[r].item.id = pedidos[r].alvo.id
         /\ pedidos[r].item.ordem = pedidos[r].ordem /\ pedidos[r].lista = {}
<1> DEFINE p == pedidos[r]
<1>1. FormaColuna(p) /\ p.fase \in {"atualizar", "repor"} /\ p.fim
  BY PedidoDeColuna
<1> SUFFICES /\ p.tipo = "mover" /\ p.item \in Linha /\ p.alvo \in Linha
             /\ p.ordem \in Ordens /\ p.item.id = p.alvo.id
             /\ p.item.ordem = p.ordem /\ p.lista = {}
  OBVIOUS
<1> HIDE DEF p
<1> QED BY <1>1 DEF FormaColuna, DeMover

\* A request about a column takes a task only to the archive, if that is what it was
\* asked for, or back to the column it had read it in: the tasks that TypeORM saves
\* along with a column are those it was loaded with.
THEOREM TarefasVoltamAOndeForamLidas == Spec => TarefaSoDevolvidaAOndeFoiLida
<1>1. ProjetoInv /\ [Next]_vars =>
         [ \A t \in Tarefas :
              onde'[t] # onde[t] /\ pedidos' # pedidos
              => \E r \in Reqs :
                    /\ DeColuna(r) /\ pedidos'[r] # pedidos[r]
                    /\ \/ pedidos[r].tarefa = t
                       \/ t \in pedidos[r].lidas /\ onde'[t] = pedidos[r].alvo.id ]_vars
  <2> SUFFICES ASSUME ProjetoInv, [Next]_vars, NEW t \in Tarefas,
                      onde'[t] # onde[t], pedidos' # pedidos
               PROVE  \E r \in Reqs :
                         /\ DeColuna(r) /\ pedidos'[r] # pedidos[r]
                         /\ \/ pedidos[r].tarefa = t
                            \/ t \in pedidos[r].lidas /\ onde'[t] = pedidos[r].alvo.id
    OBVIOUS
  <2>1. \E r \in Reqs : Atualizar(r) \/ Repor(r) \/ Levar(r)
    <3>1. onde' # onde
      OBVIOUS
    <3>2. ~Parar /\ ~UNCHANGED vars
      BY <3>1 DEF Parar, vars
    <3>3. ~ \E s \in Tarefas, c \in Colunas \cup {Ausente} : MexerTarefa(s, c)
      BY DEF MexerTarefa
    <3>4. PICK r \in Reqs : \/ Chegar(r)
                            \/ ContinuarColuna(r)
                            \/ LerMembro(r)
                            \/ SalvarMembro(r)
                            \/ EscreverMembro(r)
                            \/ Falhar(r)
      BY <3>2, <3>3 DEF Next
    <3>5. ~Chegar(r)
      BY <3>1 DEF Chegar, PedirColuna, PedirEdicao, PedirRemocao, PedirPosicao,
                  PedirArquivo, Iniciar, PedirMembro
    <3>6. ContinuarColuna(r)
      BY <3>1, <3>4, <3>5 DEF LerMembro, SalvarMembro, EscreverMembro, Falhar, NadaMuda
    <3>7. /\ ~Listar(r) /\ ~Deslocar(r) /\ ~Salvar(r) /\ ~Excluir(r)
          /\ ~Procurar(r) /\ ~LerUltima(r) /\ ~Inserir(r)
      BY <3>1 DEF Listar, Deslocar, Salvar, Examinar, Excluir, Procurar, LerUltima,
                  Inserir, NadaMuda
    <3> QED BY <3>6, <3>7 DEF ContinuarColuna
  <2>2. PICK r \in Reqs : Atualizar(r) \/ Repor(r) \/ Levar(r)
    BY <2>1
  <2>3. CASE Atualizar(r) \/ Repor(r)
    <3>1. /\ pedidos[r].fase \in {"atualizar", "repor"} /\ onde' = Devolver(pedidos[r])
          /\ pedidos'[r] = Depois(pedidos[r])
      BY <2>3 DEF Atualizar, Repor, Escreve
    <3>2. /\ pedidos[r].fim /\ t \in pedidos[r].lidas /\ onde'[t] = pedidos[r].item.id
      BY <3>1 DEF Devolver
    <3>3. DeColuna(r) /\ pedidos[r] # Livre
      BY <3>1, PedidoDeColuna, CamposDaColuna
    <3>4. pedidos'[r] = Livre
      BY <3>1, <3>2 DEF Depois
    <3>5. pedidos[r].item.id = pedidos[r].alvo.id
      BY <3>1, <3>2, UltimaEscrita
    <3> QED BY <3>2, <3>3, <3>4, <3>5
  <2>4. CASE Levar(r)
    <3>1. /\ pedidos[r].fase = "levar" /\ pedidos' = [pedidos EXCEPT ![r] = Livre]
          /\ onde' = [onde EXCEPT ![pedidos[r].tarefa] = pedidos[r].alvo.id]
      BY <2>4 DEF Levar, Fica
    <3>2. DeColuna(r) /\ pedidos[r] # Livre /\ TypeOK
      BY <3>1, PedidoDeColuna, CamposDaColuna
    <3>3. pedidos'[r] = Livre
      BY <3>1, <3>2 DEF TypeOK
    <3>4. pedidos[r].tarefa = t
      BY <3>1, <3>2 DEF TypeOK
    <3> QED BY <3>2, <3>3, <3>4
  <2> QED BY <2>2, <2>3, <2>4
<1> QED BY <1>1, ProjetoSempreCoerente, PTL DEF Spec, TarefaSoDevolvidaAOndeFoiLida

-----------------------------------------------------------------------------
(* Members. *)

\* The last administrator of a project steps down only if someone else takes the role
\* away, or the members changed while the request was being answered.
THEOREM UltimoAdminFica == Spec => UltimoAdminNaoSeRebaixa
<1>1. ProjetoInv /\ [Next]_vars =>
         [ Admins(membros) # {} /\ Admins(membros') = {}
           => \E r \in Reqs :
                 /\ Ocupado(r) /\ ~DeColuna(r) /\ pedidos'[r] = Livre
                 /\ \/ pedidos[r].tipo = "retirar"
                    \/ pedidos[r].quem # pedidos[r].alvo
                    \/ ~pedidos[r].so ]_vars
  <2> SUFFICES ASSUME ProjetoInv, [Next]_vars, Admins(membros) # {}, Admins(membros') = {}
               PROVE  \E r \in Reqs :
                         /\ Ocupado(r) /\ ~DeColuna(r) /\ pedidos'[r] = Livre
                         /\ \/ pedidos[r].tipo = "retirar"
                            \/ pedidos[r].quem # pedidos[r].alvo
                            \/ ~pedidos[r].so
    OBVIOUS
  <2>1. PICK r \in Reqs : EscreverMembro(r)
    <3>1. membros' # membros
      OBVIOUS
    <3>2. ~Parar /\ ~UNCHANGED vars
      BY <3>1 DEF Parar, vars
    <3>3. ~ \E s \in Tarefas, c \in Colunas \cup {Ausente} : MexerTarefa(s, c)
      BY <3>1 DEF MexerTarefa
    <3>4. PICK r \in Reqs : \/ Chegar(r)
                            \/ ContinuarColuna(r)
                            \/ LerMembro(r)
                            \/ SalvarMembro(r)
                            \/ EscreverMembro(r)
                            \/ Falhar(r)
      BY <3>2, <3>3 DEF Next
    <3>5. ~Chegar(r)
      BY <3>1 DEF Chegar, PedirColuna, PedirEdicao, PedirRemocao, PedirPosicao,
                  PedirArquivo, Iniciar, PedirMembro
    <3>6. ~ContinuarColuna(r)
      BY <3>1 DEF ContinuarColuna, Listar, Deslocar, Salvar, Examinar, Atualizar, Repor,
                  Excluir, Procurar, LerUltima, Inserir, Levar, NadaMuda
    <3>7. ~LerMembro(r) /\ ~SalvarMembro(r) /\ ~Falhar(r)
      BY <3>1 DEF LerMembro, SalvarMembro, Falhar, NadaMuda
    <3> QED BY <3>4, <3>5, <3>6, <3>7
  <2> DEFINE p == pedidos[r]
  <2>2. /\ p.fase \in {"inserirMembro", "gravarMembro", "excluirMembro"}
        /\ p.fase = "inserirMembro" => membros[p.alvo] = Ausente
        /\ membros' = [membros EXCEPT ![p.alvo] =
              IF p.fase = "gravarMembro" /\ @ = Ausente THEN @ ELSE p.papel]
        /\ pedidos'[r] = Livre
    BY <2>1 DEF EscreverMembro
  <2>3. /\ p \in PedidoMembro /\ FormaMembro(p) /\ (p.so => SabeDosMembros(membros, p))
        /\ ~DeColuna(r) /\ Ocupado(r) /\ TypeOK
    BY <2>2, PedidoDeMembro
  <2>4. p.alvo \in Pessoas
    BY <2>3, CamposDoMembro
  <2>5. \A s \in Pessoas : s # p.alvo => membros'[s] = membros[s]
    BY <2>2, <2>3, <2>4 DEF TypeOK
  <2>6. \A s \in Pessoas : membros[s] = "admin" => s = p.alvo
    BY <2>5 DEF Admins
  <2>7. membros[p.alvo] = "admin" /\ Admins(membros) = {p.alvo}
    BY <2>4, <2>6 DEF Admins
  <2>8. membros[p.alvo] # Ausente
    BY <2>7, SentinelaAssumption DEF Papeis
  <2>9. ASSUME p.tipo # "retirar", p.quem = p.alvo, p.so
        PROVE  FALSE
    <3>1. p.fase = "gravarMembro"
      BY <2>2, <2>3, <2>8, <2>9 DEF FormaMembro
    <3>2. Cardinality(Admins(membros)) = 1
      BY <2>7, FS_Singleton
    <3>3. SabeDosMembros(membros, p)
      BY <2>3, <2>9
    <3>4. p.admins = Admins(membros) /\ p.fase \in {"salvarMembro", "gravarMembro"}
      BY <3>1, <3>3 DEF SabeDosMembros
    <3>5. Cardinality(p.admins) <= 1
      BY <3>2, <3>4
    <3>6. p.papel = "admin"
      BY <2>7, <2>9, <3>3, <3>4, <3>5 DEF SabeDosMembros
    <3>7. membros'[p.alvo] = "admin"
      BY <2>2, <2>3, <2>4, <2>8, <3>6 DEF TypeOK
    <3> QED BY <2>4, <3>7 DEF Admins
  <2> QED BY <2>2, <2>3, <2>9
<1> QED BY <1>1, ProjetoSempreCoerente, PTL DEF Spec, UltimoAdminNaoSeRebaixa

-----------------------------------------------------------------------------
(* Columns. *)

\* What ColunasCoerentesSeSozinha says of request r.
PassoCoerente(r) ==
    DeColuna(r) /\ pedidos[r].so /\ pedidos'[r] # pedidos[r] /\ colunas' # colunas =>
    /\ pedidos[r].eram /\ pedidos'[r] = Livre => Distintas(colunas')
    /\ /\ pedidos[r].tipo = "arquivar" /\ pedidos[r].fase = "inserir"
       /\ pedidos'[r] # Livre /\ pedidos'[r].fase = "levar"
       => \A c \in Presentes : ~colunas[c].arquivadas

\* A request that another one overtakes goes on from where it was.
LEMMA PassoDeOutro ==
  ASSUME ProjetoInv, NEW r \in Reqs, NEW s \in Reqs, r # s, NEW q, Escreve(s, q)
  PROVE  PassoCoerente(r)
<1> SUFFICES ASSUME DeColuna(r)
             PROVE  /\ pedidos'[r] # Livre
                    /\ pedidos[r].fase = "inserir" => pedidos'[r].fase # "levar"
  BY DEF PassoCoerente
<1>1. pedidos'[r] = [pedidos[r] EXCEPT !.so = FALSE]
  BY DEF Escreve
<1>2. pedidos[r] \in PedidoColuna
  BY Especies DEF ProjetoInv
<1>3. pedidos'[r] \in PedidoColuna /\ pedidos'[r].fase = pedidos[r].fase
  BY <1>1, <1>2 DEF PedidoColuna
<1> QED BY <1>3, CamposDaColuna

LEMMA PassoAtualizar ==
  ASSUME ProjetoInv, NEW r \in Reqs, Atualizar(r)
  PROVE  PassoCoerente(r)
<1> DEFINE p == pedidos[r]
           x == p.item
<1>1. /\ p.fase = "atualizar" /\ pedidos'[r] = Depois(p)
      /\ colunas' = [colunas EXCEPT ![x.id] =
            IF @ = Ausente THEN @ ELSE [@ EXCEPT !.ordem = x.ordem]]
  BY DEF Atualizar, Escreve
<1>2. /\ p \in PedidoColuna /\ TypeOK /\ FormaColuna(p)
      /\ p.so => SabeDasColunas(colunas, p)
  BY <1>1, PedidoDeColuna
<1> SUFFICES ASSUME p.so, p.eram, pedidos'[r] = Livre
             PROVE  Distintas(colunas')
  BY <1>1 DEF PassoCoerente
<1>3. p.fim
  <2> SUFFICES ASSUME ~p.fim PROVE FALSE
    OBVIOUS
  <2>1. Livre = Adiante(p)
    BY <1>1 DEF Depois
  <2>2. p.fase = "atualizar" /\ p.tipo \in {"criar", "mover", "remover", "arquivar"}
    BY <1>1, <1>2, CamposDaColuna
  <2>3. FormaColuna(p) /\ p \in PedidoColuna
    BY <1>2
  <2> HIDE DEF p
  <2>4. p.tipo # "arquivar"
    BY <2>2, <2>3 DEF FormaColuna, DeArquivar
  <2>5. Livre \in PedidoColuna
    BY <2>1, <2>3, <2>4, CamposAdiante
  <2> QED BY <2>5, CamposDaColuna
<1>4. /\ p.tipo = "mover" /\ x \in Linha /\ p.alvo \in Linha /\ p.ordem \in Ordens
      /\ x.id = p.alvo.id /\ x.ordem = p.ordem /\ p.lista = {}
  BY <1>1, <1>3, UltimaEscrita
<1>5. PorMudar(p) = {x}
  BY <1>1, <1>4 DEF PorMudar
<1>6. PlanoDistinto(colunas, p) /\ colunas[x.id] # Ausente /\ x.id \in Colunas
  BY <1>1, <1>2, <1>4, <1>5, TiposDaLinha DEF SabeDasColunas
<1>7. colunas[x.id] \in Coluna
  BY <1>2, <1>6 DEF TypeOK
<1>8. colunas'[x.id].ordem = p.ordem
  BY <1>1, <1>2, <1>4, <1>6, <1>7 DEF TypeOK, Coluna
<1>9. \A c \in Colunas : c # x.id => colunas'[c] = colunas[c]
  BY <1>1, <1>2, <1>6 DEF TypeOK
<1>10. ASSUME NEW c \in Colunas, c # x.id, colunas'[c] # Ausente
       PROVE  /\ c \in Outras(colunas, p) /\ colunas'[c] = colunas[c]
              /\ colunas[c].ordem \in Ordens /\ VaiPara(colunas, p, c, colunas[c].ordem)
  <2>1. colunas'[c] = colunas[c] /\ Presente(c)
    BY <1>9, <1>10 DEF Presente
  <2> QED BY <1>2, <1>4, <1>5, <1>10, <2>1, DaColuna DEF Outras, VaiPara, Presente
<1> HIDE DEF x, p
<1>11. \A c \in Outras(colunas, p) : ~VaiPara(colunas, p, c, p.ordem)
  BY <1>4, <1>6 DEF PlanoDistinto
<1>12. \A c, d \in Outras(colunas, p), o \in Ordens :
          VaiPara(colunas, p, c, o) /\ VaiPara(colunas, p, d, o) => c = d
  BY <1>6 DEF PlanoDistinto
<1>13. ASSUME NEW c \in Colunas, NEW d \in Colunas, c # d,
              colunas'[c] # Ausente, colunas'[d] # Ausente
       PROVE  colunas'[c].ordem # colunas'[d].ordem
  <2>1. CASE c = x.id
    BY <1>8, <1>10, <1>11, <1>13, <2>1
  <2>2. CASE d = x.id
    BY <1>8, <1>10, <1>11, <1>13, <2>2
  <2>3. CASE c # x.id /\ d # x.id
    BY <1>10, <1>12, <1>13, <2>3
  <2> QED BY <2>1, <2>2, <2>3
<1> QED BY <1>13 DEF Distintas

LEMMA PassoExcluir ==
  ASSUME ProjetoInv, NEW r \in Reqs, Excluir(r)
  PROVE  PassoCoerente(r)
<1> DEFINE p == pedidos[r]
<1>1. p.fase = "excluir" /\ colunas' = [colunas EXCEPT ![p.alvo.id] = Ausente]
  BY DEF Excluir
<1>2. /\ p \in PedidoColuna /\ TypeOK /\ FormaColuna(p)
      /\ p.so => SabeDasColunas(colunas, p)
  BY <1>1, PedidoDeColuna
<1> SUFFICES ASSUME p.so, p.eram
             PROVE  Distintas(colunas')
  BY <1>1 DEF PassoCoerente
<1>3. p.tipo = "remover" /\ p.lista = {}
  <2>1. /\ p.fase = "excluir" /\ p.tipo \in {"criar", "mover", "remover", "arquivar"}
        /\ FormaColuna(p)
    BY <1>1, <1>2, CamposDaColuna
  <2> HIDE DEF p
  <2> QED BY <2>1 DEF FormaColuna, DeCriar, DeMover, DeArquivar
<1>4. PorMudar(p) = {} /\ PlanoDistinto(colunas, p)
  BY <1>1, <1>2, <1>3 DEF PorMudar, SabeDasColunas
<1>5. ASSUME NEW c \in Colunas, colunas'[c] # Ausente
      PROVE  /\ c \in Outras(colunas, p) /\ colunas'[c] = colunas[c]
             /\ colunas[c].ordem \in Ordens /\ VaiPara(colunas, p, c, colunas[c].ordem)
  <2>1. c # p.alvo.id /\ colunas'[c] = colunas[c] /\ Presente(c)
    BY <1>1, <1>2, <1>5 DEF TypeOK, Presente
  <2> QED BY <1>2, <1>4, <2>1, DaColuna DEF Outras, VaiPara, Presente
<1> HIDE DEF p
<1> QED BY <1>4, <1>5 DEF PlanoDistinto, Distintas

LEMMA PassoInserir ==
  ASSUME ProjetoInv, NEW r \in Reqs, Inserir(r)
  PROVE  PassoCoerente(r)
<1> DEFINE p == pedidos[r]
           l == [ordem |-> p.ordem, arquivadas |-> p.tipo = "arquivar"]
<1>1. PICK n \in Colunas :
         /\ p.fase = "inserir" /\ colunas' = [colunas EXCEPT ![n] = l]
         /\ p.tipo # "criar" =>
               pedidos'[r] = [p EXCEPT !.fase = "levar",
                                !.alvo = [id |-> n, ordem |-> p.ordem,
                                          arquivadas |-> TRUE]]
  BY DEF Inserir, Escreve
<1>2. /\ p \in PedidoColuna /\ TypeOK /\ FormaColuna(p)
      /\ p.so => SabeDasColunas(colunas, p)
  BY <1>1, PedidoDeColuna
<1>3. p.tipo \in {"criar", "arquivar"} /\ p.lista = {} /\ p.ordem \in Ordens
  <2>1. /\ p.fase = "inserir" /\ p.tipo \in {"criar", "mover", "remover", "arquivar"}
        /\ FormaColuna(p)
    BY <1>1, <1>2, CamposDaColuna
  <2> HIDE DEF p
  <2> QED BY <2>1 DEF FormaColuna, DeCriar, DeMover, DeRemover, DeArquivar
<1>4. ASSUME p.so, p.tipo = "arquivar"
      PROVE  \A c \in Presentes : ~colunas[c].arquivadas
  BY <1>1, <1>2, <1>4 DEF SabeDasColunas, Presentes, Presente
<1>5. ASSUME p.tipo = "arquivar"
      PROVE  pedidos'[r] # Livre
  <2>1. pedidos'[r].fase = "levar"
    BY <1>1, <1>2, <1>5 DEF PedidoColuna
  <2> QED BY <2>1, FaseLivre
<1>6. ASSUME p.so, p.eram, p.tipo = "criar"
      PROVE  Distintas(colunas')
  <2>1. PorMudar(p) = {} /\ PlanoDistinto(colunas, p)
    BY <1>1, <1>2, <1>3, <1>6 DEF PorMudar, SabeDasColunas
  <2>2. colunas'[n].ordem = p.ordem /\ \A c \in Colunas : c # n => colunas'[c] = colunas[c]
    BY <1>1, <1>2 DEF TypeOK
  <2>3. ASSUME NEW c \in Colunas, c # n, colunas'[c] # Ausente
        PROVE  /\ c \in Outras(colunas, p) /\ colunas'[c] = colunas[c]
               /\ colunas[c].ordem \in Ordens
               /\ VaiPara(colunas, p, c, colunas[c].ordem)
    <3>1. colunas'[c] = colunas[c] /\ Presente(c)
      BY <2>2, <2>3 DEF Presente
    <3> QED BY <1>2, <1>6, <2>1, <3>1, DaColuna DEF Outras, VaiPara, Presente
  <2>4. p.tipo # "remover"
    BY <1>6
  <2> HIDE DEF p, l
  <2>5. \A c \in Outras(colunas, p) : ~VaiPara(colunas, p, c, p.ordem)
    BY <2>1, <2>4 DEF PlanoDistinto
  <2>6. \A c, d \in Outras(colunas, p), o \in Ordens :
           VaiPara(colunas, p, c, o) /\ VaiPara(colunas, p, d, o) => c = d
    BY <2>1 DEF PlanoDistinto
  <2>7. ASSUME NEW c \in Colunas, NEW d \in Colunas, c # d,
               colunas'[c] # Ausente, colunas'[d] # Ausente
        PROVE  colunas'[c].ordem # colunas'[d].ordem
    <3>1. CASE c = n
      BY <2>2, <2>3, <2>5, <2>7, <3>1
    <3>2. CASE d = n
      BY <2>2, <2>3, <2>5, <2>7, <3>2
    <3>3. CASE c # n /\ d # n
      BY <2>3, <2>6, <2>7, <3>3
    <3> QED BY <3>1, <3>2, <3>3
  <2> QED BY <2>7 DEF Distintas
<1> QED BY <1>3, <1>4, <1>5, <1>6 DEF PassoCoerente

\* A request about columns that nobody else's write came between, and whose every write
\* came off, leaves the orders distinct if they were so at the start, and creates no
\* second archive.
THEOREM PedidoSozinhoDeixaOrdensDistintas == Spec => ColunasCoerentesSeSozinha
<1>1. ASSUME ProjetoInv, [Next]_vars, NEW r \in Reqs
      PROVE  PassoCoerente(r)
  <2>1. CASE colunas' = colunas
    BY <2>1 DEF PassoCoerente
  <2>2. CASE colunas' # colunas
    <3>2. ~Parar /\ ~UNCHANGED vars
      BY <2>2 DEF Parar, vars
    <3>3. ~ \E t \in Tarefas, c \in Colunas \cup {Ausente} : MexerTarefa(t, c)
      BY <2>2 DEF MexerTarefa
    <3>4. PICK s \in Reqs : \/ Chegar(s)
                            \/ ContinuarColuna(s)
                            \/ LerMembro(s)
                            \/ SalvarMembro(s)
                            \/ EscreverMembro(s)
                            \/ Falhar(s)
      BY <3>2, <3>3, <1>1 DEF Next
    <3>5. ~Chegar(s)
      BY <2>2 DEF Chegar, PedirColuna, PedirEdicao, PedirRemocao, PedirPosicao,
                  PedirArquivo, Iniciar, PedirMembro
    <3>6. ContinuarColuna(s)
      BY <2>2, <3>4, <3>5 DEF LerMembro, SalvarMembro, EscreverMembro, Falhar, NadaMuda
    <3>7. Atualizar(s) \/ Repor(s) \/ Excluir(s) \/ Inserir(s)
      BY <2>2, <3>6 DEF ContinuarColuna, Listar, Deslocar, Salvar, Examinar, Procurar,
                        LerUltima, Levar, NadaMuda
    <3>8. CASE s # r
      <4>1. \E q : Escreve(s, q)
        BY <3>7 DEF Atualizar, Repor, Excluir, Inserir
      <4> QED BY <1>1, <3>8, <4>1, PassoDeOutro
    <3>9. CASE s = r /\ Repor(r)
      <4>1. pedidos[r].fase = "repor"
        BY <3>9 DEF Repor
      <4>2. pedidos[r].so => SabeDasColunas(colunas, pedidos[r])
        BY <1>1, <4>1, PedidoDeColuna
      <4> QED BY <4>1, <4>2 DEF PassoCoerente, SabeDasColunas
    <3> QED BY <1>1, <3>7, <3>8, <3>9, PassoAtualizar, PassoExcluir, PassoInserir
  <2> QED BY <2>1, <2>2
<1>2. ProjetoInv /\ [Next]_vars =>
         [ \A r \in Reqs :
              DeColuna(r) /\ pedidos[r].so /\ pedidos'[r] # pedidos[r]
              /\ colunas' # colunas =>
              /\ pedidos[r].eram /\ pedidos'[r] = Livre => Distintas(colunas')
              /\ /\ pedidos[r].tipo = "arquivar" /\ pedidos[r].fase = "inserir"
                 /\ pedidos'[r] # Livre /\ pedidos'[r].fase = "levar"
                 => \A c \in Presentes : ~colunas[c].arquivadas ]_vars
  BY <1>1 DEF PassoCoerente
<1> QED BY <1>2, ProjetoSempreCoerente, PTL DEF Spec, ColunasCoerentesSeSozinha
=============================================================================
