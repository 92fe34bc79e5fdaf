---------------------------- MODULE Arquivos_proofs ----------------------------
(***************************************************************************)
(* Proofs about the shelves, their files and their documents, and about    *)
(* the backups, for any number of requests, shelves, files and operations. *)
(***************************************************************************)
EXTENDS MCArquivos, FiniteSetTheorems, WellFoundedInduction, TLAPS

-----------------------------------------------------------------------------
(* Shelves and files: the inductive invariant. *)

Ativo(r) == pedidos[r] # Livre
Ativos == { r \in Reqs : Ativo(r) }
Ocupadas == { t \in 1 .. MaxPedidos : tarefas[t] # Livre }
Editando(p) ==
    { r \in Reqs : /\ Ativo(r) /\ pedidos[r].tipo = "editar"
                   /\ pedidos[r].fase = "gravar" /\ pedidos[r].pasta = p }

Reindexacao ==
    [ fase: {"lote", "montar", "enviar"}, lote: Nat, total: Nat,
      pasta: Ids \cup {Ausente}, doc: Edicoes \cup {Ausente}, so: BOOLEAN,
      faltam: SUBSET Ids, limpa: BOOLEAN ]

\* PastasTypeOK, and the variables it does not name.
TiposLinhas ==
    /\ pastas \in [Ids -> Edicoes \cup {Ausente, Removida}]
    /\ arquivos \in [Arquivos -> Ids \cup {Ausente}]
    /\ \A a \in Arquivos : arquivos[a] \in Vivas \cup {Ausente}
    /\ objetos \subseteq Arquivos
TiposPedidos == pedidos \in [Reqs -> Pedido \cup {Livre}]
TiposBusca ==
    /\ tarefas \in [1 .. MaxPedidos -> Tarefa \cup {Livre}]
    /\ indice \in [Ids -> Edicoes \cup {Ausente}]
    /\ reindexacao \in Reindexacao \cup {Livre}
TiposContas ==
    /\ contagem \in [ pedidos: 0 .. MaxPedidos, falhas: 0 .. MaxFalhas,
                      reinicios: 0 .. MaxReinicios, reindexacoes: 0 .. MaxReindexacoes ]
    /\ historia \in [ desviadas: SUBSET Ids, partidos: SUBSET Arquivos,
                      largados: SUBSET Arquivos ]
Formas == TiposLinhas /\ TiposPedidos /\ TiposBusca /\ TiposContas

\* Every update of the index comes from a request that is over, and every edition of a
\* shelf from one that has written: there is a place for the next, and the count of
\* editions stays within its bound.
Cabem ==
    /\ IsFiniteSet(Ativos)
    /\ Cardinality(Ativos) + Cardinality(Ocupadas) <= contagem.pedidos
    /\ \A p \in Vivas : pastas[p] + Cardinality(Editando(p)) <= contagem.pedidos

\* What each kind of request does, step by step.
FaseCerta(p) ==
    /\ p.fase = "guardar" => p.tipo \in {"criar", "incluir"} /\ p.arquivo # Ausente
    /\ p.fase = "gravar" => /\ p.tipo \in {"criar", "editar", "incluir"}
                            /\ p.tipo = "editar" => p.arquivo = Ausente
                            /\ p.tipo = "incluir" => p.arquivo # Ausente
    /\ p.fase = "reler" => p.tipo \in {"criar", "editar"}
    /\ p.fase \in {"ler", "apagar"} => p.tipo = "remover"
    /\ p.fase \in {"apagarObjetos", "apagarLinhas"} => p.tipo \in {"excluir", "remover"}
    /\ p.lidos # {} => p.tipo = "remover"
    /\ p.tipo = "excluir" => p.arquivo # Ausente
FasesCertas == \A r \in Reqs : Ativo(r) => FaseCerta(pedidos[r])

PorGravar(p) == p.tipo \in {"criar", "incluir"} /\ p.fase \in {"guardar", "gravar"}
Tem(p, a) == a = p.arquivo \/ a \in p.lidos

\* Nobody else knows of a shelf, or of a file, that has not been written.
CriacaoASos ==
    \A r \in Reqs :
       Ativo(r) /\ PorGravar(pedidos[r]) /\ pedidos[r].tipo = "criar" =>
          /\ pastas[pedidos[r].pasta] = Ausente
          /\ \A q \in Reqs \ {r} : Ativo(q) => pedidos[q].pasta # pedidos[r].pasta
ArquivoASos ==
    \A r \in Reqs, a \in Arquivos :
       Ativo(r) /\ PorGravar(pedidos[r]) /\ pedidos[r].arquivo = a =>
          /\ arquivos[a] = Ausente
          /\ pedidos[r].fase = "gravar" => a \in objetos
          /\ \A q \in Reqs \ {r} : Ativo(q) => ~Tem(pedidos[q], a)

\* The files a request is to delete are on its shelf as long as they have a row, and once
\* it has deleted their objects they have none, if no deletion has failed unseen.
AlvosCertos ==
    \A r \in Reqs, a \in Arquivos :
       /\ Ativo(r) /\ a \in Alvos(pedidos[r])
       /\ pedidos[r].fase \in {"apagarObjetos", "apagarLinhas", "apagar"}
       => /\ arquivos[a] \in {pedidos[r].pasta, Ausente}
          /\ pedidos[r].fase # "apagarObjetos" => a \notin objetos \ historia.largados

\* A removal has read all the files of its shelf, but for those put there since.
RemocaoLeuTudo ==
    \A r \in Reqs, a \in Arquivos :
       /\ Ativo(r) /\ pedidos[r].tipo = "remover" /\ pedidos[r].fase # "ler"
       /\ arquivos[a] = pedidos[r].pasta
       => a \in pedidos[r].lidos \cup historia.partidos

\* The request is between a file's object and its row.
Mexe(p, a) ==
    \/ p.tipo \in {"criar", "incluir"} /\ p.fase = "gravar" /\ p.arquivo = a
    \/ p.fase = "apagarLinhas" /\ a \in Alvos(p)
SeparadosSoNoMeio ==
    \A a \in Arquivos :
       (arquivos[a] # Ausente) # (a \in objetos)
       => \/ a \in historia.partidos
          \/ a \in historia.largados \cap objetos
          \/ \E r \in Reqs : Ativo(r) /\ Mexe(pedidos[r], a)

ArquivosInv ==
    /\ FasesCertas /\ CriacaoASos /\ ArquivoASos /\ AlvosCertos /\ RemocaoLeuTudo
    /\ SeparadosSoNoMeio

-----------------------------------------------------------------------------
(* The index: the inductive invariant. *)

\* A request that has written the shelf's row, and has not asked for the update.
Escreveu(r, p) ==
    Ativo(r) /\ pedidos[r].fase \in {"reler", "publicar"} /\ pedidos[r].pasta = p
RemocaoEscrita(r) ==
    Ativo(r) /\ pedidos[r].tipo = "remover" /\ pedidos[r].fase = "publicar"
DoIndice(t, p) == tarefas[t] # Livre /\ tarefas[t].pasta = p

\* p's document is still to be brought up to date, by another than the update menos.
PorVir(p, menos) ==
    \/ /\ p \in Vivas
       /\ \/ \E r \in Reqs : Escreveu(r, p)
          \/ \E t \in 1 .. MaxPedidos : t # menos /\ DoIndice(t, p)
    \/ /\ p \notin Vivas
       /\ \/ \E r \in Reqs : RemocaoEscrita(r) /\ pedidos[r].pasta = p
          \/ \E t \in 1 .. MaxPedidos : DoIndice(t, p) /\ tarefas[t].tipo = "remocao"

\* What is removed is gone for good.
RemovidasFicam ==
    /\ \A r \in Reqs : RemocaoEscrita(r) => pastas[pedidos[r].pasta] = Removida
    /\ \A t \in 1 .. MaxPedidos : tarefas[t] # Livre /\ tarefas[t].tipo = "remocao" =>
          /\ tarefas[t].fase = "enviar" /\ tarefas[t].doc = Ausente
          /\ pastas[tarefas[t].pasta] = Removida

\* A document, and an update whose document nobody has overtaken, show the row as it is,
\* or another update is still to come.
IndicePorVir ==
    \A p \in Ids :
       indice[p] # Documento(p) => p \in historia.desviadas \/ PorVir(p, 0)
TarefasPorVir ==
    \A t \in 1 .. MaxPedidos :
       /\ tarefas[t] # Livre /\ tarefas[t].fase = "enviar" /\ tarefas[t].tipo = "upsert"
       /\ tarefas[t].so = TRUE
       => tarefas[t].doc = Documento(tarefas[t].pasta) \/ PorVir(tarefas[t].pasta, t)
LotePorVir ==
    reindexacao # Livre =>
       /\ reindexacao.fase # "lote" => reindexacao.pasta \in Ids
       /\ reindexacao.fase = "enviar" /\ reindexacao.so = TRUE =>
             \/ reindexacao.doc = Documento(reindexacao.pasta)
             \/ PorVir(reindexacao.pasta, 0)

IndiceInv == RemovidasFicam /\ IndicePorVir /\ TarefasPorVir /\ LotePorVir

\* The place of a shelf among those there are.
Antes(p) == { q \in Vivas : q < p }
Lugar(p) == Cardinality(Antes(p))

\* As long as no shelf comes or goes, the batches before this one are the shelves sent.
LotesEmOrdem ==
    /\ reindexacao # Livre => (reindexacao.fase # "lote" <=> reindexacao.pasta # Ausente)
    /\ reindexacao # Livre /\ reindexacao.limpa = TRUE =>
          /\ reindexacao.total = Cardinality(Vivas)
          /\ reindexacao.faltam = { p \in Vivas : Lugar(p) >= reindexacao.lote }
          /\ reindexacao.fase # "lote" => /\ reindexacao.pasta \in Vivas
                                          /\ Lugar(reindexacao.pasta) = reindexacao.lote

PastasInv == Formas /\ Cabem /\ ArquivosInv /\ IndiceInv /\ LotesEmOrdem

-----------------------------------------------------------------------------
(* Numbers: the first free place, and the places of the shelves. *)

LEMMA MinExiste ==
  ASSUME NEW S \in SUBSET Nat, S # {}
  PROVE  Min(S) \in S
<1> DEFINE R == { ss \in Nat \X Nat : ss[1] < ss[2] }
<1>1. IsWellFoundedOn(R, Nat)
  BY NatLessThanWellFounded DEF OpToRel
<1>2. \A x, y \in Nat : ~ (<< y, x >> \in R) => x <= y
  OBVIOUS
<1> HIDE DEF R
<1>3. \E x \in S : \A y \in S : ~ (<< y, x >> \in R)
  BY <1>1, WFMin
<1>4. PICK x \in S : \A y \in S : x <= y
  BY <1>2, <1>3
<1> QED BY <1>4 DEF Min

LEMMA VivasFinitas ==
  /\ Ids \subseteq Nat /\ Vivas \subseteq Ids
  /\ IsFiniteSet(Vivas) /\ Cardinality(Vivas) \in Nat
<1>1. Cardinality(Ids) \in Nat
  BY IdsAssumption, FS_CardinalityType
<1>2. Ids \subseteq Nat
  BY <1>1, IdsAssumption
<1>3. Vivas \subseteq Ids
  BY DEF Vivas
<1> QED BY <1>2, <1>3, IdsAssumption, FS_Subset, FS_CardinalityType

LEMMA Lugares ==
  ASSUME NEW p \in Vivas
  PROVE  /\ Lugar(p) \in Nat /\ Lugar(p) < Cardinality(Vivas)
         /\ \A q \in Vivas : Lugar(p) = Lugar(q) => p = q
<1>1. \A q \in Vivas : /\ Antes(q) \in SUBSET Vivas /\ IsFiniteSet(Antes(q))
                       /\ Lugar(q) \in Nat /\ q \in Nat
  BY VivasFinitas, FS_Subset, FS_CardinalityType DEF Antes, Lugar
<1>2. Lugar(p) < Cardinality(Vivas)
  <2>1. p \notin Antes(p)
    <3>1. ~ (p < p)
      BY <1>1
    <3> QED BY <3>1 DEF Antes
  <2>2. Antes(p) # Vivas
    BY <2>1
  <2> QED BY <1>1, <2>2, VivasFinitas, FS_Subset DEF Lugar
<1>3. ASSUME NEW a \in Vivas, NEW b \in Vivas, a < b
      PROVE  Lugar(a) < Lugar(b)
  <2>1. Antes(a) \in SUBSET Antes(b) /\ a \in Antes(b) /\ a \notin Antes(a)
    <3>1. ~ (a < a) /\ \A q \in Vivas : q < a => q < b
      BY <1>1, <1>3
    <3> QED BY <1>3, <3>1 DEF Antes
  <2>2. Antes(a) # Antes(b)
    BY <2>1
  <2>3. Cardinality(Antes(a)) <= Cardinality(Antes(b))
        /\ (Cardinality(Antes(b)) = Cardinality(Antes(a)) => Antes(b) = Antes(a))
    BY <1>1, <2>1, FS_Subset
  <2> QED BY <1>1, <2>2, <2>3 DEF Lugar
<1>4. \A q \in Vivas : Lugar(p) = Lugar(q) => p = q
  <2> SUFFICES ASSUME NEW q \in Vivas, Lugar(p) = Lugar(q), p # q
               PROVE  FALSE
    OBVIOUS
  <2>1. p < q \/ q < p
    BY <1>1
  <2> QED BY <1>1, <1>3, <2>1
<1> QED BY <1>1, <1>2, <1>4

\* There is a shelf in every place.
LEMMA LugarOcupado ==
  ASSUME NEW n \in Nat, n < Cardinality(Vivas)
  PROVE  \E p \in Vivas : Lugar(p) = n
<1> DEFINE f == [p \in Vivas |-> Lugar(p) + 1]
           T == 1 .. Cardinality(Vivas)
<1>1. IsFiniteSet(T) /\ Cardinality(T) = Cardinality(Vivas)
  BY VivasFinitas, FS_Interval
<1>2. f \in [Vivas -> T]
  BY Lugares, VivasFinitas
<1>3. \A p, q \in Vivas : f[p] = f[q] => p = q
  BY Lugares
<1>4. f \in Injection(Vivas, T)
  BY <1>2, <1>3 DEF Injection, IsInjective
<1>5. f \in Surjection(Vivas, T)
  BY <1>1, <1>4, FS_Injection
<1>6. n + 1 \in T
  BY VivasFinitas
<1>7. PICK p \in Vivas : f[p] = n + 1
  BY <1>5, <1>6 DEF Surjection
<1> QED BY <1>7, Lugares

-----------------------------------------------------------------------------
(* Requests: one goes on, the others stay as they are. *)

Fases == { "guardar", "gravar", "reler", "ler", "apagarObjetos", "apagarLinhas",
           "apagar", "publicar" }

LEMMA NaoSaoLivres == Livre \notin Pedido /\ Livre \notin Tarefa /\ Livre \notin Reindexacao
BY DEF Livre, Pedido, Tarefa, Reindexacao

LEMMA EmCurso ==
  ASSUME Formas, NEW r \in Reqs
  PROVE  /\ Ativo(r) => pedidos[r] \in Pedido
         /\ pedidos[r].fase \in Fases => Ativo(r)
BY DEF Formas, TiposPedidos, Ativo, Livre, Fases

SoMuda(r) == \A q \in Reqs \ {r} : pedidos'[q] = pedidos[q]

LEMMA Avanca ==
  ASSUME Formas, NEW r \in Reqs, Ativo(r), NEW f \in Fases, Avancar(r, f)
  PROVE  /\ pedidos' \in [Reqs -> Pedido \cup {Livre}] /\ SoMuda(r) /\ Ativo(r)'
         /\ pedidos'[r] \in Pedido /\ pedidos'[r].fase = f
         /\ pedidos'[r].tipo = pedidos[r].tipo /\ pedidos'[r].pasta = pedidos[r].pasta
         /\ pedidos'[r].arquivo = pedidos[r].arquivo /\ pedidos'[r].lidos = pedidos[r].lidos
<1> DEFINE x == [pedidos[r] EXCEPT !.fase = f]
<1>1. pedidos[r] \in Pedido
  BY EmCurso
<1>2. /\ x \in Pedido /\ x.fase = f /\ x.tipo = pedidos[r].tipo
      /\ x.pasta = pedidos[r].pasta /\ x.arquivo = pedidos[r].arquivo
      /\ x.lidos = pedidos[r].lidos
  BY <1>1 DEF Pedido, Fases
<1>3. pedidos' = [pedidos EXCEPT ![r] = x]
  BY DEF Avancar
<1> HIDE DEF x
<1>4. x # Livre
  BY <1>2, NaoSaoLivres
<1>5. pedidos'[r] = x /\ SoMuda(r) /\ pedidos' \in [Reqs -> Pedido \cup {Livre}]
  BY <1>2, <1>3 DEF Formas, TiposPedidos, SoMuda
<1> QED BY <1>2, <1>4, <1>5 DEF Ativo

LEMMA Encerra ==
  ASSUME Formas, NEW r \in Reqs, Encerrar(r)
  PROVE  /\ pedidos' \in [Reqs -> Pedido \cup {Livre}] /\ SoMuda(r)
         /\ pedidos'[r] = Livre /\ ~Ativo(r)'
BY DEF Formas, TiposPedidos, SoMuda, Encerrar, Ativo

LEMMA Inicia ==
  ASSUME Formas, NEW r \in Reqs, NEW tipo, NEW fase, NEW p, NEW a,
         tipo \in {"criar", "editar", "incluir", "excluir", "remover"}, fase \in Fases,
         p \in Ids, a \in Arquivos \cup {Ausente}, Iniciar(r, tipo, fase, p, a)
  PROVE  /\ pedidos' \in [Reqs -> Pedido \cup {Livre}] /\ SoMuda(r) /\ Ativo(r)' /\ ~Ativo(r)
         /\ pedidos'[r] \in Pedido /\ pedidos'[r].fase = fase /\ pedidos'[r].tipo = tipo
         /\ pedidos'[r].pasta = p /\ pedidos'[r].arquivo = a /\ pedidos'[r].lidos = {}
         /\ contagem.pedidos < MaxPedidos
         /\ contagem' = [contagem EXCEPT !.pedidos = @ + 1]
         /\ UNCHANGED << linhas, busca, historia >>
<1> DEFINE x == [ fase |-> fase, tipo |-> tipo, pasta |-> p, arquivo |-> a, lidos |-> {} ]
<1>1. x \in Pedido /\ x.fase = fase /\ x.tipo = tipo /\ x.pasta = p /\ x.arquivo = a
      /\ x.lidos = {}
  BY DEF Pedido, Fases
<1>2. pedidos' = [pedidos EXCEPT ![r] = x]
  BY DEF Iniciar
<1> HIDE DEF x
<1>3. x # Livre
  BY <1>1, NaoSaoLivres
<1>4. pedidos'[r] = x /\ SoMuda(r) /\ pedidos' \in [Reqs -> Pedido \cup {Livre}]
  BY <1>1, <1>2 DEF Formas, TiposPedidos, SoMuda
<1> QED BY <1>1, <1>3, <1>4 DEF Ativo, Iniciar

LEMMA Le ==
  ASSUME Formas, NEW r \in Reqs, LerArquivos(r)
  PROVE  /\ pedidos' \in [Reqs -> Pedido \cup {Livre}] /\ SoMuda(r) /\ Ativo(r)' /\ Ativo(r)
         /\ pedidos[r].fase = "ler"
         /\ pedidos'[r] \in Pedido /\ pedidos'[r].fase = "apagarObjetos"
         /\ pedidos'[r].tipo = pedidos[r].tipo /\ pedidos'[r].pasta = pedidos[r].pasta
         /\ pedidos'[r].arquivo = pedidos[r].arquivo
         /\ pedidos'[r].lidos = { a \in Arquivos : arquivos[a] = pedidos[r].pasta }
         /\ UNCHANGED << linhas, busca, contagem, historia >>
<1> DEFINE s == { a \in Arquivos : arquivos[a] = pedidos[r].pasta }
           x == [pedidos[r] EXCEPT !.fase = "apagarObjetos", !.lidos = s]
<1>1. pedidos[r] \in Pedido /\ Ativo(r)
  BY EmCurso DEF LerArquivos, Fases
<1>2. s \subseteq Arquivos
  OBVIOUS
<1>3. pedidos' = [pedidos EXCEPT ![r] = x]
  BY DEF LerArquivos
<1> HIDE DEF s
<1>4. /\ x \in Pedido /\ x.fase = "apagarObjetos" /\ x.tipo = pedidos[r].tipo
      /\ x.pasta = pedidos[r].pasta /\ x.arquivo = pedidos[r].arquivo
      /\ x.lidos = s
  BY <1>1, <1>2 DEF Pedido
<1> HIDE DEF x
<1>5. x # Livre
  BY <1>4, NaoSaoLivres
<1>6. pedidos'[r] = x /\ SoMuda(r) /\ pedidos' \in [Reqs -> Pedido \cup {Livre}]
  BY <1>3, <1>4 DEF Formas, TiposPedidos, SoMuda
<1> QED BY <1>1, <1>4, <1>5, <1>6 DEF Ativo, LerArquivos, s

-----------------------------------------------------------------------------
(* Shelves: the types. *)

LEMMA Sentinelas ==
  /\ Ausente \notin Edicoes /\ Removida \notin Edicoes /\ Ausente # Removida
  /\ Ausente \notin Ids /\ Ausente \notin Arquivos
  /\ 0 \in Edicoes /\ Edicoes \subseteq Nat /\ MaxPedidos \in Nat
  /\ \A p \in Vivas : p \in Ids
<1>1. Edicoes \subseteq Nat /\ 0 \in Edicoes /\ MaxPedidos \in Nat
  BY LimitesAssumption DEF Edicoes
<1>2. Ausente \notin Nat /\ Removida \notin Nat /\ Ausente # Removida
      /\ Ausente \notin Arquivos
  BY SentinelasDePastas
<1>3. Ausente \notin Ids /\ \A p \in Vivas : p \in Ids
  BY <1>2, VivasFinitas
<1> QED BY <1>1, <1>2, <1>3

LEMMA FormasSaoTipos == Formas => PastasTypeOK
BY DEF Formas, TiposLinhas, TiposPedidos, TiposBusca, TiposContas, PastasTypeOK

LEMMA DocumentoTipo ==
  ASSUME TiposLinhas, NEW p \in Ids
  PROVE  /\ Documento(p) \in Edicoes \cup {Ausente}
         /\ p \in Vivas => pastas[p] \in Edicoes
         /\ p \in Vivas <=> pastas[p] \in Edicoes
BY Sentinelas DEF TiposLinhas, Documento, Vivas

LEMMA MudancaTipo ==
  ASSUME TiposBusca, NEW p, MudamAsPastas(p)
  PROVE  reindexacao' \in Reindexacao \cup {Livre}
BY DEF TiposBusca, MudamAsPastas, Reindexacao

LEMMA AtrasoTipo ==
  ASSUME TiposBusca, NEW p, NEW quais \in [1 .. MaxPedidos -> Tarefa \cup {Livre}]
  PROVE  /\ Atrasadas(p, quais) \in [1 .. MaxPedidos -> Tarefa \cup {Livre}]
         /\ ReindexacaoAtrasada(p) \in Reindexacao \cup {Livre}
<1>1. \A t \in 1 .. MaxPedidos :
         quais[t] # Livre => [quais[t] EXCEPT !.so = FALSE] \in Tarefa
  BY DEF Tarefa
<1>2. reindexacao # Livre => [reindexacao EXCEPT !.so = FALSE] \in Reindexacao
  BY DEF TiposBusca, Reindexacao
<1> QED BY <1>1, <1>2 DEF TiposBusca, Atrasadas, ReindexacaoAtrasada

LEMMA InitFormas == InitPastas => Formas
<1> SUFFICES ASSUME InitPastas PROVE Formas
  OBVIOUS
<1> USE Sentinelas
<1>1. TiposLinhas
  BY DEF InitPastas, TiposLinhas, Vivas
<1>2. TiposPedidos
  BY DEF InitPastas, TiposPedidos
<1>3. TiposBusca
  <2>1. \A p \in Ids : Documento(p) \in Edicoes \cup {Ausente}
    BY <1>1, DocumentoTipo
  <2> QED BY <2>1 DEF InitPastas, TiposBusca
<1>4. TiposContas
  BY LimitesAssumption DEF InitPastas, TiposContas
<1> QED BY <1>1, <1>2, <1>3, <1>4 DEF Formas

LEMMA FalhaConta ==
  ASSUME TiposContas, contagem.falhas < MaxFalhas,
         contagem' = [contagem EXCEPT !.falhas = @ + 1]
  PROVE  contagem' \in [ pedidos: 0 .. MaxPedidos, falhas: 0 .. MaxFalhas,
                         reinicios: 0 .. MaxReinicios, reindexacoes: 0 .. MaxReindexacoes ]
         /\ contagem'.pedidos = contagem.pedidos
BY LimitesAssumption DEF TiposContas

LEMMA FormasDeChegar ==
  ASSUME Formas, NEW r \in Reqs, Chegar(r)
  PROVE  Formas'
<1>1. /\ pedidos' \in [Reqs -> Pedido \cup {Livre}] /\ contagem.pedidos < MaxPedidos
      /\ contagem' = [contagem EXCEPT !.pedidos = @ + 1]
      /\ UNCHANGED << linhas, busca, historia >>
  <2> USE Sentinelas
  <2> PICK p \in Ids : \/ \E a \in Arquivos \cup {Ausente} : PedirCriacao(r, p, a)
                       \/ PedirEdicao(r, p)
                       \/ \E a \in Arquivos : PedirInclusao(r, p, a) \/ PedirExclusao(r, p, a)
                       \/ PedirRemocao(r, p)
    BY DEF Chegar
  <2>1. CASE \E a \in Arquivos \cup {Ausente} : PedirCriacao(r, p, a)
    BY <2>1, Inicia DEF PedirCriacao, Fases
  <2>2. CASE PedirEdicao(r, p)
    BY <2>2, Inicia DEF PedirEdicao, Fases
  <2>3. CASE \E a \in Arquivos : PedirInclusao(r, p, a)
    BY <2>3, Inicia DEF PedirInclusao, Fases
  <2>4. CASE \E a \in Arquivos : PedirExclusao(r, p, a)
    BY <2>4, Inicia DEF PedirExclusao, Fases
  <2>5. CASE PedirRemocao(r, p)
    BY <2>5, Inicia DEF PedirRemocao, Fases
  <2> QED BY <2>1, <2>2, <2>3, <2>4, <2>5
<1>2. TiposLinhas' /\ TiposBusca'
  BY <1>1 DEF Formas, TiposLinhas, TiposBusca, linhas, busca, Vivas
<1>3. TiposContas'
  BY <1>1, LimitesAssumption DEF Formas, TiposContas
<1> QED BY <1>1, <1>2, <1>3 DEF Formas, TiposPedidos

\* An edition that is about to be written raises the count within its bound.
LEMMA EdicaoCabe ==
  ASSUME Formas, Cabem, NEW r \in Reqs, Ativo(r), pedidos[r].tipo = "editar",
         pedidos[r].fase = "gravar", pedidos[r].pasta \in Vivas
  PROVE  /\ IsFiniteSet(Editando(pedidos[r].pasta)) /\ r \in Editando(pedidos[r].pasta)
         /\ Cardinality(Editando(pedidos[r].pasta)) \in Nat \ {0}
         /\ pastas[pedidos[r].pasta] + 1 \in Edicoes
<1> DEFINE p == pedidos[r].pasta
<1>1. Editando(p) \in SUBSET Ativos /\ r \in Editando(p)
  BY DEF Editando, Ativos
<1>2. IsFiniteSet(Editando(p)) /\ Cardinality(Editando(p)) \in Nat \ {0}
  BY <1>1, FS_Subset, FS_EmptySet, FS_CardinalityType DEF Cabem
<1>3. pastas[p] \in Edicoes
  BY DocumentoTipo, Sentinelas DEF Formas
<1>4. pastas[p] + Cardinality(Editando(p)) <= contagem.pedidos
  BY DEF Cabem
<1>5. contagem.pedidos \in 0 .. MaxPedidos
  BY DEF Formas, TiposContas
<1> QED BY <1>1, <1>2, <1>3, <1>4, <1>5, LimitesAssumption DEF Edicoes

LEMMA GravarTipos ==
  ASSUME Formas, Cabem, FasesCertas, NEW r \in Reqs, Gravar(r)
  PROVE  Formas'
<1> USE Sentinelas
<1>1. Ativo(r) /\ pedidos[r] \in Pedido /\ FaseCerta(pedidos[r])
  BY EmCurso DEF Gravar, Fases, FasesCertas
<1>2. pedidos[r].pasta \in Ids /\ pedidos[r].arquivo \in Arquivos \cup {Ausente}
  BY <1>1 DEF Pedido
<1>3. TiposPedidos'
  BY <1>1, Avanca, Encerra DEF Gravar, TiposPedidos, Fases
<1>4. UNCHANGED << objetos, tarefas, indice, contagem >> /\ pedidos[r].fase = "gravar"
  BY DEF Gravar
<1>5. CASE /\ pedidos[r].tipo = "criar"
           /\ pastas' = [pastas EXCEPT ![pedidos[r].pasta] = 0]
           /\ arquivos' = IF pedidos[r].arquivo = Ausente THEN arquivos
                          ELSE [arquivos EXCEPT ![pedidos[r].arquivo] = pedidos[r].pasta]
           /\ MudamAsPastas(pedidos[r].pasta) /\ UNCHANGED historia
  <2>1. /\ pastas' \in [Ids -> Edicoes \cup {Ausente, Removida}]
        /\ arquivos' \in [Arquivos -> Ids \cup {Ausente}]
    BY <1>2, <1>5 DEF Formas, TiposLinhas
  <2>2. Vivas \subseteq Vivas' /\ pedidos[r].pasta \in Vivas'
    BY <1>2, <1>5 DEF Formas, TiposLinhas, Vivas
  <2>3. \A a \in Arquivos : arquivos'[a] \in Vivas' \cup {Ausente}
    BY <1>2, <1>5, <2>2 DEF Formas, TiposLinhas
  <2>4. TiposLinhas'
    BY <1>4, <2>1, <2>3 DEF Formas, TiposLinhas
  <2>5. TiposBusca' /\ TiposContas'
    BY <1>4, <1>5, MudancaTipo DEF Formas, TiposBusca, TiposContas
  <2> QED BY <1>3, <2>4, <2>5 DEF Formas
<1>6. CASE /\ pedidos[r].tipo = "editar" /\ pedidos[r].pasta \in Vivas
           /\ pastas' = [pastas EXCEPT ![pedidos[r].pasta] = @ + 1]
           /\ UNCHANGED << arquivos, reindexacao, historia >>
  <2>1. pastas[pedidos[r].pasta] + 1 \in Edicoes
    BY <1>1, <1>4, <1>6, EdicaoCabe
  <2>2. pastas' \in [Ids -> Edicoes \cup {Ausente, Removida}]
    BY <1>2, <1>6, <2>1 DEF Formas, TiposLinhas
  <2>3. Vivas \subseteq Vivas'
    BY <1>2, <1>6, <2>1 DEF Formas, TiposLinhas, Vivas
  <2>4. TiposLinhas'
    BY <1>4, <1>6, <2>2, <2>3 DEF Formas, TiposLinhas
  <2> QED BY <1>3, <1>4, <1>6, <2>4 DEF Formas, TiposBusca, TiposContas
<1>7. CASE /\ pedidos[r].tipo = "incluir" /\ pedidos[r].pasta \in Vivas
           /\ arquivos' = [arquivos EXCEPT ![pedidos[r].arquivo] = pedidos[r].pasta]
           /\ Partir(IF SendoRemovida(pedidos[r].pasta) THEN {pedidos[r].arquivo} ELSE {})
           /\ UNCHANGED << pastas, reindexacao >>
  <2>1. pedidos[r].arquivo \in Arquivos
    BY <1>1, <1>2, <1>4, <1>7 DEF FaseCerta
  <2>2. TiposLinhas'
    BY <1>2, <1>4, <1>7 DEF Formas, TiposLinhas, Vivas
  <2>3. TiposContas'
    BY <1>4, <1>7, <2>1 DEF Formas, TiposContas, Partir
  <2> QED BY <1>3, <1>4, <1>7, <2>2, <2>3 DEF Formas, TiposBusca
<1>8. CASE /\ Partir({pedidos[r].arquivo} \ {Ausente})
           /\ UNCHANGED << pastas, arquivos, reindexacao >>
  <2>1. TiposContas'
    BY <1>2, <1>4, <1>8 DEF Formas, TiposContas, Partir
  <2> QED BY <1>3, <1>4, <1>8, <2>1 DEF Formas, TiposBusca, TiposLinhas, Vivas
<1> QED BY <1>5, <1>6, <1>7, <1>8 DEF Gravar

LEMMA ApagarTipos ==
  ASSUME Formas, NEW r \in Reqs, Apagar(r)
  PROVE  Formas'
<1> USE Sentinelas
<1>1. Ativo(r) /\ pedidos[r] \in Pedido
  BY EmCurso DEF Apagar, Fases
<1>2. pedidos[r].pasta \in Ids
  BY <1>1 DEF Pedido
<1>3. TiposPedidos'
  BY <1>1, Avanca DEF Apagar, TiposPedidos, Fases
<1>4. pastas' \in [Ids -> Edicoes \cup {Ausente, Removida}]
  BY <1>2 DEF Apagar, Formas, TiposLinhas
<1>5. \A p \in Ids \ {pedidos[r].pasta} : p \in Vivas => p \in Vivas'
  BY DEF Apagar, Vivas, Formas, TiposLinhas
<1>6. /\ arquivos' \in [Arquivos -> Ids \cup {Ausente}]
      /\ \A a \in Arquivos : arquivos'[a] \in Vivas' \cup {Ausente}
  BY <1>5 DEF Apagar, Formas, TiposLinhas
<1>7. reindexacao' \in Reindexacao \cup {Livre}
  BY MudancaTipo DEF Apagar, Formas, TiposBusca
<1> QED BY <1>3, <1>4, <1>6, <1>7
        DEF Apagar, Formas, TiposLinhas, TiposBusca, TiposContas

LEMMA SobraTipo ==
  ASSUME NEW p \in Pedido, FaseCerta(p)
  PROVE  PodemSobrar(p) \subseteq Arquivos
BY DEF PodemSobrar, FaseCerta, Pedido

LEMMA FalharTipos ==
  ASSUME Formas, FasesCertas, NEW r \in Reqs, Falhar(r)
  PROVE  Formas'
<1>1. pedidos[r] \in Pedido /\ FaseCerta(pedidos[r])
  BY EmCurso DEF Falhar, FasesCertas, Ativo
<1>2. TiposPedidos'
  BY Encerra DEF Falhar, TiposPedidos
<1>3. TiposLinhas'
  <2>1. PodemSobrar(pedidos[r]) \subseteq Arquivos
    BY <1>1, SobraTipo
  <2>2. objetos' \subseteq Arquivos
    BY <2>1 DEF Falhar, Formas, TiposLinhas
  <2> QED BY <2>2 DEF Falhar, Formas, TiposLinhas, Vivas
<1>4. Partem(pedidos[r]) \subseteq Arquivos /\ pedidos[r].pasta \in Ids
  BY <1>1 DEF Partem, Pedido
<1>5. historia' \in [ desviadas: SUBSET Ids, partidos: SUBSET Arquivos, largados: SUBSET Arquivos ]
  BY <1>4 DEF Falhar, Formas, TiposContas
<1>6. TiposContas'
  BY <1>5, FalhaConta DEF Falhar, Formas, TiposContas
<1>7. TiposBusca'
  BY AtrasoTipo DEF Falhar, Formas, TiposBusca
<1> QED BY <1>2, <1>3, <1>6, <1>7 DEF Formas

\* What a deletion of objects does, the ones that fail unseen included.
LEMMA EfeitoDeApagarObjetos ==
  ASSUME Formas, NEW r \in Reqs, ApagarObjetos(r)
  PROVE  /\ objetos' \subseteq objetos /\ objetos \ objetos' \subseteq Alvos(pedidos[r])
         /\ objetos' \cap Alvos(pedidos[r]) \subseteq historia'.largados
         /\ UNCHANGED << pastas, arquivos, busca >>
         /\ historia.largados \subseteq historia'.largados
         /\ historia'.partidos = historia.partidos
         /\ historia'.desviadas = historia.desviadas
         /\ historia' \in [ desviadas: SUBSET Ids, partidos: SUBSET Arquivos,
                            largados: SUBSET Arquivos ]
         /\ contagem' \in [ pedidos: 0 .. MaxPedidos, falhas: 0 .. MaxFalhas,
                             reinicios: 0 .. MaxReinicios,
                             reindexacoes: 0 .. MaxReindexacoes ]
         /\ contagem'.pedidos = contagem.pedidos
         /\ contagem'.reinicios = contagem.reinicios
<1>1. PICK ficam \in SUBSET (objetos \cap Alvos(pedidos[r])) :
         /\ objetos' = objetos \ (Alvos(pedidos[r]) \ ficam)
         /\ historia' = [historia EXCEPT !.largados = @ \cup ficam]
         /\ \/ contagem' = contagem
            \/ /\ contagem.falhas < MaxFalhas
               /\ contagem' = [contagem EXCEPT !.falhas = @ + 1]
  BY DEF ApagarObjetos
<1>2. ficam \subseteq Arquivos
  BY DEF Formas, TiposLinhas
<1>3. /\ objetos' \subseteq objetos /\ objetos \ objetos' \subseteq Alvos(pedidos[r])
      /\ objetos' \cap Alvos(pedidos[r]) \subseteq ficam
  BY <1>1
<1>4. /\ historia'.largados = historia.largados \cup ficam
      /\ historia'.partidos = historia.partidos
      /\ historia'.desviadas = historia.desviadas
      /\ historia' \in [ desviadas: SUBSET Ids, partidos: SUBSET Arquivos,
                         largados: SUBSET Arquivos ]
  BY <1>1, <1>2 DEF Formas, TiposContas
<1>5. /\ contagem' \in [ pedidos: 0 .. MaxPedidos, falhas: 0 .. MaxFalhas,
                          reinicios: 0 .. MaxReinicios,
                          reindexacoes: 0 .. MaxReindexacoes ]
      /\ contagem'.pedidos = contagem.pedidos
      /\ contagem'.reinicios = contagem.reinicios
  BY <1>1, LimitesAssumption DEF Formas, TiposContas
<1>6. UNCHANGED << pastas, arquivos, busca >>
  BY DEF ApagarObjetos
<1> QED BY <1>3, <1>4, <1>5, <1>6

LEMMA FormasDeContinuar ==
  ASSUME Formas, Cabem, FasesCertas, NEW r \in Reqs, Continuar(r)
  PROVE  Formas'
<1> USE Sentinelas
<1>1. \A f \in Fases : pedidos[r].fase = f => Ativo(r) /\ pedidos[r] \in Pedido
  BY EmCurso
<1>2. CASE Guardar(r)
  <2>1. pedidos[r].arquivo \in Arquivos
    BY <1>1, <1>2 DEF Guardar, Fases, FasesCertas, FaseCerta, Pedido
  <2>2. TiposPedidos'
    BY <1>1, <1>2, Avanca DEF Guardar, TiposPedidos, Fases
  <2> QED BY <1>2, <2>1, <2>2 DEF Guardar, Formas, TiposLinhas, TiposBusca, TiposContas,
                                  busca, Vivas
<1>3. CASE Gravar(r)
  BY <1>3, GravarTipos
<1>4. CASE Reler(r)
  <2>1. TiposPedidos'
    BY <1>1, <1>4, Avanca, Encerra DEF Reler, TiposPedidos, Fases
  <2> QED BY <1>4, <2>1 DEF Reler, Formas, TiposLinhas, TiposBusca, TiposContas,
                            busca, linhas, Vivas
<1>5. CASE LerArquivos(r)
  <2>1. TiposPedidos'
    BY <1>5, Le DEF TiposPedidos
  <2> QED BY <1>5, <2>1 DEF LerArquivos, Formas, TiposLinhas, TiposBusca, TiposContas,
                            busca, linhas, Vivas
<1>6. CASE ApagarObjetos(r)
  <2>1. TiposPedidos'
    BY <1>1, <1>6, Avanca DEF ApagarObjetos, TiposPedidos, Fases
  <2>2. TiposLinhas' /\ TiposContas'
    BY <1>6, EfeitoDeApagarObjetos DEF Formas, TiposLinhas, TiposContas, Vivas
  <2> QED BY <1>6, <2>1, <2>2 DEF ApagarObjetos, Formas, TiposBusca, busca
<1>7. CASE ApagarLinhas(r)
  <2>1. TiposPedidos'
    BY <1>1, <1>7, Avanca DEF ApagarLinhas, TiposPedidos, Fases
  <2>2. TiposLinhas'
    BY <1>7 DEF ApagarLinhas, Formas, TiposLinhas, Vivas
  <2> QED BY <1>7, <2>1, <2>2 DEF ApagarLinhas, Formas, TiposBusca, TiposContas, busca
<1>8. CASE Apagar(r)
  BY <1>8, ApagarTipos
<1>9. CASE Publicar(r)
  <2>1. TiposPedidos'
    BY <1>9, Encerra DEF Publicar, Pedida, TiposPedidos
  <2>2. pedidos[r].pasta \in Ids
    BY <1>1, <1>9 DEF Publicar, Pedida, Fases, Pedido
  <2>3. tarefas' \in [1 .. MaxPedidos -> Tarefa \cup {Livre}]
    BY <1>9, <2>2 DEF Publicar, Pedida, Tarefa, Formas, TiposBusca
  <2> QED BY <1>9, <2>1, <2>3 DEF Publicar, Pedida, Formas, TiposLinhas, TiposBusca,
                                  TiposContas, linhas, Vivas
<1> QED BY <1>2, <1>3, <1>4, <1>5, <1>6, <1>7, <1>8, <1>9 DEF Continuar

\* Being late changes nothing else of an update.
MesmaTarefa(k, l) ==
    k.fase = l.fase /\ k.tipo = l.tipo /\ k.pasta = l.pasta /\ k.doc = l.doc
Atrasa(k, p) == k.pasta = p /\ k.fase = "enviar"
EmDia(k) == k.so = TRUE

LEMMA Atrasos ==
  ASSUME NEW p, NEW quais \in [1 .. MaxPedidos -> Tarefa \cup {Livre}],
         NEW t \in 1 .. MaxPedidos
  PROVE  /\ Atrasadas(p, quais)[t] = Livre <=> quais[t] = Livre
         /\ quais[t] # Livre =>
               /\ MesmaTarefa(Atrasadas(p, quais)[t], quais[t])
               /\ EmDia(Atrasadas(p, quais)[t]) => EmDia(quais[t]) /\ ~Atrasa(quais[t], p)
<1>1. quais[t] # Livre =>
         LET k == [quais[t] EXCEPT !.so = FALSE]
         IN  k # Livre /\ MesmaTarefa(k, quais[t]) /\ ~EmDia(k)
  BY NaoSaoLivres DEF Tarefa, MesmaTarefa, EmDia
<1>2. Atrasadas(p, quais)[t] =
         IF quais[t] # Livre /\ Atrasa(quais[t], p)
         THEN [quais[t] EXCEPT !.so = FALSE] ELSE quais[t]
  BY DEF Atrasadas, Atrasa
<1>3. CASE quais[t] # Livre /\ Atrasa(quais[t], p)
  BY <1>1, <1>2, <1>3
<1>4. CASE ~(quais[t] # Livre /\ Atrasa(quais[t], p))
  <2>1. Atrasadas(p, quais)[t] = quais[t]
    BY <1>2, <1>4
  <2> QED BY <1>4, <2>1 DEF MesmaTarefa
<1> QED BY <1>3, <1>4

\* One update is over, and the others of the same document are late.
SoAtrasa(p, t) ==
    \A u \in 1 .. MaxPedidos \ {t} :
       /\ tarefas'[u] = Livre <=> tarefas[u] = Livre
       /\ tarefas[u] # Livre =>
             /\ MesmaTarefa(tarefas'[u], tarefas[u])
             /\ EmDia(tarefas'[u]) => EmDia(tarefas[u]) /\ ~Atrasa(tarefas[u], p)

Sai(t, p) == tarefas' = Atrasadas(p, [tarefas EXCEPT ![t] = Livre])

LEMMA SemTarefa ==
  ASSUME Formas, NEW t \in 1 .. MaxPedidos, NEW p, Sai(t, p)
  PROVE  /\ tarefas' \in [1 .. MaxPedidos -> Tarefa \cup {Livre}]
         /\ tarefas'[t] = Livre /\ SoAtrasa(p, t)
<1> DEFINE d == [tarefas EXCEPT ![t] = Livre]
<1>1. d \in [1 .. MaxPedidos -> Tarefa \cup {Livre}] /\ d[t] = Livre
      /\ \A u \in 1 .. MaxPedidos \ {t} : d[u] = tarefas[u]
  BY DEF Formas, TiposBusca
<1>2. tarefas' = Atrasadas(p, d)
  BY DEF Sai
<1> HIDE DEF d
<1>3. tarefas'[t] = Livre
  BY <1>1, <1>2, Atrasos
<1>4. tarefas' \in [1 .. MaxPedidos -> Tarefa \cup {Livre}]
  BY <1>1, <1>2, AtrasoTipo DEF Formas
<1>5. ASSUME NEW u \in 1 .. MaxPedidos \ {t}
      PROVE  /\ tarefas'[u] = Livre <=> tarefas[u] = Livre
             /\ tarefas[u] # Livre =>
                   /\ MesmaTarefa(tarefas'[u], tarefas[u])
                   /\ EmDia(tarefas'[u]) => EmDia(tarefas[u]) /\ ~Atrasa(tarefas[u], p)
  <2>1. d[u] = tarefas[u] /\ u \in 1 .. MaxPedidos
        /\ d \in [1 .. MaxPedidos -> Tarefa \cup {Livre}]
    BY <1>1
  <2>2. /\ tarefas'[u] = Livre <=> d[u] = Livre
        /\ d[u] # Livre =>
              /\ MesmaTarefa(tarefas'[u], d[u])
              /\ EmDia(tarefas'[u]) => EmDia(d[u]) /\ ~Atrasa(d[u], p)
    BY <1>2, <2>1, Atrasos
  <2> QED BY <2>1, <2>2
<1> QED BY <1>3, <1>4, <1>5 DEF SoAtrasa

LEMMA TodasAtrasam ==
  ASSUME Formas, NEW p, tarefas' = Atrasadas(p, tarefas)
  PROVE  /\ tarefas' \in [1 .. MaxPedidos -> Tarefa \cup {Livre}]
         /\ SoAtrasa(p, 0)
<1>1. tarefas \in [1 .. MaxPedidos -> Tarefa \cup {Livre}]
  BY DEF Formas, TiposBusca
<1>2. tarefas' \in [1 .. MaxPedidos -> Tarefa \cup {Livre}]
  BY <1>1, AtrasoTipo DEF Formas
<1> QED BY <1>1, <1>2, Atrasos DEF SoAtrasa

LEMMA SeguinteTipo ==
  ASSUME NEW x \in Reindexacao
  PROVE  /\ Seguinte(x) \in Reindexacao
         /\ Seguinte(x).fase = "lote" /\ Seguinte(x).lote = x.lote + 1
         /\ Seguinte(x).total = x.total /\ Seguinte(x).pasta = Ausente
         /\ Seguinte(x).faltam = x.faltam /\ Seguinte(x).limpa = x.limpa
<1> DEFINE a == [x EXCEPT !.fase = "lote"]
           b == [a EXCEPT !.lote = @ + 1]
           c == [b EXCEPT !.pasta = Ausente, !.doc = Ausente, !.so = TRUE]
<1>1. a \in Reindexacao /\ a.fase = "lote" /\ a.lote = x.lote
      /\ a.total = x.total /\ a.faltam = x.faltam /\ a.limpa = x.limpa
  BY DEF Reindexacao
<1>2. Seguinte(x) = c
  BY DEF Seguinte
<1> HIDE DEF a
<1>3. b \in Reindexacao /\ b.fase = "lote" /\ b.lote = x.lote + 1
      /\ b.total = x.total /\ b.faltam = x.faltam /\ b.limpa = x.limpa
  BY <1>1 DEF Reindexacao
<1> HIDE DEF b
<1>4. c \in Reindexacao /\ c.fase = "lote" /\ c.lote = x.lote + 1
      /\ c.total = x.total /\ c.faltam = x.faltam /\ c.limpa = x.limpa
      /\ c.pasta = Ausente
  BY <1>3 DEF Reindexacao
<1> QED BY <1>2, <1>4

LEMMA BuscaSegue ==
  ASSUME Formas, tarefas' = tarefas, indice' = indice,
         reindexacao' \in Reindexacao \cup {Livre}
  PROVE  TiposBusca'
BY DEF Formas, TiposBusca

LEMMA ContasSeguem ==
  ASSUME Formas, contagem' = contagem, historia' = historia
  PROVE  TiposContas'
BY DEF Formas, TiposContas

PassoDaBusca ==
    \/ \E t \in DOMAIN tarefas : Montar(t) \/ Enviar(t) \/ Perder(t)
    \/ Reindexar \/ ReindexarSemConta \/ Lote \/ MontarLote \/ EnviarLote \/ PerderLote

LEMMA FormasDaBusca ==
  ASSUME Formas, LotePorVir, PassoDaBusca
  PROVE  Formas'
<1>0. UNCHANGED << pastas, arquivos, objetos, pedidos >>
  BY DEF PassoDaBusca, Montar, Enviar, Perder, Reindexar, ReindexarSemConta, Contadas,
         Lote, MontarLote, EnviarLote, PerderLote, linhas
<1> SUFFICES TiposBusca' /\ TiposContas'
  BY <1>0 DEF Formas, TiposLinhas, TiposPedidos, Vivas
<1>1. ASSUME NEW t \in DOMAIN tarefas, Montar(t) \/ Enviar(t) \/ Perder(t)
      PROVE  TiposBusca' /\ TiposContas'
  <2>1. t \in 1 .. MaxPedidos /\ tarefas[t] \in Tarefa
    BY <1>1 DEF Formas, TiposBusca, Montar, Enviar, Perder
  <2>2. tarefas[t].pasta \in Ids /\ tarefas[t].doc \in Edicoes \cup {Ausente}
    BY <2>1 DEF Tarefa
  <2>3. CASE Montar(t)
    <3>1. tarefas[t].pasta \in Vivas => Documento(tarefas[t].pasta) \in Edicoes \cup {Ausente}
      BY <2>2, DocumentoTipo DEF Formas
    <3>2. tarefas[t].pasta \in Vivas =>
             [tarefas[t] EXCEPT !.fase = "enviar", !.doc = Documento(tarefas[t].pasta)]
                \in Tarefa
      BY <2>1, <3>1 DEF Tarefa
    <3>3. tarefas' \in [1 .. MaxPedidos -> Tarefa \cup {Livre}]
      BY <2>3, <3>2 DEF Montar, Formas, TiposBusca
    <3>4. UNCHANGED << indice, reindexacao, contagem, historia >>
      BY <2>3 DEF Montar
    <3> QED BY <3>3, <3>4 DEF Formas, TiposBusca, TiposContas
  <2>4. CASE Enviar(t)
    <3>1. tarefas' \in [1 .. MaxPedidos -> Tarefa \cup {Livre}]
      BY <2>1, <2>4, SemTarefa DEF Enviar, Sai
    <3>0. reindexacao' \in Reindexacao \cup {Livre}
      BY <2>4, AtrasoTipo DEF Enviar, Formas, TiposBusca
    <3>2. indice' \in [Ids -> Edicoes \cup {Ausente}]
      BY <2>2, <2>4 DEF Enviar, Formas, TiposBusca
    <3>3. TiposContas'
      BY <2>2, <2>4 DEF Enviar, Desviar, Formas, TiposContas
    <3> QED BY <3>0, <3>1, <3>2, <3>3 DEF TiposBusca
  <2>5. CASE Perder(t)
    <3>1. tarefas' \in [1 .. MaxPedidos -> Tarefa \cup {Livre}]
      BY <2>1, <2>5, SemTarefa DEF Perder, Sai
    <3>0. reindexacao' \in Reindexacao \cup {Livre}
      BY <2>5, AtrasoTipo DEF Perder, Formas, TiposBusca
    <3>2. historia' \in [ desviadas: SUBSET Ids, partidos: SUBSET Arquivos, largados: SUBSET Arquivos ]
      BY <2>2, <2>5 DEF Perder, Desviar, Formas, TiposContas
    <3>3. TiposContas'
      BY <2>5, <3>2, FalhaConta DEF Perder, Formas, TiposContas
    <3> QED BY <2>5, <3>0, <3>1, <3>3 DEF Perder, TiposBusca, Formas
  <2> QED BY <1>1, <2>3, <2>4, <2>5
<1>2. CASE Reindexar \/ ReindexarSemConta
  <2>0. PICK total \in Nat, n \in 0 .. 1 :
           Contadas(total, n) /\ (n = 1 => contagem.falhas < MaxFalhas)
    <3>1. CASE Reindexar
      BY <3>1, VivasFinitas DEF Reindexar
    <3>2. CASE ReindexarSemConta
      BY <3>2 DEF ReindexarSemConta
    <3> QED BY <1>2, <3>1, <3>2
  <2>1. reindexacao' \in Reindexacao
    <3>1. \A b \in BOOLEAN :
             [ fase |-> "lote", lote |-> 0, total |-> total, pasta |-> Ausente,
               doc |-> Ausente, so |-> TRUE, faltam |-> Vivas, limpa |-> b ] \in Reindexacao
      BY VivasFinitas DEF Reindexacao
    <3>2. (n = 0) \in BOOLEAN
      OBVIOUS
    <3> QED BY <2>0, <3>1, <3>2 DEF Contadas
  <2>2. contagem' \in [ pedidos: 0 .. MaxPedidos, falhas: 0 .. MaxFalhas,
                        reinicios: 0 .. MaxReinicios, reindexacoes: 0 .. MaxReindexacoes ]
    <3>1. contagem \in [ pedidos: 0 .. MaxPedidos, falhas: 0 .. MaxFalhas,
                         reinicios: 0 .. MaxReinicios, reindexacoes: 0 .. MaxReindexacoes ]
      BY DEF Formas, TiposContas
    <3>2. contagem.falhas + n \in 0 .. MaxFalhas
      BY <2>0, <3>1, LimitesAssumption
    <3>3. contagem.reindexacoes + 1 \in 0 .. MaxReindexacoes
      BY <2>0, <3>1, LimitesAssumption DEF Contadas
    <3>4. contagem' = [contagem EXCEPT !.reindexacoes = @ + 1, !.falhas = @ + n]
      BY <2>0 DEF Contadas
    <3> QED BY <3>1, <3>2, <3>3, <3>4
  <2>3. UNCHANGED << tarefas, indice, historia >>
    BY <2>0 DEF Contadas
  <2> QED BY <2>1, <2>2, <2>3, BuscaSegue DEF Formas, TiposContas
<1>3. CASE Lote
  <2>1. reindexacao \in Reindexacao
    BY <1>3 DEF Lote, Formas, TiposBusca
  <2>2. reindexacao.lote \in Nat
    BY <2>1 DEF Reindexacao
  <2>3. ASSUME reindexacao.lote < Cardinality(Vivas)
        PROVE  (CHOOSE p \in Vivas : Cardinality({ q \in Vivas : q < p }) = reindexacao.lote)
                  \in Vivas
    <3>1. \E p \in Vivas : Cardinality({ q \in Vivas : q < p }) = reindexacao.lote
      BY <2>2, <2>3, LugarOcupado DEF Lugar, Antes
    <3> QED BY <3>1
  <2>4. ASSUME NEW p \in Vivas
        PROVE  [reindexacao EXCEPT !.fase = "montar", !.pasta = p] \in Reindexacao
    BY <2>1, VivasFinitas DEF Reindexacao
  <2>7. UNCHANGED << tarefas, indice, contagem, historia >>
    BY <1>3 DEF Lote
  <2>5. reindexacao.lote >= Cardinality(Vivas) \/ reindexacao.lote < Cardinality(Vivas)
    BY <2>2, VivasFinitas
  <2>6. reindexacao' \in Reindexacao \cup {Livre}
    BY <1>3, <2>3, <2>4, <2>5 DEF Lote
  <2> QED BY <2>6, <2>7, BuscaSegue, ContasSeguem
<1>4. CASE MontarLote
  <2>1. reindexacao \in Reindexacao
    BY <1>4 DEF MontarLote, Formas, TiposBusca
  <2>2. reindexacao.pasta \in Vivas =>
           /\ Documento(reindexacao.pasta) \in Edicoes \cup {Ausente}
           /\ [reindexacao EXCEPT !.fase = "enviar", !.doc = Documento(reindexacao.pasta),
                                  !.so = TRUE] \in Reindexacao
    BY <2>1, DocumentoTipo, VivasFinitas DEF Reindexacao, Formas
  <2>3. reindexacao' \in Reindexacao
    BY <1>4, <2>1, <2>2, SeguinteTipo DEF MontarLote
  <2>4. UNCHANGED << tarefas, indice, contagem, historia >>
    BY <1>4 DEF MontarLote
  <2> QED BY <2>3, <2>4, BuscaSegue, ContasSeguem
<1>5. CASE EnviarLote
  <2>1. reindexacao \in Reindexacao
    BY <1>5 DEF EnviarLote, Formas, TiposBusca
  <2>2. Seguinte(reindexacao) \in Reindexacao
    BY <2>1, SeguinteTipo
  <2>3. [Seguinte(reindexacao) EXCEPT !.faltam = @ \ {reindexacao.pasta}] \in Reindexacao
    BY <2>2 DEF Reindexacao
  <2>4. reindexacao.doc \in Edicoes \cup {Ausente} /\ reindexacao.pasta \in Ids \cup {Ausente}
    BY <2>1 DEF Reindexacao
  <2>5. tarefas' \in [1 .. MaxPedidos -> Tarefa \cup {Livre}]
    BY <1>5, AtrasoTipo DEF EnviarLote, Formas, TiposBusca
  <2>6. indice' \in [Ids -> Edicoes \cup {Ausente}]
    BY <1>5, <2>4 DEF EnviarLote, Formas, TiposBusca
  <2>7. reindexacao.pasta \in Ids
    BY <1>5, <2>1 DEF LotePorVir, EnviarLote
  <2>8. contagem' = contagem /\ Desviar(reindexacao.pasta, ~reindexacao.so)
        /\ reindexacao' = [Seguinte(reindexacao) EXCEPT !.faltam = @ \ {reindexacao.pasta}]
    BY <1>5 DEF EnviarLote
  <2>9. TiposContas'
    BY <2>7, <2>8 DEF Desviar, Formas, TiposContas
  <2>10. reindexacao' \in Reindexacao
    BY <2>3, <2>8
  <2> QED BY <2>5, <2>6, <2>9, <2>10 DEF TiposBusca
<1>6. CASE PerderLote
  <2>1. reindexacao \in Reindexacao
    BY <1>6 DEF PerderLote, Formas, TiposBusca
  <2>2. Seguinte(reindexacao) \in Reindexacao
    BY <2>1, SeguinteTipo
  <2>3. [Seguinte(reindexacao) EXCEPT !.limpa = FALSE] \in Reindexacao
    BY <2>2 DEF Reindexacao
  <2>4. TiposContas'
    BY <1>6, FalhaConta DEF PerderLote, Formas, TiposContas
  <2>5. UNCHANGED << tarefas, indice >>
    BY <1>6 DEF PerderLote
  <2>6. reindexacao' \in Reindexacao
    BY <1>6, <2>3 DEF PerderLote
  <2> QED BY <2>4, <2>5, <2>6, BuscaSegue
<1> QED BY <1>1, <1>2, <1>3, <1>4, <1>5, <1>6 DEF PassoDaBusca

LEMMA FormasDeReiniciar ==
  ASSUME Formas, FasesCertas, Reiniciar
  PROVE  Formas'
<1> DEFINE I == { pedidos[r] : r \in { q \in Reqs : pedidos[q] # Livre } }
           J == { p \in I : p.fase \in {"reler", "publicar"} }
           D == { t \in DOMAIN tarefas : tarefas[t] # Livre }
<1>1. \A p \in I : p \in Pedido
  BY EmCurso DEF Ativo
<1>2. \A p \in I : p.pasta \in Ids /\ Partem(p) \subseteq Arquivos
  BY <1>1 DEF Pedido, Partem
<1>0. \A p \in I : PodemSobrar(p) \subseteq Arquivos
  <2>1. \A p \in I : FaseCerta(p)
    BY DEF FasesCertas, Ativo
  <2> QED BY <1>1, <2>1, SobraTipo
<1>3. \A t \in D : tarefas[t].pasta \in Ids
  BY DEF Formas, TiposBusca, Tarefa
<1> HIDE DEF I
<1>4. UNION { Partem(p) : p \in I } \subseteq Arquivos
  BY <1>2
<1>5. { p.pasta : p \in J } \subseteq Ids /\ { tarefas[t].pasta : t \in D } \subseteq Ids
  BY <1>2, <1>3
<1>6. /\ historia' = [historia EXCEPT
              !.desviadas = @ \cup { p.pasta : p \in J }
                              \cup { tarefas[t].pasta : t \in D },
              !.partidos = @ \cup UNION { Partem(p) : p \in I }]
      /\ contagem.reinicios < MaxReinicios
      /\ contagem' = [contagem EXCEPT !.reinicios = @ + 1]
  BY DEF Reiniciar, I
<1> HIDE DEF J, D
<1>7. historia' \in [ desviadas: SUBSET Ids, partidos: SUBSET Arquivos, largados: SUBSET Arquivos ]
  BY <1>4, <1>5, <1>6 DEF Formas, TiposContas
<1>8. contagem' \in [ pedidos: 0 .. MaxPedidos, falhas: 0 .. MaxFalhas,
                      reinicios: 0 .. MaxReinicios, reindexacoes: 0 .. MaxReindexacoes ]
  BY <1>6, LimitesAssumption DEF Formas, TiposContas
<1>9. TiposPedidos' /\ TiposBusca'
  BY DEF Reiniciar, Formas, TiposPedidos, TiposBusca
<1>10. TiposLinhas'
  <2>1. \E foram, sobram \in SUBSET Arquivos : objetos' = (objetos \ foram) \cup sobram
    <3>1. PICK foram \in SUBSET UNION { PodemFaltar(p) : p \in I },
               sobram \in SUBSET UNION { PodemSobrar(p) : p \in I } :
             objetos' = (objetos \ foram) \cup sobram
      BY DEF Reiniciar, I
    <3>2. sobram \subseteq Arquivos
      BY <1>0
    <3>3. objetos' = (objetos \ (foram \cap Arquivos)) \cup sobram
      BY <3>1 DEF Formas, TiposLinhas
    <3> QED BY <3>2, <3>3
  <2>2. objetos' \subseteq Arquivos
    BY <2>1 DEF Formas, TiposLinhas
  <2> QED BY <2>2 DEF Reiniciar, Formas, TiposLinhas, Vivas
<1> QED BY <1>7, <1>8, <1>9, <1>10 DEF Formas, TiposContas

-----------------------------------------------------------------------------
(* Shelves: the places for the updates, and the count of editions. *)

\* Requests and updates that end leave the others their places.
LEMMA CabeMenos ==
  ASSUME Cabem, contagem'.pedidos = contagem.pedidos, contagem.pedidos \in Nat,
         \A r \in Reqs : Ativo(r)' => Ativo(r),
         \A t \in 1 .. MaxPedidos : tarefas'[t] # Livre => tarefas[t] # Livre,
         \A p \in Vivas' : /\ p \in Vivas /\ pastas'[p] = pastas[p] /\ pastas[p] \in Nat
                           /\ \A r \in Reqs : r \in Editando(p)' => r \in Editando(p)
  PROVE  Cabem'
<1>1. Ativos' \in SUBSET Ativos /\ Ocupadas' \in SUBSET Ocupadas
  BY DEF Ativos, Ocupadas
<1>2. IsFiniteSet(1 .. MaxPedidos) /\ Ocupadas \in SUBSET (1 .. MaxPedidos)
  BY FS_Interval, LimitesAssumption DEF Ocupadas
<1>3. IsFiniteSet(Ocupadas)
  BY <1>2, FS_Subset
<1>4. /\ IsFiniteSet(Ativos') /\ Cardinality(Ativos') <= Cardinality(Ativos)
      /\ Cardinality(Ativos') \in Nat /\ Cardinality(Ativos) \in Nat
  BY <1>1, FS_Subset, FS_CardinalityType DEF Cabem
<1>5. /\ Cardinality(Ocupadas') <= Cardinality(Ocupadas)
      /\ Cardinality(Ocupadas') \in Nat /\ Cardinality(Ocupadas) \in Nat
  BY <1>1, <1>3, FS_Subset, FS_CardinalityType
<1>6. Cardinality(Ativos') + Cardinality(Ocupadas') <= contagem'.pedidos
  <2>1. Cardinality(Ativos) + Cardinality(Ocupadas) <= contagem.pedidos
    BY DEF Cabem
  <2> QED BY <1>4, <1>5, <2>1
<1>7. ASSUME NEW p \in Vivas'
      PROVE  pastas'[p] + Cardinality(Editando(p)') <= contagem'.pedidos
  <2>1. Editando(p) \in SUBSET Ativos /\ Editando(p)' \in SUBSET Editando(p)
    BY <1>7 DEF Editando, Ativos
  <2>2. /\ Cardinality(Editando(p)') <= Cardinality(Editando(p))
        /\ Cardinality(Editando(p)') \in Nat /\ Cardinality(Editando(p)) \in Nat
    BY <2>1, FS_Subset, FS_CardinalityType DEF Cabem
  <2>3. pastas[p] + Cardinality(Editando(p)) <= contagem.pedidos
        /\ pastas'[p] = pastas[p] /\ pastas[p] \in Nat
    BY <1>7 DEF Cabem
  <2> HIDE DEF Editando
  <2> QED BY <2>2, <2>3
<1> QED BY <1>4, <1>6, <1>7 DEF Cabem

LEMMA InitCabem == InitPastas => Cabem
<1> SUFFICES ASSUME InitPastas PROVE Cabem
  OBVIOUS
<1>1. Ativos = {} /\ Ocupadas = {} /\ \A p \in Vivas : Editando(p) = {}
  BY DEF InitPastas, Ativos, Ativo, Ocupadas, Editando
<1>2. \A p \in Vivas : pastas[p] = 0
  BY DEF InitPastas, Vivas
<1>3. IsFiniteSet({}) /\ Cardinality({}) = 0
  BY FS_EmptySet
<1>4. contagem.pedidos = 0
  BY DEF InitPastas
<1>5. \A p \in Vivas : pastas[p] + Cardinality(Editando(p)) <= contagem.pedidos
  BY <1>1, <1>2, <1>3, <1>4
<1>6. Cardinality(Ativos) + Cardinality(Ocupadas) <= contagem.pedidos
  BY <1>1, <1>3, <1>4
<1> QED BY <1>1, <1>3, <1>5, <1>6 DEF Cabem

LEMMA NumerosDosTipos ==
  ASSUME Formas
  PROVE  /\ contagem.pedidos \in Nat /\ \A p \in Vivas : pastas[p] \in Nat
         /\ IsFiniteSet(Ocupadas) /\ Cardinality(Ocupadas) \in Nat
<1>1. contagem.pedidos \in Nat
  BY LimitesAssumption DEF Formas, TiposContas
<1>2. \A p \in Vivas : pastas[p] \in Nat
  BY DocumentoTipo, Sentinelas DEF Formas
<1>3. IsFiniteSet(1 .. MaxPedidos) /\ Ocupadas \in SUBSET (1 .. MaxPedidos)
  BY FS_Interval, LimitesAssumption DEF Ocupadas
<1> QED BY <1>1, <1>2, <1>3, FS_Subset, FS_CardinalityType

\* What a request that arrives is, for any kind.
LEMMA Chegada ==
  ASSUME Formas, NEW r \in Reqs, Chegar(r)
  PROVE  /\ SoMuda(r) /\ Ativo(r)' /\ ~Ativo(r)
         /\ contagem.pedidos < MaxPedidos
         /\ contagem' = [contagem EXCEPT !.pedidos = @ + 1]
         /\ UNCHANGED << linhas, busca, historia >>
         /\ pedidos'[r] \in Pedido /\ pedidos'[r].lidos = {}
         /\ \/ /\ pedidos'[r].tipo = "criar" /\ pedidos'[r].fase \in {"guardar", "gravar"}
               /\ pastas[pedidos'[r].pasta] = Ausente
               /\ \A q \in Reqs : Ativo(q) => pedidos[q].pasta # pedidos'[r].pasta
               /\ pedidos'[r].arquivo # Ausente => Novo(pedidos'[r].arquivo)
               /\ pedidos'[r].fase = "gravar" <=> pedidos'[r].arquivo = Ausente
            \/ /\ pedidos'[r].tipo = "editar" /\ pedidos'[r].fase = "gravar"
               /\ pedidos'[r].pasta \in Vivas /\ pedidos'[r].arquivo = Ausente
            \/ /\ pedidos'[r].tipo = "incluir" /\ pedidos'[r].fase = "guardar"
               /\ pedidos'[r].pasta \in Vivas /\ pedidos'[r].arquivo \in Arquivos
               /\ Novo(pedidos'[r].arquivo)
            \/ /\ pedidos'[r].tipo = "excluir" /\ pedidos'[r].fase = "apagarObjetos"
               /\ pedidos'[r].pasta \in Vivas /\ pedidos'[r].arquivo \in Arquivos
               /\ arquivos[pedidos'[r].arquivo] = pedidos'[r].pasta
            \/ /\ pedidos'[r].tipo = "remover" /\ pedidos'[r].fase = "ler"
               /\ pedidos'[r].pasta \in Vivas /\ pedidos'[r].arquivo = Ausente
<1> USE Sentinelas
<1> PICK p \in Ids : \/ \E a \in Arquivos \cup {Ausente} : PedirCriacao(r, p, a)
                     \/ PedirEdicao(r, p)
                     \/ \E a \in Arquivos : PedirInclusao(r, p, a) \/ PedirExclusao(r, p, a)
                     \/ PedirRemocao(r, p)
  BY DEF Chegar
<1>1. CASE \E a \in Arquivos \cup {Ausente} : PedirCriacao(r, p, a)
  <2> PICK a \in Arquivos \cup {Ausente} : PedirCriacao(r, p, a)
    BY <1>1
  <2> DEFINE f == IF a = Ausente THEN "gravar" ELSE "guardar"
  <2>1. Iniciar(r, "criar", f, p, a) /\ f \in Fases
    BY DEF PedirCriacao, Fases
  <2>2. f = "gravar" <=> a = Ausente
    OBVIOUS
  <2>3. f \in {"guardar", "gravar"}
    OBVIOUS
  <2> HIDE DEF f
  <2>4. /\ SoMuda(r) /\ Ativo(r)' /\ ~Ativo(r)
        /\ contagem.pedidos < MaxPedidos
        /\ contagem' = [contagem EXCEPT !.pedidos = @ + 1]
        /\ UNCHANGED << linhas, busca, historia >>
        /\ pedidos'[r] \in Pedido /\ pedidos'[r].lidos = {}
        /\ pedidos'[r].tipo = "criar" /\ pedidos'[r].fase = f /\ pedidos'[r].pasta = p
        /\ pedidos'[r].arquivo = a
    BY <2>1, Inicia
  <2>5. /\ pastas[p] = Ausente /\ (a # Ausente => Novo(a))
        /\ \A q \in Reqs : Ativo(q) => pedidos[q].pasta # p
    BY DEF PedirCriacao, Ativo
  <2>6. /\ pedidos'[r].tipo = "criar" /\ pedidos'[r].fase \in {"guardar", "gravar"}
        /\ pastas[pedidos'[r].pasta] = Ausente
        /\ \A q \in Reqs : Ativo(q) => pedidos[q].pasta # pedidos'[r].pasta
        /\ pedidos'[r].arquivo # Ausente => Novo(pedidos'[r].arquivo)
        /\ pedidos'[r].fase = "gravar" <=> pedidos'[r].arquivo = Ausente
    BY <2>2, <2>3, <2>4, <2>5
  <2> QED BY <2>4, <2>6
<1>2. CASE PedirEdicao(r, p)
  BY <1>2, Inicia DEF PedirEdicao, Fases
<1>3. CASE \E a \in Arquivos : PedirInclusao(r, p, a)
  BY <1>3, Inicia DEF PedirInclusao, Fases
<1>4. CASE \E a \in Arquivos : PedirExclusao(r, p, a)
  BY <1>4, Inicia DEF PedirExclusao, Fases
<1>5. CASE PedirRemocao(r, p)
  BY <1>5, Inicia DEF PedirRemocao, Fases
<1> QED BY <1>1, <1>2, <1>3, <1>4, <1>5

LEMMA CabeMaisUm ==
  ASSUME Formas, Cabem, NEW r \in Reqs, Chegar(r)
  PROVE  Cabem'
<1>1. Ativos' = Ativos \cup {r} /\ r \notin Ativos
  BY Chegada DEF SoMuda, Ativos, Ativo
<1>2. Ocupadas' = Ocupadas /\ Vivas' = Vivas /\ pastas' = pastas
  BY Chegada DEF Ocupadas, Vivas, linhas, busca
<1>3. IsFiniteSet(Ativos') /\ Cardinality(Ativos') = Cardinality(Ativos) + 1
  BY <1>1, FS_AddElement DEF Cabem
<1>4. contagem'.pedidos = contagem.pedidos + 1
  BY Chegada DEF Formas, TiposContas
<1>5. Cardinality(Ativos) \in Nat
  BY FS_CardinalityType DEF Cabem
<1>6. Cardinality(Ativos') + Cardinality(Ocupadas') <= contagem'.pedidos
  <2>1. Cardinality(Ativos) + Cardinality(Ocupadas) <= contagem.pedidos
    BY DEF Cabem
  <2> QED BY <1>2, <1>3, <1>4, <1>5, <2>1, NumerosDosTipos
<1>7. ASSUME NEW p \in Vivas'
      PROVE  pastas'[p] + Cardinality(Editando(p)') <= contagem'.pedidos
  <2>1. Editando(p) \in SUBSET Ativos /\ Editando(p)' \in SUBSET (Editando(p) \cup {r})
    BY Chegada DEF SoMuda, Ativos, Ativo, Editando
  <2>2. IsFiniteSet(Editando(p)) /\ Cardinality(Editando(p)) \in Nat
    BY <2>1, FS_Subset, FS_CardinalityType DEF Cabem
  <2>3. /\ IsFiniteSet(Editando(p) \cup {r})
        /\ Cardinality(Editando(p) \cup {r}) \in Nat
        /\ Cardinality(Editando(p) \cup {r}) <= Cardinality(Editando(p)) + 1
    <3>1. Cardinality(Editando(p) \cup {r}) = Cardinality(Editando(p))
          \/ Cardinality(Editando(p) \cup {r}) = Cardinality(Editando(p)) + 1
      BY <2>2, FS_AddElement
    <3> QED BY <2>2, <3>1, FS_AddElement
  <2>4. /\ Cardinality(Editando(p)') \in Nat
        /\ Cardinality(Editando(p)') <= Cardinality(Editando(p)) + 1
    BY <2>1, <2>2, <2>3, FS_Subset, FS_CardinalityType
  <2>5. pastas[p] + Cardinality(Editando(p)) <= contagem.pedidos
        /\ pastas'[p] = pastas[p] /\ pastas[p] \in Nat
    BY <1>2, <1>7, NumerosDosTipos DEF Cabem
  <2> QED BY <1>4, <2>2, <2>4, <2>5, NumerosDosTipos
<1> QED BY <1>3, <1>6, <1>7 DEF Cabem

\* A step of one request that edits nothing, and creates nothing.
LEMMA CabeIgual ==
  ASSUME Formas, Cabem, NEW r \in Reqs, SoMuda(r), Ativo(r),
         pedidos'[r] = Livre \/ pedidos'[r].tipo # "editar" \/ pedidos'[r].fase # "gravar",
         contagem'.pedidos = contagem.pedidos,
         \A t \in 1 .. MaxPedidos : tarefas'[t] # Livre => tarefas[t] # Livre,
         \A p \in Vivas' : p \in Vivas /\ pastas'[p] = pastas[p]
  PROVE  Cabem'
<1>1. \A q \in Reqs : Ativo(q)' => Ativo(q)
  BY DEF SoMuda, Ativo
<1>2. \A p \in Vivas' : \A q \in Reqs : q \in Editando(p)' => q \in Editando(p)
  BY DEF SoMuda, Ativo, Editando
<1> QED BY <1>1, <1>2, CabeMenos, NumerosDosTipos

LEMMA CabemDeGravar ==
  ASSUME Formas, Cabem, FasesCertas, CriacaoASos, NEW r \in Reqs, Gravar(r)
  PROVE  Cabem'
<1>1. Ativo(r) /\ pedidos[r] \in Pedido /\ pedidos[r].fase = "gravar"
      /\ contagem' = contagem /\ tarefas' = tarefas
  BY EmCurso DEF Gravar, Fases
<1>2. pedidos[r].pasta \in Ids
  BY <1>1 DEF Pedido
<1>3. SoMuda(r) /\ (pedidos'[r] = Livre \/ pedidos'[r].fase \in {"reler", "publicar"})
  BY <1>1, Avanca, Encerra DEF Gravar, Fases
<1>4. CASE pastas' = pastas
  BY <1>1, <1>3, <1>4, CabeIgual DEF Vivas
<1> PICK p \in Ids : p = pedidos[r].pasta
  BY <1>2
<1>5. /\ Ativos' \in SUBSET Ativos /\ IsFiniteSet(Ativos)
      /\ Cardinality(Ativos) + Cardinality(Ocupadas) <= contagem.pedidos
      /\ Ocupadas' = Ocupadas
  BY <1>1, <1>3 DEF Ativos, Ativo, SoMuda, Ocupadas, Cabem
<1>6. /\ IsFiniteSet(Ativos') /\ Cardinality(Ativos') <= Cardinality(Ativos)
      /\ Cardinality(Ativos') \in Nat /\ Cardinality(Ativos) \in Nat
  BY <1>5, FS_Subset, FS_CardinalityType
<1>7. Cardinality(Ativos') + Cardinality(Ocupadas') <= contagem'.pedidos
  BY <1>1, <1>5, <1>6, NumerosDosTipos
<1>8. \A s \in Ids : \A q \in Reqs : q \in Editando(s)' => q \in Editando(s) /\ q # r
  BY <1>3 DEF Editando, Ativo, SoMuda
<1>9. \A s \in Ids : Editando(s) \in SUBSET Ativos
  BY DEF Editando, Ativos
<1>10. \A s \in Ids : Editando(s)' \in SUBSET Editando(s)
  BY <1>8 DEF Editando
<1>11. \A s \in Ids : /\ IsFiniteSet(Editando(s)) /\ IsFiniteSet(Editando(s)')
                      /\ Cardinality(Editando(s)') \in Nat
                      /\ Cardinality(Editando(s)) \in Nat
                      /\ Cardinality(Editando(s)') <= Cardinality(Editando(s))
                      /\ Cardinality(Editando(s)) <= Cardinality(Ativos)
  BY <1>5, <1>9, <1>10, FS_Subset, FS_CardinalityType
<1>12. ASSUME pastas' # pastas, NEW s \in Vivas', s # p
       PROVE  pastas'[s] + Cardinality(Editando(s)') <= contagem'.pedidos
  <2>1. s \in Ids /\ s \in Vivas /\ pastas'[s] = pastas[s]
    BY <1>12 DEF Gravar, Vivas, Formas, TiposLinhas
  <2>2. pastas[s] + Cardinality(Editando(s)) <= contagem.pedidos /\ pastas[s] \in Nat
    BY <2>1, NumerosDosTipos DEF Cabem
  <2> QED BY <1>1, <1>11, <2>1, <2>2, NumerosDosTipos
<1>13. ASSUME pastas' # pastas, p \in Vivas'
       PROVE  pastas'[p] + Cardinality(Editando(p)') <= contagem'.pedidos
  <2>1. CASE pastas' = [pastas EXCEPT ![p] = 0]
    <3>1. pastas'[p] = 0
      BY <1>2, <2>1 DEF Formas, TiposLinhas
    <3>2. Cardinality(Editando(p)') <= Cardinality(Ativos) /\ Cardinality(Editando(p)') \in Nat
      BY <1>2, <1>6, <1>11
    <3> QED BY <1>1, <1>5, <1>6, <3>1, <3>2, NumerosDosTipos
  <2>2. CASE /\ pedidos[r].tipo = "editar" /\ p \in Vivas
             /\ pastas' = [pastas EXCEPT ![p] = @ + 1]
    <3>1. r \in Editando(p) /\ pastas[p] + Cardinality(Editando(p)) <= contagem.pedidos
          /\ pastas[p] \in Nat
      BY <1>1, <1>2, <2>2, NumerosDosTipos DEF Editando, Cabem
    <3>2. pastas'[p] = pastas[p] + 1
      BY <1>2, <2>2 DEF Formas, TiposLinhas
    <3>3. Editando(p)' \in SUBSET (Editando(p) \ {r})
      BY <1>2, <1>8 DEF Editando
    <3>4. IsFiniteSet(Editando(p) \ {r})
          /\ Cardinality(Editando(p) \ {r}) = Cardinality(Editando(p)) - 1
      BY <1>2, <1>11, <3>1, FS_RemoveElement
    <3>5. Cardinality(Editando(p)') <= Cardinality(Editando(p)) - 1
      BY <3>3, <3>4, FS_Subset
    <3>6. Cardinality(Editando(p)') \in Nat /\ Cardinality(Editando(p)) \in Nat
      BY <1>2, <1>11
    <3> QED BY <1>1, <3>1, <3>2, <3>5, <3>6, NumerosDosTipos
  <2> QED BY <1>13, <2>1, <2>2 DEF Gravar
<1> QED BY <1>4, <1>6, <1>7, <1>12, <1>13 DEF Cabem

\* The first free place, and the update in it.
LEMMA Publicada ==
  ASSUME Formas, Cabem, NEW r \in Reqs, Publicar(r)
  PROVE  /\ Ativo(r) /\ pedidos[r] \in Pedido /\ pedidos[r].fase = "publicar"
         /\ SoMuda(r) /\ pedidos'[r] = Livre
         /\ UNCHANGED << linhas, indice, reindexacao, contagem, historia >>
         /\ \E t \in 1 .. MaxPedidos :
               /\ tarefas[t] = Livre /\ tarefas'[t] \in Tarefa
               /\ tarefas'[t].pasta = pedidos[r].pasta /\ tarefas'[t].doc = Ausente
               /\ IF pedidos[r].tipo = "remover"
                  THEN tarefas'[t].fase = "enviar" /\ tarefas'[t].tipo = "remocao"
                  ELSE tarefas'[t].fase = "montar" /\ tarefas'[t].tipo = "upsert"
               /\ \A u \in 1 .. MaxPedidos \ {t} : tarefas'[u] = tarefas[u]
<1>1. Ativo(r) /\ pedidos[r] \in Pedido /\ pedidos[r].fase = "publicar"
      /\ UNCHANGED << linhas, indice, reindexacao, contagem, historia >>
  BY EmCurso DEF Publicar, Pedida, Fases
<1>2. SoMuda(r) /\ pedidos'[r] = Livre
  BY Encerra DEF Publicar, Pedida
<1> DEFINE L == { i \in DOMAIN tarefas : tarefas[i] = Livre }
           t == Min(L)
           tipo == IF pedidos[r].tipo = "remover" THEN "remocao" ELSE "upsert"
           k == [ fase |-> IF tipo = "upsert" THEN "montar" ELSE "enviar", tipo |-> tipo,
                  pasta |-> pedidos[r].pasta, doc |-> Ausente, so |-> TRUE ]
<1>3. DOMAIN tarefas = 1 .. MaxPedidos
  BY DEF Formas, TiposBusca
<1>4. L # {}
  <2> SUFFICES ASSUME L = {} PROVE FALSE
    OBVIOUS
  <2>1. Ocupadas = 1 .. MaxPedidos
    BY <1>3 DEF Ocupadas
  <2>2. Cardinality(Ocupadas) = MaxPedidos
    BY <2>1, FS_Interval, LimitesAssumption
  <2>3. Ativos # {} /\ IsFiniteSet(Ativos)
    BY <1>1 DEF Ativos, Cabem
  <2>4. Cardinality(Ativos) \in Nat /\ Cardinality(Ativos) # 0
    BY <2>3, FS_EmptySet, FS_CardinalityType
  <2>5. Cardinality(Ativos) + Cardinality(Ocupadas) <= contagem.pedidos
        /\ contagem.pedidos \in 0 .. MaxPedidos
    BY DEF Cabem, Formas, TiposContas
  <2> QED BY <2>2, <2>4, <2>5, LimitesAssumption
<1>5. L \in SUBSET Nat
  BY <1>3, LimitesAssumption
<1>6. t \in 1 .. MaxPedidos /\ tarefas[t] = Livre
  <2> HIDE DEF L
  <2>1. t \in L
    BY <1>4, <1>5, MinExiste
  <2> QED BY <1>3, <2>1 DEF L
<1>7. k \in Tarefa /\ k.pasta = pedidos[r].pasta /\ k.doc = Ausente
      /\ IF pedidos[r].tipo = "remover"
         THEN k.fase = "enviar" /\ k.tipo = "remocao"
         ELSE k.fase = "montar" /\ k.tipo = "upsert"
  BY <1>1 DEF Tarefa, Pedido
<1>8. tarefas' = [tarefas EXCEPT ![t] = k]
  BY DEF Publicar, Pedida
<1> HIDE DEF t, k
<1>9. tarefas'[t] = k /\ \A u \in 1 .. MaxPedidos \ {t} : tarefas'[u] = tarefas[u]
  BY <1>6, <1>8 DEF Formas, TiposBusca
<1> QED BY <1>1, <1>2, <1>6, <1>7, <1>9

LEMMA CabemDePublicar ==
  ASSUME Formas, Cabem, NEW r \in Reqs, Publicar(r)
  PROVE  Cabem'
<1>1. PICK t \in 1 .. MaxPedidos :
         /\ tarefas[t] = Livre /\ tarefas'[t] \in Tarefa
         /\ \A u \in 1 .. MaxPedidos \ {t} : tarefas'[u] = tarefas[u]
  BY Publicada
<1>2. Ativos' = Ativos \ {r} /\ r \in Ativos
  BY Publicada DEF SoMuda, Ativos, Ativo
<1>3. Ocupadas' = Ocupadas \cup {t} /\ t \notin Ocupadas
  BY <1>1, NaoSaoLivres DEF Ocupadas
<1>4. IsFiniteSet(Ativos') /\ Cardinality(Ativos') = Cardinality(Ativos) - 1
  BY <1>2, FS_RemoveElement DEF Cabem
<1>5. Cardinality(Ocupadas') = Cardinality(Ocupadas) + 1
  BY <1>3, NumerosDosTipos, FS_AddElement
<1>6. Cardinality(Ativos) \in Nat
  BY FS_CardinalityType DEF Cabem
<1>7. contagem' = contagem /\ pastas' = pastas /\ Vivas' = Vivas
  BY Publicada DEF linhas, Vivas
<1>8. Cardinality(Ativos') + Cardinality(Ocupadas') <= contagem'.pedidos
  <2>1. Cardinality(Ativos) + Cardinality(Ocupadas) <= contagem.pedidos
    BY DEF Cabem
  <2> QED BY <1>4, <1>5, <1>6, <1>7, <2>1, NumerosDosTipos
<1>9. \A p \in Vivas' : Editando(p)' = Editando(p)
  BY Publicada DEF SoMuda, Ativo, Editando
<1> QED BY <1>4, <1>7, <1>8, <1>9 DEF Cabem

\* What the steps of the index leave of the requests and of the rows, and take of the
\* updates.
LEMMA EfeitoDaBusca ==
  ASSUME Formas, PassoDaBusca
  PROVE  /\ UNCHANGED << linhas, pedidos >> /\ historia'.partidos = historia.partidos
         /\ historia'.largados = historia.largados /\ contagem'.pedidos = contagem.pedidos
         /\ \A t \in 1 .. MaxPedidos : tarefas'[t] # Livre => tarefas[t] # Livre
<1>1. ASSUME NEW t \in DOMAIN tarefas, Montar(t)
      PROVE  /\ UNCHANGED << linhas, pedidos, historia, contagem >>
             /\ \A u \in 1 .. MaxPedidos : tarefas'[u] # Livre => tarefas[u] # Livre
  BY <1>1 DEF Montar, Formas, TiposBusca
<1>2. ASSUME NEW t \in DOMAIN tarefas, Enviar(t) \/ Perder(t)
      PROVE  /\ UNCHANGED << linhas, pedidos >> /\ historia'.partidos = historia.partidos
             /\ historia'.largados = historia.largados
             /\ contagem'.pedidos = contagem.pedidos
             /\ \A u \in 1 .. MaxPedidos : tarefas'[u] # Livre => tarefas[u] # Livre
  <2>1. t \in 1 .. MaxPedidos
    BY DEF Formas, TiposBusca
  <2>2. Sai(t, tarefas[t].pasta)
    BY <1>2 DEF Enviar, Perder, Sai
  <2>3. \A u \in 1 .. MaxPedidos : tarefas'[u] # Livre => tarefas[u] # Livre
    BY <2>1, <2>2, SemTarefa DEF SoAtrasa
  <2>4. /\ UNCHANGED << linhas, pedidos >> /\ historia'.partidos = historia.partidos
        /\ historia'.largados = historia.largados
    BY <1>2 DEF Enviar, Perder, Desviar, Formas, TiposContas
  <2>5. contagem'.pedidos = contagem.pedidos
    BY <1>2, FalhaConta DEF Enviar, Perder, Formas
  <2> QED BY <2>3, <2>4, <2>5
<1>3. CASE Reindexar \/ ReindexarSemConta \/ Lote \/ MontarLote \/ PerderLote
  <2>1. UNCHANGED << linhas, pedidos, tarefas, historia >>
    BY <1>3 DEF Reindexar, ReindexarSemConta, Contadas, Lote, MontarLote, PerderLote
  <2>2. contagem'.pedidos = contagem.pedidos
    BY <1>3, FalhaConta DEF Reindexar, ReindexarSemConta, Contadas, Lote, MontarLote,
                            PerderLote, Formas, TiposContas
  <2> QED BY <2>1, <2>2
<1>4. CASE EnviarLote
  <2>1. /\ UNCHANGED << linhas, pedidos, contagem >> /\ historia'.partidos = historia.partidos
        /\ historia'.largados = historia.largados
    BY <1>4 DEF EnviarLote, Desviar, Formas, TiposContas
  <2>2. SoAtrasa(reindexacao.pasta, 0)
    BY <1>4, TodasAtrasam DEF EnviarLote
  <2>3. \A u \in 1 .. MaxPedidos : tarefas'[u] # Livre => tarefas[u] # Livre
    BY <2>2 DEF SoAtrasa
  <2> QED BY <2>1, <2>3
<1> QED BY <1>1, <1>2, <1>3, <1>4 DEF PassoDaBusca

LEMMA EfeitoDeFalhar ==
  ASSUME Formas, NEW r \in Reqs, Falhar(r)
  PROVE  /\ Ativo(r) /\ pedidos[r] \in Pedido /\ pedidos[r].fase # "publicar"
         /\ SoMuda(r) /\ pedidos'[r] = Livre
         /\ UNCHANGED << pastas, arquivos, indice >>
         /\ contagem'.pedidos = contagem.pedidos
         /\ objetos \ objetos' \subseteq PodemFaltar(pedidos[r])
         /\ objetos' \ objetos \subseteq PodemSobrar(pedidos[r])
         /\ historia'.partidos = historia.partidos \cup Partem(pedidos[r])
         /\ historia'.largados = historia.largados
         /\ IF pedidos[r].fase = "reler"
            THEN /\ SoAtrasa(pedidos[r].pasta, 0)
                 /\ reindexacao' = ReindexacaoAtrasada(pedidos[r].pasta)
                 /\ historia'.desviadas = historia.desviadas \cup {pedidos[r].pasta}
            ELSE /\ UNCHANGED << tarefas, reindexacao >>
                 /\ historia'.desviadas = historia.desviadas
<1>1. Ativo(r) /\ pedidos[r] \in Pedido /\ pedidos[r].fase # "publicar"
  BY EmCurso DEF Falhar, Ativo
<1>2. SoMuda(r) /\ pedidos'[r] = Livre
  BY Encerra DEF Falhar
<1>3. UNCHANGED << pastas, arquivos, indice >> /\ contagem'.pedidos = contagem.pedidos
  BY FalhaConta DEF Falhar, Formas
<1>4. /\ objetos \ objetos' \subseteq PodemFaltar(pedidos[r])
      /\ objetos' \ objetos \subseteq PodemSobrar(pedidos[r])
  BY DEF Falhar
<1>5. /\ historia'.partidos = historia.partidos \cup Partem(pedidos[r])
      /\ historia'.largados = historia.largados
      /\ historia'.desviadas = IF pedidos[r].fase = "reler"
                               THEN historia.desviadas \cup {pedidos[r].pasta}
                               ELSE historia.desviadas
  BY DEF Falhar, Formas, TiposContas
<1>6. CASE pedidos[r].fase = "reler"
  BY <1>1, <1>2, <1>3, <1>4, <1>5, <1>6, TodasAtrasam DEF Falhar
<1>7. CASE pedidos[r].fase # "reler"
  BY <1>1, <1>2, <1>3, <1>4, <1>5, <1>7 DEF Falhar
<1> QED BY <1>6, <1>7

LEMMA CabemDoPasso ==
  ASSUME Formas, Cabem, FasesCertas, CriacaoASos, NextPastas
  PROVE  Cabem'
<1>1. ASSUME NEW r \in Reqs, Chegar(r) PROVE Cabem'
  BY <1>1, CabeMaisUm
<1>2. ASSUME NEW r \in Reqs, Continuar(r) PROVE Cabem'
  <2>1. CASE Gravar(r)
    BY <2>1, CabemDeGravar
  <2>2. CASE Publicar(r)
    BY <2>2, CabemDePublicar
  <2>3. CASE Guardar(r)
    <3>1. Ativo(r) /\ pedidos[r].tipo # "editar"
      BY <2>3, EmCurso DEF Guardar, Fases, FasesCertas, FaseCerta
    <3>2. SoMuda(r) /\ pedidos'[r].tipo # "editar"
      BY <2>3, <3>1, Avanca DEF Guardar, Fases
    <3> QED BY <2>3, <3>1, <3>2, CabeIgual DEF Guardar, busca, Vivas
  <2>4. CASE Reler(r) \/ LerArquivos(r) \/ ApagarObjetos(r) \/ ApagarLinhas(r)
    <3>1. Ativo(r)
      BY <2>4, EmCurso DEF Reler, LerArquivos, ApagarObjetos, ApagarLinhas, Fases
    <3>2. SoMuda(r) /\ (pedidos'[r] = Livre \/ pedidos'[r].fase # "gravar")
      BY <2>4, <3>1, Avanca, Encerra, Le DEF Reler, ApagarObjetos, ApagarLinhas, Fases
    <3>3. UNCHANGED << pastas, tarefas >> /\ contagem'.pedidos = contagem.pedidos
      <4>1. CASE ApagarObjetos(r)
        BY <4>1, EfeitoDeApagarObjetos DEF busca
      <4>2. CASE Reler(r) \/ LerArquivos(r) \/ ApagarLinhas(r)
        BY <4>2 DEF Reler, LerArquivos, ApagarLinhas, linhas, busca
      <4> QED BY <2>4, <4>1, <4>2
    <3> QED BY <3>1, <3>2, <3>3, CabeIgual DEF Vivas
  <2>5. CASE Apagar(r)
    <3>1. Ativo(r)
      BY <2>5, EmCurso DEF Apagar, Fases
    <3>2. SoMuda(r) /\ pedidos'[r].fase # "gravar"
      BY <2>5, <3>1, Avanca DEF Apagar, Fases
    <3>3. UNCHANGED << tarefas, contagem >>
      BY <2>5 DEF Apagar
    <3>4. \A p \in Vivas' : p \in Vivas /\ pastas'[p] = pastas[p]
      BY <2>5 DEF Apagar, Vivas, Formas, TiposLinhas
    <3> QED BY <3>1, <3>2, <3>3, <3>4, CabeIgual
  <2> QED BY <1>2, <2>1, <2>2, <2>3, <2>4, <2>5 DEF Continuar
<1>3. ASSUME NEW r \in Reqs, Falhar(r) PROVE Cabem'
  <2>1. \A t \in 1 .. MaxPedidos : tarefas'[t] # Livre => tarefas[t] # Livre
    BY <1>3, EfeitoDeFalhar DEF SoAtrasa
  <2> QED BY <1>3, <2>1, EfeitoDeFalhar, CabeIgual DEF Vivas
<1>4. CASE PassoDaBusca
  BY <1>4, EfeitoDaBusca, CabeMenos, NumerosDosTipos DEF linhas, Ativo, Editando, Vivas
<1>5. CASE Reiniciar
  <2>1. /\ pastas' = pastas /\ \A r \in Reqs : ~Ativo(r)'
        /\ \A t \in 1 .. MaxPedidos : tarefas'[t] = Livre
    BY <1>5 DEF Reiniciar, Ativo, Formas, TiposBusca
  <2>2. contagem'.pedidos = contagem.pedidos
    BY <1>5 DEF Reiniciar, Formas, TiposContas
  <2> QED BY <2>1, <2>2, CabeMenos, NumerosDosTipos DEF Vivas, Editando
<1> QED BY <1>1, <1>2, <1>3, <1>4, <1>5 DEF NextPastas, PassoDaBusca

LEMMA FormasDoPasso ==
  ASSUME Formas, Cabem, FasesCertas, LotePorVir, NextPastas
  PROVE  Formas'
BY FormasDeChegar, FormasDeContinuar, FalharTipos, FormasDaBusca, FormasDeReiniciar
   DEF NextPastas, PassoDaBusca

-----------------------------------------------------------------------------
(* Files: a row and its object. *)

LEMMA AlvosTem ==
  ASSUME NEW p, NEW a, a \in Alvos(p)
  PROVE  Tem(p, a)
BY DEF Alvos, Tem

LEMMA ArquivosIguais ==
  ASSUME ArquivosInv, UNCHANGED << linhas, pedidos >>,
         historia'.partidos = historia.partidos, historia'.largados = historia.largados
  PROVE  ArquivosInv'
BY DEF linhas, ArquivosInv, FasesCertas, CriacaoASos, ArquivoASos, AlvosCertos,
       RemocaoLeuTudo, SeparadosSoNoMeio, Ativo

LEMMA InitArquivos == InitPastas => ArquivosInv
<1> SUFFICES ASSUME InitPastas PROVE ArquivosInv
  OBVIOUS
<1>1. \A r \in Reqs : ~Ativo(r)
  BY DEF InitPastas, Ativo
<1>2. \A a \in Arquivos : arquivos[a] # Ausente <=> a \in objetos
  BY DEF InitPastas
<1> QED BY <1>1, <1>2 DEF ArquivosInv, FasesCertas, CriacaoASos, ArquivoASos, AlvosCertos,
                          RemocaoLeuTudo, SeparadosSoNoMeio

LEMMA ArquivosDeChegar ==
  ASSUME Formas, ArquivosInv, NEW r \in Reqs, Chegar(r)
  PROVE  ArquivosInv'
<1> USE Sentinelas
<1>1. /\ SoMuda(r) /\ Ativo(r)' /\ ~Ativo(r) /\ pedidos'[r] \in Pedido
      /\ pedidos'[r].lidos = {} /\ UNCHANGED << pastas, arquivos, objetos, historia >>
  BY Chegada DEF linhas
<1>2. \A q \in Reqs \ {r} : (Ativo(q)' <=> Ativo(q)) /\ pedidos'[q] = pedidos[q]
  BY <1>1 DEF SoMuda, Ativo
<1>3. FasesCertas'
  <2>1. FaseCerta(pedidos'[r])
    BY <1>1, Chegada DEF FaseCerta
  <2> QED BY <1>2, <2>1 DEF ArquivosInv, FasesCertas
<1>4. CriacaoASos'
  <2>1. \/ pedidos'[r].pasta \in Vivas
        \/ \A q \in Reqs : Ativo(q) => pedidos[q].pasta # pedidos'[r].pasta
    BY Chegada
  <2>2. pedidos'[r].tipo = "criar" =>
           /\ pastas[pedidos'[r].pasta] = Ausente
           /\ \A q \in Reqs : Ativo(q) => pedidos[q].pasta # pedidos'[r].pasta
    BY Chegada
  <2>3. \A p \in Ids : p \in Vivas => pastas[p] # Ausente
    BY DEF Vivas
  <2>4. pedidos'[r].pasta \in Ids
    BY <1>1 DEF Pedido
  <2> QED BY <1>1, <1>2, <2>1, <2>2, <2>3, <2>4 DEF ArquivosInv, CriacaoASos
<1>5. \A a \in Arquivos : Tem(pedidos'[r], a) =>
         \/ /\ arquivos[a] = Ausente /\ pedidos'[r].fase = "guardar"
            /\ \A q \in Reqs : Ativo(q) => ~Tem(pedidos[q], a)
         \/ /\ pedidos'[r].tipo = "excluir" /\ arquivos[a] # Ausente
            /\ pedidos'[r].arquivo = a
  <2> TAKE a \in Arquivos
  <2>1. Tem(pedidos'[r], a) <=> pedidos'[r].arquivo = a
    BY <1>1 DEF Tem
  <2>2. Novo(a) => arquivos[a] = Ausente /\ \A q \in Reqs : Ativo(q) => ~Tem(pedidos[q], a)
    BY DEF Novo, Ativo, Tem
  <2>3. a # Ausente
    OBVIOUS
  <2> QED BY <1>1, <2>1, <2>2, <2>3, Chegada
<1>6. ArquivoASos'
  <2>1. ASSUME NEW a \in Arquivos, PorGravar(pedidos'[r]), pedidos'[r].arquivo = a
        PROVE  /\ arquivos[a] = Ausente /\ pedidos'[r].fase = "guardar"
               /\ \A q \in Reqs : Ativo(q) => ~Tem(pedidos[q], a)
    BY <1>5, <2>1 DEF PorGravar, Tem
  <2>2. ASSUME NEW q \in Reqs, NEW a \in Arquivos,
               Ativo(q)', PorGravar(pedidos'[q]), pedidos'[q].arquivo = a
        PROVE  /\ arquivos'[a] = Ausente
               /\ pedidos'[q].fase = "gravar" => a \in objetos'
               /\ \A s \in Reqs \ {q} : Ativo(s)' => ~Tem(pedidos'[s], a)
    <3>1. CASE q = r
      BY <1>1, <1>2, <2>1, <2>2, <3>1
    <3>2. CASE q # r
      <4>1. Ativo(q) /\ PorGravar(pedidos[q]) /\ pedidos[q].arquivo = a
        BY <1>2, <2>2, <3>2
      <4>2. /\ arquivos[a] = Ausente /\ (pedidos[q].fase = "gravar" => a \in objetos)
            /\ \A s \in Reqs \ {q} : Ativo(s) => ~Tem(pedidos[s], a)
        BY <4>1 DEF ArquivosInv, ArquivoASos
      <4>3. ~Tem(pedidos'[r], a)
        BY <1>5, <4>1, <4>2 DEF Tem
      <4> QED BY <1>1, <1>2, <3>2, <4>2, <4>3
    <3> QED BY <3>1, <3>2
  <2> QED BY <2>2 DEF ArquivoASos
<1>7. AlvosCertos'
  <2>1. ASSUME NEW a \in Arquivos, a \in Alvos(pedidos'[r]),
               pedidos'[r].fase \in {"apagarObjetos", "apagarLinhas", "apagar"}
        PROVE  arquivos[a] = pedidos'[r].pasta /\ pedidos'[r].fase = "apagarObjetos"
    BY <1>1, <2>1, Chegada DEF Alvos
  <2> QED BY <1>1, <1>2, <2>1 DEF ArquivosInv, AlvosCertos
<1>8. RemocaoLeuTudo'
  <2>1. pedidos'[r].tipo = "remover" => pedidos'[r].fase = "ler"
    BY Chegada
  <2> QED BY <1>1, <1>2, <2>1 DEF ArquivosInv, RemocaoLeuTudo
<1>9. SeparadosSoNoMeio'
  BY <1>1, <1>2 DEF ArquivosInv, SeparadosSoNoMeio
<1> QED BY <1>3, <1>4, <1>6, <1>7, <1>8, <1>9 DEF ArquivosInv

\* The object is written by the only request that knows of the file.
LEMMA ArquivosDeGuardar ==
  ASSUME Formas, ArquivosInv, NEW r \in Reqs, Guardar(r)
  PROVE  ArquivosInv'
<1>1. /\ Ativo(r) /\ pedidos[r] \in Pedido /\ pedidos[r].fase = "guardar"
      /\ FaseCerta(pedidos[r])
  BY EmCurso DEF Guardar, Fases, ArquivosInv, FasesCertas
<1>2. /\ SoMuda(r) /\ Ativo(r)' /\ pedidos'[r].fase = "gravar"
      /\ pedidos'[r].tipo = pedidos[r].tipo /\ pedidos'[r].pasta = pedidos[r].pasta
      /\ pedidos'[r].arquivo = pedidos[r].arquivo /\ pedidos'[r].lidos = pedidos[r].lidos
  BY <1>1, Avanca DEF Guardar, Fases
<1>3. \A q \in Reqs \ {r} : (Ativo(q)' <=> Ativo(q)) /\ pedidos'[q] = pedidos[q]
  BY <1>2 DEF SoMuda, Ativo
<1>4. PICK b \in Arquivos : b = pedidos[r].arquivo
  BY <1>1 DEF FaseCerta, Pedido
<1>5. objetos' = objetos \cup {b} /\ UNCHANGED << pastas, arquivos, historia >>
  BY <1>4 DEF Guardar
<1>6. PorGravar(pedidos[r]) /\ PorGravar(pedidos'[r])
      /\ pedidos[r].tipo \in {"criar", "incluir"}
  BY <1>1, <1>2 DEF FaseCerta, PorGravar
<1>7. arquivos[b] = Ausente /\ \A q \in Reqs \ {r} : Ativo(q) => ~Tem(pedidos[q], b)
  BY <1>1, <1>4, <1>6 DEF ArquivosInv, ArquivoASos
<1>8. FasesCertas'
  <2>1. FaseCerta(pedidos'[r])
    BY <1>1, <1>2, <1>6 DEF FaseCerta
  <2> QED BY <1>3, <2>1 DEF ArquivosInv, FasesCertas
<1>9. CriacaoASos'
  BY <1>1, <1>2, <1>3, <1>5, <1>6 DEF ArquivosInv, CriacaoASos
<1>10. ArquivoASos'
  <2>1. \A a \in Arquivos : Tem(pedidos'[r], a) <=> Tem(pedidos[r], a)
    BY <1>2 DEF Tem
  <2>2. ASSUME NEW q \in Reqs, NEW a \in Arquivos, q # r,
               Ativo(q), PorGravar(pedidos[q]), pedidos[q].arquivo = a
        PROVE  /\ arquivos[a] = Ausente
               /\ pedidos[q].fase = "gravar" => a \in objetos
               /\ \A s \in Reqs \ {q} : Ativo(s) => ~Tem(pedidos[s], a)
    BY <2>2 DEF ArquivosInv, ArquivoASos
  <2>3. ASSUME NEW q \in Reqs, NEW a \in Arquivos, q # r,
               Ativo(q)', PorGravar(pedidos'[q]), pedidos'[q].arquivo = a
        PROVE  /\ arquivos'[a] = Ausente
               /\ pedidos'[q].fase = "gravar" => a \in objetos'
               /\ \A s \in Reqs \ {q} : Ativo(s)' => ~Tem(pedidos'[s], a)
    BY <1>1, <1>3, <1>5, <2>1, <2>2, <2>3
  <2>4. \A s \in Reqs \ {r} : Ativo(s)' => ~Tem(pedidos'[s], b)
    BY <1>3, <1>7
  <2>5. b \in objetos' /\ arquivos'[b] = Ausente /\ pedidos'[r].arquivo = b
    BY <1>2, <1>4, <1>5, <1>7
  <2>6. ASSUME NEW q \in Reqs, NEW a \in Arquivos,
               Ativo(q)', PorGravar(pedidos'[q]), pedidos'[q].arquivo = a
        PROVE  /\ arquivos'[a] = Ausente
               /\ pedidos'[q].fase = "gravar" => a \in objetos'
               /\ \A s \in Reqs \ {q} : Ativo(s)' => ~Tem(pedidos'[s], a)
    <3>1. CASE q = r
      BY <2>4, <2>5, <2>6, <3>1
    <3>2. CASE q # r
      BY <2>3, <2>6, <3>2
    <3> QED BY <3>1, <3>2
  <2> QED BY <2>6 DEF ArquivoASos
<1>11. AlvosCertos'
  <2>1. \A q \in Reqs \ {r}, a \in Arquivos : Ativo(q) /\ a \in Alvos(pedidos[q]) => a # b
    BY <1>7, AlvosTem
  <2> QED BY <1>2, <1>3, <1>5, <2>1 DEF ArquivosInv, AlvosCertos
<1>12. RemocaoLeuTudo'
  BY <1>2, <1>3, <1>5, <1>6 DEF ArquivosInv, RemocaoLeuTudo
<1>13. SeparadosSoNoMeio'
  <2> SUFFICES ASSUME NEW a \in Arquivos, (arquivos'[a] # Ausente) # (a \in objetos'),
                      a \notin historia'.partidos, a \notin historia'.largados \cap objetos'
               PROVE  \E q \in Reqs : Ativo(q)' /\ Mexe(pedidos'[q], a)
    BY DEF SeparadosSoNoMeio
  <2>1. CASE a = b
    BY <1>2, <1>4, <1>6, <2>1 DEF Mexe
  <2>2. CASE a # b
    <3>1. PICK q \in Reqs : Ativo(q) /\ Mexe(pedidos[q], a)
      BY <1>5, <2>2 DEF ArquivosInv, SeparadosSoNoMeio
    <3>2. q # r
      BY <1>1, <3>1 DEF Mexe
    <3> QED BY <1>3, <3>1, <3>2
  <2> QED BY <2>1, <2>2
<1> QED BY <1>8, <1>9, <1>10, <1>11, <1>12, <1>13 DEF ArquivosInv

\* A request that only goes on, or ends, where it holds no file half way.
LEMMA ArquivosDeSeguir ==
  ASSUME Formas, ArquivosInv, NEW r \in Reqs, Ativo(r), SoMuda(r),
         UNCHANGED << pastas, arquivos, objetos, historia >>,
         \/ ~Ativo(r)'
         \/ /\ Ativo(r)' /\ pedidos'[r].fase \in {"reler", "publicar"}
            /\ pedidos'[r].tipo = pedidos[r].tipo /\ pedidos'[r].pasta = pedidos[r].pasta
            /\ pedidos'[r].arquivo = pedidos[r].arquivo
            /\ pedidos'[r].lidos = pedidos[r].lidos
            /\ FaseCerta(pedidos'[r]) /\ pedidos[r].fase # "ler",
         \A a \in Arquivos : ~Mexe(pedidos[r], a)
  PROVE  ArquivosInv'
<1>1. \A q \in Reqs \ {r} : (Ativo(q)' <=> Ativo(q)) /\ pedidos'[q] = pedidos[q]
  BY DEF SoMuda, Ativo
<1>2. Ativo(r)' => /\ ~PorGravar(pedidos'[r]) /\ FaseCerta(pedidos'[r])
                   /\ pedidos'[r].pasta = pedidos[r].pasta
                   /\ pedidos'[r].tipo = pedidos[r].tipo
                   /\ pedidos'[r].lidos = pedidos[r].lidos
                   /\ pedidos'[r].fase \in {"reler", "publicar"} /\ pedidos[r].fase # "ler"
                   /\ \A a \in Arquivos : Tem(pedidos'[r], a) => Tem(pedidos[r], a)
  BY DEF PorGravar, Tem
<1>3. FasesCertas'
  BY <1>1, <1>2 DEF ArquivosInv, FasesCertas
<1>4. CriacaoASos'
  BY <1>1, <1>2 DEF ArquivosInv, CriacaoASos
<1>5. ArquivoASos'
  BY <1>1, <1>2 DEF ArquivosInv, ArquivoASos
<1>6. AlvosCertos'
  BY <1>1, <1>2 DEF ArquivosInv, AlvosCertos
<1>7. RemocaoLeuTudo'
  BY <1>1, <1>2 DEF ArquivosInv, RemocaoLeuTudo
<1>8. SeparadosSoNoMeio'
  BY <1>1 DEF ArquivosInv, SeparadosSoNoMeio
<1> QED BY <1>3, <1>4, <1>5, <1>6, <1>7, <1>8 DEF ArquivosInv

LEMMA ArquivosDeRelerOuPublicar ==
  ASSUME Formas, Cabem, ArquivosInv, NEW r \in Reqs, Reler(r) \/ Publicar(r)
  PROVE  ArquivosInv'
<1>1. /\ Ativo(r) /\ FaseCerta(pedidos[r]) /\ pedidos[r] \in Pedido
      /\ pedidos[r].fase \in {"reler", "publicar"}
  BY EmCurso DEF Reler, Publicar, Pedida, Fases, ArquivosInv, FasesCertas
<1>2. \A a \in Arquivos : ~Mexe(pedidos[r], a)
  BY <1>1 DEF Mexe
<1>3. UNCHANGED << pastas, arquivos, objetos, historia >>
  BY DEF Reler, Publicar, Pedida, linhas
<1>4. CASE ~Ativo(r)' /\ SoMuda(r)
  BY <1>1, <1>2, <1>3, <1>4, ArquivosDeSeguir
<1>5. CASE Avancar(r, "publicar")
  <2>1. /\ SoMuda(r) /\ Ativo(r)' /\ pedidos'[r].fase = "publicar"
        /\ pedidos'[r].tipo = pedidos[r].tipo /\ pedidos'[r].pasta = pedidos[r].pasta
        /\ pedidos'[r].arquivo = pedidos[r].arquivo /\ pedidos'[r].lidos = pedidos[r].lidos
    BY <1>1, <1>5, Avanca DEF Fases
  <2>2. FaseCerta(pedidos'[r])
    BY <1>1, <2>1 DEF FaseCerta
  <2> QED BY <1>1, <1>2, <1>3, <2>1, <2>2, ArquivosDeSeguir
<1> QED BY <1>4, <1>5, Encerra DEF Reler, Publicar, Pedida

LEMMA ArquivosDeLer ==
  ASSUME Formas, ArquivosInv, NEW r \in Reqs, LerArquivos(r)
  PROVE  ArquivosInv'
<1>1. /\ SoMuda(r) /\ Ativo(r)' /\ Ativo(r) /\ pedidos[r].fase = "ler"
      /\ pedidos'[r].fase = "apagarObjetos"
      /\ pedidos'[r].tipo = pedidos[r].tipo /\ pedidos'[r].pasta = pedidos[r].pasta
      /\ pedidos'[r].arquivo = pedidos[r].arquivo
      /\ pedidos'[r].lidos = { a \in Arquivos : arquivos[a] = pedidos[r].pasta }
      /\ UNCHANGED << pastas, arquivos, objetos, historia >>
  BY Le DEF linhas
<1>2. \A q \in Reqs \ {r} : (Ativo(q)' <=> Ativo(q)) /\ pedidos'[q] = pedidos[q]
  BY <1>1 DEF SoMuda, Ativo
<1>3. /\ FaseCerta(pedidos[r]) /\ pedidos[r].tipo = "remover" /\ pedidos[r] \in Pedido
      /\ pedidos[r].pasta \in Ids
  BY <1>1, EmCurso DEF ArquivosInv, FasesCertas, FaseCerta, Pedido
<1>4. FasesCertas'
  <2>1. FaseCerta(pedidos'[r])
    BY <1>1, <1>3 DEF FaseCerta
  <2> QED BY <1>2, <2>1 DEF ArquivosInv, FasesCertas
<1>5. CriacaoASos'
  BY <1>1, <1>2, <1>3 DEF ArquivosInv, CriacaoASos
<1>6. ArquivoASos'
  <2>1. ~PorGravar(pedidos'[r])
    BY <1>1 DEF PorGravar
  <2>2. \A a \in Arquivos : Tem(pedidos'[r], a) => Tem(pedidos[r], a) \/ arquivos[a] # Ausente
    BY <1>1, <1>3, Sentinelas DEF Tem
  <2> QED BY <1>1, <1>2, <2>1, <2>2 DEF ArquivosInv, ArquivoASos
<1>7. AlvosCertos'
  <2>1. \A a \in Arquivos : a \in Alvos(pedidos'[r]) => arquivos[a] = pedidos'[r].pasta
    BY <1>1, <1>3 DEF Alvos
  <2> QED BY <1>1, <1>2, <2>1 DEF ArquivosInv, AlvosCertos
<1>8. RemocaoLeuTudo'
  BY <1>1, <1>2 DEF ArquivosInv, RemocaoLeuTudo
<1>9. SeparadosSoNoMeio'
  <2>1. \A a \in Arquivos : ~Mexe(pedidos[r], a)
    BY <1>1 DEF Mexe
  <2> QED BY <1>1, <1>2, <2>1 DEF ArquivosInv, SeparadosSoNoMeio
<1> QED BY <1>4, <1>5, <1>6, <1>7, <1>8, <1>9 DEF ArquivosInv

LEMMA ArquivosDeApagarObjetos ==
  ASSUME Formas, ArquivosInv, NEW r \in Reqs, ApagarObjetos(r)
  PROVE  ArquivosInv'
<1>1. /\ Ativo(r) /\ pedidos[r] \in Pedido /\ pedidos[r].fase = "apagarObjetos"
      /\ FaseCerta(pedidos[r])
  BY EmCurso DEF ApagarObjetos, Fases, ArquivosInv, FasesCertas
<1>2. /\ SoMuda(r) /\ Ativo(r)' /\ pedidos'[r].fase = "apagarLinhas"
      /\ pedidos'[r].tipo = pedidos[r].tipo /\ pedidos'[r].pasta = pedidos[r].pasta
      /\ pedidos'[r].arquivo = pedidos[r].arquivo /\ pedidos'[r].lidos = pedidos[r].lidos
  BY <1>1, Avanca DEF ApagarObjetos, Fases
<1>3. \A q \in Reqs \ {r} : (Ativo(q)' <=> Ativo(q)) /\ pedidos'[q] = pedidos[q]
  BY <1>2 DEF SoMuda, Ativo
<1>4. /\ objetos' \subseteq objetos /\ objetos \ objetos' \subseteq Alvos(pedidos[r])
      /\ objetos' \cap Alvos(pedidos[r]) \subseteq historia'.largados
      /\ UNCHANGED << pastas, arquivos >>
      /\ historia.largados \subseteq historia'.largados
      /\ historia'.partidos = historia.partidos
  BY EfeitoDeApagarObjetos
<1>12. Alvos(pedidos'[r]) = Alvos(pedidos[r])
  BY <1>2 DEF Alvos
<1>5. FasesCertas'
  <2>1. FaseCerta(pedidos'[r])
    BY <1>1, <1>2 DEF FaseCerta
  <2> QED BY <1>3, <2>1 DEF ArquivosInv, FasesCertas
<1>6. ~PorGravar(pedidos'[r])
  BY <1>2 DEF PorGravar
<1>7. CriacaoASos'
  BY <1>1, <1>2, <1>3, <1>4, <1>6 DEF ArquivosInv, CriacaoASos
<1>8. ArquivoASos'
  <2>1. \A a \in Arquivos : Tem(pedidos'[r], a) <=> Tem(pedidos[r], a)
    BY <1>2 DEF Tem
  <2>2. \A a \in Alvos(pedidos[r]) : Tem(pedidos[r], a)
    BY AlvosTem
  <2>3. ASSUME NEW q \in Reqs, NEW a \in Arquivos,
               Ativo(q)', PorGravar(pedidos'[q]), pedidos'[q].arquivo = a
        PROVE  /\ arquivos'[a] = Ausente
               /\ pedidos'[q].fase = "gravar" => a \in objetos'
               /\ \A s \in Reqs \ {q} : Ativo(s)' => ~Tem(pedidos'[s], a)
    <3>1. q # r /\ Ativo(q) /\ PorGravar(pedidos[q]) /\ pedidos[q].arquivo = a
      BY <1>3, <1>6, <2>3
    <3>2. /\ arquivos[a] = Ausente /\ (pedidos[q].fase = "gravar" => a \in objetos)
          /\ \A s \in Reqs \ {q} : Ativo(s) => ~Tem(pedidos[s], a)
      BY <3>1 DEF ArquivosInv, ArquivoASos
    <3>3. a \notin Alvos(pedidos[r])
      BY <1>1, <2>2, <3>1, <3>2
    <3> QED BY <1>1, <1>3, <1>4, <2>1, <3>1, <3>2, <3>3
  <2> QED BY <2>3 DEF ArquivoASos
<1>9. AlvosCertos'
  BY <1>1, <1>2, <1>3, <1>4, <1>12 DEF ArquivosInv, AlvosCertos
<1>10. RemocaoLeuTudo'
  BY <1>1, <1>2, <1>3, <1>4 DEF ArquivosInv, RemocaoLeuTudo
<1>11. SeparadosSoNoMeio'
  <2> SUFFICES ASSUME NEW a \in Arquivos, (arquivos'[a] # Ausente) # (a \in objetos'),
                      a \notin historia'.partidos, a \notin historia'.largados \cap objetos'
               PROVE  \E q \in Reqs : Ativo(q)' /\ Mexe(pedidos'[q], a)
    BY DEF SeparadosSoNoMeio
  <2>1. CASE a \in Alvos(pedidos[r])
    BY <1>2, <1>12, <2>1 DEF Mexe
  <2>2. CASE a \notin Alvos(pedidos[r])
    <3>1. PICK q \in Reqs : Ativo(q) /\ Mexe(pedidos[q], a)
      BY <1>4, <2>2 DEF ArquivosInv, SeparadosSoNoMeio
    <3>2. q # r
      BY <1>1, <3>1 DEF Mexe
    <3> QED BY <1>3, <3>1, <3>2
  <2> QED BY <2>1, <2>2
<1> QED BY <1>5, <1>7, <1>8, <1>9, <1>10, <1>11 DEF ArquivosInv

\* The rows that a deletion takes have no object left, or were put there meanwhile.
LEMMA ArquivosDeApagarLinhas ==
  ASSUME Formas, ArquivosInv, NEW r \in Reqs, Ativo(r), Ativo(r)', SoMuda(r),
         NEW somem \in SUBSET Arquivos,
         pedidos[r].fase \in {"apagarLinhas", "apagar"}, FaseCerta(pedidos[r]),
         pedidos'[r].fase \in {"publicar", "apagar"}, FaseCerta(pedidos'[r]),
         pedidos'[r].tipo = pedidos[r].tipo, pedidos'[r].pasta = pedidos[r].pasta,
         pedidos'[r].arquivo = pedidos[r].arquivo, pedidos'[r].lidos = pedidos[r].lidos,
         arquivos' = [a \in Arquivos |-> IF a \in somem THEN Ausente ELSE arquivos[a]],
         \A a \in Arquivos : a \in somem <=>
            arquivos[a] = pedidos[r].pasta /\ (pedidos[r].tipo = "excluir" => a = pedidos[r].arquivo),
         pedidos[r].fase = "apagarLinhas" \/ pedidos[r].tipo = "remover",
         \A p \in Ids \ {pedidos[r].pasta} : pastas'[p] = pastas[p],
         UNCHANGED << objetos, historia >>
  PROVE  ArquivosInv'
<1>1. \A q \in Reqs \ {r} : (Ativo(q)' <=> Ativo(q)) /\ pedidos'[q] = pedidos[q]
  BY DEF SoMuda, Ativo
<1>2. pedidos[r] \in Pedido /\ \A q \in Reqs : Ativo(q) => pedidos[q] \in Pedido
  BY EmCurso
<1>3. \A a \in Arquivos : /\ arquivos'[a] = Ausente \/ arquivos'[a] = arquivos[a]
                          /\ arquivos[a] = Ausente => arquivos'[a] = Ausente
  OBVIOUS
<1>4. ~PorGravar(pedidos'[r]) /\ Alvos(pedidos'[r]) = Alvos(pedidos[r])
      /\ \A a \in Arquivos : Tem(pedidos'[r], a) <=> Tem(pedidos[r], a)
  BY DEF PorGravar, Alvos, Tem
<1>5. FasesCertas'
  BY <1>1 DEF ArquivosInv, FasesCertas
<1>6. CriacaoASos'
  <2>1. \A q \in Reqs : Ativo(q) => pedidos[q].pasta \in Ids
    BY <1>2 DEF Pedido
  <2>2. ASSUME NEW q \in Reqs \ {r}, Ativo(q), PorGravar(pedidos[q]),
               pedidos[q].tipo = "criar"
        PROVE  /\ pastas'[pedidos[q].pasta] = Ausente
               /\ \A s \in Reqs \ {q} : Ativo(s) => pedidos[s].pasta # pedidos[q].pasta
    BY <2>1, <2>2 DEF ArquivosInv, CriacaoASos
  <2> QED BY <1>1, <1>4, <2>2 DEF CriacaoASos
<1>7. ArquivoASos'
  BY <1>1, <1>3, <1>4 DEF ArquivosInv, ArquivoASos
<1>8. AlvosCertos'
  BY <1>1, <1>3, <1>4 DEF ArquivosInv, AlvosCertos
<1>9. RemocaoLeuTudo'
  <2>1. \A q \in Reqs : Ativo(q) => pedidos[q].pasta # Ausente
    BY <1>2, Sentinelas DEF Pedido
  <2> QED BY <1>1, <1>3, <2>1 DEF ArquivosInv, RemocaoLeuTudo
<1>10. SeparadosSoNoMeio'
  <2> SUFFICES ASSUME NEW a \in Arquivos, (arquivos'[a] # Ausente) # (a \in objetos'),
                      a \notin historia'.partidos, a \notin historia'.largados \cap objetos'
               PROVE  \E q \in Reqs : Ativo(q)' /\ Mexe(pedidos'[q], a)
    BY DEF SeparadosSoNoMeio
  <2>1. a \notin Alvos(pedidos[r]) /\ a \notin somem
    <3>1. CASE a \in Alvos(pedidos[r])
      <4>1. a \notin objetos \ historia.largados /\ arquivos[a] \in {pedidos[r].pasta, Ausente}
        BY <3>1 DEF ArquivosInv, AlvosCertos
      <4>2. pedidos[r].tipo = "excluir" => a = pedidos[r].arquivo
        BY <3>1 DEF Alvos
      <4>3. arquivos'[a] = Ausente
        BY <4>1, <4>2
      <4> QED BY <4>1, <4>3
    <3>2. CASE a \notin Alvos(pedidos[r]) /\ a \in somem
      <4>1. pedidos[r].tipo = "remover" /\ a \notin pedidos[r].lidos
        BY <3>2 DEF Alvos, FaseCerta
      <4>2. arquivos[a] = pedidos[r].pasta /\ pedidos[r].fase # "ler"
        BY <3>2
      <4>3. a \in historia.partidos
        BY <4>1, <4>2 DEF ArquivosInv, RemocaoLeuTudo
      <4> QED BY <4>3
    <3> QED BY <3>1, <3>2
  <2>2. PICK q \in Reqs : Ativo(q) /\ Mexe(pedidos[q], a)
    BY <2>1 DEF ArquivosInv, SeparadosSoNoMeio
  <2>3. q # r
    BY <2>1, <2>2 DEF Mexe
  <2> QED BY <1>1, <2>2, <2>3
<1> QED BY <1>5, <1>6, <1>7, <1>8, <1>9, <1>10 DEF ArquivosInv

LEMMA ArquivosDeApagar ==
  ASSUME Formas, ArquivosInv, NEW r \in Reqs, ApagarLinhas(r) \/ Apagar(r)
  PROVE  ArquivosInv'
<1>1. /\ Ativo(r) /\ pedidos[r] \in Pedido /\ FaseCerta(pedidos[r])
      /\ pedidos[r].fase \in {"apagarLinhas", "apagar"}
  BY EmCurso DEF ApagarLinhas, Apagar, Fases, ArquivosInv, FasesCertas
<1>2. CASE ApagarLinhas(r)
  <2> DEFINE somem == { a \in Arquivos :
                           /\ arquivos[a] = pedidos[r].pasta
                           /\ pedidos[r].tipo = "excluir" => a = pedidos[r].arquivo }
             f == IF pedidos[r].tipo = "excluir" THEN "publicar" ELSE "apagar"
  <2>1. pedidos[r].fase = "apagarLinhas" /\ Avancar(r, f) /\ f \in Fases
    BY <1>2 DEF ApagarLinhas, Fases
  <2>2. /\ SoMuda(r) /\ Ativo(r)' /\ pedidos'[r].fase = f
        /\ pedidos'[r].tipo = pedidos[r].tipo /\ pedidos'[r].pasta = pedidos[r].pasta
        /\ pedidos'[r].arquivo = pedidos[r].arquivo /\ pedidos'[r].lidos = pedidos[r].lidos
    <3> HIDE DEF f
    <3> QED BY <1>1, <2>1, Avanca
  <2>3. FaseCerta(pedidos'[r])
    BY <1>1, <2>1, <2>2 DEF FaseCerta
  <2>4. arquivos' = [a \in Arquivos |-> IF a \in somem THEN Ausente ELSE arquivos[a]]
        /\ UNCHANGED << pastas, objetos, historia >>
    BY <1>2 DEF ApagarLinhas
  <2>5. PICK s \in SUBSET Arquivos :
           /\ \A a \in Arquivos : a \in s <=>
                 /\ arquivos[a] = pedidos[r].pasta
                 /\ pedidos[r].tipo = "excluir" => a = pedidos[r].arquivo
           /\ arquivos' = [a \in Arquivos |-> IF a \in s THEN Ausente ELSE arquivos[a]]
    BY <2>4
  <2> QED BY <1>1, <2>1, <2>2, <2>3, <2>4, <2>5, ArquivosDeApagarLinhas
<1>3. CASE Apagar(r)
  <2>1. pedidos[r].fase = "apagar" /\ Avancar(r, "publicar") /\ pedidos[r].tipo = "remover"
    BY <1>1, <1>3 DEF Apagar, FaseCerta
  <2>2. /\ SoMuda(r) /\ Ativo(r)' /\ pedidos'[r].fase = "publicar"
        /\ pedidos'[r].tipo = pedidos[r].tipo /\ pedidos'[r].pasta = pedidos[r].pasta
        /\ pedidos'[r].arquivo = pedidos[r].arquivo /\ pedidos'[r].lidos = pedidos[r].lidos
    BY <1>1, <2>1, Avanca DEF Fases
  <2>3. FaseCerta(pedidos'[r])
    BY <1>1, <2>1, <2>2 DEF FaseCerta
  <2>4. /\ arquivos' = [a \in Arquivos |->
                          IF arquivos[a] = pedidos[r].pasta THEN Ausente ELSE arquivos[a]]
        /\ UNCHANGED << objetos, historia >>
    BY <1>3 DEF Apagar
  <2>5. PICK s \in SUBSET Arquivos : \A a \in Arquivos : a \in s <=> arquivos[a] = pedidos[r].pasta
    <3> WITNESS { a \in Arquivos : arquivos[a] = pedidos[r].pasta } \in SUBSET Arquivos
    <3> QED OBVIOUS
  <2>6. arquivos' = [a \in Arquivos |-> IF a \in s THEN Ausente ELSE arquivos[a]]
    BY <2>4, <2>5
  <2>7. \A p \in Ids \ {pedidos[r].pasta} : pastas'[p] = pastas[p]
    BY <1>3 DEF Apagar, Formas, TiposLinhas
  <2> QED BY <1>1, <2>1, <2>2, <2>3, <2>4, <2>5, <2>6, <2>7, ArquivosDeApagarLinhas
<1> QED BY <1>2, <1>3

\* The row of a new file is written, or refused.
LEMMA ArquivosDeGravar ==
  ASSUME Formas, ArquivosInv, NEW r \in Reqs, Gravar(r)
  PROVE  ArquivosInv'
<1> USE Sentinelas
<1>1. /\ Ativo(r) /\ pedidos[r] \in Pedido /\ FaseCerta(pedidos[r])
      /\ pedidos[r].fase = "gravar" /\ objetos' = objetos
  BY EmCurso DEF Gravar, Fases, ArquivosInv, FasesCertas
<1>2. SoMuda(r) /\ (\/ ~Ativo(r)'
                    \/ /\ Ativo(r)' /\ pedidos'[r].fase \in {"reler", "publicar"}
                       /\ pedidos'[r].tipo = pedidos[r].tipo
                       /\ pedidos'[r].pasta = pedidos[r].pasta
                       /\ pedidos'[r].arquivo = pedidos[r].arquivo
                       /\ pedidos'[r].lidos = pedidos[r].lidos
                       /\ (pedidos'[r].fase = "reler" => pedidos[r].tipo \in {"criar", "editar"}))
  BY <1>1, Avanca, Encerra DEF Gravar, Fases
<1>3. \A q \in Reqs \ {r} : (Ativo(q)' <=> Ativo(q)) /\ pedidos'[q] = pedidos[q]
  BY <1>2 DEF SoMuda, Ativo
<1>4. Ativo(r)' => /\ FaseCerta(pedidos'[r]) /\ ~PorGravar(pedidos'[r])
                   /\ Alvos(pedidos'[r]) = Alvos(pedidos[r])
                   /\ \A a \in Arquivos : Tem(pedidos'[r], a) <=> Tem(pedidos[r], a)
  BY <1>1, <1>2 DEF FaseCerta, PorGravar, Alvos, Tem
<1>5. \A q \in Reqs : Ativo(q) => pedidos[q] \in Pedido /\ pedidos[q].pasta \in Ids
  BY EmCurso DEF Pedido
<1>6. historia.partidos \subseteq historia'.partidos
      /\ historia'.largados = historia.largados
  BY DEF Gravar, Partir, Formas, TiposContas
<1>7. /\ pedidos[r].tipo = "editar" => pedidos[r].arquivo \notin Arquivos
      /\ pedidos[r].lidos = {}
  BY <1>1 DEF FaseCerta
\* The only row that may change is that of the file at hand.
<1>8. \A a \in Arquivos : a # pedidos[r].arquivo => arquivos'[a] = arquivos[a]
  BY DEF Gravar, Formas, TiposLinhas
<1>9. arquivos' # arquivos => pedidos[r].arquivo \in Arquivos
                              /\ pedidos[r].tipo \in {"criar", "incluir"}
                              /\ arquivos'[pedidos[r].arquivo] = pedidos[r].pasta
  BY <1>1, <1>7 DEF Gravar, Formas, TiposLinhas, FaseCerta, Pedido
<1>10. pedidos[r].arquivo \in Arquivos =>
          /\ arquivos[pedidos[r].arquivo] = Ausente /\ pedidos[r].arquivo \in objetos
          /\ \A q \in Reqs \ {r} : Ativo(q) => ~Tem(pedidos[q], pedidos[r].arquivo)
  <2> SUFFICES ASSUME pedidos[r].arquivo \in Arquivos
               PROVE  /\ arquivos[pedidos[r].arquivo] = Ausente /\ pedidos[r].arquivo \in objetos
                      /\ \A q \in Reqs \ {r} :
                            Ativo(q) => ~Tem(pedidos[q], pedidos[r].arquivo)
    OBVIOUS
  <2>1. PorGravar(pedidos[r])
    BY <1>1, <1>7 DEF PorGravar, FaseCerta
  <2> QED BY <1>1, <2>1 DEF ArquivosInv, ArquivoASos
<1>11. FasesCertas'
  BY <1>3, <1>4 DEF ArquivosInv, FasesCertas
<1>12. CriacaoASos'
  <2>1. \A p \in Ids : p # pedidos[r].pasta => pastas'[p] = pastas[p]
    BY DEF Gravar, Formas, TiposLinhas
  <2>2. ASSUME NEW q \in Reqs \ {r}, Ativo(q), PorGravar(pedidos[q]),
               pedidos[q].tipo = "criar"
        PROVE  /\ pastas'[pedidos[q].pasta] = Ausente
               /\ \A s \in Reqs \ {q} : Ativo(s) => pedidos[s].pasta # pedidos[q].pasta
    <3>1. /\ pastas[pedidos[q].pasta] = Ausente
          /\ \A s \in Reqs \ {q} : Ativo(s) => pedidos[s].pasta # pedidos[q].pasta
      BY <2>2 DEF ArquivosInv, CriacaoASos
    <3>2. pedidos[r].pasta # pedidos[q].pasta
      BY <1>1, <2>2, <3>1
    <3> QED BY <1>5, <2>1, <2>2, <3>1, <3>2
  <2> QED BY <1>1, <1>2, <1>3, <1>4, <2>2 DEF CriacaoASos
<1>13. ArquivoASos'
  <2>1. ASSUME NEW q \in Reqs, NEW a \in Arquivos,
               Ativo(q)', PorGravar(pedidos'[q]), pedidos'[q].arquivo = a
        PROVE  /\ arquivos'[a] = Ausente
               /\ pedidos'[q].fase = "gravar" => a \in objetos'
               /\ \A s \in Reqs \ {q} : Ativo(s)' => ~Tem(pedidos'[s], a)
    <3>1. q # r /\ Ativo(q) /\ PorGravar(pedidos[q]) /\ pedidos[q].arquivo = a
      BY <1>3, <1>4, <2>1
    <3>2. /\ arquivos[a] = Ausente /\ (pedidos[q].fase = "gravar" => a \in objetos)
          /\ \A s \in Reqs \ {q} : Ativo(s) => ~Tem(pedidos[s], a)
      BY <3>1 DEF ArquivosInv, ArquivoASos
    <3>3. a # pedidos[r].arquivo
      BY <1>1, <3>1, <3>2 DEF Tem
    <3> QED BY <1>1, <1>3, <1>4, <1>8, <3>1, <3>2, <3>3
  <2> QED BY <2>1 DEF ArquivoASos
<1>14. AlvosCertos'
  <2>1. ASSUME NEW q \in Reqs, NEW a \in Arquivos, Ativo(q)', a \in Alvos(pedidos'[q]),
               pedidos'[q].fase \in {"apagarObjetos", "apagarLinhas", "apagar"}
        PROVE  /\ arquivos'[a] \in {pedidos'[q].pasta, Ausente}
               /\ pedidos'[q].fase # "apagarObjetos"
                     => a \notin objetos' \ historia'.largados
    <3>1. q # r /\ Ativo(q) /\ pedidos'[q] = pedidos[q]
      BY <1>2, <1>3, <2>1
    <3>2. /\ arquivos[a] \in {pedidos[q].pasta, Ausente}
          /\ pedidos[q].fase # "apagarObjetos" => a \notin objetos \ historia.largados
      BY <2>1, <3>1 DEF ArquivosInv, AlvosCertos
    <3>3. a # pedidos[r].arquivo
      BY <1>10, <2>1, <3>1, AlvosTem
    <3> QED BY <1>1, <1>6, <1>8, <3>1, <3>2, <3>3
  <2> QED BY <2>1 DEF AlvosCertos
<1>15. RemocaoLeuTudo'
  <2>1. ASSUME NEW q \in Reqs, NEW a \in Arquivos,
               Ativo(q)', pedidos'[q].tipo = "remover", pedidos'[q].fase # "ler",
               arquivos'[a] = pedidos'[q].pasta
        PROVE  a \in pedidos'[q].lidos \cup historia'.partidos
    <3>1. q # r /\ Ativo(q) /\ pedidos'[q] = pedidos[q]
      BY <1>1, <1>2, <1>3, <2>1 DEF FaseCerta
    <3>2. CASE arquivos'[a] = arquivos[a]
      BY <1>6, <2>1, <3>1, <3>2 DEF ArquivosInv, RemocaoLeuTudo
    <3>3. CASE arquivos'[a] # arquivos[a]
      <4>1. /\ a = pedidos[r].arquivo /\ arquivos'[a] = pedidos[r].pasta
            /\ pedidos[r].tipo \in {"criar", "incluir"}
        BY <1>8, <1>9, <3>3
      <4>2. pedidos[r].tipo # "criar"
        <5> SUFFICES ASSUME pedidos[r].tipo = "criar" PROVE FALSE
          OBVIOUS
        <5>1. PorGravar(pedidos[r])
          BY <1>1 DEF PorGravar
        <5>2. pedidos[q].pasta # pedidos[r].pasta
          BY <1>1, <3>1, <5>1 DEF ArquivosInv, CriacaoASos
        <5> QED BY <2>1, <3>1, <4>1, <5>2
      <4>3. SendoRemovida(pedidos[r].pasta)
        BY <2>1, <3>1, <4>1 DEF SendoRemovida, Ativo
      <4>4. a \in historia'.partidos
        <5>1. pedidos[r].pasta \in Vivas
          BY <3>3, <4>1, <4>2 DEF Gravar
        <5>2. Partir({pedidos[r].arquivo})
          BY <4>1, <4>2, <4>3, <5>1 DEF Gravar
        <5> QED BY <4>1, <5>2 DEF Partir, Formas, TiposContas
      <4> QED BY <4>4
    <3> QED BY <3>2, <3>3
  <2> QED BY <2>1 DEF RemocaoLeuTudo
<1>16. SeparadosSoNoMeio'
  <2> SUFFICES ASSUME NEW a \in Arquivos, (arquivos'[a] # Ausente) # (a \in objetos'),
                      a \notin historia'.partidos, a \notin historia'.largados \cap objetos'
               PROVE  \E q \in Reqs : Ativo(q)' /\ Mexe(pedidos'[q], a)
    BY DEF SeparadosSoNoMeio
  <2>1. CASE a = pedidos[r].arquivo
    <3>1. arquivos' = arquivos /\ a \in objetos
      <4>1. a \in objetos /\ pedidos[r].pasta # Ausente
        BY <1>1, <1>5, <1>10, <2>1
      <4> QED BY <1>1, <1>9, <2>1, <4>1
    <3>2. pedidos[r].tipo \in {"criar", "incluir"}
      BY <1>1, <1>7, <2>1 DEF FaseCerta
    <3>3. /\ pedidos[r].tipo = "incluir" /\ pedidos[r].pasta \notin Vivas
          /\ Partir({pedidos[r].arquivo} \ {Ausente})
      <4>1. arquivos' # [arquivos EXCEPT ![pedidos[r].arquivo] = pedidos[r].pasta]
        <5>1. pedidos[r].pasta # Ausente /\ arquivos[a] = Ausente
          BY <1>1, <1>5, <1>10, <2>1
        <5>2. arquivos \in [Arquivos -> Ids \cup {Ausente}]
          BY DEF Formas, TiposLinhas
        <5> QED BY <2>1, <3>1, <5>1, <5>2
      <4> QED BY <1>1, <2>1, <3>2, <4>1 DEF Gravar
    <3> QED BY <2>1, <3>3 DEF Partir, Formas, TiposContas
  <2>2. CASE a # pedidos[r].arquivo
    <3>1. PICK q \in Reqs : Ativo(q) /\ Mexe(pedidos[q], a)
      BY <1>1, <1>6, <1>8, <2>2 DEF ArquivosInv, SeparadosSoNoMeio
    <3>2. q # r
      BY <1>1, <2>2, <3>1 DEF Mexe
    <3> QED BY <1>3, <3>1, <3>2
  <2> QED BY <2>1, <2>2
<1> QED BY <1>11, <1>12, <1>13, <1>14, <1>15, <1>16 DEF ArquivosInv

\* Requests are interrupted: the objects they may have deleted, or written, are of files
\* they held.
LEMMA ArquivosDeInterromper ==
  ASSUME Formas, ArquivosInv, NEW caem \in SUBSET Reqs,
         \A q \in Reqs : Ativo(q)' => q \notin caem /\ pedidos'[q] = pedidos[q] /\ Ativo(q),
         \A q \in Reqs : Ativo(q) /\ q \notin caem => Ativo(q)',
         UNCHANGED << pastas, arquivos >>, objetos' \subseteq Arquivos,
         \A a \in objetos \ objetos' :
            \E q \in caem : Ativo(q) /\ a \in PodemFaltar(pedidos[q]),
         \A a \in objetos' \ objetos :
            \E q \in caem : Ativo(q) /\ a \in PodemSobrar(pedidos[q]),
         historia'.largados = historia.largados, historia.partidos \subseteq historia'.partidos,
         \A q \in caem : Ativo(q) => Partem(pedidos[q]) \subseteq historia'.partidos
  PROVE  ArquivosInv'
<1>1. \A q \in Reqs, a \in Arquivos :
         Ativo(q) /\ (\/ Mexe(pedidos[q], a) \/ a \in PodemFaltar(pedidos[q])
                      \/ a \in PodemSobrar(pedidos[q])) =>
            /\ a \in Partem(pedidos[q]) /\ Tem(pedidos[q], a)
  <2>1. \A q \in Reqs : Ativo(q) => pedidos[q] \in Pedido
    BY EmCurso
  <2> QED BY <2>1, Sentinelas DEF Mexe, PodemFaltar, PodemSobrar, Partem, Alvos, Tem
\* Only the request that was writing an object knew of its file.
<1>8. \A a \in objetos' \ objetos, q \in Reqs : Ativo(q)' => ~Tem(pedidos[q], a)
  <2> SUFFICES ASSUME NEW a \in Arquivos, a \in objetos' \ objetos,
                      NEW q \in Reqs, Ativo(q)'
               PROVE  ~Tem(pedidos[q], a)
    OBVIOUS
  <2>1. PICK s \in caem : Ativo(s) /\ a \in PodemSobrar(pedidos[s])
    OBVIOUS
  <2>2. pedidos[s].fase = "guardar" /\ pedidos[s].arquivo = a
    BY <2>1 DEF PodemSobrar
  <2>3. PorGravar(pedidos[s])
    BY <2>1, <2>2 DEF PorGravar, ArquivosInv, FasesCertas, FaseCerta
  <2> QED BY <2>1, <2>2, <2>3 DEF ArquivosInv, ArquivoASos
<1>2. FasesCertas'
  BY DEF ArquivosInv, FasesCertas
<1>3. CriacaoASos'
  BY DEF ArquivosInv, CriacaoASos
<1>4. ArquivoASos'
  <2>1. ASSUME NEW q \in Reqs, NEW a \in Arquivos,
               Ativo(q)', PorGravar(pedidos'[q]), pedidos'[q].arquivo = a
        PROVE  /\ arquivos'[a] = Ausente
               /\ pedidos'[q].fase = "gravar" => a \in objetos'
               /\ \A s \in Reqs \ {q} : Ativo(s)' => ~Tem(pedidos'[s], a)
    <3>1. Ativo(q) /\ q \notin caem /\ pedidos'[q] = pedidos[q]
      BY <2>1
    <3>2. /\ arquivos[a] = Ausente /\ (pedidos[q].fase = "gravar" => a \in objetos)
          /\ \A s \in Reqs \ {q} : Ativo(s) => ~Tem(pedidos[s], a)
      BY <2>1, <3>1 DEF ArquivosInv, ArquivoASos
    <3>3. a \notin objetos \ objetos'
      BY <1>1, <3>1, <3>2
    <3> QED BY <3>1, <3>2, <3>3
  <2> QED BY <2>1 DEF ArquivoASos
<1>5. AlvosCertos'
  <2>1. \A q \in Reqs, a \in Arquivos :
           Ativo(q)' /\ a \in Alvos(pedidos[q]) => a \notin objetos' \ objetos
    BY <1>8, AlvosTem
  <2> QED BY <2>1 DEF ArquivosInv, AlvosCertos
<1>6. RemocaoLeuTudo'
  BY DEF ArquivosInv, RemocaoLeuTudo
<1>7. SeparadosSoNoMeio'
  <2> SUFFICES ASSUME NEW a \in Arquivos, (arquivos'[a] # Ausente) # (a \in objetos'),
                      a \notin historia'.partidos, a \notin historia'.largados \cap objetos'
               PROVE  \E q \in Reqs : Ativo(q)' /\ Mexe(pedidos'[q], a)
    BY DEF SeparadosSoNoMeio
  <2>1. a \notin objetos \ objetos' /\ a \notin objetos' \ objetos
    BY <1>1
  <2>2. PICK q \in Reqs : Ativo(q) /\ Mexe(pedidos[q], a)
    BY <2>1 DEF ArquivosInv, SeparadosSoNoMeio
  <2>3. q \notin caem
    BY <1>1, <2>2
  <2> QED BY <2>2, <2>3
<1> QED BY <1>2, <1>3, <1>4, <1>5, <1>6, <1>7 DEF ArquivosInv

LEMMA ArquivosDeFalhar ==
  ASSUME Formas, ArquivosInv, NEW r \in Reqs, Falhar(r)
  PROVE  ArquivosInv'
<1>1. /\ Ativo(r) /\ SoMuda(r) /\ pedidos'[r] = Livre /\ UNCHANGED << pastas, arquivos >>
      /\ objetos \ objetos' \subseteq PodemFaltar(pedidos[r])
      /\ objetos' \ objetos \subseteq PodemSobrar(pedidos[r])
      /\ historia'.partidos = historia.partidos \cup Partem(pedidos[r])
      /\ historia'.largados = historia.largados
  BY EfeitoDeFalhar
<1>5. objetos' \subseteq Arquivos
  BY FalharTipos DEF ArquivosInv, Formas, TiposLinhas
<1>2. \A q \in Reqs : Ativo(q)' => q # r /\ pedidos'[q] = pedidos[q] /\ Ativo(q)
  BY <1>1 DEF SoMuda, Ativo
<1>3. \A q \in Reqs : Ativo(q) /\ q # r => Ativo(q)'
  BY <1>1 DEF SoMuda, Ativo
<1>4. PICK caem \in SUBSET Reqs : caem = {r}
  OBVIOUS
<1> QED BY <1>1, <1>2, <1>3, <1>4, <1>5, ArquivosDeInterromper

LEMMA EfeitoDeReiniciar ==
  ASSUME Formas, Reiniciar
  PROVE  /\ \A r \in Reqs : ~Ativo(r)'
         /\ \A t \in 1 .. MaxPedidos : tarefas'[t] = Livre
         /\ reindexacao' = Livre /\ UNCHANGED << pastas, arquivos, indice >>
         /\ \A a \in objetos \ objetos' :
               \E q \in Reqs : Ativo(q) /\ a \in PodemFaltar(pedidos[q])
         /\ \A a \in objetos' \ objetos :
               \E q \in Reqs : Ativo(q) /\ a \in PodemSobrar(pedidos[q])
         /\ historia'.largados = historia.largados
         /\ historia.partidos \subseteq historia'.partidos
         /\ \A q \in Reqs : Ativo(q) => Partem(pedidos[q]) \subseteq historia'.partidos
         /\ historia.desviadas \subseteq historia'.desviadas
         /\ \A q \in Reqs : /\ Ativo(q) /\ pedidos[q].fase \in {"reler", "publicar"}
                            => pedidos[q].pasta \in historia'.desviadas
         /\ \A t \in 1 .. MaxPedidos :
               tarefas[t] # Livre => tarefas[t].pasta \in historia'.desviadas
<1> DEFINE I == { pedidos[r] : r \in { q \in Reqs : pedidos[q] # Livre } }
           E == { p \in I : p.fase \in {"reler", "publicar"} }
           P == { t \in DOMAIN tarefas : tarefas[t] # Livre }
           D == historia.desviadas \cup { p.pasta : p \in E } \cup { tarefas[t].pasta : t \in P }
           Q == historia.partidos \cup UNION { Partem(p) : p \in I }
<1>1. DOMAIN tarefas = 1 .. MaxPedidos
  BY DEF Formas, TiposBusca
<1>2. /\ pedidos' = [r \in Reqs |-> Livre] /\ reindexacao' = Livre
      /\ tarefas' = [t \in DOMAIN tarefas |-> Livre]
      /\ UNCHANGED << pastas, arquivos, indice >>
  BY DEF Reiniciar
<1>3. \E foram \in SUBSET UNION { PodemFaltar(p) : p \in I },
         sobram \in SUBSET UNION { PodemSobrar(p) : p \in I } :
            objetos' = (objetos \ foram) \cup sobram
  BY DEF Reiniciar
<1>4. historia' = [historia EXCEPT !.desviadas = D, !.partidos = Q]
  BY DEF Reiniciar
<1>5. \A q \in Reqs : Ativo(q) => pedidos[q] \in I
  BY DEF Ativo
<1>6. /\ historia'.desviadas = D /\ historia'.partidos = Q
      /\ historia'.largados = historia.largados
  <2> HIDE DEF D, Q
  <2> QED BY <1>4 DEF Formas, TiposContas
<1>7. /\ \A a \in objetos \ objetos' : \E p \in I : a \in PodemFaltar(p)
      /\ \A a \in objetos' \ objetos : \E p \in I : a \in PodemSobrar(p)
  BY <1>3
<1>8. \A p \in I : \E q \in Reqs : Ativo(q) /\ p = pedidos[q]
  BY DEF Ativo
<1>9. \A q \in Reqs : Ativo(q) => Partem(pedidos[q]) \subseteq Q
  BY <1>5
<1>10. \A q \in Reqs : Ativo(q) /\ pedidos[q].fase \in {"reler", "publicar"}
                      => pedidos[q].pasta \in D
  BY <1>5
<1>11. \A t \in 1 .. MaxPedidos : tarefas[t] # Livre => tarefas[t].pasta \in D
  BY <1>1
<1>12. historia.desviadas \subseteq D /\ historia.partidos \subseteq Q
  OBVIOUS
<1>13. \A r \in Reqs : ~Ativo(r)'
  BY <1>2 DEF Ativo
<1>14. \A t \in 1 .. MaxPedidos : tarefas'[t] = Livre
  BY <1>1, <1>2
<1> HIDE DEF I, D, Q
<1> QED BY <1>2, <1>6, <1>7, <1>8, <1>9, <1>10, <1>11, <1>12, <1>13, <1>14

LEMMA ArquivosDoPasso ==
  ASSUME Formas, Cabem, ArquivosInv, NextPastas
  PROVE  ArquivosInv'
<1>1. CASE \E r \in Reqs : Chegar(r)
  BY <1>1, ArquivosDeChegar
<1>2. CASE \E r \in Reqs : Continuar(r)
  BY <1>2, ArquivosDeGuardar, ArquivosDeGravar, ArquivosDeRelerOuPublicar, ArquivosDeLer,
     ArquivosDeApagarObjetos, ArquivosDeApagar DEF Continuar
<1>3. CASE \E r \in Reqs : Falhar(r)
  BY <1>3, ArquivosDeFalhar
<1>4. CASE PassoDaBusca
  BY <1>4, EfeitoDaBusca, ArquivosIguais
<1>5. CASE Reiniciar
  <2>1. objetos' \subseteq Arquivos
    BY <1>5, FormasDeReiniciar DEF ArquivosInv, Formas, TiposLinhas
  <2> QED BY <1>5, <2>1, EfeitoDeReiniciar, ArquivosDeInterromper
<1> QED BY <1>1, <1>2, <1>3, <1>4, <1>5 DEF NextPastas, PassoDaBusca

-----------------------------------------------------------------------------
(* The index: one shelf at a time. *)

\* An update, or a batch, that shows the shelf p and that nobody has overtaken.
EmVoo(t, p) ==
    /\ DoIndice(t, p) /\ tarefas[t].fase = "enviar" /\ tarefas[t].tipo = "upsert"
    /\ EmDia(tarefas[t])
NoLote(p) ==
    /\ reindexacao # Livre /\ reindexacao.fase = "enviar" /\ reindexacao.pasta = p
    /\ EmDia(reindexacao)

IndiceCerto(p) ==
    indice[p] # Documento(p) => p \in historia.desviadas \/ PorVir(p, 0)
TarefaCerta(t, p) == EmVoo(t, p) => tarefas[t].doc = Documento(p) \/ PorVir(p, t)
LoteCerto(p) == NoLote(p) => reindexacao.doc = Documento(p) \/ PorVir(p, 0)
LoteTemPasta ==
    reindexacao # Livre /\ reindexacao.fase # "lote" => reindexacao.pasta \in Ids
TudoCerto(p) ==
    IndiceCerto(p) /\ LoteCerto(p) /\ \A t \in 1 .. MaxPedidos : TarefaCerta(t, p)

LEMMA PorPasta ==
  ASSUME IndiceInv
  PROVE  LoteTemPasta /\ \A p \in Ids : TudoCerto(p)
BY DEF IndiceInv, IndicePorVir, TarefasPorVir, LotePorVir, TudoCerto, IndiceCerto,
       TarefaCerta, LoteCerto, LoteTemPasta, EmVoo, NoLote, DoIndice, EmDia

LEMMA DePasta ==
  ASSUME Formas', RemovidasFicam', LoteTemPasta', \A p \in Ids : TudoCerto(p)'
  PROVE  IndiceInv'
<1>1. IndicePorVir'
  BY DEF IndicePorVir, TudoCerto, IndiceCerto
<1>2. TarefasPorVir'
  <2> SUFFICES ASSUME NEW t \in 1 .. MaxPedidos,
                      tarefas'[t] # Livre, tarefas'[t].fase = "enviar",
                      tarefas'[t].tipo = "upsert", tarefas'[t].so = TRUE
               PROVE  tarefas'[t].doc = Documento(tarefas[t].pasta)'
                      \/ PorVir(tarefas[t].pasta, t)'
    BY DEF TarefasPorVir
  <2>1. PICK p \in Ids : p = tarefas'[t].pasta
    BY DEF Formas, TiposBusca, Tarefa
  <2>2. EmVoo(t, p)'
    BY <2>1 DEF EmVoo, DoIndice, EmDia
  <2>3. tarefas'[t].doc = Documento(p)' \/ PorVir(p, t)'
    BY <2>2 DEF TudoCerto, TarefaCerta
  <2> QED BY <2>1, <2>3 DEF Documento, PorVir, Vivas
<1>3. LotePorVir'
  <2> SUFFICES ASSUME (reindexacao # Livre)', reindexacao'.fase = "enviar",
                      reindexacao'.so = TRUE
               PROVE  reindexacao'.doc = Documento(reindexacao.pasta)'
                      \/ PorVir(reindexacao.pasta, 0)'
    BY DEF LotePorVir, LoteTemPasta
  <2>1. PICK p \in Ids : p = reindexacao'.pasta
    BY DEF LoteTemPasta
  <2>2. NoLote(p)'
    BY <2>1 DEF NoLote, EmDia
  <2>3. reindexacao'.doc = Documento(p)' \/ PorVir(p, 0)'
    BY <2>2 DEF TudoCerto, LoteCerto
  <2> QED BY <2>1, <2>3 DEF Documento, PorVir, Vivas
<1> QED BY <1>1, <1>2, <1>3 DEF IndiceInv

\* The step takes none of those that are to bring p's document up to date.
Esperam(p) ==
    /\ (p \in Vivas)' <=> p \in Vivas
    /\ \A r \in Reqs : /\ Escreveu(r, p) /\ p \in Vivas => Escreveu(r, p)'
                       /\ RemocaoEscrita(r) /\ pedidos[r].pasta = p
                          => RemocaoEscrita(r)' /\ pedidos'[r].pasta = p
    /\ \A t \in 1 .. MaxPedidos :
          DoIndice(t, p) /\ (p \in Vivas \/ tarefas[t].tipo = "remocao")
          => DoIndice(t, p)' /\ tarefas'[t].tipo = tarefas[t].tipo

LEMMA PorVirFica ==
  ASSUME NEW p, NEW m, Esperam(p), PorVir(p, m)
  PROVE  PorVir(p, m)'
<1>1. CASE p \in Vivas
  <2>1. (p \in Vivas)'
    BY <1>1 DEF Esperam
  <2>2. \/ \E r \in Reqs : Escreveu(r, p)
        \/ \E t \in 1 .. MaxPedidos : t # m /\ DoIndice(t, p)
    BY <1>1 DEF PorVir
  <2>3. \/ \E r \in Reqs : Escreveu(r, p)'
        \/ \E t \in 1 .. MaxPedidos : t # m /\ DoIndice(t, p)'
    BY <1>1, <2>2 DEF Esperam
  <2> QED BY <2>1, <2>3 DEF PorVir
<1>2. CASE p \notin Vivas
  <2>1. (p \notin Vivas)'
    BY <1>2 DEF Esperam
  <2>2. \/ \E r \in Reqs : RemocaoEscrita(r) /\ pedidos[r].pasta = p
        \/ \E t \in 1 .. MaxPedidos : DoIndice(t, p) /\ tarefas[t].tipo = "remocao"
    BY <1>2 DEF PorVir
  <2>3. \/ \E r \in Reqs : RemocaoEscrita(r)' /\ pedidos'[r].pasta = p
        \/ \E t \in 1 .. MaxPedidos : DoIndice(t, p)' /\ tarefas'[t].tipo = "remocao"
    BY <2>2 DEF Esperam
  <2> QED BY <2>1, <2>3 DEF PorVir
<1> QED BY <1>1, <1>2

\* The step leaves p's row, its document, and what shows them, as they are.
Conserva(p) ==
    /\ Documento(p)' = Documento(p) /\ indice'[p] = indice[p]
    /\ p \in historia.desviadas => p \in historia'.desviadas
    /\ \A t \in 1 .. MaxPedidos :
          EmVoo(t, p)' => \/ tarefas'[t].doc = Documento(p)
                          \/ EmVoo(t, p) /\ tarefas'[t].doc = tarefas[t].doc
    /\ NoLote(p)' => \/ reindexacao'.doc = Documento(p)
                     \/ NoLote(p) /\ reindexacao'.doc = reindexacao.doc

LEMMA CertoFica ==
  ASSUME NEW p, TudoCerto(p), Conserva(p), Esperam(p)
  PROVE  TudoCerto(p)'
<1>1. IndiceCerto(p)'
  BY PorVirFica DEF TudoCerto, Conserva, IndiceCerto
<1>2. LoteCerto(p)'
  BY PorVirFica DEF TudoCerto, Conserva, LoteCerto
<1>3. ASSUME NEW t \in 1 .. MaxPedidos PROVE TarefaCerta(t, p)'
  BY PorVirFica DEF TudoCerto, Conserva, TarefaCerta
<1> QED BY <1>1, <1>2, <1>3 DEF TudoCerto

\* A request has written p, or removed it: whatever shows p, its update is still to come.
LEMMA CertoPorVir ==
  ASSUME NEW p, \A m : PorVir(p, m)'
  PROVE  TudoCerto(p)'
BY DEF TudoCerto, IndiceCerto, LoteCerto, TarefaCerta

LEMMA InitIndice == InitPastas => IndiceInv
<1> SUFFICES ASSUME InitPastas PROVE IndiceInv
  OBVIOUS
<1>1. \A t \in 1 .. MaxPedidos : tarefas[t] = Livre
  BY DEF InitPastas
<1>2. \A r \in Reqs : ~RemocaoEscrita(r)
  BY DEF InitPastas, RemocaoEscrita, Ativo
<1>3. \A p \in Ids : indice[p] = Documento(p)
  BY DEF InitPastas
<1>4. reindexacao = Livre
  BY DEF InitPastas
<1> QED BY <1>1, <1>2, <1>3, <1>4 DEF IndiceInv, RemovidasFicam, IndicePorVir,
                                     TarefasPorVir, LotePorVir

\* A request goes on, or ends, and has neither written a shelf nor was about to ask for
\* the update of one that is there.
LEMMA IndiceDosPedidos ==
  ASSUME Formas, Formas', IndiceInv, NEW r \in Reqs, SoMuda(r),
         UNCHANGED << pastas, tarefas, indice, reindexacao >>,
         historia'.desviadas = historia.desviadas,
         \A p \in Vivas : Escreveu(r, p) => Escreveu(r, p)',
         ~RemocaoEscrita(r), ~RemocaoEscrita(r)'
  PROVE  IndiceInv'
<1>1. \A q \in Reqs \ {r} : (Ativo(q)' <=> Ativo(q)) /\ pedidos'[q] = pedidos[q]
  BY DEF SoMuda, Ativo
<1>2. RemovidasFicam'
  <2>1. \A q \in Reqs : RemocaoEscrita(q)' =>
           RemocaoEscrita(q) /\ pedidos'[q].pasta = pedidos[q].pasta
    BY <1>1 DEF RemocaoEscrita
  <2> QED BY <2>1 DEF IndiceInv, RemovidasFicam
<1>3. LoteTemPasta'
  BY PorPasta DEF LoteTemPasta
<1>4. \A p \in Ids : Conserva(p)
  BY DEF Conserva, Documento, Vivas, EmVoo, DoIndice, NoLote
<1>5. ASSUME NEW p \in Ids PROVE Esperam(p)
  <2>1. ASSUME NEW q \in Reqs, Escreveu(q, p), p \in Vivas PROVE Escreveu(q, p)'
    <3>1. CASE q = r
      BY <2>1, <3>1
    <3>2. CASE q # r
      BY <1>1, <2>1, <3>2 DEF Escreveu
    <3> QED BY <3>1, <3>2
  <2>2. ASSUME NEW q \in Reqs, RemocaoEscrita(q), pedidos[q].pasta = p
        PROVE  RemocaoEscrita(q)' /\ pedidos'[q].pasta = p
    BY <1>1, <2>2 DEF RemocaoEscrita
  <2> QED BY <2>1, <2>2 DEF Esperam, DoIndice, Vivas
<1> QED BY <1>2, <1>3, <1>4, <1>5, PorPasta, DePasta, CertoFica

\* What the index is asked to show changes only when a shelf is written or removed.
LEMMA IndiceDeSeguir ==
  ASSUME Formas, Formas', ArquivosInv, IndiceInv, NEW r \in Reqs,
         \/ Chegar(r) \/ Guardar(r) \/ Reler(r) \/ LerArquivos(r) \/ ApagarObjetos(r)
         \/ ApagarLinhas(r)
  PROVE  IndiceInv'
<1>1. CASE Chegar(r)
  <2>1. /\ SoMuda(r) /\ ~Ativo(r) /\ UNCHANGED << linhas, busca, historia >>
        /\ pedidos'[r].fase # "publicar"
    BY <1>1, Chegada
  <2> QED BY <2>1, IndiceDosPedidos DEF linhas, busca, Escreveu, RemocaoEscrita
<1>2. CASE Guardar(r) \/ ApagarObjetos(r) \/ ApagarLinhas(r)
  <2>1. /\ Ativo(r) /\ FaseCerta(pedidos[r])
        /\ pedidos[r].fase \in {"guardar", "apagarObjetos", "apagarLinhas"}
    BY <1>2, EmCurso DEF Guardar, ApagarObjetos, ApagarLinhas, Fases, ArquivosInv,
                         FasesCertas
  <2>2. /\ SoMuda(r) /\ Ativo(r)'
        /\ pedidos'[r].tipo = "remover" => pedidos'[r].fase # "publicar"
    BY <1>2, <2>1, Avanca DEF Guardar, ApagarObjetos, ApagarLinhas, Fases
  <2>3. UNCHANGED << pastas, busca >> /\ historia'.desviadas = historia.desviadas
    <3>1. CASE ApagarObjetos(r)
      BY <3>1, EfeitoDeApagarObjetos
    <3>2. CASE Guardar(r) \/ ApagarLinhas(r)
      BY <3>2 DEF Guardar, ApagarLinhas
    <3> QED BY <1>2, <3>1, <3>2
  <2> QED BY <2>1, <2>2, <2>3, IndiceDosPedidos DEF busca, Escreveu, RemocaoEscrita
<1>3. CASE LerArquivos(r)
  <2>1. /\ SoMuda(r) /\ pedidos[r].fase = "ler" /\ pedidos'[r].fase = "apagarObjetos"
        /\ UNCHANGED << linhas, busca, historia >>
    BY <1>3, Le
  <2> QED BY <2>1, IndiceDosPedidos DEF linhas, busca, Escreveu, RemocaoEscrita
<1>4. CASE Reler(r)
  <2>1. /\ Ativo(r) /\ FaseCerta(pedidos[r]) /\ pedidos[r].fase = "reler"
        /\ UNCHANGED << linhas, busca, historia >>
    BY <1>4, EmCurso DEF Reler, Fases, ArquivosInv, FasesCertas
  <2>2. CASE pedidos[r].pasta \in Vivas
    <3>1. Avancar(r, "publicar")
      BY <1>4, <2>2 DEF Reler
    <3>2. /\ SoMuda(r) /\ Ativo(r)' /\ pedidos'[r].fase = "publicar"
          /\ pedidos'[r].tipo = pedidos[r].tipo /\ pedidos'[r].pasta = pedidos[r].pasta
      BY <2>1, <3>1, Avanca DEF Fases
    <3> QED BY <2>1, <3>2, IndiceDosPedidos
            DEF linhas, busca, Escreveu, RemocaoEscrita, FaseCerta
  <2>3. CASE pedidos[r].pasta \notin Vivas
    <3>1. SoMuda(r) /\ ~Ativo(r)'
      BY <1>4, <2>3, Encerra DEF Reler
    <3> QED BY <2>1, <2>3, <3>1, IndiceDosPedidos DEF linhas, busca, Escreveu, RemocaoEscrita
  <2> QED BY <2>2, <2>3
<1> QED BY <1>1, <1>2, <1>3, <1>4

\* The batch under way goes on as it was when shelves come and go.
MesmoLote ==
    /\ (reindexacao = Livre)' <=> reindexacao = Livre
    /\ reindexacao # Livre =>
          /\ reindexacao'.fase = reindexacao.fase /\ reindexacao'.pasta = reindexacao.pasta
          /\ reindexacao'.doc = reindexacao.doc /\ reindexacao'.so = reindexacao.so
          /\ reindexacao'.lote = reindexacao.lote /\ reindexacao'.total = reindexacao.total

LEMMA MudancaLote ==
  ASSUME TiposBusca, NEW p, MudamAsPastas(p)
  PROVE  MesmoLote /\ ((reindexacao # Livre)' => reindexacao'.limpa = FALSE)
<1>1. CASE reindexacao = Livre
  BY <1>1 DEF MesmoLote, MudamAsPastas
<1>2. CASE reindexacao # Livre
  <2> DEFINE x == [reindexacao EXCEPT !.limpa = FALSE, !.faltam = @ \ {p}]
  <2>1. /\ x \in Reindexacao /\ x.fase = reindexacao.fase /\ x.pasta = reindexacao.pasta
        /\ x.doc = reindexacao.doc /\ x.so = reindexacao.so /\ x.lote = reindexacao.lote
        /\ x.total = reindexacao.total /\ x.limpa = FALSE
    BY <1>2 DEF TiposBusca, Reindexacao
  <2>2. reindexacao' = x
    BY <1>2 DEF MudamAsPastas
  <2> HIDE DEF x
  <2> QED BY <1>2, <2>1, <2>2, NaoSaoLivres DEF MesmoLote
<1> QED BY <1>1, <1>2

\* A request writes, or removes, the shelf p, whose update is then still to come.
LEMMA IndiceDeEscrever ==
  ASSUME Formas, Formas', IndiceInv, RemovidasFicam', MesmoLote, NEW r \in Reqs, SoMuda(r),
         NEW p \in Ids, Ativo(r) => pedidos[r].pasta = p,
         \A q \in Ids \ {p} : pastas'[q] = pastas[q],
         UNCHANGED << tarefas, indice >>, historia'.desviadas = historia.desviadas,
         \A m : PorVir(p, m)'
  PROVE  IndiceInv'
<1>1. \A q \in Reqs \ {r} : (Ativo(q)' <=> Ativo(q)) /\ pedidos'[q] = pedidos[q]
  BY DEF SoMuda, Ativo
<1>2. LoteTemPasta'
  <2>1. LoteTemPasta
    BY PorPasta
  <2> QED BY <2>1 DEF LoteTemPasta, MesmoLote
<1>3. ASSUME NEW q \in Ids \ {p} PROVE Conserva(q) /\ Esperam(q)
  <2>1. ((q \in Vivas)' <=> q \in Vivas) /\ Documento(q)' = Documento(q)
    BY DEF Vivas, Documento
  <2>2. NoLote(q)' => NoLote(q) /\ reindexacao'.doc = reindexacao.doc
    BY DEF MesmoLote, NoLote, EmDia
  <2>3. \A t \in 1 .. MaxPedidos : (EmVoo(t, q)' <=> EmVoo(t, q))
                                   /\ (DoIndice(t, q)' <=> DoIndice(t, q))
    BY DEF EmVoo, DoIndice
  <2>4. ASSUME NEW s \in Reqs, Ativo(s), pedidos[s].pasta = q
        PROVE  Ativo(s)' /\ pedidos'[s] = pedidos[s]
    BY <1>1, <2>4
  <2>5. \A s \in Reqs : Escreveu(s, q) => Escreveu(s, q)'
    BY <2>4 DEF Escreveu
  <2>6. \A s \in Reqs : RemocaoEscrita(s) /\ pedidos[s].pasta = q
                        => RemocaoEscrita(s)' /\ pedidos'[s].pasta = q
    BY <2>4 DEF RemocaoEscrita
  <2>7. Conserva(q)
    BY <2>1, <2>2, <2>3 DEF Conserva
  <2>8. Esperam(q)
    BY <2>1, <2>3, <2>5, <2>6 DEF Esperam
  <2> QED BY <2>7, <2>8
<1>4. ASSUME NEW q \in Ids PROVE TudoCerto(q)'
  <2>1. CASE q = p
    BY <2>1, CertoPorVir
  <2>2. CASE q # p
    BY <1>3, <2>2, PorPasta, CertoFica
  <2> QED BY <2>1, <2>2
<1> QED BY <1>2, <1>4, DePasta

LEMMA IndiceDeGravar ==
  ASSUME Formas, Formas', ArquivosInv, IndiceInv, NEW r \in Reqs, Gravar(r)
  PROVE  IndiceInv'
<1> USE Sentinelas
<1>1. /\ Ativo(r) /\ pedidos[r] \in Pedido /\ FaseCerta(pedidos[r])
      /\ pedidos[r].fase = "gravar" /\ UNCHANGED << tarefas, indice >>
      /\ historia'.desviadas = historia.desviadas
  BY EmCurso DEF Gravar, Fases, ArquivosInv, FasesCertas, Partir, Formas, TiposContas
<1>2. PICK p \in Ids : p = pedidos[r].pasta
  BY <1>1 DEF Pedido
\* create or update: the row is written.
<1>3. CASE /\ pedidos[r].tipo = "criar" \/ (pedidos[r].tipo = "editar" /\ p \in Vivas)
  <2>1. /\ pastas' = [pastas EXCEPT ![p] = 0]
           \/ (p \in Vivas /\ pastas' = [pastas EXCEPT ![p] = @ + 1])
        /\ MudamAsPastas(p) \/ reindexacao' = reindexacao
        /\ Avancar(r, "reler")
    BY <1>1, <1>2, <1>3 DEF Gravar
  <2>2. /\ SoMuda(r) /\ Ativo(r)' /\ pedidos'[r].fase = "reler" /\ pedidos'[r].pasta = p
        /\ pedidos'[r].tipo = pedidos[r].tipo
    BY <1>1, <1>2, <2>1, Avanca DEF Fases
  <2>3. pastas[p] # Removida
    <3>1. CASE pedidos[r].tipo = "criar"
      BY <1>1, <1>2, <3>1 DEF ArquivosInv, CriacaoASos, PorGravar
    <3>2. CASE p \in Vivas
      BY <3>2 DEF Vivas
    <3> QED BY <1>3, <3>1, <3>2
  <2>4. (p \in Vivas)' /\ \A q \in Ids \ {p} : pastas'[q] = pastas[q]
    <3>1. p \in Vivas => pastas[p] \in Nat /\ pastas[p] + 1 \in Nat
      <4>1. p \in Vivas => pastas[p] \in Nat
        BY NumerosDosTipos
      <4>2. \A n \in Nat : n + 1 \in Nat
        OBVIOUS
      <4> QED BY <4>1, <4>2
    <3>2. 0 \notin {Ausente, Removida} /\ \A n \in Nat : n \notin {Ausente, Removida}
      BY SentinelasDePastas
    <3>3. pastas'[p] \in Nat /\ \A q \in Ids \ {p} : pastas'[q] = pastas[q]
      BY <2>1, <3>1 DEF Formas, TiposLinhas
    <3> QED BY <3>2, <3>3 DEF Vivas
  <2>5. \A m : PorVir(p, m)'
    BY <2>2, <2>4 DEF PorVir, Escreveu
  <2>6. MesmoLote
    BY <2>1, MudancaLote DEF MesmoLote, Formas
  <2>7. RemovidasFicam'
    <3>1. ASSUME NEW q \in Reqs, RemocaoEscrita(q)'
          PROVE  pastas'[pedidos'[q].pasta] = Removida
      <4>1. q # r
        BY <2>2, <3>1 DEF RemocaoEscrita
      <4>2. RemocaoEscrita(q) /\ pedidos'[q] = pedidos[q] /\ pedidos[q] \in Pedido
        BY <2>2, <3>1, <4>1, EmCurso DEF RemocaoEscrita, SoMuda, Ativo
      <4>3. pastas[pedidos[q].pasta] = Removida
        BY <4>2 DEF IndiceInv, RemovidasFicam
      <4> QED BY <2>3, <2>4, <4>2, <4>3 DEF Pedido
    <3>2. ASSUME NEW t \in 1 .. MaxPedidos, tarefas[t] # Livre, tarefas[t].tipo = "remocao"
          PROVE  /\ tarefas[t].fase = "enviar" /\ tarefas[t].doc = Ausente
                 /\ pastas'[tarefas[t].pasta] = Removida
      <4>1. tarefas[t].pasta \in Ids
        BY <3>2 DEF Formas, TiposBusca, Tarefa
      <4> QED BY <2>3, <2>4, <3>2, <4>1 DEF IndiceInv, RemovidasFicam
    <3> QED BY <1>1, <3>1, <3>2 DEF RemovidasFicam
  <2> QED BY <1>1, <1>2, <2>2, <2>4, <2>5, <2>6, <2>7, IndiceDeEscrever
\* An upload, or a shelf that is gone.
<1>4. CASE pedidos[r].tipo = "incluir" \/ (pedidos[r].tipo = "editar" /\ p \notin Vivas)
  <2>1. /\ UNCHANGED << pastas, reindexacao >>
        /\ Encerrar(r) \/ (Avancar(r, "publicar") /\ pedidos[r].tipo # "remover")
    BY <1>1, <1>2, <1>4 DEF Gravar
  <2>2. SoMuda(r) /\ (Ativo(r)' => pedidos'[r].tipo # "remover")
    BY <1>1, <2>1, Avanca, Encerra DEF Fases
  <2> QED BY <1>1, <2>1, <2>2, IndiceDosPedidos DEF Escreveu, RemocaoEscrita
<1> QED BY <1>1, <1>3, <1>4 DEF FaseCerta

LEMMA IndiceDeApagar ==
  ASSUME Formas, Formas', ArquivosInv, IndiceInv, NEW r \in Reqs, Apagar(r)
  PROVE  IndiceInv'
<1>1. /\ Ativo(r) /\ pedidos[r] \in Pedido /\ pedidos[r].tipo = "remover"
      /\ pedidos[r].fase = "apagar" /\ Avancar(r, "publicar")
      /\ UNCHANGED << tarefas, indice, historia >>
  BY EmCurso DEF Apagar, Fases, ArquivosInv, FasesCertas, FaseCerta
<1>2. PICK p \in Ids : p = pedidos[r].pasta
  BY <1>1 DEF Pedido
<1>3. /\ SoMuda(r) /\ Ativo(r)' /\ pedidos'[r].fase = "publicar" /\ pedidos'[r].pasta = p
      /\ pedidos'[r].tipo = "remover"
  BY <1>1, <1>2, Avanca DEF Fases
<1>4. /\ pastas'[p] = Removida /\ \A q \in Ids \ {p} : pastas'[q] = pastas[q]
      /\ MudamAsPastas(p) \/ reindexacao' = reindexacao
  BY <1>2 DEF Apagar, Formas, TiposLinhas
<1>5. (p \notin Vivas)'
  BY <1>4 DEF Vivas
<1>6. \A m : PorVir(p, m)'
  BY <1>3, <1>5 DEF PorVir, RemocaoEscrita
<1>7. MesmoLote
  BY <1>4, MudancaLote DEF MesmoLote, Formas
<1>8. RemovidasFicam'
  <2>1. ASSUME NEW q \in Reqs, RemocaoEscrita(q)'
        PROVE  pastas'[pedidos'[q].pasta] = Removida
    <3>1. CASE q = r
      BY <1>3, <1>4, <3>1
    <3>2. CASE q # r
      <4>1. RemocaoEscrita(q) /\ pedidos'[q] = pedidos[q] /\ pedidos[q] \in Pedido
        BY <1>3, <2>1, <3>2, EmCurso DEF RemocaoEscrita, SoMuda, Ativo
      <4>2. pastas[pedidos[q].pasta] = Removida
        BY <4>1 DEF IndiceInv, RemovidasFicam
      <4> QED BY <1>4, <4>1, <4>2 DEF Pedido
    <3> QED BY <3>1, <3>2
  <2>2. ASSUME NEW t \in 1 .. MaxPedidos, tarefas[t] # Livre, tarefas[t].tipo = "remocao"
        PROVE  /\ tarefas[t].fase = "enviar" /\ tarefas[t].doc = Ausente
               /\ pastas'[tarefas[t].pasta] = Removida
    <3>1. tarefas[t].pasta \in Ids
      BY <2>2 DEF Formas, TiposBusca, Tarefa
    <3> QED BY <1>4, <2>2, <3>1 DEF IndiceInv, RemovidasFicam
  <2> QED BY <1>1, <2>1, <2>2 DEF RemovidasFicam
<1> QED BY <1>1, <1>2, <1>3, <1>4, <1>6, <1>7, <1>8, IndiceDeEscrever

\* The request asks for the update it was to ask for.
LEMMA IndiceDePublicar ==
  ASSUME Formas, Formas', Cabem, IndiceInv, NEW r \in Reqs, Publicar(r)
  PROVE  IndiceInv'
<1>1. /\ Ativo(r) /\ pedidos[r] \in Pedido /\ pedidos[r].fase = "publicar"
      /\ SoMuda(r) /\ ~Ativo(r)'
      /\ UNCHANGED << pastas, indice, reindexacao, historia >>
  BY Publicada DEF linhas, Ativo
<1>2. PICK p \in Ids : p = pedidos[r].pasta
  BY <1>1 DEF Pedido
<1>3. PICK t \in 1 .. MaxPedidos :
         /\ tarefas[t] = Livre /\ tarefas'[t] \in Tarefa
         /\ tarefas'[t].pasta = p /\ tarefas'[t].doc = Ausente
         /\ IF pedidos[r].tipo = "remover"
            THEN tarefas'[t].fase = "enviar" /\ tarefas'[t].tipo = "remocao"
            ELSE tarefas'[t].fase = "montar" /\ tarefas'[t].tipo = "upsert"
         /\ \A u \in 1 .. MaxPedidos \ {t} : tarefas'[u] = tarefas[u]
  BY <1>2, Publicada
<1>4. \A q \in Reqs \ {r} : (Ativo(q)' <=> Ativo(q)) /\ pedidos'[q] = pedidos[q]
  BY <1>1 DEF SoMuda, Ativo
<1>5. tarefas'[t] # Livre /\ t # 0
  BY <1>3, NaoSaoLivres
<1>6. RemovidasFicam'
  <2>1. \A q \in Reqs : RemocaoEscrita(q)' =>
           RemocaoEscrita(q) /\ pedidos'[q].pasta = pedidos[q].pasta
    BY <1>1, <1>4 DEF RemocaoEscrita
  <2>2. ASSUME NEW u \in 1 .. MaxPedidos, tarefas'[u] # Livre, tarefas'[u].tipo = "remocao"
        PROVE  /\ tarefas'[u].fase = "enviar" /\ tarefas'[u].doc = Ausente
               /\ pastas[tarefas'[u].pasta] = Removida
    <3>1. CASE u = t
      <4>1. RemocaoEscrita(r)
        BY <1>1, <1>3, <2>2, <3>1 DEF RemocaoEscrita
      <4> QED BY <1>2, <1>3, <2>2, <3>1, <4>1 DEF IndiceInv, RemovidasFicam
    <3>2. CASE u # t
      BY <1>3, <2>2, <3>2 DEF IndiceInv, RemovidasFicam
    <3> QED BY <3>1, <3>2
  <2> QED BY <1>1, <2>1, <2>2 DEF IndiceInv, RemovidasFicam
<1>7. LoteTemPasta'
  BY <1>1, PorPasta DEF LoteTemPasta
<1>8. \A q \in Ids : ((q \in Vivas)' <=> q \in Vivas) /\ Documento(q)' = Documento(q)
  BY <1>1 DEF Vivas, Documento
<1>9. \A u \in 1 .. MaxPedidos, q \in Ids :
         EmVoo(u, q)' => u # t /\ EmVoo(u, q) /\ tarefas'[u].doc = tarefas[u].doc
  BY <1>3 DEF EmVoo, DoIndice
<1>10. \A q \in Ids : Conserva(q)
  BY <1>1, <1>8, <1>9 DEF Conserva, NoLote
<1>11. ASSUME NEW q \in Ids \ {p} PROVE Esperam(q)
  <2>1. ASSUME NEW s \in Reqs, Ativo(s), pedidos[s].pasta = q
        PROVE  Ativo(s)' /\ pedidos'[s] = pedidos[s]
    BY <1>2, <1>4, <2>1
  <2>2. \A s \in Reqs : Escreveu(s, q) => Escreveu(s, q)'
    BY <2>1 DEF Escreveu
  <2>3. \A s \in Reqs : RemocaoEscrita(s) /\ pedidos[s].pasta = q
                        => RemocaoEscrita(s)' /\ pedidos'[s].pasta = q
    BY <2>1 DEF RemocaoEscrita
  <2>4. \A u \in 1 .. MaxPedidos : DoIndice(u, q) => DoIndice(u, q)' /\ tarefas'[u] = tarefas[u]
    BY <1>3 DEF DoIndice
  <2> QED BY <1>8, <2>2, <2>3, <2>4 DEF Esperam
<1>12. ASSUME NEW m, m # t, PorVir(p, m) PROVE PorVir(p, m)'
  <2>1. CASE p \in Vivas
    <3>1. DoIndice(t, p)' /\ (p \in Vivas)'
      BY <1>3, <1>5, <1>8, <2>1 DEF DoIndice
    <3> QED BY <1>12, <3>1 DEF PorVir
  <2>2. CASE p \notin Vivas
    <3>1. (p \notin Vivas)'
      BY <1>8, <2>2
    <3>2. CASE \E s \in Reqs : RemocaoEscrita(s) /\ pedidos[s].pasta = p
      <4>1. PICK s \in Reqs : RemocaoEscrita(s) /\ pedidos[s].pasta = p
        BY <3>2
      <4>2. CASE s = r
        <5>1. DoIndice(t, p)' /\ tarefas'[t].tipo = "remocao"
          BY <1>3, <1>5, <4>1, <4>2 DEF DoIndice, RemocaoEscrita
        <5> QED BY <3>1, <5>1 DEF PorVir
      <4>3. CASE s # r
        <5>1. RemocaoEscrita(s)' /\ pedidos'[s].pasta = p
          BY <1>4, <4>1, <4>3 DEF RemocaoEscrita
        <5> QED BY <3>1, <5>1 DEF PorVir
      <4> QED BY <4>2, <4>3
    <3>3. CASE \E u \in 1 .. MaxPedidos : DoIndice(u, p) /\ tarefas[u].tipo = "remocao"
      <4>1. PICK u \in 1 .. MaxPedidos : DoIndice(u, p) /\ tarefas[u].tipo = "remocao"
        BY <3>3
      <4>2. DoIndice(u, p)' /\ tarefas'[u].tipo = "remocao"
        BY <1>3, <4>1 DEF DoIndice
      <4> QED BY <3>1, <4>2 DEF PorVir
    <3> QED BY <1>12, <2>2, <3>2, <3>3 DEF PorVir
  <2> QED BY <2>1, <2>2
<1>13. TudoCerto(p)'
  <2>1. TudoCerto(p) /\ Conserva(p)
    BY <1>10, PorPasta
  <2>2. IndiceCerto(p)'
    BY <1>5, <1>12, <2>1 DEF TudoCerto, Conserva, IndiceCerto
  <2>3. LoteCerto(p)'
    BY <1>5, <1>12, <2>1 DEF TudoCerto, Conserva, LoteCerto
  <2>4. ASSUME NEW u \in 1 .. MaxPedidos PROVE TarefaCerta(u, p)'
    BY <1>8, <1>9, <1>12, <2>1 DEF TudoCerto, TarefaCerta
  <2> QED BY <2>2, <2>3, <2>4 DEF TudoCerto
<1>14. ASSUME NEW q \in Ids PROVE TudoCerto(q)'
  BY <1>10, <1>11, <1>13, PorPasta, CertoFica
<1> QED BY <1>6, <1>7, <1>14, DePasta

\* The batch is late if it is of the same shelf.
SoAtrasaLote(p) ==
    /\ (reindexacao = Livre)' <=> reindexacao = Livre
    /\ reindexacao # Livre =>
          /\ reindexacao'.fase = reindexacao.fase /\ reindexacao'.pasta = reindexacao.pasta
          /\ reindexacao'.doc = reindexacao.doc
          /\ reindexacao'.lote = reindexacao.lote /\ reindexacao'.total = reindexacao.total
          /\ reindexacao'.limpa = reindexacao.limpa
          /\ reindexacao'.faltam = reindexacao.faltam
          /\ EmDia(reindexacao)' => EmDia(reindexacao) /\ reindexacao.pasta # p

LEMMA LoteAtrasa ==
  ASSUME Formas, NEW p, reindexacao' = ReindexacaoAtrasada(p)
  PROVE  SoAtrasaLote(p)
<1>1. CASE reindexacao = Livre \/ reindexacao.pasta # p
  <2>1. reindexacao' = reindexacao
    BY <1>1 DEF ReindexacaoAtrasada
  <2> QED BY <1>1, <2>1 DEF SoAtrasaLote
<1>2. CASE reindexacao # Livre /\ reindexacao.pasta = p
  <2> DEFINE x == [reindexacao EXCEPT !.so = FALSE]
  <2>1. /\ x \in Reindexacao /\ x.fase = reindexacao.fase /\ x.pasta = reindexacao.pasta
        /\ x.doc = reindexacao.doc /\ ~EmDia(x) /\ x.lote = reindexacao.lote
        /\ x.total = reindexacao.total /\ x.limpa = reindexacao.limpa
        /\ x.faltam = reindexacao.faltam
    BY <1>2 DEF Formas, TiposBusca, Reindexacao, EmDia
  <2>2. reindexacao' = x
    BY <1>2 DEF ReindexacaoAtrasada
  <2> HIDE DEF x
  <2> QED BY <1>2, <2>1, <2>2, NaoSaoLivres DEF SoAtrasaLote
<1> QED BY <1>1, <1>2

\* An update of p is sent or given up, and the others that show it are late.
LEMMA IndiceDeAtrasar ==
  ASSUME Formas, Formas', IndiceInv, NEW p \in Ids, NEW t \in 0 .. MaxPedidos,
         SoAtrasa(p, t), t # 0 => tarefas'[t] = Livre /\ DoIndice(t, p),
         pastas' = pastas, \A q \in Ids \ {p} : indice'[q] = indice[q],
         \A q \in Ids \ {p} : q \in historia.desviadas => q \in historia'.desviadas,
         IndiceCerto(p)', LoteTemPasta', ~NoLote(p)',
         \A q \in Ids : NoLote(q)' => NoLote(q) /\ reindexacao'.doc = reindexacao.doc,
         \A s \in Reqs : Ativo(s)' => Ativo(s) /\ pedidos'[s] = pedidos[s],
         \A s \in Reqs : Ativo(s) /\ pedidos[s].pasta # p => Ativo(s)'
  PROVE  IndiceInv'
<1>1. \A u \in 1 .. MaxPedidos :
         tarefas'[u] # Livre =>
            /\ u # t /\ tarefas[u] # Livre /\ MesmaTarefa(tarefas'[u], tarefas[u])
            /\ EmDia(tarefas'[u]) => EmDia(tarefas[u]) /\ ~Atrasa(tarefas[u], p)
  BY DEF SoAtrasa
<1>2. RemovidasFicam'
  <2>1. \A q \in Reqs : RemocaoEscrita(q)' =>
           RemocaoEscrita(q) /\ pedidos'[q].pasta = pedidos[q].pasta
    BY DEF RemocaoEscrita
  <2> QED BY <1>1, <2>1 DEF IndiceInv, RemovidasFicam, MesmaTarefa
<1>3. \A q \in Ids : ((q \in Vivas)' <=> q \in Vivas) /\ Documento(q)' = Documento(q)
  BY DEF Vivas, Documento
<1>4. \A u \in 1 .. MaxPedidos, q \in Ids :
         EmVoo(u, q)' => q # p /\ EmVoo(u, q) /\ tarefas'[u].doc = tarefas[u].doc
  BY <1>1 DEF EmVoo, DoIndice, MesmaTarefa, Atrasa
<1>5. ASSUME NEW q \in Ids \ {p} PROVE Conserva(q) /\ Esperam(q)
  <2>1. Conserva(q)
    BY <1>3, <1>4 DEF Conserva
  <2>2. ASSUME NEW s \in Reqs, Ativo(s), pedidos[s].pasta = q
        PROVE  Ativo(s)' /\ pedidos'[s] = pedidos[s]
    BY <2>2
  <2>3. \A s \in Reqs : Escreveu(s, q) => Escreveu(s, q)'
    BY <2>2 DEF Escreveu
  <2>4. \A s \in Reqs : RemocaoEscrita(s) /\ pedidos[s].pasta = q
                        => RemocaoEscrita(s)' /\ pedidos'[s].pasta = q
    BY <2>2 DEF RemocaoEscrita
  <2>5. \A u \in 1 .. MaxPedidos :
           DoIndice(u, q) => DoIndice(u, q)' /\ tarefas'[u].tipo = tarefas[u].tipo
    BY DEF DoIndice, SoAtrasa, MesmaTarefa
  <2>6. Esperam(q)
    BY <1>3, <2>3, <2>4, <2>5 DEF Esperam
  <2> QED BY <2>1, <2>6
<1>6. TudoCerto(p)'
  BY <1>4 DEF TudoCerto, LoteCerto, TarefaCerta
<1>7. ASSUME NEW q \in Ids PROVE TudoCerto(q)'
  BY <1>5, <1>6, PorPasta, CertoFica
<1> QED BY <1>2, <1>7, DePasta

LEMMA IndiceDeFalhar ==
  ASSUME Formas, Formas', IndiceInv, NEW r \in Reqs, Falhar(r)
  PROVE  IndiceInv'
<1>1. /\ Ativo(r) /\ pedidos[r] \in Pedido /\ pedidos[r].fase # "publicar"
      /\ SoMuda(r) /\ pedidos'[r] = Livre /\ ~Ativo(r)' /\ UNCHANGED << pastas, indice >>
  BY EfeitoDeFalhar DEF Ativo
<1>2. CASE pedidos[r].fase # "reler"
  <2>1. UNCHANGED << tarefas, reindexacao >> /\ historia'.desviadas = historia.desviadas
    BY <1>2, EfeitoDeFalhar
  <2> QED BY <1>1, <1>2, <2>1, IndiceDosPedidos DEF Escreveu, RemocaoEscrita
<1>3. CASE pedidos[r].fase = "reler"
  <2>1. PICK p \in Ids : p = pedidos[r].pasta
    BY <1>1 DEF Pedido
  <2>2. /\ SoAtrasa(p, 0) /\ reindexacao' = ReindexacaoAtrasada(p)
        /\ historia'.desviadas = historia.desviadas \cup {p}
    BY <1>3, <2>1, EfeitoDeFalhar
  <2>3. SoAtrasaLote(p)
    BY <2>2, LoteAtrasa
  <2>4. LoteTemPasta'
    BY <2>3, PorPasta DEF LoteTemPasta, SoAtrasaLote
  <2>5. ~NoLote(p)' /\ \A q \in Ids : NoLote(q)' => NoLote(q) /\ reindexacao'.doc = reindexacao.doc
    BY <2>3 DEF NoLote, SoAtrasaLote
  <2>6. IndiceCerto(p)'
    BY <2>2 DEF IndiceCerto
  <2>7. \A s \in Reqs : /\ Ativo(s)' => Ativo(s) /\ pedidos'[s] = pedidos[s]
                        /\ Ativo(s) /\ pedidos[s].pasta # p => Ativo(s)'
    BY <1>1, <2>1 DEF SoMuda, Ativo
  <2>8. 0 \in 0 .. MaxPedidos
    BY LimitesAssumption
  <2> QED BY <1>1, <2>2, <2>4, <2>5, <2>6, <2>7, <2>8, IndiceDeAtrasar
<1> QED BY <1>2, <1>3

\* The row is read: the update shows it as it is, or there is none to send.
LEMMA IndiceDeMontar ==
  ASSUME Formas, Formas', IndiceInv, NEW t \in 1 .. MaxPedidos, Montar(t)
  PROVE  IndiceInv'
<1>1. /\ tarefas[t] # Livre /\ tarefas[t] \in Tarefa /\ tarefas[t].fase = "montar"
      /\ UNCHANGED << pastas, pedidos, indice, reindexacao, historia >>
  BY DEF Montar, linhas, Formas, TiposBusca
<1>2. PICK p \in Ids : p = tarefas[t].pasta
  BY <1>1 DEF Tarefa
<1>3. tarefas[t].tipo = "upsert"
  BY <1>1 DEF IndiceInv, RemovidasFicam, Tarefa
<1>4. \A u \in 1 .. MaxPedidos \ {t} : tarefas'[u] = tarefas[u]
  BY DEF Montar, Formas, TiposBusca
<1>5. IF p \in Vivas
      THEN /\ tarefas'[t] \in Tarefa /\ tarefas'[t].doc = Documento(p)
           /\ tarefas'[t].tipo = "upsert" /\ tarefas'[t].pasta = p
      ELSE tarefas'[t] = Livre
  <2>1. tarefas'[t] = IF p \in Vivas
                      THEN [tarefas[t] EXCEPT !.fase = "enviar", !.doc = Documento(p)]
                      ELSE Livre
    BY <1>2 DEF Montar, Formas, TiposBusca
  <2>2. Documento(p) \in Edicoes \cup {Ausente}
    BY DocumentoTipo DEF Formas
  <2>3. CASE p \in Vivas
    <3> DEFINE x == [tarefas[t] EXCEPT !.fase = "enviar", !.doc = Documento(p)]
    <3>1. x \in Tarefa /\ x.doc = Documento(p) /\ x.tipo = "upsert" /\ x.pasta = p
      <4> HIDE <2>1
      <4> QED BY <1>1, <1>2, <1>3, <2>2 DEF Tarefa
    <3>2. tarefas'[t] = x
      BY <2>1, <2>3
    <3> HIDE DEF x
    <3> QED BY <2>3, <3>1, <3>2
  <2>4. CASE p \notin Vivas
    BY <2>1, <2>4
  <2> QED BY <2>3, <2>4
<1>6. tarefas'[t] # Livre => tarefas'[t].tipo = "upsert"
  BY <1>5
<1>7. RemovidasFicam'
  <2>1. \A q \in Reqs : RemocaoEscrita(q)' => RemocaoEscrita(q)
    BY <1>1 DEF RemocaoEscrita, Ativo
  <2> QED BY <1>1, <1>4, <1>6, <2>1 DEF IndiceInv, RemovidasFicam
<1>8. LoteTemPasta'
  BY <1>1, PorPasta DEF LoteTemPasta
<1>9. ASSUME NEW q \in Ids PROVE Conserva(q) /\ Esperam(q)
  <2>1. Documento(q)' = Documento(q) /\ ((q \in Vivas)' <=> q \in Vivas)
    BY <1>1 DEF Documento, Vivas
  <2>2. ASSUME NEW u \in 1 .. MaxPedidos, EmVoo(u, q)'
        PROVE  \/ tarefas'[u].doc = Documento(q)
               \/ EmVoo(u, q) /\ tarefas'[u].doc = tarefas[u].doc
    <3>1. CASE u = t
      BY <1>5, <2>2, <3>1 DEF EmVoo, DoIndice
    <3>2. CASE u # t
      BY <1>4, <2>2, <3>2 DEF EmVoo, DoIndice
    <3> QED BY <3>1, <3>2
  <2>3. Conserva(q)
    BY <1>1, <2>1, <2>2 DEF Conserva, NoLote
  <2>4. ASSUME NEW u \in 1 .. MaxPedidos, DoIndice(u, q),
               q \in Vivas \/ tarefas[u].tipo = "remocao"
        PROVE  DoIndice(u, q)' /\ tarefas'[u].tipo = tarefas[u].tipo
    <3>1. CASE u = t
      BY <1>2, <1>3, <1>5, <2>4, <3>1, NaoSaoLivres DEF DoIndice
    <3>2. CASE u # t
      BY <1>4, <2>4, <3>2 DEF DoIndice
    <3> QED BY <3>1, <3>2
  <2>5. Esperam(q)
    BY <1>1, <2>1, <2>4 DEF Esperam, Escreveu, RemocaoEscrita, Ativo
  <2> QED BY <2>3, <2>5
<1> QED BY <1>7, <1>8, <1>9, PorPasta, DePasta, CertoFica

LEMMA IndiceDeEnviarOuPerder ==
  ASSUME Formas, Formas', IndiceInv, NEW t \in 1 .. MaxPedidos, Enviar(t) \/ Perder(t)
  PROVE  IndiceInv'
<1>1. /\ tarefas[t] # Livre /\ tarefas[t] \in Tarefa /\ UNCHANGED << pastas, pedidos >>
  BY DEF Enviar, Perder, linhas, Formas, TiposBusca
<1>2. PICK p \in Ids : p = tarefas[t].pasta
  BY <1>1 DEF Tarefa
<1>3. Sai(t, p) /\ reindexacao' = ReindexacaoAtrasada(p)
  BY <1>2 DEF Enviar, Perder, Sai
<1>4. tarefas'[t] = Livre /\ SoAtrasa(p, t)
  BY <1>3, SemTarefa
<1>5. SoAtrasaLote(p)
  BY <1>3, LoteAtrasa
<1>6. LoteTemPasta'
  BY <1>5, PorPasta DEF LoteTemPasta, SoAtrasaLote
<1>7. ~NoLote(p)' /\ \A q \in Ids : NoLote(q)' => NoLote(q) /\ reindexacao'.doc = reindexacao.doc
  BY <1>5 DEF NoLote, SoAtrasaLote
<1>8. /\ \A q \in Ids \ {p} : indice'[q] = indice[q]
      /\ \A q \in Ids \ {p} : q \in historia.desviadas => q \in historia'.desviadas
  BY <1>2 DEF Enviar, Perder, Desviar, Formas, TiposBusca, TiposContas
<1>9. IndiceCerto(p)'
  <2>1. CASE Perder(t)
    <3>1. p \in historia'.desviadas
      BY <1>2, <2>1 DEF Perder, Desviar, Formas, TiposContas
    <3> QED BY <3>1 DEF IndiceCerto
  <2>2. CASE Enviar(t)
    <3>1. indice'[p] = tarefas[t].doc /\ tarefas[t].fase = "enviar"
      BY <1>2, <2>2 DEF Enviar, Formas, TiposBusca
    <3>2. Documento(p)' = Documento(p) /\ ((p \in Vivas)' <=> p \in Vivas)
      BY <1>1 DEF Documento, Vivas
    <3>3. CASE tarefas[t].tipo = "remocao"
      <4>1. tarefas[t].doc = Ausente /\ pastas[p] = Removida
        BY <1>1, <1>2, <3>3 DEF IndiceInv, RemovidasFicam
      <4>2. Documento(p) = Ausente
        BY <4>1 DEF Documento, Vivas
      <4> QED BY <3>1, <3>2, <4>1, <4>2 DEF IndiceCerto
    <3>4. CASE tarefas[t].tipo = "upsert" /\ ~EmDia(tarefas[t])
      <4>1. tarefas[t].so = FALSE
        BY <1>1, <3>4 DEF Tarefa, EmDia
      <4>2. historia' = [historia EXCEPT !.desviadas = @ \cup {p}]
        BY <1>2, <2>2, <3>4, <4>1 DEF Enviar, Desviar
      <4>3. p \in historia'.desviadas
        BY <4>2 DEF Formas, TiposContas
      <4> QED BY <4>3 DEF IndiceCerto
    <3>5. CASE tarefas[t].tipo = "upsert" /\ EmDia(tarefas[t])
      <4>1. EmVoo(t, p)
        BY <1>1, <1>2, <3>1, <3>5 DEF EmVoo, DoIndice
      <4>2. tarefas[t].doc = Documento(p) \/ PorVir(p, t)
        BY <4>1, PorPasta DEF TudoCerto, TarefaCerta
      <4>3. CASE tarefas[t].doc = Documento(p)
        BY <3>1, <3>2, <4>3 DEF IndiceCerto
      <4>4. CASE PorVir(p, t)
        <5>1. \A u \in 1 .. MaxPedidos : u # t /\ DoIndice(u, p) =>
                 u # 0 /\ DoIndice(u, p)' /\ tarefas'[u].tipo = tarefas[u].tipo
          BY <1>4 DEF DoIndice, SoAtrasa, MesmaTarefa
        <5>2. \A s \in Reqs : /\ Escreveu(s, p)' <=> Escreveu(s, p)
                              /\ RemocaoEscrita(s)' <=> RemocaoEscrita(s)
                              /\ pedidos'[s] = pedidos[s]
          BY <1>1 DEF Escreveu, RemocaoEscrita, Ativo
        <5>3. PorVir(p, 0)'
          <6>1. CASE p \in Vivas
            BY <3>2, <4>4, <5>1, <5>2, <6>1 DEF PorVir
          <6>2. CASE p \notin Vivas
            <7>1. \/ \E s \in Reqs : RemocaoEscrita(s) /\ pedidos[s].pasta = p
                  \/ \E u \in 1 .. MaxPedidos : DoIndice(u, p) /\ tarefas[u].tipo = "remocao"
              BY <4>4, <6>2 DEF PorVir
            <7>2. \/ \E s \in Reqs : RemocaoEscrita(s)' /\ pedidos'[s].pasta = p
                  \/ \E u \in 1 .. MaxPedidos : DoIndice(u, p)' /\ tarefas'[u].tipo = "remocao"
              BY <3>5, <5>1, <5>2, <7>1
            <7>3. (p \notin Vivas)'
              BY <3>2, <6>2
            <7> QED BY <7>2, <7>3 DEF PorVir
          <6> QED BY <6>1, <6>2
        <5> QED BY <5>3 DEF IndiceCerto
      <4> QED BY <4>2, <4>3, <4>4
    <3> QED BY <1>1, <3>3, <3>4, <3>5 DEF Tarefa
  <2> QED BY <2>1, <2>2
<1>10. \A s \in Reqs : (Ativo(s)' <=> Ativo(s)) /\ pedidos'[s] = pedidos[s]
  BY <1>1 DEF Ativo
<1>11. t \in 0 .. MaxPedidos /\ DoIndice(t, p)
  BY <1>1, <1>2 DEF DoIndice
<1> QED BY <1>1, <1>4, <1>6, <1>7, <1>8, <1>9, <1>10, <1>11, IndiceDeAtrasar

-----------------------------------------------------------------------------
(* The index: rebuilding it. *)

LEMMA EfeitoDoLote ==
  ASSUME Formas, Lote
  PROVE  /\ reindexacao \in Reindexacao /\ reindexacao.fase = "lote" /\ reindexacao # Livre
         /\ UNCHANGED << linhas, pedidos, tarefas, indice, contagem, historia >>
         /\ \/ /\ reindexacao' = Livre
               /\ \/ reindexacao.lote >= reindexacao.total
                  \/ reindexacao.lote >= Cardinality(Vivas)
            \/ \E p \in Vivas :
                  /\ Lugar(p) = reindexacao.lote
                  /\ reindexacao' \in Reindexacao /\ reindexacao'.fase = "montar"
                  /\ reindexacao'.pasta = p /\ reindexacao'.lote = reindexacao.lote
                  /\ reindexacao'.total = reindexacao.total
                  /\ reindexacao'.faltam = reindexacao.faltam
                  /\ reindexacao'.limpa = reindexacao.limpa
<1> DEFINE e == CHOOSE p \in Vivas : Cardinality({ q \in Vivas : q < p }) = reindexacao.lote
           x == [reindexacao EXCEPT !.fase = "montar", !.pasta = e]
           acabou == \/ reindexacao.lote >= reindexacao.total
                     \/ reindexacao.lote >= Cardinality(Vivas)
<1>1. /\ reindexacao # Livre /\ reindexacao.fase = "lote"
      /\ UNCHANGED << linhas, pedidos, tarefas, indice, contagem, historia >>
      /\ reindexacao' = IF acabou THEN Livre ELSE x
  BY DEF Lote
<1>2. reindexacao \in Reindexacao /\ reindexacao.lote \in Nat /\ reindexacao.total \in Nat
  BY <1>1 DEF Formas, TiposBusca, Reindexacao
<1>3. ASSUME ~acabou
      PROVE  e \in Vivas /\ Lugar(e) = reindexacao.lote
  <2>1. reindexacao.lote < Cardinality(Vivas)
    BY <1>2, <1>3, VivasFinitas
  <2>2. \E p \in Vivas : Cardinality({ q \in Vivas : q < p }) = reindexacao.lote
    BY <1>2, <2>1, LugarOcupado DEF Lugar, Antes
  <2> QED BY <2>2 DEF Lugar, Antes
<1> HIDE DEF e
<1>4. ASSUME ~acabou
      PROVE  /\ x \in Reindexacao /\ x.fase = "montar" /\ x.pasta = e
             /\ x.lote = reindexacao.lote /\ x.total = reindexacao.total
             /\ x.faltam = reindexacao.faltam /\ x.limpa = reindexacao.limpa
  <2>1. e \in Ids
    BY <1>3, <1>4, VivasFinitas
  <2> QED BY <1>2, <2>1 DEF Reindexacao
<1> HIDE DEF x
<1> QED BY <1>1, <1>2, <1>3, <1>4

LEMMA EfeitoDeMontarLote ==
  ASSUME Formas, MontarLote
  PROVE  /\ reindexacao \in Reindexacao /\ reindexacao.fase = "montar"
         /\ reindexacao # Livre
         /\ UNCHANGED << linhas, pedidos, tarefas, indice, contagem, historia >>
         /\ \/ /\ reindexacao.pasta \in Vivas
               /\ reindexacao' \in Reindexacao /\ reindexacao'.fase = "enviar"
               /\ reindexacao'.pasta = reindexacao.pasta
               /\ reindexacao'.doc = Documento(reindexacao.pasta)
               /\ reindexacao'.lote = reindexacao.lote
               /\ reindexacao'.total = reindexacao.total
               /\ reindexacao'.faltam = reindexacao.faltam
               /\ reindexacao'.limpa = reindexacao.limpa
            \/ reindexacao.pasta \notin Vivas /\ reindexacao' = Seguinte(reindexacao)
<1> DEFINE x == [reindexacao EXCEPT !.fase = "enviar",
                    !.doc = Documento(reindexacao.pasta), !.so = TRUE]
<1>1. /\ reindexacao # Livre /\ reindexacao.fase = "montar"
      /\ UNCHANGED << linhas, pedidos, tarefas, indice, contagem, historia >>
      /\ reindexacao' = IF reindexacao.pasta \in Vivas THEN x ELSE Seguinte(reindexacao)
  BY DEF MontarLote
<1>2. reindexacao \in Reindexacao
  BY <1>1 DEF Formas, TiposBusca
<1>3. ASSUME reindexacao.pasta \in Vivas
      PROVE  /\ x \in Reindexacao /\ x.fase = "enviar" /\ x.pasta = reindexacao.pasta
             /\ x.doc = Documento(reindexacao.pasta)
             /\ x.lote = reindexacao.lote /\ x.total = reindexacao.total
             /\ x.faltam = reindexacao.faltam /\ x.limpa = reindexacao.limpa
  <2>1. Documento(reindexacao.pasta) \in Edicoes \cup {Ausente}
    BY <1>3, VivasFinitas, DocumentoTipo DEF Formas
  <2> QED BY <1>2, <2>1 DEF Reindexacao
<1> HIDE DEF x
<1> QED BY <1>1, <1>2, <1>3

LEMMA EfeitoDeEnviarLote ==
  ASSUME Formas, EnviarLote
  PROVE  /\ reindexacao \in Reindexacao /\ reindexacao.fase = "enviar"
         /\ reindexacao # Livre
         /\ UNCHANGED << linhas, pedidos, contagem >>
         /\ indice' = [indice EXCEPT ![reindexacao.pasta] = reindexacao.doc]
         /\ SoAtrasa(reindexacao.pasta, 0)
         /\ Desviar(reindexacao.pasta, ~reindexacao.so)
         /\ reindexacao' \in Reindexacao /\ reindexacao'.fase = "lote"
         /\ reindexacao'.pasta = Ausente /\ reindexacao'.lote = reindexacao.lote + 1
         /\ reindexacao'.total = reindexacao.total
         /\ reindexacao'.faltam = reindexacao.faltam \ {reindexacao.pasta}
         /\ reindexacao'.limpa = reindexacao.limpa
<1> DEFINE s == Seguinte(reindexacao)
           x == [s EXCEPT !.faltam = @ \ {reindexacao.pasta}]
<1>1. /\ reindexacao # Livre /\ reindexacao.fase = "enviar"
      /\ UNCHANGED << linhas, pedidos, contagem >>
      /\ indice' = [indice EXCEPT ![reindexacao.pasta] = reindexacao.doc]
      /\ tarefas' = Atrasadas(reindexacao.pasta, tarefas)
      /\ Desviar(reindexacao.pasta, ~reindexacao.so)
      /\ reindexacao' = x
  BY DEF EnviarLote
<1>2. reindexacao \in Reindexacao
  BY <1>1 DEF Formas, TiposBusca
<1>3. SoAtrasa(reindexacao.pasta, 0)
  BY <1>1, TodasAtrasam
<1>4. /\ s \in Reindexacao /\ s.fase = "lote" /\ s.lote = reindexacao.lote + 1
      /\ s.total = reindexacao.total /\ s.pasta = Ausente
      /\ s.faltam = reindexacao.faltam /\ s.limpa = reindexacao.limpa
  BY <1>2, SeguinteTipo
<1> HIDE DEF s
<1>5. /\ x \in Reindexacao /\ x.fase = "lote" /\ x.lote = s.lote
      /\ x.total = s.total /\ x.pasta = Ausente
      /\ x.faltam = s.faltam \ {reindexacao.pasta} /\ x.limpa = s.limpa
  BY <1>4 DEF Reindexacao
<1> HIDE DEF x
<1> QED BY <1>1, <1>2, <1>3, <1>4, <1>5

LEMMA EfeitoDePerderLote ==
  ASSUME Formas, PerderLote
  PROVE  /\ reindexacao # Livre
         /\ UNCHANGED << linhas, pedidos, tarefas, indice, historia >>
         /\ reindexacao' \in Reindexacao /\ reindexacao'.fase = "lote"
         /\ reindexacao'.pasta = Ausente /\ reindexacao'.limpa = FALSE
         /\ contagem'.reinicios = contagem.reinicios
<1> DEFINE s == Seguinte(reindexacao)
           x == [s EXCEPT !.limpa = FALSE]
<1>1. /\ reindexacao # Livre
      /\ UNCHANGED << linhas, pedidos, tarefas, indice, historia >>
      /\ reindexacao' = x
  BY DEF PerderLote
<1>2. contagem'.reinicios = contagem.reinicios
  BY DEF PerderLote, Formas, TiposContas
<1>3. s \in Reindexacao /\ s.fase = "lote" /\ s.pasta = Ausente
  BY <1>1, SeguinteTipo DEF Formas, TiposBusca
<1> HIDE DEF s
<1>4. x \in Reindexacao /\ x.fase = "lote" /\ x.pasta = Ausente /\ x.limpa = FALSE
  BY <1>3 DEF Reindexacao
<1> HIDE DEF x
<1> QED BY <1>1, <1>2, <1>4

\* Only the batch changes, and what it shows was read in this step.
LEMMA IndiceDeLotes ==
  ASSUME Formas, Formas', IndiceInv, LoteTemPasta',
         UNCHANGED << pastas, pedidos, tarefas, indice, historia >>,
         \A p \in Ids : NoLote(p)' => reindexacao'.doc = Documento(p)
  PROVE  IndiceInv'
<1>1. \A p \in Ids : Conserva(p) /\ Esperam(p)
  BY DEF Conserva, Esperam, Documento, Vivas, EmVoo, DoIndice, Escreveu, RemocaoEscrita,
         Ativo
<1>2. RemovidasFicam'
  BY DEF IndiceInv, RemovidasFicam, RemocaoEscrita, Ativo
<1> QED BY <1>1, <1>2, PorPasta, DePasta, CertoFica

LEMMA IndiceDeReindexar ==
  ASSUME Formas, Formas', IndiceInv,
         Reindexar \/ ReindexarSemConta \/ Lote \/ MontarLote \/ PerderLote
  PROVE  IndiceInv'
<1>1. CASE Reindexar \/ ReindexarSemConta
  <2>1. reindexacao'.fase = "lote" /\ UNCHANGED << linhas, pedidos, tarefas, indice, historia >>
    BY <1>1 DEF Reindexar, ReindexarSemConta, Contadas
  <2> QED BY <2>1, IndiceDeLotes DEF linhas, LoteTemPasta, NoLote
<1>2. CASE Lote
  <2>1. /\ UNCHANGED << linhas, pedidos, tarefas, indice, historia >>
        /\ \/ reindexacao' = Livre
           \/ reindexacao'.fase = "montar" /\ reindexacao'.pasta \in Ids
    BY <1>2, EfeitoDoLote, VivasFinitas
  <2>2. Livre' = Livre
    BY DEF Livre
  <2> QED BY <2>1, <2>2, IndiceDeLotes DEF linhas, LoteTemPasta, NoLote
<1>3. CASE MontarLote
  <2>1. UNCHANGED << linhas, pedidos, tarefas, indice, historia >>
    BY <1>3, EfeitoDeMontarLote
  <2>2. CASE reindexacao.pasta \in Vivas
    <3>1. /\ reindexacao'.pasta \in Ids /\ reindexacao'.doc = Documento(reindexacao.pasta)
          /\ reindexacao'.pasta = reindexacao.pasta
      BY <1>3, <2>2, EfeitoDeMontarLote, VivasFinitas
    <3>2. \A p \in Ids : NoLote(p)' => reindexacao'.doc = Documento(p)
      BY <3>1 DEF NoLote
    <3> QED BY <2>1, <3>1, <3>2, IndiceDeLotes DEF linhas, LoteTemPasta
  <2>3. CASE reindexacao.pasta \notin Vivas
    <3>1. reindexacao' = Seguinte(reindexacao) /\ reindexacao \in Reindexacao
      BY <1>3, <2>3, EfeitoDeMontarLote
    <3>2. reindexacao'.fase = "lote"
      BY <3>1, SeguinteTipo
    <3> QED BY <2>1, <3>2, IndiceDeLotes DEF linhas, LoteTemPasta, NoLote
  <2> QED BY <2>2, <2>3
<1>4. CASE PerderLote
  <2>1. reindexacao'.fase = "lote" /\ UNCHANGED << linhas, pedidos, tarefas, indice, historia >>
    BY <1>4, EfeitoDePerderLote
  <2> QED BY <2>1, IndiceDeLotes DEF linhas, LoteTemPasta, NoLote
<1> QED BY <1>1, <1>2, <1>3, <1>4

LEMMA IndiceDeEnviarLote ==
  ASSUME Formas, Formas', IndiceInv, EnviarLote
  PROVE  IndiceInv'
<1>1. /\ reindexacao \in Reindexacao /\ reindexacao.fase = "enviar" /\ reindexacao # Livre
      /\ UNCHANGED << pastas, pedidos >> /\ reindexacao'.fase = "lote"
  BY EfeitoDeEnviarLote DEF linhas
<1>2. PICK p \in Ids : p = reindexacao.pasta
  BY <1>1, PorPasta DEF LoteTemPasta
<1>3. /\ indice' = [indice EXCEPT ![p] = reindexacao.doc] /\ SoAtrasa(p, 0)
      /\ Desviar(p, ~reindexacao.so)
  BY <1>2, EfeitoDeEnviarLote
<1>4. /\ indice'[p] = reindexacao.doc /\ \A q \in Ids \ {p} : indice'[q] = indice[q]
  BY <1>3 DEF Formas, TiposBusca
<1>5. /\ \A q \in Ids \ {p} : q \in historia.desviadas => q \in historia'.desviadas
      /\ ~EmDia(reindexacao) => p \in historia'.desviadas
  BY <1>1, <1>3 DEF Desviar, Formas, TiposContas, Reindexacao, EmDia
<1>6. LoteTemPasta' /\ \A q \in Ids : ~NoLote(q)'
  BY <1>1 DEF LoteTemPasta, NoLote
<1>7. Documento(p)' = Documento(p) /\ ((p \in Vivas)' <=> p \in Vivas)
  BY <1>1 DEF Documento, Vivas
<1>8. Esperam(p)
  <2>1. \A t \in 1 .. MaxPedidos :
           DoIndice(t, p) => DoIndice(t, p)' /\ tarefas'[t].tipo = tarefas[t].tipo
    BY <1>3 DEF DoIndice, SoAtrasa, MesmaTarefa
  <2> QED BY <1>1, <1>7, <2>1 DEF Esperam, Escreveu, RemocaoEscrita, Ativo
<1>9. IndiceCerto(p)'
  <2>1. CASE EmDia(reindexacao)
    <3>1. NoLote(p)
      BY <1>1, <1>2, <2>1 DEF NoLote
    <3>2. reindexacao.doc = Documento(p) \/ PorVir(p, 0)
      BY <3>1, PorPasta DEF TudoCerto, LoteCerto
    <3> QED BY <1>4, <1>7, <1>8, <3>2, PorVirFica DEF IndiceCerto
  <2>2. CASE ~EmDia(reindexacao)
    BY <1>5, <2>2 DEF IndiceCerto
  <2> QED BY <2>1, <2>2
<1>10. \A s \in Reqs : (Ativo(s)' <=> Ativo(s)) /\ pedidos'[s] = pedidos[s]
  BY <1>1 DEF Ativo
<1>11. 0 \in 0 .. MaxPedidos
  BY LimitesAssumption
<1> QED BY <1>1, <1>3, <1>4, <1>5, <1>6, <1>9, <1>10, <1>11, IndiceDeAtrasar

LEMMA IndiceDeReiniciar ==
  ASSUME Formas, Formas', IndiceInv, Reiniciar
  PROVE  IndiceInv'
<1>1. /\ \A r \in Reqs : ~Ativo(r)'
      /\ \A t \in 1 .. MaxPedidos : tarefas'[t] = Livre
      /\ reindexacao' = Livre /\ UNCHANGED << pastas, arquivos, indice >>
      /\ historia.desviadas \subseteq historia'.desviadas
      /\ \A q \in Reqs : /\ Ativo(q) /\ pedidos[q].fase \in {"reler", "publicar"}
                         => pedidos[q].pasta \in historia'.desviadas
      /\ \A t \in 1 .. MaxPedidos :
            tarefas[t] # Livre => tarefas[t].pasta \in historia'.desviadas
  BY EfeitoDeReiniciar
<1>2. Livre' = Livre
  BY DEF Livre
<1>3. RemovidasFicam' /\ LoteTemPasta'
  BY <1>1, <1>2 DEF RemovidasFicam, LoteTemPasta, RemocaoEscrita
<1>4. ASSUME NEW p \in Ids PROVE TudoCerto(p)'
  <2>1. PorVir(p, 0) => p \in historia'.desviadas
    BY <1>1 DEF PorVir, Escreveu, RemocaoEscrita, DoIndice
  <2>2. Documento(p)' = Documento(p) /\ indice'[p] = indice[p]
    BY <1>1 DEF Documento, Vivas
  <2>3. IndiceCerto(p)'
    BY <1>1, <2>1, <2>2, PorPasta DEF TudoCerto, IndiceCerto
  <2> QED BY <1>1, <1>2, <2>3 DEF TudoCerto, LoteCerto, TarefaCerta, NoLote, EmVoo, DoIndice
<1> QED BY <1>3, <1>4, DePasta

LEMMA IndiceDoPasso ==
  ASSUME Formas, Formas', Cabem, ArquivosInv, IndiceInv, NextPastas
  PROVE  IndiceInv'
<1>1. CASE \E r \in Reqs : Chegar(r)
  BY <1>1, IndiceDeSeguir
<1>2. CASE \E r \in Reqs : Continuar(r)
  <2>1. PICK r \in Reqs : Continuar(r)
    BY <1>2
  <2>2. CASE \/ Guardar(r) \/ Reler(r) \/ LerArquivos(r) \/ ApagarObjetos(r)
             \/ ApagarLinhas(r)
    BY <2>2, IndiceDeSeguir
  <2> QED BY <2>1, <2>2, IndiceDeGravar, IndiceDeApagar, IndiceDePublicar DEF Continuar
<1>3. CASE \E r \in Reqs : Falhar(r)
  BY <1>3, IndiceDeFalhar
<1>4. CASE \E t \in DOMAIN tarefas : Montar(t) \/ Enviar(t) \/ Perder(t)
  <2>1. DOMAIN tarefas = 1 .. MaxPedidos
    BY DEF Formas, TiposBusca
  <2> QED BY <1>4, <2>1, IndiceDeMontar, IndiceDeEnviarOuPerder
<1>5. CASE \/ Reindexar \/ ReindexarSemConta \/ Lote \/ MontarLote
           \/ EnviarLote \/ PerderLote
  BY <1>5, IndiceDeReindexar, IndiceDeEnviarLote
<1>6. CASE Reiniciar
  BY <1>6, IndiceDeReiniciar
<1> QED BY <1>1, <1>2, <1>3, <1>4, <1>5, <1>6 DEF NextPastas

LoteIgual ==
    /\ (reindexacao = Livre)' <=> reindexacao = Livre
    /\ reindexacao # Livre =>
          /\ reindexacao'.fase = reindexacao.fase /\ reindexacao'.pasta = reindexacao.pasta
          /\ reindexacao'.lote = reindexacao.lote /\ reindexacao'.total = reindexacao.total
          /\ reindexacao'.faltam = reindexacao.faltam
          /\ reindexacao'.limpa = reindexacao.limpa
LoteMudado == MesmoLote /\ ((reindexacao # Livre)' => reindexacao'.limpa = FALSE)

\* Whatever a request or an update does, the batches go on, or know of the change.
LEMMA LotesDosOutros ==
  ASSUME Formas, Cabem, NextPastas
  PROVE  \/ (Vivas' = Vivas /\ LoteIgual)
         \/ LoteMudado
         \/ Reindexar \/ ReindexarSemConta
         \/ Lote \/ MontarLote \/ EnviarLote \/ PerderLote \/ Reiniciar
<1>0. TiposLinhas /\ pastas \in [Ids -> Edicoes \cup {Ausente, Removida}]
  BY DEF Formas, TiposLinhas
<1>1. ASSUME UNCHANGED << pastas, reindexacao >>
      PROVE  Vivas' = Vivas /\ LoteIgual
  BY <1>1 DEF Vivas, LoteIgual
<1>2. ASSUME pastas' = pastas, NEW p, reindexacao' = ReindexacaoAtrasada(p)
      PROVE  Vivas' = Vivas /\ LoteIgual
  <2>1. Vivas' = Vivas
    BY <1>2 DEF Vivas
  <2>2. SoAtrasaLote(p)
    BY <1>2, LoteAtrasa
  <2> QED BY <2>1, <2>2 DEF LoteIgual, SoAtrasaLote
<1>3. ASSUME NEW p, MudamAsPastas(p)
      PROVE  LoteMudado
  BY <1>3, MudancaLote DEF LoteMudado, Formas
<1>4. ASSUME NEW r \in Reqs, Chegar(r)
      PROVE  Vivas' = Vivas /\ LoteIgual
  BY <1>1, <1>4, Chegada DEF linhas, busca
<1>5. ASSUME NEW r \in Reqs, Continuar(r)
      PROVE  (Vivas' = Vivas /\ LoteIgual) \/ LoteMudado
  <2>1. CASE \/ Guardar(r) \/ Reler(r) \/ LerArquivos(r) \/ ApagarObjetos(r)
             \/ ApagarLinhas(r)
    <3>1. UNCHANGED << pastas, reindexacao >>
      BY <2>1 DEF Guardar, Reler, LerArquivos, ApagarObjetos, ApagarLinhas, linhas, busca
    <3> QED BY <1>1, <3>1
  <2>2. CASE Publicar(r)
    <3>1. UNCHANGED << pastas, reindexacao >>
      BY <2>2, Publicada DEF linhas
    <3> QED BY <1>1, <3>1
  <2>3. CASE Gravar(r)
    <3>1. CASE pedidos[r].tipo = "criar"
      BY <1>3, <2>3, <3>1 DEF Gravar
    <3>2. CASE pedidos[r].tipo # "criar"
      <4>1. reindexacao' = reindexacao
        BY <2>3, <3>2 DEF Gravar
      <4>2. CASE pastas' = pastas
        BY <1>1, <4>1, <4>2
      <4>3. CASE /\ pedidos[r].pasta \in Vivas
                 /\ pastas' = [pastas EXCEPT ![pedidos[r].pasta] = @ + 1]
        <5>1. PICK p \in Ids : p = pedidos[r].pasta
          BY <4>3, VivasFinitas
        <5>2. pastas[p] + 1 \in Nat
          <6>1. pastas[p] \in Nat
            BY <4>3, <5>1, NumerosDosTipos
          <6> QED BY <6>1
        <5>3. pastas'[p] \in Nat /\ \A q \in Ids \ {p} : pastas'[q] = pastas[q]
          BY <1>0, <4>3, <5>1, <5>2
        <5>4. pastas'[p] \notin {Ausente, Removida}
          BY <5>3, SentinelasDePastas
        <5>5. Vivas' = Vivas
          BY <4>3, <5>1, <5>3, <5>4 DEF Vivas
        <5> QED BY <4>1, <5>5 DEF LoteIgual
      <4> QED BY <2>3, <3>2, <4>2, <4>3 DEF Gravar
    <3> QED BY <3>1, <3>2
  <2>4. CASE Apagar(r)
    <3>1. CASE pedidos[r].pasta \in Vivas
      BY <1>3, <2>4, <3>1 DEF Apagar
    <3>2. CASE pedidos[r].pasta \notin Vivas
      <4>1. pastas' = [pastas EXCEPT ![pedidos[r].pasta] = Removida]
            /\ reindexacao' = reindexacao
        BY <2>4, <3>2 DEF Apagar
      <4>2. Vivas' = Vivas
        BY <1>0, <3>2, <4>1 DEF Vivas
      <4> QED BY <4>1, <4>2 DEF LoteIgual
    <3> QED BY <3>1, <3>2
  <2> QED BY <1>5, <2>1, <2>2, <2>3, <2>4 DEF Continuar
<1>6. ASSUME NEW r \in Reqs, Falhar(r)
      PROVE  Vivas' = Vivas /\ LoteIgual
  BY <1>1, <1>2, <1>6, EfeitoDeFalhar
<1>7. ASSUME NEW t \in DOMAIN tarefas, Montar(t) \/ Enviar(t) \/ Perder(t)
      PROVE  Vivas' = Vivas /\ LoteIgual
  <2>1. pastas' = pastas
    BY <1>7 DEF Montar, Enviar, Perder, linhas
  <2>2. \/ reindexacao' = reindexacao
        \/ reindexacao' = ReindexacaoAtrasada(tarefas[t].pasta)
    BY <1>7 DEF Montar, Enviar, Perder
  <2> QED BY <1>1, <1>2, <2>1, <2>2
<1> QED BY <1>4, <1>5, <1>6, <1>7 DEF NextPastas

LEMMA InitLotes == InitPastas => LotesEmOrdem
BY DEF InitPastas, LotesEmOrdem

LEMMA LotesDoPasso ==
  ASSUME Formas, Formas', Cabem, LotesEmOrdem, NextPastas
  PROVE  LotesEmOrdem'
<1>0. Livre' = Livre
  BY DEF Livre
<1>1. CASE Vivas' = Vivas /\ LoteIgual
  BY <1>0, <1>1 DEF LotesEmOrdem, LoteIgual, Lugar, Antes
<1>2. CASE LoteMudado
  BY <1>0, <1>2 DEF LotesEmOrdem, LoteMudado, MesmoLote
<1>3. CASE Reindexar
  <2>1. /\ reindexacao'.fase = "lote" /\ reindexacao'.lote = 0 /\ reindexacao'.pasta = Ausente
        /\ reindexacao'.total = Cardinality(Vivas) /\ reindexacao'.faltam = Vivas
        /\ pastas' = pastas
    BY <1>3 DEF Reindexar, Contadas, linhas
  <2>2. Vivas' = Vivas
    BY <2>1 DEF Vivas
  <2>3. Vivas = { p \in Vivas : Lugar(p) >= 0 }
    BY Lugares
  <2> QED BY <2>1, <2>2, <2>3 DEF LotesEmOrdem, Lugar, Antes
<1>4. CASE Lote
  <2>1. Vivas' = Vivas
    BY <1>4, EfeitoDoLote DEF linhas, Vivas
  <2>2. \A p \in Vivas : p # Ausente
    BY Sentinelas
  <2> QED BY <1>0, <1>4, <2>1, <2>2, EfeitoDoLote DEF LotesEmOrdem, Lugar, Antes
<1>5. CASE MontarLote
  <2>1. Vivas' = Vivas
    BY <1>5, EfeitoDeMontarLote DEF linhas, Vivas
  <2>2. CASE reindexacao.pasta \in Vivas
    BY <1>0, <1>5, <2>1, <2>2, EfeitoDeMontarLote DEF LotesEmOrdem, Lugar, Antes
  <2>3. CASE reindexacao.pasta \notin Vivas
    <3>1. /\ reindexacao.fase = "montar" /\ reindexacao # Livre
          /\ reindexacao' = Seguinte(reindexacao) /\ reindexacao \in Reindexacao
      BY <1>5, <2>3, EfeitoDeMontarLote
    <3>2. reindexacao.limpa # TRUE
      BY <2>3, <3>1 DEF LotesEmOrdem
    <3>3. /\ reindexacao'.fase = "lote" /\ reindexacao'.pasta = Ausente
          /\ reindexacao'.limpa # TRUE
      BY <3>1, <3>2, SeguinteTipo
    <3> QED BY <3>3 DEF LotesEmOrdem
  <2> QED BY <2>2, <2>3
<1>6. CASE EnviarLote
  <2>1. Vivas' = Vivas
    BY <1>6, EfeitoDeEnviarLote DEF linhas, Vivas
  <2>2. /\ reindexacao \in Reindexacao /\ reindexacao.fase = "enviar" /\ reindexacao # Livre
        /\ reindexacao'.fase = "lote" /\ reindexacao'.pasta = Ausente
        /\ reindexacao'.lote = reindexacao.lote + 1
        /\ reindexacao'.total = reindexacao.total
        /\ reindexacao'.faltam = reindexacao.faltam \ {reindexacao.pasta}
        /\ reindexacao'.limpa = reindexacao.limpa
    BY <1>6, EfeitoDeEnviarLote
  <2>3. ASSUME reindexacao.limpa = TRUE
        PROVE  /\ reindexacao'.total = Cardinality(Vivas)
               /\ reindexacao'.faltam = { p \in Vivas : Lugar(p) >= reindexacao'.lote }
    <3>1. /\ reindexacao.total = Cardinality(Vivas)
          /\ reindexacao.faltam = { p \in Vivas : Lugar(p) >= reindexacao.lote }
          /\ reindexacao.pasta \in Vivas /\ Lugar(reindexacao.pasta) = reindexacao.lote
      BY <2>2, <2>3 DEF LotesEmOrdem
    <3>2. ASSUME NEW p \in Vivas
          PROVE  (Lugar(p) >= reindexacao.lote /\ p # reindexacao.pasta)
                 <=> Lugar(p) >= reindexacao.lote + 1
      <4>1. Lugar(p) \in Nat /\ reindexacao.lote \in Nat
            /\ (Lugar(p) = Lugar(reindexacao.pasta) => p = reindexacao.pasta)
        BY <3>1, Lugares
      <4> QED BY <3>1, <4>1
    <3> QED BY <2>2, <3>1, <3>2
  <2> QED BY <2>1, <2>2, <2>3 DEF LotesEmOrdem, Lugar, Antes
<1>7. CASE PerderLote
  BY <1>7, EfeitoDePerderLote DEF LotesEmOrdem
<1>8. CASE Reiniciar
  BY <1>0, <1>8, EfeitoDeReiniciar DEF LotesEmOrdem
<1>9. CASE ReindexarSemConta
  <2>1. /\ reindexacao'.fase = "lote" /\ reindexacao'.pasta = Ausente
        /\ reindexacao'.limpa = (1 = 0)
    BY <1>9 DEF ReindexarSemConta, Contadas
  <2>2. ~(reindexacao'.limpa = TRUE)
    <3>1. (1 = 0) = FALSE
      OBVIOUS
    <3>2. reindexacao'.limpa = FALSE
      BY <2>1, <3>1, Zenon
    <3> QED BY <3>2
  <2> QED BY <2>1, <2>2 DEF LotesEmOrdem
<1> QED BY <1>1, <1>2, <1>3, <1>4, <1>5, <1>6, <1>7, <1>8, <1>9, LotesDosOutros

-----------------------------------------------------------------------------
(* What the runs check of the shelves. *)

LEMMA InitPastasInv == InitPastas => PastasInv
BY InitFormas, InitCabem, InitArquivos, InitIndice, InitLotes DEF PastasInv

LEMMA PassoPastasInv ==
  ASSUME PastasInv, NextPastas
  PROVE  PastasInv'
<1>1. /\ Formas /\ Cabem /\ ArquivosInv /\ IndiceInv /\ LotesEmOrdem
      /\ FasesCertas /\ CriacaoASos /\ LotePorVir
  BY DEF PastasInv, ArquivosInv, IndiceInv
<1>2. Formas'
  BY <1>1, FormasDoPasso
<1>3. Cabem'
  BY <1>1, CabemDoPasso
<1>4. ArquivosInv'
  BY <1>1, ArquivosDoPasso
<1>5. IndiceInv'
  BY <1>1, <1>2, IndiceDoPasso
<1>6. LotesEmOrdem'
  BY <1>1, <1>2, LotesDoPasso
<1> QED BY <1>2, <1>3, <1>4, <1>5, <1>6 DEF PastasInv

LEMMA PastasInvParada ==
  ASSUME PastasInv, UNCHANGED varsPastas
  PROVE  PastasInv'
<1>1. /\ UNCHANGED << pastas, arquivos, objetos, pedidos, tarefas, indice, reindexacao >>
      /\ UNCHANGED << contagem, historia >>
  BY DEF varsPastas, linhas, busca
<1>2. Formas'
  BY <1>1 DEF PastasInv, Formas, TiposLinhas, TiposPedidos, TiposBusca, TiposContas, Vivas
<1>3. Cabem'
  BY <1>1 DEF PastasInv, Cabem, Ativos, Ocupadas, Editando, Ativo, Vivas
<1>4. ArquivosInv'
  BY <1>1, ArquivosIguais DEF PastasInv, linhas
<1>5. IndiceInv'
  BY <1>1 DEF PastasInv, IndiceInv, RemovidasFicam, IndicePorVir, TarefasPorVir, LotePorVir,
              PorVir, Escreveu, RemocaoEscrita, DoIndice, Documento, Vivas, Ativo
<1>6. LotesEmOrdem'
  BY <1>1 DEF PastasInv, LotesEmOrdem, Lugar, Antes, Vivas
<1> QED BY <1>2, <1>3, <1>4, <1>5, <1>6 DEF PastasInv

\* The shelves, their files and the index stay coherent whatever the requests, the updates
\* of the index, the failures and the restarts do, however many there are.
THEOREM PastasSempreCoerentes == Spec => []PastasInv
<1>1. Init => PastasInv
  BY InitPastasInv DEF Init
<1>2. PastasInv /\ [Next]_varsArquivos => PastasInv'
  <2> SUFFICES ASSUME PastasInv, [Next]_varsArquivos PROVE PastasInv'
    OBVIOUS
  <2>1. CASE NextPastas
    BY <2>1, PassoPastasInv
  <2>2. CASE UNCHANGED varsPastas
    BY <2>2, PastasInvParada
  <2> QED BY <2>1, <2>2 DEF Next, varsArquivos
<1> QED BY <1>1, <1>2, PTL DEF Spec

\* The row of a file and its object come and go together (putObject and deleteObject of
\* PastasService), but for the files of a request under way or interrupted, for those put
\* on a shelf that is being removed, and for the objects whose deletion failed unseen.
THEOREM ArquivoEObjetoJuntos == Spec => []ArquivoEObjetoAndamJuntos
<1>1. PastasInv => ArquivoEObjetoAndamJuntos
  BY DEF PastasInv, ArquivosInv, SeparadosSoNoMeio, ArquivoEObjetoAndamJuntos, Ativo, Mexe,
         Alvos
<1> QED BY <1>1, PastasSempreCoerentes, PTL

\* When nothing is under way the index has what the table has of each shelf, but for those
\* whose updates crossed, failed or were lost (SearchService.syncPasta, removePasta and
\* reindexAllDocuments).
THEOREM IndiceSoErraDesviado == Spec => []IndiceSoErraPorDesvio
<1>1. PastasInv => IndiceSoErraPorDesvio
  <2> SUFFICES ASSUME PastasInv, \A r \in Reqs : pedidos[r] = Livre,
                      \A t \in DOMAIN tarefas : tarefas[t] = Livre,
                      NEW p \in Ids, indice[p] # Documento(p)
               PROVE  p \in historia.desviadas
    BY DEF IndiceSoErraPorDesvio
  <2>1. DOMAIN tarefas = 1 .. MaxPedidos
    BY DEF PastasInv, Formas, TiposBusca
  <2>2. ~PorVir(p, 0)
    BY <2>1 DEF PorVir, Escreveu, RemocaoEscrita, DoIndice, Ativo
  <2> QED BY <2>2 DEF PastasInv, IndiceInv, IndicePorVir
<1> QED BY <1>1, PastasSempreCoerentes, PTL

\* reindexAllDocuments, which takes the shelves by their place, passes over one that is
\* there all the time only if another comes or goes meanwhile, or the count or a batch
\* fails.
THEOREM NadaPuladoSemMudanca == Spec => PulaSoSeMudam
<1> DEFINE A == /\ reindexacao # Livre /\ reindexacao.fase = "lote" /\ reindexacao' = Livre
                /\ contagem'.reinicios = contagem.reinicios
                => reindexacao.faltam \cap Vivas = {} \/ ~reindexacao.limpa
<1>1. PastasInv /\ [Next]_varsArquivos => [A]_varsPastas
  <2> SUFFICES ASSUME PastasInv, NextPastas, reindexacao # Livre,
                      reindexacao.fase = "lote", reindexacao' = Livre,
                      contagem'.reinicios = contagem.reinicios, reindexacao.limpa
               PROVE  reindexacao.faltam \cap Vivas = {}
    BY DEF Next, varsArquivos
  <2>0. Formas /\ Cabem /\ LotesEmOrdem /\ Livre' = Livre /\ reindexacao \in Reindexacao
    BY DEF PastasInv, Formas, TiposBusca, Livre
  <2>1. CASE Lote
    <3>1. \/ reindexacao.lote >= reindexacao.total
          \/ reindexacao.lote >= Cardinality(Vivas)
      BY <2>0, <2>1, EfeitoDoLote, NaoSaoLivres
    <3>2. /\ reindexacao.total = Cardinality(Vivas)
          /\ reindexacao.faltam = { p \in Vivas : Lugar(p) >= reindexacao.lote }
      BY <2>0 DEF LotesEmOrdem, Reindexacao
    <3>3. reindexacao.lote \in Nat /\ reindexacao.lote >= Cardinality(Vivas)
      BY <2>0, <3>1, <3>2 DEF Reindexacao
    <3>4. \A p \in Vivas : ~(Lugar(p) >= reindexacao.lote)
      BY <3>3, Lugares, VivasFinitas
    <3> QED BY <3>2, <3>4
  <2>2. ~Reiniciar
    BY <2>0 DEF Reiniciar, Formas, TiposContas
  <2>3. ~Reindexar /\ ~ReindexarSemConta
    BY DEF Reindexar, ReindexarSemConta, Contadas
  <2>4. ~MontarLote /\ ~EnviarLote
    BY DEF MontarLote, EnviarLote
  <2>5. ~PerderLote
    BY <2>0, EfeitoDePerderLote, NaoSaoLivres
  <2>6. ~(Vivas' = Vivas /\ LoteIgual) /\ ~LoteMudado
    BY <2>0 DEF LoteIgual, LoteMudado, MesmoLote
  <2> QED BY <2>0, <2>1, <2>2, <2>3, <2>4, <2>5, <2>6, LotesDosOutros
<1> QED BY <1>1, PastasSempreCoerentes, PTL DEF Spec, PulaSoSeMudam

-----------------------------------------------------------------------------
(* Backups: the inductive invariant. *)

DeBackup == {"exportar", "copiar", "compactar", "arrumar"}
DeRestauracao ==
    {"extrair", "truncar", "derrubar", "carregar", "guardar", "esvaziar", "repor"}
DeLimpeza == {"listar", "remover"}

\* What each kind of operation does, step by step, and what it holds by then.
OperacaoCerta(p) ==
    /\ p.s = p.pedido
    /\ p.passo \in DeBackup <=> p.faz \in {"full", "desarquivamentos"}
    /\ p.passo \in DeRestauracao <=> p.faz = "restaurar"
    /\ p.faz = "restaurar" => p.alvo \in Nomes
    /\ p.passo = "truncar" /\ EhTar(p.alvo) => p.extraido # NaoHa
    /\ p.passo \in {"carregar", "guardar", "esvaziar", "repor"} => p.extraido # NaoHa

Correndo(o) == operacoes[o] # Parada

\* No two operations in progress have one number, which names their copy of uploads/.
NumerosDistintos ==
    \A o, q \in Operacoes :
       Correndo(o) /\ Correndo(q) /\ o # q => operacoes[o].numero # operacoes[q].numero
OperacoesCertas ==
    /\ \A o \in Operacoes : Correndo(o) => /\ OperacaoCerta(operacoes[o])
                                           /\ operacoes[o].numero <= chegadas
    /\ NumerosDistintos

\* Success is marked on what has the second of the operation in its name.
ProntosDoNome ==
    \A n \in Nomes :
       /\ Ha(n) /\ diretorio[n].pronto # 0
       => /\ diretorio[n].pronto = n[2]
          /\ n[1] \in {"full.sql", "full.tar.gz", "desarquivamentos.sql"}

\* What a restore is about to erase is in its copy, or came since, or the copy is gone.
TemCopia(p, f) ==
    \/ f \in p.novos
    \/ Guardados(p) \in limpas
    \/ Ha(Guardados(p)) /\ f \in diretorio[Guardados(p)].uploads
UploadsCopiados ==
    \A o \in Operacoes :
       /\ operacoes[o].passo \in {"esvaziar", "repor"} => uploads # SemUploads
       /\ operacoes[o].passo = "esvaziar" =>
             \A f \in Presentes(uploads) : TemCopia(operacoes[o], f)

CopiasInv == CopiasTypeOK /\ OperacoesCertas /\ ProntosDoNome /\ UploadsCopiados

-----------------------------------------------------------------------------
(* Backups: the names, and what becomes of an operation. *)

LEMMA TiposDeNomes ==
  /\ \A n \in Nomes : n # NaoHa
  /\ \A c \in Copia : c # NaoHa
  /\ 1 \in Segundos /\ Segundos \subseteq Nat /\ 0 \notin Segundos
  /\ Segundos \subseteq 0 .. MaxSegundo
  /\ \A s \in Segundos : << "full.sql", s >> \in Nomes /\ << "full.tar.gz", s >> \in Nomes
                         /\ << "desarquivamentos.sql", s >> \in Nomes
                         /\ << "temp", s >> \in Nomes
  /\ \A k \in 1 .. MaxOperacoes : << "uploads_old", k >> \in Nomes
BY LimitesDeCopias, SentinelasDeCopias DEF Nomes, Segundos

LEMMA ParadaForaDeOperacao == Parada \notin Operacao
BY DEF Parada, Operacao

\* A step is written in the operation that is to take it.
LEMMA Andando ==
  ASSUME CopiasTypeOK, NEW o \in Operacoes
  PROVE  /\ Correndo(o) => operacoes[o] \in Operacao
         /\ operacoes[o].passo \in DeBackup \cup DeRestauracao \cup DeLimpeza => Correndo(o)
BY DEF CopiasTypeOK, Correndo, Parada, DeBackup, DeRestauracao, DeLimpeza

LEMMA NomesDaOperacao ==
  ASSUME NEW p \in Operacao
  PROVE  /\ Sql(p) \in Nomes /\ Tar(p) \in Nomes /\ Temp(p) \in Nomes
         /\ Guardados(p) \in Nomes
         /\ Sql(p)[2] = p.s /\ Tar(p)[2] = p.s
         /\ Sql(p)[1] \in {"full.sql", "desarquivamentos.sql"}
         /\ Tar(p)[1] = "full.tar.gz" /\ Temp(p)[1] = "temp"
         /\ Guardados(p)[1] = "uploads_old"
BY TiposDeNomes DEF Operacao, Sql, Tar, Temp, Guardados

\* What an operation is after a step of its own.
Sucede(o, x) ==
    \/ x = Parada
    \/ /\ x \in Operacao /\ OperacaoCerta(x) /\ x.numero <= chegadas'
       /\ \/ Correndo(o) /\ x.numero = operacoes[o].numero
          \/ x.numero > chegadas

LEMMA OperacaoSucede ==
  ASSUME CopiasTypeOK, OperacoesCertas, chegadas' \in 0 .. MaxOperacoes,
         chegadas <= chegadas', NEW o \in Operacoes, NEW x, Sucede(o, x),
         operacoes' = [operacoes EXCEPT ![o] = x]
  PROVE  /\ operacoes' \in [Operacoes -> {Parada} \cup Operacao] /\ OperacoesCertas'
         /\ operacoes'[o] = x
         /\ \A q \in Operacoes \ {o} : operacoes'[q] = operacoes[q]
<1>1. /\ operacoes'[o] = x /\ \A q \in Operacoes \ {o} : operacoes'[q] = operacoes[q]
      /\ operacoes' \in [Operacoes -> {Parada} \cup Operacao]
  BY DEF CopiasTypeOK, Sucede
<1>2. chegadas \in Nat /\ chegadas' \in Nat
  BY LimitesDeCopias DEF CopiasTypeOK
<1>3. \A q \in Operacoes \ {o} :
         Correndo(q) => /\ OperacaoCerta(operacoes[q]) /\ operacoes[q].numero <= chegadas
                        /\ operacoes[q].numero \in Nat
  BY Andando, LimitesDeCopias DEF OperacoesCertas, Operacao
<1>4. \A q \in Operacoes \ {o} :
         Correndo(q)' => /\ OperacaoCerta(operacoes'[q]) /\ operacoes'[q].numero <= chegadas'
                         /\ Correndo(q)
  BY <1>1, <1>2, <1>3 DEF Correndo
<1>5. x # Parada => /\ OperacaoCerta(x) /\ x.numero <= chegadas'
                    /\ \A q \in Operacoes \ {o} : Correndo(q) => operacoes[q].numero # x.numero
  <2> SUFFICES ASSUME x # Parada, NEW q \in Operacoes \ {o}, Correndo(q)
               PROVE  /\ OperacaoCerta(x) /\ x.numero <= chegadas'
                      /\ operacoes[q].numero # x.numero
    BY DEF Sucede
  <2>1. x.numero \in Nat
    BY LimitesDeCopias DEF Sucede, Operacao
  <2>2. CASE Correndo(o) /\ x.numero = operacoes[o].numero
    BY <2>2 DEF Sucede, OperacoesCertas, NumerosDistintos
  <2>3. CASE x.numero > chegadas
    BY <1>2, <1>3, <2>1, <2>3 DEF Sucede
  <2> QED BY <2>2, <2>3 DEF Sucede
<1>6. NumerosDistintos'
  <2> SUFFICES ASSUME NEW q \in Operacoes, NEW t \in Operacoes,
                      Correndo(q)', Correndo(t)', q # t
               PROVE  operacoes'[q].numero # operacoes'[t].numero
    BY DEF NumerosDistintos
  <2>1. CASE q = o
    BY <1>1, <1>4, <1>5, <2>1 DEF Correndo
  <2>2. CASE t = o
    BY <1>1, <1>4, <1>5, <2>2 DEF Correndo
  <2>3. CASE q # o /\ t # o
    BY <1>1, <1>4, <2>3 DEF OperacoesCertas, NumerosDistintos
  <2> QED BY <2>1, <2>2, <2>3
<1> QED BY <1>1, <1>4, <1>5, <1>6 DEF OperacoesCertas, Correndo

LEMMA Muda ==
  ASSUME NEW p \in Operacao, OperacaoCerta(p), NEW passo,
         passo \in {"exportar", "copiar", "compactar", "arrumar", "extrair", "truncar",
                    "derrubar", "carregar", "guardar", "esvaziar", "repor", "listar",
                    "remover"}
  PROVE  LET x == [p EXCEPT !.passo = passo]
         IN  /\ x \in Operacao /\ x.passo = passo /\ x.faz = p.faz /\ x.s = p.s
             /\ x.pedido = p.pedido /\ x.numero = p.numero /\ x.depois = p.depois
             /\ x.alvo = p.alvo /\ x.extraido = p.extraido /\ x.novos = p.novos
             /\ x.lista = p.lista /\ x.politica = p.politica
BY DEF Operacao

\* An operation that goes on to another step of its kind.
LEMMA Vai ==
  ASSUME CopiasTypeOK, OperacoesCertas, NEW o \in Operacoes, NEW passo,
         Correndo(o), Ir(o, passo), chegadas' = chegadas,
         \/ passo \in DeBackup /\ operacoes[o].passo \in DeBackup
         \/ /\ passo \in DeRestauracao /\ operacoes[o].passo \in DeRestauracao
            /\ passo # "truncar"
            /\ passo \in {"carregar", "guardar", "esvaziar", "repor"} =>
                  operacoes[o].extraido # NaoHa
         \/ passo \in DeLimpeza /\ operacoes[o].passo \in DeLimpeza
  PROVE  /\ operacoes' \in [Operacoes -> {Parada} \cup Operacao] /\ OperacoesCertas'
         /\ \A q \in Operacoes \ {o} : operacoes'[q] = operacoes[q]
         /\ operacoes'[o].passo = passo /\ operacoes'[o].novos = operacoes[o].novos
         /\ operacoes'[o].numero = operacoes[o].numero
         /\ operacoes'[o] \in Operacao
<1> DEFINE x == [operacoes[o] EXCEPT !.passo = passo]
<1>1. operacoes[o] \in Operacao /\ OperacaoCerta(operacoes[o])
      /\ operacoes[o].numero <= chegadas
  BY Andando DEF OperacoesCertas
<1>2. /\ x \in Operacao /\ x.passo = passo /\ x.faz = operacoes[o].faz /\ x.s = operacoes[o].s
      /\ x.pedido = operacoes[o].pedido /\ x.numero = operacoes[o].numero
      /\ x.alvo = operacoes[o].alvo /\ x.extraido = operacoes[o].extraido
      /\ x.novos = operacoes[o].novos
  BY <1>1, Muda DEF DeBackup, DeRestauracao, DeLimpeza
<1>3. operacoes' = [operacoes EXCEPT ![o] = x]
  BY DEF Ir, CopiasTypeOK
<1> HIDE DEF x
<1>4. OperacaoCerta(x)
  BY <1>1, <1>2 DEF OperacaoCerta, DeBackup, DeRestauracao, DeLimpeza
<1>5. Sucede(o, x)
  BY <1>1, <1>2, <1>4 DEF Sucede
<1>6. chegadas' \in 0 .. MaxOperacoes /\ chegadas <= chegadas'
  BY LimitesDeCopias DEF CopiasTypeOK
<1> QED BY <1>2, <1>3, <1>5, <1>6, OperacaoSucede

LEMMA Fim ==
  ASSUME NEW p \in Operacao, OperacaoCerta(p)
  PROVE  \/ AoFim(p) = Parada
         \/ /\ AoFim(p) \in Operacao /\ OperacaoCerta(AoFim(p))
            /\ AoFim(p).faz = "limpar" /\ AoFim(p).passo = "listar"
            /\ AoFim(p).numero = p.numero
<1> DEFINE a == [p EXCEPT !.faz = "limpar"]
           b == [a EXCEPT !.passo = "listar"]
           c == [b EXCEPT !.depois = FALSE]
           d == [c EXCEPT !.alvo = NaoHa]
           e == [d EXCEPT !.extraido = NaoHa]
           f == [e EXCEPT !.novos = {}]
<1>1. a \in Operacao /\ a.faz = "limpar" /\ a.numero = p.numero /\ a.s = p.s
      /\ a.pedido = p.pedido
  BY DEF Operacao
<1>2. AoFim(p) = Parada \/ AoFim(p) = f
  BY DEF AoFim
<1> HIDE DEF a
<1>3. b \in Operacao /\ b.faz = "limpar" /\ b.numero = p.numero /\ b.s = p.s
      /\ b.pedido = p.pedido /\ b.passo = "listar"
  BY <1>1 DEF Operacao
<1> HIDE DEF b
<1>4. c \in Operacao /\ c.faz = "limpar" /\ c.numero = p.numero /\ c.s = p.s
      /\ c.pedido = p.pedido /\ c.passo = "listar"
  BY <1>3 DEF Operacao
<1> HIDE DEF c
<1>5. d \in Operacao /\ d.faz = "limpar" /\ d.numero = p.numero /\ d.s = p.s
      /\ d.pedido = p.pedido /\ d.passo = "listar"
  BY <1>4 DEF Operacao
<1> HIDE DEF d
<1>6. e \in Operacao /\ e.faz = "limpar" /\ e.numero = p.numero /\ e.s = p.s
      /\ e.pedido = p.pedido /\ e.passo = "listar"
  BY <1>5 DEF Operacao
<1> HIDE DEF e
<1>7. f \in Operacao /\ f.faz = "limpar" /\ f.numero = p.numero /\ f.s = p.s
      /\ f.pedido = p.pedido /\ f.passo = "listar"
  BY <1>6 DEF Operacao
<1> HIDE DEF f
<1>8. OperacaoCerta(f)
  BY <1>7 DEF OperacaoCerta, OperacaoCerta, DeBackup, DeRestauracao
<1> QED BY <1>2, <1>7, <1>8

LEMMA Acaba ==
  ASSUME CopiasTypeOK, OperacoesCertas, NEW o \in Operacoes, Correndo(o), Terminar(o),
         chegadas' = chegadas
  PROVE  /\ operacoes' \in [Operacoes -> {Parada} \cup Operacao] /\ OperacoesCertas'
         /\ \A q \in Operacoes \ {o} : operacoes'[q] = operacoes[q]
         /\ operacoes'[o].passo \in {"parada", "listar"}
<1> DEFINE x == AoFim(operacoes[o])
<1>1. operacoes[o] \in Operacao /\ OperacaoCerta(operacoes[o])
      /\ operacoes[o].numero <= chegadas
  BY Andando DEF OperacoesCertas
<1>2. \/ x = Parada
      \/ /\ x \in Operacao /\ OperacaoCerta(x) /\ x.faz = "limpar" /\ x.passo = "listar"
         /\ x.numero = operacoes[o].numero
  BY <1>1, Fim
<1>3. operacoes' = [operacoes EXCEPT ![o] = x]
  BY DEF Terminar, CopiasTypeOK
<1> HIDE DEF x
<1>4. Sucede(o, x)
  BY <1>1, <1>2 DEF Sucede
<1>5. chegadas' \in 0 .. MaxOperacoes /\ chegadas <= chegadas'
  BY LimitesDeCopias DEF CopiasTypeOK
<1>6. /\ operacoes' \in [Operacoes -> {Parada} \cup Operacao] /\ OperacoesCertas'
      /\ operacoes'[o] = x
      /\ \A q \in Operacoes \ {o} : operacoes'[q] = operacoes[q]
  BY <1>3, <1>4, <1>5, OperacaoSucede
<1>7. x.passo \in {"parada", "listar"}
  BY <1>2 DEF Parada
<1> QED BY <1>6, <1>7

LEMMA Comeca ==
  ASSUME CopiasTypeOK, OperacoesCertas, NEW o \in Operacoes, NEW faz, NEW passo, NEW alvo,
         NEW depois, depois \in BOOLEAN, alvo \in Nomes \cup {NaoHa},
         faz \in {"full", "desarquivamentos", "restaurar", "limpar"},
         passo \in {"exportar", "extrair", "truncar", "listar"},
         passo = "exportar" <=> faz \in {"full", "desarquivamentos"},
         passo \in {"extrair", "truncar"} <=> faz = "restaurar",
         faz = "restaurar" => alvo \in Nomes, passo = "truncar" => ~EhTar(alvo),
         Comecar(o, faz, passo, alvo, depois)
  PROVE  /\ operacoes' \in [Operacoes -> {Parada} \cup Operacao] /\ OperacoesCertas'
         /\ \A q \in Operacoes \ {o} : operacoes'[q] = operacoes[q]
         /\ operacoes[o] = Parada /\ operacoes'[o] \in Operacao
         /\ operacoes'[o].faz = faz /\ operacoes'[o].passo = passo
         /\ operacoes'[o].s = segundo /\ operacoes'[o].pedido = segundo
         /\ chegadas' \in 0 .. MaxOperacoes /\ UNCHANGED << limpas, segundo, quedas >>
<1> DEFINE x == [ faz |-> faz, passo |-> passo, s |-> segundo, pedido |-> segundo,
                  numero |-> chegadas + 1, depois |-> depois, alvo |-> alvo,
                  extraido |-> NaoHa, politica |-> 1, lista |-> {}, novos |-> {} ]
<1>1. operacoes[o] = Parada /\ operacoes' = [operacoes EXCEPT ![o] = x]
      /\ chegadas' = chegadas + 1 /\ chegadas < MaxOperacoes
      /\ UNCHANGED << limpas, segundo, quedas >>
  BY DEF Comecar, Carimbo
<1>2. chegadas \in Nat /\ chegadas + 1 \in 1 .. MaxOperacoes /\ segundo \in Segundos
  BY <1>1, LimitesDeCopias DEF CopiasTypeOK
<1>3. /\ x \in Operacao /\ x.faz = faz /\ x.passo = passo /\ x.s = segundo
      /\ x.pedido = segundo /\ x.numero = chegadas + 1 /\ x.alvo = alvo
  BY <1>2 DEF Operacao
<1> HIDE DEF x
<1>4. OperacaoCerta(x)
  BY <1>3 DEF OperacaoCerta, DeBackup, DeRestauracao
<1>5. Sucede(o, x)
  BY <1>1, <1>2, <1>3, <1>4 DEF Sucede
<1>6. chegadas' \in 0 .. MaxOperacoes /\ chegadas <= chegadas'
  BY <1>1, <1>2
<1>7. operacoes' = [operacoes EXCEPT ![o] = x] /\ chegadas' = chegadas + 1
      /\ operacoes[o] = Parada /\ UNCHANGED << limpas, segundo, quedas >>
  BY <1>1
<1>8. /\ operacoes' \in [Operacoes -> {Parada} \cup Operacao] /\ OperacoesCertas'
      /\ operacoes'[o] = x
      /\ \A q \in Operacoes \ {o} : operacoes'[q] = operacoes[q]
  BY <1>5, <1>6, <1>7, OperacaoSucede
<1>9. operacoes[o] = Parada /\ UNCHANGED << limpas, segundo, quedas >>
  BY <1>1
<1> QED BY <1>3, <1>6, <1>8, <1>9

\* Files that come to uploads/ are known to the restores in progress.
LEMMA Chegam ==
  ASSUME NEW ops \in [Operacoes -> {Parada} \cup Operacao], NEW fs \in SUBSET Enviaveis,
         NEW q \in Operacoes
  PROVE  /\ Chegaram(ops, fs) \in [Operacoes -> {Parada} \cup Operacao]
         /\ Chegaram(ops, fs)[q] = Parada <=> ops[q] = Parada
         /\ ops[q] # Parada =>
               /\ Chegaram(ops, fs)[q].passo = ops[q].passo
               /\ Chegaram(ops, fs)[q].numero = ops[q].numero
               /\ ops[q].novos \subseteq Chegaram(ops, fs)[q].novos
               /\ ops[q].faz = "restaurar" => fs \subseteq Chegaram(ops, fs)[q].novos
               /\ OperacaoCerta(ops[q]) => OperacaoCerta(Chegaram(ops, fs)[q])
<1>1. ASSUME NEW p \in Operacao
      PROVE  LET x == [p EXCEPT !.novos = @ \cup fs]
             IN  /\ x \in Operacao /\ x # Parada /\ x.passo = p.passo /\ x.numero = p.numero
                 /\ p.novos \subseteq x.novos /\ fs \subseteq x.novos
                 /\ OperacaoCerta(p) => OperacaoCerta(x)
  <2> DEFINE x == [p EXCEPT !.novos = @ \cup fs]
  <2>1. /\ x \in Operacao /\ x.passo = p.passo /\ x.numero = p.numero /\ x.s = p.s
        /\ x.faz = p.faz /\ x.pedido = p.pedido /\ x.alvo = p.alvo
        /\ x.extraido = p.extraido /\ x.novos = p.novos \cup fs
    BY DEF Operacao
  <2> HIDE DEF x
  <2>2. x # Parada
    BY <2>1, ParadaForaDeOperacao
  <2>3. OperacaoCerta(p) => OperacaoCerta(x)
    BY <2>1 DEF OperacaoCerta
  <2> QED BY <2>1, <2>2, <2>3 DEF x
<1> DEFINE y(t) == IF ops[t] = Parada \/ ops[t].faz # "restaurar" THEN ops[t]
                   ELSE [ops[t] EXCEPT !.novos = @ \cup fs]
<1>2. Chegaram(ops, fs) = [t \in Operacoes |-> y(t)]
  BY Zenon DEF Chegaram
<1>3. ASSUME NEW t \in Operacoes
      PROVE  /\ ops[t] = Parada \/ ops[t].faz # "restaurar" => y(t) = ops[t]
             /\ ~(ops[t] = Parada \/ ops[t].faz # "restaurar") =>
                   /\ ops[t] \in Operacao
                   /\ y(t) = [ops[t] EXCEPT !.novos = @ \cup fs]
  <2>1. ops[t] \in {Parada} \cup Operacao
    OBVIOUS
  <2> QED BY <2>1, Zenon
<1>4. ASSUME NEW t \in Operacoes
      PROVE  y(t) \in {Parada} \cup Operacao
  <2>1. CASE ops[t] = Parada \/ ops[t].faz # "restaurar"
    BY <1>3, <2>1
  <2>2. CASE ~(ops[t] = Parada \/ ops[t].faz # "restaurar")
    BY <1>1, <1>3, <2>2, Zenon
  <2> QED BY <2>1, <2>2
<1> HIDE DEF y
<1>7. /\ Chegaram(ops, fs) \in [Operacoes -> {Parada} \cup Operacao]
      /\ Chegaram(ops, fs)[q] = y(q)
  BY <1>2, <1>4
<1>5. CASE ops[q] = Parada \/ ops[q].faz # "restaurar"
  BY <1>3, <1>5, <1>7
<1>6. CASE ~(ops[q] = Parada \/ ops[q].faz # "restaurar")
  <2>1. ops[q] \in Operacao /\ y(q) = [ops[q] EXCEPT !.novos = @ \cup fs]
    BY <1>3, <1>6
  <2> DEFINE x == [ops[q] EXCEPT !.novos = @ \cup fs]
  <2>2. /\ x # Parada /\ x.passo = ops[q].passo /\ x.numero = ops[q].numero
        /\ ops[q].novos \subseteq x.novos /\ fs \subseteq x.novos
        /\ OperacaoCerta(ops[q]) => OperacaoCerta(x)
    BY <1>1, <2>1
  <2> HIDE DEF x
  <2>3. Chegaram(ops, fs)[q] = x
    BY <1>7, <2>1 DEF x
  <2> QED BY <1>6, <1>7, <2>2, <2>3
<1> QED BY <1>5, <1>6

-----------------------------------------------------------------------------
(* Backups: the directory, and what a step leaves as it was. *)

\* An entry of the directory is written, or removed.
LEMMA Escreve ==
  ASSUME CopiasTypeOK, ProntosDoNome, NEW n \in Nomes, NEW c \in Copia \cup {NaoHa},
         diretorio' = [diretorio EXCEPT ![n] = c],
         c # NaoHa /\ c.pronto # 0 =>
            c.pronto = n[2] /\ n[1] \in {"full.sql", "full.tar.gz", "desarquivamentos.sql"}
  PROVE  /\ diretorio' \in [Nomes -> Copia \cup {NaoHa}] /\ ProntosDoNome'
         /\ diretorio'[n] = c /\ \A m \in Nomes \ {n} : diretorio'[m] = diretorio[m]
<1>1. /\ diretorio' \in [Nomes -> Copia \cup {NaoHa}]
      /\ diretorio'[n] = c /\ \A m \in Nomes \ {n} : diretorio'[m] = diretorio[m]
  BY DEF CopiasTypeOK
<1>2. ProntosDoNome'
  <2> SUFFICES ASSUME NEW m \in Nomes, Ha(m)', diretorio'[m].pronto # 0
               PROVE  /\ diretorio'[m].pronto = m[2]
                      /\ m[1] \in {"full.sql", "full.tar.gz", "desarquivamentos.sql"}
    BY DEF ProntosDoNome
  <2>1. CASE m = n
    BY <1>1, <2>1 DEF Ha
  <2>2. CASE m # n
    BY <1>1, <2>2 DEF Ha, ProntosDoNome
  <2> QED BY <2>1, <2>2
<1> QED BY <1>1, <1>2

\* The copies of uploads/ stay, but for those a cleaning removes, and what comes to
\* uploads/ is known to the restores that are to empty it.
LEMMA UploadsFicam ==
  ASSUME CopiasTypeOK, UploadsCopiados, limpas \subseteq limpas',
         \A n \in Nomes : n[1] = "uploads_old" /\ diretorio'[n] # diretorio[n] => n \in limpas',
         \A q \in Operacoes :
            operacoes'[q].passo \in {"esvaziar", "repor"} => uploads' # SemUploads,
         \A q \in Operacoes : operacoes'[q].passo = "esvaziar" =>
            /\ operacoes[q].passo = "esvaziar" /\ operacoes'[q].numero = operacoes[q].numero
            /\ operacoes[q].novos \subseteq operacoes'[q].novos
            /\ \A f \in Presentes(uploads') :
                  f \in Presentes(uploads) \/ f \in operacoes'[q].novos
  PROVE  UploadsCopiados'
<1> SUFFICES ASSUME NEW q \in Operacoes, operacoes'[q].passo = "esvaziar",
                    NEW f \in Presentes(uploads')
             PROVE  TemCopia(operacoes[q], f)'
  BY DEF UploadsCopiados, Presentes
<1>1. /\ operacoes[q].passo = "esvaziar" /\ operacoes'[q].numero = operacoes[q].numero
      /\ operacoes[q].novos \subseteq operacoes'[q].novos
  OBVIOUS
<1>2. Guardados(operacoes[q])' = Guardados(operacoes[q])
  BY <1>1 DEF Guardados
<1>3. CASE f \in operacoes'[q].novos
  BY <1>3 DEF TemCopia
<1>4. CASE f \in Presentes(uploads)
  <2>1. TemCopia(operacoes[q], f)
    BY <1>1, <1>4 DEF UploadsCopiados
  <2>2. operacoes[q] \in Operacao
    BY <1>1, Andando DEF DeRestauracao
  <2>3. Guardados(operacoes[q]) \in Nomes /\ Guardados(operacoes[q])[1] = "uploads_old"
    BY <2>2, NomesDaOperacao
  <2>4. \/ Guardados(operacoes[q]) \in limpas'
        \/ diretorio'[Guardados(operacoes[q])] = diretorio[Guardados(operacoes[q])]
    BY <2>3
  <2> QED BY <1>1, <1>2, <2>1, <2>4 DEF TemCopia, Ha
<1> QED BY <1>3, <1>4

RelogioCerto ==
    segundo \in Segundos /\ chegadas \in 0 .. MaxOperacoes /\ quedas \in 0 .. MaxQuedas

\* A step of one operation, that does not touch uploads/ and is not about to empty it.
LEMMA InvSegue ==
  ASSUME CopiasInv, NEW o \in Operacoes, banco' \in SUBSET Grupos,
         UNCHANGED << uploads, enviados >>, limpas \subseteq limpas',
         limpas' \in SUBSET Nomes, RelogioCerto',
         operacoes' \in [Operacoes -> {Parada} \cup Operacao], OperacoesCertas',
         \A q \in Operacoes \ {o} : operacoes'[q] = operacoes[q],
         operacoes'[o].passo \notin {"esvaziar", "repor"},
         diretorio' \in [Nomes -> Copia \cup {NaoHa}], ProntosDoNome',
         \A n \in Nomes : n[1] = "uploads_old" /\ diretorio'[n] # diretorio[n] => n \in limpas'
  PROVE  CopiasInv'
<1>1. CopiasTypeOK'
  BY DEF CopiasInv, CopiasTypeOK, RelogioCerto
<1>2. \A q \in Operacoes : operacoes'[q].passo \in {"esvaziar", "repor"} =>
         operacoes'[q] = operacoes[q]
  OBVIOUS
<1>3. UploadsCopiados'
  BY <1>2, UploadsFicam DEF CopiasInv, UploadsCopiados
<1> QED BY <1>1, <1>3 DEF CopiasInv

LEMMA RelogioParado ==
  ASSUME CopiasTypeOK, UNCHANGED relogio
  PROVE  RelogioCerto' /\ chegadas' = chegadas
BY DEF relogio, CopiasTypeOK, RelogioCerto

LEMMA DiretorioParado ==
  ASSUME CopiasTypeOK, ProntosDoNome, diretorio' = diretorio
  PROVE  diretorio' \in [Nomes -> Copia \cup {NaoHa}] /\ ProntosDoNome'
BY DEF CopiasTypeOK, ProntosDoNome, Ha

LEMMA PresentesEnviaveis ==
  ASSUME CopiasTypeOK
  PROVE  /\ Presentes(uploads) \in SUBSET Enviaveis
         /\ \A us \in SUBSET Enviaveis : us # SemUploads /\ Presentes(us) = us
<1>1. CASE uploads = SemUploads
  BY <1>1, SentinelasDeCopias DEF Presentes
<1>2. CASE uploads # SemUploads
  BY <1>2, SentinelasDeCopias DEF Presentes, CopiasTypeOK
<1> QED BY <1>1, <1>2

\* The entries of the directory that a step changes are removed, or marked as they should.
LEMMA EscreveVarios ==
  ASSUME CopiasTypeOK, ProntosDoNome, diretorio' \in [Nomes -> Copia \cup {NaoHa}],
         \A n \in Nomes :
            \/ diretorio'[n] = diretorio[n]
            \/ diretorio'[n] = NaoHa
            \/ /\ diretorio'[n].pronto = n[2]
               /\ n[1] \in {"full.sql", "full.tar.gz", "desarquivamentos.sql"}
  PROVE  ProntosDoNome'
<1> SUFFICES ASSUME NEW n \in Nomes, Ha(n)', diretorio'[n].pronto # 0
             PROVE  /\ diretorio'[n].pronto = n[2]
                    /\ n[1] \in {"full.sql", "full.tar.gz", "desarquivamentos.sql"}
  BY DEF ProntosDoNome
<1>1. CASE diretorio'[n] = diretorio[n]
  BY <1>1 DEF Ha, ProntosDoNome
<1>2. CASE diretorio'[n] # diretorio[n]
  BY <1>2 DEF Ha
<1> QED BY <1>1, <1>2

\* What is written of a file: with other uploads, another time, another mark.
LEMMA MudaCopia ==
  ASSUME NEW c \in Copia
  PROVE  /\ \A us \in SUBSET Enviaveis :
               LET x == [c EXCEPT !.uploads = us, !.pronto = 0]
               IN  x \in Copia /\ x.pronto = 0
         /\ \A t \in Segundos :
               LET x == [c EXCEPT !.mtime = t, !.pronto = 0]
               IN  x \in Copia /\ x.pronto = 0
         /\ \A t \in Segundos :
               LET x == [c EXCEPT !.pronto = t] IN x \in Copia /\ x.pronto = t
<1>1. 0 \in 0 .. MaxSegundo /\ Segundos \subseteq 0 .. MaxSegundo
  BY TiposDeNomes, LimitesDeCopias
<1>2. ASSUME NEW us \in SUBSET Enviaveis
      PROVE  LET x == [c EXCEPT !.uploads = us, !.pronto = 0]
             IN  x \in Copia /\ x.pronto = 0
  BY <1>1 DEF Copia
<1>3. ASSUME NEW t \in Segundos
      PROVE  LET x == [c EXCEPT !.mtime = t, !.pronto = 0]
             IN  x \in Copia /\ x.pronto = 0
  BY <1>1 DEF Copia
<1>4. ASSUME NEW t \in Segundos
      PROVE  LET x == [c EXCEPT !.pronto = t] IN x \in Copia /\ x.pronto = t
  BY <1>1 DEF Copia
<1> QED BY <1>2, <1>3, <1>4

-----------------------------------------------------------------------------
(* Backups: every action keeps the invariant. *)

LEMMA PedirBackupCopias ==
  ASSUME CopiasInv, NEW o \in Operacoes, NEW faz \in {"full", "desarquivamentos"},
         NEW agendado \in BOOLEAN, PedirBackup(o, faz, agendado)
  PROVE  CopiasInv'
<1>1. CopiasTypeOK /\ OperacoesCertas /\ ProntosDoNome
  BY DEF CopiasInv
<1>2. Comecar(o, faz, "exportar", NaoHa, agendado) /\ UNCHANGED << banco, uploads, enviados >>
  BY DEF PedirBackup
<1>3. /\ operacoes' \in [Operacoes -> {Parada} \cup Operacao] /\ OperacoesCertas'
      /\ \A q \in Operacoes \ {o} : operacoes'[q] = operacoes[q]
      /\ operacoes'[o] \in Operacao /\ operacoes'[o].passo = "exportar"
      /\ chegadas' \in 0 .. MaxOperacoes /\ UNCHANGED << limpas, segundo, quedas >>
  BY <1>1, <1>2, Comeca
<1> DEFINE n == Sql(operacoes'[o])
           c == [ banco |-> Exportado(faz), uploads |-> {}, mtime |-> segundo,
                  pronto |-> 0 ]
<1>4. n \in Nomes /\ n[1] # "uploads_old"
  BY <1>3, NomesDaOperacao
<1>5. c \in Copia /\ c.pronto = 0
  BY <1>1, TiposDeNomes, LimitesDeCopias DEF CopiasTypeOK, Copia, Exportado, Grupos
<1>6. diretorio' = [diretorio EXCEPT ![n] = c]
  BY DEF PedirBackup
<1> HIDE DEF n, c
<1>7. /\ diretorio' \in [Nomes -> Copia \cup {NaoHa}] /\ ProntosDoNome'
      /\ \A m \in Nomes \ {n} : diretorio'[m] = diretorio[m]
  BY <1>1, <1>4, <1>5, <1>6, Escreve
<1>8. RelogioCerto' /\ banco' \in SUBSET Grupos /\ limpas' = limpas /\ limpas \in SUBSET Nomes
  BY <1>1, <1>2, <1>3 DEF CopiasTypeOK, RelogioCerto
<1>9. /\ operacoes'[o].passo \notin {"esvaziar", "repor"}
      /\ \A m \in Nomes : m[1] = "uploads_old" /\ diretorio'[m] # diretorio[m] => m \in limpas'
  BY <1>3, <1>4, <1>7
<1> QED BY <1>2, <1>3, <1>7, <1>8, <1>9, InvSegue

\* A step of a backup that writes an entry c of the directory, the name n.
LEMMA EscreveBackup ==
  ASSUME CopiasInv, NEW o \in Operacoes, NEW n \in Nomes, NEW c \in Copia \cup {NaoHa},
         n[1] # "uploads_old", diretorio' = [diretorio EXCEPT ![n] = c],
         c # NaoHa /\ c.pronto # 0 =>
            c.pronto = n[2] /\ n[1] \in {"full.sql", "full.tar.gz", "desarquivamentos.sql"},
         UNCHANGED << banco, uploads, enviados, limpas, relogio >>,
         operacoes' \in [Operacoes -> {Parada} \cup Operacao], OperacoesCertas',
         \A q \in Operacoes \ {o} : operacoes'[q] = operacoes[q],
         operacoes'[o].passo \notin {"esvaziar", "repor"}
  PROVE  CopiasInv'
<1>1. CopiasTypeOK /\ OperacoesCertas /\ ProntosDoNome
  BY DEF CopiasInv
<1>2. /\ diretorio' \in [Nomes -> Copia \cup {NaoHa}] /\ ProntosDoNome'
      /\ \A m \in Nomes \ {n} : diretorio'[m] = diretorio[m]
  BY <1>1, Escreve
<1>3. RelogioCerto' /\ banco' \in SUBSET Grupos /\ limpas' = limpas /\ limpas \in SUBSET Nomes
  BY <1>1, RelogioParado DEF CopiasTypeOK
<1>4. \A m \in Nomes : m[1] = "uploads_old" /\ diretorio'[m] # diretorio[m] => m \in limpas'
  BY <1>2
<1> QED BY <1>2, <1>3, <1>4, InvSegue

LEMMA ExportarCopias ==
  ASSUME CopiasInv, NEW o \in Operacoes, Exportar(o)
  PROVE  CopiasInv'
<1> DEFINE p == operacoes[o]
           soBanco == p.faz = "desarquivamentos" \/ uploads = SemUploads
<1>1. CopiasTypeOK /\ OperacoesCertas /\ ProntosDoNome /\ p.passo = "exportar"
      /\ UNCHANGED << banco, uploads, enviados, limpas, relogio >>
  BY DEF CopiasInv, Exportar
<1>2. p \in Operacao /\ Correndo(o) /\ OperacaoCerta(p) /\ chegadas' = chegadas
  BY <1>1, Andando, RelogioParado DEF OperacoesCertas, DeBackup
<1>3. diretorio' = [diretorio EXCEPT ![Sql(p)] =
         [ banco |-> Exportado(p.faz), uploads |-> {}, mtime |-> segundo,
           pronto |-> IF soBanco THEN p.pedido ELSE 0 ]]
  BY DEF Exportar
<1> DEFINE n == Sql(p)
           c == [ banco |-> Exportado(p.faz), uploads |-> {}, mtime |-> segundo,
                  pronto |-> IF soBanco THEN p.pedido ELSE 0 ]
<1>4. n \in Nomes /\ n[1] \in {"full.sql", "desarquivamentos.sql"} /\ n[2] = p.s
  BY <1>2, NomesDaOperacao
<1>5. p.s = p.pedido /\ p.pedido \in Segundos
  BY <1>2 DEF OperacaoCerta, Operacao
<1>6. c \in Copia /\ c.pronto \in {0, p.pedido}
  <2>1. Exportado(p.faz) \in SUBSET Grupos /\ segundo \in Segundos
    BY <1>1 DEF CopiasTypeOK, Exportado, Grupos
  <2>2. p.pedido \in 0 .. MaxSegundo /\ 0 \in 0 .. MaxSegundo
    BY <1>5, LimitesDeCopias DEF Segundos
  <2>3. CASE soBanco
    BY <2>1, <2>2, <2>3 DEF Copia
  <2>4. CASE ~soBanco
    BY <2>1, <2>2, <2>4 DEF Copia
  <2> QED BY <2>3, <2>4
<1>7. diretorio' = [diretorio EXCEPT ![n] = c]
  BY <1>3
<1>8. IF soBanco THEN Terminar(o) ELSE Ir(o, "copiar")
  BY DEF Exportar
<1>9. /\ operacoes' \in [Operacoes -> {Parada} \cup Operacao] /\ OperacoesCertas'
      /\ \A q \in Operacoes \ {o} : operacoes'[q] = operacoes[q]
      /\ operacoes'[o].passo \notin {"esvaziar", "repor"}
  <2>1. CASE soBanco
    BY <1>1, <1>2, <1>8, <2>1, Acaba
  <2>2. CASE ~soBanco
    BY <1>1, <1>2, <1>8, <2>2, Vai DEF DeBackup
  <2> QED BY <2>1, <2>2
<1> HIDE DEF n, c
<1>10. c # NaoHa /\ c.pronto # 0 =>
          c.pronto = n[2] /\ n[1] \in {"full.sql", "full.tar.gz", "desarquivamentos.sql"}
  BY <1>4, <1>5, <1>6
<1>11. n[1] # "uploads_old"
  BY <1>4
<1> QED BY <1>1, <1>4, <1>6, <1>7, <1>9, <1>10, <1>11, EscreveBackup

LEMMA CopiarUploadsCopias ==
  ASSUME CopiasInv, NEW o \in Operacoes, CopiarUploads(o)
  PROVE  CopiasInv'
<1> DEFINE p == operacoes[o]
           n == Temp(p)
           c == [diretorio[Sql(p)] EXCEPT !.uploads = Presentes(uploads), !.pronto = 0]
<1>1. CopiasTypeOK /\ OperacoesCertas /\ p.passo = "copiar" /\ Ha(Sql(p))
      /\ UNCHANGED << banco, uploads, enviados, limpas, relogio >>
  BY DEF CopiasInv, CopiarUploads
<1>2. p \in Operacao /\ Correndo(o) /\ chegadas' = chegadas
  BY <1>1, Andando, RelogioParado DEF DeBackup
<1>3. n \in Nomes /\ n[1] = "temp" /\ Sql(p) \in Nomes
  BY <1>2, NomesDaOperacao
<1>4. Presentes(uploads) \in SUBSET Enviaveis
  BY <1>1, PresentesEnviaveis
<1>5. diretorio[Sql(p)] \in Copia
  BY <1>1, <1>3 DEF CopiasTypeOK, Ha
<1>6. c \in Copia /\ c.pronto = 0
  BY <1>4, <1>5, MudaCopia
<1>7. diretorio' = [diretorio EXCEPT ![n] = c] /\ Ir(o, "compactar")
  BY DEF CopiarUploads
<1>8. /\ operacoes' \in [Operacoes -> {Parada} \cup Operacao] /\ OperacoesCertas'
      /\ \A q \in Operacoes \ {o} : operacoes'[q] = operacoes[q]
      /\ operacoes'[o].passo \notin {"esvaziar", "repor"}
  BY <1>1, <1>2, <1>7, Vai DEF DeBackup
<1> HIDE DEF n, c
<1>9. n[1] # "uploads_old" /\ c \in Copia \cup {NaoHa} /\ ~(c # NaoHa /\ c.pronto # 0)
  BY <1>3, <1>6
<1> QED BY <1>1, <1>3, <1>7, <1>8, <1>9, EscreveBackup

LEMMA CompactarCopias ==
  ASSUME CopiasInv, NEW o \in Operacoes, Compactar(o)
  PROVE  CopiasInv'
<1> DEFINE p == operacoes[o]
           n == Tar(p)
           c == [diretorio[Temp(p)] EXCEPT !.mtime = segundo, !.pronto = 0]
<1>1. CopiasTypeOK /\ OperacoesCertas /\ p.passo = "compactar" /\ Ha(Temp(p))
      /\ UNCHANGED << banco, uploads, enviados, limpas, relogio >>
  BY DEF CopiasInv, Compactar
<1>2. p \in Operacao /\ Correndo(o) /\ chegadas' = chegadas /\ segundo \in Segundos
  BY <1>1, Andando, RelogioParado DEF DeBackup, CopiasTypeOK
<1>3. n \in Nomes /\ n[1] = "full.tar.gz" /\ Temp(p) \in Nomes
  BY <1>2, NomesDaOperacao
<1>5. diretorio[Temp(p)] \in Copia
  BY <1>1, <1>3 DEF CopiasTypeOK, Ha
<1>6. c \in Copia /\ c.pronto = 0
  BY <1>2, <1>5, MudaCopia
<1>7. diretorio' = [diretorio EXCEPT ![n] = c] /\ Ir(o, "arrumar")
  BY DEF Compactar
<1>8. /\ operacoes' \in [Operacoes -> {Parada} \cup Operacao] /\ OperacoesCertas'
      /\ \A q \in Operacoes \ {o} : operacoes'[q] = operacoes[q]
      /\ operacoes'[o].passo \notin {"esvaziar", "repor"}
  BY <1>1, <1>2, <1>7, Vai DEF DeBackup
<1> HIDE DEF n, c
<1>9. n[1] # "uploads_old" /\ c \in Copia \cup {NaoHa} /\ ~(c # NaoHa /\ c.pronto # 0)
  BY <1>3, <1>6
<1> QED BY <1>1, <1>3, <1>7, <1>8, <1>9, EscreveBackup

LEMMA ArrumarCopias ==
  ASSUME CopiasInv, NEW o \in Operacoes, Arrumar(o)
  PROVE  CopiasInv'
<1> DEFINE p == operacoes[o]
<1>1. /\ CopiasTypeOK /\ OperacoesCertas /\ ProntosDoNome
      /\ p.passo = "arrumar" /\ Ha(Tar(p)) /\ Terminar(o)
      /\ UNCHANGED << banco, uploads, enviados, limpas, relogio >>
      /\ diretorio' = [diretorio EXCEPT ![Temp(p)] = NaoHa, ![Sql(p)] = NaoHa,
                                        ![Tar(p)].pronto = p.pedido]
  BY DEF CopiasInv, Arrumar
<1>2. p \in Operacao /\ Correndo(o) /\ OperacaoCerta(p) /\ chegadas' = chegadas
  BY <1>1, Andando, RelogioParado DEF OperacoesCertas, DeBackup
<1>3. /\ Sql(p) \in Nomes /\ Tar(p) \in Nomes /\ Temp(p) \in Nomes /\ Tar(p)[2] = p.s
      /\ Sql(p)[1] \in {"full.sql", "desarquivamentos.sql"}
      /\ Tar(p)[1] = "full.tar.gz" /\ Temp(p)[1] = "temp"
  BY <1>2, NomesDaOperacao
<1>4. p.s = p.pedido /\ p.pedido \in Segundos
  BY <1>2 DEF OperacaoCerta, Operacao
<1>5. diretorio[Tar(p)] \in Copia
  BY <1>1, <1>3 DEF CopiasTypeOK, Ha
<1> DEFINE c == [diretorio[Tar(p)] EXCEPT !.pronto = p.pedido]
<1>6. c \in Copia /\ c.pronto = p.pedido
  BY <1>4, <1>5, MudaCopia
<1>7. diretorio' = [[[diretorio EXCEPT ![Temp(p)] = NaoHa]
                        EXCEPT ![Sql(p)] = NaoHa] EXCEPT ![Tar(p)] = c]
  <2>1. Tar(p) # Temp(p) /\ Tar(p) # Sql(p)
    BY <1>3
  <2>2. diretorio \in [Nomes -> Copia \cup {NaoHa}]
    BY <1>1 DEF CopiasTypeOK
  <2> HIDE DEF p
  <2> QED BY <1>1, <1>3, <2>1, <2>2
<1> HIDE DEF c
<1>8. /\ diretorio' \in [Nomes -> Copia \cup {NaoHa}]
      /\ diretorio'[Tar(p)] = c
      /\ \A m \in Nomes : diretorio'[m] \in {diretorio[m], NaoHa} \/ m = Tar(p)
      /\ \A m \in Nomes : m[1] = "uploads_old" => diretorio'[m] = diretorio[m]
  <2> DEFINE a == [diretorio EXCEPT ![Temp(p)] = NaoHa]
             b == [a EXCEPT ![Sql(p)] = NaoHa]
             d == [b EXCEPT ![Tar(p)] = c]
  <2>1. diretorio \in [Nomes -> Copia \cup {NaoHa}]
    BY <1>1 DEF CopiasTypeOK
  <2>2. diretorio' = d
    BY <1>7
  <2> HIDE DEF p
  <2>3. /\ a \in [Nomes -> Copia \cup {NaoHa}] /\ a[Temp(p)] = NaoHa
        /\ \A m \in Nomes \ {Temp(p)} : a[m] = diretorio[m]
    BY <1>3, <2>1
  <2> HIDE DEF a
  <2>4. /\ b \in [Nomes -> Copia \cup {NaoHa}] /\ b[Sql(p)] = NaoHa
        /\ \A m \in Nomes \ {Sql(p)} : b[m] = a[m]
    BY <1>3, <2>3
  <2> HIDE DEF b
  <2>5. /\ d \in [Nomes -> Copia \cup {NaoHa}] /\ d[Tar(p)] = c
        /\ \A m \in Nomes \ {Tar(p)} : d[m] = b[m]
    BY <1>3, <1>6, <2>4
  <2> HIDE DEF d
  <2>6. /\ diretorio' \in [Nomes -> Copia \cup {NaoHa}] /\ diretorio'[Tar(p)] = c
    BY <2>2, <2>5
  <2>7. ASSUME NEW m \in Nomes
        PROVE  /\ diretorio'[m] \in {diretorio[m], NaoHa} \/ m = Tar(p)
               /\ m[1] = "uploads_old" => diretorio'[m] = diretorio[m]
    <3>1. diretorio'[m] = d[m]
      BY <2>2
    <3>2. CASE m = Tar(p)
      BY <1>3, <3>2
    <3>3. CASE m # Tar(p) /\ m = Sql(p)
      BY <1>3, <2>4, <2>5, <3>1, <3>3
    <3>4. CASE m # Tar(p) /\ m # Sql(p) /\ m = Temp(p)
      BY <1>3, <2>3, <2>4, <2>5, <3>1, <3>4
    <3>5. CASE m # Tar(p) /\ m # Sql(p) /\ m # Temp(p)
      BY <2>3, <2>4, <2>5, <3>1, <3>5
    <3> QED BY <3>2, <3>3, <3>4, <3>5
  <2> QED BY <2>6, <2>7
<1>9. ProntosDoNome'
  BY <1>1, <1>3, <1>4, <1>6, <1>8, EscreveVarios
<1>10. /\ operacoes' \in [Operacoes -> {Parada} \cup Operacao] /\ OperacoesCertas'
       /\ \A q \in Operacoes \ {o} : operacoes'[q] = operacoes[q]
       /\ operacoes'[o].passo \notin {"esvaziar", "repor"}
  BY <1>1, <1>2, Acaba
<1>11. RelogioCerto' /\ banco' \in SUBSET Grupos /\ limpas' = limpas /\ limpas \in SUBSET Nomes
  BY <1>1, RelogioParado DEF CopiasTypeOK
<1> QED BY <1>1, <1>8, <1>9, <1>10, <1>11, InvSegue

LEMMA FalharBackupCopias ==
  ASSUME CopiasInv, NEW o \in Operacoes, FalharBackup(o)
  PROVE  CopiasInv'
<1> DEFINE p == operacoes[o]
           restos == IF p.faz = "desarquivamentos" THEN {Sql(p)}
                     ELSE {Sql(p), Tar(p)}
                          \cup (IF p.passo = "exportar" THEN {} ELSE {Temp(p)})
<1>1. /\ CopiasTypeOK /\ OperacoesCertas /\ ProntosDoNome
      /\ p.passo \in DeBackup /\ Terminar(o)
      /\ UNCHANGED << banco, uploads, enviados, limpas, relogio >>
      /\ diretorio' = [n \in Nomes |-> IF n \in restos THEN NaoHa ELSE diretorio[n]]
  BY DEF CopiasInv, FalharBackup, DeBackup
<1>2. p \in Operacao /\ Correndo(o) /\ chegadas' = chegadas
  BY <1>1, Andando, RelogioParado DEF DeBackup
<1>3. \A n \in restos : n[1] # "uploads_old"
  BY <1>2, NomesDaOperacao
<1> HIDE DEF restos
<1>4. /\ diretorio' \in [Nomes -> Copia \cup {NaoHa}]
      /\ \A n \in Nomes : \/ diretorio'[n] = diretorio[n]
                          \/ diretorio'[n] = NaoHa /\ n \in restos
  BY <1>1 DEF CopiasTypeOK
<1>5. ProntosDoNome'
  BY <1>1, <1>4, EscreveVarios
<1>6. /\ operacoes' \in [Operacoes -> {Parada} \cup Operacao] /\ OperacoesCertas'
      /\ \A q \in Operacoes \ {o} : operacoes'[q] = operacoes[q]
      /\ operacoes'[o].passo \notin {"esvaziar", "repor"}
  BY <1>1, <1>2, Acaba
<1>7. RelogioCerto' /\ banco' \in SUBSET Grupos /\ limpas' = limpas /\ limpas \in SUBSET Nomes
  BY <1>1, RelogioParado DEF CopiasTypeOK
<1>8. \A m \in Nomes : m[1] = "uploads_old" /\ diretorio'[m] # diretorio[m] => m \in limpas'
  BY <1>3, <1>4
<1> QED BY <1>1, <1>4, <1>5, <1>6, <1>7, <1>8, InvSegue

\* A step of one operation that leaves the directory and uploads/ alone.
LEMMA SoOperacao ==
  ASSUME CopiasInv, NEW o \in Operacoes, banco' \in SUBSET Grupos,
         UNCHANGED << uploads, enviados, diretorio, limpas >>, RelogioCerto',
         operacoes' \in [Operacoes -> {Parada} \cup Operacao], OperacoesCertas',
         \A q \in Operacoes \ {o} : operacoes'[q] = operacoes[q],
         operacoes'[o].passo \notin {"esvaziar", "repor"}
  PROVE  CopiasInv'
<1>1. CopiasTypeOK /\ OperacoesCertas /\ ProntosDoNome
  BY DEF CopiasInv
<1>2. diretorio' \in [Nomes -> Copia \cup {NaoHa}] /\ ProntosDoNome'
  BY <1>1, DiretorioParado
<1>3. limpas \subseteq limpas' /\ limpas' \in SUBSET Nomes
  BY <1>1 DEF CopiasTypeOK
<1> QED BY <1>2, <1>3, InvSegue

LEMMA PedirRestauracaoCopias ==
  ASSUME CopiasInv, NEW o \in Operacoes, NEW n \in Nomes, PedirRestauracao(o, n)
  PROVE  CopiasInv'
<1> DEFINE passo == IF EhTar(n) THEN "extrair" ELSE "truncar"
<1>1. CopiasTypeOK /\ OperacoesCertas /\ UNCHANGED << banco, uploads, enviados, diretorio >>
      /\ Comecar(o, "restaurar", passo, n, TRUE)
  BY DEF CopiasInv, PedirRestauracao
<1>5. PICK depois \in BOOLEAN : Comecar(o, "restaurar", passo, n, depois)
  BY <1>1, Zenon
<1>2. passo \in {"extrair", "truncar"} /\ (passo = "truncar" => ~EhTar(n))
  OBVIOUS
<1> HIDE DEF passo
<1>3. /\ operacoes' \in [Operacoes -> {Parada} \cup Operacao] /\ OperacoesCertas'
      /\ \A q \in Operacoes \ {o} : operacoes'[q] = operacoes[q]
      /\ operacoes'[o] \in Operacao /\ operacoes'[o].passo = passo
      /\ chegadas' \in 0 .. MaxOperacoes /\ UNCHANGED << limpas, segundo, quedas >>
  BY <1>1, <1>2, <1>5, Comeca
<1>4. RelogioCerto' /\ banco' \in SUBSET Grupos
  BY <1>1, <1>3 DEF CopiasTypeOK, RelogioCerto
<1> QED BY <1>1, <1>2, <1>3, <1>4, SoOperacao

LEMMA PedirLimpezaCopias ==
  ASSUME CopiasInv, NEW o \in Operacoes, PedirLimpeza(o)
  PROVE  CopiasInv'
<1>1. CopiasTypeOK /\ OperacoesCertas /\ UNCHANGED << banco, uploads, enviados, diretorio >>
      /\ Comecar(o, "limpar", "listar", NaoHa, FALSE)
  BY DEF CopiasInv, PedirLimpeza
<1>2. PICK depois \in BOOLEAN : Comecar(o, "limpar", "listar", NaoHa, depois)
  BY <1>1, Zenon
<1>3. /\ operacoes' \in [Operacoes -> {Parada} \cup Operacao] /\ OperacoesCertas'
      /\ \A q \in Operacoes \ {o} : operacoes'[q] = operacoes[q]
      /\ operacoes'[o] \in Operacao /\ operacoes'[o].passo = "listar"
      /\ chegadas' \in 0 .. MaxOperacoes /\ UNCHANGED << limpas, segundo, quedas >>
  BY <1>1, <1>2, Comeca
<1>4. RelogioCerto' /\ banco' \in SUBSET Grupos
  BY <1>1, <1>3 DEF CopiasTypeOK, RelogioCerto
<1> QED BY <1>1, <1>3, <1>4, SoOperacao

LEMMA ExtrairCopias ==
  ASSUME CopiasInv, NEW o \in Operacoes, Extrair(o)
  PROVE  CopiasInv'
<1> DEFINE p == operacoes[o]
           y == [p EXCEPT !.passo = "truncar"]
           x == [y EXCEPT !.extraido = diretorio[p.alvo]]
<1>1. /\ CopiasTypeOK /\ OperacoesCertas /\ p.passo = "extrair" /\ Ha(p.alvo)
      /\ UNCHANGED << banco, uploads, enviados, diretorio, limpas, relogio >>
  BY DEF CopiasInv, Extrair
<1>2. /\ p \in Operacao /\ Correndo(o) /\ OperacaoCerta(p) /\ p.numero <= chegadas
      /\ RelogioCerto' /\ chegadas' = chegadas
  BY <1>1, Andando, RelogioParado DEF OperacoesCertas, DeRestauracao
<1>3. p.faz = "restaurar" /\ p.alvo \in Nomes
  BY <1>1, <1>2 DEF OperacaoCerta, DeRestauracao
<1>4. diretorio[p.alvo] \in Copia
  BY <1>1, <1>3 DEF CopiasTypeOK, Ha
<1>5. operacoes' = [operacoes EXCEPT ![o] = x]
  BY <1>1 DEF Extrair, CopiasTypeOK
<1>6. /\ y \in Operacao /\ y.passo = "truncar" /\ y.faz = p.faz /\ y.s = p.s
      /\ y.pedido = p.pedido /\ y.numero = p.numero /\ y.alvo = p.alvo
  BY <1>2, Muda
<1> HIDE DEF y
<1>7. /\ x \in Operacao /\ x.passo = "truncar" /\ x.faz = p.faz /\ x.s = p.s
      /\ x.pedido = p.pedido /\ x.numero = p.numero /\ x.alvo = p.alvo
      /\ x.extraido # NaoHa
  BY <1>4, <1>6, TiposDeNomes DEF Operacao
<1> HIDE DEF x
<1>8. OperacaoCerta(x)
  BY <1>2, <1>3, <1>7 DEF OperacaoCerta, DeBackup, DeRestauracao
<1>9. Sucede(o, x) /\ chegadas' \in 0 .. MaxOperacoes /\ chegadas <= chegadas'
  BY <1>1, <1>2, <1>7, <1>8, LimitesDeCopias DEF Sucede, CopiasTypeOK
<1>10. /\ operacoes' \in [Operacoes -> {Parada} \cup Operacao] /\ OperacoesCertas'
       /\ operacoes'[o] = x
       /\ \A q \in Operacoes \ {o} : operacoes'[q] = operacoes[q]
  BY <1>1, <1>5, <1>9, OperacaoSucede
<1>11. operacoes'[o].passo \notin {"esvaziar", "repor"} /\ banco' \in SUBSET Grupos
  BY <1>1, <1>7, <1>10 DEF CopiasTypeOK
<1> QED BY <1>1, <1>2, <1>10, <1>11, SoOperacao

LEMMA TruncarCopias ==
  ASSUME CopiasInv, NEW o \in Operacoes, Truncar(o)
  PROVE  CopiasInv'
<1>1. /\ CopiasTypeOK /\ OperacoesCertas /\ operacoes[o].passo = "truncar"
      /\ Ir(o, "derrubar") /\ banco' \in SUBSET Grupos
      /\ UNCHANGED << uploads, enviados, diretorio, limpas, relogio >>
  BY DEF CopiasInv, CopiasTypeOK, Truncar
<1>2. Correndo(o) /\ RelogioCerto' /\ chegadas' = chegadas
  BY <1>1, Andando, RelogioParado DEF DeRestauracao
<1>3. /\ operacoes' \in [Operacoes -> {Parada} \cup Operacao] /\ OperacoesCertas'
      /\ \A q \in Operacoes \ {o} : operacoes'[q] = operacoes[q]
      /\ operacoes'[o].passo \notin {"esvaziar", "repor"}
  BY <1>1, <1>2, Vai DEF DeRestauracao
<1> QED BY <1>1, <1>2, <1>3, SoOperacao

LEMMA FonteCerta ==
  ASSUME CopiasTypeOK, NEW o \in Operacoes, operacoes[o] \in Operacao,
         OperacaoCerta(operacoes[o]), operacoes[o].faz = "restaurar"
  PROVE  Fonte(operacoes[o]) \in Copia \cup {NaoHa}
<1>1. operacoes[o].alvo \in Nomes /\ operacoes[o].extraido \in Copia \cup {NaoHa}
  BY DEF OperacaoCerta, Operacao
<1>2. diretorio[operacoes[o].alvo] \in Copia \cup {NaoHa}
  BY <1>1 DEF CopiasTypeOK
<1> QED BY <1>1, <1>2 DEF Fonte

LEMMA DerrubarTabelasCopias ==
  ASSUME CopiasInv, NEW o \in Operacoes, DerrubarTabelas(o)
  PROVE  CopiasInv'
<1> DEFINE p == operacoes[o]
           y == [p EXCEPT !.passo = "carregar"]
           x == [y EXCEPT !.extraido = Fonte(p)]
<1>1. /\ CopiasTypeOK /\ OperacoesCertas /\ p.passo = "derrubar" /\ Fonte(p) # NaoHa
      /\ UNCHANGED << uploads, enviados, diretorio, limpas, relogio >>
  BY DEF CopiasInv, DerrubarTabelas
<1>2. /\ p \in Operacao /\ Correndo(o) /\ OperacaoCerta(p) /\ p.numero <= chegadas
      /\ RelogioCerto' /\ chegadas' = chegadas
  BY <1>1, Andando, RelogioParado DEF OperacoesCertas, DeRestauracao
<1>3. p.faz = "restaurar" /\ p.alvo \in Nomes
  BY <1>1, <1>2 DEF OperacaoCerta, DeRestauracao
<1>4. Fonte(p) \in Copia
  BY <1>1, <1>2, <1>3, FonteCerta
<1>5. operacoes' = [operacoes EXCEPT ![o] = x]
  BY <1>1 DEF DerrubarTabelas, CopiasTypeOK
<1>6. /\ y \in Operacao /\ y.passo = "carregar" /\ y.faz = p.faz /\ y.s = p.s
      /\ y.pedido = p.pedido /\ y.numero = p.numero /\ y.alvo = p.alvo
  BY <1>2, Muda
<1> HIDE DEF y
<1>7. /\ x \in Operacao /\ x.passo = "carregar" /\ x.faz = p.faz /\ x.s = p.s
      /\ x.pedido = p.pedido /\ x.numero = p.numero /\ x.alvo = p.alvo
      /\ x.extraido # NaoHa
  BY <1>1, <1>4, <1>6 DEF Operacao
<1> HIDE DEF x
<1>8. OperacaoCerta(x)
  BY <1>2, <1>3, <1>7 DEF OperacaoCerta, DeBackup, DeRestauracao
<1>9. Sucede(o, x) /\ chegadas' \in 0 .. MaxOperacoes /\ chegadas <= chegadas'
  BY <1>1, <1>2, <1>7, <1>8, LimitesDeCopias DEF Sucede, CopiasTypeOK
<1>10. /\ operacoes' \in [Operacoes -> {Parada} \cup Operacao] /\ OperacoesCertas'
       /\ operacoes'[o] = x
       /\ \A q \in Operacoes \ {o} : operacoes'[q] = operacoes[q]
  BY <1>1, <1>5, <1>9, OperacaoSucede
<1>11. PICK caem \in SUBSET Fonte(p).banco : banco' = banco \ caem
  BY DEF DerrubarTabelas
<1>12. operacoes'[o].passo \notin {"esvaziar", "repor"} /\ banco' \in SUBSET Grupos
  BY <1>1, <1>7, <1>10, <1>11 DEF CopiasTypeOK
<1> QED BY <1>1, <1>2, <1>10, <1>12, SoOperacao

\* What a restore reads, from the moment its psql runs.
LEMMA DumpLido ==
  ASSUME CopiasTypeOK, OperacoesCertas, NEW o \in Operacoes, operacoes[o].passo = "carregar"
  PROVE  /\ operacoes[o].faz = "restaurar" /\ operacoes[o].extraido # NaoHa
         /\ operacoes[o].extraido.banco \in SUBSET Grupos
<1>1. operacoes[o] \in Operacao /\ OperacaoCerta(operacoes[o])
  BY Andando DEF OperacoesCertas, DeRestauracao
<1>2. operacoes[o].faz = "restaurar" /\ operacoes[o].extraido # NaoHa
  BY <1>1 DEF OperacaoCerta, DeRestauracao
<1>3. operacoes[o].extraido \in Copia
  BY <1>1, <1>2 DEF Operacao
<1> QED BY <1>2, <1>3 DEF Copia

LEMMA CarregarDumpCopias ==
  ASSUME CopiasInv, NEW o \in Operacoes, CarregarDump(o)
  PROVE  CopiasInv'
<1> DEFINE p == operacoes[o]
<1>1. /\ CopiasTypeOK /\ OperacoesCertas /\ p.passo = "carregar"
      /\ UNCHANGED << uploads, enviados, diretorio, limpas, relogio >>
      /\ IF EhTar(p.alvo) THEN Ir(o, "guardar") ELSE Terminar(o)
  BY DEF CopiasInv, CarregarDump
<1>2. Correndo(o) /\ RelogioCerto' /\ chegadas' = chegadas
  BY <1>1, Andando, RelogioParado DEF DeRestauracao
<1>3. p.extraido # NaoHa /\ p.extraido.banco \in SUBSET Grupos
  BY <1>1, DumpLido
<1>4. PICK lidas \in SUBSET p.extraido.banco : banco' = banco \cup lidas
  BY DEF CarregarDump
<1>5. banco' \in SUBSET Grupos
  BY <1>1, <1>3, <1>4 DEF CopiasTypeOK
<1>6. /\ operacoes' \in [Operacoes -> {Parada} \cup Operacao] /\ OperacoesCertas'
      /\ \A q \in Operacoes \ {o} : operacoes'[q] = operacoes[q]
      /\ operacoes'[o].passo \notin {"esvaziar", "repor"}
  <2>1. CASE EhTar(p.alvo)
    BY <1>1, <1>2, <1>3, <2>1, Vai DEF DeRestauracao
  <2>2. CASE ~EhTar(p.alvo)
    BY <1>1, <1>2, <2>2, Acaba
  <2> QED BY <2>1, <2>2
<1> QED BY <1>1, <1>2, <1>5, <1>6, SoOperacao

LEMMA TodasParadas ==
  ASSUME CopiasInv, operacoes' = [q \in Operacoes |-> Parada], RelogioCerto',
         UNCHANGED << banco, uploads, enviados, diretorio, limpas >>
  PROVE  CopiasInv'
<1>1. CopiasTypeOK /\ ProntosDoNome
  BY DEF CopiasInv
<1>2. \A q \in Operacoes : operacoes'[q] = Parada
  OBVIOUS
<1>3. diretorio' \in [Nomes -> Copia \cup {NaoHa}] /\ ProntosDoNome'
  BY <1>1, DiretorioParado
<1>4. CopiasTypeOK'
  BY <1>1, <1>3 DEF CopiasTypeOK, RelogioCerto
<1>5. OperacoesCertas'
  BY <1>2 DEF OperacoesCertas, NumerosDistintos, Correndo
<1>6. UploadsCopiados'
  BY <1>2 DEF UploadsCopiados, Parada
<1> QED BY <1>3, <1>4, <1>5, <1>6 DEF CopiasInv

LEMMA GuardarUploadsCopias ==
  ASSUME CopiasInv, NEW o \in Operacoes, GuardarUploads(o)
  PROVE  CopiasInv'
<1> DEFINE p == operacoes[o]
           n == Guardados(p)
           c == [ banco |-> {}, uploads |-> uploads, mtime |-> segundo, pronto |-> 0 ]
<1>1. /\ CopiasTypeOK /\ OperacoesCertas /\ ProntosDoNome /\ UploadsCopiados
      /\ p.passo = "guardar" /\ Ir(o, "esvaziar") /\ uploads' = Presentes(uploads)
      /\ UNCHANGED << banco, enviados, limpas, relogio >>
      /\ diretorio' = [diretorio EXCEPT ![n] = IF uploads = SemUploads THEN @ ELSE c]
  BY DEF CopiasInv, GuardarUploads
<1>2. /\ p \in Operacao /\ Correndo(o) /\ OperacaoCerta(p)
      /\ RelogioCerto' /\ chegadas' = chegadas
  BY <1>1, Andando, RelogioParado DEF OperacoesCertas, DeRestauracao
<1>3. n \in Nomes /\ n[1] = "uploads_old"
  BY <1>2, NomesDaOperacao
<1>4. p.extraido # NaoHa
  BY <1>1, <1>2 DEF OperacaoCerta
<1>5. /\ operacoes' \in [Operacoes -> {Parada} \cup Operacao] /\ OperacoesCertas'
      /\ \A q \in Operacoes \ {o} : operacoes'[q] = operacoes[q]
      /\ operacoes'[o].passo = "esvaziar" /\ operacoes'[o].numero = p.numero
  BY <1>1, <1>2, <1>4, Vai DEF DeRestauracao
<1>6. uploads' \in SUBSET Enviaveis /\ uploads' # SemUploads /\ Presentes(uploads') = uploads'
  BY <1>1, PresentesEnviaveis
<1> DEFINE v == IF uploads = SemUploads THEN diretorio[n] ELSE c
<1>7. v \in Copia \cup {NaoHa} /\ (v # NaoHa => v.pronto = 0)
  <2>1. CASE uploads = SemUploads
    <3>1. v = diretorio[n] /\ v \in Copia \cup {NaoHa}
      BY <1>1, <1>3, <2>1 DEF CopiasTypeOK
    <3>2. v # NaoHa => v.pronto = 0
      <4> SUFFICES ASSUME v # NaoHa, v.pronto # 0 PROVE FALSE
        OBVIOUS
      <4>1. Ha(n) /\ diretorio[n].pronto # 0
        BY <3>1 DEF Ha
      <4>2. n[1] \in {"full.sql", "full.tar.gz", "desarquivamentos.sql"}
        BY <1>1, <1>3, <4>1 DEF ProntosDoNome
      <4> QED BY <1>3, <4>2
    <3> QED BY <3>1, <3>2
  <2>2. CASE uploads # SemUploads
    <3>1. uploads \in SUBSET Enviaveis /\ segundo \in Segundos
      BY <1>1, <2>2 DEF CopiasTypeOK
    <3>2. c \in Copia /\ c.pronto = 0
      BY <3>1, LimitesDeCopias DEF Copia, Grupos
    <3> HIDE DEF c, n
    <3> QED BY <2>2, <3>2
  <2> QED BY <2>1, <2>2
<1>8. diretorio' = [diretorio EXCEPT ![n] = v]
  <2>1. diretorio \in [Nomes -> Copia \cup {NaoHa}]
    BY <1>1 DEF CopiasTypeOK
  <2> HIDE DEF c, n
  <2> QED BY <1>1, <1>3, <2>1
<1>9. uploads # SemUploads => v # NaoHa /\ v.uploads = uploads
  <2> SUFFICES ASSUME uploads # SemUploads PROVE v # NaoHa /\ v.uploads = uploads
    OBVIOUS
  <2>1. v = c /\ c.uploads = uploads
    OBVIOUS
  <2>2. uploads \in SUBSET Enviaveis /\ segundo \in Segundos
    BY <1>1 DEF CopiasTypeOK
  <2>3. c \in Copia
    BY <2>2, LimitesDeCopias DEF Copia, Grupos
  <2> QED BY <2>1, <2>3, TiposDeNomes
<1> HIDE DEF v
<1>10. /\ diretorio' \in [Nomes -> Copia \cup {NaoHa}] /\ ProntosDoNome'
       /\ diretorio'[n] = v /\ \A m \in Nomes \ {n} : diretorio'[m] = diretorio[m]
  <2> HIDE DEF n, c
  <2> QED BY <1>1, <1>3, <1>7, <1>8, Escreve
<1>11. ASSUME NEW q \in Operacoes, operacoes'[q].passo = "esvaziar",
              NEW f \in Presentes(uploads')
       PROVE  TemCopia(operacoes[q], f)'
  <2>1. f \in uploads' /\ uploads # SemUploads /\ f \in uploads /\ f \in Presentes(uploads)
    BY <1>1, <1>6, <1>11 DEF Presentes
  <2>2. CASE q = o
    <3>1. Guardados(operacoes[q])' = n
      BY <1>5, <2>2 DEF Guardados
    <3>2. diretorio'[n] # NaoHa /\ f \in diretorio'[n].uploads
      BY <1>9, <1>10, <2>1
    <3> HIDE DEF n
    <3> QED BY <3>1, <3>2 DEF TemCopia, Ha
  <2>3. CASE q # o
    <3>1. operacoes'[q] = operacoes[q] /\ operacoes[q].passo = "esvaziar"
      BY <1>5, <1>11, <2>3
    <3>2. operacoes[q] \in Operacao /\ Correndo(q)
      BY <1>1, <3>1, Andando DEF DeRestauracao
    <3>3. operacoes[q].numero # p.numero
      BY <1>1, <1>2, <2>3, <3>2 DEF OperacoesCertas, NumerosDistintos
    <3>4. Guardados(operacoes[q]) \in Nomes \ {n}
      BY <3>2, <3>3, NomesDaOperacao DEF Guardados
    <3>5. diretorio'[Guardados(operacoes[q])] = diretorio[Guardados(operacoes[q])]
      BY <1>10, <3>4
    <3>6. Guardados(operacoes[q])' = Guardados(operacoes[q])
      BY <3>1 DEF Guardados
    <3>7. TemCopia(operacoes[q], f)
      BY <1>1, <2>1, <3>1 DEF UploadsCopiados
    <3> QED BY <1>1, <3>1, <3>5, <3>6, <3>7 DEF TemCopia, Ha
  <2> QED BY <2>2, <2>3
<1>12. UploadsCopiados'
  BY <1>6, <1>11 DEF UploadsCopiados
<1>13. CopiasTypeOK'
  BY <1>1, <1>2, <1>5, <1>6, <1>10 DEF CopiasTypeOK, RelogioCerto
<1> QED BY <1>5, <1>10, <1>12, <1>13 DEF CopiasInv

\* What is left to show of a step that only changes uploads/ and the operations.
LEMMA SoUploads ==
  ASSUME CopiasInv, banco' \in SUBSET Grupos, enviados' \in SUBSET Enviaveis,
         UNCHANGED << diretorio, limpas, relogio >>,
         uploads' \in (SUBSET Enviaveis) \cup {SemUploads},
         operacoes' \in [Operacoes -> {Parada} \cup Operacao], OperacoesCertas',
         \A q \in Operacoes :
            operacoes'[q].passo \in {"esvaziar", "repor"} => uploads' # SemUploads,
         \A q \in Operacoes : operacoes'[q].passo = "esvaziar" =>
            /\ operacoes[q].passo = "esvaziar" /\ operacoes'[q].numero = operacoes[q].numero
            /\ operacoes[q].novos \subseteq operacoes'[q].novos
            /\ \A f \in Presentes(uploads') :
                  f \in Presentes(uploads) \/ f \in operacoes'[q].novos
  PROVE  CopiasInv'
<1>1. CopiasTypeOK /\ ProntosDoNome /\ UploadsCopiados
  BY DEF CopiasInv
<1>2. diretorio' \in [Nomes -> Copia \cup {NaoHa}] /\ ProntosDoNome' /\ RelogioCerto'
  BY <1>1, DiretorioParado, RelogioParado
<1>3. CopiasTypeOK'
  BY <1>1, <1>2 DEF CopiasTypeOK, RelogioCerto
<1>4. limpas \subseteq limpas' /\ \A n \in Nomes : diretorio'[n] = diretorio[n]
  OBVIOUS
<1>5. UploadsCopiados'
  BY <1>1, <1>4, UploadsFicam
<1> QED BY <1>2, <1>3, <1>5 DEF CopiasInv

LEMMA EsvaziarCopias ==
  ASSUME CopiasInv, NEW o \in Operacoes, Esvaziar(o)
  PROVE  CopiasInv'
<1> DEFINE p == operacoes[o]
<1>1. /\ CopiasTypeOK /\ OperacoesCertas /\ ProntosDoNome
      /\ p.passo = "esvaziar" /\ Ir(o, "repor") /\ uploads' = {}
      /\ UNCHANGED << banco, enviados, diretorio, limpas, relogio >>
  BY DEF CopiasInv, Esvaziar
<1>2. /\ p \in Operacao /\ Correndo(o) /\ OperacaoCerta(p)
      /\ RelogioCerto' /\ chegadas' = chegadas
  BY <1>1, Andando, RelogioParado DEF OperacoesCertas, DeRestauracao
<1>3. p.extraido # NaoHa
  BY <1>1, <1>2 DEF OperacaoCerta
<1>4. /\ operacoes' \in [Operacoes -> {Parada} \cup Operacao] /\ OperacoesCertas'
      /\ \A q \in Operacoes \ {o} : operacoes'[q] = operacoes[q]
      /\ operacoes'[o].passo = "repor"
  BY <1>1, <1>2, <1>3, Vai DEF DeRestauracao
<1>5. {} \in SUBSET Enviaveis
  OBVIOUS
<1>6. /\ banco' \in SUBSET Grupos /\ uploads' \in SUBSET Enviaveis
      /\ uploads' # SemUploads /\ Presentes(uploads') = {} /\ enviados' \in SUBSET Enviaveis
  BY <1>1, <1>5, PresentesEnviaveis DEF CopiasTypeOK
<1>7. \A q \in Operacoes : operacoes'[q].passo = "esvaziar" => operacoes'[q] = operacoes[q]
  BY <1>4
<1> QED BY <1>1, <1>4, <1>6, <1>7, SoUploads

\* Files come to uploads/, and ops is what the operations are but for that.
LEMMA ChegamAoSegue ==
  ASSUME CopiasInv, NEW ops \in [Operacoes -> {Parada} \cup Operacao],
         NEW fs \in SUBSET Enviaveis, operacoes' = Chegaram(ops, fs),
         \A q \in Operacoes : ops[q] # Parada =>
            OperacaoCerta(ops[q]) /\ ops[q].numero <= chegadas,
         \A q, t \in Operacoes : ops[q] # Parada /\ ops[t] # Parada /\ q # t =>
            ops[q].numero # ops[t].numero,
         \A q \in Operacoes : ops[q].passo \in {"esvaziar", "repor"} => ops[q] = operacoes[q],
         uploads' = Presentes(uploads) \cup fs, enviados' \in SUBSET Enviaveis,
         UNCHANGED << banco, diretorio, limpas, relogio >>
  PROVE  CopiasInv'
<1>1. CopiasTypeOK /\ ProntosDoNome
  BY DEF CopiasInv
<1>2. \A q \in Operacoes :
         /\ operacoes'[q] = Parada <=> ops[q] = Parada
         /\ ops[q] # Parada =>
               /\ operacoes'[q].passo = ops[q].passo /\ operacoes'[q].numero = ops[q].numero
               /\ ops[q].novos \subseteq operacoes'[q].novos
               /\ ops[q].faz = "restaurar" => fs \subseteq operacoes'[q].novos
               /\ OperacaoCerta(operacoes'[q])
  BY Chegam
<1>3. operacoes' \in [Operacoes -> {Parada} \cup Operacao]
  <2>1. CASE Operacoes = {}
    <3>1. Chegaram(ops, fs) = [q \in Operacoes |-> Parada]
      BY <2>1 DEF Chegaram
    <3> QED BY <3>1
  <2>2. CASE Operacoes # {}
    BY <2>2, Chegam
  <2> QED BY <2>1, <2>2
<1>4. chegadas' = chegadas
  BY DEF relogio
<1>5. OperacoesCertas'
  <2>1. ASSUME NEW q \in Operacoes, Correndo(q)'
        PROVE  ops[q] # Parada /\ OperacaoCerta(operacoes'[q])
               /\ operacoes'[q].numero <= chegadas' /\ operacoes'[q].numero = ops[q].numero
    BY <1>2, <1>4, <2>1 DEF Correndo
  <2>2. NumerosDistintos'
    BY <2>1 DEF NumerosDistintos
  <2> QED BY <2>1, <2>2 DEF OperacoesCertas
<1>6. uploads' \in SUBSET Enviaveis /\ uploads' # SemUploads /\ Presentes(uploads') = uploads'
  BY <1>1, PresentesEnviaveis
<1>7. ASSUME NEW q \in Operacoes, operacoes'[q].passo = "esvaziar"
      PROVE  /\ operacoes[q].passo = "esvaziar" /\ operacoes'[q].numero = operacoes[q].numero
             /\ operacoes[q].novos \subseteq operacoes'[q].novos
             /\ \A f \in Presentes(uploads') :
                   f \in Presentes(uploads) \/ f \in operacoes'[q].novos
  <2>1. ops[q] # Parada
    BY <1>2, <1>7 DEF Parada
  <2>2. ops[q].passo = "esvaziar" /\ ops[q] = operacoes[q]
    BY <1>2, <1>7, <2>1
  <2>3. ops[q].faz = "restaurar"
    BY <2>1, <2>2 DEF OperacaoCerta, DeRestauracao
  <2>4. /\ operacoes'[q].numero = ops[q].numero /\ ops[q].novos \subseteq operacoes'[q].novos
        /\ fs \subseteq operacoes'[q].novos
    BY <1>2, <2>1, <2>3
  <2>5. Presentes(uploads') = Presentes(uploads) \cup fs
    BY <1>6
  <2> QED BY <2>2, <2>4, <2>5
<1>8. banco' \in SUBSET Grupos /\ UNCHANGED << diretorio, limpas, relogio >>
  BY <1>1 DEF CopiasTypeOK
<1> QED BY <1>3, <1>5, <1>6, <1>7, <1>8, SoUploads

\* The restore o ends, when the files fs have been put back.
LEMMA ReporCopias ==
  ASSUME CopiasInv, NEW o \in Operacoes, operacoes[o].passo = "repor",
         NEW fs, fs \subseteq operacoes[o].extraido.uploads, uploads' = uploads \cup fs,
         operacoes' = Chegaram([operacoes EXCEPT ![o] = AoFim(operacoes[o])], fs),
         UNCHANGED << banco, enviados, diretorio, limpas, relogio >>
  PROVE  CopiasInv'
<1> DEFINE p == operacoes[o]
           ops == [operacoes EXCEPT ![o] = AoFim(p)]
<1>1. CopiasTypeOK /\ OperacoesCertas /\ UploadsCopiados
  BY DEF CopiasInv
<1>2. /\ p \in Operacao /\ Correndo(o) /\ OperacaoCerta(p) /\ p.numero <= chegadas
      /\ p.extraido # NaoHa
  BY <1>1, Andando DEF OperacoesCertas, OperacaoCerta, DeRestauracao
<1>3. \/ AoFim(p) = Parada
      \/ /\ AoFim(p) \in Operacao /\ OperacaoCerta(AoFim(p)) /\ AoFim(p).passo = "listar"
         /\ AoFim(p).numero = p.numero
  BY <1>2, Fim
<1>4. fs \in SUBSET Enviaveis
  BY <1>2 DEF Operacao, Copia
<1>5. uploads' = Presentes(uploads) \cup fs
  BY <1>1 DEF UploadsCopiados, Presentes
<1>6. /\ ops \in [Operacoes -> {Parada} \cup Operacao] /\ ops[o] = AoFim(p)
      /\ \A q \in Operacoes \ {o} : ops[q] = operacoes[q]
  BY <1>1, <1>3 DEF CopiasTypeOK
<1>7. operacoes' = Chegaram(ops, fs)
  OBVIOUS
<1> HIDE DEF ops
<1>8. ASSUME NEW q \in Operacoes, ops[q] # Parada
      PROVE  /\ OperacaoCerta(ops[q]) /\ ops[q].numero <= chegadas
             /\ Correndo(q) /\ ops[q].numero = operacoes[q].numero
  BY <1>1, <1>2, <1>3, <1>6, <1>8 DEF OperacoesCertas, Correndo
<1>9. \A q, t \in Operacoes : ops[q] # Parada /\ ops[t] # Parada /\ q # t =>
         ops[q].numero # ops[t].numero
  BY <1>1, <1>8 DEF OperacoesCertas, NumerosDistintos
<1>10. \A q \in Operacoes : ops[q].passo \in {"esvaziar", "repor"} => ops[q] = operacoes[q]
  BY <1>3, <1>6 DEF Parada
<1>11. enviados' \in SUBSET Enviaveis /\ UNCHANGED << banco, diretorio, limpas, relogio >>
  BY <1>1 DEF CopiasTypeOK
<1> QED BY <1>4, <1>5, <1>6, <1>7, <1>8, <1>9, <1>10, <1>11, ChegamAoSegue

LEMMA FalharRestauracaoCopias ==
  ASSUME CopiasInv, NEW o \in Operacoes, FalharRestauracao(o)
  PROVE  CopiasInv'
<1> DEFINE p == operacoes[o]
<1>1. CopiasTypeOK /\ OperacoesCertas /\ UploadsCopiados
  BY DEF CopiasInv
<1>2. CASE /\ p.passo \in {"extrair", "truncar", "derrubar", "carregar", "guardar",
                           "esvaziar"}
           /\ Terminar(o)
           /\ \/ p.passo \in {"extrair", "guardar"} /\ UNCHANGED << banco, uploads >>
              \/ p.passo = "truncar" /\ banco' \in SUBSET banco /\ UNCHANGED uploads
              \/ /\ p.passo = "derrubar" /\ Fonte(p) # NaoHa
                 /\ \E caem \in SUBSET Fonte(p).banco : banco' = banco \ caem
                 /\ UNCHANGED uploads
              \/ /\ p.passo = "carregar"
                 /\ \E lidas \in SUBSET p.extraido.banco : banco' = banco \cup lidas
                 /\ UNCHANGED uploads
              \/ p.passo = "esvaziar" /\ uploads' \in SUBSET uploads /\ UNCHANGED banco
           /\ UNCHANGED << enviados, diretorio, limpas, relogio >>
  <2>1. /\ p \in Operacao /\ Correndo(o) /\ OperacaoCerta(p) /\ p.faz = "restaurar"
        /\ RelogioCerto' /\ chegadas' = chegadas
    BY <1>1, <1>2, Andando, RelogioParado DEF OperacoesCertas, OperacaoCerta, DeRestauracao
  <2>2. /\ operacoes' \in [Operacoes -> {Parada} \cup Operacao] /\ OperacoesCertas'
        /\ \A q \in Operacoes \ {o} : operacoes'[q] = operacoes[q]
        /\ operacoes'[o].passo \notin {"esvaziar", "repor"}
    BY <1>1, <1>2, <2>1, Acaba
  <2>3. CASE p.passo = "esvaziar"
    <3>1. uploads # SemUploads /\ uploads' \in SUBSET uploads /\ UNCHANGED banco
      BY <1>1, <1>2, <2>3 DEF UploadsCopiados
    <3>2. uploads \in SUBSET Enviaveis /\ Presentes(uploads) = uploads
      BY <1>1, <3>1 DEF CopiasTypeOK, Presentes
    <3>3. /\ uploads' \in SUBSET Enviaveis /\ uploads' # SemUploads
          /\ Presentes(uploads') \subseteq Presentes(uploads)
      BY <1>1, <3>1, <3>2, PresentesEnviaveis
    <3>4. banco' \in SUBSET Grupos /\ enviados' \in SUBSET Enviaveis
      BY <1>1, <1>2, <3>1 DEF CopiasTypeOK
    <3>5. \A q \in Operacoes : operacoes'[q].passo = "esvaziar" => operacoes'[q] = operacoes[q]
      BY <2>2
    <3>6. UNCHANGED << diretorio, limpas, relogio >>
      BY <1>2
    <3> QED BY <2>2, <3>3, <3>4, <3>5, <3>6, SoUploads
  <2>4. CASE p.passo # "esvaziar"
    <3>1. UNCHANGED << uploads, enviados, diretorio, limpas >>
      BY <1>2, <2>4
    <3>2. banco' \in SUBSET Grupos
      <4>1. CASE p.passo = "carregar"
        <5>1. \E lidas \in SUBSET p.extraido.banco : banco' = banco \cup lidas
          BY <1>2, <4>1
        <5>2. p.extraido.banco \in SUBSET Grupos
          BY <1>1, <4>1, DumpLido
        <5> QED BY <1>1, <5>1, <5>2 DEF CopiasTypeOK
      <4>2. CASE p.passo # "carregar"
        <5>1. banco' \subseteq banco
          BY <1>2, <2>4, <4>2
        <5> QED BY <1>1, <5>1 DEF CopiasTypeOK
      <4> QED BY <4>1, <4>2
    <3> QED BY <2>1, <2>2, <3>1, <3>2, SoOperacao
  <2> QED BY <2>3, <2>4
<1>3. CASE /\ p.passo = "repor"
           /\ \E fs \in SUBSET p.extraido.uploads :
                 /\ uploads' = uploads \cup fs
                 /\ operacoes' = Chegaram([operacoes EXCEPT ![o] = AoFim(p)], fs)
           /\ UNCHANGED << banco, enviados, diretorio, limpas, relogio >>
  BY <1>3, ReporCopias
<1> QED BY <1>2, <1>3 DEF FalharRestauracao

LEMMA EnviarCopias ==
  ASSUME CopiasInv, NEW f \in Enviaveis, EnviarParaUploads(f)
  PROVE  CopiasInv'
<1>1. CopiasTypeOK /\ OperacoesCertas
  BY DEF CopiasInv
<1>2. /\ operacoes \in [Operacoes -> {Parada} \cup Operacao] /\ {f} \in SUBSET Enviaveis
      /\ operacoes' = Chegaram(operacoes, {f}) /\ uploads' = Presentes(uploads) \cup {f}
      /\ enviados' \in SUBSET Enviaveis /\ UNCHANGED << banco, diretorio, limpas, relogio >>
  BY <1>1 DEF CopiasTypeOK, EnviarParaUploads
<1>3. /\ \A q \in Operacoes : operacoes[q] # Parada =>
            OperacaoCerta(operacoes[q]) /\ operacoes[q].numero <= chegadas
      /\ \A q, t \in Operacoes : operacoes[q] # Parada /\ operacoes[t] # Parada /\ q # t =>
            operacoes[q].numero # operacoes[t].numero
  BY <1>1 DEF OperacoesCertas, NumerosDistintos, Correndo
<1> QED BY <1>2, <1>3, ChegamAoSegue

LEMMA ExcluirCopias ==
  ASSUME CopiasInv, NEW f \in Enviaveis, ExcluirDeUploads(f)
  PROVE  CopiasInv'
<1>1. CopiasTypeOK /\ OperacoesCertas /\ UploadsCopiados
  BY DEF CopiasInv
<1>2. /\ f \in Presentes(uploads) /\ uploads' = uploads \ {f}
      /\ UNCHANGED << banco, enviados, diretorio, operacoes, limpas, relogio >>
  BY DEF ExcluirDeUploads
<1>3. uploads # SemUploads /\ Presentes(uploads) = uploads
  BY <1>2 DEF Presentes
<1>4. uploads' \in SUBSET Enviaveis
  BY <1>1, <1>2, <1>3 DEF CopiasTypeOK
<1>5. uploads' # SemUploads /\ Presentes(uploads') \subseteq Presentes(uploads)
  BY <1>1, <1>2, <1>3, <1>4, PresentesEnviaveis
<1>6. OperacoesCertas'
  <2>1. operacoes' = operacoes /\ chegadas' = chegadas
    BY <1>2 DEF relogio
  <2> QED BY <1>1, <2>1 DEF OperacoesCertas, NumerosDistintos, Correndo
<1>7. /\ banco' \in SUBSET Grupos /\ enviados' \in SUBSET Enviaveis
      /\ operacoes' \in [Operacoes -> {Parada} \cup Operacao]
  BY <1>1, <1>2 DEF CopiasTypeOK
<1> QED BY <1>2, <1>4, <1>5, <1>6, <1>7, SoUploads

\* A cleaning that goes on: with another step, list or policy.
LEMMA MudaLimpeza ==
  ASSUME NEW p \in Operacao, OperacaoCerta(p), p.passo \in DeLimpeza
  PROVE  /\ \A vs \in SUBSET Nomes :
               LET x == [p EXCEPT !.passo = "remover", !.lista = vs]
               IN  x \in Operacao /\ OperacaoCerta(x) /\ x.numero = p.numero
                   /\ x.passo = "remover"
         /\ \A vs \in SUBSET Nomes :
               LET x == [p EXCEPT !.lista = vs]
               IN  x \in Operacao /\ OperacaoCerta(x) /\ x.numero = p.numero
                   /\ x.passo = p.passo
         /\ p.politica # 3 =>
               LET x == [p EXCEPT !.passo = "listar", !.politica = @ + 1]
               IN  x \in Operacao /\ OperacaoCerta(x) /\ x.numero = p.numero
                   /\ x.passo = "listar"
<1>1. ASSUME NEW x \in Operacao, x.s = p.s, x.pedido = p.pedido, x.faz = p.faz,
             x.passo \in DeLimpeza, x.alvo = p.alvo
      PROVE  OperacaoCerta(x)
  BY <1>1 DEF OperacaoCerta, DeBackup, DeRestauracao, DeLimpeza
<1>2. ASSUME NEW vs \in SUBSET Nomes
      PROVE  LET x == [p EXCEPT !.passo = "remover", !.lista = vs]
             IN  x \in Operacao /\ OperacaoCerta(x) /\ x.numero = p.numero
                 /\ x.passo = "remover"
  <2> DEFINE y == [p EXCEPT !.passo = "remover"]
             x == [y EXCEPT !.lista = vs]
  <2>1. /\ y \in Operacao /\ y.passo = "remover" /\ y.faz = p.faz /\ y.s = p.s
        /\ y.pedido = p.pedido /\ y.numero = p.numero /\ y.alvo = p.alvo
    BY Muda
  <2>2. x = [p EXCEPT !.passo = "remover", !.lista = vs]
    OBVIOUS
  <2> HIDE DEF y
  <2>3. /\ x \in Operacao /\ x.passo = "remover" /\ x.faz = p.faz /\ x.s = p.s
        /\ x.pedido = p.pedido /\ x.numero = p.numero /\ x.alvo = p.alvo
    BY <2>1 DEF Operacao
  <2> HIDE DEF x
  <2>4. OperacaoCerta(x)
    BY <1>1, <2>3 DEF DeLimpeza
  <2> QED BY <2>2, <2>3, <2>4
<1>3. ASSUME NEW vs \in SUBSET Nomes
      PROVE  LET x == [p EXCEPT !.lista = vs]
             IN  x \in Operacao /\ OperacaoCerta(x) /\ x.numero = p.numero
                 /\ x.passo = p.passo
  <2> DEFINE x == [p EXCEPT !.lista = vs]
  <2>3. /\ x \in Operacao /\ x.passo = p.passo /\ x.faz = p.faz /\ x.s = p.s
        /\ x.pedido = p.pedido /\ x.numero = p.numero /\ x.alvo = p.alvo
    BY DEF Operacao
  <2> HIDE DEF x
  <2>4. OperacaoCerta(x)
    BY <1>1, <2>3
  <2> QED BY <2>3, <2>4 DEF x
<1>4. ASSUME p.politica # 3
      PROVE  LET x == [p EXCEPT !.passo = "listar", !.politica = @ + 1]
             IN  x \in Operacao /\ OperacaoCerta(x) /\ x.numero = p.numero
                 /\ x.passo = "listar"
  <2> DEFINE y == [p EXCEPT !.passo = "listar"]
             x == [y EXCEPT !.politica = p.politica + 1]
  <2>1. /\ y \in Operacao /\ y.passo = "listar" /\ y.faz = p.faz /\ y.s = p.s
        /\ y.pedido = p.pedido /\ y.numero = p.numero /\ y.alvo = p.alvo
    BY Muda
  <2>2. x = [p EXCEPT !.passo = "listar", !.politica = @ + 1]
    OBVIOUS
  <2>5. p.politica + 1 \in 1 .. 3
    BY <1>4 DEF Operacao
  <2> HIDE DEF y
  <2>3. /\ x \in Operacao /\ x.passo = "listar" /\ x.faz = p.faz /\ x.s = p.s
        /\ x.pedido = p.pedido /\ x.numero = p.numero /\ x.alvo = p.alvo
    BY <2>1, <2>5 DEF Operacao
  <2> HIDE DEF x
  <2>4. OperacaoCerta(x)
    BY <1>1, <2>3 DEF DeLimpeza
  <2> QED BY <2>2, <2>3, <2>4
<1> QED BY <1>2, <1>3, <1>4

LEMMA ListarCopias ==
  ASSUME CopiasInv, NEW o \in Operacoes, Listar(o)
  PROVE  CopiasInv'
<1> DEFINE p == operacoes[o]
<1>1. /\ CopiasTypeOK /\ OperacoesCertas /\ p.passo = "listar"
      /\ UNCHANGED << banco, uploads, enviados, diretorio, limpas, relogio >>
  BY DEF CopiasInv, Listar
<1>2. PICK vs \in SUBSET Gerenciadas :
         operacoes' = [operacoes EXCEPT ![o].passo = "remover", ![o].lista = vs]
  BY DEF Listar
<1>3. /\ p \in Operacao /\ Correndo(o) /\ OperacaoCerta(p) /\ p.numero <= chegadas
      /\ RelogioCerto' /\ chegadas' = chegadas
  BY <1>1, Andando, RelogioParado DEF OperacoesCertas, DeLimpeza
<1>4. vs \in SUBSET Nomes
  BY DEF Gerenciadas
<1> DEFINE x == [p EXCEPT !.passo = "remover", !.lista = vs]
<1>5. x \in Operacao /\ OperacaoCerta(x) /\ x.numero = p.numero /\ x.passo = "remover"
  BY <1>1, <1>3, <1>4, MudaLimpeza DEF DeLimpeza
<1>6. operacoes' = [operacoes EXCEPT ![o] = x]
  <2>1. operacoes \in [Operacoes -> {Parada} \cup Operacao]
    BY <1>1 DEF CopiasTypeOK
  <2> QED BY <1>2, <2>1
<1> HIDE DEF x
<1>7. Sucede(o, x) /\ chegadas' \in 0 .. MaxOperacoes /\ chegadas <= chegadas'
  BY <1>1, <1>3, <1>5, LimitesDeCopias DEF Sucede, CopiasTypeOK
<1>8. /\ operacoes' \in [Operacoes -> {Parada} \cup Operacao] /\ OperacoesCertas'
      /\ operacoes'[o] = x
      /\ \A q \in Operacoes \ {o} : operacoes'[q] = operacoes[q]
  BY <1>1, <1>6, <1>7, OperacaoSucede
<1>9. operacoes'[o].passo \notin {"esvaziar", "repor"} /\ banco' \in SUBSET Grupos
  BY <1>1, <1>5, <1>8 DEF CopiasTypeOK
<1> QED BY <1>1, <1>3, <1>8, <1>9, SoOperacao

LEMMA RemoverCopias ==
  ASSUME CopiasInv, NEW o \in Operacoes, Remover(o)
  PROVE  CopiasInv'
<1> DEFINE p == operacoes[o]
<1>1. /\ CopiasTypeOK /\ OperacoesCertas /\ ProntosDoNome /\ p.passo = "remover"
      /\ UNCHANGED << banco, uploads, enviados, relogio >>
  BY DEF CopiasInv, Remover
<1>2. /\ p \in Operacao /\ Correndo(o) /\ OperacaoCerta(p) /\ p.numero <= chegadas
      /\ RelogioCerto' /\ chegadas' = chegadas /\ p.lista \in SUBSET Nomes
  BY <1>1, Andando, RelogioParado DEF OperacoesCertas, DeLimpeza, Operacao
<1>3. ASSUME NEW x, operacoes' = [operacoes EXCEPT ![o] = x],
             \/ x = Parada
             \/ /\ x \in Operacao /\ OperacaoCerta(x) /\ x.numero = p.numero
                /\ x.passo \in DeLimpeza
      PROVE  /\ operacoes' \in [Operacoes -> {Parada} \cup Operacao] /\ OperacoesCertas'
             /\ \A q \in Operacoes \ {o} : operacoes'[q] = operacoes[q]
             /\ operacoes'[o].passo \notin {"esvaziar", "repor"}
  <2>1. Sucede(o, x) /\ chegadas' \in 0 .. MaxOperacoes /\ chegadas <= chegadas'
    BY <1>1, <1>2, <1>3, LimitesDeCopias DEF Sucede, CopiasTypeOK
  <2>2. /\ operacoes' \in [Operacoes -> {Parada} \cup Operacao] /\ OperacoesCertas'
        /\ operacoes'[o] = x
        /\ \A q \in Operacoes \ {o} : operacoes'[q] = operacoes[q]
    BY <1>1, <1>3, <2>1, OperacaoSucede
  <2>3. x.passo \notin {"esvaziar", "repor"}
    BY <1>3 DEF Parada, DeLimpeza
  <2> QED BY <2>2, <2>3
<1>4. banco' \in SUBSET Grupos /\ limpas \in SUBSET Nomes
  BY <1>1 DEF CopiasTypeOK
<1>5. ASSUME NEW n \in p.lista,
             diretorio' = [diretorio EXCEPT ![n] = NaoHa],
             limpas' = IF n[1] = "uploads_old" THEN limpas \cup {n} ELSE limpas,
             operacoes' = [operacoes EXCEPT ![o] =
                IF Ha(n) \/ n[1] = "uploads_old" THEN [p EXCEPT !.lista = @ \ {n}]
                ELSE Parada]
      PROVE  CopiasInv'
  <2>1. n \in Nomes /\ p.lista \ {n} \in SUBSET Nomes
    BY <1>2
  <2> DEFINE y == [p EXCEPT !.lista = p.lista \ {n}]
             x == IF Ha(n) \/ n[1] = "uploads_old" THEN y ELSE Parada
  <2>2. /\ y \in Operacao /\ OperacaoCerta(y) /\ y.numero = p.numero
        /\ y.passo \in DeLimpeza
    BY <1>1, <1>2, <2>1, MudaLimpeza DEF DeLimpeza
  <2>3. operacoes' = [operacoes EXCEPT ![o] = x]
    BY <1>5
  <2> HIDE DEF y
  <2>4. \/ x = Parada
        \/ /\ x \in Operacao /\ OperacaoCerta(x) /\ x.numero = p.numero
           /\ x.passo \in DeLimpeza
    BY <2>2
  <2> HIDE DEF x
  <2>5. /\ operacoes' \in [Operacoes -> {Parada} \cup Operacao] /\ OperacoesCertas'
        /\ \A q \in Operacoes \ {o} : operacoes'[q] = operacoes[q]
        /\ operacoes'[o].passo \notin {"esvaziar", "repor"}
    BY <1>3, <2>3, <2>4
  <2>6. /\ diretorio' \in [Nomes -> Copia \cup {NaoHa}] /\ ProntosDoNome'
        /\ \A m \in Nomes \ {n} : diretorio'[m] = diretorio[m]
    BY <1>1, <1>5, <2>1, Escreve
  <2>7. limpas \subseteq limpas' /\ limpas' \in SUBSET Nomes
        /\ (n[1] = "uploads_old" => n \in limpas')
    BY <1>4, <1>5, <2>1
  <2>8. \A m \in Nomes : m[1] = "uploads_old" /\ diretorio'[m] # diretorio[m] => m \in limpas'
    BY <2>6, <2>7
  <2> QED BY <1>1, <1>2, <1>4, <2>5, <2>6, <2>7, <2>8, InvSegue
<1>6. CASE /\ p.lista = {}
           /\ operacoes' = [operacoes EXCEPT ![o] =
                 IF p.politica = 3 THEN Parada
                 ELSE [p EXCEPT !.passo = "listar", !.politica = @ + 1]]
           /\ UNCHANGED << diretorio, limpas >>
  <2> DEFINE y == [p EXCEPT !.passo = "listar", !.politica = @ + 1]
             x == IF p.politica = 3 THEN Parada ELSE y
  <2>1. p.politica # 3 => /\ y \in Operacao /\ OperacaoCerta(y) /\ y.numero = p.numero
                          /\ y.passo \in DeLimpeza
    BY <1>1, <1>2, MudaLimpeza DEF DeLimpeza
  <2>2. operacoes' = [operacoes EXCEPT ![o] = x]
    BY <1>6
  <2> HIDE DEF y
  <2>3. \/ x = Parada
        \/ /\ x \in Operacao /\ OperacaoCerta(x) /\ x.numero = p.numero
           /\ x.passo \in DeLimpeza
    BY <2>1
  <2> HIDE DEF x
  <2>4. /\ operacoes' \in [Operacoes -> {Parada} \cup Operacao] /\ OperacoesCertas'
        /\ \A q \in Operacoes \ {o} : operacoes'[q] = operacoes[q]
        /\ operacoes'[o].passo \notin {"esvaziar", "repor"}
    BY <1>3, <2>2, <2>3
  <2>5. UNCHANGED << uploads, enviados, diretorio, limpas >>
    BY <1>1, <1>6
  <2> QED BY <1>2, <1>4, <2>4, <2>5, SoOperacao
<1> QED BY <1>5, <1>6 DEF Remover

LEMMA CairCopias ==
  ASSUME CopiasInv, Cair
  PROVE  CopiasInv'
<1>1. RelogioCerto' /\ operacoes' = [q \in Operacoes |-> Parada]
      /\ UNCHANGED << banco, uploads, enviados, diretorio, limpas >>
  BY LimitesDeCopias DEF Cair, CopiasInv, CopiasTypeOK, RelogioCerto
<1> QED BY <1>1, TodasParadas

LEMMA DumpSumidoCopias ==
  ASSUME CopiasInv, NEW o \in Operacoes, DumpSumido(o)
  PROVE  CopiasInv'
<1>1. RelogioCerto' /\ operacoes' = [q \in Operacoes |-> Parada]
      /\ UNCHANGED << banco, uploads, enviados, diretorio, limpas >>
  BY RelogioParado DEF DumpSumido, CopiasInv
<1> QED BY <1>1, TodasParadas

\* Only the clock changes, or nothing.
LEMMA TudoParado ==
  ASSUME CopiasInv, RelogioCerto', chegadas' = chegadas,
         UNCHANGED << banco, uploads, enviados, diretorio, operacoes, limpas >>
  PROVE  CopiasInv'
<1>1. CopiasTypeOK'
  BY DEF CopiasInv, CopiasTypeOK, RelogioCerto
<1>2. OperacoesCertas'
  BY DEF CopiasInv, OperacoesCertas, NumerosDistintos, Correndo
<1>3. ProntosDoNome'
  BY DEF CopiasInv, ProntosDoNome, Ha
<1>4. UploadsCopiados'
  BY DEF CopiasInv, UploadsCopiados, TemCopia, Guardados, Ha, Presentes
<1> QED BY <1>1, <1>2, <1>3, <1>4 DEF CopiasInv

LEMMA PassarSegundoCopias ==
  ASSUME CopiasInv, PassarSegundo
  PROVE  CopiasInv'
<1>1. segundo' \in Segundos
  BY LimitesDeCopias DEF PassarSegundo, CopiasInv, CopiasTypeOK, Segundos
<1>2. RelogioCerto' /\ chegadas' = chegadas
      /\ UNCHANGED << banco, uploads, enviados, diretorio, operacoes, limpas >>
  BY <1>1 DEF PassarSegundo, CopiasInv, CopiasTypeOK, RelogioCerto
<1> QED BY <1>2, TudoParado

LEMMA InicioDeCopias ==
  ASSUME InitCopias
  PROVE  CopiasInv
<1>1. /\ banco \in SUBSET Grupos /\ uploads \in (SUBSET Enviaveis) \cup {SemUploads}
      /\ enviados \in SUBSET Enviaveis /\ limpas \in SUBSET Nomes
      /\ segundo \in Segundos /\ chegadas \in 0 .. MaxOperacoes /\ quedas \in 0 .. MaxQuedas
  BY LimitesDeCopias DEF InitCopias, Segundos
<1>2. operacoes = [o \in Operacoes |-> Parada] /\ \A o \in Operacoes : operacoes[o] = Parada
  BY DEF InitCopias
<1> DEFINE c == [ banco |-> Grupos, uploads |-> {}, mtime |-> 1, pronto |-> 1 ]
<1>3. c \in Copia /\ c.pronto = 1
  BY TiposDeNomes DEF Copia, Grupos
<1>4. PICK prontas \in { {}, {<< "full.tar.gz", 1 >>} } :
         diretorio = [n \in Nomes |-> IF n \notin prontas THEN NaoHa ELSE c]
  BY DEF InitCopias
<1> HIDE DEF c
<1>5. diretorio \in [Nomes -> Copia \cup {NaoHa}]
  BY <1>3, <1>4
<1>6. ProntosDoNome
  <2> SUFFICES ASSUME NEW n \in Nomes, Ha(n), diretorio[n].pronto # 0
               PROVE  /\ diretorio[n].pronto = n[2]
                      /\ n[1] \in {"full.sql", "full.tar.gz", "desarquivamentos.sql"}
    BY DEF ProntosDoNome
  <2>1. diretorio[n] = c /\ n \in prontas
    BY <1>4 DEF Ha
  <2>2. n = << "full.tar.gz", 1 >>
    BY <2>1
  <2> QED BY <1>3, <2>1, <2>2
<1>7. OperacoesCertas
  BY <1>2 DEF OperacoesCertas, NumerosDistintos, Correndo
<1>8. UploadsCopiados
  BY <1>2 DEF UploadsCopiados, Parada
<1>9. CopiasTypeOK
  BY <1>1, <1>2, <1>5 DEF CopiasTypeOK
<1> QED BY <1>6, <1>7, <1>8, <1>9 DEF CopiasInv

LEMMA PassoDeCopias ==
  ASSUME CopiasInv, [NextCopias]_varsCopias
  PROVE  CopiasInv'
<1>1. CASE UNCHANGED varsCopias
  <2>1. RelogioCerto' /\ chegadas' = chegadas
        /\ UNCHANGED << banco, uploads, enviados, diretorio, operacoes, limpas >>
    BY <1>1, RelogioParado DEF varsCopias, CopiasInv
  <2> QED BY <2>1, TudoParado
<1>2. CASE NextCopias
  BY <1>2, PedirBackupCopias, ExportarCopias, CopiarUploadsCopias, CompactarCopias,
     ArrumarCopias, FalharBackupCopias, PedirRestauracaoCopias, ExtrairCopias, TruncarCopias,
     DerrubarTabelasCopias, CarregarDumpCopias, DumpSumidoCopias, GuardarUploadsCopias,
     EsvaziarCopias, FalharRestauracaoCopias, PedirLimpezaCopias, ListarCopias, RemoverCopias,
     EnviarCopias, ExcluirCopias, PassarSegundoCopias, CairCopias, ReporCopias
     DEF NextCopias, Repor
<1> QED BY <1>1, <1>2

-----------------------------------------------------------------------------
(* Backups: what a step may do to what is kept. *)

\* Tables are emptied by a restore that is about to fill them, or dropped by the dump it
\* reads.
LEMMA BancoEncolhe ==
  ASSUME CopiasInv, NextCopias, banco \ banco' # {}
  PROVE  \E o \in Operacoes :
            LET p == operacoes[o]
            IN  \/ p.passo = "truncar" /\ (EhTar(p.alvo) => p.extraido # NaoHa)
                \/ /\ p.passo = "derrubar" /\ Fonte(p) # NaoHa
                   /\ banco \ banco' \subseteq Fonte(p).banco
<1>1. CASE \E o \in Operacoes :
              \/ Truncar(o)
              \/ FalharRestauracao(o) /\ operacoes[o].passo = "truncar"
  <2>1. PICK o \in Operacoes : operacoes[o].passo = "truncar"
    BY <1>1 DEF Truncar
  <2>2. OperacaoCerta(operacoes[o])
    BY <2>1, Andando DEF CopiasInv, OperacoesCertas, DeRestauracao
  <2> QED BY <2>1, <2>2 DEF OperacaoCerta
<1>2. CASE \E o \in Operacoes :
              \/ DerrubarTabelas(o)
              \/ FalharRestauracao(o) /\ operacoes[o].passo = "derrubar"
  <2>1. PICK o \in Operacoes :
           /\ operacoes[o].passo = "derrubar" /\ Fonte(operacoes[o]) # NaoHa
           /\ \E caem \in SUBSET Fonte(operacoes[o]).banco : banco' = banco \ caem
    BY <1>2 DEF DerrubarTabelas, FalharRestauracao
  <2>2. banco \ banco' \subseteq Fonte(operacoes[o]).banco
    BY <2>1
  <2> QED BY <2>1, <2>2
<1>3. CASE \E o \in Operacoes : CarregarDump(o)
  BY <1>3 DEF CarregarDump
<1>4. CASE \E o \in Operacoes :
              FalharRestauracao(o) /\ operacoes[o].passo \notin {"truncar", "derrubar"}
  BY <1>4 DEF FalharRestauracao
<1>5. CASE UNCHANGED banco
  BY <1>5
<1> QED
  BY <1>1, <1>2, <1>3, <1>4, <1>5
     DEF NextCopias, PedirBackup, Exportar, CopiarUploads, Compactar, Arrumar, FalharBackup,
         PedirRestauracao, Extrair, DumpSumido, GuardarUploads, Esvaziar, Repor, PedirLimpeza,
         Listar, Remover, EnviarParaUploads, ExcluirDeUploads, PassarSegundo, Cair

\* A file leaves uploads/ by the hand of a user, or in a restore that has a copy of it.
LEMMA UploadsPerdem ==
  ASSUME CopiasInv, NextCopias, NEW f \in Presentes(uploads) \ Presentes(uploads')
  PROVE  \/ ExcluirDeUploads(f)
         \/ \E o \in Operacoes : operacoes[o].passo = "esvaziar" /\ TemCopia(operacoes[o], f)
<1>1. CopiasTypeOK /\ UploadsCopiados
  BY DEF CopiasInv
<1>2. CASE \E o \in Operacoes : operacoes[o].passo = "esvaziar"
  BY <1>1, <1>2 DEF UploadsCopiados
<1>3. CASE \E g \in Enviaveis : ExcluirDeUploads(g)
  <2>1. PICK g \in Enviaveis : ExcluirDeUploads(g)
    BY <1>3
  <2>2. uploads # SemUploads /\ f \in uploads /\ uploads' = uploads \ {g}
    BY <2>1 DEF ExcluirDeUploads, Presentes
  <2>3. uploads' \in SUBSET Enviaveis
    BY <1>1, <2>2 DEF CopiasTypeOK
  <2>4. Presentes(uploads') = uploads'
    BY <1>1, <2>3, PresentesEnviaveis
  <2>5. f = g
    BY <2>2, <2>4
  <2> QED BY <2>1, <2>5
<1>4. CASE UNCHANGED uploads
  BY <1>4
<1>5. CASE \E us \in SUBSET Enviaveis : uploads' = Presentes(uploads) \cup us
  <2>1. uploads' \in SUBSET Enviaveis /\ Presentes(uploads) \subseteq uploads'
    BY <1>1, <1>5, PresentesEnviaveis
  <2> QED BY <1>1, <2>1, PresentesEnviaveis
<1>6. ASSUME NEW o \in Operacoes, GuardarUploads(o)
      PROVE  \E us \in SUBSET Enviaveis : uploads' = Presentes(uploads) \cup us
  <2>1. uploads' = Presentes(uploads) \cup {}
    BY <1>6 DEF GuardarUploads
  <2> QED BY <2>1
<1>7. ASSUME NEW o \in Operacoes, operacoes[o].passo = "repor",
             NEW fs \in SUBSET operacoes[o].extraido.uploads, uploads' = uploads \cup fs
      PROVE  \E us \in SUBSET Enviaveis : uploads' = Presentes(uploads) \cup us
  <2>1. operacoes[o] \in Operacao /\ OperacaoCerta(operacoes[o])
    BY <1>7, Andando DEF CopiasInv, OperacoesCertas, DeRestauracao
  <2>2. operacoes[o].extraido \in Copia
    BY <1>7, <2>1 DEF OperacaoCerta, Operacao
  <2>3. fs \in SUBSET Enviaveis
    BY <2>2 DEF Copia
  <2>4. uploads' = Presentes(uploads) \cup fs
    BY <1>1, <1>7 DEF UploadsCopiados, Presentes
  <2> QED BY <2>3, <2>4
<1>8. ASSUME NEW o \in Operacoes, Repor(o)
      PROVE  \E us \in SUBSET Enviaveis : uploads' = Presentes(uploads) \cup us
  BY <1>7, <1>8 DEF Repor
<1>9. ASSUME NEW o \in Operacoes, FalharRestauracao(o)
      PROVE  \/ operacoes[o].passo = "esvaziar"
             \/ UNCHANGED uploads
             \/ \E us \in SUBSET Enviaveis : uploads' = Presentes(uploads) \cup us
  <2>1. CASE operacoes[o].passo = "repor"
    <3>1. PICK fs \in SUBSET operacoes[o].extraido.uploads : uploads' = uploads \cup fs
      BY <1>9, <2>1 DEF FalharRestauracao
    <3> QED BY <1>7, <2>1, <3>1
  <2>2. CASE operacoes[o].passo # "repor"
    BY <1>9, <2>2 DEF FalharRestauracao
  <2> QED BY <2>1, <2>2
<1>10. ASSUME NEW g \in Enviaveis, EnviarParaUploads(g)
       PROVE  \E us \in SUBSET Enviaveis : uploads' = Presentes(uploads) \cup us
  <2>1. uploads' = Presentes(uploads) \cup {g} /\ {g} \in SUBSET Enviaveis
    BY <1>10 DEF EnviarParaUploads
  <2> QED BY <2>1
<1>11. ASSUME NEW o \in Operacoes, Esvaziar(o)
       PROVE  operacoes[o].passo = "esvaziar"
  BY <1>11 DEF Esvaziar
<1>12. ASSUME NEW o \in Operacoes,
              \/ \E faz \in {"full", "desarquivamentos"}, agendado \in BOOLEAN :
                    PedirBackup(o, faz, agendado)
              \/ Exportar(o) \/ CopiarUploads(o) \/ Compactar(o) \/ Arrumar(o)
              \/ FalharBackup(o) \/ (\E n \in Nomes : PedirRestauracao(o, n)) \/ Extrair(o)
              \/ Truncar(o) \/ DerrubarTabelas(o) \/ CarregarDump(o) \/ DumpSumido(o)
              \/ PedirLimpeza(o) \/ Listar(o) \/ Remover(o)
       PROVE  UNCHANGED uploads
  BY <1>12
     DEF PedirBackup, Exportar, CopiarUploads, Compactar, Arrumar, FalharBackup,
         PedirRestauracao, Extrair, Truncar, DerrubarTabelas, CarregarDump, DumpSumido,
         PedirLimpeza, Listar, Remover
<1>13. PassarSegundo \/ Cair => UNCHANGED uploads
  BY DEF PassarSegundo, Cair
<1> QED
  BY <1>2, <1>3, <1>4, <1>5, <1>6, <1>8, <1>9, <1>10, <1>11, <1>12, <1>13 DEF NextCopias

\* The operation o has its way with the name n: it is a cleaning that listed it, or a
\* backup that was asked when the one under that name was.
Culpada(o, n) ==
    \E p \in {operacoes[o], operacoes'[o]} \ {Parada} :
       /\ operacoes'[o] # operacoes[o]
       /\ \/ p.passo = "remover" /\ n \in p.lista
          \/ /\ p.faz \in {"full", "desarquivamentos"}
             /\ p.pedido = diretorio[n].pronto

LEMMA CulpaDoBackup ==
  ASSUME CopiasInv, NEW o \in Operacoes, NEW n \in Nomes, Ha(n), diretorio[n].pronto # 0,
         operacoes[o].passo \in DeBackup, operacoes'[o].passo # operacoes[o].passo,
         n[2] = operacoes[o].s
  PROVE  Culpada(o, n)
<1>1. Correndo(o) /\ OperacaoCerta(operacoes[o])
  BY Andando DEF CopiasInv, OperacoesCertas
<1>2. operacoes[o] \in {operacoes[o], operacoes'[o]} \ {Parada}
  BY <1>1 DEF Correndo
<1>3. operacoes'[o] # operacoes[o]
  OBVIOUS
<1>4. diretorio[n].pronto = n[2]
  BY DEF CopiasInv, ProntosDoNome
<1>5. operacoes[o].faz \in {"full", "desarquivamentos"} /\ operacoes[o].pedido = n[2]
  BY <1>1 DEF OperacaoCerta
<1> QED BY <1>2, <1>3, <1>4, <1>5 DEF Culpada

\* The next step of a backup.
LEMMA PassoMuda ==
  ASSUME CopiasTypeOK, NEW o \in Operacoes
  PROVE  /\ \A passo : Ir(o, passo) => operacoes'[o].passo = passo \/ ~Correndo(o)
         /\ Terminar(o) => operacoes'[o].passo \in {"parada", "listar"} \/ ~Correndo(o)
<1>1. ASSUME NEW passo, Ir(o, passo), Correndo(o)
      PROVE  operacoes'[o].passo = passo
  <2>1. operacoes[o] \in Operacao
    BY <1>1, Andando
  <2>2. operacoes'[o] = [operacoes[o] EXCEPT !.passo = passo]
    BY <1>1 DEF Ir, CopiasTypeOK
  <2> QED BY <2>1, <2>2 DEF Operacao
<1>2. ASSUME Terminar(o), Correndo(o)
      PROVE  operacoes'[o].passo \in {"parada", "listar"}
  <2>1. operacoes[o] \in Operacao
    BY <1>2, Andando
  <2>2. operacoes'[o] = AoFim(operacoes[o])
    BY <1>2 DEF Terminar, CopiasTypeOK
  <2>3. CASE operacoes[o].depois
    <3> DEFINE x == [operacoes[o] EXCEPT !.faz = "limpar", !.passo = "listar",
                        !.depois = FALSE, !.alvo = NaoHa, !.extraido = NaoHa, !.novos = {}]
    <3>1. operacoes'[o] = x
      BY <2>2, <2>3 DEF AoFim
    <3>2. x.passo = "listar"
      BY <2>1 DEF Operacao
    <3> QED BY <3>1, <3>2
  <2>4. CASE ~operacoes[o].depois
    BY <2>2, <2>4 DEF AoFim, Parada
  <2> QED BY <2>3, <2>4
<1> QED BY <1>1, <1>2

LEMMA ProntoSoMudaPorCulpada ==
  ASSUME CopiasInv, NextCopias, NEW n \in Nomes, Ha(n), diretorio[n].pronto # 0,
         diretorio'[n] # diretorio[n]
  PROVE  \E o \in Operacoes : Culpada(o, n)
<1>1. CopiasTypeOK /\ OperacoesCertas /\ ProntosDoNome
  BY DEF CopiasInv
<1>2. /\ diretorio[n].pronto = n[2]
      /\ n[1] \in {"full.sql", "full.tar.gz", "desarquivamentos.sql"}
  BY <1>1 DEF ProntosDoNome
<1>3. \A o \in Operacoes : operacoes[o].passo \in DeBackup =>
         Correndo(o) /\ operacoes[o] \in Operacao
  BY <1>1, Andando
<1>4. \A m \in Nomes : \A v : diretorio' = [diretorio EXCEPT ![m] = v] => m = n
  BY <1>1 DEF CopiasTypeOK
<1>5. ASSUME NEW o \in Operacoes, NEW faz \in {"full", "desarquivamentos"},
             NEW agendado \in BOOLEAN, PedirBackup(o, faz, agendado)
      PROVE  Culpada(o, n)
  <2>1. Comecar(o, faz, "exportar", NaoHa, agendado)
    BY <1>5 DEF PedirBackup
  <2>2. /\ operacoes[o] = Parada /\ operacoes'[o] \in Operacao /\ operacoes'[o].faz = faz
        /\ operacoes'[o].s = segundo /\ operacoes'[o].pedido = segundo
    BY <1>1, <2>1, Comeca
  <2>3. Sql(operacoes'[o]) \in Nomes /\ Sql(operacoes'[o])[2] = segundo
    BY <2>2, NomesDaOperacao
  <2>4. n = Sql(operacoes'[o])
    BY <1>4, <1>5, <2>3 DEF PedirBackup
  <2>5. operacoes'[o] # Parada
    BY <2>2, ParadaForaDeOperacao
  <2> QED BY <1>2, <2>2, <2>3, <2>4, <2>5 DEF Culpada
<1>6. ASSUME NEW o \in Operacoes, Exportar(o)
      PROVE  Culpada(o, n)
  <2>1. operacoes[o].passo = "exportar" /\ (Terminar(o) \/ Ir(o, "copiar"))
        /\ \E v : diretorio' = [diretorio EXCEPT ![Sql(operacoes[o])] = v]
    BY <1>6 DEF Exportar
  <2>2. Correndo(o) /\ operacoes[o] \in Operacao
    BY <1>3, <2>1 DEF DeBackup
  <2>3. Sql(operacoes[o]) \in Nomes /\ Sql(operacoes[o])[2] = operacoes[o].s
    BY <2>2, NomesDaOperacao
  <2>4. n = Sql(operacoes[o])
    BY <1>4, <2>1, <2>3
  <2>5. operacoes'[o].passo # operacoes[o].passo
    BY <1>1, <2>1, <2>2, PassoMuda
  <2> QED BY <2>1, <2>3, <2>4, <2>5, CulpaDoBackup DEF DeBackup
<1>7. ASSUME NEW o \in Operacoes, CopiarUploads(o)
      PROVE  FALSE
  <2>1. operacoes[o].passo = "copiar"
        /\ \E v : diretorio' = [diretorio EXCEPT ![Temp(operacoes[o])] = v]
    BY <1>7 DEF CopiarUploads
  <2>2. Temp(operacoes[o]) \in Nomes /\ Temp(operacoes[o])[1] = "temp"
    BY <1>3, <2>1, NomesDaOperacao DEF DeBackup
  <2> QED BY <1>2, <1>4, <2>1, <2>2
<1>8. ASSUME NEW o \in Operacoes, Compactar(o)
      PROVE  Culpada(o, n)
  <2>1. operacoes[o].passo = "compactar" /\ Ir(o, "arrumar")
        /\ \E v : diretorio' = [diretorio EXCEPT ![Tar(operacoes[o])] = v]
    BY <1>8 DEF Compactar
  <2>2. Correndo(o) /\ operacoes[o] \in Operacao
    BY <1>3, <2>1 DEF DeBackup
  <2>3. Tar(operacoes[o]) \in Nomes /\ Tar(operacoes[o])[2] = operacoes[o].s
    BY <2>2, NomesDaOperacao
  <2>4. n = Tar(operacoes[o])
    BY <1>4, <2>1, <2>3
  <2>5. operacoes'[o].passo # operacoes[o].passo
    BY <1>1, <2>1, <2>2, PassoMuda
  <2> QED BY <2>1, <2>3, <2>4, <2>5, CulpaDoBackup DEF DeBackup
<1>9. ASSUME NEW o \in Operacoes, Arrumar(o)
      PROVE  Culpada(o, n)
  <2>1. /\ operacoes[o].passo = "arrumar" /\ Terminar(o)
        /\ diretorio' = [diretorio EXCEPT ![Temp(operacoes[o])] = NaoHa,
                            ![Sql(operacoes[o])] = NaoHa,
                            ![Tar(operacoes[o])].pronto = operacoes[o].pedido]
    BY <1>9 DEF Arrumar
  <2>2. Correndo(o) /\ operacoes[o] \in Operacao
    BY <1>3, <2>1 DEF DeBackup
  <2>3. /\ Sql(operacoes[o]) \in Nomes /\ Sql(operacoes[o])[2] = operacoes[o].s
        /\ Tar(operacoes[o]) \in Nomes /\ Tar(operacoes[o])[2] = operacoes[o].s
        /\ Temp(operacoes[o])[1] = "temp"
    BY <2>2, NomesDaOperacao
  <2>4. n \in {Sql(operacoes[o]), Tar(operacoes[o]), Temp(operacoes[o])}
    <3>1. diretorio \in [Nomes -> Copia \cup {NaoHa}]
      BY <1>1 DEF CopiasTypeOK
    <3> QED BY <2>1, <3>1
  <2>5. operacoes'[o].passo # operacoes[o].passo
    BY <1>1, <2>1, <2>2, PassoMuda
  <2>6. n[2] = operacoes[o].s
    BY <1>2, <2>3, <2>4
  <2> QED BY <2>1, <2>5, <2>6, CulpaDoBackup DEF DeBackup
<1>10. ASSUME NEW o \in Operacoes, FalharBackup(o)
       PROVE  Culpada(o, n)
  <2> DEFINE p == operacoes[o]
             restos == IF p.faz = "desarquivamentos" THEN {Sql(p)}
                       ELSE {Sql(p), Tar(p)}
                            \cup (IF p.passo = "exportar" THEN {} ELSE {Temp(p)})
  <2>1. /\ p.passo \in DeBackup /\ Terminar(o)
        /\ diretorio' = [m \in Nomes |-> IF m \in restos THEN NaoHa ELSE diretorio[m]]
    BY <1>10 DEF FalharBackup, DeBackup
  <2>2. Correndo(o) /\ operacoes[o] \in Operacao
    BY <1>3, <2>1
  <2>3. /\ Sql(p)[2] = p.s /\ Tar(p)[2] = p.s /\ Temp(p)[1] = "temp"
    BY <2>2, NomesDaOperacao
  <2>4. n \in restos
    BY <2>1
  <2>5. n[2] = operacoes[o].s
    BY <1>2, <2>3, <2>4
  <2>6. operacoes'[o].passo # operacoes[o].passo
    BY <1>1, <2>1, <2>2, PassoMuda DEF DeBackup
  <2> QED BY <2>1, <2>5, <2>6, CulpaDoBackup
<1>11. ASSUME NEW o \in Operacoes, GuardarUploads(o)
       PROVE  FALSE
  <2>1. operacoes[o].passo = "guardar"
        /\ \E v : diretorio' = [diretorio EXCEPT ![Guardados(operacoes[o])] = v]
    BY <1>11 DEF GuardarUploads
  <2>2. operacoes[o] \in Operacao
    BY <1>1, <2>1, Andando DEF DeRestauracao
  <2>3. Guardados(operacoes[o]) \in Nomes /\ Guardados(operacoes[o])[1] = "uploads_old"
    BY <2>2, NomesDaOperacao
  <2> QED BY <1>2, <1>4, <2>1, <2>3
<1>12. ASSUME NEW o \in Operacoes, Remover(o)
       PROVE  Culpada(o, n)
  <2>1. operacoes[o].passo = "remover" /\ operacoes[o] \in Operacao /\ Correndo(o)
        /\ operacoes[o].lista \in SUBSET Nomes
    BY <1>1, <1>12, Andando DEF Remover, DeLimpeza, Operacao
  <2>2. PICK m \in operacoes[o].lista :
           /\ diretorio' = [diretorio EXCEPT ![m] = NaoHa]
           /\ operacoes' = [operacoes EXCEPT ![o] =
                 IF Ha(m) \/ m[1] = "uploads_old" THEN [operacoes[o] EXCEPT !.lista = @ \ {m}]
                 ELSE Parada]
    BY <1>12 DEF Remover
  <2>3. m = n
    BY <1>4, <2>1, <2>2
  <2>4. operacoes'[o] = Parada \/ operacoes'[o] = [operacoes[o] EXCEPT !.lista = @ \ {m}]
    BY <1>1, <2>2 DEF CopiasTypeOK
  <2>5. operacoes'[o] # operacoes[o]
    <3>1. CASE operacoes'[o] = Parada
      BY <2>1, <3>1 DEF Correndo
    <3>2. CASE operacoes'[o] = [operacoes[o] EXCEPT !.lista = @ \ {m}]
      <4>1. operacoes'[o].lista = operacoes[o].lista \ {m}
        BY <2>1, <3>2 DEF Operacao
      <4> QED BY <2>2, <4>1
    <3> QED BY <2>4, <3>1, <3>2
  <2> QED BY <2>1, <2>2, <2>3, <2>5 DEF Culpada, Correndo
<1>13. ASSUME NEW o \in Operacoes,
              \/ (\E m \in Nomes : PedirRestauracao(o, m)) \/ Extrair(o)
              \/ Truncar(o) \/ DerrubarTabelas(o) \/ CarregarDump(o) \/ DumpSumido(o)
              \/ Esvaziar(o) \/ Repor(o) \/ FalharRestauracao(o) \/ PedirLimpeza(o) \/ Listar(o)
       PROVE  UNCHANGED diretorio
  BY <1>13
     DEF PedirRestauracao, Extrair, Truncar, DerrubarTabelas, CarregarDump, DumpSumido,
         Esvaziar, Repor, FalharRestauracao, PedirLimpeza, Listar
<1>14. ASSUME \/ \E f \in Enviaveis : EnviarParaUploads(f) \/ ExcluirDeUploads(f)
              \/ PassarSegundo \/ Cair
       PROVE  UNCHANGED diretorio
  BY <1>14 DEF EnviarParaUploads, ExcluirDeUploads, PassarSegundo, Cair
<1> QED
  BY <1>5, <1>6, <1>7, <1>8, <1>9, <1>10, <1>11, <1>12, <1>13, <1>14 DEF NextCopias

-----------------------------------------------------------------------------
(* Backups: the theorems. *)

\* The names, the copies and the operations of BackupService stay coherent whatever the
\* backups, the restores, the cleanings, the users and the deaths of the process do,
\* however many of them there are.
THEOREM CopiasSempreCoerentes == Spec => []CopiasInv
<1>1. Init => CopiasInv
  BY InicioDeCopias DEF Init
<1>2. CopiasInv /\ [Next]_varsArquivos => CopiasInv'
  <2> SUFFICES ASSUME CopiasInv, [Next]_varsArquivos PROVE CopiasInv'
    OBVIOUS
  <2>1. [NextCopias]_varsCopias
    BY DEF Next, varsArquivos
  <2> QED BY <2>1, PassoDeCopias
<1> QED BY <1>1, <1>2, PTL DEF Spec

\* The variables of the shelves and of the backups have their types.
THEOREM TiposDosArquivos == Spec => []TypeOK
<1>1. PastasInv => PastasTypeOK
  BY FormasSaoTipos DEF PastasInv
<1>2. CopiasInv => CopiasTypeOK
  BY DEF CopiasInv
<1> QED BY <1>1, <1>2, PastasSempreCoerentes, CopiasSempreCoerentes, PTL DEF TypeOK

\* What a restore erases, it has a copy of (executePreRestoreTruncate, the DROPs of the dump
\* it loads, and restoreUploadsDirectory), unless a user deletes the file, it came in the
\* meantime, or a cleaning has removed the copy. The DROPs take tables the dump has, whose
\* rows another restore may have put there.
THEOREM RestauracaoTemCopia == Spec => RestauracaoSoApagaComCopia
<1> DEFINE A ==
       /\ banco \ banco' # {} =>
             \E o \in Operacoes :
                LET p == operacoes[o]
                IN  \/ p.passo = "truncar" /\ (EhTar(p.alvo) => p.extraido # NaoHa)
                    \/ /\ p.passo = "derrubar" /\ Fonte(p) # NaoHa
                       /\ banco \ banco' \subseteq Fonte(p).banco
       /\ \A f \in Presentes(uploads) \ Presentes(uploads') :
             \/ ExcluirDeUploads(f)
             \/ \E o \in Operacoes :
                   LET p == operacoes[o]
                   IN  /\ p.passo = "esvaziar"
                       /\ \/ f \in p.novos
                          \/ Guardados(p) \in limpas
                          \/ Ha(Guardados(p)) /\ f \in diretorio[Guardados(p)].uploads
<1>1. CopiasInv /\ [Next]_varsArquivos => [A]_varsCopias
  <2> SUFFICES ASSUME CopiasInv, NextCopias PROVE A
    BY DEF Next, varsArquivos
  <2> QED BY BancoEncolhe, UploadsPerdem DEF TemCopia
<1> QED BY <1>1, CopiasSempreCoerentes, PTL DEF Spec, RestauracaoSoApagaComCopia

\* A backup that was answered with success stays as it is until a cleaning removes it, or
\* a backup asked in the same second, and so under the same name, writes or removes it.
THEOREM ProntoFica == Spec => BackupProntoFica
<1> DEFINE A ==
       \A n \in Nomes :
          /\ Ha(n) /\ diretorio[n].pronto # 0 /\ diretorio'[n] # diretorio[n]
          => \E o \in Operacoes : \E p \in {operacoes[o], operacoes'[o]} \ {Parada} :
                /\ operacoes'[o] # operacoes[o]
                /\ \/ p.passo = "remover" /\ n \in p.lista
                   \/ /\ p.faz \in {"full", "desarquivamentos"}
                      /\ p.pedido = diretorio[n].pronto
<1>1. CopiasInv /\ [Next]_varsArquivos => [A]_varsCopias
  <2> SUFFICES ASSUME CopiasInv, NextCopias PROVE A
    BY DEF Next, varsArquivos
  <2> QED BY ProntoSoMudaPorCulpada DEF Culpada
<1> QED BY <1>1, CopiasSempreCoerentes, PTL DEF Spec, BackupProntoFica
================================================================================
