-------------------------------- MODULE Pastas --------------------------------
(***************************************************************************)
(* The shelves (PastasService) and what is derived from them: the objects  *)
(* of their files in the storage (StorageService), and the documents of    *)
(* the search index (SearchService).                                       *)
(*                                                                         *)
(* Nothing ties the three together but the order of the calls.  A request  *)
(* writes an object and then its row, or deletes it and then its row; when *)
(* it has written, it asks for the index to be brought up to date, and     *)
(* does not wait.  The cache of the list is module ListaEmCache.           *)
(***************************************************************************)
EXTENDS Naturals, FiniteSets, FiniteSetsExt

CONSTANTS
    Reqs,           \* the requests that may be in progress at one time
    Ids,            \* the shelves, in the order of their ids
    Arquivos,       \* the files that may be uploaded
    MaxPedidos,     \* bound: requests in all
    MaxFalhas,      \* bound: calls of the storage, the database or the index that fail
    MaxReinicios,   \* bound: restarts of the server
    MaxReindexacoes,\* bound: reindexings in all
    Ausente,        \* no such row, document or entry
    Removida        \* a shelf that has been removed: its id is never used again

ASSUME IdsAssumption == IsFiniteSet(Ids) /\ Ids = 1 .. Cardinality(Ids)
ASSUME LimitesAssumption ==
    /\ MaxPedidos \in Nat /\ MaxFalhas \in Nat
    /\ MaxReinicios \in Nat /\ MaxReindexacoes \in Nat
ASSUME SentinelasDePastas ==
    /\ Ausente \notin Nat \cup Arquivos \cup {Removida} /\ Removida \notin Nat

VARIABLES
    pastas,         \* how often each shelf has been edited
    arquivos,       \* the shelf each file's row belongs to
    objetos,        \* the files whose object is in the storage
    pedidos,        \* what each request in progress holds
    tarefas,        \* the updates of the index under way
    indice,         \* the state of the shelf each document shows
    reindexacao,    \* the reindexing under way
    contagem,       \* what the bounds count
    historia        \* what only the properties refer to

linhas == << pastas, arquivos, objetos >>
busca == << tarefas, indice, reindexacao >>
varsPastas == << linhas, pedidos, busca, contagem, historia >>

Edicoes == 0 .. MaxPedidos
Livre == [fase |-> "livre"]
Vivas == { p \in Ids : pastas[p] \notin {Ausente, Removida} }
Documento(p) == IF p \in Vivas THEN pastas[p] ELSE Ausente

\* lidos are the files remove has read.
Pedido ==
    [ fase: {"guardar", "gravar", "reler", "ler", "apagarObjetos", "apagarLinhas",
             "apagar", "publicar"},
      tipo: {"criar", "editar", "incluir", "excluir", "remover"},
      pasta: Ids, arquivo: Arquivos \cup {Ausente}, lidos: SUBSET Arquivos ]

\* History: so as long as no other update of the same document has been sent since the
\* row was read.
Tarefa ==
    [ fase: {"montar", "enviar"}, tipo: {"upsert", "remocao"}, pasta: Ids,
      doc: Edicoes \cup {Ausente}, so: BOOLEAN ]

InitPastas ==
    /\ pastas \in [Ids -> {Ausente, 0}]
    /\ arquivos \in [Arquivos -> Vivas \cup {Ausente}]
    /\ objetos = { a \in Arquivos : arquivos[a] # Ausente }
    /\ pedidos = [r \in Reqs |-> Livre]
    /\ tarefas = [t \in 1 .. MaxPedidos |-> Livre]
    /\ indice = [p \in Ids |-> Documento(p)]
    /\ reindexacao = Livre
    /\ contagem = [pedidos |-> 0, falhas |-> 0, reinicios |-> 0, reindexacoes |-> 0]
    /\ historia = [desviadas |-> {}, partidos |-> {}, largados |-> {}]

-----------------------------------------------------------------------------
(* Requests: their rows and objects. *)

Iniciar(r, tipo, fase, p, a) ==
    /\ pedidos[r] = Livre /\ contagem.pedidos < MaxPedidos
    /\ contagem' = [contagem EXCEPT !.pedidos = @ + 1]
    /\ pedidos' = [pedidos EXCEPT ![r] =
          [ fase |-> fase, tipo |-> tipo, pasta |-> p, arquivo |-> a, lidos |-> {} ]]
    /\ UNCHANGED << linhas, busca, historia >>

\* An upload gets a name of its own.
Novo(a) ==
    /\ arquivos[a] = Ausente /\ a \notin objetos \cup historia.partidos
    /\ ~ \E r \in Reqs : /\ pedidos[r] # Livre
                         /\ a = pedidos[r].arquivo \/ a \in pedidos[r].lidos

PedirCriacao(r, p, a) ==
    /\ pastas[p] = Ausente
    /\ ~ \E q \in Reqs : pedidos[q] # Livre /\ pedidos[q].pasta = p
    /\ a # Ausente => Novo(a)
    /\ Iniciar(r, "criar", IF a = Ausente THEN "gravar" ELSE "guardar", p, a)

\* The others have found the shelf, and the file, before they go on.
PedirEdicao(r, p) == p \in Vivas /\ Iniciar(r, "editar", "gravar", p, Ausente)
PedirInclusao(r, p, a) ==
    p \in Vivas /\ Novo(a) /\ Iniciar(r, "incluir", "guardar", p, a)
PedirExclusao(r, p, a) ==
    p \in Vivas /\ arquivos[a] = p /\ Iniciar(r, "excluir", "apagarObjetos", p, a)
PedirRemocao(r, p) == p \in Vivas /\ Iniciar(r, "remover", "ler", p, Ausente)

Avancar(r, fase) == pedidos' = [pedidos EXCEPT ![r].fase = fase]
Encerrar(r) == pedidos' = [pedidos EXCEPT ![r] = Livre]

\* putObject
Guardar(r) ==
    /\ pedidos[r].fase = "guardar"
    /\ objetos' = objetos \cup {pedidos[r].arquivo}
    /\ Avancar(r, "gravar")
    /\ UNCHANGED << pastas, arquivos, busca, contagem, historia >>

\* History: a shelf has come or gone while the index is rebuilt.
MudamAsPastas(p) ==
    reindexacao' = IF reindexacao = Livre THEN Livre
                   ELSE [reindexacao EXCEPT !.limpa = FALSE, !.faltam = @ \ {p}]

\* The shelf is being removed, and its files have been read.
SendoRemovida(p) ==
    \E r \in Reqs : /\ pedidos[r] # Livre /\ pedidos[r].tipo = "remover"
                    /\ pedidos[r].pasta = p /\ pedidos[r].fase # "ler"
Partir(quais) == historia' = [historia EXCEPT !.partidos = @ \cup quais]

\* The transaction of create commits; update writes by id, wherever the row is; the row
\* of a file is refused if its shelf is gone (a foreign key), and its object remains.
Gravar(r) ==
    LET p == pedidos[r]
    IN  /\ p.fase = "gravar"
        /\ \/ /\ p.tipo = "criar" /\ Avancar(r, "reler")
              /\ pastas' = [pastas EXCEPT ![p.pasta] = 0]
              /\ arquivos' = IF p.arquivo = Ausente THEN arquivos
                             ELSE [arquivos EXCEPT ![p.arquivo] = p.pasta]
              /\ MudamAsPastas(p.pasta) /\ UNCHANGED historia
           \/ /\ p.tipo = "editar" /\ p.pasta \in Vivas /\ Avancar(r, "reler")
              /\ pastas' = [pastas EXCEPT ![p.pasta] = @ + 1]
              /\ UNCHANGED << arquivos, reindexacao, historia >>
           \/ /\ p.tipo = "incluir" /\ p.pasta \in Vivas /\ Avancar(r, "publicar")
              /\ arquivos' = [arquivos EXCEPT ![p.arquivo] = p.pasta]
              /\ Partir(IF SendoRemovida(p.pasta) THEN {p.arquivo} ELSE {})
              /\ UNCHANGED << pastas, reindexacao >>
           \/ /\ p.tipo \in {"editar", "incluir"} /\ p.pasta \notin Vivas /\ Encerrar(r)
              /\ Partir({p.arquivo} \ {Ausente})
              /\ UNCHANGED << pastas, arquivos, reindexacao >>
        /\ UNCHANGED << objetos, tarefas, indice, contagem >>

\* findOne after the write: 404 if the shelf has been removed, and nothing is published.
Reler(r) ==
    /\ pedidos[r].fase = "reler"
    /\ IF pedidos[r].pasta \in Vivas THEN Avancar(r, "publicar") ELSE Encerrar(r)
    /\ UNCHANGED << linhas, busca, contagem, historia >>

\* remove: the files of the shelf.
LerArquivos(r) ==
    LET p == pedidos[r]
    IN  /\ p.fase = "ler"
        /\ pedidos' = [pedidos EXCEPT ![r].fase = "apagarObjetos",
              ![r].lidos = { a \in Arquivos : arquivos[a] = p.pasta }]
        /\ UNCHANGED << linhas, busca, contagem, historia >>

Alvos(p) == IF p.tipo = "excluir" THEN {p.arquivo} ELSE p.lidos

\* deleteObject of each, all at once.  The local driver hides the failure of a deletion,
\* and the request goes on as if the object were gone.
\* Mutant: the objects are left where they are.
ApagarObjetosDepois(r) ==
    /\ pedidos[r].fase = "apagarObjetos" /\ Avancar(r, "apagarLinhas")
    /\ UNCHANGED << linhas, busca, contagem, historia >>
ApagarObjetos(r) ==
    /\ pedidos[r].fase = "apagarObjetos" /\ Avancar(r, "apagarLinhas")
    /\ \E ficam \in SUBSET (objetos \cap Alvos(pedidos[r])) :
          /\ objetos' = objetos \ (Alvos(pedidos[r]) \ ficam)
          /\ historia' = [historia EXCEPT !.largados = @ \cup ficam]
          /\ \/ ficam = {} /\ UNCHANGED contagem
             \/ /\ contagem.falhas < MaxFalhas
                /\ contagem' = [contagem EXCEPT !.falhas = @ + 1]
    /\ UNCHANGED << pastas, arquivos, busca >>

\* The rows of the file, or of all the files the shelf has by now.
ApagarLinhas(r) ==
    LET p == pedidos[r]
        somem == { a \in Arquivos : /\ arquivos[a] = p.pasta
                                    /\ p.tipo = "excluir" => a = p.arquivo }
    IN  /\ p.fase = "apagarLinhas"
        /\ arquivos' = [a \in Arquivos |-> IF a \in somem THEN Ausente ELSE arquivos[a]]
        /\ Avancar(r, IF p.tipo = "excluir" THEN "publicar" ELSE "apagar")
        /\ UNCHANGED << pastas, objetos, busca, contagem, historia >>

\* The shelf's row, and those of the files added since (ON DELETE CASCADE).
\* Mutant: the foreign key does not cascade.
ApagarSemCascata(r) ==
    LET p == pedidos[r].pasta
    IN  /\ pedidos[r].fase = "apagar" /\ Avancar(r, "publicar")
        /\ pastas' = [pastas EXCEPT ![p] = Removida]
        /\ IF p \in Vivas THEN MudamAsPastas(p) ELSE UNCHANGED reindexacao
        /\ UNCHANGED << arquivos, objetos, tarefas, indice, contagem, historia >>
Apagar(r) ==
    LET p == pedidos[r].pasta
    IN  /\ pedidos[r].fase = "apagar" /\ Avancar(r, "publicar")
        /\ pastas' = [pastas EXCEPT ![p] = Removida]
        /\ arquivos' = [a \in Arquivos |-> IF arquivos[a] = p THEN Ausente ELSE arquivos[a]]
        /\ IF p \in Vivas THEN MudamAsPastas(p) ELSE UNCHANGED reindexacao
        /\ UNCHANGED << objetos, tarefas, indice, contagem, historia >>

\* An update of p's document has been sent, or will not be: the others that have read
\* the row before are late.
Atrasadas(p, quais) ==
    [t \in DOMAIN quais |->
       IF quais[t] # Livre /\ quais[t].pasta = p /\ quais[t].fase = "enviar"
       THEN [quais[t] EXCEPT !.so = FALSE] ELSE quais[t]]
ReindexacaoAtrasada(p) ==
    IF reindexacao # Livre /\ reindexacao.pasta = p
    THEN [reindexacao EXCEPT !.so = FALSE] ELSE reindexacao

\* What a request that is interrupted leaves behind: objects that may be gone or not, or
\* there in part, files whose row and object may not agree.
PodemFaltar(p) == IF p.fase = "apagarObjetos" THEN Alvos(p) ELSE {}
PodemSobrar(p) == IF p.fase = "guardar" THEN {p.arquivo} ELSE {}
Partem(p) == IF p.fase \in {"guardar", "gravar", "apagarObjetos", "apagarLinhas", "apagar"}
             THEN p.lidos \cup ({p.arquivo} \ {Ausente}) ELSE {}

\* A call of the storage (a deletion, if the driver is the remote one) or of the database
\* fails, and the request with it.  The transaction of create is rolled back.
Falhar(r) ==
    LET p == pedidos[r]
    IN  /\ p # Livre /\ p.fase # "publicar"
        /\ contagem.falhas < MaxFalhas /\ contagem' = [contagem EXCEPT !.falhas = @ + 1]
        /\ Encerrar(r)
        /\ \E foram \in SUBSET PodemFaltar(p), sobram \in SUBSET PodemSobrar(p) :
              objetos' = (objetos \ foram) \cup sobram
        /\ historia' = [historia EXCEPT !.partidos = @ \cup Partem(p),
              !.desviadas = IF p.fase = "reler" THEN @ \cup {p.pasta} ELSE @]
        /\ IF p.fase = "reler"
           THEN /\ tarefas' = Atrasadas(p.pasta, tarefas)
                /\ reindexacao' = ReindexacaoAtrasada(p.pasta)
           ELSE UNCHANGED << tarefas, reindexacao >>
        /\ UNCHANGED << pastas, arquivos, indice >>

-----------------------------------------------------------------------------
(* Requests: what they publish. *)

Pedida(r, tipo) ==
    LET t == Min({ i \in DOMAIN tarefas : tarefas[i] = Livre })
    IN  /\ pedidos[r].fase = "publicar" /\ Encerrar(r)
        /\ tarefas' = [tarefas EXCEPT ![t] =
              [ fase |-> IF tipo = "upsert" THEN "montar" ELSE "enviar", tipo |-> tipo,
                pasta |-> pedidos[r].pasta, doc |-> Ausente, so |-> TRUE ]]
        /\ UNCHANGED << linhas, indice, reindexacao, contagem, historia >>

\* requestSyncPasta, requestRemovePasta: nobody waits.
\* Mutant: remove asks for the document of the shelf, and there is none to send.
PublicarUpsert(r) == Pedida(r, "upsert")
Publicar(r) == Pedida(r, IF pedidos[r].tipo = "remover" THEN "remocao" ELSE "upsert")

-----------------------------------------------------------------------------
(* The index. *)

Desviar(p, sim) ==
    historia' = [historia EXCEPT !.desviadas = IF sim THEN @ \cup {p} ELSE @ \ {p}]

\* buildPastaDocument
Montar(t) ==
    LET k == tarefas[t]
    IN  /\ k # Livre /\ k.fase = "montar"
        /\ tarefas' = [tarefas EXCEPT ![t] =
              IF k.pasta \in Vivas
              THEN [k EXCEPT !.fase = "enviar", !.doc = Documento(k.pasta)] ELSE Livre]
        /\ UNCHANGED << linhas, pedidos, indice, reindexacao, contagem, historia >>

\* addDocuments, deleteDocument
Enviar(t) ==
    LET k == tarefas[t]
    IN  /\ k # Livre /\ k.fase = "enviar"
        /\ indice' = [indice EXCEPT ![k.pasta] = k.doc]
        /\ tarefas' = Atrasadas(k.pasta, [tarefas EXCEPT ![t] = Livre])
        /\ reindexacao' = ReindexacaoAtrasada(k.pasta)
        /\ Desviar(k.pasta, k.tipo = "upsert" /\ ~k.so)
        /\ UNCHANGED << linhas, pedidos, contagem >>

\* The index cannot be reached: the error is logged.
Perder(t) ==
    LET k == tarefas[t]
    IN  /\ k # Livre /\ contagem.falhas < MaxFalhas
        /\ contagem' = [contagem EXCEPT !.falhas = @ + 1]
        /\ tarefas' = Atrasadas(k.pasta, [tarefas EXCEPT ![t] = Livre])
        /\ reindexacao' = ReindexacaoAtrasada(k.pasta)
        /\ Desviar(k.pasta, TRUE)
        /\ UNCHANGED << linhas, pedidos, indice >>

\* reindexAllDocuments counts the shelves, and then takes them in batches, here of one,
\* by their place among those there are by then.  History: faltam are those it has not
\* sent yet; limpa as long as it has not failed and no shelf has come or gone.
Contadas(total, falhas) ==
    /\ reindexacao = Livre /\ contagem.reindexacoes < MaxReindexacoes
    /\ contagem' = [contagem EXCEPT !.reindexacoes = @ + 1, !.falhas = @ + falhas]
    /\ reindexacao' = [fase |-> "lote", lote |-> 0, total |-> total, pasta |-> Ausente,
          doc |-> Ausente, so |-> TRUE, faltam |-> Vivas, limpa |-> falhas = 0]
    /\ UNCHANGED << linhas, pedidos, tarefas, indice, historia >>
\* Mutant: the number of batches is rounded down.
ReindexarLotesCheios == Contadas(IF Vivas = {} THEN 0 ELSE Cardinality(Vivas) - 1, 0)
Reindexar == Contadas(Cardinality(Vivas), 0)

\* The count fails: the error is logged, and there is nothing to take.
ReindexarSemConta == contagem.falhas < MaxFalhas /\ Contadas(0, 1)

Seguinte(x) == [x EXCEPT !.fase = "lote", !.lote = @ + 1, !.pasta = Ausente,
                         !.doc = Ausente, !.so = TRUE]

\* The ids of a batch; after the last one, or an empty one, it is over.
Lote ==
    LET x == reindexacao
    IN  /\ x # Livre /\ x.fase = "lote"
        /\ reindexacao' =
              IF x.lote >= x.total \/ x.lote >= Cardinality(Vivas) THEN Livre
              ELSE [x EXCEPT !.fase = "montar", !.pasta = CHOOSE p \in Vivas :
                       Cardinality({ q \in Vivas : q < p }) = x.lote]
        /\ UNCHANGED << linhas, pedidos, tarefas, indice, contagem, historia >>

MontarLote ==
    LET x == reindexacao
    IN  /\ x # Livre /\ x.fase = "montar"
        /\ reindexacao' = IF x.pasta \in Vivas
             THEN [x EXCEPT !.fase = "enviar", !.doc = Documento(x.pasta), !.so = TRUE]
             ELSE Seguinte(x)
        /\ UNCHANGED << linhas, pedidos, tarefas, indice, contagem, historia >>

EnviarLote ==
    LET x == reindexacao
    IN  /\ x # Livre /\ x.fase = "enviar"
        /\ indice' = [indice EXCEPT ![x.pasta] = x.doc]
        /\ tarefas' = Atrasadas(x.pasta, tarefas)
        /\ reindexacao' = [Seguinte(x) EXCEPT !.faltam = @ \ {x.pasta}]
        /\ Desviar(x.pasta, ~x.so)
        /\ UNCHANGED << linhas, pedidos, contagem >>

\* A batch that fails, when its ids are read or later, is passed over.
PerderLote ==
    LET x == reindexacao
    IN  /\ x # Livre /\ contagem.falhas < MaxFalhas
        /\ x.fase = "lote" => x.lote < x.total
        /\ contagem' = [contagem EXCEPT !.falhas = @ + 1]
        /\ reindexacao' = [Seguinte(x) EXCEPT !.limpa = FALSE]
        /\ UNCHANGED << linhas, pedidos, tarefas, indice, historia >>

-----------------------------------------------------------------------------
\* The server stops and starts again: what was under way is lost.  The index is rebuilt
\* then, if SEARCH_BOOTSTRAP_ON_START says so.
Reiniciar ==
    LET interrompidos == { pedidos[r] : r \in { q \in Reqs : pedidos[q] # Livre } }
        escritos == { p \in interrompidos : p.fase \in {"reler", "publicar"} }
        perdidas == { t \in DOMAIN tarefas : tarefas[t] # Livre }
    IN  /\ contagem.reinicios < MaxReinicios
        /\ contagem' = [contagem EXCEPT !.reinicios = @ + 1]
        /\ pedidos' = [r \in Reqs |-> Livre]
        /\ tarefas' = [t \in DOMAIN tarefas |-> Livre] /\ reindexacao' = Livre
        /\ \E foram \in SUBSET UNION { PodemFaltar(p) : p \in interrompidos },
              sobram \in SUBSET UNION { PodemSobrar(p) : p \in interrompidos } :
                 objetos' = (objetos \ foram) \cup sobram
        /\ historia' = [historia EXCEPT
              !.desviadas = @ \cup { p.pasta : p \in escritos }
                              \cup { tarefas[t].pasta : t \in perdidas },
              !.partidos = @ \cup UNION { Partem(p) : p \in interrompidos }]
        /\ UNCHANGED << pastas, arquivos, indice >>

Chegar(r) ==
    \E p \in Ids :
       \/ \E a \in Arquivos \cup {Ausente} : PedirCriacao(r, p, a)
       \/ PedirEdicao(r, p)
       \/ \E a \in Arquivos : PedirInclusao(r, p, a) \/ PedirExclusao(r, p, a)
       \/ PedirRemocao(r, p)

Continuar(r) ==
    \/ Guardar(r)
    \/ Gravar(r)
    \/ Reler(r)
    \/ LerArquivos(r)
    \/ ApagarObjetos(r)
    \/ ApagarLinhas(r)
    \/ Apagar(r)
    \/ Publicar(r)

NextPastas ==
    \/ \E r \in Reqs : Chegar(r) \/ Continuar(r) \/ Falhar(r)
    \/ \E t \in DOMAIN tarefas : Montar(t) \/ Enviar(t) \/ Perder(t)
    \/ Reindexar \/ ReindexarSemConta \/ Lote \/ MontarLote \/ EnviarLote \/ PerderLote
    \/ Reiniciar

-----------------------------------------------------------------------------
PastasTypeOK ==
    /\ pastas \in [Ids -> Edicoes \cup {Ausente, Removida}]
    /\ arquivos \in [Arquivos -> Ids \cup {Ausente}]
    /\ \A a \in Arquivos : arquivos[a] \in Vivas \cup {Ausente}
    /\ objetos \subseteq Arquivos
    /\ \A r \in Reqs : pedidos[r] \in Pedido \cup {Livre}
    /\ \A t \in DOMAIN tarefas : tarefas[t] \in Tarefa \cup {Livre}
    /\ indice \in [Ids -> Edicoes \cup {Ausente}]

\* A file's row and its object come and go together: one is there without the other only
\* while a request about the file is under way, or after one was interrupted, or if the
\* file was put on a shelf while that was being removed; and an object without its row,
\* if its deletion failed and the driver hid it.
ArquivoEObjetoAndamJuntos ==
    \A a \in Arquivos :
       (arquivos[a] # Ausente) # (a \in objetos)
       => \/ a \in historia.partidos
          \/ a \in historia.largados \cap objetos
          \/ \E r \in Reqs : /\ pedidos[r] # Livre
                             /\ a = pedidos[r].arquivo \/ a \in pedidos[r].lidos

\* With nothing under way the index has what the table has of each shelf, but for those
\* whose updates crossed, failed or were lost since the last one that did not.
IndiceSoErraPorDesvio ==
    /\ \A r \in Reqs : pedidos[r] = Livre
    /\ \A t \in DOMAIN tarefas : tarefas[t] = Livre
    /\ reindexacao = Livre
    => \A p \in Ids : indice[p] # Documento(p) => p \in historia.desviadas

\* Rebuilding the index passes over a shelf that is there all the time only if another
\* one comes or goes meanwhile, or the count or a batch fails.
PulaSoSeMudam ==
    [][ /\ reindexacao # Livre /\ reindexacao.fase = "lote" /\ reindexacao' = Livre
        /\ contagem'.reinicios = contagem.reinicios
        => reindexacao.faltam \cap Vivas = {} \/ ~reindexacao.limpa ]_varsPastas
=============================================================================
