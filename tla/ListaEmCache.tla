----------------------------- MODULE ListaEmCache -----------------------------
(***************************************************************************)
(* A list kept in the cache under a number that every write raises: the    *)
(* same code in PastasService (modelled here), NotificacoesService,        *)
(* NugecidService and EstatisticasService.                                 *)
(*                                                                         *)
(* The number is a value of the cache like any other: it is read and then  *)
(* set, and it expires, by the default of the module.  A list is kept      *)
(* under the number read before the table was.  The cache is in the        *)
(* memory of the one process.                                              *)
(***************************************************************************)
EXTENDS Naturals

CONSTANTS
    Escritores,     \* the requests that may be writing at one time
    Leitores,       \* those for the list
    MaxEscritas,    \* bound: writes in all
    SemLista        \* nothing is kept under this number

ASSUME MaxEscritasAssumption == MaxEscritas \in Nat

CACHE_VERSION_INITIAL == 1

VARIABLES
    escritas,       \* how many writes have been committed
    escritores,     \* what each request that writes holds
    numero,         \* the number in the cache; 0: none, or expired
    entradas,       \* the list kept under each number: how many writes it has seen
    leitores,       \* what each request for the list holds
    \* History:
    prontas,        \* the last write that was answered
    alto,           \* the highest number there has been
    voltaram        \* the numbers that have been left and come back

passado == << prontas, alto, voltaram >>
varsLista == << escritas, escritores, numero, entradas, leitores, passado >>

\* Each write raises the number by one, at most.
Numeros == CACHE_VERSION_INITIAL .. MaxEscritas + CACHE_VERSION_INITIAL
Parado == [fase |-> "parado"]
Escritor == [fase: {"ler", "por"}, escrita: 1 .. MaxEscritas, proximo: Numeros \cup {0}]
\* desde (history) is the last write answered before the request read the number.
Leitor == [fase: {"procurar", "consultar", "por"}, numero: Numeros,
           lista: 0 .. MaxEscritas, desde: 0 .. MaxEscritas]

InitLista ==
    /\ escritas = 0 /\ escritores = [w \in Escritores |-> Parado]
    /\ numero = 0 /\ entradas = [n \in Numeros |-> SemLista]
    /\ leitores = [l \in Leitores |-> Parado]
    /\ prontas = 0 /\ alto = CACHE_VERSION_INITIAL /\ voltaram = {}

\* getCacheVersion: the number a reader sees.
Corrente(n) == IF n = 0 THEN CACHE_VERSION_INITIAL ELSE n

Mudar(n) ==
    /\ numero' = n
    /\ alto' = IF Corrente(n) > alto THEN Corrente(n) ELSE alto
    /\ voltaram' = IF Corrente(n) # Corrente(numero) /\ Corrente(n) <= alto
                   THEN voltaram \cup {Corrente(n)} ELSE voltaram

-----------------------------------------------------------------------------
(* Writers. *)

\* The write itself, whatever it is.
Escrever(w) ==
    /\ escritores[w] = Parado /\ escritas < MaxEscritas
    /\ escritas' = escritas + 1
    /\ escritores' = [escritores EXCEPT ![w] =
          [fase |-> "ler", escrita |-> escritas + 1, proximo |-> 0]]
    /\ UNCHANGED << numero, entradas, leitores, passado >>

\* bumpCacheVersion: the number is read ...
LerNumero(w) ==
    /\ escritores[w].fase = "ler"
    /\ escritores' = [escritores EXCEPT ![w].fase = "por",
                                        ![w].proximo = Corrente(numero) + 1]
    /\ UNCHANGED << escritas, numero, entradas, leitores, passado >>

\* ... and set, and the request is answered.
PorNumero(w) ==
    LET e == escritores[w]
    IN  /\ e.fase = "por" /\ Mudar(e.proximo)
        /\ escritores' = [escritores EXCEPT ![w] = Parado]
        /\ prontas' = IF e.escrita > prontas THEN e.escrita ELSE prontas
        /\ UNCHANGED << escritas, entradas, leitores >>

-----------------------------------------------------------------------------
(* Readers: findAll. *)

Listar(l) ==
    /\ leitores[l] = Parado
    /\ leitores' = [leitores EXCEPT ![l] =
          [fase |-> "procurar", numero |-> Corrente(numero), lista |-> 0,
           desde |-> prontas]]
    /\ UNCHANGED << escritas, escritores, numero, entradas, passado >>

\* getFromCache: one that is kept is the answer.
ProcurarLista(l) ==
    LET x == leitores[l]
    IN  /\ x.fase = "procurar"
        /\ leitores' = [leitores EXCEPT ![l] =
              IF entradas[x.numero] # SemLista THEN Parado ELSE [x EXCEPT !.fase = "consultar"]]
        /\ UNCHANGED << escritas, escritores, numero, entradas, passado >>

ConsultarLista(l) ==
    /\ leitores[l].fase = "consultar"
    /\ leitores' = [leitores EXCEPT ![l].fase = "por", ![l].lista = escritas]
    /\ UNCHANGED << escritas, escritores, numero, entradas, passado >>

\* setInCache
\* Mutant: under the number there is by now.
PorSobCorrente(l) ==
    /\ leitores[l].fase = "por"
    /\ entradas' = [entradas EXCEPT ![Corrente(numero)] = leitores[l].lista]
    /\ leitores' = [leitores EXCEPT ![l] = Parado]
    /\ UNCHANGED << escritas, escritores, numero, passado >>
Por(l) ==
    /\ leitores[l].fase = "por"
    /\ entradas' = [entradas EXCEPT ![leitores[l].numero] = leitores[l].lista]
    /\ leitores' = [leitores EXCEPT ![l] = Parado]
    /\ UNCHANGED << escritas, escritores, numero, passado >>

-----------------------------------------------------------------------------
(* The cache forgets: a list after its 20 units, the number after 30.  How much else is *)
(* done in that time is not bounded.                                                    *)

ExpirarNumero ==
    /\ numero # 0 /\ Mudar(0)
    /\ UNCHANGED << escritas, escritores, entradas, leitores, prontas >>

\* Mutant: lists are kept without a time to live.
ExpirarNunca(n) == FALSE /\ UNCHANGED varsLista
ExpirarLista(n) ==
    /\ entradas[n] # SemLista /\ entradas' = [entradas EXCEPT ![n] = SemLista]
    /\ UNCHANGED << escritas, escritores, numero, leitores, passado >>

-----------------------------------------------------------------------------
NextLista ==
    \/ \E w \in Escritores : Escrever(w) \/ LerNumero(w) \/ PorNumero(w)
    \/ \E l \in Leitores : Listar(l) \/ ProcurarLista(l) \/ ConsultarLista(l) \/ Por(l)
    \/ ExpirarNumero
    \/ \E n \in Numeros : ExpirarLista(n)

\* A request that has begun goes on; what is kept with a time to live expires.  Nobody has
\* to write, and nobody to ask for the list.
JusticaLista ==
    /\ \A l \in Leitores :
          WF_varsLista(ProcurarLista(l) \/ ConsultarLista(l) \/ Por(l))
    /\ \A n \in Numeros : WF_varsLista(ExpirarLista(n))

-----------------------------------------------------------------------------
ListaTypeOK ==
    /\ escritas \in 0 .. MaxEscritas
    /\ escritores \in [Escritores -> Escritor \cup {Parado}]
    /\ numero \in Numeros \cup {0}
    /\ entradas \in [Numeros -> (0 .. MaxEscritas) \cup {SemLista}]
    /\ leitores \in [Leitores -> Leitor \cup {Parado}]
    /\ prontas \in 0 .. MaxEscritas /\ alto \in Numeros /\ voltaram \subseteq Numeros

\* A list served from the cache is older than a write that had been answered when it was
\* asked for only if it was kept under a number that had come back: the number keeps old
\* lists out as long as it never takes a value twice.
ListaVelhaSoSobNumeroDeVolta ==
    [][ \A l \in Leitores :
           /\ leitores[l] # Parado /\ leitores[l].fase = "procurar"
           /\ leitores'[l] = Parado
           /\ entradas[leitores[l].numero] < leitores[l].desde
           => leitores[l].numero \in voltaram ]_varsLista

\* When the writes are over, the lists kept become and remain what the table has, whatever
\* numbers were lost or came back.
ListaAcabaAtual ==
    <>[](\A n \in Numeros : entradas[n] \in {SemLista, escritas})
=============================================================================
