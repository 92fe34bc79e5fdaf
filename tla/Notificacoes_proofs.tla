------------------------- MODULE Notificacoes_proofs --------------------------
(***************************************************************************)
(* Proofs about the notifications and the cache of lists, for any number   *)
(* of requests, windows and writes.                                        *)
(***************************************************************************)
EXTENDS MCNotificacoes, FiniteSetTheorems, TLAPS

-----------------------------------------------------------------------------
(* The cache of lists: the numbers. *)

\* The writes that have not yet read the number.
PorLer == { w \in Escritores : escritores[w].fase = "ler" }

\* Each write raises the number by one at most: the highest number there has been, or is
\* about to be set, leaves room for the writes that have still to read it.
NumerosCabem ==
    /\ IsFiniteSet(PorLer)
    /\ Cardinality(PorLer) + alto <= escritas + CACHE_VERSION_INITIAL
    /\ \A w \in Escritores : escritores[w].fase = "por" =>
          /\ escritores[w].proximo # 0
          /\ Cardinality(PorLer) + escritores[w].proximo <= escritas + CACHE_VERSION_INITIAL
    /\ Corrente(numero) <= alto

\* The writes in progress and those answered have been committed.
EscritasFeitas ==
    /\ prontas <= escritas
    /\ \A w \in Escritores : escritores[w] # Parado => escritores[w].escrita <= escritas
    /\ \A l \in Leitores : leitores[l] # Parado =>
          leitores[l].desde <= prontas /\ leitores[l].lista <= escritas

\* Nothing is kept, or read, under a number there has not been.
SemNumeroFuturo ==
    /\ \A n \in Numeros : entradas[n] # SemLista => n <= alto
    /\ \A l \in Leitores : leitores[l] # Parado => leitores[l].numero <= alto

\* The list kept under n, and those about to be, have seen write k.
Viu(n, k) ==
    /\ entradas[n] # SemLista => entradas[n] >= k
    /\ \A l \in Leitores :
          leitores[l].fase = "por" /\ leitores[l].numero = n => leitores[l].lista >= k

\* While the current number is one that never came back, the lists under it have seen all
\* the writes answered, and those whose answer would leave the number as it is.
CorrenteEmDia ==
    Corrente(numero) \notin voltaram =>
        /\ Viu(Corrente(numero), prontas)
        /\ \A w \in Escritores :
              escritores[w].fase = "por" /\ escritores[w].proximo = Corrente(numero)
                 => Viu(Corrente(numero), escritores[w].escrita)

\* A request that looks for a list under a number that never came back finds one that has
\* seen what had been answered when it came.
ProcuraEmDia ==
    \A l \in Leitores :
       leitores[l].fase = "procurar" /\ leitores[l].numero \notin voltaram
          => Viu(leitores[l].numero, leitores[l].desde)

ListaInv ==
    /\ ListaTypeOK /\ NumerosCabem /\ EscritasFeitas /\ SemNumeroFuturo
    /\ CorrenteEmDia /\ ProcuraEmDia

-----------------------------------------------------------------------------
(* The cache of lists: ListaInv is inductive. *)

LEMMA EscritorEmCurso ==
    ASSUME ListaTypeOK, NEW w \in Escritores
    PROVE  /\ escritores[w] = Parado <=> escritores[w].fase = "parado"
           /\ escritores[w] # Parado => escritores[w] \in Escritor
BY DEF ListaTypeOK, Parado, Escritor

LEMMA LeitorEmCurso ==
    ASSUME ListaTypeOK, NEW l \in Leitores
    PROVE  /\ leitores[l] = Parado <=> leitores[l].fase = "parado"
           /\ leitores[l] # Parado => leitores[l] \in Leitor
BY DEF ListaTypeOK, Parado, Leitor

\* The number a reader sees is a number.
LEMMA CorrenteTipo ==
    ASSUME NEW n \in Numeros \cup {0}
    PROVE  Corrente(n) \in Numeros
BY MaxEscritasAssumption DEF Corrente, Numeros, CACHE_VERSION_INITIAL

LEMMA ListaInvInit == InitLista => ListaInv
<1>. SUFFICES ASSUME InitLista PROVE ListaInv
  OBVIOUS
<1>. USE MaxEscritasAssumption DEF InitLista, Numeros, CACHE_VERSION_INITIAL
<1>1. ListaTypeOK
  BY DEF ListaTypeOK
<1>2. PorLer = {}
  BY DEF PorLer, Parado
<1>3. NumerosCabem
  <2>1. IsFiniteSet(PorLer) /\ Cardinality(PorLer) = 0
    BY <1>2, FS_EmptySet
  <2>. QED  BY <2>1 DEF NumerosCabem, Parado, Corrente
<1>4. EscritasFeitas /\ SemNumeroFuturo /\ ProcuraEmDia
  BY DEF EscritasFeitas, SemNumeroFuturo, ProcuraEmDia, Parado
<1>5. CorrenteEmDia
  BY DEF CorrenteEmDia, Viu, Parado, Corrente
<1>. QED  BY <1>1, <1>3, <1>4, <1>5 DEF ListaInv

\* A write that begins is one more to read the number.
LEMMA EscreverNumeros ==
    ASSUME ListaInv, NEW w \in Escritores, Escrever(w)
    PROVE  ListaTypeOK' /\ NumerosCabem'
<1>. USE MaxEscritasAssumption DEF ListaInv
<1>1. ListaTypeOK'
  BY DEF Escrever, ListaTypeOK, Escritor, Numeros, CACHE_VERSION_INITIAL, passado
<1>2. PorLer' = PorLer \cup {w} /\ w \notin PorLer
  BY DEF Escrever, ListaTypeOK, PorLer, Parado
<1>3. IsFiniteSet(PorLer') /\ Cardinality(PorLer') = Cardinality(PorLer) + 1
         /\ Cardinality(PorLer) \in Nat
  BY <1>2, FS_AddElement, FS_CardinalityType DEF NumerosCabem
<1>4. /\ escritas' = escritas + 1 /\ numero' = numero /\ alto' = alto
      /\ \A v \in Escritores : escritores'[v].fase = "por" => escritores'[v] = escritores[v]
  BY DEF Escrever, ListaTypeOK, passado
<1>5. \A v \in Escritores : escritores[v].fase = "por" => escritores[v].proximo \in Nat
  BY EscritorEmCurso DEF Escritor, Numeros, CACHE_VERSION_INITIAL, Parado
<1>6. alto \in Nat /\ escritas \in Nat
  BY DEF ListaTypeOK, Numeros, CACHE_VERSION_INITIAL
<1>7. CACHE_VERSION_INITIAL \in Nat
  BY DEF CACHE_VERSION_INITIAL
<1>8. NumerosCabem'
  BY <1>3, <1>4, <1>5, <1>6, <1>7 DEF NumerosCabem, Corrente
<1>. QED  BY <1>1, <1>8

\* A write that reads the number leaves the room it had for its own.
LEMMA LerNumeroNumeros ==
    ASSUME ListaInv, NEW w \in Escritores, LerNumero(w)
    PROVE  ListaTypeOK' /\ NumerosCabem'
<1>. USE MaxEscritasAssumption DEF ListaInv
<1>. DEFINE n == Corrente(numero)
<1>1. PorLer' = PorLer \ {w} /\ w \in PorLer
  BY DEF LerNumero, ListaTypeOK, PorLer
<1>2. IsFiniteSet(PorLer') /\ Cardinality(PorLer') = Cardinality(PorLer) - 1
         /\ Cardinality(PorLer') \in Nat /\ Cardinality(PorLer) \in Nat
  BY <1>1, FS_RemoveElement, FS_CardinalityType DEF NumerosCabem
<1>3. n \in Numeros /\ n <= alto /\ alto \in Nat /\ escritas \in 0 .. MaxEscritas
  BY CorrenteTipo DEF ListaTypeOK, NumerosCabem, Numeros, CACHE_VERSION_INITIAL
<1>4. Cardinality(PorLer) + alto <= escritas + 1
  BY DEF NumerosCabem, CACHE_VERSION_INITIAL
<1>5. n + 1 \in Numeros /\ Cardinality(PorLer') + (n + 1) <= escritas + 1 /\ n + 1 # 0
         /\ Cardinality(PorLer') + alto <= escritas + 1
  BY <1>2, <1>3, <1>4 DEF Numeros, CACHE_VERSION_INITIAL
<1>. HIDE DEF n
<1>6. escritores' = [escritores EXCEPT ![w].fase = "por", ![w].proximo = n + 1]
         /\ UNCHANGED << escritas, numero, entradas, leitores, passado >>
  BY DEF LerNumero, n
<1>7. escritores[w] \in Escritor
  BY EscritorEmCurso DEF LerNumero, Parado
<1>8. /\ escritores'[w] \in Escritor
      /\ escritores'[w].fase = "por" /\ escritores'[w].proximo = n + 1
  BY <1>5, <1>6, <1>7 DEF ListaTypeOK, Escritor
<1>9. \A v \in Escritores \ {w} : escritores'[v] = escritores[v]
  BY <1>6 DEF ListaTypeOK
<1>10. ListaTypeOK'
  <2>1. escritores' \in [Escritores -> Escritor \cup {Parado}]
    BY <1>6, <1>8, <1>9 DEF ListaTypeOK
  <2>. QED  BY <1>6, <2>1 DEF ListaTypeOK, passado
<1>11. \A v \in Escritores : escritores[v].fase = "por" => escritores[v].proximo \in Nat
  BY EscritorEmCurso DEF Escritor, Numeros, CACHE_VERSION_INITIAL, Parado
<1>12. ASSUME NEW v \in Escritores, escritores'[v].fase = "por"
       PROVE  /\ escritores'[v].proximo # 0
              /\ Cardinality(PorLer') + escritores'[v].proximo <= escritas + 1
  <2>1. CASE v = w
    BY <2>1, <1>5, <1>8
  <2>2. CASE v # w
    <3>1. /\ escritores'[v] = escritores[v]
          /\ escritores[v].proximo # 0 /\ escritores[v].proximo \in Nat
          /\ Cardinality(PorLer) + escritores[v].proximo <= escritas + 1
      BY <2>2, <1>9, <1>11, <1>12 DEF NumerosCabem, CACHE_VERSION_INITIAL
    <3>. QED  BY <3>1, <1>2, <1>3
  <2>. QED  BY <2>1, <2>2
<1>13. NumerosCabem'
  <2>1. escritas' = escritas /\ alto' = alto /\ Corrente(numero)' = Corrente(numero)
    BY <1>6 DEF passado, Corrente
  <2>2. Corrente(numero) <= alto
    BY DEF NumerosCabem
  <2>. QED
    BY <1>2, <1>5, <1>12, <2>1, <2>2 DEF NumerosCabem, CACHE_VERSION_INITIAL
<1>. QED  BY <1>10, <1>13

\* The number set by a write keeps within the room left.
LEMMA PorNumeroNumeros ==
    ASSUME ListaInv, NEW w \in Escritores, PorNumero(w)
    PROVE  ListaTypeOK' /\ NumerosCabem'
<1>. USE MaxEscritasAssumption DEF ListaInv
<1>. DEFINE e == escritores[w]
            n == e.proximo
<1>1. e \in Escritor /\ e.fase = "por"
  BY EscritorEmCurso DEF PorNumero, Parado
<1>2. n # 0 /\ n \in Numeros /\ Cardinality(PorLer) + n <= escritas + 1
  BY <1>1 DEF Escritor, NumerosCabem, CACHE_VERSION_INITIAL
<1>3. escritores' = [escritores EXCEPT ![w] = Parado]
         /\ UNCHANGED << escritas, entradas, leitores >>
         /\ numero' = n /\ alto' \in {alto, n} /\ n <= alto' /\ alto <= alto'
         /\ voltaram' \in {voltaram, voltaram \cup {n}}
         /\ prontas' \in {prontas, e.escrita}
  BY <1>2 DEF PorNumero, Mudar, Corrente, ListaTypeOK, Numeros, CACHE_VERSION_INITIAL
<1>4. ListaTypeOK'
  BY <1>1, <1>2, <1>3 DEF ListaTypeOK, Escritor
<1>5. PorLer' = PorLer
  BY <1>1, <1>3 DEF PorLer, Parado, ListaTypeOK
<1>6. \A v \in Escritores : escritores'[v].fase = "por" => escritores'[v] = escritores[v]
  BY <1>3 DEF ListaTypeOK, Parado
<1>7. Corrente(numero') = n
  BY <1>2, <1>3 DEF Corrente
<1>8. Cardinality(PorLer) + alto' <= escritas + 1
  BY <1>2, <1>3 DEF NumerosCabem, CACHE_VERSION_INITIAL
<1>. HIDE DEF n
<1>9. NumerosCabem'
  BY <1>3, <1>5, <1>6, <1>7, <1>8 DEF NumerosCabem, CACHE_VERSION_INITIAL
<1>. QED  BY <1>4, <1>9

\* A number that expires is the first one again.
LEMMA ExpirarNumeroNumeros ==
    ASSUME ListaInv, ExpirarNumero
    PROVE  ListaTypeOK' /\ NumerosCabem'
<1>. USE MaxEscritasAssumption DEF ListaInv
<1>1. Corrente(0) = 1 /\ 1 <= alto /\ 1 \in Numeros
  BY DEF Corrente, ListaTypeOK, Numeros, CACHE_VERSION_INITIAL
<1>2. /\ numero' = 0 /\ alto' = alto /\ voltaram' \in {voltaram, voltaram \cup {1}}
      /\ UNCHANGED << escritas, escritores, entradas, leitores, prontas >>
  BY <1>1 DEF ExpirarNumero, Mudar, ListaTypeOK, Numeros, CACHE_VERSION_INITIAL
<1>3. ListaTypeOK'
  BY <1>1, <1>2 DEF ListaTypeOK
<1>4. NumerosCabem'
  BY <1>1, <1>2 DEF NumerosCabem, PorLer
<1>. QED  BY <1>3, <1>4

\* The steps that concern the lists only.
LEMMA ListasNumeros ==
    ASSUME ListaInv,
           \/ \E l \in Leitores : Listar(l) \/ ProcurarLista(l) \/ ConsultarLista(l) \/ Por(l)
           \/ \E n \in Numeros : ExpirarLista(n)
           \/ UNCHANGED varsLista
    PROVE  ListaTypeOK' /\ NumerosCabem'
<1>. USE DEF ListaInv
<1>1. UNCHANGED << escritas, escritores, numero, alto, voltaram, prontas >>
  BY DEF Listar, ProcurarLista, ConsultarLista, Por, ExpirarLista, varsLista, passado
<1>2. NumerosCabem'
  BY <1>1 DEF NumerosCabem, PorLer
<1>3. ASSUME NEW l \in Leitores, Listar(l) PROVE ListaTypeOK'
  <2>1. Corrente(numero) \in Numeros
    BY CorrenteTipo DEF ListaTypeOK
  <2>. QED  BY <1>1, <1>3, <2>1, MaxEscritasAssumption DEF Listar, ListaTypeOK, Leitor
<1>4. ASSUME NEW l \in Leitores, ProcurarLista(l) PROVE ListaTypeOK'
  <2>1. leitores[l] \in Leitor
    BY <1>4, LeitorEmCurso DEF ProcurarLista, Parado
  <2>. QED  BY <1>1, <1>4, <2>1 DEF ProcurarLista, ListaTypeOK, Leitor
<1>5. ASSUME NEW l \in Leitores, ConsultarLista(l) PROVE ListaTypeOK'
  <2>1. leitores[l] \in Leitor
    BY <1>5, LeitorEmCurso DEF ConsultarLista, Parado
  <2>. QED  BY <1>1, <1>5, <2>1 DEF ConsultarLista, ListaTypeOK, Leitor
<1>6. ASSUME NEW l \in Leitores, Por(l) PROVE ListaTypeOK'
  <2>1. leitores[l] \in Leitor
    BY <1>6, LeitorEmCurso DEF Por, Parado
  <2>. QED  BY <1>1, <1>6, <2>1 DEF Por, ListaTypeOK, Leitor
<1>7. ASSUME NEW n \in Numeros, ExpirarLista(n) PROVE ListaTypeOK'
  BY <1>1, <1>7 DEF ExpirarLista, ListaTypeOK
<1>8. ASSUME UNCHANGED varsLista PROVE ListaTypeOK'
  BY <1>8 DEF varsLista, passado, ListaTypeOK
<1>9. ListaTypeOK'
  BY <1>3, <1>4, <1>5, <1>6, <1>7, <1>8
<1>. QED  BY <1>2, <1>9

LEMMA NumerosStep ==
    ASSUME ListaInv, [NextLista]_varsLista
    PROVE  ListaTypeOK' /\ NumerosCabem'
BY EscreverNumeros, LerNumeroNumeros, PorNumeroNumeros, ExpirarNumeroNumeros, ListasNumeros
   DEF NextLista

\* What is in progress has been committed, and so has what was answered.
LEMMA EscritasFeitasStep ==
    ASSUME ListaInv, [NextLista]_varsLista
    PROVE  EscritasFeitas'
<1>. USE DEF ListaInv
<1>1. /\ escritas \in Nat /\ prontas \in Nat /\ prontas <= escritas
      /\ \A w \in Escritores : escritores[w] # Parado =>
            escritores[w] \in Escritor /\ escritores[w].escrita \in Nat
      /\ \A l \in Leitores : leitores[l] # Parado =>
            leitores[l] \in Leitor /\ leitores[l].desde \in Nat /\ leitores[l].lista \in Nat
  BY MaxEscritasAssumption DEF ListaTypeOK, Escritor, Leitor, EscritasFeitas
<1>2. ASSUME NEW w \in Escritores, Escrever(w) PROVE EscritasFeitas'
  BY <1>1, <1>2 DEF Escrever, EscritasFeitas, ListaTypeOK, passado
<1>3. ASSUME NEW w \in Escritores, LerNumero(w) PROVE EscritasFeitas'
  <2>1. escritores[w] \in Escritor /\ escritores[w] # Parado
    BY <1>3, EscritorEmCurso DEF LerNumero, Parado
  <2>2. escritores'[w].escrita = escritores[w].escrita
           /\ \A v \in Escritores \ {w} : escritores'[v] = escritores[v]
    BY <1>3, <2>1 DEF LerNumero, ListaTypeOK, Escritor
  <2>. QED  BY <1>1, <1>3, <2>1, <2>2 DEF LerNumero, EscritasFeitas, passado
<1>4. ASSUME NEW w \in Escritores, PorNumero(w) PROVE EscritasFeitas'
  <2>1. escritores[w] \in Escritor /\ escritores[w] # Parado
    BY <1>4, EscritorEmCurso DEF PorNumero, Parado
  <2>2. /\ escritas' = escritas /\ leitores' = leitores
        /\ escritores' = [escritores EXCEPT ![w] = Parado]
        /\ prontas' = IF escritores[w].escrita > prontas THEN escritores[w].escrita
                      ELSE prontas
    BY <1>4 DEF PorNumero
  <2>3. prontas <= prontas' /\ prontas' <= escritas /\ prontas' \in Nat
    BY <1>1, <2>1, <2>2 DEF EscritasFeitas
  <2>4. \A v \in Escritores : escritores'[v] # Parado => escritores'[v] = escritores[v]
    BY <2>2 DEF ListaTypeOK
  <2>5. \A l \in Leitores : leitores[l] # Parado => leitores[l].desde <= prontas'
    BY <1>1, <2>3 DEF EscritasFeitas
  <2>. QED  BY <2>2, <2>3, <2>4, <2>5 DEF EscritasFeitas
<1>5. ASSUME NEW l \in Leitores, Listar(l) PROVE EscritasFeitas'
  BY <1>1, <1>5 DEF Listar, EscritasFeitas, ListaTypeOK, passado
<1>6. ASSUME NEW l \in Leitores, ProcurarLista(l) PROVE EscritasFeitas'
  <2>1. leitores[l] \in Leitor /\ leitores[l] # Parado
    BY <1>6, LeitorEmCurso DEF ProcurarLista, Parado
  <2>2. /\ leitores'[l] # Parado =>
              leitores'[l].desde = leitores[l].desde /\ leitores'[l].lista = leitores[l].lista
        /\ \A m \in Leitores \ {l} : leitores'[m] = leitores[m]
    BY <1>6, <2>1 DEF ProcurarLista, ListaTypeOK, Leitor
  <2>. QED  BY <1>1, <1>6, <2>1, <2>2 DEF ProcurarLista, EscritasFeitas, passado
<1>7. ASSUME NEW l \in Leitores, ConsultarLista(l) PROVE EscritasFeitas'
  <2>1. leitores[l] \in Leitor /\ leitores[l] # Parado
    BY <1>7, LeitorEmCurso DEF ConsultarLista, Parado
  <2>2. /\ leitores'[l].desde = leitores[l].desde /\ leitores'[l].lista = escritas
        /\ \A m \in Leitores \ {l} : leitores'[m] = leitores[m]
    BY <1>7, <2>1 DEF ConsultarLista, ListaTypeOK, Leitor
  <2>3. leitores'[l].desde <= prontas /\ leitores'[l].lista <= escritas
    BY <1>1, <2>1, <2>2 DEF EscritasFeitas
  <2>4. UNCHANGED << escritas, escritores, prontas >>
    BY <1>7 DEF ConsultarLista, passado
  <2>. QED  BY <2>2, <2>3, <2>4 DEF EscritasFeitas
<1>8. ASSUME NEW l \in Leitores, Por(l) PROVE EscritasFeitas'
  BY <1>1, <1>8 DEF Por, EscritasFeitas, ListaTypeOK, passado
<1>9. ASSUME UNCHANGED << escritas, escritores, leitores, prontas >> PROVE EscritasFeitas'
  BY <1>9 DEF EscritasFeitas
<1>10. ASSUME \/ ExpirarNumero \/ \E n \in Numeros : ExpirarLista(n)
              \/ UNCHANGED varsLista
       PROVE  UNCHANGED << escritas, escritores, leitores, prontas >>
  BY <1>10 DEF ExpirarNumero, ExpirarLista, varsLista, passado
<1>. QED
  BY <1>2, <1>3, <1>4, <1>5, <1>6, <1>7, <1>8, <1>9, <1>10 DEF NextLista

\* The highest number is never lowered, and it covers the number a reader takes.
LEMMA SemNumeroFuturoStep ==
    ASSUME ListaInv, [NextLista]_varsLista
    PROVE  alto <= alto' /\ SemNumeroFuturo'
<1>. USE DEF ListaInv
<1>1. alto \in Nat /\ Corrente(numero) \in Nat /\ Corrente(numero) <= alto
         /\ Numeros \subseteq Nat
  BY CorrenteTipo DEF ListaTypeOK, Numeros, CACHE_VERSION_INITIAL, NumerosCabem
<1>2. ASSUME NEW w \in Escritores, Escrever(w) \/ LerNumero(w)
      PROVE  alto' = alto /\ SemNumeroFuturo'
  BY <1>2 DEF Escrever, LerNumero, passado, SemNumeroFuturo
<1>3. ASSUME NEW n \in Numeros \cup {0}, Mudar(n), UNCHANGED << entradas, leitores >>
      PROVE  alto <= alto' /\ SemNumeroFuturo'
  <2>1. Corrente(n) \in Nat
    BY <1>1, CorrenteTipo
  <2>2. alto <= alto' /\ alto' \in Nat
    BY <1>1, <1>3, <2>1 DEF Mudar
  <2>3. \A l \in Leitores : leitores[l] # Parado => leitores[l].numero \in Nat
    BY <1>1 DEF ListaTypeOK, Leitor
  <2>. QED  BY <1>1, <1>3, <2>2, <2>3 DEF SemNumeroFuturo
<1>4. ASSUME NEW w \in Escritores, PorNumero(w) PROVE alto <= alto' /\ SemNumeroFuturo'
  <2>1. escritores[w].proximo \in Numeros \cup {0}
    BY <1>4, EscritorEmCurso DEF PorNumero, Parado, Escritor
  <2>. QED  BY <1>3, <1>4, <2>1 DEF PorNumero
<1>5. ASSUME ExpirarNumero PROVE alto <= alto' /\ SemNumeroFuturo'
  BY <1>3, <1>5 DEF ExpirarNumero
<1>6. ASSUME NEW l \in Leitores, Listar(l) PROVE alto' = alto /\ SemNumeroFuturo'
  BY <1>1, <1>6 DEF Listar, passado, SemNumeroFuturo, ListaTypeOK
<1>7. ASSUME NEW l \in Leitores, ProcurarLista(l) \/ ConsultarLista(l)
      PROVE  alto' = alto /\ SemNumeroFuturo'
  <2>1. leitores[l] \in Leitor /\ leitores[l] # Parado
    BY <1>7, LeitorEmCurso DEF ProcurarLista, ConsultarLista, Parado
  <2>2. /\ leitores'[l] # Parado => leitores'[l].numero = leitores[l].numero
        /\ \A m \in Leitores \ {l} : leitores'[m] = leitores[m]
    BY <1>7, <2>1 DEF ProcurarLista, ConsultarLista, ListaTypeOK, Leitor
  <2>. QED  BY <1>7, <2>1, <2>2 DEF ProcurarLista, ConsultarLista, passado, SemNumeroFuturo
<1>8. ASSUME NEW l \in Leitores, Por(l) PROVE alto' = alto /\ SemNumeroFuturo'
  <2>1. leitores[l] # Parado
    BY <1>8 DEF Por, Parado
  <2>. QED  BY <1>8, <2>1 DEF Por, passado, SemNumeroFuturo, ListaTypeOK
<1>9. ASSUME NEW n \in Numeros, ExpirarLista(n) PROVE alto' = alto /\ SemNumeroFuturo'
  BY <1>9 DEF ExpirarLista, passado, SemNumeroFuturo, ListaTypeOK
<1>10. ASSUME UNCHANGED varsLista PROVE alto' = alto /\ SemNumeroFuturo'
  BY <1>10 DEF varsLista, passado, SemNumeroFuturo
<1>11. alto <= alto
  BY <1>1
<1>. QED
  BY <1>2, <1>4, <1>5, <1>6, <1>7, <1>8, <1>9, <1>10, <1>11 DEF NextLista

\* The lists under n go on having seen write k: an entry that changes is one about to be
\* kept, or expires, and a list just read has seen all the writes.
LEMMA ViuFica ==
    ASSUME ListaInv, [NextLista]_varsLista, NEW n \in Numeros, NEW k \in 0 .. escritas,
           Viu(n, k)
    PROVE  Viu(n, k)'
<1>. USE DEF ListaInv
<1>1. k \in Nat /\ escritas \in Nat /\ escritas >= k
  BY MaxEscritasAssumption DEF ListaTypeOK
<1>2. ASSUME NEW l \in Leitores, Listar(l) PROVE Viu(n, k)'
  BY <1>2 DEF Listar, Viu, ListaTypeOK, passado
<1>3. ASSUME NEW l \in Leitores, ProcurarLista(l) PROVE Viu(n, k)'
  <2>1. leitores[l] \in Leitor
    BY <1>3, LeitorEmCurso DEF ProcurarLista, Parado
  <2>2. leitores'[l].fase # "por"
    BY <1>3, <2>1 DEF ProcurarLista, ListaTypeOK, Parado, Leitor
  <2>. QED  BY <1>3, <2>2 DEF ProcurarLista, Viu, ListaTypeOK, passado
<1>4. ASSUME NEW l \in Leitores, ConsultarLista(l) PROVE Viu(n, k)'
  <2>1. leitores[l] \in Leitor
    BY <1>4, LeitorEmCurso DEF ConsultarLista, Parado
  <2>2. leitores'[l].lista = escritas
    BY <1>4, <2>1 DEF ConsultarLista, ListaTypeOK, Leitor
  <2>3. \A m \in Leitores \ {l} : leitores'[m] = leitores[m]
    BY <1>4 DEF ConsultarLista, ListaTypeOK
  <2>4. entradas' = entradas
    BY <1>4 DEF ConsultarLista
  <2>. QED  BY <1>1, <2>2, <2>3, <2>4 DEF Viu
<1>5. ASSUME NEW l \in Leitores, Por(l) PROVE Viu(n, k)'
  <2>1. leitores[l] \in Leitor /\ leitores[l].fase = "por" /\ leitores[l].numero \in Numeros
    BY <1>5, LeitorEmCurso DEF Por, Parado, Leitor
  <2>2. leitores[l].numero = n => leitores[l].lista >= k
    BY <2>1 DEF Viu
  <2>3. entradas'[n] = IF leitores[l].numero = n THEN leitores[l].lista ELSE entradas[n]
    BY <1>5, <2>1 DEF Por, ListaTypeOK
  <2>4. \A m \in Leitores : leitores'[m].fase = "por" => leitores'[m] = leitores[m]
    BY <1>5 DEF Por, ListaTypeOK, Parado
  <2>. QED  BY <2>2, <2>3, <2>4 DEF Viu
<1>6. ASSUME NEW m \in Numeros, ExpirarLista(m) PROVE Viu(n, k)'
  BY <1>6 DEF ExpirarLista, Viu, ListaTypeOK
<1>7. ASSUME UNCHANGED << entradas, leitores >> PROVE Viu(n, k)'
  BY <1>7 DEF Viu
<1>8. ASSUME \/ \E w \in Escritores : Escrever(w) \/ LerNumero(w) \/ PorNumero(w)
             \/ ExpirarNumero \/ UNCHANGED varsLista
      PROVE  UNCHANGED << entradas, leitores >>
  BY <1>8 DEF Escrever, LerNumero, PorNumero, ExpirarNumero, varsLista
<1>. QED  BY <1>2, <1>3, <1>4, <1>5, <1>6, <1>7, <1>8 DEF NextLista

\* Nothing has been kept under a number higher than all.
LEMMA NumeroNovo ==
    ASSUME ListaInv, NEW n \in Numeros, n > alto, NEW k
    PROVE  Viu(n, k)
<1>. USE DEF ListaInv
<1>1. entradas[n] = SemLista
  BY DEF SemNumeroFuturo, ListaTypeOK, Numeros, CACHE_VERSION_INITIAL
<1>2. ASSUME NEW l \in Leitores, leitores[l].fase = "por" PROVE leitores[l].numero # n
  <2>1. leitores[l] # Parado
    BY <1>2 DEF Parado
  <2>. QED  BY <2>1, MaxEscritasAssumption
            DEF SemNumeroFuturo, ListaTypeOK, Leitor, Numeros, CACHE_VERSION_INITIAL
<1>. QED  BY <1>1, <1>2 DEF Viu

\* A number that changes goes up to a new one, or comes back.
LEMMA MudarNumero ==
    ASSUME ListaInv, NEW n \in Numeros \cup {0}, Mudar(n)
    PROVE  /\ voltaram \subseteq voltaram'
           /\ \/ Corrente(n) = Corrente(numero)
              \/ Corrente(n) \in voltaram'
              \/ Corrente(n) > alto
BY CorrenteTipo DEF Mudar, ListaInv, ListaTypeOK, Numeros, CACHE_VERSION_INITIAL

LEMMA ProcuraEmDiaStep ==
    ASSUME ListaInv, [NextLista]_varsLista
    PROVE  voltaram \subseteq voltaram' /\ ProcuraEmDia'
<1>. USE DEF ListaInv
<1>1. voltaram \subseteq voltaram'
  BY DEF NextLista, Escrever, LerNumero, PorNumero, Mudar, Listar, ProcurarLista,
         ConsultarLista, Por, ExpirarNumero, ExpirarLista, varsLista, passado
<1>2. \A n \in Numeros, k \in 0 .. escritas : Viu(n, k) => Viu(n, k)'
  BY ViuFica
<1>3. ASSUME NEW l \in Leitores, leitores'[l].fase = "procurar",
             leitores'[l].numero \notin voltaram'
      PROVE  Viu(leitores[l].numero, leitores[l].desde)'
  <2>1. CASE leitores'[l] = leitores[l]
    <3>1. leitores[l] # Parado /\ leitores[l] \in Leitor
      BY <1>3, <2>1, LeitorEmCurso DEF Parado
    <3>2. leitores[l].numero \in Numeros /\ leitores[l].desde \in 0 .. escritas
      BY <3>1, MaxEscritasAssumption DEF EscritasFeitas, ListaTypeOK, Leitor
    <3>3. Viu(leitores[l].numero, leitores[l].desde)
      BY <1>1, <1>3, <2>1 DEF ProcuraEmDia
    <3>. QED  BY <1>2, <2>1, <3>2, <3>3 DEF Viu
  <2>2. CASE leitores'[l] # leitores[l]
    <3>1. Listar(l)
      <4>1. ASSUME NEW m \in Leitores, ProcurarLista(m) \/ ConsultarLista(m) \/ Por(m)
            PROVE  FALSE
        <5>1. m = l
          BY <2>2, <4>1 DEF ProcurarLista, ConsultarLista, Por, ListaTypeOK
        <5>2. leitores[l] \in Leitor
          BY <4>1, <5>1, LeitorEmCurso DEF ProcurarLista, ConsultarLista, Por, Parado
        <5>. QED
          BY <1>3, <4>1, <5>1, <5>2
             DEF ProcurarLista, ConsultarLista, Por, ListaTypeOK, Leitor, Parado
      <4>2. ASSUME NEW m \in Leitores, Listar(m) PROVE m = l
        BY <2>2, <4>2 DEF Listar, ListaTypeOK
      <4>3. leitores' # leitores
        BY <2>2
      <4>. QED
        BY <4>1, <4>2, <4>3 DEF NextLista, Escrever, LerNumero, PorNumero, ExpirarNumero,
                                ExpirarLista, varsLista
    <3>2. /\ leitores'[l].numero = Corrente(numero) /\ leitores'[l].desde = prontas
          /\ voltaram' = voltaram
      BY <3>1 DEF Listar, ListaTypeOK, passado
    <3>3. Corrente(numero) \in Numeros /\ prontas \in 0 .. escritas
      BY CorrenteTipo, MaxEscritasAssumption DEF ListaTypeOK, EscritasFeitas
    <3>4. Viu(Corrente(numero), prontas)
      BY <1>3, <3>2 DEF CorrenteEmDia
    <3>. QED  BY <1>2, <3>2, <3>3, <3>4 DEF Viu
  <2>. QED  BY <2>1, <2>2
<1>. QED  BY <1>1, <1>3 DEF ProcuraEmDia

\* A write that is to leave the number where it is read it before: the lists under the
\* number have seen it.
LEMMA CorrenteEmDiaStep ==
    ASSUME ListaInv, [NextLista]_varsLista
    PROVE  CorrenteEmDia'
<1>. USE DEF ListaInv
<1>1. \A n \in Numeros, k \in 0 .. escritas : Viu(n, k) => Viu(n, k)'
  BY ViuFica
<1>2. /\ Corrente(numero) \in Numeros /\ prontas \in 0 .. escritas /\ alto \in Nat
      /\ \A w \in Escritores : escritores[w].fase = "por" =>
            escritores[w] \in Escritor /\ escritores[w].escrita \in 0 .. escritas
  <2>1. ASSUME NEW w \in Escritores, escritores[w].fase = "por"
        PROVE  escritores[w] \in Escritor /\ escritores[w].escrita \in 0 .. escritas
    BY <2>1, EscritorEmCurso, MaxEscritasAssumption
       DEF EscritasFeitas, Escritor, Parado, ListaTypeOK
  <2>. QED
    BY <2>1, CorrenteTipo, MaxEscritasAssumption
       DEF ListaTypeOK, EscritasFeitas, Numeros, CACHE_VERSION_INITIAL
<1>3. ASSUME UNCHANGED << numero, voltaram, prontas >>,
             \A w \in Escritores :
                escritores'[w].fase = "por" /\ escritores'[w].proximo = Corrente(numero)
                   => escritores'[w] = escritores[w]
      PROVE  CorrenteEmDia'
  BY <1>1, <1>2, <1>3 DEF CorrenteEmDia, Corrente, Viu
<1>4. ASSUME NEW w \in Escritores, Escrever(w) PROVE CorrenteEmDia'
  <2>1. \A v \in Escritores : escritores'[v].fase = "por" => escritores'[v] = escritores[v]
    BY <1>4 DEF Escrever, ListaTypeOK
  <2>. QED  BY <1>3, <1>4, <2>1 DEF Escrever, passado
<1>5. ASSUME NEW w \in Escritores, LerNumero(w) PROVE CorrenteEmDia'
  <2>1. escritores[w] \in Escritor
    BY <1>5, EscritorEmCurso DEF LerNumero, Parado
  <2>2. escritores'[w].proximo = Corrente(numero) + 1
    BY <1>5, <2>1 DEF LerNumero, ListaTypeOK, Escritor
  <2>3. escritores'[w].proximo # Corrente(numero)
    BY <1>2, <2>2 DEF Numeros, CACHE_VERSION_INITIAL
  <2>4. \A v \in Escritores \ {w} : escritores'[v] = escritores[v]
    BY <1>5 DEF LerNumero, ListaTypeOK
  <2>. QED  BY <1>3, <1>5, <2>3, <2>4 DEF LerNumero, passado
<1>6. ASSUME NEW n \in Numeros \cup {0}, Mudar(n), UNCHANGED << entradas, leitores >>,
             \A w \in Escritores : escritores'[w].fase = "por"
                                      => escritores'[w] = escritores[w],
             Corrente(n) = Corrente(numero) /\ Corrente(numero) \notin voltaram
                => Viu(Corrente(numero), prontas')
      PROVE  CorrenteEmDia'
  <2>1. Corrente(numero)' = Corrente(n) /\ Corrente(n) \in Numeros
    BY <1>6, CorrenteTipo DEF Mudar, Corrente
  <2>2. CASE Corrente(n) = Corrente(numero)
    <3>1. voltaram' = voltaram
      BY <1>6, <2>2 DEF Mudar
    <3>. QED  BY <1>6, <2>1, <2>2, <3>1 DEF CorrenteEmDia, Viu
  <2>3. CASE Corrente(n) \in voltaram'
    BY <2>1, <2>3 DEF CorrenteEmDia
  <2>4. CASE Corrente(n) > alto
    <3>1. \A k : Viu(Corrente(n), k)
      BY <2>1, <2>4, NumeroNovo
    <3>. QED  BY <1>6, <2>1, <3>1 DEF CorrenteEmDia, Viu
  <2>. QED  BY <1>6, <2>2, <2>3, <2>4, MudarNumero
<1>7. ASSUME NEW w \in Escritores, PorNumero(w) PROVE CorrenteEmDia'
  <2>. DEFINE e == escritores[w]
  <2>1. e.fase = "por" /\ e \in Escritor /\ e.proximo \in Numeros \cup {0}
    BY <1>2, <1>7 DEF PorNumero, Escritor
  <2>2. e.proximo # 0
    BY <2>1 DEF NumerosCabem
  <2>3. Mudar(e.proximo) /\ UNCHANGED << entradas, leitores >>
           /\ prontas' \in {prontas, e.escrita}
    BY <1>7 DEF PorNumero
  <2>4. \A v \in Escritores : escritores'[v].fase = "por" => escritores'[v] = escritores[v]
    BY <1>7 DEF PorNumero, ListaTypeOK, Parado
  <2>5. ASSUME Corrente(e.proximo) = Corrente(numero), Corrente(numero) \notin voltaram
        PROVE  Viu(Corrente(numero), prontas')
    <3>1. e.proximo = Corrente(numero)
      BY <2>2, <2>5 DEF Corrente
    <3>2. Viu(Corrente(numero), prontas) /\ Viu(Corrente(numero), e.escrita)
      BY <2>1, <2>5, <3>1 DEF CorrenteEmDia
    <3>. QED  BY <2>3, <3>2
  <2>. QED  BY <1>6, <2>1, <2>3, <2>4, <2>5
<1>8. ASSUME ExpirarNumero PROVE CorrenteEmDia'
  <2>1. Mudar(0) /\ UNCHANGED << entradas, leitores, escritores, prontas >>
    BY <1>8 DEF ExpirarNumero
  <2>2. Corrente(numero) \notin voltaram => Viu(Corrente(numero), prontas)
    BY DEF CorrenteEmDia
  <2>. QED  BY <1>6, <2>1, <2>2
<1>9. ASSUME \/ \E l \in Leitores :
                   Listar(l) \/ ProcurarLista(l) \/ ConsultarLista(l) \/ Por(l)
             \/ \E n \in Numeros : ExpirarLista(n)
             \/ UNCHANGED varsLista
      PROVE  UNCHANGED << numero, voltaram, prontas, escritores >>
  BY <1>9 DEF Listar, ProcurarLista, ConsultarLista, Por, ExpirarLista, varsLista, passado
<1>. QED  BY <1>3, <1>4, <1>5, <1>7, <1>8, <1>9 DEF NextLista

LEMMA ListaInvStep == ListaInv /\ [NextLista]_varsLista => ListaInv'
<1>. SUFFICES ASSUME ListaInv, [NextLista]_varsLista PROVE ListaInv'
  OBVIOUS
<1>1. ListaTypeOK' /\ NumerosCabem'
  BY NumerosStep
<1>2. EscritasFeitas' /\ SemNumeroFuturo' /\ CorrenteEmDia' /\ ProcuraEmDia'
  BY EscritasFeitasStep, SemNumeroFuturoStep, CorrenteEmDiaStep, ProcuraEmDiaStep
<1>. QED  BY <1>1, <1>2 DEF ListaInv

-----------------------------------------------------------------------------
(* What the cache of lists promises. *)

\* The cache of lists, as its module defines it, without the fairness.
SpecLista == InitLista /\ [][NextLista]_varsLista

\* The invariant of the cache: while a number has not come back, what is kept under it has
\* seen every write answered before it was left.
THEOREM ListaSempreEmDia == SpecLista => []ListaInv
<1>. QED  BY ListaInvInit, ListaInvStep, PTL DEF SpecLista

\* The step property behind ListaVelhaSoSobNumeroDeVolta, for one request.
VelhaSoDeVolta(l) ==
    /\ leitores[l] # Parado /\ leitores[l].fase = "procurar"
    /\ leitores'[l] = Parado
    /\ entradas[leitores[l].numero] < leitores[l].desde
    => leitores[l].numero \in voltaram

LEMMA VelhaSoDeVoltaStep ==
    ASSUME ListaInv, [NextLista]_varsLista, NEW l \in Leitores
    PROVE  VelhaSoDeVolta(l)
<1>. SUFFICES ASSUME leitores[l] # Parado, leitores[l].fase = "procurar",
                     leitores'[l] = Parado,
                     entradas[leitores[l].numero] < leitores[l].desde,
                     leitores[l].numero \notin voltaram
              PROVE  FALSE
  BY DEF VelhaSoDeVolta
<1>. USE DEF ListaInv
<1>. DEFINE x == leitores[l]
<1>1. x \in Leitor
  BY LeitorEmCurso
<1>2. ProcurarLista(l)
  <2>1. leitores' # leitores
    OBVIOUS
  <2>2. ASSUME NEW m \in Leitores, Listar(m) \/ ConsultarLista(m) \/ Por(m) PROVE FALSE
    <3>1. m # l
      BY <2>2 DEF Listar, ConsultarLista, Por, Parado
    <3>. QED  BY <2>2, <3>1 DEF Listar, ConsultarLista, Por, ListaTypeOK
  <2>3. ASSUME NEW m \in Leitores, ProcurarLista(m) PROVE m = l
    BY <2>3 DEF ProcurarLista, ListaTypeOK
  <2>. QED
    BY <2>1, <2>2, <2>3 DEF NextLista, Escrever, LerNumero, PorNumero, ExpirarNumero,
                            ExpirarLista, varsLista
<1>3. entradas[x.numero] # SemLista
  BY <1>1, <1>2 DEF ProcurarLista, ListaTypeOK, Leitor, Parado
<1>4. entradas[x.numero] >= x.desde
  BY <1>3 DEF ProcuraEmDia, Viu
<1>5. entradas[x.numero] \in Nat /\ x.desde \in Nat
  BY <1>1, <1>3, MaxEscritasAssumption DEF ListaTypeOK, Leitor
<1>. QED  BY <1>4, <1>5

\* A list served from the cache is older than what had been answered only under a number
\* that had come back.
THEOREM VelhaSoSobNumeroDeVolta == SpecLista => ListaVelhaSoSobNumeroDeVolta
<1>1. ListaInv /\ [NextLista]_varsLista => [\A l \in Leitores : VelhaSoDeVolta(l)]_varsLista
  BY VelhaSoDeVoltaStep
<1>. QED
  BY <1>1, ListaSempreEmDia, PTL DEF SpecLista, ListaVelhaSoSobNumeroDeVolta, VelhaSoDeVolta

-----------------------------------------------------------------------------
(* Notifications: what is in progress. *)

Linha == [chave: Chaves, lida: BOOLEAN, apagada: BOOLEAN]

\* What a job or call in progress is, by its phase.
PedidoPorFase(p) ==
    /\ p.tipo = "criar" => ~p.espera
    /\ p.fase \in {"procurar", "inserir"} => p.tipo = "criar" /\ p.chave \in Chaves
    /\ p.fase \in {"buscar", "salvar", "apagar", "avisar"} => p.nota \in Usadas
    /\ p.fase = "buscar" => p.tipo \in {"marcar", "excluir"}
    /\ p.fase = "salvar" => p.tipo \in {"marcar", "criar"}
    /\ p.fase = "apagar" => p.tipo = "excluir"
    /\ p.fase = "avisar" => p.tipo = "criar"
    /\ p.fase = "atualizar" => p.tipo \in {"todas", "limpar"}
    /\ p.fase \in {"pronta", "morta"} => p.tipo # "criar"

\* Without a stream nothing is on its way through it.
SemCanalNadaVem == ~canal => fila = << >> /\ leituras["inicio"] = Livre

\* Events are about rows there are.
EventosDeNotas ==
    \A i \in DOMAIN fila : fila[i].tipo = "nova" => fila[i].nota \in Usadas

\* The jobs that will have something to push, and what is already on its way.
Criacoes == { r \in Reqs : pedidos[r] # Livre /\ pedidos[r].tipo = "criar" }
NovasDe(s) == { i \in 1 .. Len(s) : s[i].tipo = "nova" }
Novas == NovasDe(fila)

\* The badge is at most what there is, and one more for each job; what a job has still to
\* push, and what is on its way, is not in it yet.
CabeNoTotal(total) ==
    Cardinality(Criacoes) + Cardinality(Novas) + total <= MaxNotas + chegaram
TotaisCabem ==
    /\ IsFiniteSet(Criacoes)
    /\ Cardinality(Criacoes) + Cardinality(Novas) <= chegaram
    /\ CabeNoTotal(tela.total)
    /\ \A r \in Reqs : pedidos[r] # Livre => CabeNoTotal(pedidos[r].antes.total)

\* The tab is to get a whole list through its stream.
ListaACaminho ==
    leituras["inicio"] # Livre \/ \E i \in DOMAIN fila : fila[i].tipo = "init"

\* The tab waits for a call that is to mark n as read or to delete it, or has not been
\* told yet that it came to nothing.
Saindo(n) ==
    \E r \in Reqs :
       /\ pedidos[r] # Livre /\ pedidos[r].espera
       /\ \/ pedidos[r].fase \in {"buscar", "salvar", "apagar", "morta"}
                /\ pedidos[r].tipo \in {"marcar", "excluir"} /\ pedidos[r].nota = n
          \/ pedidos[r].fase \in {"atualizar", "morta"} /\ pedidos[r].tipo = "todas"

\* No unread notification escapes a tab with a stream: it shows it, will hear of it, has
\* lost it to a whole list or a failure, or is itself taking it away.
NadaEscapa ==
    canal /\ ~ListaACaminho =>
        \A n \in NaoLidas : \/ n \in tela.ids \cup perdidas \cup PorVir(fila)
                            \/ Saindo(n)

\* While nobody else has written since it read, a job that is to insert has no row of its
\* matter, and what is to be saved is there.
SoAindaVale ==
    \A r \in Reqs : pedidos[r] # Livre /\ pedidos[r].so =>
       /\ pedidos[r].fase = "inserir" /\ pedidos[r].chave \in Recorrentes
             => Existentes(pedidos[r].chave) = {}
       /\ pedidos[r].fase = "salvar" => Viva(pedidos[r].nota)

NotasInv ==
    /\ TypeOK
    /\ \A r \in Reqs : pedidos[r] # Livre => PedidoPorFase(pedidos[r])
    /\ SemCanalNadaVem /\ EventosDeNotas /\ TotaisCabem /\ NadaEscapa /\ SoAindaVale

-----------------------------------------------------------------------------
(* Counting the events on their way. *)

LEMMA NovasFinitas ==
    ASSUME NEW s \in Seq(Evento)
    PROVE  IsFiniteSet(NovasDe(s)) /\ Cardinality(NovasDe(s)) \in Nat
<1>1. IsFiniteSet(1 .. Len(s))
  BY FS_Interval
<1>2. IsFiniteSet(NovasDe(s))
  BY <1>1, FS_Subset DEF NovasDe
<1>. QED  BY <1>2, FS_CardinalityType

LEMMA NovasVazia == NovasDe(<< >>) = {} /\ Cardinality(NovasDe(<< >>)) = 0
<1>1. NovasDe(<< >>) = {}
  BY DEF NovasDe
<1>. QED  BY <1>1, FS_EmptySet

LEMMA EventoTipo ==
    ASSUME NEW e \in Evento
    PROVE  /\ e.tipo \in {"init", "nova"}
           /\ e.tipo = "init" => e.lista \subseteq Notas
           /\ e.tipo = "nova" => e.nota \in Notas
BY DEF Evento

\* What a queue of events holds after one more, and after the first has been taken.
LEMMA EventosAppend ==
    ASSUME NEW s \in Seq(Evento), NEW e \in Evento
    PROVE  /\ Append(s, e) \in Seq(Evento)
           /\ \A i \in DOMAIN s : i \in DOMAIN Append(s, e) /\ Append(s, e)[i] = s[i]
           /\ \A i \in DOMAIN Append(s, e) :
                 \/ Append(s, e)[i] = e
                 \/ i \in DOMAIN s /\ Append(s, e)[i] = s[i]
           /\ \E i \in DOMAIN Append(s, e) : Append(s, e)[i] = e
<1>. DEFINE t == Append(s, e)
<1>1. /\ Len(s) \in Nat /\ DOMAIN s = 1 .. Len(s)
      /\ t \in Seq(Evento) /\ DOMAIN t = 1 .. Len(s) + 1
      /\ \A i \in 1 .. Len(s) : t[i] = s[i]
      /\ t[Len(s) + 1] = e
  OBVIOUS
<1>. HIDE DEF t
<1>2. \A i \in 1 .. Len(s) + 1 : i \in 1 .. Len(s) \/ i = Len(s) + 1
  BY <1>1
<1>3. Len(s) + 1 \in 1 .. Len(s) + 1 /\ \A i \in 1 .. Len(s) : i \in 1 .. Len(s) + 1
  BY <1>1
<1>4. \E i \in DOMAIN t : t[i] = e
  BY <1>1, <1>3
<1>5. \A i \in DOMAIN s : i \in DOMAIN t /\ t[i] = s[i]
  BY <1>1, <1>3
<1>6. \A i \in DOMAIN t : t[i] = e \/ (i \in DOMAIN s /\ t[i] = s[i])
  BY <1>1, <1>2
<1>. QED  BY <1>1, <1>4, <1>5, <1>6 DEF t

LEMMA EventosTail ==
    ASSUME NEW s \in Seq(Evento), s # << >>
    PROVE  /\ Tail(s) \in Seq(Evento) /\ Head(s) \in Evento
           /\ \A i \in DOMAIN Tail(s) : i + 1 \in DOMAIN s /\ Tail(s)[i] = s[i + 1]
           /\ \A i \in DOMAIN s :
                 \/ s[i] = Head(s)
                 \/ \E j \in DOMAIN Tail(s) : Tail(s)[j] = s[i]
<1>1. /\ Len(s) \in Nat \ {0} /\ DOMAIN s = 1 .. Len(s)
      /\ Tail(s) \in Seq(Evento) /\ DOMAIN Tail(s) = 1 .. Len(s) - 1
      /\ \A i \in 1 .. Len(s) - 1 : Tail(s)[i] = s[i + 1]
      /\ Head(s) = s[1] /\ s[1] \in Evento
  OBVIOUS
<1>2. \A i \in 1 .. Len(s) : i = 1 \/ (i - 1 \in 1 .. Len(s) - 1 /\ (i - 1) + 1 = i)
  BY <1>1
<1>3. \A i \in 1 .. Len(s) - 1 : i + 1 \in 1 .. Len(s)
  BY <1>1
<1>4. ASSUME NEW i \in DOMAIN s, s[i] # Head(s)
      PROVE  \E j \in DOMAIN Tail(s) : Tail(s)[j] = s[i]
  <2>1. i - 1 \in DOMAIN Tail(s) /\ (i - 1) + 1 = i
    BY <1>1, <1>2, <1>4
  <2>. QED  BY <1>1, <2>1
<1>. QED  BY <1>1, <1>3, <1>4

LEMMA NovasAppend ==
    ASSUME NEW s \in Seq(Evento), NEW e \in Evento
    PROVE  Cardinality(NovasDe(Append(s, e))) =
              Cardinality(NovasDe(s)) + IF e.tipo = "nova" THEN 1 ELSE 0
<1>1. Len(s) \in Nat /\ Len(Append(s, e)) = Len(s) + 1
         /\ \A i \in 1 .. Len(s) : Append(s, e)[i] = s[i]
         /\ Append(s, e)[Len(s) + 1] = e
  OBVIOUS
<1>2. NovasDe(Append(s, e)) = NovasDe(s) \cup (IF e.tipo = "nova" THEN {Len(s) + 1} ELSE {})
  BY <1>1 DEF NovasDe
<1>3. Len(s) + 1 \notin NovasDe(s)
  BY <1>1 DEF NovasDe
<1>4. IsFiniteSet(NovasDe(s)) /\ Cardinality(NovasDe(s)) \in Nat
  BY NovasFinitas
<1>5. CASE e.tipo = "nova"
  BY <1>2, <1>3, <1>4, <1>5, FS_AddElement
<1>6. CASE e.tipo # "nova"
  BY <1>2, <1>4, <1>6
<1>. QED  BY <1>5, <1>6

\* Without the first one the others move down by one.
LEMMA NovasTail ==
    ASSUME NEW s \in Seq(Evento), s # << >>
    PROVE  Cardinality(NovasDe(s)) =
              Cardinality(NovasDe(Tail(s))) + IF Head(s).tipo = "nova" THEN 1 ELSE 0
<1>. DEFINE t == Tail(s)
            resto == NovasDe(s) \ {1}
            f == [i \in NovasDe(t) |-> i + 1]
<1>1. /\ Len(s) \in Nat \ {0} /\ t \in Seq(Evento) /\ Len(t) = Len(s) - 1
      /\ \A i \in 1 .. Len(t) : t[i] = s[i + 1]
      /\ Head(s) = s[1]
  OBVIOUS
<1>. HIDE DEF t
<1>2. NovasDe(t) \subseteq Nat /\ \A i \in NovasDe(t) : i + 1 \in resto
  BY <1>1 DEF NovasDe
<1>3. \A j \in resto : j - 1 \in NovasDe(t) /\ j \in Nat
  BY <1>1 DEF NovasDe
<1>4. f \in Bijection(NovasDe(t), resto)
  <2>1. f \in Injection(NovasDe(t), resto)
    BY <1>2 DEF Injection, IsInjective
  <2>2. f \in Surjection(NovasDe(t), resto)
    BY <1>2, <1>3 DEF Surjection
  <2>. QED  BY <2>1, <2>2 DEF Bijection
<1>5. Cardinality(resto) = Cardinality(NovasDe(t))
  BY <1>1, <1>4, NovasFinitas, FS_Bijection DEF ExistsBijection
<1>6. IsFiniteSet(NovasDe(s)) /\ Cardinality(NovasDe(s)) \in Nat
  BY NovasFinitas
<1>7. Cardinality(resto) = IF 1 \in NovasDe(s) THEN Cardinality(NovasDe(s)) - 1
                           ELSE Cardinality(NovasDe(s))
  BY <1>6, FS_RemoveElement
<1>8. 1 \in NovasDe(s) <=> Head(s).tipo = "nova"
  BY <1>1 DEF NovasDe
<1>9. Cardinality(NovasDe(t)) \in Nat
  BY <1>1, NovasFinitas
<1>. QED  BY <1>5, <1>6, <1>7, <1>8, <1>9 DEF t

\* A list counts what it lists.
LEMMA MostraTipo ==
    ASSUME NEW s \in SUBSET Notas
    PROVE  /\ IsFiniteSet(s) /\ Cardinality(s) \in 0 .. MaxNotas
           /\ Mostra(s) \in Tela /\ Mostra(s).ids = s /\ Mostra(s).total = Cardinality(s)
<1>1. IsFiniteSet(Notas) /\ Cardinality(Notas) = MaxNotas
  BY LimitesAssumption, FS_Interval DEF Notas
<1>2. IsFiniteSet(s) /\ Cardinality(s) \in 0 .. MaxNotas
  BY <1>1, FS_Subset, FS_CardinalityType, LimitesAssumption
<1>. QED  BY <1>2, LimitesAssumption DEF Mostra, Tela

-----------------------------------------------------------------------------
(* Notifications: what each step does to the requests and the rows. *)

LEMMA PedidoEmCurso ==
    ASSUME TypeOK, NEW r \in Reqs
    PROVE  /\ pedidos[r] = Livre <=> pedidos[r].fase = "livre"
           /\ pedidos[r] # Livre => pedidos[r] \in Pedido
BY DEF TypeOK, Livre, Pedido

LEMMA LeituraEmCurso ==
    ASSUME TypeOK, NEW l \in {"inicio", "sonda"}
    PROVE  /\ leituras[l] = Livre <=> leituras[l].fase = "livre"
           /\ leituras[l] # Livre =>
                 /\ leituras[l].fase \in {"pedida", "lida"}
                 /\ leituras[l].lista \subseteq Notas
BY DEF TypeOK, Livre, Leitura

LEMMA LinhaTipo ==
    ASSUME TypeOK, NEW n \in Usadas
    PROVE  notas[n] \in Linha /\ n \in Notas
<1>1. notas \in Seq(Linha) /\ Len(notas) <= MaxNotas /\ Len(notas) \in Nat
  BY DEF TypeOK, Linha
<1>2. n \in 1 .. Len(notas)
  BY DEF Usadas
<1>3. n \in 1 .. MaxNotas
  BY <1>1, <1>2, LimitesAssumption
<1>. QED  BY <1>1, <1>2, <1>3 DEF Notas

LEMMA NotasInvInit == Init => NotasInv
<1>. SUFFICES ASSUME Init PROVE NotasInv
  OBVIOUS
<1>1. \A r \in Reqs : pedidos[r] = Livre
  BY DEF Init
<1>2. fila = << >> /\ canal = FALSE /\ tela = Mostra({}) /\ perdidas = {} /\ chegaram = 0
  BY DEF Init
<1>3. Mostra({}) \in Tela /\ Mostra({}).total = 0
  BY MostraTipo, FS_EmptySet
<1>4. TypeOK
  <2>1. notas \in Seq(Linha) /\ Len(notas) <= MaxNotas
    <3>1. CASE notas = << >>
      BY <3>1, LimitesAssumption
    <3>2. ASSUME NEW k \in Chaves, NEW lida \in BOOLEAN,
                 notas = << [chave |-> k, lida |-> lida, apagada |-> FALSE] >>
          PROVE  notas \in Seq(Linha) /\ Len(notas) <= MaxNotas
      <4>1. [chave |-> k, lida |-> lida, apagada |-> FALSE] \in Linha
        BY DEF Linha
      <4>2. Len(notas) = 1 /\ notas \in Seq(Linha)
        BY <3>2, <4>1
      <4>. QED  BY <4>2, LimitesAssumption
    <3>. QED  BY <3>1, <3>2 DEF Init
  <2>2. leituras \in [{"inicio", "sonda"} -> Leitura \cup {Livre}]
    BY DEF Init, Pedida, Leitura, Livre
  <2>3. notas \in Seq([chave: Chaves, lida: BOOLEAN, apagada: BOOLEAN])
    BY <2>1 DEF Linha
  <2>4. pedidos \in [Reqs -> Pedido \cup {Livre}]
    BY DEF Init
  <2>5. fila \in Seq(Evento) /\ (~canal => fila = << >>)
    BY <1>2
  <2>6. canal \in BOOLEAN /\ tela \in Tela /\ perdidas \subseteq Notas
    BY <1>2, <1>3
  <2>7. chegaram \in 0 .. MaxPedidos /\ reinicios \in 0 .. MaxReinicios
    BY <1>2, LimitesAssumption DEF Init
  <2>. QED  BY <2>1, <2>2, <2>3, <2>4, <2>5, <2>6, <2>7 DEF TypeOK
<1>5. SemCanalNadaVem /\ EventosDeNotas
  BY DEF Init, SemCanalNadaVem, EventosDeNotas
<1>6. TotaisCabem
  <2>1. Criacoes = {} /\ IsFiniteSet({}) /\ Cardinality({}) = 0
    BY <1>1, FS_EmptySet DEF Criacoes
  <2>2. Cardinality(Novas) = 0
    BY <1>2, NovasVazia DEF Novas
  <2>. QED
    BY <1>1, <1>2, <1>3, <2>1, <2>2, LimitesAssumption DEF TotaisCabem, CabeNoTotal
<1>7. NadaEscapa /\ SoAindaVale
  BY <1>1, <1>2 DEF NadaEscapa, SoAindaVale
<1>. QED  BY <1>1, <1>4, <1>5, <1>6, <1>7 DEF NotasInv

\* What a step of r leaves of the other jobs and calls: all, or all but that a row has been
\* written across them.
OutrosIguais(r) == \A q \in Reqs \ {r} : pedidos'[q] = pedidos[q]
OutrosCruzados(r) ==
    \A q \in Reqs \ {r} :
       /\ pedidos'[q] = Livre <=> pedidos[q] = Livre
       /\ pedidos[q] # Livre =>
             /\ pedidos'[q] \in Pedido /\ ~pedidos'[q].so
             /\ pedidos'[q].fase = pedidos[q].fase /\ pedidos'[q].tipo = pedidos[q].tipo
             /\ pedidos'[q].chave = pedidos[q].chave /\ pedidos'[q].nota = pedidos[q].nota
             /\ pedidos'[q].espera = pedidos[q].espera
             /\ pedidos'[q].antes = pedidos[q].antes

\* What a step of r leaves of r's own: the tab's side of it, and its kind.
MesmoPedido(r) ==
    /\ pedidos[r] \in Pedido /\ pedidos[r] # Livre
    /\ \/ pedidos'[r] = Livre
       \/ /\ pedidos'[r] \in Pedido /\ pedidos'[r] # Livre
          /\ pedidos'[r].tipo = pedidos[r].tipo /\ pedidos'[r].antes = pedidos[r].antes

LEMMA CruzadosTipo ==
    ASSUME TypeOK, NEW r \in Reqs, NEW q \in Reqs \ {r},
           \/ pedidos[q] = Livre /\ pedidos'[q] = Livre
           \/ pedidos[q] # Livre /\ pedidos'[q] = [pedidos[q] EXCEPT !.so = FALSE]
    PROVE  /\ pedidos'[q] = Livre <=> pedidos[q] = Livre
           /\ pedidos[q] # Livre =>
                 /\ pedidos'[q] \in Pedido /\ ~pedidos'[q].so
                 /\ pedidos'[q].fase = pedidos[q].fase /\ pedidos'[q].tipo = pedidos[q].tipo
                 /\ pedidos'[q].chave = pedidos[q].chave
                 /\ pedidos'[q].nota = pedidos[q].nota
                 /\ pedidos'[q].espera = pedidos[q].espera
                 /\ pedidos'[q].antes = pedidos[q].antes
<1>1. CASE pedidos[q] # Livre
  <2>1. pedidos[q] \in Pedido
    BY <1>1, PedidoEmCurso
  <2>2. pedidos'[q] = [pedidos[q] EXCEPT !.so = FALSE]
    BY <1>1
  <2>3. pedidos'[q] \in Pedido /\ pedidos'[q].fase = pedidos[q].fase /\ ~pedidos'[q].so
    BY <2>1, <2>2 DEF Pedido
  <2>4. pedidos'[q] # Livre
    BY <2>3 DEF Pedido, Livre
  <2>. QED  BY <1>1, <2>1, <2>2, <2>3, <2>4 DEF Pedido
<1>. QED  BY <1>1

\* The steps of r that write a row.
LEMMA EfeitoDeEscrever ==
    ASSUME TypeOK, NEW r \in Reqs, pedidos[r] # Livre,
           NEW fase \in {"fim", "avisar"}, Escreve(r, fase)
    PROVE  /\ OutrosCruzados(r) /\ MesmoPedido(r)
           /\ fase = "fim" =>
                 /\ ~pedidos[r].espera => pedidos'[r] = Livre
                 /\ pedidos[r].espera =>
                       /\ pedidos'[r] # Livre /\ pedidos'[r].fase = "pronta"
                       /\ pedidos'[r].espera
           /\ fase = "avisar" =>
                 /\ pedidos'[r] # Livre /\ pedidos'[r].fase = "avisar"
                 /\ pedidos'[r].nota = pedidos[r].nota
                 /\ pedidos'[r].espera = pedidos[r].espera
<1>1. OutrosCruzados(r)
  <2>1. ASSUME NEW q \in Reqs \ {r}
        PROVE  \/ pedidos[q] = Livre /\ pedidos'[q] = Livre
               \/ pedidos[q] # Livre /\ pedidos'[q] = [pedidos[q] EXCEPT !.so = FALSE]
    BY DEF Escreve
  <2>. QED  BY <2>1, CruzadosTipo DEF OutrosCruzados
<1>2. pedidos[r] \in Pedido
  BY PedidoEmCurso
<1>3. pedidos'[r] =
         IF fase = "fim"
         THEN IF pedidos[r].espera THEN [pedidos[r] EXCEPT !.fase = "pronta"] ELSE Livre
         ELSE [pedidos[r] EXCEPT !.fase = fase, !.chave = Ausente]
  BY DEF Escreve
<1>4. CASE fase = "fim" /\ ~pedidos[r].espera
  BY <1>1, <1>2, <1>3, <1>4 DEF MesmoPedido
<1>5. CASE fase = "fim" /\ pedidos[r].espera
  <2>1. pedidos'[r] \in Pedido /\ pedidos'[r].fase = "pronta" /\ pedidos'[r].espera
    BY <1>2, <1>3, <1>5 DEF Pedido
  <2>2. pedidos'[r] # Livre
    BY <2>1 DEF Livre, Pedido
  <2>. QED  BY <1>1, <1>2, <1>3, <1>5, <2>1, <2>2 DEF MesmoPedido, Pedido
<1>6. CASE fase = "avisar"
  <2>1. pedidos'[r] \in Pedido /\ pedidos'[r].fase = "avisar"
    BY <1>2, <1>3, <1>6 DEF Pedido
  <2>2. pedidos'[r] # Livre
    BY <2>1 DEF Livre, Pedido
  <2>. QED  BY <1>1, <1>2, <1>3, <1>6, <2>1, <2>2 DEF MesmoPedido, Pedido
<1>. QED  BY <1>4, <1>5, <1>6

LEMMA EfeitoDeIniciar ==
    ASSUME TypeOK, NEW r \in Reqs,
           NEW tipo \in {"criar", "limpar", "marcar", "todas", "excluir"},
           NEW fase \in {"procurar", "buscar", "atualizar"},
           NEW chave \in Chaves \cup {Ausente}, NEW n \in Notas \cup {Ausente},
           NEW espera \in BOOLEAN, Iniciar(r, tipo, fase, chave, n, espera)
    PROVE  /\ OutrosIguais(r) /\ pedidos[r] = Livre
           /\ pedidos' \in [Reqs -> Pedido \cup {Livre}]
           /\ pedidos'[r] \in Pedido /\ pedidos'[r] # Livre
           /\ pedidos'[r].fase = fase /\ pedidos'[r].tipo = tipo
           /\ pedidos'[r].chave = chave /\ pedidos'[r].nota = n
           /\ pedidos'[r].espera = espera /\ pedidos'[r].so
           /\ pedidos'[r].antes = tela \/ pedidos'[r].antes = Mostra({})
<1>. DEFINE antes == IF tipo \in {"todas", "excluir"} THEN tela ELSE Mostra({})
            p == [ fase |-> fase, tipo |-> tipo, chave |-> chave, nota |-> n,
                   espera |-> espera, so |-> TRUE, antes |-> antes ]
<1>1. antes \in Tela /\ (antes = tela \/ antes = Mostra({}))
  BY MostraTipo DEF TypeOK
<1>2. pedidos[r] = Livre /\ pedidos' = [pedidos EXCEPT ![r] = p]
  BY DEF Iniciar
<1>. HIDE DEF antes
<1>3. p \in Pedido
  BY <1>1 DEF Pedido
<1>4. /\ p.fase = fase /\ p.tipo = tipo /\ p.chave = chave /\ p.nota = n
      /\ p.espera = espera /\ p.so = TRUE /\ p.antes = antes
  OBVIOUS
<1>. HIDE DEF p
<1>5. p # Livre
  BY <1>4 DEF Livre
<1>6. pedidos' \in [Reqs -> Pedido \cup {Livre}] /\ pedidos'[r] = p /\ OutrosIguais(r)
  BY <1>2, <1>3 DEF TypeOK, OutrosIguais
<1>. QED  BY <1>1, <1>2, <1>3, <1>4, <1>5, <1>6

LEMMA EfeitoDeProcurar ==
    ASSUME TypeOK, NEW r \in Reqs, Procurar(r), PedidoPorFase(pedidos[r])
    PROVE  /\ OutrosIguais(r) /\ MesmoPedido(r)
           /\ pedidos[r].tipo = "criar" /\ pedidos[r].fase = "procurar"
           /\ pedidos'[r] # Livre =>
                 /\ pedidos'[r].chave = pedidos[r].chave
                 /\ pedidos'[r].espera = pedidos[r].espera
                 /\ \/ /\ pedidos'[r].fase = "salvar"
                       /\ pedidos'[r].nota \in Existentes(pedidos[r].chave)
                    \/ /\ pedidos'[r].fase = "inserir"
                       /\ pedidos[r].chave \in Recorrentes
                             => Existentes(pedidos[r].chave) = {}
<1>. DEFINE p == pedidos[r]
<1>1. p # Livre /\ p \in Pedido /\ p.fase = "procurar"
  BY PedidoEmCurso DEF Procurar, Livre
<1>2. p.tipo = "criar"
  BY <1>1 DEF PedidoPorFase
<1>3. CASE pedidos' = [pedidos EXCEPT ![r] = Livre]
  <2>1. pedidos'[r] = Livre /\ OutrosIguais(r)
    BY <1>3 DEF TypeOK, OutrosIguais
  <2>. QED  BY <1>1, <1>2, <2>1 DEF MesmoPedido
<1>4. ASSUME NEW n \in Existentes(p.chave),
             pedidos' = [pedidos EXCEPT ![r] =
                            [p EXCEPT !.fase = "salvar", !.nota = n, !.so = TRUE]]
      PROVE  /\ OutrosIguais(r) /\ pedidos'[r] \in Pedido
             /\ pedidos'[r].fase = "salvar" /\ pedidos'[r].nota = n
             /\ pedidos'[r].chave = p.chave /\ pedidos'[r].espera = p.espera
             /\ pedidos'[r].tipo = p.tipo /\ pedidos'[r].antes = p.antes
  <2>1. n \in Notas
    BY LinhaTipo DEF Existentes
  <2>2. /\ pedidos'[r] = [p EXCEPT !.fase = "salvar", !.nota = n, !.so = TRUE]
        /\ OutrosIguais(r)
    BY <1>4 DEF TypeOK, OutrosIguais
  <2>. QED  BY <1>1, <2>1, <2>2 DEF Pedido
<1>5. ASSUME pedidos' = [pedidos EXCEPT ![r] = [p EXCEPT !.fase = "inserir", !.so = TRUE]]
      PROVE  /\ OutrosIguais(r) /\ pedidos'[r] \in Pedido
             /\ pedidos'[r].fase = "inserir"
             /\ pedidos'[r].chave = p.chave /\ pedidos'[r].espera = p.espera
             /\ pedidos'[r].tipo = p.tipo /\ pedidos'[r].antes = p.antes
  <2>1. pedidos'[r] = [p EXCEPT !.fase = "inserir", !.so = TRUE] /\ OutrosIguais(r)
    BY <1>5 DEF TypeOK, OutrosIguais
  <2>. QED  BY <1>1, <2>1 DEF Pedido
<1>6. pedidos'[r] \in Pedido => pedidos'[r].fase # "livre"
  BY DEF Pedido
<1>7. \/ \E n \in Existentes(p.chave) :
            pedidos' = [pedidos EXCEPT ![r] =
                           [p EXCEPT !.fase = "salvar", !.nota = n, !.so = TRUE]]
      \/ pedidos' = [pedidos EXCEPT ![r] = Livre]
      \/ /\ p.chave \in Recorrentes => Existentes(p.chave) = {}
         /\ pedidos' = [pedidos EXCEPT ![r] = [p EXCEPT !.fase = "inserir", !.so = TRUE]]
  BY DEF Procurar, Achadas, Some
<1>. QED  BY <1>1, <1>2, <1>3, <1>4, <1>5, <1>6, <1>7 DEF MesmoPedido, Livre

LEMMA EfeitoDeInserir ==
    ASSUME TypeOK, NEW r \in Reqs, Inserir(r)
    PROVE  /\ OutrosCruzados(r) /\ MesmoPedido(r)
           /\ pedidos[r].fase = "inserir"
           /\ pedidos'[r] # Livre /\ pedidos'[r].fase = "avisar"
           /\ pedidos'[r].nota = Len(notas) + 1
           /\ pedidos'[r].espera = pedidos[r].espera
<1>1. pedidos[r] # Livre /\ pedidos[r] \in Pedido /\ pedidos[r].fase = "inserir"
  BY PedidoEmCurso DEF Inserir, Livre
<1>2. OutrosCruzados(r)
  <2>1. ASSUME NEW q \in Reqs \ {r}
        PROVE  \/ pedidos[q] = Livre /\ pedidos'[q] = Livre
               \/ pedidos[q] # Livre /\ pedidos'[q] = [pedidos[q] EXCEPT !.so = FALSE]
    BY DEF Inserir
  <2>. QED  BY <2>1, CruzadosTipo DEF OutrosCruzados
<1>3. pedidos'[r] = [pedidos[r] EXCEPT !.fase = "avisar", !.chave = Ausente,
                                       !.nota = Len(notas) + 1]
  BY DEF Inserir
<1>4. Len(notas) + 1 \in Notas
  BY LimitesAssumption DEF TypeOK, Inserir, Notas
<1>5. pedidos'[r] \in Pedido /\ pedidos'[r].fase = "avisar"
  BY <1>1, <1>3, <1>4 DEF Pedido
<1>6. pedidos'[r] # Livre
  BY <1>5 DEF Livre, Pedido
<1>. QED  BY <1>1, <1>2, <1>3, <1>5, <1>6 DEF MesmoPedido, Pedido

LEMMA EfeitoDeBuscar ==
    ASSUME TypeOK, NEW r \in Reqs, Buscar(r)
    PROVE  /\ OutrosIguais(r) /\ MesmoPedido(r)
           /\ pedidos[r].fase = "buscar" /\ pedidos'[r] # Livre
           /\ pedidos'[r].fase = IF ~Viva(pedidos[r].nota) THEN "morta"
                                 ELSE IF pedidos[r].tipo = "marcar" THEN "salvar"
                                 ELSE "apagar"
           /\ pedidos'[r].nota = pedidos[r].nota
           /\ pedidos'[r].espera = pedidos[r].espera
<1>1. pedidos[r] # Livre /\ pedidos[r] \in Pedido /\ pedidos[r].fase = "buscar"
  BY PedidoEmCurso DEF Buscar, Livre
<1>. DEFINE fase == IF ~Viva(pedidos[r].nota) THEN "morta"
                    ELSE IF pedidos[r].tipo = "marcar" THEN "salvar" ELSE "apagar"
<1>2. pedidos'[r] = [pedidos[r] EXCEPT !.so = TRUE, !.fase = fase] /\ OutrosIguais(r)
  BY DEF Buscar, TypeOK, OutrosIguais
<1>3. fase \in {"morta", "salvar", "apagar"}
  OBVIOUS
<1>. HIDE DEF fase
<1>4. pedidos'[r] \in Pedido /\ pedidos'[r].fase = fase
  BY <1>1, <1>2, <1>3 DEF Pedido
<1>5. pedidos'[r] # Livre
  BY <1>4 DEF Livre, Pedido
<1>6. /\ pedidos'[r].nota = pedidos[r].nota /\ pedidos'[r].espera = pedidos[r].espera
      /\ MesmoPedido(r)
  BY <1>1, <1>2, <1>4, <1>5 DEF MesmoPedido, Pedido
<1>. QED  BY <1>1, <1>2, <1>4, <1>5, <1>6 DEF fase

LEMMA EfeitoDeSumir ==
    ASSUME TypeOK, NEW r \in Reqs, Some(r), pedidos[r] # Livre
    PROVE  OutrosIguais(r) /\ MesmoPedido(r) /\ pedidos'[r] = Livre
<1>1. pedidos'[r] = Livre /\ OutrosIguais(r)
  BY DEF Some, TypeOK, OutrosIguais
<1>. QED  BY <1>1, PedidoEmCurso DEF MesmoPedido

LEMMA EfeitoDeDesistir ==
    ASSUME TypeOK, NEW r \in Reqs, Desistir(r)
    PROVE  /\ OutrosIguais(r) /\ MesmoPedido(r) /\ pedidos[r].espera
           /\ \/ pedidos'[r] = Livre /\ pedidos[r].fase \in {"pronta", "morta"}
              \/ /\ pedidos'[r] # Livre /\ ~pedidos'[r].espera
                 /\ pedidos[r].fase \notin {"pronta", "morta"}
                 /\ pedidos'[r].fase = pedidos[r].fase
                 /\ pedidos'[r].nota = pedidos[r].nota
                 /\ pedidos'[r].chave = pedidos[r].chave
                 /\ pedidos'[r].so = pedidos[r].so
<1>1. pedidos[r] # Livre /\ pedidos[r] \in Pedido /\ pedidos[r].espera
  BY PedidoEmCurso DEF Desistir
<1>2. pedidos'[r] = (IF pedidos[r].fase \in {"pronta", "morta"} THEN Livre
                     ELSE [pedidos[r] EXCEPT !.espera = FALSE])
         /\ OutrosIguais(r)
  BY DEF Desistir, TypeOK, OutrosIguais
<1>3. CASE pedidos[r].fase \in {"pronta", "morta"}
  BY <1>1, <1>2, <1>3 DEF MesmoPedido
<1>4. CASE pedidos[r].fase \notin {"pronta", "morta"}
  <2>1. pedidos'[r] \in Pedido /\ pedidos'[r].fase = pedidos[r].fase
    BY <1>1, <1>2, <1>4 DEF Pedido
  <2>2. pedidos'[r] # Livre
    BY <2>1 DEF Livre, Pedido
  <2>. QED  BY <1>1, <1>2, <1>4, <2>1, <2>2 DEF MesmoPedido, Pedido
<1>. QED  BY <1>3, <1>4

LEMMA EfeitoDeFalhar ==
    ASSUME TypeOK, NEW r \in Reqs, Falhar(r)
    PROVE  /\ OutrosIguais(r) /\ MesmoPedido(r)
           /\ UNCHANGED << notas, leituras, fila, canal, tela, contas >>
           /\ \/ pedidos'[r] = Livre /\ ~pedidos[r].espera
              \/ /\ pedidos'[r] # Livre /\ pedidos'[r].fase = "morta"
                 /\ pedidos'[r].nota = pedidos[r].nota
                 /\ pedidos[r].espera /\ pedidos'[r].espera
<1>1. /\ pedidos[r] # Livre /\ pedidos[r] \in Pedido
      /\ UNCHANGED << notas, leituras, fila, canal, tela, contas >>
  BY PedidoEmCurso DEF Falhar, Livre
<1>2. /\ pedidos'[r] = IF pedidos[r].espera THEN [pedidos[r] EXCEPT !.fase = "morta"]
                       ELSE Livre
      /\ OutrosIguais(r)
  BY DEF Falhar, TypeOK, OutrosIguais
<1>3. CASE ~pedidos[r].espera
  BY <1>1, <1>2, <1>3 DEF MesmoPedido
<1>4. CASE pedidos[r].espera
  <2>1. pedidos'[r] \in Pedido /\ pedidos'[r].fase = "morta" /\ pedidos'[r].espera
    BY <1>1, <1>2, <1>4 DEF Pedido
  <2>2. pedidos'[r] # Livre
    BY <2>1 DEF Livre, Pedido
  <2>. QED  BY <1>1, <1>2, <1>4, <2>1, <2>2 DEF MesmoPedido, Pedido
<1>. QED  BY <1>3, <1>4

LEMMA EfeitoDeReiniciar ==
    ASSUME TypeOK, Reiniciar, NEW r \in Reqs
    PROVE  \/ pedidos'[r] = Livre
           \/ /\ pedidos[r] # Livre /\ pedidos[r].espera
              /\ MesmoPedido(r) /\ pedidos'[r] # Livre
              /\ pedidos'[r].fase = "morta" /\ pedidos'[r].espera
<1>1. CASE pedidos[r] # Livre /\ pedidos[r].espera
  <2>1. pedidos[r] \in Pedido
    BY <1>1, PedidoEmCurso
  <2>2. pedidos'[r] = [pedidos[r] EXCEPT !.fase = "morta"]
    BY <1>1 DEF Reiniciar
  <2>3. pedidos'[r] \in Pedido /\ pedidos'[r].fase = "morta"
    BY <2>1, <2>2 DEF Pedido
  <2>4. pedidos'[r] # Livre
    BY <2>3 DEF Livre, Pedido
  <2>. QED  BY <1>1, <2>1, <2>2, <2>3, <2>4 DEF MesmoPedido, Pedido
<1>. QED  BY <1>1 DEF Reiniciar

\* The steps that leave the rows, and what is in progress, as they are.
SoTela ==
    \/ \E l \in {"inicio", "sonda"} : Consultar(l)
    \/ Enviar \/ Assinar \/ Cair \/ Receber \/ Sondar \/ ReceberLista \/ FalharLista
    \/ UNCHANGED vars

LEMMA SoTelaFica == SoTela => UNCHANGED << notas, pedidos, contas >>
BY DEF SoTela, Consultar, Enviar, Assinar, Cair, Receber, Sondar, ReceberLista, FalharLista,
       vars

LEMMA Passos ==
    ASSUME [Next]_vars
    PROVE  \/ \E r \in Reqs : Chegar(r) \/ Continuar(r) \/ Responder(r) \/ Desistir(r)
           \/ SoTela
           \/ Reiniciar
BY DEF Next, SoTela

\* Rows are never lost, and keep what they are about.
LEMMA NotasStep ==
    ASSUME NotasInv, [Next]_vars
    PROVE  /\ notas' \in Seq(Linha) /\ Len(notas') \in Len(notas) .. MaxNotas
           /\ Usadas \subseteq Usadas' /\ Usadas' \subseteq Notas
           /\ \A n \in Usadas : notas'[n].chave = notas[n].chave
<1>. USE DEF NotasInv
<1>1. notas \in Seq(Linha) /\ Len(notas) <= MaxNotas /\ Len(notas) \in Nat
  BY DEF TypeOK, Linha
<1>2. \A n \in Usadas : notas[n] \in Linha
  BY LinhaTipo
<1>3. ASSUME notas' \in Seq(Linha), Len(notas') = Len(notas) \/ Len(notas') = Len(notas) + 1,
             Len(notas') <= MaxNotas,
             \A n \in Usadas : notas'[n].chave = notas[n].chave
      PROVE  /\ notas' \in Seq(Linha) /\ Len(notas') \in Len(notas) .. MaxNotas
             /\ Usadas \subseteq Usadas' /\ Usadas' \subseteq Notas
             /\ \A n \in Usadas : notas'[n].chave = notas[n].chave
  BY <1>1, <1>3, LimitesAssumption DEF Usadas, Notas
<1>4. ASSUME NEW r \in Reqs, Inserir(r)
      PROVE  /\ notas' \in Seq(Linha) /\ Len(notas') = Len(notas) + 1
             /\ Len(notas') <= MaxNotas
             /\ \A n \in Usadas : notas'[n].chave = notas[n].chave
  <2>1. pedidos[r] # Livre /\ pedidos[r].fase = "inserir"
    BY <1>4 DEF Inserir, Livre
  <2>2. pedidos[r].chave \in Chaves
    BY <2>1 DEF PedidoPorFase
  <2>. DEFINE x == [chave |-> pedidos[r].chave, lida |-> FALSE, apagada |-> FALSE]
  <2>3. x \in Linha
    BY <2>2 DEF Linha
  <2>4. notas' = Append(notas, x) /\ Len(notas) < MaxNotas
    BY <1>4 DEF Inserir
  <2>. HIDE DEF x
  <2>5. notas' \in Seq(Linha) /\ Len(notas') = Len(notas) + 1
           /\ \A n \in 1 .. Len(notas) : notas'[n] = notas[n]
    BY <1>1, <2>3, <2>4
  <2>. QED  BY <1>1, <2>4, <2>5, LimitesAssumption DEF Usadas
<1>5. ASSUME NEW n \in Usadas, NEW x \in Linha, x.chave = notas[n].chave,
             notas' = [notas EXCEPT ![n] = x]
      PROVE  /\ notas' \in Seq(Linha) /\ Len(notas') = Len(notas)
             /\ \A m \in Usadas : notas'[m].chave = notas[m].chave
  <2>1. notas' \in Seq(Linha) /\ Len(notas') = Len(notas)
    BY <1>1, <1>5 DEF Usadas
  <2>2. \A m \in 1 .. Len(notas) : notas'[m] = IF m = n THEN x ELSE notas[m]
    BY <1>1, <1>5
  <2>. QED  BY <1>5, <2>1, <2>2 DEF Usadas
<1>6. ASSUME NEW r \in Reqs, Salvar(r) \/ Apagar(r)
      PROVE  \E n \in Usadas, x \in Linha :
                x.chave = notas[n].chave /\ notas' = [notas EXCEPT ![n] = x]
  <2>1. pedidos[r] # Livre /\ pedidos[r].fase \in {"salvar", "apagar"}
    BY <1>6 DEF Salvar, Apagar, Livre
  <2>2. pedidos[r].nota \in Usadas
    BY <2>1 DEF PedidoPorFase
  <2>. DEFINE n == pedidos[r].nota
              lida == pedidos[r].tipo = "marcar"
              salva == [notas[n] EXCEPT !.lida = lida, !.apagada = FALSE]
              apagada == [notas[n] EXCEPT !.apagada = TRUE]
  <2>3. \/ notas' = [notas EXCEPT ![n] = salva] \/ notas' = [notas EXCEPT ![n] = apagada]
    BY <1>6 DEF Salvar, Apagar
  <2>4. lida \in BOOLEAN /\ notas[n] \in Linha
    BY <1>2, <2>2
  <2>5. salva \in Linha /\ salva.chave = notas[n].chave
    <3>. HIDE DEF lida
    <3>. QED  BY <2>4 DEF Linha
  <2>6. apagada \in Linha /\ apagada.chave = notas[n].chave
    BY <2>4 DEF Linha
  <2>. HIDE DEF salva, apagada, n
  <2>. QED  BY <2>2, <2>3, <2>5, <2>6 DEF n
<1>7. ASSUME NEW r \in Reqs, Atualizar(r)
      PROVE  /\ notas' \in Seq(Linha) /\ Len(notas') = Len(notas)
             /\ \A m \in Usadas : notas'[m].chave = notas[m].chave
  <2>1. CASE notas' = [n \in Usadas |-> [notas[n] EXCEPT !.lida = TRUE]]
    <3>1. \A n \in Usadas : /\ notas'[n] \in Linha /\ notas'[n].chave = notas[n].chave
      BY <1>2, <2>1 DEF Linha
    <3>. QED  BY <1>1, <2>1, <3>1 DEF Usadas
  <2>2. ASSUME NEW s \in SUBSET Usadas,
               notas' = [n \in Usadas |-> [notas[n] EXCEPT !.apagada = @ \/ n \in s]]
        PROVE  /\ notas' \in Seq(Linha) /\ Len(notas') = Len(notas)
               /\ \A m \in Usadas : notas'[m].chave = notas[m].chave
    <3>1. \A n \in Usadas : /\ notas'[n] \in Linha /\ notas'[n].chave = notas[n].chave
      <4>. TAKE n \in Usadas
      <4>. DEFINE b == notas[n].apagada \/ n \in s
      <4>1. b \in BOOLEAN /\ notas'[n] = [notas[n] EXCEPT !.apagada = b]
        BY <2>2
      <4>. HIDE DEF b
      <4>. QED  BY <1>2, <4>1 DEF Linha
    <3>. QED  BY <1>1, <2>2, <3>1 DEF Usadas
  <2>. QED  BY <1>7, <2>1, <2>2 DEF Atualizar
<1>8. ASSUME UNCHANGED notas
      PROVE  /\ notas' \in Seq(Linha) /\ Len(notas') = Len(notas)
             /\ \A m \in Usadas : notas'[m].chave = notas[m].chave
  BY <1>1, <1>8
<1>9. ASSUME NEW r \in Reqs, \/ Chegar(r) \/ Responder(r) \/ Desistir(r) \/ Procurar(r)
                             \/ Buscar(r) \/ Avisar(r) \/ Falhar(r) \/ Sumir(r)
      PROVE  UNCHANGED notas
  BY <1>9 DEF Chegar, PedirCriacao, PedirLimpeza, PedirMarcar, PedirExcluir, PedirTodas,
              Iniciar, Responder, Desistir, Procurar, Buscar, Avisar, Falhar, Sumir
<1>10. SoTela \/ Reiniciar => UNCHANGED notas
  BY SoTelaFica DEF Reiniciar
<1>11. \/ UNCHANGED notas
       \/ \E r \in Reqs : Inserir(r) \/ Salvar(r) \/ Apagar(r) \/ Atualizar(r)
  BY <1>9, <1>10, Passos DEF Continuar
<1>12. /\ notas' \in Seq(Linha)
       /\ Len(notas') = Len(notas) \/ Len(notas') = Len(notas) + 1
       /\ Len(notas') <= MaxNotas
       /\ \A m \in Usadas : notas'[m].chave = notas[m].chave
  BY <1>1, <1>4, <1>5, <1>6, <1>7, <1>8, <1>11
<1>. QED  BY <1>3, <1>12

\* A step of r's own job or call keeps to it, and to what it may do to the others.
LEMMA EfeitoDoPasso ==
    ASSUME NotasInv, NEW r \in Reqs, Continuar(r) \/ Responder(r) \/ Desistir(r)
    PROVE  /\ OutrosIguais(r) \/ OutrosCruzados(r)
           /\ MesmoPedido(r)
           /\ pedidos' = [q \in Reqs |-> pedidos'[q]]
<1>. USE DEF NotasInv
<1>1. pedidos = [q \in Reqs |-> pedidos[q]]
  BY DEF TypeOK
<1>2. ASSUME NEW p, pedidos' = [pedidos EXCEPT ![r] = p]
      PROVE  pedidos' = [q \in Reqs |-> pedidos'[q]]
  BY <1>1, <1>2
<1>3. ASSUME Procurar(r)
      PROVE  OutrosIguais(r) /\ MesmoPedido(r) /\ pedidos' = [q \in Reqs |-> pedidos'[q]]
  <2>1. pedidos[r].fase = "procurar"
    BY <1>3 DEF Procurar
  <2>2. \E p : pedidos' = [pedidos EXCEPT ![r] = p]
    BY <1>3 DEF Procurar, Some
  <2>3. PedidoPorFase(pedidos[r])
    BY <2>1, PedidoEmCurso
  <2>. QED  BY <1>2, <1>3, <2>2, <2>3, EfeitoDeProcurar
<1>4. ASSUME Inserir(r)
      PROVE  OutrosCruzados(r) /\ MesmoPedido(r) /\ pedidos' = [q \in Reqs |-> pedidos'[q]]
  BY <1>4, EfeitoDeInserir DEF Inserir
<1>5. ASSUME Buscar(r)
      PROVE  OutrosIguais(r) /\ MesmoPedido(r) /\ pedidos' = [q \in Reqs |-> pedidos'[q]]
  <2>1. \E p : pedidos' = [pedidos EXCEPT ![r] = p]
    BY <1>5 DEF Buscar
  <2>. QED  BY <1>2, <1>5, <2>1, EfeitoDeBuscar
<1>6. ASSUME Salvar(r) \/ Apagar(r) \/ Atualizar(r)
      PROVE  OutrosCruzados(r) /\ MesmoPedido(r) /\ pedidos' = [q \in Reqs |-> pedidos'[q]]
  <2>1. pedidos[r] # Livre
    BY <1>6 DEF Salvar, Apagar, Atualizar, Livre
  <2>2. Escreve(r, "fim") \/ Escreve(r, "avisar")
    BY <1>6 DEF Salvar, Apagar, Atualizar
  <2>3. pedidos' = [q \in Reqs |-> pedidos'[q]]
    BY <2>2 DEF Escreve
  <2>. QED  BY <2>1, <2>2, <2>3, EfeitoDeEscrever
<1>7. ASSUME Avisar(r) \/ Sumir(r) \/ Responder(r)
      PROVE  OutrosIguais(r) /\ MesmoPedido(r) /\ pedidos' = [q \in Reqs |-> pedidos'[q]]
  <2>1. pedidos[r] # Livre /\ Some(r)
    BY <1>7 DEF Avisar, Sumir, Responder, Livre
  <2>2. pedidos' = [q \in Reqs |-> pedidos'[q]]
    BY <1>2, <2>1 DEF Some
  <2>. QED  BY <2>1, <2>2, EfeitoDeSumir
<1>8. ASSUME Desistir(r)
      PROVE  OutrosIguais(r) /\ MesmoPedido(r) /\ pedidos' = [q \in Reqs |-> pedidos'[q]]
  <2>1. \E p : pedidos' = [pedidos EXCEPT ![r] = p]
    BY <1>8 DEF Desistir
  <2>. QED  BY <1>2, <1>8, <2>1, EfeitoDeDesistir
<1>9. ASSUME Falhar(r)
      PROVE  OutrosIguais(r) /\ MesmoPedido(r) /\ pedidos' = [q \in Reqs |-> pedidos'[q]]
  <2>1. \E p : pedidos' = [pedidos EXCEPT ![r] = p]
    BY <1>9 DEF Falhar
  <2>. QED  BY <1>2, <1>9, <2>1, EfeitoDeFalhar
<1>. QED  BY <1>3, <1>4, <1>5, <1>6, <1>7, <1>8, <1>9 DEF Continuar

LEMMA EfeitoDeChegar ==
    ASSUME NotasInv, NEW r \in Reqs, Chegar(r)
    PROVE  /\ OutrosIguais(r) /\ pedidos[r] = Livre
           /\ pedidos' \in [Reqs -> Pedido \cup {Livre}]
           /\ pedidos'[r] \in Pedido /\ pedidos'[r] # Livre /\ pedidos'[r].so
           /\ pedidos'[r].antes = tela \/ pedidos'[r].antes = Mostra({})
           /\ \/ /\ pedidos'[r].tipo = "criar" /\ pedidos'[r].fase = "procurar"
                 /\ pedidos'[r].chave \in Chaves /\ ~pedidos'[r].espera
                 /\ UNCHANGED << tela, perdidas >>
              \/ /\ pedidos'[r].tipo = "limpar" /\ pedidos'[r].fase = "atualizar"
                 /\ ~pedidos'[r].espera /\ UNCHANGED << tela, perdidas >>
              \/ /\ pedidos'[r].tipo \in {"marcar", "excluir"} /\ pedidos'[r].fase = "buscar"
                 /\ pedidos'[r].nota \in Usadas /\ pedidos'[r].espera /\ UNCHANGED perdidas
                 /\ tela'.ids = tela.ids \ {pedidos'[r].nota}
                 /\ tela'.total \in {tela.total, Menos1(tela.total)}
                 /\ tela' = [ids |-> tela'.ids, total |-> tela'.total]
              \/ /\ pedidos'[r].tipo = "todas" /\ pedidos'[r].fase = "atualizar"
                 /\ pedidos'[r].espera /\ tela' = Mostra({}) /\ UNCHANGED perdidas
           /\ chegaram' = chegaram + 1 /\ chegaram < MaxPedidos
           /\ UNCHANGED << notas, leituras, fila, canal, reinicios >>
<1>. USE DEF NotasInv
<1>1. ASSUME NEW k \in Chaves, PedirCriacao(r, k)
      PROVE  /\ Iniciar(r, "criar", "procurar", k, Ausente, FALSE)
             /\ UNCHANGED << tela, perdidas >>
  BY <1>1 DEF PedirCriacao
<1>2. ASSUME PedirLimpeza(r)
      PROVE  /\ Iniciar(r, "limpar", "atualizar", Ausente, Ausente, FALSE)
             /\ UNCHANGED << tela, perdidas >>
  BY <1>2 DEF PedirLimpeza
<1>3. ASSUME NEW n \in Notas, PedirMarcar(r, n) \/ PedirExcluir(r, n)
      PROVE  /\ \/ Iniciar(r, "marcar", "buscar", Ausente, n, TRUE)
                \/ Iniciar(r, "excluir", "buscar", Ausente, n, TRUE)
             /\ n \in Usadas /\ UNCHANGED perdidas
             /\ tela'.ids = tela.ids \ {n}
             /\ tela'.total \in {tela.total, Menos1(tela.total)}
             /\ tela' = [ids |-> tela'.ids, total |-> tela'.total]
  <2>1. n \in Usadas /\ UNCHANGED perdidas
    BY <1>3 DEF PedirMarcar, PedirExcluir, Viva
  <2>2. CASE PedirMarcar(r, n)
    <3>1. /\ Iniciar(r, "marcar", "buscar", Ausente, n, TRUE)
          /\ tela' = [ids |-> tela.ids \ {n}, total |-> Menos1(tela.total)]
      BY <2>2 DEF PedirMarcar
    <3>. QED  BY <2>1, <3>1
  <2>3. CASE PedirExcluir(r, n)
    <3>1. /\ Iniciar(r, "excluir", "buscar", Ausente, n, TRUE)
          /\ tela' = [ids |-> tela.ids \ {n},
                      total |-> IF n \in tela.ids THEN Menos1(tela.total) ELSE tela.total]
      BY <2>3 DEF PedirExcluir
    <3>. QED  BY <2>1, <3>1
  <2>. QED  BY <1>3, <2>2, <2>3
<1>4. ASSUME PedirTodas(r)
      PROVE  /\ Iniciar(r, "todas", "atualizar", Ausente, Ausente, TRUE)
             /\ tela' = Mostra({}) /\ UNCHANGED perdidas
  BY <1>4 DEF PedirTodas
<1>5. ASSUME NEW tipo, NEW fase, NEW chave, NEW n, NEW espera,
             Iniciar(r, tipo, fase, chave, n, espera)
      PROVE  /\ chegaram' = chegaram + 1 /\ chegaram < MaxPedidos
             /\ UNCHANGED << notas, leituras, fila, canal, reinicios >>
  BY <1>5 DEF Iniciar
<1>6. CASE \E k \in Chaves : PedirCriacao(r, k)
  <2>1. PICK k \in Chaves : Iniciar(r, "criar", "procurar", k, Ausente, FALSE)
                            /\ UNCHANGED << tela, perdidas >>
    BY <1>1, <1>6
  <2>2. /\ OutrosIguais(r) /\ pedidos[r] = Livre
        /\ pedidos' \in [Reqs -> Pedido \cup {Livre}]
        /\ pedidos'[r] \in Pedido /\ pedidos'[r] # Livre /\ pedidos'[r].so
        /\ pedidos'[r].antes = tela \/ pedidos'[r].antes = Mostra({})
        /\ pedidos'[r].tipo = "criar" /\ pedidos'[r].fase = "procurar"
        /\ pedidos'[r].chave = k /\ ~pedidos'[r].espera
    BY <2>1, EfeitoDeIniciar
  <2>. QED  BY <1>5, <2>1, <2>2
<1>7. CASE PedirLimpeza(r)
  BY <1>2, <1>5, <1>7, EfeitoDeIniciar
<1>8. ASSUME NEW n \in Notas, PedirMarcar(r, n) \/ PedirExcluir(r, n)
      PROVE  /\ OutrosIguais(r) /\ pedidos[r] = Livre
             /\ pedidos' \in [Reqs -> Pedido \cup {Livre}]
             /\ pedidos'[r] \in Pedido /\ pedidos'[r] # Livre /\ pedidos'[r].so
             /\ pedidos'[r].antes = tela \/ pedidos'[r].antes = Mostra({})
             /\ pedidos'[r].tipo \in {"marcar", "excluir"} /\ pedidos'[r].fase = "buscar"
             /\ pedidos'[r].nota = n /\ n \in Usadas /\ pedidos'[r].espera
             /\ chegaram' = chegaram + 1 /\ chegaram < MaxPedidos
             /\ UNCHANGED << notas, leituras, fila, canal, reinicios >>
  <2>1. \/ Iniciar(r, "marcar", "buscar", Ausente, n, TRUE)
        \/ Iniciar(r, "excluir", "buscar", Ausente, n, TRUE)
    BY <1>3, <1>8
  <2>2. /\ OutrosIguais(r) /\ pedidos[r] = Livre
        /\ pedidos' \in [Reqs -> Pedido \cup {Livre}]
        /\ pedidos'[r] \in Pedido /\ pedidos'[r] # Livre /\ pedidos'[r].so
        /\ pedidos'[r].antes = tela \/ pedidos'[r].antes = Mostra({})
        /\ pedidos'[r].tipo \in {"marcar", "excluir"} /\ pedidos'[r].fase = "buscar"
        /\ pedidos'[r].espera
    <3>1. CASE Iniciar(r, "marcar", "buscar", Ausente, n, TRUE)
      BY <3>1, EfeitoDeIniciar
    <3>2. CASE Iniciar(r, "excluir", "buscar", Ausente, n, TRUE)
      BY <3>2, EfeitoDeIniciar
    <3>. QED  BY <2>1, <3>1, <3>2
  <2>3. n \in Usadas /\ pedidos'[r].nota = n
    BY <1>3, <1>8, <2>1 DEF Iniciar, TypeOK
  <2>4. /\ chegaram' = chegaram + 1 /\ chegaram < MaxPedidos
        /\ UNCHANGED << notas, leituras, fila, canal, reinicios >>
    BY <1>5, <2>1
  <2>. QED  BY <2>2, <2>3, <2>4
<1>9. CASE \E n \in Notas : PedirMarcar(r, n) \/ PedirExcluir(r, n)
  BY <1>3, <1>8, <1>9
<1>10. CASE PedirTodas(r)
  BY <1>4, <1>5, <1>10, EfeitoDeIniciar
<1>. QED  BY <1>6, <1>7, <1>9, <1>10 DEF Chegar

\* What is in progress stays what its phase says.
LEMMA PedidosStep ==
    ASSUME NotasInv, [Next]_vars
    PROVE  /\ pedidos' \in [Reqs -> Pedido \cup {Livre}]
           /\ \A r \in Reqs : pedidos'[r] # Livre => PedidoPorFase(pedidos[r])'
<1>. USE DEF NotasInv
<1>1. Usadas \subseteq Usadas' /\ Usadas' \subseteq Notas
  BY NotasStep
<1>2. ASSUME NEW q \in Reqs, pedidos[q] # Livre,
             pedidos'[q].fase = pedidos[q].fase, pedidos'[q].tipo = pedidos[q].tipo,
             pedidos'[q].chave = pedidos[q].chave, pedidos'[q].nota = pedidos[q].nota,
             ~pedidos'[q].espera \/ pedidos'[q].espera = pedidos[q].espera
      PROVE  PedidoPorFase(pedidos[q])'
  BY <1>1, <1>2 DEF PedidoPorFase
<1>3. ASSUME NEW q \in Reqs, pedidos'[q] = pedidos[q], pedidos'[q] # Livre
      PROVE  PedidoPorFase(pedidos[q])'
  BY <1>2, <1>3
<1>4. ASSUME NEW r \in Reqs, Continuar(r) \/ Responder(r) \/ Desistir(r),
             pedidos'[r] # Livre => PedidoPorFase(pedidos[r])'
      PROVE  /\ pedidos' \in [Reqs -> Pedido \cup {Livre}]
             /\ \A q \in Reqs : pedidos'[q] # Livre => PedidoPorFase(pedidos[q])'
  <2>1. /\ OutrosIguais(r) \/ OutrosCruzados(r)
        /\ MesmoPedido(r) /\ pedidos' = [q \in Reqs |-> pedidos'[q]]
    BY <1>4, EfeitoDoPasso
  <2>2. ASSUME NEW q \in Reqs \ {r}, pedidos'[q] # Livre
        PROVE  pedidos'[q] \in Pedido /\ PedidoPorFase(pedidos[q])'
    <3>1. CASE OutrosIguais(r)
      BY <1>3, <2>2, <3>1, PedidoEmCurso DEF OutrosIguais
    <3>2. CASE OutrosCruzados(r)
      BY <1>2, <2>2, <3>2 DEF OutrosCruzados
    <3>. QED  BY <2>1, <3>1, <3>2
  <2>3. pedidos'[r] # Livre => pedidos'[r] \in Pedido
    BY <2>1 DEF MesmoPedido
  <2>4. \A q \in Reqs : pedidos'[q] \in Pedido \cup {Livre}
    BY <2>2, <2>3
  <2>5. pedidos' \in [Reqs -> Pedido \cup {Livre}]
    BY <2>1, <2>4
  <2>. QED  BY <1>4, <2>2, <2>5
<1>5. ASSUME NEW r \in Reqs, Chegar(r)
      PROVE  /\ pedidos' \in [Reqs -> Pedido \cup {Livre}]
             /\ \A q \in Reqs : pedidos'[q] # Livre => PedidoPorFase(pedidos[q])'
  <2>1. \A q \in Reqs \ {r} : pedidos'[q] # Livre => PedidoPorFase(pedidos[q])'
    BY <1>3, <1>5, EfeitoDeChegar DEF OutrosIguais
  <2>2. PedidoPorFase(pedidos[r])'
    BY <1>1, <1>5, EfeitoDeChegar DEF PedidoPorFase
  <2>. QED  BY <1>5, <2>1, <2>2, EfeitoDeChegar
<1>6. ASSUME NEW r \in Reqs, Procurar(r), pedidos'[r] # Livre
      PROVE  PedidoPorFase(pedidos[r])'
  <2>1. pedidos[r].fase = "procurar"
    BY <1>6 DEF Procurar
  <2>2. PedidoPorFase(pedidos[r])
    BY <2>1, PedidoEmCurso
  <2>3. pedidos[r].chave \in Chaves /\ ~pedidos[r].espera
    BY <2>1, <2>2 DEF PedidoPorFase
  <2>. QED
    BY <1>1, <1>6, <2>2, <2>3, EfeitoDeProcurar DEF PedidoPorFase, MesmoPedido, Existentes
<1>7. ASSUME NEW r \in Reqs, Inserir(r) PROVE PedidoPorFase(pedidos[r])'
  <2>1. pedidos[r].tipo = "criar" /\ ~pedidos[r].espera
    BY <1>7, EfeitoDeInserir DEF MesmoPedido, PedidoPorFase
  <2>2. Len(notas) + 1 \in Usadas'
    <3>1. Len(notas) \in Nat /\ Len(notas') = Len(notas) + 1
      BY <1>7 DEF Inserir, TypeOK
    <3>. QED  BY <3>1 DEF Usadas
  <2>. QED  BY <1>7, <2>1, <2>2, EfeitoDeInserir DEF PedidoPorFase, MesmoPedido
<1>8. ASSUME NEW r \in Reqs, Buscar(r) PROVE PedidoPorFase(pedidos[r])'
  <2>1. /\ pedidos[r].tipo \in {"marcar", "excluir"} /\ pedidos[r].nota \in Usadas
    BY <1>8, EfeitoDeBuscar DEF MesmoPedido, PedidoPorFase
  <2>. QED  BY <1>1, <1>8, <2>1, EfeitoDeBuscar DEF PedidoPorFase, MesmoPedido
<1>9. ASSUME NEW r \in Reqs, Salvar(r) \/ Apagar(r) \/ Atualizar(r), pedidos'[r] # Livre
      PROVE  PedidoPorFase(pedidos[r])'
  <2>1. pedidos[r] # Livre /\ PedidoPorFase(pedidos[r])
    BY <1>9 DEF Salvar, Apagar, Atualizar, Livre
  <2>2. CASE Escreve(r, "fim")
    <3>1. pedidos[r].espera
      BY <1>9, <2>1, <2>2, EfeitoDeEscrever
    <3>2. /\ pedidos'[r].fase = "pronta" /\ pedidos'[r].tipo = pedidos[r].tipo
          /\ pedidos[r].tipo # "criar"
      BY <1>9, <2>1, <2>2, <3>1, EfeitoDeEscrever DEF MesmoPedido, PedidoPorFase
    <3>. QED  BY <3>2 DEF PedidoPorFase
  <2>3. CASE Salvar(r) /\ pedidos[r].tipo # "marcar"
    <3>1. Escreve(r, "avisar") /\ pedidos[r].fase = "salvar"
      BY <2>3 DEF Salvar
    <3>2. pedidos[r].tipo = "criar" /\ pedidos[r].nota \in Usadas /\ ~pedidos[r].espera
      BY <2>1, <2>3, <3>1 DEF PedidoPorFase
    <3>. QED  BY <1>1, <1>9, <2>1, <3>1, <3>2, EfeitoDeEscrever DEF MesmoPedido, PedidoPorFase
  <2>. QED  BY <1>9, <2>2, <2>3 DEF Salvar, Apagar, Atualizar
<1>10. ASSUME NEW r \in Reqs, Avisar(r) \/ Sumir(r) \/ Responder(r)
       PROVE  pedidos'[r] = Livre
  BY <1>10, EfeitoDeSumir DEF Avisar, Sumir, Responder, Livre
<1>11. ASSUME NEW r \in Reqs, Desistir(r), pedidos'[r] # Livre
       PROVE  PedidoPorFase(pedidos[r])'
  BY <1>2, <1>11, EfeitoDeDesistir DEF MesmoPedido
<1>12. ASSUME Reiniciar
       PROVE  /\ pedidos' \in [Reqs -> Pedido \cup {Livre}]
              /\ \A q \in Reqs : pedidos'[q] # Livre => PedidoPorFase(pedidos[q])'
  <2>1. pedidos' = [q \in Reqs |-> pedidos'[q]]
    BY <1>12 DEF Reiniciar
  <2>2. ASSUME NEW q \in Reqs, pedidos'[q] # Livre
        PROVE  pedidos'[q] \in Pedido /\ PedidoPorFase(pedidos[q])'
    BY <1>12, <2>2, EfeitoDeReiniciar DEF MesmoPedido, PedidoPorFase
  <2>3. \A q \in Reqs : pedidos'[q] \in Pedido \cup {Livre}
    BY <2>2
  <2>4. pedidos' \in [Reqs -> Pedido \cup {Livre}]
    BY <2>1, <2>3
  <2>. QED  BY <2>2, <2>4
<1>13. ASSUME SoTela
       PROVE  /\ pedidos' \in [Reqs -> Pedido \cup {Livre}]
              /\ \A q \in Reqs : pedidos'[q] # Livre => PedidoPorFase(pedidos[q])'
  BY <1>3, <1>13, SoTelaFica DEF TypeOK
<1>14. ASSUME NEW r \in Reqs, Falhar(r), pedidos'[r] # Livre
       PROVE  PedidoPorFase(pedidos[r])'
  <2>1. pedidos[r].espera /\ pedidos'[r].fase = "morta" /\ pedidos'[r].tipo # "criar"
    BY <1>14, EfeitoDeFalhar DEF MesmoPedido, PedidoPorFase
  <2>. QED  BY <2>1 DEF PedidoPorFase
<1>15. ASSUME NEW r \in Reqs, Continuar(r) \/ Responder(r) \/ Desistir(r)
       PROVE  pedidos'[r] # Livre => PedidoPorFase(pedidos[r])'
  BY <1>6, <1>7, <1>8, <1>9, <1>10, <1>11, <1>14, <1>15 DEF Continuar
<1>. QED  BY <1>4, <1>5, <1>12, <1>13, <1>15, Passos

\* The steps of jobs and calls touch neither the stream nor the list it is to begin with;
\* what they push is about a row there is.
LEMMA CanalNoPasso ==
    ASSUME NotasInv, NEW r \in Reqs,
           Chegar(r) \/ Continuar(r) \/ Responder(r) \/ Desistir(r)
    PROVE  /\ UNCHANGED << canal, reinicios >>
           /\ \/ UNCHANGED leituras
              \/ leituras' = [leituras EXCEPT !["sonda"] = Pedida]
           /\ \/ UNCHANGED fila
              \/ \E n \in Usadas : /\ canal /\ n = pedidos[r].nota /\ Avisar(r)
                                   /\ fila' = Append(fila, [tipo |-> "nova", nota |-> n])
<1>. USE DEF NotasInv
<1>1. CASE Chegar(r)
  BY <1>1, EfeitoDeChegar
<1>2. CASE Avisar(r)
  <2>1. pedidos[r].fase = "avisar"
    BY <1>2 DEF Avisar
  <2>2. pedidos[r].nota \in Usadas
    BY <2>1, PedidoEmCurso DEF PedidoPorFase
  <2>3. /\ UNCHANGED << canal, reinicios, leituras >>
        /\ fila' = IF canal THEN Append(fila, [tipo |-> "nova", nota |-> pedidos[r].nota])
                   ELSE fila
    BY <1>2 DEF Avisar, contas
  <2>. QED  BY <1>2, <2>2, <2>3
<1>3. CASE Procurar(r) \/ Inserir(r) \/ Buscar(r) \/ Salvar(r) \/ Apagar(r) \/ Atualizar(r)
           \/ Falhar(r) \/ Sumir(r) \/ Responder(r)
  BY <1>3 DEF Procurar, Inserir, Buscar, Salvar, Apagar, Atualizar, Falhar, Sumir,
              Responder, aba, contas
<1>4. CASE Desistir(r)
  BY <1>4 DEF Desistir, contas
<1>. QED  BY <1>1, <1>2, <1>3, <1>4 DEF Continuar

LEMMA CanalStep ==
    ASSUME NotasInv, [Next]_vars
    PROVE  /\ leituras' \in [{"inicio", "sonda"} -> Leitura \cup {Livre}]
           /\ fila' \in Seq(Evento) /\ canal' \in BOOLEAN
           /\ reinicios' \in 0 .. MaxReinicios
           /\ SemCanalNadaVem' /\ EventosDeNotas'
<1>. USE DEF NotasInv
<1>1. Usadas \subseteq Usadas'
  BY NotasStep
<1>2. NaoLidas \subseteq Notas
  BY LinhaTipo DEF NaoLidas
<1>3. Pedida \in Leitura
  BY DEF Pedida, Leitura
<1>4. ASSUME NEW n \in Usadas
      PROVE  /\ [tipo |-> "nova", nota |-> n] \in Evento
             /\ Append(fila, [tipo |-> "nova", nota |-> n]) \in Seq(Evento)
             /\ fila' = Append(fila, [tipo |-> "nova", nota |-> n]) => EventosDeNotas'
  <2>. DEFINE e == [tipo |-> "nova", nota |-> n]
  <2>1. e \in Evento /\ e.nota = n
    BY LinhaTipo DEF Evento
  <2>. HIDE DEF e
  <2>2. fila \in Seq(Evento)
    BY DEF TypeOK
  <2>3. ASSUME fila' = Append(fila, e) PROVE EventosDeNotas'
    <3>1. \A i \in DOMAIN fila' : fila'[i] = e \/ (i \in DOMAIN fila /\ fila'[i] = fila[i])
      BY <2>1, <2>2, <2>3, EventosAppend
    <3>. QED  BY <1>1, <2>1, <3>1 DEF EventosDeNotas
  <2>. QED  BY <2>1, <2>2, <2>3 DEF e
<1>5. ASSUME UNCHANGED fila PROVE EventosDeNotas'
  BY <1>1, <1>5 DEF EventosDeNotas
<1>6. ASSUME NEW r \in Reqs, Chegar(r) \/ Continuar(r) \/ Responder(r) \/ Desistir(r)
      PROVE  /\ leituras' \in [{"inicio", "sonda"} -> Leitura \cup {Livre}]
             /\ fila' \in Seq(Evento) /\ canal' \in BOOLEAN
             /\ reinicios' \in 0 .. MaxReinicios
             /\ SemCanalNadaVem' /\ EventosDeNotas'
  <2>1. /\ leituras' \in [{"inicio", "sonda"} -> Leitura \cup {Livre}]
        /\ leituras'["inicio"] = leituras["inicio"]
    BY <1>3, <1>6, CanalNoPasso DEF TypeOK
  <2>2. fila' \in Seq(Evento) /\ EventosDeNotas' /\ (~canal => fila' = fila)
    BY <1>4, <1>5, <1>6, CanalNoPasso DEF TypeOK
  <2>3. UNCHANGED << canal, reinicios >>
    BY <1>6, CanalNoPasso
  <2>. QED  BY <2>1, <2>2, <2>3 DEF TypeOK, SemCanalNadaVem
<1>7. ASSUME NEW l \in {"inicio", "sonda"}, Consultar(l)
      PROVE  /\ leituras' \in [{"inicio", "sonda"} -> Leitura \cup {Livre}]
             /\ SemCanalNadaVem' /\ UNCHANGED << fila, canal, reinicios >>
  <2>. DEFINE x == [fase |-> "lida", lista |-> NaoLidas]
  <2>1. x \in Leitura
    BY <1>2 DEF Leitura
  <2>2. leituras' = [leituras EXCEPT ![l] = x] /\ leituras[l].fase = "pedida"
           /\ UNCHANGED << fila, canal, reinicios >>
    BY <1>7 DEF Consultar, aba, contas
  <2>. HIDE DEF x
  <2>3. leituras[l] # Livre
    BY <2>2 DEF Livre
  <2>. QED  BY <2>1, <2>2, <2>3 DEF TypeOK, SemCanalNadaVem
<1>8. ASSUME Enviar
      PROVE  /\ leituras' \in [{"inicio", "sonda"} -> Leitura \cup {Livre}]
             /\ fila' \in Seq(Evento) /\ UNCHANGED << canal, reinicios >>
             /\ SemCanalNadaVem' /\ EventosDeNotas'
  <2>. DEFINE e == [tipo |-> "init", lista |-> leituras["inicio"].lista]
  <2>1. leituras["inicio"] # Livre /\ leituras["inicio"].lista \subseteq Notas
    BY <1>8, LeituraEmCurso DEF Enviar, Livre
  <2>2. e \in Evento /\ e.tipo # "nova"
    BY <2>1 DEF Evento
  <2>3. /\ leituras' = [leituras EXCEPT !["inicio"] = Livre] /\ fila' = Append(fila, e)
        /\ UNCHANGED << canal, reinicios >>
    BY <1>8 DEF Enviar, contas
  <2>. HIDE DEF e
  <2>4. fila \in Seq(Evento)
    BY DEF TypeOK
  <2>5. \A i \in DOMAIN fila' : fila'[i] = e \/ (i \in DOMAIN fila /\ fila'[i] = fila[i])
    BY <2>2, <2>3, <2>4, EventosAppend
  <2>6. EventosDeNotas'
    BY <1>1, <2>2, <2>5 DEF EventosDeNotas
  <2>7. canal
    BY <2>1 DEF SemCanalNadaVem
  <2>. QED  BY <2>2, <2>3, <2>4, <2>6, <2>7 DEF TypeOK, SemCanalNadaVem
<1>9. ASSUME Assinar \/ Cair \/ Reiniciar
      PROVE  /\ leituras' \in [{"inicio", "sonda"} -> Leitura \cup {Livre}]
             /\ fila' = << >> /\ canal' \in BOOLEAN
             /\ reinicios' \in 0 .. MaxReinicios
             /\ SemCanalNadaVem' /\ EventosDeNotas'
  <2>1. /\ leituras' \in [{"inicio", "sonda"} -> Leitura \cup {Livre}]
        /\ canal' \in BOOLEAN /\ (~canal' => leituras'["inicio"] = Livre)
    BY <1>3, <1>9 DEF Assinar, Cair, Reiniciar, TypeOK
  <2>2. fila' = << >>
    BY <1>9 DEF Assinar, Cair, Reiniciar, SemCanalNadaVem
  <2>3. reinicios' \in 0 .. MaxReinicios
    BY <1>9, LimitesAssumption DEF Assinar, Cair, Reiniciar, contas, TypeOK
  <2>. QED  BY <2>1, <2>2, <2>3 DEF SemCanalNadaVem, EventosDeNotas
<1>10. ASSUME Receber
       PROVE  /\ UNCHANGED << leituras, canal, reinicios >>
              /\ fila' \in Seq(Evento) /\ SemCanalNadaVem' /\ EventosDeNotas'
  <2>1. fila # << >> /\ fila' = Tail(fila) /\ UNCHANGED << leituras, canal, reinicios >>
    BY <1>10 DEF Receber, contas
  <2>2. fila \in Seq(Evento) /\ canal
    BY <2>1 DEF TypeOK
  <2>3. /\ fila' \in Seq(Evento)
        /\ \A i \in DOMAIN fila' : i + 1 \in DOMAIN fila /\ fila'[i] = fila[i + 1]
    BY <2>1, <2>2
  <2>. QED  BY <1>1, <2>1, <2>2, <2>3 DEF SemCanalNadaVem, EventosDeNotas
<1>11. ASSUME Sondar \/ ReceberLista \/ FalharLista
       PROVE  /\ leituras' \in [{"inicio", "sonda"} -> Leitura \cup {Livre}]
              /\ SemCanalNadaVem' /\ UNCHANGED << fila, canal, reinicios >>
  <2>1. \E x \in Leitura \cup {Livre} : leituras' = [leituras EXCEPT !["sonda"] = x]
    BY <1>3, <1>11 DEF Sondar, ReceberLista, FalharLista
  <2>2. UNCHANGED << fila, canal, reinicios >>
    BY <1>11 DEF Sondar, ReceberLista, FalharLista, aba, contas
  <2>. QED  BY <2>1, <2>2 DEF TypeOK, SemCanalNadaVem
<1>12. ASSUME UNCHANGED vars
       PROVE  UNCHANGED << leituras, fila, canal, reinicios >>
  BY <1>12 DEF vars, aba, contas
<1>13. leituras \in [{"inicio", "sonda"} -> Leitura \cup {Livre}] /\ fila \in Seq(Evento)
          /\ canal \in BOOLEAN /\ reinicios \in 0 .. MaxReinicios /\ SemCanalNadaVem
  BY DEF TypeOK
<1>14. ASSUME SoTela
       PROVE  /\ leituras' \in [{"inicio", "sonda"} -> Leitura \cup {Livre}]
              /\ fila' \in Seq(Evento) /\ canal' \in BOOLEAN
              /\ reinicios' \in 0 .. MaxReinicios
              /\ SemCanalNadaVem' /\ EventosDeNotas'
  <2>1. CASE \E l \in {"inicio", "sonda"} : Consultar(l)
    BY <1>5, <1>7, <1>13, <2>1
  <2>2. CASE Enviar \/ Receber
    BY <1>8, <1>10, <1>13, <2>2
  <2>3. CASE Sondar \/ ReceberLista \/ FalharLista
    BY <1>5, <1>11, <1>13, <2>3
  <2>4. CASE UNCHANGED vars
    BY <1>5, <1>12, <1>13, <2>4 DEF SemCanalNadaVem
  <2>5. CASE Assinar \/ Cair
    <3>1. fila' = << >>
      BY <1>9, <2>5
    <3>2. fila' \in Seq(Evento)
      BY <3>1
    <3>. QED  BY <1>9, <2>5, <3>2
  <2>. QED  BY <1>14, <2>1, <2>2, <2>3, <2>4, <2>5 DEF SoTela
<1>15. CASE Reiniciar
  <2>1. fila' \in Seq(Evento)
    BY <1>9, <1>15
  <2>. QED  BY <1>9, <1>15, <2>1
<1>. QED  BY <1>6, <1>14, <1>15, Passos

-----------------------------------------------------------------------------
(* Notifications: the badge. *)

LEMMA CargaTipo ==
    ASSUME NotasInv
    PROVE  /\ IsFiniteSet(Criacoes) /\ Cardinality(Criacoes) \in Nat
           /\ Cardinality(Novas) \in Nat /\ chegaram \in Nat /\ chegaram <= MaxPedidos
           /\ tela.ids \subseteq Notas /\ tela.total \in Nat
           /\ tela = [ids |-> tela.ids, total |-> tela.total]
<1>1. IsFiniteSet(Criacoes) /\ Cardinality(Criacoes) \in Nat
  BY FS_CardinalityType DEF NotasInv, TotaisCabem
<1>2. Cardinality(Novas) \in Nat
  BY NovasFinitas DEF NotasInv, TypeOK, Novas
<1>3. chegaram \in Nat /\ chegaram <= MaxPedidos
  BY LimitesAssumption DEF NotasInv, TypeOK
<1>4. tela \in Tela
  BY DEF NotasInv, TypeOK
<1>. QED  BY <1>1, <1>2, <1>3, <1>4, LimitesAssumption DEF Tela

\* A step that does not add to what is to come, and leaves a badge that fits.
LEMMA TotaisFicam ==
    ASSUME NotasInv, UNCHANGED chegaram,
           IsFiniteSet(Criacoes'), Cardinality(Criacoes') \in Nat,
           Cardinality(Novas') \in Nat,
           Cardinality(Criacoes') + Cardinality(Novas')
              <= Cardinality(Criacoes) + Cardinality(Novas),
           tela'.ids \subseteq Notas, tela'.total \in Nat,
           tela' = [ids |-> tela'.ids, total |-> tela'.total],
           \/ CabeNoTotal(tela'.total) \/ tela'.total <= MaxNotas
           \/ Cardinality(Criacoes') + Cardinality(Novas') + tela'.total
                 <= MaxNotas + chegaram,
           \A q \in Reqs : pedidos'[q] # Livre =>
              pedidos[q] # Livre /\ pedidos'[q].antes = pedidos[q].antes
    PROVE  TotaisCabem' /\ tela' \in Tela
<1>. DEFINE c == Cardinality(Criacoes) + Cardinality(Novas)
            d == Cardinality(Criacoes') + Cardinality(Novas')
<1>1. c \in Nat /\ d \in Nat /\ d <= c /\ c <= chegaram /\ MaxNotas \in Nat
         /\ MaxPedidos \in Nat /\ chegaram \in Nat /\ chegaram <= MaxPedidos
  BY CargaTipo, LimitesAssumption DEF NotasInv, TotaisCabem
<1>2. d + tela'.total <= MaxNotas + chegaram
  <2>1. CASE CabeNoTotal(tela'.total)
    <3>1. c + tela'.total <= MaxNotas + chegaram
      BY <2>1 DEF CabeNoTotal
    <3>. HIDE DEF c, d
    <3>. QED  BY <1>1, <3>1
  <2>2. CASE tela'.total <= MaxNotas
    <3>. HIDE DEF c, d
    <3>. QED  BY <1>1, <2>2
  <2>. QED  BY <2>1, <2>2
<1>3. tela' \in Tela
  <2>1. tela'.total \in 0 .. MaxNotas + MaxPedidos
    <3>. HIDE DEF d
    <3>. QED  BY <1>1, <1>2
  <2>. QED  BY <2>1 DEF Tela
<1>4. ASSUME NEW q \in Reqs, pedidos'[q] # Livre
      PROVE  d + pedidos'[q].antes.total <= MaxNotas + chegaram
  <2>1. /\ pedidos'[q].antes = pedidos[q].antes /\ pedidos[q] \in Pedido
        /\ CabeNoTotal(pedidos[q].antes.total)
    BY <1>4, PedidoEmCurso DEF NotasInv, TotaisCabem
  <2>2. pedidos[q].antes.total \in Nat
    BY <2>1, LimitesAssumption DEF Pedido, Tela
  <2>3. c + pedidos[q].antes.total <= MaxNotas + chegaram
    BY <2>1 DEF CabeNoTotal
  <2>. HIDE DEF c, d
  <2>. QED  BY <1>1, <2>1, <2>2, <2>3
<1>5. d <= chegaram
  <2>. HIDE DEF c, d
  <2>. QED  BY <1>1
<1>. QED  BY <1>2, <1>3, <1>4, <1>5 DEF TotaisCabem, CabeNoTotal

\* The steps of what is in progress do not add to what is to come: what is pushed was
\* to be.
LEMMA CargaNoPasso ==
    ASSUME NotasInv, NEW r \in Reqs, Continuar(r) \/ Responder(r) \/ Desistir(r)
    PROVE  /\ IsFiniteSet(Criacoes') /\ Cardinality(Criacoes') \in Nat
           /\ Cardinality(Novas') \in Nat /\ UNCHANGED chegaram
           /\ Cardinality(Criacoes') + Cardinality(Novas')
                 <= Cardinality(Criacoes) + Cardinality(Novas)
           /\ \A q \in Reqs : pedidos'[q] # Livre =>
                 pedidos[q] # Livre /\ pedidos'[q].antes = pedidos[q].antes
<1>1. (OutrosIguais(r) \/ OutrosCruzados(r)) /\ MesmoPedido(r)
  BY EfeitoDoPasso
<1>2. \A q \in Reqs : pedidos'[q] # Livre =>
         /\ pedidos[q] # Livre /\ pedidos'[q].antes = pedidos[q].antes
         /\ pedidos'[q].tipo = pedidos[q].tipo
  BY <1>1 DEF OutrosIguais, OutrosCruzados, MesmoPedido
<1>3. Criacoes' \subseteq Criacoes
  BY <1>2 DEF Criacoes
<1>4. /\ IsFiniteSet(Criacoes) /\ Cardinality(Criacoes) \in Nat /\ Cardinality(Novas) \in Nat
  BY CargaTipo
<1>5. /\ IsFiniteSet(Criacoes') /\ Cardinality(Criacoes') \in Nat
      /\ Cardinality(Criacoes') <= Cardinality(Criacoes)
  BY <1>3, <1>4, FS_Subset, FS_CardinalityType
<1>6. UNCHANGED chegaram
  BY DEF Continuar, Procurar, Inserir, Buscar, Salvar, Apagar, Atualizar, Avisar, Falhar,
         Sumir, Responder, Desistir, contas
<1>7. ASSUME UNCHANGED fila PROVE Cardinality(Novas') = Cardinality(Novas)
  BY <1>7 DEF Novas
<1>8. ASSUME NEW n \in Usadas, Avisar(r),
             fila' = Append(fila, [tipo |-> "nova", nota |-> n])
      PROVE  /\ Cardinality(Novas') = Cardinality(Novas) + 1
             /\ Cardinality(Criacoes') <= Cardinality(Criacoes) - 1
  <2>. DEFINE e == [tipo |-> "nova", nota |-> n]
  <2>1. e \in Evento /\ e.tipo = "nova"
    BY LinhaTipo DEF Evento, NotasInv
  <2>2. fila' = Append(fila, e)
    BY <1>8
  <2>. HIDE DEF e
  <2>3. Cardinality(Novas') = Cardinality(Novas) + 1
    BY <2>1, <2>2, NovasAppend DEF Novas, NotasInv, TypeOK
  <2>4. r \in Criacoes /\ r \notin Criacoes'
    <3>1. pedidos[r] # Livre /\ pedidos[r].fase = "avisar" /\ Some(r)
      BY <1>8 DEF Avisar, Livre
    <3>2. pedidos'[r] = Livre
      BY <3>1, EfeitoDeSumir DEF NotasInv
    <3>. QED  BY <3>1, <3>2 DEF NotasInv, PedidoPorFase, Criacoes
  <2>5. Criacoes' \subseteq Criacoes \ {r}
    BY <1>3, <2>4
  <2>6. /\ IsFiniteSet(Criacoes \ {r})
        /\ Cardinality(Criacoes \ {r}) = Cardinality(Criacoes) - 1
    BY <1>4, <2>4, FS_RemoveElement
  <2>7. Cardinality(Criacoes') <= Cardinality(Criacoes \ {r})
    BY <2>5, <2>6, FS_Subset
  <2>. QED  BY <2>3, <2>6, <2>7
<1>9. UNCHANGED fila \/ \E n \in Usadas :
         Avisar(r) /\ fila' = Append(fila, [tipo |-> "nova", nota |-> n])
  BY CanalNoPasso
<1>10. \/ Cardinality(Novas') = Cardinality(Novas)
       \/ /\ Cardinality(Novas') = Cardinality(Novas) + 1
          /\ Cardinality(Criacoes') <= Cardinality(Criacoes) - 1
  BY <1>7, <1>8, <1>9
<1>11. /\ Cardinality(Novas') \in Nat
       /\ Cardinality(Criacoes') + Cardinality(Novas')
             <= Cardinality(Criacoes) + Cardinality(Novas)
  BY <1>4, <1>5, <1>10
<1>. QED  BY <1>2, <1>5, <1>6, <1>11

\* A job more may bring one more to the badge.
LEMMA TotaisAoChegar ==
    ASSUME NotasInv, NEW r \in Reqs, Chegar(r)
    PROVE  TotaisCabem' /\ tela' \in Tela /\ chegaram' \in 0 .. MaxPedidos
<1>. DEFINE c == Cardinality(Criacoes)
            d == Cardinality(Criacoes')
            v == Cardinality(Novas)
<1>1. /\ OutrosIguais(r) /\ pedidos[r] = Livre
      /\ pedidos'[r] \in Pedido /\ pedidos'[r] # Livre
      /\ pedidos'[r].antes = tela \/ pedidos'[r].antes = Mostra({})
      /\ chegaram' = chegaram + 1 /\ chegaram < MaxPedidos /\ fila' = fila
  BY EfeitoDeChegar
<1>2. /\ IsFiniteSet(Criacoes) /\ c \in Nat /\ v \in Nat /\ chegaram \in Nat
      /\ tela.ids \subseteq Notas /\ tela.total \in Nat /\ c + v <= chegaram
      /\ c + v + tela.total <= MaxNotas + chegaram
      /\ MaxNotas \in Nat /\ MaxPedidos \in Nat
  BY CargaTipo, LimitesAssumption DEF NotasInv, TotaisCabem, CabeNoTotal
<1>3. IsFiniteSet(Criacoes') /\ d \in Nat /\ d <= c + 1
  <2>1. Criacoes' \subseteq Criacoes \cup {r}
    BY <1>1 DEF Criacoes, OutrosIguais
  <2>2. r \notin Criacoes
    BY <1>1 DEF Criacoes
  <2>3. IsFiniteSet(Criacoes \cup {r}) /\ Cardinality(Criacoes \cup {r}) = c + 1
    BY <1>2, <2>2, FS_AddElement
  <2>. QED  BY <2>1, <2>3, FS_Subset, FS_CardinalityType
<1>4. Cardinality(Novas') = v
  BY <1>1 DEF Novas
<1>5. /\ tela'.ids \subseteq Notas /\ tela'.total \in Nat /\ tela'.total <= tela.total
      /\ tela' = [ids |-> tela'.ids, total |-> tela'.total]
  <2>1. Menos1(tela.total) \in Nat /\ Menos1(tela.total) <= tela.total
    BY <1>2 DEF Menos1
  <2>2. /\ Mostra({}).ids = {} /\ Mostra({}).total = 0
        /\ Mostra({}) = [ids |-> Mostra({}).ids, total |-> Mostra({}).total]
    BY FS_EmptySet DEF Mostra
  <2>. QED  BY <1>2, <2>1, <2>2, CargaTipo, EfeitoDeChegar
<1>6. tela' \in Tela
  <2>1. tela'.total \in 0 .. MaxNotas + MaxPedidos
    <3>. HIDE DEF c, v
    <3>. QED  BY <1>1, <1>2, <1>5
  <2>. QED  BY <1>5, <2>1 DEF Tela
<1>7. ASSUME NEW q \in Reqs, pedidos'[q] # Livre
      PROVE  d + v + pedidos'[q].antes.total <= MaxNotas + (chegaram + 1)
  <2>1. CASE q = r
    <3>1. Mostra({}).total = 0
      BY FS_EmptySet DEF Mostra
    <3>2. pedidos'[q].antes.total = tela.total \/ pedidos'[q].antes.total = 0
      BY <1>1, <2>1, <3>1
    <3>. HIDE DEF c, d, v
    <3>. QED  BY <1>2, <1>3, <3>2
  <2>2. CASE q # r
    <3>1. /\ pedidos'[q] = pedidos[q] /\ pedidos[q] \in Pedido
          /\ CabeNoTotal(pedidos[q].antes.total)
      BY <1>1, <1>7, <2>2, PedidoEmCurso DEF OutrosIguais, NotasInv, TotaisCabem
    <3>2. pedidos[q].antes.total \in Nat
      BY <3>1, LimitesAssumption DEF Pedido, Tela
    <3>3. c + v + pedidos[q].antes.total <= MaxNotas + chegaram
      BY <3>1 DEF CabeNoTotal
    <3>. HIDE DEF c, d, v
    <3>. QED  BY <1>2, <1>3, <3>1, <3>2, <3>3
  <2>. QED  BY <2>1, <2>2
<1>8. d + v <= chegaram + 1 /\ d + v + tela'.total <= MaxNotas + (chegaram + 1)
  <2>. HIDE DEF c, d, v
  <2>. QED  BY <1>2, <1>3, <1>5
<1>. QED
  BY <1>1, <1>2, <1>3, <1>4, <1>6, <1>7, <1>8 DEF TotaisCabem, CabeNoTotal

LEMMA TrocarTipo ==
    ASSUME NotasInv, NEW t \in Tela, NEW eventos, Trocar(t, eventos)
    PROVE  /\ tela' = t /\ perdidas' \subseteq Notas
           /\ t.ids \subseteq Notas /\ t.total \in Nat
           /\ t = [ids |-> t.ids, total |-> t.total]
<1>1. NaoLidas \subseteq Notas /\ perdidas \subseteq Notas
  BY LinhaTipo DEF NotasInv, TypeOK, NaoLidas
<1>2. t.ids \subseteq Notas /\ t.total \in Nat /\ t = [ids |-> t.ids, total |-> t.total]
  BY LimitesAssumption DEF Tela
<1>. QED  BY <1>1, <1>2 DEF Trocar, Faltam

\* The badge fits, whatever the step.
LEMMA TotaisStep ==
    ASSUME NotasInv, [Next]_vars
    PROVE  /\ TotaisCabem' /\ tela' \in Tela /\ perdidas' \subseteq Notas
           /\ chegaram' \in 0 .. MaxPedidos
<1>. DEFINE carga == Cardinality(Criacoes) + Cardinality(Novas)
            Meta == /\ TotaisCabem' /\ tela' \in Tela /\ perdidas' \subseteq Notas
                    /\ chegaram' \in 0 .. MaxPedidos
<1>1. /\ IsFiniteSet(Criacoes) /\ Cardinality(Criacoes) \in Nat /\ Cardinality(Novas) \in Nat
      /\ tela.ids \subseteq Notas /\ tela.total \in Nat
      /\ tela = [ids |-> tela.ids, total |-> tela.total]
      /\ CabeNoTotal(tela.total) /\ perdidas \subseteq Notas
      /\ chegaram \in 0 .. MaxPedidos /\ fila \in Seq(Evento)
      /\ leituras \in [{"inicio", "sonda"} -> Leitura \cup {Livre}]
  BY CargaTipo DEF NotasInv, TypeOK, TotaisCabem
<1>2. ASSUME NEW r \in Reqs, Chegar(r) PROVE Meta
  BY <1>1, <1>2, TotaisAoChegar, EfeitoDeChegar
<1>3. ASSUME NEW r \in Reqs, Continuar(r) \/ Responder(r) PROVE Meta
  <2>1. UNCHANGED tela /\ (UNCHANGED perdidas \/ Falhar(r))
    BY <1>3 DEF Continuar, Procurar, Inserir, Buscar, Salvar, Apagar, Atualizar, Avisar,
                Falhar, Sumir, Responder, aba
  <2>2. UNCHANGED chegaram
    BY <1>3, CargaNoPasso
  <2>3. TotaisCabem' /\ tela' \in Tela
    BY <1>1, <1>3, <2>1, CargaNoPasso, TotaisFicam
  <2>4. ASSUME Falhar(r) PROVE perdidas' \subseteq Notas
    <3>1. CASE pedidos[r].fase = "avisar"
      <4>1. pedidos[r].nota \in Usadas
        BY <2>4, <3>1, PedidoEmCurso DEF NotasInv, PedidoPorFase, Livre
      <4>2. pedidos[r].nota \in Notas
        BY <4>1, LinhaTipo DEF NotasInv
      <4>. QED  BY <1>1, <2>4, <3>1, <4>2 DEF Falhar
    <3>. QED  BY <1>1, <2>4, <3>1 DEF Falhar
  <2>. QED  BY <1>1, <2>1, <2>2, <2>3, <2>4
<1>4. ASSUME NEW r \in Reqs, Desistir(r) PROVE Meta
  <2>1. /\ pedidos[r] \in Pedido /\ pedidos[r].antes \in Tela
        /\ CabeNoTotal(pedidos[r].antes.total)
    <3>1. pedidos[r] # Livre /\ pedidos[r] \in Pedido
      BY <1>4, PedidoEmCurso DEF Desistir, NotasInv
    <3>. QED  BY <3>1 DEF Pedido, NotasInv, TotaisCabem
  <2>2. UNCHANGED chegaram
    BY <1>4, CargaNoPasso
  <2>3. CASE /\ UNCHANGED tela
             /\ perdidas' = perdidas \cup (Faltam(tela, fila) \cap {pedidos[r].nota})
    <3>1. TotaisCabem' /\ tela' \in Tela
      BY <1>1, <1>4, <2>3, CargaNoPasso, TotaisFicam
    <3>2. Faltam(tela, fila) \subseteq Notas
      BY LinhaTipo DEF Faltam, NaoLidas, NotasInv
    <3>. QED  BY <1>1, <2>2, <2>3, <3>1, <3>2
  <2>4. CASE Trocar(pedidos[r].antes, fila)
    <3>1. /\ tela' = pedidos[r].antes /\ perdidas' \subseteq Notas
          /\ tela'.ids \subseteq Notas /\ tela'.total \in Nat
          /\ tela' = [ids |-> tela'.ids, total |-> tela'.total]
      BY <2>1, <2>4, TrocarTipo
    <3>2. TotaisCabem' /\ tela' \in Tela
      BY <1>4, <2>1, <3>1, CargaNoPasso, TotaisFicam
    <3>. QED  BY <1>1, <2>2, <3>1, <3>2
  <2>5. CASE Trocar([tela EXCEPT !.ids = pedidos[r].antes.ids], fila)
    <3>. DEFINE t == [tela EXCEPT !.ids = pedidos[r].antes.ids]
    <3>1. pedidos[r].antes.ids \subseteq Notas /\ tela \in Tela
      BY <2>1 DEF Tela, NotasInv, TypeOK
    <3>2. t \in Tela /\ t.total = tela.total
      BY <3>1 DEF Tela
    <3>. HIDE DEF t
    <3>3. /\ tela' = t /\ perdidas' \subseteq Notas
          /\ tela'.ids \subseteq Notas /\ tela'.total \in Nat
          /\ tela' = [ids |-> tela'.ids, total |-> tela'.total]
      BY <2>5, <3>2, TrocarTipo DEF t
    <3>4. CabeNoTotal(tela'.total)
      BY <1>1, <3>2, <3>3
    <3>5. TotaisCabem' /\ tela' \in Tela
      BY <1>4, <3>3, <3>4, CargaNoPasso, TotaisFicam
    <3>. QED  BY <1>1, <2>2, <3>3, <3>5
  <2>. QED  BY <1>4, <2>3, <2>4, <2>5 DEF Desistir
<1>5. ASSUME UNCHANGED << pedidos, chegaram >>,
             Cardinality(Novas') \in Nat, Cardinality(Novas') <= Cardinality(Novas)
      PROVE  /\ IsFiniteSet(Criacoes') /\ Cardinality(Criacoes') \in Nat
             /\ Cardinality(Criacoes') = Cardinality(Criacoes)
             /\ Cardinality(Criacoes') + Cardinality(Novas')
                   <= Cardinality(Criacoes) + Cardinality(Novas)
             /\ \A q \in Reqs : pedidos'[q] # Livre =>
                   pedidos[q] # Livre /\ pedidos'[q].antes = pedidos[q].antes
  <2>1. Criacoes' = Criacoes
    BY <1>5 DEF Criacoes
  <2>. QED  BY <1>1, <1>5, <2>1
<1>6. ASSUME UNCHANGED << pedidos, chegaram, tela, perdidas >>,
             Cardinality(Novas') \in Nat, Cardinality(Novas') <= Cardinality(Novas)
      PROVE  Meta
  <2>1. TotaisCabem' /\ tela' \in Tela
    BY <1>1, <1>5, <1>6, TotaisFicam
  <2>. QED  BY <1>1, <1>6, <2>1
<1>7. ASSUME UNCHANGED << pedidos, chegaram >>,
             Cardinality(Novas') \in Nat, Cardinality(Novas') <= Cardinality(Novas),
             NEW s \in SUBSET Notas, NEW eventos, Trocar(Mostra(s), eventos)
      PROVE  Meta
  <2>1. /\ Mostra(s) \in Tela /\ Mostra(s).total <= MaxNotas
    BY MostraTipo, LimitesAssumption
  <2>2. /\ tela' = Mostra(s) /\ perdidas' \subseteq Notas
        /\ tela'.ids \subseteq Notas /\ tela'.total \in Nat
        /\ tela' = [ids |-> tela'.ids, total |-> tela'.total]
    BY <1>7, <2>1, TrocarTipo
  <2>3. tela'.total <= MaxNotas
    BY <2>1, <2>2
  <2>4. TotaisCabem' /\ tela' \in Tela
    BY <1>5, <1>7, <2>2, <2>3, TotaisFicam
  <2>. QED  BY <1>1, <1>7, <2>2, <2>4
<1>8. ASSUME UNCHANGED fila PROVE Cardinality(Novas') = Cardinality(Novas)
  BY <1>8 DEF Novas
<1>9. ASSUME fila' = << >> PROVE Cardinality(Novas') = 0
  BY <1>9, NovasVazia DEF Novas
<1>10. ASSUME \/ \E l \in {"inicio", "sonda"} : Consultar(l)
              \/ Assinar \/ Sondar \/ FalharLista \/ UNCHANGED vars
       PROVE  Meta
  <2>1. UNCHANGED << pedidos, chegaram, tela, perdidas, fila >>
    BY <1>10 DEF Consultar, Assinar, Sondar, FalharLista, vars, aba, contas
  <2>. QED  BY <1>1, <1>6, <1>8, <2>1
<1>11. ASSUME Cair PROVE Meta
  <2>1. UNCHANGED << pedidos, chegaram, tela, perdidas >> /\ fila' = << >>
    BY <1>11 DEF Cair, contas
  <2>. QED  BY <1>1, <1>6, <1>9, <2>1
<1>12. ASSUME Enviar PROVE Meta
  <2>. DEFINE e == [tipo |-> "init", lista |-> leituras["inicio"].lista]
  <2>1. leituras["inicio"].lista \subseteq Notas
    BY <1>12, LeituraEmCurso DEF Enviar, Livre, NotasInv
  <2>2. e \in Evento /\ e.tipo # "nova"
    BY <2>1 DEF Evento
  <2>3. UNCHANGED << pedidos, chegaram, tela, perdidas >> /\ fila' = Append(fila, e)
    BY <1>12 DEF Enviar, contas
  <2>. HIDE DEF e
  <2>4. Cardinality(Novas') = Cardinality(Novas)
    BY <1>1, <2>2, <2>3, NovasAppend DEF Novas
  <2>. QED  BY <1>1, <1>6, <2>3, <2>4
<1>13. ASSUME ReceberLista PROVE Meta
  <2>1. leituras["sonda"].lista \subseteq Notas
    BY <1>13, LeituraEmCurso DEF ReceberLista, Livre, NotasInv
  <2>2. UNCHANGED << pedidos, chegaram, fila >>
           /\ Trocar(Mostra(leituras["sonda"].lista), fila)
    BY <1>13 DEF ReceberLista, contas
  <2>. QED  BY <1>1, <1>7, <1>8, <2>1, <2>2
<1>14. ASSUME Receber PROVE Meta
  <2>. DEFINE e == Head(fila)
  <2>1. /\ fila # << >> /\ fila' = Tail(fila) /\ e \in Evento
        /\ UNCHANGED << pedidos, chegaram >>
        /\ Cardinality(Novas) = Cardinality(Novas') + IF e.tipo = "nova" THEN 1 ELSE 0
        /\ Cardinality(Novas') \in Nat
    <3>1. fila # << >> /\ fila' = Tail(fila) /\ UNCHANGED << pedidos, chegaram >>
      BY <1>14 DEF Receber, contas
    <3>2. fila' \in Seq(Evento) /\ e \in Evento
      BY <1>1, <3>1
    <3>. QED  BY <1>1, <3>1, <3>2, NovasTail, NovasFinitas DEF Novas
  <2>2. CASE e.tipo = "init"
    <3>1. Trocar(Mostra(e.lista), Tail(fila)) /\ e.lista \subseteq Notas
      BY <1>14, <2>1, <2>2, EventoTipo DEF Receber
    <3>. HIDE DEF e
    <3>. QED  BY <1>1, <1>7, <2>1, <2>2, <3>1
  <2>3. CASE e.tipo # "init"
    <3>1. Acrescentar(e.nota) /\ e.nota \in Notas /\ e.tipo = "nova"
      BY <1>14, <2>1, <2>3, EventoTipo DEF Receber
    <3>. HIDE DEF e
    <3>2. /\ tela'.ids \subseteq Notas /\ tela'.total \in Nat
          /\ tela'.total <= tela.total + 1
          /\ tela' = [ids |-> tela'.ids, total |-> tela'.total]
      <4>1. \/ tela' = tela
            \/ tela' = [ids |-> tela.ids \cup {e.nota}, total |-> tela.total + 1]
        BY <3>1 DEF Acrescentar
      <4>2. CASE tela' = tela
        BY <1>1, <4>2
      <4>3. CASE tela' = [ids |-> tela.ids \cup {e.nota}, total |-> tela.total + 1]
        BY <1>1, <3>1, <4>3
      <4>. QED  BY <4>1, <4>2, <4>3
    <3>3. perdidas' \subseteq Notas
      BY <1>1, <3>1 DEF Acrescentar
    <3>4. Cardinality(Novas) = Cardinality(Novas') + 1
      BY <2>1, <3>1
    <3>5. Cardinality(Criacoes') = Cardinality(Criacoes)
      BY <1>1, <1>5, <2>1, <3>4
    <3>6. Cardinality(Criacoes') + Cardinality(Novas') + tela'.total <= MaxNotas + chegaram
      BY <1>1, <2>1, <3>2, <3>4, <3>5, LimitesAssumption DEF CabeNoTotal
    <3>7. Cardinality(Novas') <= Cardinality(Novas)
      BY <2>1, <3>4
    <3>8. TotaisCabem' /\ tela' \in Tela
      BY <1>5, <2>1, <3>2, <3>6, <3>7, TotaisFicam
    <3>. QED  BY <1>1, <2>1, <3>3, <3>8
  <2>. QED  BY <2>2, <2>3
<1>15. ASSUME Reiniciar PROVE Meta
  <2>1. UNCHANGED << chegaram, tela, perdidas >> /\ fila' = << >>
    BY <1>15 DEF Reiniciar
  <2>2. \A q \in Reqs : pedidos'[q] # Livre =>
           /\ pedidos[q] # Livre /\ pedidos'[q].antes = pedidos[q].antes
           /\ pedidos'[q].tipo = pedidos[q].tipo /\ pedidos[q].espera
    BY <1>15, EfeitoDeReiniciar DEF MesmoPedido, NotasInv
  <2>3. Criacoes' = {}
    BY <2>2 DEF Criacoes, NotasInv, PedidoPorFase
  <2>4. IsFiniteSet(Criacoes') /\ Cardinality(Criacoes') = 0 /\ Cardinality(Novas') = 0
    BY <1>9, <2>1, <2>3, FS_EmptySet
  <2>5. TotaisCabem' /\ tela' \in Tela
    BY <1>1, <2>1, <2>2, <2>4, TotaisFicam
  <2>. QED  BY <1>1, <2>1, <2>5
<1>16. CASE SoTela
  BY <1>10, <1>11, <1>12, <1>13, <1>14, <1>16 DEF SoTela
<1>. QED  BY <1>2, <1>3, <1>4, <1>15, <1>16, Passos

-----------------------------------------------------------------------------
(* Notifications: what was read is still so, and nothing escapes. *)

\* The steps that leave the rows alone, those that write across the others, and the rest.
LEMMA NotasIguais ==
    ASSUME UNCHANGED notas
    PROVE  /\ Usadas' = Usadas /\ NaoLidas' = NaoLidas
           /\ \A k : Existentes(k)' = Existentes(k)
           /\ \A n : Viva(n)' = Viva(n) /\ NaoLida(n)' = NaoLida(n)
BY DEF Usadas, NaoLidas, NaoLida, Viva, Existentes

SoValeDe(r) ==
    pedidos[r] # Livre /\ pedidos[r].so =>
       /\ pedidos[r].fase = "inserir" /\ pedidos[r].chave \in Recorrentes
             => Existentes(pedidos[r].chave) = {}
       /\ pedidos[r].fase = "salvar" => Viva(pedidos[r].nota)

LEMMA SoAindaValeStep ==
    ASSUME NotasInv, [Next]_vars
    PROVE  SoAindaVale'
<1>. USE DEF NotasInv
<1>1. ASSUME \A q \in Reqs : SoValeDe(q)' PROVE SoAindaVale'
  BY <1>1 DEF SoAindaVale, SoValeDe
<1>2. \A q \in Reqs : SoValeDe(q)
  BY DEF SoAindaVale, SoValeDe
<1>3. ASSUME UNCHANGED notas, NEW q \in Reqs, pedidos[q] # Livre,
             pedidos'[q].so = pedidos[q].so, pedidos'[q].fase = pedidos[q].fase,
             pedidos'[q].chave = pedidos[q].chave, pedidos'[q].nota = pedidos[q].nota
      PROVE  SoValeDe(q)'
  BY <1>2, <1>3, NotasIguais DEF SoValeDe
<1>4. ASSUME UNCHANGED notas, NEW q \in Reqs, pedidos'[q] = pedidos[q]
      PROVE  SoValeDe(q)'
  BY <1>3, <1>4 DEF SoValeDe
<1>5. ASSUME NEW q \in Reqs,
             pedidos'[q] = Livre \/ ~pedidos'[q].so
                \/ pedidos'[q].fase \notin {"inserir", "salvar"}
      PROVE  SoValeDe(q)'
  BY <1>5 DEF SoValeDe
<1>6. ASSUME NEW r \in Reqs, UNCHANGED notas, OutrosIguais(r), SoValeDe(r)'
      PROVE  SoAindaVale'
  BY <1>1, <1>4, <1>6 DEF OutrosIguais
<1>7. ASSUME NEW r \in Reqs, OutrosCruzados(r), SoValeDe(r)'
      PROVE  SoAindaVale'
  <2>1. ASSUME NEW q \in Reqs \ {r} PROVE pedidos'[q] = Livre \/ ~pedidos'[q].so
    BY <1>7 DEF OutrosCruzados
  <2>. QED  BY <1>1, <1>5, <1>7, <2>1
<1>8. ASSUME NEW r \in Reqs, Chegar(r) PROVE SoAindaVale'
  <2>1. SoValeDe(r)'
    BY <1>5, <1>8, EfeitoDeChegar
  <2>. QED  BY <1>6, <1>8, <2>1, EfeitoDeChegar
<1>9. ASSUME NEW r \in Reqs, Procurar(r) PROVE SoAindaVale'
  <2>1. UNCHANGED notas /\ pedidos[r].fase = "procurar"
    BY <1>9 DEF Procurar
  <2>2. PedidoPorFase(pedidos[r])
    BY <2>1, PedidoEmCurso
  <2>3. ASSUME pedidos'[r] # Livre
        PROVE  /\ pedidos'[r].fase = "inserir" /\ pedidos'[r].chave \in Recorrentes
                     => Existentes(pedidos'[r].chave) = {}
               /\ pedidos'[r].fase = "salvar" => Viva(pedidos'[r].nota)
    BY <1>9, <2>2, <2>3, EfeitoDeProcurar DEF Existentes
  <2>4. SoValeDe(r)'
    BY <2>1, <2>3, NotasIguais DEF SoValeDe
  <2>. QED  BY <1>6, <1>9, <2>1, <2>2, <2>4, EfeitoDeProcurar
<1>10. ASSUME NEW r \in Reqs, Inserir(r) PROVE SoAindaVale'
  <2>1. SoValeDe(r)'
    BY <1>5, <1>10, EfeitoDeInserir
  <2>. QED  BY <1>7, <1>10, <2>1, EfeitoDeInserir
<1>11. ASSUME NEW r \in Reqs, Buscar(r) PROVE SoAindaVale'
  <2>1. UNCHANGED notas
    BY <1>11 DEF Buscar
  <2>2. pedidos'[r].fase # "inserir"
        /\ (pedidos'[r].fase = "salvar" => Viva(pedidos'[r].nota))
    BY <1>11, EfeitoDeBuscar
  <2>3. SoValeDe(r)'
    BY <2>1, <2>2, NotasIguais DEF SoValeDe
  <2>. QED  BY <1>6, <1>11, <2>1, <2>3, EfeitoDeBuscar
<1>12. ASSUME NEW r \in Reqs, Salvar(r) \/ Apagar(r) \/ Atualizar(r) PROVE SoAindaVale'
  <2>1. pedidos[r] # Livre /\ (Escreve(r, "fim") \/ Escreve(r, "avisar"))
    BY <1>12 DEF Salvar, Apagar, Atualizar, Livre
  <2>2. SoValeDe(r)'
    <3>1. pedidos'[r] = Livre \/ pedidos'[r].fase \in {"pronta", "avisar"}
      BY <2>1, EfeitoDeEscrever
    <3>. QED  BY <1>5, <3>1
  <2>. QED  BY <1>7, <2>1, <2>2, EfeitoDeEscrever
<1>13. ASSUME NEW r \in Reqs, Avisar(r) \/ Sumir(r) \/ Responder(r) PROVE SoAindaVale'
  <2>1. pedidos[r] # Livre /\ Some(r) /\ UNCHANGED notas
    BY <1>13 DEF Avisar, Sumir, Responder, Livre
  <2>2. OutrosIguais(r) /\ pedidos'[r] = Livre
    BY <2>1, EfeitoDeSumir
  <2>3. SoValeDe(r)'
    BY <1>5, <2>2
  <2>. QED  BY <1>6, <2>1, <2>2, <2>3
<1>14. ASSUME NEW r \in Reqs, Desistir(r) PROVE SoAindaVale'
  <2>1. UNCHANGED notas /\ pedidos[r] # Livre
    BY <1>14 DEF Desistir
  <2>2. SoValeDe(r)'
    BY <1>3, <1>5, <1>14, <2>1, EfeitoDeDesistir
  <2>. QED  BY <1>6, <1>14, <2>1, <2>2, EfeitoDeDesistir
<1>15. ASSUME SoTela PROVE SoAindaVale'
  BY <1>1, <1>4, <1>15, SoTelaFica
<1>16. ASSUME NEW r \in Reqs, Falhar(r) PROVE SoAindaVale'
  <2>1. SoValeDe(r)'
    BY <1>5, <1>16, EfeitoDeFalhar
  <2>. QED  BY <1>6, <1>16, <2>1, EfeitoDeFalhar
<1>17. ASSUME Reiniciar PROVE SoAindaVale'
  <2>1. ASSUME NEW q \in Reqs PROVE SoValeDe(q)'
    <3>1. pedidos'[q] = Livre \/ pedidos'[q].fase = "morta"
      BY <1>17, EfeitoDeReiniciar
    <3>. QED  BY <1>5, <3>1
  <2>. QED  BY <1>1, <2>1
<1>. QED
  BY <1>8, <1>9, <1>10, <1>11, <1>12, <1>13, <1>14, <1>15, <1>16, <1>17, Passos
     DEF Continuar

\* How the tab is to hear of n, or to take it away.
NaFila(n) == \E i \in DOMAIN fila : fila[i].tipo = "nova" /\ fila[i].nota = n
Ocupa(r, n) ==
    /\ pedidos[r] # Livre
    /\ \/ pedidos[r].fase = "avisar" /\ pedidos[r].nota = n
       \/ /\ pedidos[r].fase \in {"buscar", "salvar", "apagar", "morta"}
          /\ pedidos[r].tipo \in {"marcar", "excluir"} /\ pedidos[r].nota = n
          /\ pedidos[r].espera
       \/ /\ pedidos[r].fase \in {"atualizar", "morta"} /\ pedidos[r].tipo = "todas"
          /\ pedidos[r].espera
Coberta(n) ==
    \/ n \in tela.ids \/ n \in perdidas
    \/ NaFila(n)
    \/ \E r \in Reqs : Ocupa(r, n)

LEMMA CobertaEscapa ==
    NadaEscapa <=> (canal /\ ~ListaACaminho => \A n \in NaoLidas : Coberta(n))
<1>1. \A n \in NaoLidas : n \in Usadas
  BY DEF NaoLidas
<1>2. ASSUME NEW n \in Usadas
      PROVE  Coberta(n) <=> n \in tela.ids \cup perdidas \cup PorVir(fila) \/ Saindo(n)
  BY <1>2 DEF Coberta, Ocupa, NaFila, PorVir, Saindo
<1>. QED  BY <1>1, <1>2 DEF NadaEscapa

\* A job is to push n.
Anuncia(r, n) == pedidos[r] # Livre /\ pedidos[r].fase = "avisar" /\ pedidos[r].nota = n

\* A list that replaces what the tab shows lets it hear of the rest, or counts it lost.
LEMMA TrocarCobre ==
    ASSUME NEW t, NEW eventos, Trocar(t, eventos), NEW n \in NaoLidas
    PROVE  \/ n \in tela'.ids \/ n \in perdidas'
           \/ \E i \in DOMAIN eventos : eventos[i].tipo = "nova" /\ eventos[i].nota = n
           \/ \E r \in Reqs : Anuncia(r, n)
BY DEF Trocar, Faltam, PorVir, Anuncia

LEMMA OcupaFica ==
    ASSUME NEW r \in Reqs, NEW n, NEW q \in Reqs \ {r}, Ocupa(q, n),
           OutrosIguais(r) \/ OutrosCruzados(r)
    PROVE  Ocupa(q, n)'
BY DEF Ocupa, OutrosIguais, OutrosCruzados

\* After a step of r it is enough to look at r's own, and at what the tab shows.
LEMMA PassoCobre ==
    ASSUME NotasInv, NEW r \in Reqs,
           Chegar(r) \/ Continuar(r) \/ Responder(r) \/ Desistir(r),
           OutrosIguais(r) \/ OutrosCruzados(r),
           canal', ~ListaACaminho', NEW n \in NaoLidas,
           Ocupa(r, n) => Coberta(n)',
           n \in tela.ids \/ n \in perdidas => Coberta(n)'
    PROVE  Coberta(n)'
<1>1. /\ canal /\ leituras'["inicio"] = leituras["inicio"]
      /\ \A i \in DOMAIN fila : i \in DOMAIN fila' /\ fila'[i] = fila[i]
  <2>1. \A m \in Usadas : [tipo |-> "nova", nota |-> m] \in Evento
    BY LinhaTipo DEF Evento, NotasInv
  <2>2. fila \in Seq(Evento) /\ leituras \in [{"inicio", "sonda"} -> Leitura \cup {Livre}]
    BY DEF NotasInv, TypeOK
  <2>3. canal /\ leituras'["inicio"] = leituras["inicio"]
    BY <2>2, CanalNoPasso
  <2>4. ASSUME NEW m \in Usadas, fila' = Append(fila, [tipo |-> "nova", nota |-> m])
        PROVE  \A i \in DOMAIN fila : i \in DOMAIN fila' /\ fila'[i] = fila[i]
    BY <2>1, <2>2, <2>4, EventosAppend
  <2>5. \/ UNCHANGED fila
        \/ \E m \in Usadas : fila' = Append(fila, [tipo |-> "nova", nota |-> m])
    BY CanalNoPasso
  <2>. QED  BY <2>3, <2>4, <2>5
<1>2. ~ListaACaminho
  BY <1>1 DEF ListaACaminho
<1>3. Coberta(n)
  BY <1>1, <1>2, CobertaEscapa DEF NotasInv
<1>4. NaFila(n) => NaFila(n)'
  BY <1>1 DEF NaFila
<1>5. ASSUME NEW q \in Reqs \ {r}, Ocupa(q, n) PROVE Ocupa(q, n)'
  BY <1>5, OcupaFica
<1>6. CASE n \in tela.ids \/ n \in perdidas
  BY <1>6
<1>7. CASE NaFila(n)
  BY <1>4, <1>7 DEF Coberta
<1>8. CASE \E q \in Reqs : Ocupa(q, n)
  <2>1. PICK q \in Reqs : Ocupa(q, n)
    BY <1>8
  <2>2. CASE q = r
    BY <2>1, <2>2
  <2>3. CASE q # r
    BY <1>5, <2>1, <2>3 DEF Coberta
  <2>. QED  BY <2>2, <2>3
<1>. QED  BY <1>3, <1>6, <1>7, <1>8 DEF Coberta

LEMMA NadaEscapaStep ==
    ASSUME NotasInv, [Next]_vars
    PROVE  NadaEscapa'
<1>. USE DEF NotasInv
<1>1. SUFFICES ASSUME canal', ~ListaACaminho', NEW n \in NaoLidas' PROVE Coberta(n)'
  <2>1. (\A n \in NaoLidas' : canal' /\ ~ListaACaminho' => Coberta(n)') => NadaEscapa'
    BY DEF NadaEscapa, NaoLidas, Coberta, Ocupa, NaFila, PorVir, Saindo
  <2>. QED  BY <2>1
<1>2. /\ notas \in Seq(Linha) /\ Len(notas) \in Nat /\ Usadas = 1 .. Len(notas)
      /\ \A m \in Usadas : notas[m] \in Linha
      /\ n \in Usadas' /\ ~notas'[n].apagada /\ ~notas'[n].lida
  BY LinhaTipo DEF TypeOK, Linha, Usadas, NaoLidas, NaoLida, Viva
<1>3. ASSUME UNCHANGED notas PROVE n \in NaoLidas
  BY <1>3, NotasIguais
<1>4. ASSUME NEW r \in Reqs, n \in NaoLidas,
             Continuar(r) \/ Responder(r) \/ Desistir(r),
             Ocupa(r, n) => Coberta(n)',
             n \in tela.ids \/ n \in perdidas => Coberta(n)'
      PROVE  Coberta(n)'
  BY <1>1, <1>4, EfeitoDoPasso, PassoCobre
<1>5. ASSUME UNCHANGED << tela, perdidas >>, n \in tela.ids \/ n \in perdidas
      PROVE  Coberta(n)'
  BY <1>5 DEF Coberta
<1>6. ASSUME NEW r \in Reqs, Ocupa(r, n)' PROVE Coberta(n)'
  BY <1>6 DEF Coberta
<1>7. ASSUME NEW r \in Reqs, Chegar(r) PROVE Coberta(n)'
  <2>1. UNCHANGED notas /\ OutrosIguais(r) /\ pedidos[r] = Livre
    BY <1>7, EfeitoDeChegar
  <2>2. ~Ocupa(r, n)
    BY <2>1 DEF Ocupa
  <2>3. ASSUME n \in tela.ids \/ n \in perdidas PROVE Coberta(n)'
    <3>1. CASE UNCHANGED << tela, perdidas >>
      BY <1>5, <2>3, <3>1
    <3>2. CASE /\ pedidos'[r].tipo \in {"marcar", "excluir"} /\ pedidos'[r].fase = "buscar"
               /\ tela'.ids = tela.ids \ {pedidos'[r].nota} /\ UNCHANGED perdidas
      <4>1. CASE n = pedidos'[r].nota
        <5>1. Ocupa(r, n)'
          BY <1>7, <3>2, <4>1, EfeitoDeChegar DEF Ocupa
        <5>. QED  BY <1>6, <5>1
      <4>2. CASE n # pedidos'[r].nota
        BY <2>3, <3>2, <4>2 DEF Coberta
      <4>. QED  BY <4>1, <4>2
    <3>3. CASE pedidos'[r].tipo = "todas" /\ pedidos'[r].fase = "atualizar"
      <4>1. Ocupa(r, n)'
        BY <1>7, <3>3, EfeitoDeChegar DEF Ocupa
      <4>. QED  BY <1>6, <4>1
    <3>. QED  BY <1>7, <3>1, <3>2, <3>3, EfeitoDeChegar
  <2>. QED  BY <1>1, <1>3, <1>7, <2>1, <2>2, <2>3, PassoCobre
<1>8. ASSUME NEW r \in Reqs, \/ Procurar(r) \/ Sumir(r) \/ Responder(r)
      PROVE  Coberta(n)'
  <2>1. /\ UNCHANGED << notas, tela, perdidas >>
        /\ \/ pedidos[r].fase \in {"procurar", "pronta"}
           \/ pedidos[r].fase = "morta" /\ ~pedidos[r].espera
    BY <1>8 DEF Procurar, Sumir, Responder, aba
  <2>2. ~Ocupa(r, n)
    BY <2>1 DEF Ocupa
  <2>. QED  BY <1>3, <1>4, <1>5, <1>8, <2>1, <2>2 DEF Continuar
<1>9. ASSUME NEW r \in Reqs, Inserir(r) PROVE Coberta(n)'
  <2>1. CASE n = Len(notas) + 1
    <3>1. Ocupa(r, n)'
      BY <1>9, <2>1, EfeitoDeInserir DEF Ocupa
    <3>. QED  BY <1>6, <3>1
  <2>2. CASE n # Len(notas) + 1
    <3>. DEFINE x == [chave |-> pedidos[r].chave, lida |-> FALSE, apagada |-> FALSE]
    <3>1. notas' = Append(notas, x) /\ UNCHANGED << tela, perdidas >>
      BY <1>9 DEF Inserir, aba
    <3>2. x \in Linha
      BY <1>9, EfeitoDeInserir DEF Linha, PedidoPorFase, MesmoPedido
    <3>. HIDE DEF x
    <3>3. Len(notas') = Len(notas) + 1 /\ \A m \in 1 .. Len(notas) : notas'[m] = notas[m]
      BY <1>2, <3>1, <3>2
    <3>4. n \in 1 .. Len(notas) /\ notas'[n] = notas[n]
      BY <1>2, <2>2, <3>3 DEF Usadas
    <3>5. n \in NaoLidas
      BY <1>2, <3>4 DEF NaoLidas, NaoLida, Viva
    <3>6. ~Ocupa(r, n)
      BY <1>9, EfeitoDeInserir DEF Ocupa
    <3>. QED  BY <1>4, <1>5, <1>9, <3>1, <3>5, <3>6 DEF Continuar
  <2>. QED  BY <2>1, <2>2
<1>10. ASSUME NEW r \in Reqs, Buscar(r) PROVE Coberta(n)'
  <2>1. UNCHANGED << notas, tela, perdidas >>
    BY <1>10 DEF Buscar, aba
  <2>2. ASSUME Ocupa(r, n) PROVE Coberta(n)'
    <3>1. /\ pedidos[r].fase = "buscar" /\ pedidos[r].nota = n
          /\ pedidos[r].tipo \in {"marcar", "excluir"} /\ Viva(n) /\ pedidos[r].espera
      BY <1>3, <1>10, <2>1, <2>2, EfeitoDeBuscar DEF Ocupa, NaoLidas, NaoLida
    <3>2. Ocupa(r, n)'
      BY <1>10, <3>1, EfeitoDeBuscar DEF Ocupa, MesmoPedido
    <3>. QED  BY <1>6, <3>2
  <2>. QED  BY <1>3, <1>4, <1>5, <1>10, <2>1, <2>2 DEF Continuar
<1>11. ASSUME NEW r \in Reqs, Salvar(r) \/ Apagar(r) PROVE Coberta(n)'
  <2>. DEFINE m == pedidos[r].nota
  <2>1. /\ pedidos[r] # Livre /\ pedidos[r].fase \in {"salvar", "apagar"} /\ m \in Usadas
        /\ UNCHANGED << tela, perdidas >>
    BY <1>11 DEF Salvar, Apagar, Livre, PedidoPorFase, aba
  <2>2. CASE n = m
    <3>1. CASE Apagar(r)
      <4>. DEFINE x == [notas[m] EXCEPT !.apagada = TRUE]
      <4>1. notas' = [notas EXCEPT ![m] = x]
        BY <3>1 DEF Apagar
      <4>2. x.apagada = TRUE
        BY <1>2, <2>1 DEF Linha
      <4>. HIDE DEF x
      <4>3. notas'[m].apagada
        BY <1>2, <2>1, <4>1, <4>2
      <4>. QED  BY <1>2, <2>2, <4>3
    <3>2. CASE Salvar(r) /\ pedidos[r].tipo = "marcar"
      <4>. DEFINE x == [notas[m] EXCEPT !.lida = pedidos[r].tipo = "marcar",
                                        !.apagada = FALSE]
      <4>1. notas' = [notas EXCEPT ![m] = x]
        BY <3>2 DEF Salvar
      <4>2. x.lida = TRUE
        BY <1>2, <2>1, <3>2 DEF Linha
      <4>. HIDE DEF x
      <4>3. notas'[m].lida
        BY <1>2, <2>1, <4>1, <4>2
      <4>. QED  BY <1>2, <2>2, <4>3
    <3>3. CASE Salvar(r) /\ pedidos[r].tipo # "marcar"
      <4>1. Escreve(r, "avisar")
        BY <3>3 DEF Salvar
      <4>2. Ocupa(r, n)'
        BY <2>1, <2>2, <4>1, EfeitoDeEscrever DEF Ocupa
      <4>. QED  BY <1>6, <4>2
    <3>. QED  BY <1>11, <3>1, <3>2, <3>3
  <2>3. CASE n # m
    <3>1. \E x : notas' = [notas EXCEPT ![m] = x]
      BY <1>11 DEF Salvar, Apagar
    <3>2. n \in Usadas /\ notas'[n] = notas[n]
      <4>1. Usadas' = Usadas
        BY <1>2, <3>1 DEF Usadas
      <4>. QED  BY <1>2, <2>3, <3>1, <4>1
    <3>3. n \in NaoLidas
      BY <1>2, <3>2 DEF NaoLidas, NaoLida, Viva
    <3>4. ~Ocupa(r, n)
      BY <2>1, <2>3 DEF Ocupa
    <3>. QED  BY <1>4, <1>5, <1>11, <2>1, <3>3, <3>4 DEF Continuar
  <2>. QED  BY <2>2, <2>3
<1>12. ASSUME NEW r \in Reqs, Atualizar(r) PROVE Coberta(n)'
  <2>1. pedidos[r].fase = "atualizar" /\ UNCHANGED << tela, perdidas >>
    BY <1>12 DEF Atualizar, aba
  <2>2. ASSUME notas' = [m \in Usadas |-> [notas[m] EXCEPT !.lida = TRUE]] PROVE FALSE
    <3>1. n \in Usadas
      BY <1>2, <2>2 DEF Usadas
    <3>2. notas'[n].lida
      BY <1>2, <2>2, <3>1 DEF Linha
    <3>. QED  BY <1>2, <3>2
  <2>3. ASSUME NEW s,
               notas' = [m \in Usadas |-> [notas[m] EXCEPT !.apagada = @ \/ m \in s]]
        PROVE  n \in NaoLidas
    <3>1. n \in Usadas
      BY <1>2, <2>3 DEF Usadas
    <3>. DEFINE b == notas[n].apagada \/ n \in s
    <3>2. b \in BOOLEAN /\ notas'[n] = [notas[n] EXCEPT !.apagada = b]
      BY <2>3, <3>1
    <3>3. notas'[n].lida = notas[n].lida /\ notas'[n].apagada = b
      <4>. HIDE DEF b
      <4>. QED  BY <1>2, <3>1, <3>2 DEF Linha
    <3>. QED  BY <1>2, <3>1, <3>3 DEF NaoLidas, NaoLida, Viva
  <2>4. pedidos[r].tipo = "limpar" /\ n \in NaoLidas
    BY <1>12, <2>2, <2>3 DEF Atualizar
  <2>5. ~Ocupa(r, n)
    BY <2>1, <2>4 DEF Ocupa
  <2>. QED  BY <1>4, <1>5, <1>12, <2>1, <2>4, <2>5 DEF Continuar
<1>13. ASSUME NEW r \in Reqs, Avisar(r) PROVE Coberta(n)'
  <2>1. pedidos[r].fase = "avisar" /\ UNCHANGED << notas, canal, tela, perdidas >>
    BY <1>13 DEF Avisar
  <2>2. ASSUME Ocupa(r, n) PROVE Coberta(n)'
    <3>. DEFINE e == [tipo |-> "nova", nota |-> n]
    <3>1. pedidos[r].nota = n
      BY <2>1, <2>2 DEF Ocupa
    <3>2. fila' = Append(fila, e)
      BY <1>1, <1>13, <2>1, <3>1 DEF Avisar
    <3>3. e \in Evento /\ e.tipo = "nova" /\ e.nota = n
      BY <1>3, <2>1, LinhaTipo DEF Evento, NaoLidas
    <3>4. fila \in Seq(Evento)
      BY DEF TypeOK
    <3>. HIDE DEF e
    <3>5. \E i \in DOMAIN fila' : fila'[i] = e
      BY <3>2, <3>3, <3>4, EventosAppend
    <3>6. NaFila(n)'
      BY <3>3, <3>5 DEF NaFila
    <3>. QED  BY <3>6 DEF Coberta
  <2>. QED  BY <1>3, <1>4, <1>5, <1>13, <2>1, <2>2 DEF Continuar
<1>14. ASSUME NEW t, Trocar(t, fila), UNCHANGED << notas, fila >>,
              \A q \in Reqs : Anuncia(q, n) => Ocupa(q, n)'
       PROVE  Coberta(n)'
  <2>1. n \in NaoLidas
    BY <1>3, <1>14
  <2>2. NaFila(n) => NaFila(n)'
    BY <1>14 DEF NaFila
  <2>3. \/ n \in tela'.ids \/ n \in perdidas'
        \/ NaFila(n) \/ \E q \in Reqs : Anuncia(q, n)
    BY <1>14, <2>1, TrocarCobre DEF NaFila
  <2>. QED  BY <1>14, <2>2, <2>3 DEF Coberta
<1>15. ASSUME NEW r \in Reqs, Desistir(r) PROVE Coberta(n)'
  <2>1. UNCHANGED << notas, fila >> /\ n \in NaoLidas
    BY <1>3, <1>15 DEF Desistir
  <2>2. pedidos[r] # Livre /\ pedidos[r].espera /\ PedidoPorFase(pedidos[r])
    BY <1>15 DEF Desistir
  <2>3. \A q \in Reqs : Anuncia(q, n) => Ocupa(q, n)'
    <3>1. ~Anuncia(r, n)
      BY <2>2 DEF Anuncia, PedidoPorFase
    <3>2. \A q \in Reqs : Anuncia(q, n) => Ocupa(q, n)
      BY DEF Anuncia, Ocupa
    <3>. QED  BY <1>15, <3>1, <3>2, EfeitoDeDesistir, OcupaFica
  <2>4. CASE \E t : Trocar(t, fila)
    BY <1>14, <2>1, <2>3, <2>4
  <2>5. CASE /\ UNCHANGED tela /\ pedidos[r].tipo = "marcar"
             /\ perdidas' = perdidas \cup (Faltam(tela, fila) \cap {pedidos[r].nota})
    <3>1. ASSUME Ocupa(r, n) PROVE Coberta(n)'
      <4>1. n = pedidos[r].nota
        BY <2>2, <2>5, <3>1 DEF Ocupa
      <4>2. n \in tela.ids \/ n \in PorVir(fila) \/ n \in perdidas'
        BY <2>1, <2>5, <4>1 DEF Faltam
      <4>3. n \in PorVir(fila) => NaFila(n) \/ \E q \in Reqs : Anuncia(q, n)
        BY DEF PorVir, NaFila, Anuncia
      <4>4. NaFila(n) => NaFila(n)'
        BY <2>1 DEF NaFila
      <4>. QED  BY <2>3, <2>5, <4>2, <4>3, <4>4 DEF Coberta
    <3>2. n \in tela.ids \/ n \in perdidas => Coberta(n)'
      BY <2>5 DEF Coberta
    <3>. QED  BY <1>4, <1>15, <2>1, <3>1, <3>2
  <2>. QED  BY <1>15, <2>4, <2>5 DEF Desistir
<1>16. ASSUME SoTela
       PROVE  /\ UNCHANGED notas /\ n \in NaoLidas
              /\ \A q \in Reqs : Ocupa(q, n)' <=> Ocupa(q, n)
  BY <1>3, <1>16, SoTelaFica DEF Ocupa
<1>17. ASSUME SoTela, UNCHANGED << canal, fila, tela, perdidas >>,
              leituras'["inicio"] = Livre => leituras["inicio"] = Livre
       PROVE  Coberta(n)'
  <2>1. canal /\ ~ListaACaminho
    BY <1>1, <1>17 DEF ListaACaminho
  <2>2. Coberta(n)
    BY <1>16, <1>17, <2>1, CobertaEscapa
  <2>. QED  BY <1>16, <1>17, <2>2 DEF Coberta, NaFila
<1>18. ASSUME Enviar \/ Assinar \/ Cair PROVE FALSE
  <2>1. CASE Enviar
    <3>. DEFINE e == [tipo |-> "init", lista |-> leituras["inicio"].lista]
    <3>1. leituras["inicio"].lista \subseteq Notas
      BY <2>1, LeituraEmCurso DEF Enviar, Livre
    <3>2. e \in Evento /\ e.tipo = "init" /\ fila' = Append(fila, e) /\ fila \in Seq(Evento)
      BY <2>1, <3>1 DEF Evento, Enviar, TypeOK
    <3>. HIDE DEF e
    <3>3. \E i \in DOMAIN fila' : fila'[i] = e
      BY <3>2, EventosAppend
    <3>. QED  BY <1>1, <3>2, <3>3 DEF ListaACaminho
  <2>2. CASE Assinar
    <3>1. leituras'["inicio"] = Pedida
      BY <2>2 DEF Assinar, TypeOK
    <3>2. Pedida # Livre
      BY DEF Pedida, Livre
    <3>. QED  BY <1>1, <3>1, <3>2 DEF ListaACaminho
  <2>3. CASE Cair
    BY <1>1, <2>3 DEF Cair
  <2>. QED  BY <1>18, <2>1, <2>2, <2>3
<1>19. ASSUME NEW l \in {"inicio", "sonda"}, Consultar(l) PROVE Coberta(n)'
  <2>1. /\ leituras[l].fase = "pedida"
        /\ leituras \in [{"inicio", "sonda"} -> Leitura \cup {Livre}]
        /\ leituras' = [leituras EXCEPT ![l] = [fase |-> "lida", lista |-> NaoLidas]]
        /\ UNCHANGED << canal, fila, tela, perdidas >>
    BY <1>19 DEF Consultar, aba, TypeOK
  <2>2. [fase |-> "lida", lista |-> NaoLidas] # Livre
    BY DEF Livre
  <2>. QED  BY <1>17, <1>19, <2>1, <2>2 DEF SoTela
<1>20. ASSUME Sondar \/ FalharLista \/ UNCHANGED vars PROVE Coberta(n)'
  <2>1. UNCHANGED << canal, fila, tela, perdidas >>
    BY <1>20 DEF Sondar, FalharLista, vars, aba
  <2>2. leituras'["inicio"] = leituras["inicio"]
    BY <1>20 DEF Sondar, FalharLista, vars, TypeOK
  <2>. QED  BY <1>17, <1>20, <2>1, <2>2 DEF SoTela
<1>21. ASSUME ReceberLista PROVE Coberta(n)'
  <2>1. SoTela /\ UNCHANGED fila /\ Trocar(Mostra(leituras["sonda"].lista), fila)
    BY <1>21 DEF ReceberLista, SoTela
  <2>2. \A q \in Reqs : Anuncia(q, n) => Ocupa(q, n)'
    BY <1>16, <2>1 DEF Anuncia, Ocupa
  <2>. QED  BY <1>14, <1>16, <2>1, <2>2
<1>22. ASSUME Receber PROVE Coberta(n)'
  <2>1. /\ SoTela /\ fila # << >> /\ fila' = Tail(fila) /\ fila \in Seq(Evento)
        /\ UNCHANGED << canal, leituras >>
    BY <1>22 DEF Receber, SoTela, TypeOK
  <2>2. CASE Head(fila).tipo = "init"
    <3>1. Trocar(Mostra(Head(fila).lista), Tail(fila))
      BY <1>22, <2>2 DEF Receber
    <3>2. \A q \in Reqs : Anuncia(q, n) => Ocupa(q, n)'
      BY <1>16, <2>1 DEF Anuncia, Ocupa
    <3>. QED  BY <1>16, <2>1, <3>1, <3>2, TrocarCobre DEF Coberta, NaFila
  <2>3. CASE Head(fila).tipo # "init"
    <3>1. Acrescentar(Head(fila).nota)
      BY <1>22, <2>3 DEF Receber
    <3>2. \A m : m \in tela.ids \/ m \in perdidas \/ m = Head(fila).nota
                   => m \in tela'.ids \/ m \in perdidas'
      BY <3>1, CargaTipo DEF Acrescentar
    <3>3. \A i \in DOMAIN fila : \/ fila[i] = Head(fila)
                                 \/ \E j \in DOMAIN fila' : fila'[j] = fila[i]
      BY <2>1, EventosTail
    <3>4. canal /\ ~ListaACaminho
      BY <1>1, <2>1, <2>3, <3>3 DEF ListaACaminho
    <3>5. Coberta(n)
      BY <1>16, <2>1, <3>4, CobertaEscapa
    <3>6. NaFila(n) => NaFila(n)' \/ n = Head(fila).nota
      BY <3>3 DEF NaFila
    <3>. QED  BY <1>16, <2>1, <3>2, <3>5, <3>6 DEF Coberta
  <2>. QED  BY <2>2, <2>3
<1>23. ASSUME Reiniciar PROVE FALSE
  BY <1>1, <1>23 DEF Reiniciar
<1>24. CASE SoTela
  BY <1>18, <1>19, <1>20, <1>21, <1>22, <1>24 DEF SoTela
<1>25. ASSUME NEW r \in Reqs, Falhar(r) PROVE Coberta(n)'
  <2>1. UNCHANGED << notas, tela >> /\ perdidas \subseteq perdidas'
    BY <1>25 DEF Falhar
  <2>2. ASSUME Ocupa(r, n) PROVE Coberta(n)'
    <3>1. CASE pedidos[r].espera
      <4>1. Ocupa(r, n)'
        BY <1>25, <2>2, <3>1, EfeitoDeFalhar DEF Ocupa, MesmoPedido, PedidoPorFase, Falhar
      <4>. QED  BY <1>6, <4>1
    <3>2. CASE ~pedidos[r].espera
      <4>1. pedidos[r].fase = "avisar" /\ pedidos[r].nota = n
        BY <2>2, <3>2 DEF Ocupa
      <4>2. n \in tela.ids \/ n \in perdidas'
        BY <1>25, <4>1 DEF Falhar
      <4>. QED  BY <2>1, <4>2 DEF Coberta
    <3>. QED  BY <3>1, <3>2
  <2>3. n \in tela.ids \/ n \in perdidas => Coberta(n)'
    BY <2>1 DEF Coberta
  <2>. QED  BY <1>3, <1>4, <1>25, <2>1, <2>2, <2>3 DEF Continuar
<1>26. ASSUME NEW r \in Reqs, Continuar(r) PROVE Coberta(n)'
  BY <1>8, <1>9, <1>10, <1>11, <1>12, <1>13, <1>25, <1>26 DEF Continuar
<1>. QED  BY <1>7, <1>8, <1>15, <1>23, <1>24, <1>26, Passos

LEMMA NotasInvStep == NotasInv /\ [Next]_vars => NotasInv'
<1>. SUFFICES ASSUME NotasInv, [Next]_vars PROVE NotasInv'
  OBVIOUS
<1>1. /\ notas' \in Seq([chave: Chaves, lida: BOOLEAN, apagada: BOOLEAN])
      /\ Len(notas') <= MaxNotas
  BY NotasStep DEF Linha
<1>2. fila' # << >> => canal'
  BY CanalStep DEF SemCanalNadaVem
<1>3. TypeOK'
  BY <1>1, <1>2, PedidosStep, CanalStep, TotaisStep DEF TypeOK
<1>4. \A r \in Reqs : pedidos'[r] # Livre => PedidoPorFase(pedidos[r])'
  BY PedidosStep
<1>5. SemCanalNadaVem' /\ EventosDeNotas' /\ TotaisCabem'
  BY CanalStep, TotaisStep
<1>6. NadaEscapa' /\ SoAindaVale'
  BY NadaEscapaStep, SoAindaValeStep
<1>. QED  BY <1>3, <1>4, <1>5, <1>6 DEF NotasInv

-----------------------------------------------------------------------------
(* What the notifications promise. *)

\* The invariant of the notifications: what is in progress is what its phase says, the
\* badge fits, and no unread notification escapes a tab with a stream that awaits no list:
\* it is shown, to come, being taken away, or lost to a whole list or to a failure.
THEOREM NotasSempreCoerentes == Spec => []NotasInv
<1>. QED  BY NotasInvInit, NotasInvStep, PTL DEF Spec

\* A tab with its stream open and nothing under way shows every unread notification but
\* those that a whole list took off, or the tab's own call that failed, and those whose
\* push failed.
THEOREM NadaFaltaNaTela == Spec => []NadaFaltaNaTelaQuieta
<1>1. NotasInv => NadaFaltaNaTelaQuieta
  <2>. SUFFICES ASSUME NotasInv, canal, fila = << >>,
                       \A r \in Reqs : pedidos[r] = Livre,
                       \A l \in DOMAIN leituras : leituras[l] = Livre
                PROVE  NaoLidas \subseteq tela.ids \cup perdidas
    BY DEF NadaFaltaNaTelaQuieta
  <2>1. "inicio" \in DOMAIN leituras
    BY DEF NotasInv, TypeOK
  <2>2. ~ListaACaminho
    BY <2>1 DEF ListaACaminho
  <2>3. \A n \in NaoLidas : Coberta(n)
    BY <2>2, CobertaEscapa DEF NotasInv
  <2>. QED  BY <2>3 DEF Coberta, NaFila, Ocupa
<1>. QED  BY <1>1, NotasSempreCoerentes, PTL

\* The variables of either part of the composition have their types.
THEOREM TiposDasListas == SpecListas => []TiposOK
<1>. DEFINE Inv == NotasInv /\ ListaInv
<1>1. InitListas => Inv
  BY NotasInvInit, ListaInvInit DEF InitListas
<1>2. Inv /\ [NextListas]_varsListas => Inv'
  <2>. SUFFICES ASSUME NotasInv, ListaInv, [NextListas]_varsListas
                PROVE  NotasInv' /\ ListaInv'
    OBVIOUS
  <2>1. ([Next]_vars \/ UNCHANGED vars) /\ ([NextLista]_varsLista \/ UNCHANGED varsLista)
    BY DEF NextListas, varsListas
  <2>2. [Next]_vars /\ [NextLista]_varsLista
    BY <2>1
  <2>. QED  BY <2>2, NotasInvStep, ListaInvStep
<1>3. Inv => TiposOK
  BY DEF NotasInv, ListaInv, TiposOK
<1>. QED  BY <1>1, <1>2, <1>3, PTL DEF SpecListas

\* The step property behind ContagemSoErraPorMarcaOuVolta, once the badge says what is
\* listed.
ErroDeContagem ==
    \E r \in Reqs :
       \/ /\ pedidos[r] = Livre /\ pedidos'[r] # Livre
          /\ pedidos'[r].tipo = "marcar" /\ pedidos'[r].nota \notin tela.ids
       \/ /\ pedidos[r] # Livre /\ pedidos[r].espera /\ pedidos'[r] # pedidos[r]
          /\ \/ pedidos[r].tipo = "excluir"
             \/ pedidos[r].antes.total # Cardinality(pedidos[r].antes.ids)

LEMMA ContagemStep ==
    ASSUME NotasInv, [Next]_vars, tela.total = Cardinality(tela.ids),
           tela'.total # Cardinality(tela'.ids)
    PROVE  ErroDeContagem
<1>1. /\ tela.ids \subseteq Notas /\ tela.total \in Nat
      /\ IsFiniteSet(tela.ids) /\ fila \in Seq(Evento)
  BY CargaTipo, MostraTipo DEF NotasInv, TypeOK
<1>2. ASSUME NEW s, tela' = Mostra(s) PROVE FALSE
  BY <1>2 DEF Mostra
<1>3. ASSUME UNCHANGED tela PROVE FALSE
  BY <1>3
<1>4. ASSUME NEW n \in tela.ids,
             tela' = [ids |-> tela.ids \ {n}, total |-> Menos1(tela.total)]
      PROVE  FALSE
  <2>1. /\ Cardinality(tela.ids \ {n}) = Cardinality(tela.ids) - 1
        /\ Cardinality(tela.ids \ {n}) \in Nat
    BY <1>1, FS_RemoveElement, FS_CardinalityType
  <2>2. Menos1(tela.total) = tela.total - 1
    BY <1>1, <2>1 DEF Menos1
  <2>. QED  BY <1>4, <2>1, <2>2
<1>5. ASSUME NEW n, n \notin tela.ids,
             tela' = [ids |-> tela.ids \ {n}, total |-> tela.total]
      PROVE  FALSE
  <2>1. tela.ids \ {n} = tela.ids
    BY <1>5
  <2>. QED  BY <1>5, <2>1
<1>6. ASSUME NEW n, Acrescentar(n) PROVE FALSE
  <2>1. CASE n \in tela.ids
    BY <1>3, <1>6, <2>1 DEF Acrescentar
  <2>2. CASE n \notin tela.ids
    <3>1. Cardinality(tela.ids \cup {n}) = Cardinality(tela.ids) + 1
      BY <1>1, <2>2, FS_AddElement
    <3>. QED  BY <1>6, <2>2, <3>1 DEF Acrescentar
  <2>. QED  BY <2>1, <2>2
<1>7. ASSUME NEW r \in Reqs, Chegar(r) PROVE ErroDeContagem
  <2>1. CASE PedirLimpeza(r) \/ \E k \in Chaves : PedirCriacao(r, k)
    BY <1>3, <2>1 DEF PedirLimpeza, PedirCriacao
  <2>2. CASE PedirTodas(r)
    BY <1>2, <2>2 DEF PedirTodas
  <2>3. ASSUME NEW n \in Notas, PedirExcluir(r, n) PROVE FALSE
    <3>1. CASE n \in tela.ids
      BY <1>4, <2>3, <3>1 DEF PedirExcluir
    <3>2. CASE n \notin tela.ids
      BY <1>5, <2>3, <3>2 DEF PedirExcluir
    <3>. QED  BY <3>1, <3>2
  <2>4. ASSUME NEW n \in Notas, PedirMarcar(r, n) PROVE ErroDeContagem
    <3>1. n \notin tela.ids
      BY <1>4, <2>4 DEF PedirMarcar
    <3>2. Iniciar(r, "marcar", "buscar", Ausente, n, TRUE)
      BY <2>4 DEF PedirMarcar
    <3>3. /\ pedidos[r] = Livre /\ pedidos'[r] # Livre
          /\ pedidos'[r].tipo = "marcar"
      BY <3>2, EfeitoDeIniciar DEF NotasInv
    <3>4. pedidos'[r].nota = n
      BY <3>2 DEF Iniciar, NotasInv, TypeOK
    <3>. QED  BY <3>1, <3>3, <3>4 DEF ErroDeContagem
  <2>. QED  BY <1>7, <2>1, <2>2, <2>3, <2>4 DEF Chegar
<1>8. ASSUME NEW r \in Reqs, Continuar(r) \/ Responder(r) PROVE FALSE
  BY <1>3, <1>8 DEF Continuar, Procurar, Inserir, Buscar, Salvar, Apagar, Atualizar, Avisar,
                    Falhar, Sumir, Responder, aba
<1>9. ASSUME NEW r \in Reqs, Desistir(r) PROVE ErroDeContagem
  <2>1. pedidos[r] # Livre /\ pedidos[r].espera /\ pedidos'[r] # pedidos[r]
    BY <1>9, EfeitoDeDesistir DEF NotasInv, MesmoPedido
  <2>2. \/ tela' = tela \/ pedidos[r].tipo = "excluir" \/ tela' = pedidos[r].antes
    BY <1>9 DEF Desistir, Trocar
  <2>. QED  BY <1>3, <2>1, <2>2 DEF ErroDeContagem
<1>10. ASSUME SoTela PROVE FALSE
  <2>1. CASE Receber
    BY <1>2, <1>6, <2>1 DEF Receber, Trocar
  <2>2. CASE ReceberLista
    BY <1>2, <2>2 DEF ReceberLista, Trocar
  <2>3. CASE ~Receber /\ ~ReceberLista
    BY <1>3, <1>10, <2>3
       DEF SoTela, Consultar, Enviar, Assinar, Cair, Sondar, FalharLista, vars, aba
  <2>. QED  BY <2>1, <2>2, <2>3
<1>11. ASSUME Reiniciar PROVE FALSE
  BY <1>3, <1>11 DEF Reiniciar
<1>. QED  BY <1>7, <1>8, <1>9, <1>10, <1>11, Passos

\* The badge departs from what is listed only by a mark of one that is not, or by a change
\* undone.
THEOREM ContagemSoErraPorMarca == Spec => ContagemSoErraPorMarcaOuVolta
<1>1. NotasInv /\ [Next]_vars =>
         [tela.total = Cardinality(tela.ids) /\ tela'.total # Cardinality(tela'.ids)
             => ErroDeContagem]_vars
  BY ContagemStep
<1>. QED
  BY <1>1, NotasSempreCoerentes, PTL
     DEF Spec, ContagemSoErraPorMarcaOuVolta, ErroDeContagem

\* A second row about a matter comes of a job that inserts or saves after others have
\* written.
EscritaCruzada ==
    \E r \in Reqs :
       /\ pedidos[r] # Livre /\ ~pedidos[r].so /\ pedidos'[r] # pedidos[r]
       /\ pedidos[r].fase \in {"inserir", "salvar"}

LEMMA SegundaStep ==
    ASSUME NotasInv, [Next]_vars, NEW k \in Recorrentes,
           Cardinality(Existentes(k)) = 1, Cardinality(Existentes(k)') = 2
    PROVE  EscritaCruzada
<1>. USE DEF NotasInv
<1>1. /\ notas \in Seq(Linha) /\ Len(notas) \in Nat /\ Usadas = 1 .. Len(notas)
      /\ \A n \in Usadas : notas[n] \in Linha
  BY LinhaTipo DEF TypeOK, Linha, Usadas
<1>2. IsFiniteSet(Existentes(k))
  <2>1. Existentes(k) \in SUBSET Notas
    BY LinhaTipo DEF Existentes
  <2>. QED  BY <2>1, MostraTipo
<1>3. ASSUME Existentes(k)' \subseteq Existentes(k) PROVE FALSE
  BY <1>2, <1>3, FS_Subset
<1>4. ASSUME UNCHANGED notas PROVE FALSE
  BY <1>3, <1>4, NotasIguais
<1>5. ASSUME NEW r \in Reqs, Apagar(r) \/ Atualizar(r) PROVE FALSE
  <2>1. \A n \in Usadas' : /\ n \in Usadas /\ notas'[n].chave = notas[n].chave
                           /\ ~notas'[n].apagada => ~notas[n].apagada
    <3>1. CASE Apagar(r)
      <4>. DEFINE m == pedidos[r].nota
                  x == [notas[m] EXCEPT !.apagada = TRUE]
      <4>1. m \in Usadas
        BY <3>1 DEF Apagar, Livre, PedidoPorFase
      <4>2. notas' = [notas EXCEPT ![m] = x]
        BY <3>1 DEF Apagar
      <4>3. x.apagada = TRUE
        BY <1>1, <4>1 DEF Linha
      <4>. HIDE DEF x
      <4>4. Usadas' = Usadas
        BY <1>1, <4>2 DEF Usadas
      <4>5. \A n \in Usadas : notas'[n] = IF n = m THEN x ELSE notas[n]
        BY <1>1, <4>1, <4>2
      <4>6. \A n \in Usadas : notas'[n].chave = notas[n].chave
        BY NotasStep
      <4>. QED  BY <4>3, <4>4, <4>5, <4>6
    <3>2. CASE notas' = [n \in Usadas |-> [notas[n] EXCEPT !.lida = TRUE]]
      <4>1. Usadas' = Usadas
        BY <1>1, <3>2 DEF Usadas
      <4>. QED  BY <1>1, <3>2, <4>1 DEF Linha
    <3>3. ASSUME NEW s,
                 notas' = [n \in Usadas |-> [notas[n] EXCEPT !.apagada = @ \/ n \in s]],
                 NEW n \in Usadas'
          PROVE  /\ n \in Usadas /\ notas'[n].chave = notas[n].chave
                 /\ ~notas'[n].apagada => ~notas[n].apagada
      <4>1. n \in Usadas
        BY <1>1, <3>3 DEF Usadas
      <4>. DEFINE b == notas[n].apagada \/ n \in s
      <4>2. b \in BOOLEAN /\ notas'[n] = [notas[n] EXCEPT !.apagada = b]
        BY <3>3, <4>1
      <4>3. notas'[n].apagada = b
        <5>. HIDE DEF b
        <5>. QED  BY <1>1, <4>1, <4>2 DEF Linha
      <4>. QED  BY <4>1, <4>3, NotasStep
    <3>. QED  BY <1>5, <3>1, <3>2, <3>3 DEF Atualizar
  <2>2. Existentes(k)' \subseteq Existentes(k)
    BY <2>1 DEF Existentes, Viva
  <2>. QED  BY <1>3, <2>2
<1>6. ASSUME NEW r \in Reqs, Salvar(r), pedidos[r].so PROVE FALSE
  <2>. DEFINE m == pedidos[r].nota
              x == [notas[m] EXCEPT !.lida = pedidos[r].tipo = "marcar", !.apagada = FALSE]
  <2>1. m \in Usadas /\ Viva(m)
    BY <1>6 DEF Salvar, Livre, PedidoPorFase, SoAindaVale
  <2>2. notas' = [notas EXCEPT ![m] = x]
    BY <1>6 DEF Salvar
  <2>. HIDE DEF x
  <2>3. Usadas' = Usadas
    BY <1>1, <2>2 DEF Usadas
  <2>4. \A n \in Usadas : n # m => notas'[n] = notas[n]
    BY <1>1, <2>1, <2>2
  <2>5. \A n \in Usadas : notas'[n].chave = notas[n].chave
    BY NotasStep
  <2>6. Existentes(k)' \subseteq Existentes(k)
    BY <2>1, <2>3, <2>4, <2>5 DEF Existentes, Viva
  <2>. QED  BY <1>3, <2>6
<1>7. ASSUME NEW r \in Reqs, Inserir(r), pedidos[r].so PROVE FALSE
  <2>. DEFINE x == [chave |-> pedidos[r].chave, lida |-> FALSE, apagada |-> FALSE]
  <2>1. /\ pedidos[r] # Livre /\ pedidos[r].fase = "inserir"
    BY <1>7 DEF Inserir, Livre
  <2>2. pedidos[r].chave # k
    <3>1. Cardinality({}) = 0
      BY FS_EmptySet
    <3>2. pedidos[r].chave \in Recorrentes => Existentes(pedidos[r].chave) = {}
      BY <1>7, <2>1 DEF SoAindaVale
    <3>3. ASSUME pedidos[r].chave = k PROVE FALSE
      <4>1. Existentes(k) = {}
        BY <3>2, <3>3
      <4>. QED  BY <3>1, <4>1
    <3>. QED  BY <3>3
  <2>3. x \in Linha /\ x.chave # k /\ notas' = Append(notas, x)
    BY <1>7, <2>1, <2>2 DEF Inserir, PedidoPorFase, Linha
  <2>. HIDE DEF x
  <2>4. /\ Len(notas') = Len(notas) + 1 /\ \A n \in 1 .. Len(notas) : notas'[n] = notas[n]
        /\ notas'[Len(notas) + 1] = x
    BY <1>1, <2>3
  <2>5. \A n \in Usadas' : n \in Usadas \/ n = Len(notas) + 1
    BY <1>1, <2>4 DEF Usadas
  <2>6. Existentes(k)' \subseteq Existentes(k)
    BY <1>1, <2>3, <2>4, <2>5 DEF Existentes, Viva
  <2>. QED  BY <1>3, <2>6
<1>8. ASSUME NEW r \in Reqs, Inserir(r) \/ Salvar(r), ~pedidos[r].so PROVE EscritaCruzada
  <2>1. pedidos[r] # Livre /\ pedidos[r].fase \in {"inserir", "salvar"}
    BY <1>8 DEF Inserir, Salvar, Livre
  <2>2. pedidos'[r] # pedidos[r]
    <3>1. CASE Inserir(r)
      BY <3>1, EfeitoDeInserir
    <3>2. CASE Salvar(r)
      <4>1. pedidos[r].fase = "salvar" /\ (Escreve(r, "fim") \/ Escreve(r, "avisar"))
        BY <3>2 DEF Salvar
      <4>. QED  BY <2>1, <4>1, EfeitoDeEscrever
    <3>. QED  BY <1>8, <3>1, <3>2
  <2>. QED  BY <1>8, <2>1, <2>2 DEF EscritaCruzada
<1>9. ASSUME NEW r \in Reqs, Continuar(r) PROVE EscritaCruzada
  <2>1. CASE Procurar(r) \/ Buscar(r) \/ Avisar(r) \/ Falhar(r) \/ Sumir(r)
    BY <1>4, <2>1 DEF Procurar, Buscar, Avisar, Falhar, Sumir
  <2>. QED  BY <1>5, <1>6, <1>7, <1>8, <1>9, <2>1 DEF Continuar
<1>10. ASSUME NEW r \in Reqs, Chegar(r) \/ Responder(r) \/ Desistir(r) PROVE FALSE
  BY <1>4, <1>10, EfeitoDeChegar DEF Responder, Desistir
<1>11. ASSUME SoTela \/ Reiniciar PROVE FALSE
  BY <1>4, <1>11, SoTelaFica DEF Reiniciar
<1>. QED  BY <1>9, <1>10, <1>11, Passos

\* There come to be two rows about a recurrent matter only by a job or call that others'
\* writes crossed.
THEOREM SegundaSoDeCruzamento == Spec => SegundaSoPorCruzamento
<1>1. NotasInv /\ [Next]_vars =>
         [\A k \in Recorrentes :
             Cardinality(Existentes(k)) = 1 /\ Cardinality(Existentes(k)') = 2
             => EscritaCruzada]_vars
  BY SegundaStep
<1>. QED
  BY <1>1, NotasSempreCoerentes, PTL DEF Spec, SegundaSoPorCruzamento, EscritaCruzada
=============================================================================
