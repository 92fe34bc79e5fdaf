-------------------------- MODULE AuditChain_proofs --------------------------
(***************************************************************************)
(* Proofs about AuditChain for any number of writers, audits and ids: the  *)
(* types, that the chain never dangles, and that only different writers    *)
(* fork it.                                                                *)
(***************************************************************************)
EXTENDS AuditChain, TLAPS

\* What the audit in progress of writer w is, given its phase.
LEMMA EscritaPorFase ==
    ASSUME TypeOK, NEW w \in Escritores
    PROVE  /\ escritas[w].fase = "preparada" => escritas[w] \in Preparada
           /\ escritas[w].fase = "inserida" => escritas[w] \in Inserida
           /\ escritas[w].fase = "livre" <=> escritas[w] = Livre
BY DEF TypeOK, Livre, Preparada, Inserida

\* A saved content is one that find can return.
LEMMA CarregadoTipo ==
    ASSUME NEW c \in Conteudo
    PROVE  Carregado(c) \in ConteudoSalvo
BY SentinelasAssumption DEF Carregado, Conteudo, ConteudoSalvo

\* The audits that are tried are contents to hash.
LEMMA EventoTipo == ASSUME NEW e \in Eventos PROVE e \in Conteudo
BY EventosAssumption DEF Auditavel, Conteudo

\* The hash a new row is linked to is a hash.
LEMMA HashDaUltimaTipo ==
    ASSUME TypeOK, NEW i \in 0 .. MaxIds
    PROVE  HashDaUltima(i) \in Hash
<1>1. CASE i = 0
  BY <1>1 DEF HashDaUltima, Genesis, Hash
<1>2. CASE i # 0 /\ Encadeada(i)
  <2>1. i \in Ids
    BY <1>2, LimitesAssumption DEF Ids
  <2>2. auditorias[i] \in Linha
    BY <1>2, <2>1 DEF TypeOK, Encadeada
  <2>. QED  BY <1>2, <2>2 DEF Linha, HashDaUltima, Encadeada
<1>3. CASE i # 0 /\ ~Encadeada(i)
  BY <1>3 DEF HashDaUltima, Genesis, Hash
<1>. QED  BY <1>1, <1>2, <1>3

LEMMA TypeInit == Init => TypeOK
<1>. SUFFICES ASSUME Init PROVE TypeOK
  OBVIOUS
<1>. USE LimitesAssumption DEF Init
<1>1. seq \in 0 .. MaxIds
  OBVIOUS
<1>2. auditorias \in [Ids -> Linha \cup {Ausente}]
  <2>1. PICK antigas \in [1 .. seq -> Eventos] :
           auditorias = [i \in Ids |-> IF i <= seq THEN Legada(antigas[i]) ELSE Ausente]
    OBVIOUS
  <2>2. ASSUME NEW i \in Ids, i <= seq PROVE Legada(antigas[i]) \in Linha
    <3>1. antigas[i] \in Eventos
      BY <2>2, <1>1 DEF Ids
    <3>2. Carregado(antigas[i]) \in ConteudoSalvo
      BY <3>1, CarregadoTipo, EventoTipo
    <3>. QED  BY <3>2 DEF Legada, Linha
  <2>. QED  BY <2>1, <2>2
<1>3. escritas \in [Escritores -> {Livre} \cup Preparada \cup Inserida]
  OBVIOUS
<1>. QED  BY <1>1, <1>2, <1>3 DEF TypeOK

LEMMA TypeStep == TypeOK /\ [Next]_vars => TypeOK'
<1>. SUFFICES ASSUME TypeOK, [Next]_vars PROVE TypeOK'
  OBVIOUS
<1>. USE LimitesAssumption
<1>1. ASSUME NEW w \in Escritores, NEW e \in Eventos, Preparar(w, e) PROVE TypeOK'
  <2>1. PICK i \in 0 .. MaxIds :
           Escrever(w, [ fase |-> "preparada",
                linha |-> [ previousHash |-> HashDaUltima(i),
                            hash |-> ComputeHash(HashDaUltima(i), e),
                            conteudo |-> Carregado(e),
                            autor |-> w, pai |-> i ] ])
    BY <1>1 DEF Preparar
  <2>2. e \in Conteudo /\ Carregado(e) \in ConteudoSalvo
    BY EventoTipo, CarregadoTipo
  <2>3. HashDaUltima(i) \in Hash
    BY HashDaUltimaTipo
  <2>4. ComputeHash(HashDaUltima(i), e) \in Hash
    BY <2>2, <2>3 DEF ComputeHash, Hash
  <2>5. [ previousHash |-> HashDaUltima(i), hash |-> ComputeHash(HashDaUltima(i), e),
          conteudo |-> Carregado(e), autor |-> w, pai |-> i ] \in Linha
    BY <2>2, <2>3, <2>4 DEF Linha
  <2>. QED  BY <1>1, <2>1, <2>5 DEF Preparar, Escrever, TypeOK, Preparada
<1>2. ASSUME NEW w \in Escritores, Inserir(w) PROVE TypeOK'
  <2>1. escritas[w].linha \in Linha
    BY <1>2, EscritaPorFase DEF Inserir, Preparada
  <2>. QED  BY <1>2, <2>1 DEF Inserir, Escrever, TypeOK, Inserida, Ids
<1>3. ASSUME NEW w \in Escritores, Confirmar(w) PROVE TypeOK'
  <2>1. escritas[w].linha \in Linha /\ escritas[w].id \in Ids
    BY <1>3, EscritaPorFase DEF Confirmar, Inserida
  <2>. QED  BY <1>3, <2>1 DEF Confirmar, Escrever, TypeOK
<1>4. ASSUME NEW w \in Escritores, Falhar(w) PROVE TypeOK'
  BY <1>4 DEF Falhar, Escrever, TypeOK
<1>5. CASE UNCHANGED vars
  BY <1>5 DEF vars, TypeOK
<1>. QED  BY <1>1, <1>2, <1>3, <1>4, <1>5 DEF Next

\* Type correctness of the audit trail.
THEOREM TypeCorrect == Spec => []TypeOK
<1>. QED  BY TypeInit, TypeStep, PTL DEF Spec

-----------------------------------------------------------------------------
(* The link a row or an audit in progress carries. *)

\* The link of row l is the hash of the row its pai names, or the genesis.
Ligada(l) ==
    \/ l.previousHash = Genesis
    \/ l.pai \in Ids /\ Encadeada(l.pai) /\ auditorias[l.pai].hash = l.previousHash

\* The pai of what a writer holds is a row that had been issued by then, its id is
\* its own, and none of the rows it has written hangs from that pai: when it read
\* the last row, its own rows were not after it.
EscritaLigada(w) ==
    LET p == escritas[w]
    IN  p.fase # "livre" =>
           /\ Ligada(p.linha) /\ p.linha.autor = w
           /\ p.linha.pai <= seq
           /\ \A k \in Ids : Encadeada(k) /\ auditorias[k].autor = w
                                => auditorias[k].pai # p.linha.pai
           /\ p.fase = "inserida" => /\ p.linha.pai < p.id /\ p.id <= seq
                                     /\ auditorias[p.id] = Ausente
                                     /\ \A v \in Escritores \ {w} :
                                           escritas[v].fase = "inserida"
                                              => escritas[v].id # p.id

LinhaLigada(i) ==
    Encadeada(i) => /\ Ligada(auditorias[i])
                    /\ auditorias[i].pai < i

SemFuturo == \A i \in Ids : auditorias[i] # Ausente => i <= seq

IInv ==
    /\ TypeOK
    /\ SemFuturo
    /\ \A i \in Ids : LinhaLigada(i)
    /\ \A w \in Escritores : EscritaLigada(w)
    /\ IrmaosDeAutoresDistintos

-----------------------------------------------------------------------------
(* IInv is inductive. *)

LEMMA IInvInit == Init => IInv
<1>. SUFFICES ASSUME Init PROVE IInv
  OBVIOUS
<1>1. TypeOK
  BY TypeInit
<1>2. ASSUME NEW i \in Ids PROVE ~Encadeada(i)
  BY <1>2 DEF Init, Legada, Encadeada
<1>3. SemFuturo
  BY DEF Init, SemFuturo
<1>4. ASSUME NEW w \in Escritores PROVE EscritaLigada(w)
  BY <1>4 DEF Init, Livre, EscritaLigada
<1>. QED  BY <1>1, <1>2, <1>3, <1>4 DEF IInv, LinhaLigada, IrmaosDeAutoresDistintos

\* A link stays good while committed rows stay as they are.
LEMMA LigadaFica ==
    ASSUME NEW l, Ligada(l),
           \A i \in Ids : auditorias[i] # Ausente => auditorias'[i] = auditorias[i]
    PROVE  Ligada(l)'
BY DEF Ligada, Encadeada

\* prepareHash: the row it read last is not before any row of the same writer.
LEMMA PrepararLiga ==
    ASSUME IInv, NEW w \in Escritores, NEW e \in Eventos, Preparar(w, e)
    PROVE  IInv'
<1>. USE LimitesAssumption
<1>1. TypeOK'
  BY TypeStep DEF IInv, Next
<1>2. /\ auditorias' = auditorias /\ seq' = seq
      /\ \A i \in Ids : auditorias[i] # Ausente => auditorias'[i] = auditorias[i]
  BY DEF Preparar
<1>3. SemFuturo' /\ (\A i \in Ids : LinhaLigada(i)') /\ IrmaosDeAutoresDistintos'
  BY <1>2 DEF IInv, SemFuturo, LinhaLigada, Ligada, Encadeada, IrmaosDeAutoresDistintos
<1>4. PICK i \in 0 .. MaxIds :
         /\ UltimaVisivel(i)
         /\ escritas' = [escritas EXCEPT ![w] =
               [ fase |-> "preparada",
                 linha |-> [ previousHash |-> HashDaUltima(i),
                             hash |-> ComputeHash(HashDaUltima(i), e),
                             conteudo |-> Carregado(e),
                             autor |-> w, pai |-> i ] ] ]
  BY DEF Preparar, Escrever
<1>5. EscritaLigada(w)'
  <2>. DEFINE l == [ previousHash |-> HashDaUltima(i),
                     hash |-> ComputeHash(HashDaUltima(i), e),
                     conteudo |-> Carregado(e), autor |-> w, pai |-> i ]
  <2>1. escritas'[w] = [ fase |-> "preparada", linha |-> l ]
    BY <1>4 DEF IInv, TypeOK
  <2>2. l.autor = w /\ l.pai = i /\ l.previousHash = HashDaUltima(i)
    OBVIOUS
  <2>. HIDE DEF l
  <2>3. Ligada(escritas[w].linha)'
    <3>1. CASE i # 0 /\ Encadeada(i)
      <4>1. i \in Ids
        BY <3>1 DEF Ids
      <4>. QED  BY <4>1, <3>1, <2>1, <2>2, <1>2 DEF HashDaUltima, Ligada, Encadeada
    <3>2. CASE ~(i # 0 /\ Encadeada(i))
      BY <3>2, <2>1, <2>2 DEF HashDaUltima, Ligada
    <3>. QED  BY <3>1, <3>2
  <2>4. i <= seq
    BY <1>4 DEF UltimaVisivel, Visiveis, IInv, SemFuturo, TypeOK
  <2>5. ASSUME NEW k \in Ids, Encadeada(k) PROVE auditorias[k].pai # i
    <3>1. auditorias[k].pai < k /\ auditorias[k].pai \in 0 .. MaxIds
      BY <2>5 DEF IInv, LinhaLigada, TypeOK, Encadeada, Linha
    <3>2. k \in Visiveis
      BY <2>5 DEF Visiveis, Encadeada
    <3>3. k <= i
      BY <3>2, <1>4 DEF UltimaVisivel
    <3>. QED  BY <3>1, <3>3 DEF Ids
  <2>6. \A k \in Ids : Encadeada(k)' => auditorias'[k].pai # i
    BY <2>5, <1>2 DEF Encadeada
  <2>. QED  BY <2>1, <2>2, <2>3, <2>4, <2>6, <1>2 DEF EscritaLigada
<1>6. ASSUME NEW v \in Escritores, v # w PROVE EscritaLigada(v)'
  <2>1. escritas'[v] = escritas[v] /\ escritas'[w].fase = "preparada"
    BY <1>4, <1>6 DEF IInv, TypeOK
  <2>2. \A u \in Escritores \ {v} : escritas'[u].fase = "inserida"
            => escritas'[u] = escritas[u]
    BY <1>4, <2>1 DEF IInv, TypeOK
  <2>3. EscritaLigada(v)
    BY DEF IInv
  <2>. QED  BY <2>1, <2>2, <2>3, <1>2, LigadaFica DEF EscritaLigada, Encadeada
<1>. QED  BY <1>1, <1>3, <1>5, <1>6 DEF IInv

\* INSERT: the id is new.
LEMMA InserirLiga ==
    ASSUME IInv, NEW w \in Escritores, Inserir(w)
    PROVE  IInv'
<1>. USE LimitesAssumption
<1>1. TypeOK'
  BY TypeStep DEF IInv, Next
<1>2. /\ auditorias' = auditorias /\ seq' = seq + 1
      /\ seq \in Nat /\ seq + 1 \in Ids
      /\ \A i \in Ids : auditorias[i] # Ausente => auditorias'[i] = auditorias[i]
  BY DEF Inserir, IInv, TypeOK, Ids
<1>3. SemFuturo'
  BY <1>2 DEF IInv, SemFuturo, Ids
<1>4. (\A i \in Ids : LinhaLigada(i)') /\ IrmaosDeAutoresDistintos'
  BY <1>2 DEF IInv, LinhaLigada, Ligada, Encadeada, IrmaosDeAutoresDistintos
<1>5. /\ escritas[w] \in Preparada /\ escritas[w].fase = "preparada"
      /\ escritas' = [escritas EXCEPT ![w] =
            [ fase |-> "inserida", linha |-> escritas[w].linha, id |-> seq + 1 ]]
  BY EscritaPorFase DEF Inserir, IInv, Escrever
<1>6. escritas'[w] = [ fase |-> "inserida", linha |-> escritas[w].linha, id |-> seq + 1 ]
  BY <1>5 DEF IInv, TypeOK
<1>7. \A v \in Escritores \ {w} : escritas'[v] = escritas[v]
  BY <1>5 DEF IInv, TypeOK
<1>8. \A v \in Escritores \ {w} : escritas[v].fase = "inserida"
         => escritas[v].id \in Ids /\ escritas[v].id <= seq
  BY EscritaPorFase DEF IInv, EscritaLigada, Inserida
<1>9. EscritaLigada(w)'
  <2>1. EscritaLigada(w) /\ escritas[w].linha.pai \in 0 .. MaxIds
    BY <1>5 DEF IInv, Preparada, Linha
  <2>2. auditorias[seq + 1] = Ausente
    BY <1>2 DEF IInv, SemFuturo
  <2>3. Ligada(escritas[w].linha)'
    BY <2>1, <1>2, <1>5, LigadaFica DEF EscritaLigada
  <2>4. \A v \in Escritores \ {w} : escritas'[v].fase = "inserida"
           => escritas'[v].id # seq + 1
    BY <1>2, <1>7, <1>8 DEF Ids
  <2>. QED  BY <2>1, <2>2, <2>3, <2>4, <1>2, <1>5, <1>6 DEF EscritaLigada, Encadeada
<1>10. ASSUME NEW v \in Escritores, v # w PROVE EscritaLigada(v)'
  <2>1. EscritaLigada(v)
    BY DEF IInv
  <2>2. escritas[v] # Livre => escritas[v].linha.pai \in 0 .. MaxIds
    BY DEF IInv, TypeOK, Preparada, Inserida, Linha
  <2>3. escritas[v].fase # "livre" => Ligada(escritas[v].linha)'
    BY <2>1, <1>2, <1>7, <1>10, LigadaFica DEF EscritaLigada
  <2>4. escritas[v].fase # "livre" => escritas[v].linha.pai <= seq'
    BY <2>1, <2>2, <1>2 DEF EscritaLigada, Livre
  <2>5. escritas[v].fase = "inserida" =>
           /\ escritas[v].id <= seq' /\ escritas[v].id # seq + 1
    BY <1>8, <1>2, <1>10 DEF Ids
  <2>. QED  BY <2>1, <2>3, <2>4, <2>5, <1>2, <1>6, <1>7, <1>10
            DEF EscritaLigada, Encadeada
<1>. QED  BY <1>1, <1>3, <1>4, <1>9, <1>10 DEF IInv

\* COMMIT: the row takes a free id, and no other row of its writer has its pai.
LEMMA ConfirmarLiga ==
    ASSUME IInv, NEW w \in Escritores, Confirmar(w)
    PROVE  IInv'
<1>. DEFINE p == escritas[w]
<1>1. TypeOK'
  BY TypeStep DEF IInv, Next
<1>2. p \in Inserida /\ p.fase = "inserida" /\ EscritaLigada(w)
  BY EscritaPorFase DEF Confirmar, IInv
<1>3. /\ auditorias' = [auditorias EXCEPT ![p.id] = p.linha]
      /\ escritas' = [escritas EXCEPT ![w] = Livre]
      /\ seq' = seq
  BY DEF Confirmar, Escrever
<1>4. p.id \in Ids /\ p.linha \in Linha /\ auditorias[p.id] = Ausente
      /\ p.id <= seq /\ p.linha.pai < p.id /\ p.linha.autor = w /\ Ligada(p.linha)
  BY <1>2 DEF Inserida, EscritaLigada
<1>5. /\ auditorias'[p.id] = p.linha
      /\ \A i \in Ids \ {p.id} : auditorias'[i] = auditorias[i]
      /\ \A i \in Ids : auditorias[i] # Ausente => auditorias'[i] = auditorias[i]
  BY <1>3, <1>4 DEF IInv, TypeOK
<1>6. escritas'[w] = Livre /\ \A v \in Escritores \ {w} : escritas'[v] = escritas[v]
  BY <1>3 DEF IInv, TypeOK
<1>. HIDE DEF p
<1>7. SemFuturo'
  BY <1>3, <1>4, <1>5 DEF IInv, SemFuturo
<1>8. ASSUME NEW i \in Ids PROVE LinhaLigada(i)'
  <2>1. CASE i = p.id
    BY <2>1, <1>4, <1>5, LigadaFica DEF LinhaLigada
  <2>2. CASE i # p.id
    <3>1. Encadeada(i)' => Encadeada(i)
      BY <2>2, <1>5 DEF Encadeada
    <3>. QED  BY <3>1, <2>2, <1>5, LigadaFica DEF LinhaLigada, IInv
  <2>. QED  BY <2>1, <2>2
<1>9. ASSUME NEW v \in Escritores PROVE EscritaLigada(v)'
  <2>1. CASE v = w
    BY <2>1, <1>6 DEF EscritaLigada, Livre
  <2>2. CASE v # w
    <3>1. EscritaLigada(v) /\ escritas'[v] = escritas[v]
      BY <2>2, <1>6 DEF IInv
    <3>2. escritas[v].fase # "livre" => Ligada(escritas[v].linha)'
      BY <3>1, <1>5, LigadaFica DEF EscritaLigada
    <3>3. escritas[v].fase = "inserida" => escritas[v].id # p.id
      BY <1>2, <2>2 DEF EscritaLigada, p
    <3>4. escritas[v].fase = "inserida" => escritas[v].id \in Ids
      BY EscritaPorFase DEF IInv, Inserida
    <3>5. \A k \in Ids : Encadeada(k)' /\ auditorias'[k].autor = v
             => Encadeada(k) /\ auditorias'[k] = auditorias[k]
      BY <1>4, <1>5, <2>2 DEF Encadeada
    <3>6. \A u \in Escritores : escritas'[u].fase = "inserida"
             => escritas'[u] = escritas[u]
      BY <1>6 DEF Livre
    <3>. QED  BY <3>1, <3>2, <3>3, <3>4, <3>5, <3>6, <1>3, <1>5 DEF EscritaLigada
  <2>. QED  BY <2>1, <2>2
<1>10. IrmaosDeAutoresDistintos'
  <2>1. ASSUME NEW j \in Ids, j # p.id, Encadeada(j)', auditorias'[j].pai = p.linha.pai
        PROVE  auditorias'[j].autor # w
    BY <2>1, <1>2, <1>5 DEF EscritaLigada, Encadeada, p
  <2>2. ASSUME NEW i \in Ids, NEW j \in Ids, i # j, i # p.id, j # p.id,
               Encadeada(i)', Encadeada(j)', auditorias'[i].pai = auditorias'[j].pai
        PROVE  auditorias'[i].autor # auditorias'[j].autor
    BY <2>2, <1>5 DEF IInv, IrmaosDeAutoresDistintos, Encadeada
  <2>. QED  BY <2>1, <2>2, <1>4, <1>5 DEF IrmaosDeAutoresDistintos
<1>. QED  BY <1>1, <1>7, <1>8, <1>9, <1>10 DEF IInv

\* An audit that fails leaves the table alone.
LEMMA FalharLiga ==
    ASSUME IInv, NEW w \in Escritores, Falhar(w)
    PROVE  IInv'
<1>1. TypeOK'
  BY TypeStep DEF IInv, Next
<1>2. auditorias' = auditorias /\ seq' = seq
  BY DEF Falhar
<1>3. escritas'[w] = Livre /\ \A v \in Escritores \ {w} : escritas'[v] = escritas[v]
  BY DEF Falhar, Escrever, IInv, TypeOK
<1>4. SemFuturo' /\ (\A i \in Ids : LinhaLigada(i)') /\ IrmaosDeAutoresDistintos'
  BY <1>2 DEF IInv, SemFuturo, LinhaLigada, Ligada, Encadeada, IrmaosDeAutoresDistintos
<1>5. ASSUME NEW v \in Escritores PROVE EscritaLigada(v)'
  <2>1. EscritaLigada(v)
    BY DEF IInv
  <2>2. \A u \in Escritores : escritas'[u].fase = "inserida" => escritas'[u] = escritas[u]
    BY <1>3 DEF Livre
  <2>3. escritas'[v].fase # "livre" => escritas'[v] = escritas[v]
    BY <1>3 DEF Livre
  <2>. QED  BY <2>1, <2>2, <2>3, <1>2 DEF EscritaLigada, Ligada, Encadeada
<1>. QED  BY <1>1, <1>4, <1>5 DEF IInv

LEMMA IInvStep == IInv /\ [Next]_vars => IInv'
<1>. SUFFICES ASSUME IInv, [Next]_vars PROVE IInv'
  OBVIOUS
<1>1. CASE UNCHANGED vars
  <2>. USE <1>1 DEF vars
  <2>1. TypeOK' /\ SemFuturo' /\ IrmaosDeAutoresDistintos'
    BY DEF IInv, TypeOK, SemFuturo, IrmaosDeAutoresDistintos, Encadeada
  <2>2. \A i \in Ids : LinhaLigada(i)'
    BY DEF IInv, LinhaLigada, Ligada, Encadeada
  <2>3. \A w \in Escritores : EscritaLigada(w)'
    BY DEF IInv, EscritaLigada, Ligada, Encadeada
  <2>. QED  BY <2>1, <2>2, <2>3 DEF IInv
<1>. QED  BY <1>1, PrepararLiga, InserirLiga, ConfirmarLiga, FalharLiga DEF Next

-----------------------------------------------------------------------------
\* The chain never dangles: each row hangs from an earlier committed row or from
\* the genesis, however the writers of the trail interleave and fail.
THEOREM ChainRooted == Spec => []ElosEnraizados
<1>1. IInv => ElosEnraizados
  <2>. SUFFICES ASSUME IInv, NEW i \in Ids, Encadeada(i),
                       auditorias[i].previousHash # Genesis
                PROVE  \E j \in Ids : /\ j < i /\ Encadeada(j)
                                      /\ auditorias[j].hash = auditorias[i].previousHash
    BY DEF ElosEnraizados
  <2>1. LinhaLigada(i)
    BY DEF IInv
  <2>. QED  BY <2>1 DEF LinhaLigada, Ligada
<1>. QED  BY <1>1, IInvInit, IInvStep, PTL DEF Spec

\* Rows that hang from one row have different writers.
THEOREM ForkByDistinctWriters == Spec => []IrmaosDeAutoresDistintos
<1>1. IInv => IrmaosDeAutoresDistintos
  BY DEF IInv
<1>. QED  BY <1>1, IInvInit, IInvStep, PTL DEF Spec

-----------------------------------------------------------------------------
(* Writers that never overlap. *)

\* i is the last row before j, or 0.
UltimaAntes(i, j) ==
    IF i = 0 THEN \A k \in Visiveis : k >= j
    ELSE i \in Visiveis /\ i < j /\ \A k \in Visiveis : k < j => k <= i

\* Each row of the chain carries the hash of the row just before it in the table, or
\* the genesis if that one is older than the chain.
ElosSeguidos ==
    \A j \in Ids : Encadeada(j) =>
       /\ UltimaAntes(auditorias[j].pai, j)
       /\ auditorias[j].previousHash = HashDaUltima(auditorias[j].pai)

\* The row the writer has read last still is the last one.
EscritaNoFim(w) ==
    LET p == escritas[w]
    IN  p.fase # "livre" => /\ UltimaVisivel(p.linha.pai)
                            /\ p.linha.previousHash = HashDaUltima(p.linha.pai)
                            /\ p.fase = "inserida" => p.id = seq

LinhaInv == IInv /\ ElosSeguidos /\ \A w \in Escritores : EscritaNoFim(w)

LEMMA LinhaInvStep ==
    ASSUME \A v, w \in Escritores : v = w
    PROVE  LinhaInv /\ [Next]_vars => LinhaInv'
<1>. SUFFICES ASSUME LinhaInv, [Next]_vars
              PROVE  ElosSeguidos' /\ \A w \in Escritores : EscritaNoFim(w)'
  BY IInvStep DEF LinhaInv
<1>1. CASE UNCHANGED vars
  BY <1>1 DEF vars, LinhaInv, ElosSeguidos, EscritaNoFim, UltimaAntes, UltimaVisivel,
              HashDaUltima, Visiveis, Encadeada
<1>2. ASSUME UNCHANGED auditorias
      PROVE  /\ ElosSeguidos'
             /\ \A i : /\ UltimaVisivel(i)' = UltimaVisivel(i)
                       /\ HashDaUltima(i)' = HashDaUltima(i)
  BY <1>2 DEF LinhaInv, ElosSeguidos, UltimaAntes, UltimaVisivel, HashDaUltima, Visiveis,
              Encadeada
<1>3. ASSUME NEW w \in Escritores, NEW e \in Eventos, Preparar(w, e)
      PROVE  ElosSeguidos' /\ \A v \in Escritores : EscritaNoFim(v)'
  <2>1. auditorias' = auditorias /\ seq' = seq
    BY <1>3 DEF Preparar
  <2>2. PICK i \in 0 .. MaxIds :
           /\ UltimaVisivel(i)
           /\ escritas' = [escritas EXCEPT ![w] =
                 [ fase |-> "preparada",
                   linha |-> [ previousHash |-> HashDaUltima(i),
                               hash |-> ComputeHash(HashDaUltima(i), e),
                               conteudo |-> Carregado(e),
                               autor |-> w, pai |-> i ] ] ]
    BY <1>3 DEF Preparar, Escrever
  <2>3. /\ escritas'[w].fase = "preparada" /\ escritas'[w].linha.pai = i
        /\ escritas'[w].linha.previousHash = HashDaUltima(i)
    BY <2>2 DEF LinhaInv, IInv, TypeOK
  <2>4. EscritaNoFim(w)'
    BY <1>2, <2>1, <2>2, <2>3 DEF EscritaNoFim
  <2>. QED  BY <1>2, <2>1, <2>4
<1>4. ASSUME NEW w \in Escritores, Inserir(w)
      PROVE  ElosSeguidos' /\ \A v \in Escritores : EscritaNoFim(v)'
  <2>1. /\ auditorias' = auditorias /\ seq' = seq + 1 /\ escritas[w].fase = "preparada"
        /\ escritas' = [escritas EXCEPT ![w] =
              [ fase |-> "inserida", linha |-> escritas[w].linha, id |-> seq + 1 ]]
    BY <1>4 DEF Inserir, Escrever
  <2>2. /\ escritas'[w].fase = "inserida" /\ escritas'[w].linha = escritas[w].linha
        /\ escritas'[w].id = seq'
    BY <2>1 DEF LinhaInv, IInv, TypeOK
  <2>3. EscritaNoFim(w)'
    BY <1>2, <2>1, <2>2 DEF EscritaNoFim, LinhaInv
  <2>. QED  BY <1>2, <2>1, <2>3
<1>5. ASSUME NEW w \in Escritores, Confirmar(w)
      PROVE  ElosSeguidos' /\ \A v \in Escritores : EscritaNoFim(v)'
  <2>1. /\ escritas[w].fase = "inserida" /\ escritas[w] \in Inserida /\ seq' = seq
        /\ escritas' = [escritas EXCEPT ![w] = Livre]
    BY <1>5, EscritaPorFase DEF Confirmar, Escrever, LinhaInv, IInv
  <2>2. PICK l \in Linha, id \in Ids :
           /\ escritas[w].linha = l /\ escritas[w].id = id
           /\ auditorias' = [auditorias EXCEPT ![id] = l]
           /\ id = seq /\ UltimaVisivel(l.pai) /\ l.previousHash = HashDaUltima(l.pai)
           /\ auditorias[id] = Ausente /\ l.pai < id /\ l.pai \in 0 .. MaxIds
    BY <1>5, <2>1 DEF Confirmar, LinhaInv, IInv, EscritaNoFim, EscritaLigada, Inserida, Linha
  <2>3. escritas'[w] = Livre
    BY <2>1 DEF LinhaInv, IInv, TypeOK
  <2>4. /\ auditorias'[id] = l
        /\ \A i \in Ids \ {id} : auditorias'[i] = auditorias[i]
    BY <2>1, <2>2 DEF LinhaInv, IInv, TypeOK
  <2>5. \A k \in Visiveis : k \in Ids /\ k < id /\ k \in Visiveis'
    <3>1. ASSUME NEW k \in Visiveis PROVE k \in Ids /\ k # id /\ k <= id
      BY <2>2, <3>1 DEF Visiveis, LinhaInv, IInv, SemFuturo
    <3>2. \A k \in Visiveis : k \in Visiveis'
      BY <2>4, <3>1 DEF Visiveis
    <3>. QED  BY <2>2, <3>1, <3>2 DEF Ids
  <2>6. \A k \in Visiveis' : k \in Visiveis \/ k = id
    BY <2>4 DEF Visiveis
  <2>7. ASSUME NEW i \in 0 .. MaxIds, i < id PROVE HashDaUltima(i)' = HashDaUltima(i)
    <3>1. CASE i = 0
      BY <3>1 DEF HashDaUltima
    <3>2. CASE i # 0
      <4>1. i \in Ids \ {id}
        BY <2>2, <2>7, <3>2, LimitesAssumption DEF Ids
      <4>. QED  BY <2>4, <4>1 DEF HashDaUltima, Encadeada
    <3>. QED  BY <3>1, <3>2
  <2>8. ASSUME NEW j \in Ids, Encadeada(j)'
        PROVE  /\ UltimaAntes(auditorias[j].pai, j)'
               /\ auditorias'[j].previousHash = HashDaUltima(auditorias[j].pai)'
    <3>1. CASE j = id
      <4>1. UltimaAntes(l.pai, id)'
        <5>1. CASE l.pai = 0
          <6>1. Visiveis' \subseteq {id}
            BY <2>2, <2>6, <5>1 DEF UltimaVisivel
          <6>. QED  BY <2>2, <5>1, <6>1 DEF UltimaAntes, Ids
        <5>2. CASE l.pai # 0
          <6>1. l.pai \in Visiveis' /\ \A k \in Visiveis : k <= l.pai
            BY <2>2, <2>5, <5>2 DEF UltimaVisivel
          <6>2. \A k \in Visiveis' : k < id => k <= l.pai
            BY <2>2, <2>6, <6>1 DEF Ids
          <6>. QED  BY <2>1, <2>2, <5>2, <6>1, <6>2 DEF UltimaAntes
        <5>. QED  BY <5>1, <5>2
      <4>2. HashDaUltima(l.pai)' = HashDaUltima(l.pai)
        BY <2>2, <2>7
      <4>. QED  BY <2>2, <2>4, <3>1, <4>1, <4>2
    <3>2. CASE j # id
      <4>1. Encadeada(j) /\ auditorias'[j] = auditorias[j] /\ j \in Visiveis
        BY <2>4, <2>8, <3>2 DEF Encadeada, Visiveis
      <4>2. PICK i \in 0 .. MaxIds :
               /\ auditorias[j].pai = i /\ UltimaAntes(i, j) /\ i < j /\ j < id
               /\ auditorias[j].previousHash = HashDaUltima(i)
        BY <2>5, <4>1 DEF LinhaInv, IInv, ElosSeguidos, LinhaLigada, Encadeada, TypeOK, Linha
      <4>3. i < id
        BY <2>2, <4>2 DEF Ids
      <4>4. UltimaAntes(i, j)'
        BY <2>2, <2>5, <2>6, <4>2 DEF UltimaAntes, Ids
      <4>5. HashDaUltima(i)' = HashDaUltima(i)
        BY <2>7, <4>2, <4>3
      <4>6. auditorias'[j].pai = i
        BY <4>1, <4>2
      <4>. QED  BY <4>1, <4>2, <4>4, <4>5, <4>6
    <3>. QED  BY <3>1, <3>2
  <2>9. ElosSeguidos'
    BY <2>8 DEF ElosSeguidos
  <2>10. EscritaNoFim(w)'
    BY <2>3 DEF EscritaNoFim, Livre
  <2>. QED  BY <2>9, <2>10
<1>6. ASSUME NEW w \in Escritores, Falhar(w)
      PROVE  ElosSeguidos' /\ \A v \in Escritores : EscritaNoFim(v)'
  <2>1. auditorias' = auditorias /\ escritas'[w] = Livre
    BY <1>6 DEF Falhar, Escrever, LinhaInv, IInv, TypeOK
  <2>2. EscritaNoFim(w)'
    BY <2>1 DEF EscritaNoFim, Livre
  <2>. QED  BY <1>2, <2>1, <2>2
<1>. QED  BY <1>1, <1>3, <1>4, <1>5, <1>6 DEF Next

\* If the audits never overlap, the chain is a line: each row carries the hash of the
\* row just before it, whatever fails in between.
THEOREM UmEscritorFazUmaLinha ==
    ASSUME \A v, w \in Escritores : v = w
    PROVE  Spec => []ElosSeguidos
<1>1. Init => LinhaInv
  <2>. SUFFICES ASSUME Init PROVE ElosSeguidos /\ \A w \in Escritores : EscritaNoFim(w)
    BY IInvInit DEF LinhaInv
  <2>1. ASSUME NEW i \in Ids PROVE ~Encadeada(i)
    BY <2>1 DEF Init, Legada, Encadeada
  <2>2. ASSUME NEW w \in Escritores PROVE EscritaNoFim(w)
    BY <2>2 DEF Init, Livre, EscritaNoFim
  <2>. QED  BY <2>1, <2>2 DEF ElosSeguidos
<1>2. LinhaInv /\ [Next]_vars => LinhaInv'
  BY LinhaInvStep
<1>3. LinhaInv => ElosSeguidos
  BY DEF LinhaInv
<1>. QED  BY <1>1, <1>2, <1>3, PTL DEF Spec
=============================================================================
