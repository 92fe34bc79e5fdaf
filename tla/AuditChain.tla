------------------------------ MODULE AuditChain ------------------------------
(***************************************************************************)
(* The tamper-evident audit trail: AuditHashService, and the four places   *)
(* that write through it (logins, logouts, desarquivamentos, password      *)
(* changes).  Each of them awaits prepareHash, which reads the last row,   *)
(* and then awaits save; other writers run in between.                     *)
(*                                                                         *)
(* SHA-256 of a JSON text is taken to be injective: the hash of a row is   *)
(* the sequence of the contents hashed from the genesis down to it.        *)
(***************************************************************************)
EXTENDS Naturals, Sequences

CONSTANTS
    Escritores,    \* the audits that may be in progress at one time
    Eventos,       \* bound: the audits that are tried, as the factories make them
    MaxIds,        \* bound: ids the sequence of the table may issue
    MaxLegadas,    \* bound: rows older than the columns hash and previous_hash
    Carimbo,       \* a timestamp the database fills in
    Indefinido,    \* a key that is undefined: JSON.stringify leaves it out
    Nulo,          \* SQL NULL
    Ninguem,       \* the author of a row older than the chain
    Ausente        \* no row of the table has this id

Ids == 1 .. MaxIds

\* What computeHash is given, the link apart: the keys on whose absence the hash
\* depends, and assunto for all the others.
Assuntos == { e.assunto : e \in Eventos }
Conteudo == [ assunto: Assuntos, entityId: {"id", Indefinido, Nulo},
              error: {"mensagem", Indefinido, Nulo},
              timestamp: {Carimbo, Indefinido} ]
ConteudoSalvo == { c \in Conteudo : /\ c.entityId # Indefinido
                                    /\ c.error # Indefinido
                                    /\ c.timestamp = Carimbo }

\* What createLoginAudit, createLogoutAudit and createResourceAudit return: none of
\* them sets the timestamp.
Auditavel == [ assunto: Assuntos, entityId: {"id", Indefinido},
               error: {"mensagem", Indefinido}, timestamp: {Indefinido} ]
ASSUME EventosAssumption == Eventos \subseteq Auditavel
ASSUME LimitesAssumption == MaxIds \in Nat /\ MaxLegadas \in 0 .. MaxIds
ASSUME SentinelasAssumption ==
    /\ Indefinido \notin {Nulo, Carimbo}
    /\ Nulo \notin Seq(Conteudo)
    /\ Ninguem \notin Escritores

\* AUDIT_GENESIS_HASH
Genesis == << >>
Hash == Seq(Conteudo)

\* A row.  autor and pai are history: who wrote it, and the id of the row its
\* link was read from (0: there was none).
Linha == [ previousHash: Hash \cup {Nulo}, hash: Hash \cup {Nulo},
           conteudo: ConteudoSalvo, autor: Escritores \cup {Ninguem}, pai: 0 .. MaxIds ]

VARIABLES
    auditorias,    \* the committed rows
    seq,           \* the last id issued
    escritas       \* what each audit in progress holds

vars == << auditorias, seq, escritas >>

Livre == [fase |-> "livre"]
Preparada == [fase: {"preparada"}, linha: Linha]
Inserida == [fase: {"inserida"}, linha: Linha, id: Ids]

Visiveis == { i \in Ids : auditorias[i] # Ausente }
Encadeada(i) == auditorias[i] # Ausente /\ auditorias[i].hash # Nulo

-----------------------------------------------------------------------------
(* AuditHashService. *)

ComputeHash(anterior, c) == Append(anterior, c)

\* findOne, order id DESC, of the rows seen by a READ COMMITTED query.
\* Mutant: order id ASC.
PrimeiraVisivel(i) ==
    IF i = 0 THEN Visiveis = {}
    ELSE i \in Visiveis /\ \A j \in Visiveis : j >= i
UltimaVisivel(i) ==
    IF i = 0 THEN Visiveis = {}
    ELSE i \in Visiveis /\ \A j \in Visiveis : j <= i

\* lastRecord?.hash ?? AUDIT_GENESIS_HASH
\* Mutant: the hash of the last row is recomputed from what was loaded.
HashDaUltimaRecalculado(i) ==
    IF i # 0 /\ Encadeada(i)
    THEN ComputeHash(auditorias[i].previousHash, auditorias[i].conteudo)
    ELSE Genesis
HashDaUltima(i) ==
    IF i # 0 /\ Encadeada(i) THEN auditorias[i].hash ELSE Genesis

\* What find gives back for a row saved with content c: a column without a
\* value is NULL, and @CreateDateColumn has filled the timestamp in.
\* Mutant: the timestamp is a column like the others.
CarregadoSemCarimbo(c) ==
    [c EXCEPT !.entityId = IF @ = Indefinido THEN Nulo ELSE @,
              !.error = IF @ = Indefinido THEN Nulo ELSE @]
Carregado(c) ==
    [c EXCEPT !.entityId = IF @ = Indefinido THEN Nulo ELSE @,
              !.error = IF @ = Indefinido THEN Nulo ELSE @,
              !.timestamp = Carimbo]

-----------------------------------------------------------------------------
Legada(c) == [ previousHash |-> Nulo, hash |-> Nulo, conteudo |-> Carregado(c),
               autor |-> Ninguem, pai |-> 0 ]

\* The rows the migration found have neither hash nor previous_hash.
Init ==
    /\ seq \in 0 .. MaxLegadas
    /\ \E antigas \in [1 .. seq -> Eventos] :
          auditorias = [i \in Ids |-> IF i <= seq THEN Legada(antigas[i]) ELSE Ausente]
    /\ escritas = [w \in Escritores |-> Livre]

Escrever(w, e) == escritas' = [escritas EXCEPT ![w] = e]

\* prepareHash
Preparar(w, e) ==
    /\ escritas[w] = Livre
    /\ \E i \in 0 .. MaxIds :
          /\ UltimaVisivel(i)
          /\ Escrever(w, [ fase |-> "preparada",
                linha |-> [ previousHash |-> HashDaUltima(i),
                            hash |-> ComputeHash(HashDaUltima(i), e),
                            conteudo |-> Carregado(e),
                            autor |-> w, pai |-> i ] ])
    /\ UNCHANGED << auditorias, seq >>

\* save: an INSERT, which draws the id, and a COMMIT, which lets others see it.
Inserir(w) ==
    /\ escritas[w].fase = "preparada"
    /\ seq < MaxIds
    /\ seq' = seq + 1
    /\ Escrever(w, [ fase |-> "inserida", linha |-> escritas[w].linha,
                     id |-> seq + 1 ])
    /\ UNCHANGED auditorias

Confirmar(w) ==
    /\ escritas[w].fase = "inserida"
    /\ auditorias' = [auditorias EXCEPT ![escritas[w].id] = escritas[w].linha]
    /\ Escrever(w, Livre)
    /\ UNCHANGED seq

\* The catch around both: the audit is lost, the request it is about is not.
Falhar(w) ==
    /\ escritas[w] # Livre
    /\ Escrever(w, Livre)
    /\ UNCHANGED << auditorias, seq >>

Next ==
    \E w \in Escritores :
       \/ \E e \in Eventos : Preparar(w, e)
       \/ Inserir(w)
       \/ Confirmar(w)
       \/ Falhar(w)

Spec == Init /\ [][Next]_vars

-----------------------------------------------------------------------------
(* Properties. *)

TypeOK ==
    /\ auditorias \in [Ids -> Linha \cup {Ausente}]
    /\ seq \in 0 .. MaxIds
    /\ escritas \in [Escritores -> {Livre} \cup Preparada \cup Inserida]

\* Whatever the order of preparations, INSERTs, COMMITs and failures, every row
\* hangs from a committed row with a smaller id, or from the genesis: the chain
\* may fork but never dangles, and going up the links ends.
ElosEnraizados ==
    \A i \in Ids : Encadeada(i) =>
       \/ auditorias[i].previousHash = Genesis
       \/ \E j \in Ids : /\ j < i /\ Encadeada(j)
                         /\ auditorias[j].hash = auditorias[i].previousHash

\* A fork is always the work of different writers: the rows that hang from one row
\* have different authors, so no row has more children than there are writers and
\* with one writer the chain is a line.
IrmaosDeAutoresDistintos ==
    \A i, j \in Ids :
       /\ Encadeada(i) /\ Encadeada(j) /\ i # j
       /\ auditorias[i].pai = auditorias[j].pai
       => auditorias[i].autor # auditorias[j].autor
=============================================================================
