----------------------------- MODULE Notificacoes -----------------------------
(***************************************************************************)
(* The notifications of one user, from the job that creates them to the    *)
(* tab that shows them: NotificacoesService, the event stream of its       *)
(* controller, and the store and the hooks of the web client.              *)
(*                                                                         *)
(* The tab learns of unread notifications in two ways, and each replaces   *)
(* or extends what it shows without regard for the other: whole lists (the *)
(* first event of a stream, a poll while there is no stream), and single   *)
(* ones, pushed when they are saved.  The list is cached as module         *)
(* ListaEmCache says: an answer from the cache is one read earlier.        *)
(***************************************************************************)
EXTENDS Naturals, Sequences, FiniteSets

CONSTANTS
    Reqs,           \* jobs and calls of the tab that may be in progress at one time
    MaxNotas,       \* bound: notifications in all
    Chaves,         \* what a notification is about: its type and entity, or its text
    Recorrentes,    \* those of a recurrent type: one notification, kept up to date
    MaxPedidos,     \* bound: jobs and calls in all
    MaxReinicios,   \* bound: restarts of the server
    Ausente

ASSUME RecorrentesAssumption == Recorrentes \subseteq Chaves
ASSUME LimitesAssumption ==
    MaxNotas \in Nat \ {0} /\ MaxPedidos \in Nat /\ MaxReinicios \in Nat

VARIABLES
    notas,          \* the rows, in the order they were created in
    pedidos,        \* what each job or call in progress holds
    leituras,       \* the readings of the unread list: of the stream, of fetchNaoLidas
    fila,           \* the events on their way to the tab
    canal,          \* the tab's stream is open
    tela,           \* what the tab shows
    perdidas,       \* history: unread ones the tab does not show and will not hear of,
                    \* because of a whole list or of a failure
    chegaram, reinicios

aba == << fila, canal, tela, perdidas >>
contas == << chegaram, reinicios >>
vars == << notas, pedidos, leituras, aba, contas >>

Livre == [fase |-> "livre"]
Notas == 1 .. MaxNotas
Usadas == 1 .. Len(notas)
Viva(n) == n \in Usadas /\ ~notas[n].apagada
NaoLida(n) == Viva(n) /\ ~notas[n].lida
NaoLidas == { n \in Usadas : NaoLida(n) }

Tela == [ids: SUBSET Notas, total: 0 .. MaxNotas + MaxPedidos]
Mostra(s) == [ids |-> s, total |-> Cardinality(s)]

\* A job creates a notification about chave, or cleans up; a call of the tab marks one
\* or all as read, or deletes one.  nota is the one concerned; espera as long as the tab
\* waits for the answer; antes what it showed before.  History: so as long as nobody
\* else has written a row since it read.
Pedido ==
    [ fase: {"procurar", "inserir", "buscar", "salvar", "atualizar", "apagar", "avisar",
             "pronta", "morta"},
      tipo: {"criar", "limpar", "marcar", "todas", "excluir"},
      chave: Chaves \cup {Ausente}, nota: Notas \cup {Ausente},
      espera: BOOLEAN, antes: Tela, so: BOOLEAN ]

Leitura == [fase: {"pedida", "lida"}, lista: SUBSET Notas]
Pedida == [fase |-> "pedida", lista |-> {}]

Evento == [tipo: {"init"}, lista: SUBSET Notas] \cup [tipo: {"nova"}, nota: Notas]

-----------------------------------------------------------------------------
\* Layout has just been mounted, and the first load is under way; the user may have a
\* notification of long ago.
Init ==
    /\ \/ notas = << >>
       \/ \E k \in Chaves, lida \in BOOLEAN :
             notas = << [chave |-> k, lida |-> lida, apagada |-> FALSE] >>
    /\ pedidos = [r \in Reqs |-> Livre]
    /\ leituras = [l \in {"inicio", "sonda"} |-> IF l = "sonda" THEN Pedida ELSE Livre]
    /\ fila = << >> /\ canal = FALSE /\ tela = Mostra({}) /\ perdidas = {}
    /\ chegaram = 0 /\ reinicios = 0

-----------------------------------------------------------------------------
(* What the tab shows. *)

\* Notifications the tab is still to hear of by themselves.
PorVir(eventos) ==
    { n \in Usadas : \/ \E r \in Reqs : pedidos[r] # Livre /\ pedidos[r].fase = "avisar"
                                        /\ pedidos[r].nota = n
                     \/ \E i \in DOMAIN eventos :
                           eventos[i].tipo = "nova" /\ eventos[i].nota = n }

\* History: the unread ones that are not in t, nor to come.
Faltam(t, eventos) == NaoLidas \ (t.ids \cup PorVir(eventos))

\* A whole list, or a state put back, replaces what is there.
Trocar(t, eventos) ==
    /\ tela' = t
    /\ perdidas' = (perdidas \ t.ids) \cup Faltam(t, eventos)

\* addNotificacao
\* Mutant: one that is listed counts again.
AcrescentarSempre(n) ==
    /\ tela' = [ids |-> tela.ids \cup {n},
                total |-> IF tela.total < MaxNotas THEN tela.total + 1 ELSE tela.total]
    /\ perdidas' = perdidas \ {n}
Acrescentar(n) ==
    /\ tela' = IF n \in tela.ids THEN tela
               ELSE [ids |-> tela.ids \cup {n}, total |-> tela.total + 1]
    /\ perdidas' = perdidas \ {n}

Menos1(k) == IF k = 0 THEN 0 ELSE k - 1

-----------------------------------------------------------------------------
(* The list of unread notifications: findByUsuario. *)

Consultar(l) ==
    /\ leituras[l].fase = "pedida"
    /\ leituras' = [leituras EXCEPT ![l] = [fase |-> "lida", lista |-> NaoLidas]]
    /\ UNCHANGED << notas, pedidos, aba, contas >>

\* The first event of the stream, behind those that have been pushed since it opened.
Enviar ==
    /\ leituras["inicio"].fase = "lida"
    /\ leituras' = [leituras EXCEPT !["inicio"] = Livre]
    /\ fila' = Append(fila, [tipo |-> "init", lista |-> leituras["inicio"].lista])
    /\ UNCHANGED << notas, pedidos, canal, tela, perdidas, contas >>

-----------------------------------------------------------------------------
(* The tab. *)

\* connect, an attempt that comes off; streamNotificacoes: the list is asked for and the
\* subject subscribed to at once.
Assinar ==
    /\ ~canal /\ canal' = TRUE
    /\ leituras' = [leituras EXCEPT !["inicio"] = Pedida]
    /\ UNCHANGED << notas, pedidos, fila, tela, perdidas, contas >>

\* onerror: the stream is given up; a timer is set for the next one.
\* Mutant: what it had sent still comes.
CairComFila ==
    /\ canal /\ canal' = FALSE
    /\ leituras' = [leituras EXCEPT !["inicio"] = Livre]
    /\ UNCHANGED << notas, pedidos, fila, tela, perdidas, contas >>
Cair ==
    /\ canal /\ canal' = FALSE
    /\ leituras' = [leituras EXCEPT !["inicio"] = Livre]
    /\ fila' = << >>
    /\ UNCHANGED << notas, pedidos, tela, perdidas, contas >>

\* An event, in the order they were sent in.
Receber ==
    /\ fila # << >> /\ fila' = Tail(fila)
    /\ IF Head(fila).tipo = "init" THEN Trocar(Mostra(Head(fila).lista), Tail(fila))
                                   ELSE Acrescentar(Head(fila).nota)
    /\ UNCHANGED << notas, pedidos, leituras, canal, contas >>

\* The poll, every 30 seconds while there is no stream.
Sondar ==
    /\ ~canal /\ leituras["sonda"] = Livre
    /\ leituras' = [leituras EXCEPT !["sonda"] = Pedida]
    /\ UNCHANGED << notas, pedidos, aba, contas >>

ReceberLista ==
    /\ leituras["sonda"].fase = "lida"
    /\ leituras' = [leituras EXCEPT !["sonda"] = Livre]
    /\ Trocar(Mostra(leituras["sonda"].lista), fila)
    /\ UNCHANGED << notas, pedidos, fila, canal, contas >>

FalharLista ==
    /\ leituras["sonda"] # Livre
    /\ leituras' = [leituras EXCEPT !["sonda"] = Livre]
    /\ UNCHANGED << notas, pedidos, aba, contas >>

-----------------------------------------------------------------------------
(* Jobs and calls. *)

Iniciar(r, tipo, fase, chave, n, espera) ==
    /\ pedidos[r] = Livre /\ chegaram < MaxPedidos /\ chegaram' = chegaram + 1
    /\ pedidos' = [pedidos EXCEPT ![r] =
          [ fase |-> fase, tipo |-> tipo, chave |-> chave, nota |-> n,
            espera |-> espera, so |-> TRUE,
            antes |-> IF tipo \in {"todas", "excluir"} THEN tela ELSE Mostra({}) ]]
    /\ UNCHANGED << notas, leituras, fila, canal, reinicios >>

\* The schedulers and the queue: create, saveAndEmit; limparNotificacoesAntigas.
PedirCriacao(r, k) ==
    Iniciar(r, "criar", "procurar", k, Ausente, FALSE) /\ UNCHANGED << tela, perdidas >>
PedirLimpeza(r) ==
    Iniciar(r, "limpar", "atualizar", Ausente, Ausente, FALSE)
    /\ UNCHANGED << tela, perdidas >>

\* marcarComoLida, excluirNotificacao: of any row of the page, marcarTodasComoLidas.
\* What the tab shows changes before the call.
PedirMarcar(r, n) ==
    /\ Viva(n) /\ Iniciar(r, "marcar", "buscar", Ausente, n, TRUE)
    /\ tela' = [ids |-> tela.ids \ {n}, total |-> Menos1(tela.total)]
    /\ UNCHANGED perdidas
PedirExcluir(r, n) ==
    /\ Viva(n) /\ Iniciar(r, "excluir", "buscar", Ausente, n, TRUE)
    /\ tela' = [ids |-> tela.ids \ {n},
                total |-> IF n \in tela.ids THEN Menos1(tela.total) ELSE tela.total]
    /\ UNCHANGED perdidas
PedirTodas(r) ==
    /\ Iniciar(r, "todas", "atualizar", Ausente, Ausente, TRUE)
    /\ tela' = Mostra({}) /\ UNCHANGED perdidas

\* r has written a row.  A call whose part in the server is done waits for its answer
\* to arrive, if the tab does.
Escreve(r, fase) ==
    pedidos' = [q \in Reqs |->
       CASE q = r /\ fase = "fim" ->
                IF pedidos[r].espera THEN [pedidos[r] EXCEPT !.fase = "pronta"] ELSE Livre
         [] q = r /\ fase # "fim" -> [pedidos[r] EXCEPT !.fase = fase, !.chave = Ausente]
         [] q # r /\ pedidos[q] = Livre -> Livre
         [] OTHER -> [pedidos[q] EXCEPT !.so = FALSE]]
Some(r) == pedidos' = [pedidos EXCEPT ![r] = Livre]

Existentes(k) == { n \in Usadas : Viva(n) /\ notas[n].chave = k }

\* findExistingByEntidade
\* Mutant: only if it has not been read.
AchadasNaoLidas(k) == { n \in NaoLidas : notas[n].chave = k }
Achadas(k) == Existentes(k)

\* The newest one found is brought up to date (findExistingByEntidade), if it is of a
\* recurrent type; of another one it keeps the new one from being created
\* (findRecentDuplicate), unless it is older than a day.
Procurar(r) ==
    LET p == pedidos[r]
        achadas == Achadas(p.chave)
    IN  /\ p.fase = "procurar"
        /\ \/ /\ p.chave \in Recorrentes /\ achadas # {}
              /\ \E n \in achadas :
                    /\ \A m \in achadas : m <= n
                    /\ pedidos' = [pedidos EXCEPT ![r] =
                          [p EXCEPT !.fase = "salvar", !.nota = n, !.so = TRUE]]
           \/ p.chave \notin Recorrentes /\ achadas # {} /\ Some(r)
           \/ /\ p.chave \in Recorrentes => achadas = {}
              /\ pedidos' = [pedidos EXCEPT ![r] =
                    [p EXCEPT !.fase = "inserir", !.so = TRUE]]
        /\ UNCHANGED << notas, leituras, aba, contas >>

Inserir(r) ==
    LET p == pedidos[r]
    IN  /\ p.fase = "inserir" /\ Len(notas) < MaxNotas
        /\ notas' = Append(notas, [chave |-> p.chave, lida |-> FALSE, apagada |-> FALSE])
        /\ pedidos' = [q \in Reqs |->
              IF q = r THEN [p EXCEPT !.fase = "avisar", !.chave = Ausente,
                                    !.nota = Len(notas) + 1]
              ELSE IF pedidos[q] = Livre THEN Livre ELSE [pedidos[q] EXCEPT !.so = FALSE]]
        /\ UNCHANGED << leituras, aba, contas >>

\* findOne: 404 if it has been deleted.
Buscar(r) ==
    LET p == pedidos[r]
    IN  /\ p.fase = "buscar"
        /\ pedidos' = [pedidos EXCEPT ![r] = [p EXCEPT !.so = TRUE,
              !.fase = IF ~Viva(p.nota) THEN "morta"
                       ELSE IF p.tipo = "marcar" THEN "salvar" ELSE "apagar"]]
        /\ UNCHANGED << notas, leituras, aba, contas >>

\* save of the row as read: one deleted in between comes back.
Salvar(r) ==
    LET p == pedidos[r]
    IN  /\ p.fase = "salvar"
        /\ notas' = [notas EXCEPT ![p.nota] =
              [@ EXCEPT !.lida = p.tipo = "marcar", !.apagada = FALSE]]
        /\ Escreve(r, IF p.tipo = "marcar" THEN "fim" ELSE "avisar")
        /\ UNCHANGED << leituras, aba, contas >>

\* softDelete
Apagar(r) ==
    /\ pedidos[r].fase = "apagar"
    /\ notas' = [notas EXCEPT ![pedidos[r].nota].apagada = TRUE]
    /\ Escreve(r, "fim")
    /\ UNCHANGED << leituras, aba, contas >>

\* One UPDATE for all of them; the clean-up takes those that are old enough.
Atualizar(r) ==
    LET tipo == pedidos[r].tipo
    IN  /\ pedidos[r].fase = "atualizar"
        /\ \/ /\ tipo = "todas"
              /\ notas' = [n \in Usadas |-> [notas[n] EXCEPT !.lida = TRUE]]
           \/ /\ tipo = "limpar"
              /\ \E s \in SUBSET { n \in Usadas : Viva(n) } :
                    notas' = [n \in Usadas |-> [notas[n] EXCEPT !.apagada = @ \/ n \in s]]
        /\ Escreve(r, "fim")
        /\ UNCHANGED << leituras, aba, contas >>

\* dispatchSavedNotifications: to whoever listens now; the user has it among the types
\* wanted in the application.
\* Mutant: one that had been there is not announced again.
AvisarSoNovas(r) ==
    LET n == pedidos[r].nota
    IN  /\ pedidos[r].fase = "avisar"
        /\ fila' = IF canal /\ n = Len(notas)
                   THEN Append(fila, [tipo |-> "nova", nota |-> n]) ELSE fila
        /\ Some(r)
        /\ UNCHANGED << notas, leituras, canal, tela, perdidas, contas >>
Avisar(r) ==
    LET n == pedidos[r].nota
    IN  /\ pedidos[r].fase = "avisar"
        /\ fila' = IF canal THEN Append(fila, [tipo |-> "nova", nota |-> n])
                   ELSE fila
        /\ Some(r)
        /\ UNCHANGED << notas, leituras, canal, tela, perdidas, contas >>

\* The answer arrives.
Responder(r) ==
    /\ pedidos[r].fase = "pronta" /\ Some(r)
    /\ UNCHANGED << notas, leituras, aba, contas >>

\* The server's part comes to nothing: the call never arrives, or a query throws; that of
\* the preferences, when the notification is saved already.
Falhar(r) ==
    LET p == pedidos[r]
    IN  /\ p.fase \in {"procurar", "inserir", "buscar", "salvar", "atualizar", "apagar",
                       "avisar"}
        /\ pedidos' = [pedidos EXCEPT ![r] =
              IF p.espera THEN [p EXCEPT !.fase = "morta"] ELSE Livre]
        /\ perdidas' = IF p.fase = "avisar" THEN perdidas \cup ({p.nota} \ tela.ids)
                       ELSE perdidas
        /\ UNCHANGED << notas, leituras, fila, canal, tela, contas >>

\* The call has failed, as far as the tab can tell: marcarComoLida fetches the list
\* again (what it took off stays off if that fails too), the others put back what was
\* there before, excluirNotificacao but for the count.  The server may go on.
Desistir(r) ==
    LET p == pedidos[r]
    IN  /\ p # Livre /\ p.espera
        /\ pedidos' = [pedidos EXCEPT ![r] =
              IF p.fase \in {"pronta", "morta"} THEN Livre ELSE [p EXCEPT !.espera = FALSE]]
        /\ \/ /\ p.tipo = "marcar" /\ leituras["sonda"] = Livre
              /\ leituras' = [leituras EXCEPT !["sonda"] = Pedida]
              /\ perdidas' = perdidas \cup (Faltam(tela, fila) \cap {p.nota})
              /\ UNCHANGED tela
           \/ /\ p.tipo = "todas" /\ Trocar(p.antes, fila) /\ UNCHANGED leituras
           \/ /\ p.tipo = "excluir" /\ Trocar([tela EXCEPT !.ids = p.antes.ids], fila)
              /\ UNCHANGED leituras
        /\ UNCHANGED << notas, fila, canal, contas >>

\* Nobody waits for an error.
Sumir(r) ==
    /\ pedidos[r].fase = "morta" /\ ~pedidos[r].espera /\ Some(r)
    /\ UNCHANGED << notas, leituras, aba, contas >>

\* The server stops and starts again: what was in progress is not continued, and the
\* streams are gone.
Reiniciar ==
    /\ reinicios < MaxReinicios /\ reinicios' = reinicios + 1
    /\ pedidos' = [r \in Reqs |->
          IF pedidos[r] # Livre /\ pedidos[r].espera
          THEN [pedidos[r] EXCEPT !.fase = "morta"] ELSE Livre]
    /\ leituras' = [l \in DOMAIN leituras |-> Livre]
    /\ fila' = << >> /\ canal' = FALSE
    /\ UNCHANGED << notas, tela, perdidas, chegaram >>

-----------------------------------------------------------------------------
Chegar(r) ==
    \/ \E k \in Chaves : PedirCriacao(r, k)
    \/ PedirLimpeza(r)
    \/ \E n \in Notas : PedirMarcar(r, n) \/ PedirExcluir(r, n)
    \/ PedirTodas(r)

\* The server's part of a job or call.
Continuar(r) ==
    \/ Procurar(r)
    \/ Inserir(r)
    \/ Buscar(r)
    \/ Salvar(r)
    \/ Apagar(r)
    \/ Atualizar(r)
    \/ Avisar(r)
    \/ Falhar(r)
    \/ Sumir(r)

Next ==
    \/ \E r \in Reqs : Chegar(r) \/ Continuar(r) \/ Responder(r) \/ Desistir(r)
    \/ \E l \in {"inicio", "sonda"} : Consultar(l)
    \/ Enviar
    \/ Assinar
    \/ Cair
    \/ Receber
    \/ Sondar
    \/ ReceberLista
    \/ FalharLista
    \/ Reiniciar

Spec == Init /\ [][Next]_vars
-----------------------------------------------------------------------------
TypeOK ==
    /\ notas \in Seq([chave: Chaves, lida: BOOLEAN, apagada: BOOLEAN])
    /\ Len(notas) <= MaxNotas
    /\ pedidos \in [Reqs -> Pedido \cup {Livre}]
    /\ leituras \in [{"inicio", "sonda"} -> Leitura \cup {Livre}]
    /\ fila \in Seq(Evento) /\ (~canal => fila = << >>)
    /\ canal \in BOOLEAN
    /\ tela \in Tela /\ perdidas \subseteq Notas
    /\ chegaram \in 0 .. MaxPedidos /\ reinicios \in 0 .. MaxReinicios

\* A tab with its stream open and nothing under way shows every unread notification,
\* but for those a whole list took off or left out (one read before they were saved, or
\* the state put back after a failed call), those a call that failed to mark them as read
\* took off, and those that were saved and whose push failed.
NadaFaltaNaTelaQuieta ==
    /\ canal /\ fila = << >>
    /\ \A r \in Reqs : pedidos[r] = Livre
    /\ \A l \in DOMAIN leituras : leituras[l] = Livre
    => NaoLidas \subseteq tela.ids \cup perdidas

\* The badge departs from what is listed only when the tab marks as read one that is
\* not listed, or when a deletion that failed is undone, or what was undone was wrong.
ContagemSoErraPorMarcaOuVolta ==
    [][ tela.total = Cardinality(tela.ids) /\ tela'.total # Cardinality(tela'.ids)
        => \E r \in Reqs :
              \/ /\ pedidos[r] = Livre /\ pedidos'[r] # Livre
                 /\ pedidos'[r].tipo = "marcar" /\ pedidos'[r].nota \notin tela.ids
              \/ /\ pedidos[r] # Livre /\ pedidos[r].espera /\ pedidos'[r] # pedidos[r]
                 /\ \/ pedidos[r].tipo = "excluir"
                    \/ pedidos[r].antes.total # Cardinality(pedidos[r].antes.ids) ]_vars

\* There is one notification about a recurrent matter: a second one takes a job or call
\* that others' writes crossed.
SegundaSoPorCruzamento ==
    [][ \A k \in Recorrentes :
           Cardinality(Existentes(k)) = 1 /\ Cardinality(Existentes(k)') = 2
           => \E r \in Reqs :
                 /\ pedidos[r] # Livre /\ ~pedidos[r].so /\ pedidos'[r] # pedidos[r]
                 /\ pedidos[r].fase \in {"inserir", "salvar"} ]_vars
=============================================================================
