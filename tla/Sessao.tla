-------------------------------- MODULE Sessao --------------------------------
(***************************************************************************)
(* A browser and its session: AuthContext.tsx in each tab, the interceptors *)
(* of api.ts, the cookies the tabs share, and on the server the login,     *)
(* refresh, logout and profile of AuthController and AuthService with the  *)
(* list of revoked refresh tokens in Redis.                                *)
(*                                                                         *)
(* A request leaves with the cookies of that moment; it or its answer may  *)
(* be lost or late.  A tab keeps no token: it renews every 45 minutes by a *)
(* timer, 30 seconds after a network error by another one nobody cancels.  *)
(***************************************************************************)
EXTENDS Naturals, Sequences

CONSTANTS
    Abas,           \* tabs of the browser
    Chamadas,       \* slots of calls in progress ...
    Renovadoras,    \* ... those the refresh timers use
    Usuarios,       \* user accounts
    MaxEntradas,    \* bound: successful logins
    MaxRetentativas,\* bound: 30-second timers of a tab
    Ninguem         \* no user, no token

ASSUME ChamadasAssumption == Renovadoras \subseteq Chamadas
ASSUME LimitesAssumption == MaxEntradas \in Nat /\ MaxRetentativas \in Nat \ {0}
ASSUME SentinelaAssumption == Ninguem \notin Usuarios \cup 1 .. MaxEntradas

VARIABLES
    tela,           \* the user each tab shows as logged in
    timer,          \* the 45-minute timer of each tab is running
    retentativas,   \* 30-second timers of each tab
    acesso,         \* cookie access_token: whose it is
    renovacao,      \* cookie refresh_token: its jti
    cruzou,         \* history: since the cookies were last replaced, the answer to an
                    \* older refresh has put its access token among them
    chamadas,       \* the calls in progress
    ativo,          \* accounts that are active
    donos,          \* the user each refresh token was issued to, by jti
    revogados,      \* the list in Redis
    redis           \* the server's connection to Redis

cookies == << acesso, renovacao, cruzou >>
navegador == << tela, timer, retentativas, cookies >>
servidor == << ativo, donos, revogados, redis >>
vars == << navegador, chamadas, servidor >>

Jtis == 1 .. MaxEntradas
Quem == Usuarios \cup {Ninguem}

\* perfil is the first call of a page, renovarCarga and perfil2 those that follow its
\* 401; dados stands for any other endpoint.  velha is history: the session of the
\* browser has changed since the call was sent.  orfa: its page is gone.
Tipos == { "entrar", "renovar", "sair", "preferencias", "dados",
           "perfil", "renovarCarga", "perfil2" }
Chamada == [ tipo: Tipos, aba: Abas, de: Quem, acesso: Quem,
             jti: Jtis \cup {Ninguem}, fase: {"ida", "conta", "limpar", "volta"},
             resp: {"nada", "ok", "401", "500"}, velha: BOOLEAN, orfa: BOOLEAN ]
Livre == [fase |-> "livre"]

EmCurso(c) == chamadas[c] # Livre
Conectado == redis = "conectado"

\* Some timer or call of the tab will still renew, or close the session.
TemRenovacao(a) ==
    \/ timer[a] \/ retentativas[a] > 0
    \/ \E c \in Chamadas : /\ EmCurso(c) /\ chamadas[c].aba = a /\ ~chamadas[c].orfa
                           /\ chamadas[c].tipo \in {"renovar", "renovarCarga"}

-----------------------------------------------------------------------------
Init ==
    /\ tela = [a \in Abas |-> Ninguem]
    /\ timer = [a \in Abas |-> FALSE]
    /\ retentativas = [a \in Abas |-> 0]
    /\ acesso = Ninguem /\ renovacao = Ninguem /\ cruzou = FALSE
    /\ chamadas = [c \in Chamadas |-> Livre]
    /\ ativo = [u \in Usuarios |-> TRUE]
    /\ donos = << >>
    /\ revogados = {}
    /\ redis = "conectado"

-----------------------------------------------------------------------------
(* The tabs send. *)

Nova(tipo, a, u) ==
    [ tipo |-> tipo, aba |-> a, de |-> u, acesso |-> acesso, jti |-> renovacao,
      fase |-> "ida", resp |-> "nada", velha |-> FALSE, orfa |-> FALSE ]

Enviar(c, tipo, a, u) ==
    /\ ~EmCurso(c)
    /\ c \in Renovadoras <=> tipo = "renovar"
    /\ chamadas' = [chamadas EXCEPT ![c] = Nova(tipo, a, u)]

\* The login page is open to someone who is logged in, too.
Entrar(c, a, u) ==
    /\ Enviar(c, "entrar", a, u)
    /\ UNCHANGED << navegador, servidor >>

Sair(c, a) ==
    /\ tela[a] # Ninguem
    /\ Enviar(c, "sair", a, tela[a])
    /\ UNCHANGED << navegador, servidor >>

\* The theme and the settings page keep the user they were rendered with.
Usar(c, a) ==
    /\ tela[a] # Ninguem
    /\ \E tipo \in {"preferencias", "dados"} : Enviar(c, tipo, a, tela[a])
    /\ UNCHANGED << navegador, servidor >>

\* A timer calls refreshTokens.
Disparar(c, a) ==
    /\ \/ timer[a] /\ timer' = [timer EXCEPT ![a] = FALSE] /\ UNCHANGED retentativas
       \/ /\ retentativas[a] > 0
          /\ retentativas' = [retentativas EXCEPT ![a] = @ - 1]
          /\ UNCHANGED timer
    /\ Enviar(c, "renovar", a, Ninguem)
    /\ UNCHANGED << tela, cookies, servidor >>

\* The page is (re)loaded: timers and continuations are gone, the server goes on.
\* checkAuthStatus asks whose the cookie is.
Recarregar(c, a) ==
    /\ ~EmCurso(c) /\ c \notin Renovadoras
    /\ tela' = [tela EXCEPT ![a] = Ninguem]
    /\ timer' = [timer EXCEPT ![a] = FALSE]
    /\ retentativas' = [retentativas EXCEPT ![a] = 0]
    /\ chamadas' = [d \in Chamadas |->
          IF d = c THEN Nova("perfil", a, Ninguem)
          ELSE IF EmCurso(d) /\ chamadas[d].aba = a
               THEN [chamadas[d] EXCEPT !.orfa = TRUE] ELSE chamadas[d]]
    /\ UNCHANGED << cookies, servidor >>

-----------------------------------------------------------------------------
(* The server. *)

Avancar(c, fase) == chamadas' = [chamadas EXCEPT ![c].fase = fase]
Responder(c, resp) ==
    chamadas' = [chamadas EXCEPT ![c].fase = "volta", ![c].resp = resp]

\* login with good credentials: the token is issued and the user marked online, which
\* fails without Redis.
AtenderEntrada(c) ==
    LET p == chamadas[c]
        pode == ativo[p.de] /\ Conectado
    IN  /\ p.tipo = "entrar" /\ p.fase = "ida"
        /\ IF pode
           THEN /\ Len(donos) < MaxEntradas
                /\ donos' = Append(donos, p.de)
                /\ chamadas' = [chamadas EXCEPT ![c] =
                      [p EXCEPT !.fase = "volta", !.resp = "ok",
                                !.acesso = p.de, !.jti = Len(donos')]]
           ELSE Responder(c, "401") /\ UNCHANGED donos
        /\ UNCHANGED << navegador, ativo, revogados, redis >>

\* refresh: the list is asked first; without Redis nothing is revoked.
\* Mutant: the list is not asked.
ConsultarListaSempreLivre(c) ==
    LET p == chamadas[c]
    IN  /\ p.tipo \in {"renovar", "renovarCarga"} /\ p.fase = "ida"
        /\ IF p.jti = Ninguem THEN Responder(c, "401") ELSE Avancar(c, "conta")
        /\ UNCHANGED << navegador, servidor >>
ConsultarLista(c) ==
    LET p == chamadas[c]
    IN  /\ p.tipo \in {"renovar", "renovarCarga"} /\ p.fase = "ida"
        /\ IF p.jti = Ninguem \/ (Conectado /\ p.jti \in revogados)
           THEN Responder(c, "401") ELSE Avancar(c, "conta")
        /\ UNCHANGED << navegador, servidor >>

\* ... and then the account: a new access token for its owner.
\* Mutant: an inactive account is renewed.
ConsultarContaInativa(c) ==
    LET p == chamadas[c]
    IN  /\ p.fase = "conta"
        /\ chamadas' = [chamadas EXCEPT ![c] =
              [p EXCEPT !.fase = "volta", !.resp = "ok", !.acesso = donos[p.jti]]]
        /\ UNCHANGED << navegador, servidor >>
\* Mutant: the token names its jti where the user belongs.
ConsultarContaComJti(c) ==
    LET p == chamadas[c]
    IN  /\ p.fase = "conta"
        /\ IF ativo[donos[p.jti]]
           THEN chamadas' = [chamadas EXCEPT ![c] =
                   [p EXCEPT !.fase = "volta", !.resp = "ok", !.acesso = p.jti]]
           ELSE Responder(c, "401")
        /\ UNCHANGED << navegador, servidor >>
ConsultarConta(c) ==
    LET p == chamadas[c]
    IN  /\ p.fase = "conta"
        /\ IF ativo[donos[p.jti]]
           THEN chamadas' = [chamadas EXCEPT ![c] =
                   [p EXCEPT !.fase = "volta", !.resp = "ok", !.acesso = donos[p.jti]]]
           ELSE Responder(c, "401")
        /\ UNCHANGED << navegador, servidor >>

\* The endpoints behind JwtAuthGuard.
AtenderProtegida(c) ==
    LET p == chamadas[c]
    IN  /\ p.tipo \in {"perfil", "perfil2", "preferencias", "dados"} /\ p.fase = "ida"
        /\ Responder(c, IF p.acesso # Ninguem /\ ativo[p.acesso] THEN "ok" ELSE "401")
        /\ UNCHANGED << navegador, servidor >>

\* logout: a failure to write the list is swallowed ...
Revogar(c) ==
    LET p == chamadas[c]
    IN  /\ p.tipo = "sair" /\ p.fase = "ida"
        /\ IF p.acesso = Ninguem /\ p.jti = Ninguem THEN Responder(c, "ok")
           ELSE Avancar(c, "limpar")
        /\ revogados' = IF Conectado /\ p.jti # Ninguem THEN revogados \cup {p.jti}
                        ELSE revogados
        /\ UNCHANGED << navegador, ativo, donos, redis >>

\* ... one to take the user off the list of those online is not.
RemoverOnline(c) ==
    /\ chamadas[c].fase = "limpar"
    /\ Responder(c, IF Conectado THEN "ok" ELSE "500")
    /\ UNCHANGED << navegador, servidor >>

Atender(c) ==
    /\ EmCurso(c)
    /\ \/ AtenderEntrada(c)
       \/ ConsultarLista(c)
       \/ ConsultarConta(c)
       \/ AtenderProtegida(c)
       \/ Revogar(c)
       \/ RemoverOnline(c)

\* An administrator deactivates or reactivates an account.
MudarConta(u) ==
    /\ ativo' = [ativo EXCEPT ![u] = ~@]
    /\ UNCHANGED << navegador, chamadas, donos, revogados, redis >>

\* The connection drops and comes back; after five attempts ioredis gives up until
\* the process is started again.
MudarRedis ==
    /\ \/ redis = "conectado" /\ redis' = "caiu"
       \/ redis = "caiu" /\ redis' \in {"conectado", "desistiu"}
       \/ redis = "desistiu" /\ redis' = "conectado"
    /\ UNCHANGED << navegador, chamadas, ativo, donos, revogados >>

-----------------------------------------------------------------------------
(* The tabs receive. *)

\* updateUser(null) with the timer cleared.
Fechar(a) ==
    /\ tela' = [tela EXCEPT ![a] = Ninguem]
    /\ timer' = [timer EXCEPT ![a] = FALSE]
\* updateUser(u) with scheduleTokenRefresh.
\* Mutant: whoever is on screen stays.
AbrirSeFechada(a, u) ==
    /\ tela' = [tela EXCEPT ![a] = IF @ = Ninguem THEN u ELSE @]
    /\ timer' = [timer EXCEPT ![a] = TRUE]
Abrir(a, u) ==
    /\ tela' = [tela EXCEPT ![a] = u]
    /\ timer' = [timer EXCEPT ![a] = TRUE]
Encerrar(c) == chamadas' = [chamadas EXCEPT ![c] = Livre]
\* The cookies now belong to another session.
\* Mutant: a refresh token that is there is kept.
TrocarSessaoMantendo(c, u, jti) ==
    /\ acesso' = u /\ renovacao' = IF renovacao = Ninguem THEN jti ELSE renovacao
    /\ cruzou' = FALSE
    /\ chamadas' = [d \in Chamadas |->
          IF d = c THEN Livre
          ELSE IF EmCurso(d) THEN [chamadas[d] EXCEPT !.velha = TRUE] ELSE Livre]
TrocarSessao(c, u, jti) ==
    /\ acesso' = u /\ renovacao' = jti /\ cruzou' = FALSE
    /\ chamadas' = [d \in Chamadas |->
          IF d = c THEN Livre
          ELSE IF EmCurso(d) THEN [chamadas[d] EXCEPT !.velha = TRUE] ELSE Livre]

\* login: an error stays on the login page.
ReceberEntrada(c, r) ==
    LET p == chamadas[c]
    IN  /\ p.tipo = "entrar"
        /\ IF r = "ok" THEN Abrir(p.aba, p.de) /\ TrocarSessao(c, p.acesso, p.jti)
           ELSE Encerrar(c) /\ UNCHANGED << tela, timer, cookies >>
        /\ UNCHANGED << retentativas, servidor >>

\* refreshTokens: a network error arms the 30-second timer, any other one logs out.
\* Mutant: after a network error nothing is armed.
RenovadaSemRetentativa(a, r) ==
    \/ /\ r = "ok" /\ timer' = [timer EXCEPT ![a] = TRUE]
       /\ UNCHANGED << tela, retentativas >>
    \/ r = "rede" /\ UNCHANGED << tela, timer, retentativas >>
    \/ r \notin {"ok", "rede"} /\ Fechar(a) /\ UNCHANGED retentativas
Renovada(a, r) ==
    \/ /\ r = "ok" /\ timer' = [timer EXCEPT ![a] = TRUE]
       /\ UNCHANGED << tela, retentativas >>
    \/ /\ r = "rede" /\ retentativas[a] < MaxRetentativas
       /\ retentativas' = [retentativas EXCEPT ![a] = @ + 1]
       /\ UNCHANGED << tela, timer >>
    \/ r \notin {"ok", "rede"} /\ Fechar(a) /\ UNCHANGED retentativas

ReceberRenovacao(c, r) ==
    LET p == chamadas[c]
        q == IF r = "ok" THEN p.acesso ELSE acesso
    IN  /\ p.tipo \in {"renovar", "renovarCarga"}
        /\ Renovada(p.aba, r)
        /\ acesso' = q /\ cruzou' = (cruzou \/ (r = "ok" /\ p.velha))
        /\ chamadas' = [chamadas EXCEPT ![c] =
              IF p.tipo = "renovar" THEN Livre
              ELSE [Nova("perfil2", p.aba, Ninguem) EXCEPT !.acesso = q]]
        /\ UNCHANGED << renovacao, servidor >>

\* checkAuthStatus: after a 401 it renews and asks again, whatever became of it; the
\* second error is only logged.
ReceberPerfil(c, r) ==
    LET p == chamadas[c]
    IN  /\ p.tipo \in {"perfil", "perfil2"}
        /\ IF r = "ok" THEN Abrir(p.aba, p.acesso) /\ Encerrar(c)
           ELSE IF p.tipo = "perfil2"
                THEN Encerrar(c) /\ UNCHANGED << tela, timer >>
           ELSE IF r = "401"
                THEN /\ chamadas' = [chamadas EXCEPT ![c] =
                           Nova("renovarCarga", p.aba, Ninguem)]
                     /\ UNCHANGED << tela, timer >>
           ELSE /\ tela' = [tela EXCEPT ![p.aba] = Ninguem]
                /\ Encerrar(c) /\ UNCHANGED timer
        /\ UNCHANGED << retentativas, cookies, servidor >>

\* logout closes the session on screen whatever the answer.
ReceberSaida(c, r) ==
    LET p == chamadas[c]
    IN  /\ p.tipo = "sair"
        /\ Fechar(p.aba)
        /\ IF r = "ok" THEN TrocarSessao(c, Ninguem, Ninguem)
           ELSE Encerrar(c) /\ UNCHANGED cookies
        /\ UNCHANGED << retentativas, servidor >>

\* Any other call: a 401 is an AUTH_REQUIRED event, except on the login page; the
\* settings put the user they were rendered with on screen again.
ReceberUso(c, r) ==
    LET p == chamadas[c]
    IN  /\ p.tipo \in {"preferencias", "dados"}
        /\ IF r = "401" /\ tela[p.aba] # Ninguem THEN Fechar(p.aba)
           ELSE /\ tela' = IF r = "ok" /\ p.tipo = "preferencias"
                           THEN [tela EXCEPT ![p.aba] = p.de] ELSE tela
                /\ UNCHANGED timer
        /\ Encerrar(c)
        /\ UNCHANGED << retentativas, cookies, servidor >>

Receber(c, r) ==
    \/ ReceberEntrada(c, r)
    \/ ReceberRenovacao(c, r)
    \/ ReceberPerfil(c, r)
    \/ ReceberSaida(c, r)
    \/ ReceberUso(c, r)

Viva(c) == EmCurso(c) /\ ~chamadas[c].orfa

\* The answer arrives.
Entregar(c) ==
    /\ Viva(c) /\ chamadas[c].fase = "volta"
    /\ Receber(c, chamadas[c].resp)

\* The request does not reach the server or its answer does not come back: a network
\* error.  Or axios gives up after 30 seconds, which is none.
Perder(c) ==
    /\ Viva(c) /\ chamadas[c].fase \in {"ida", "volta"}
    /\ \E r \in {"rede", "demora"} : Receber(c, r)

\* Nobody waits for the answer.
Descartar(c) ==
    /\ EmCurso(c) /\ chamadas[c].orfa /\ chamadas[c].fase = "volta"
    /\ Encerrar(c)
    /\ UNCHANGED << navegador, servidor >>

\* The cookies live 50 or 60 minutes and 7 days.
Vencer ==
    /\ \/ /\ acesso' = Ninguem /\ renovacao' = renovacao
          /\ UNCHANGED chamadas
       \/ /\ acesso' = Ninguem /\ renovacao' = Ninguem
          /\ chamadas' = [d \in Chamadas |->
                IF EmCurso(d) THEN [chamadas[d] EXCEPT !.velha = TRUE] ELSE Livre]
    /\ UNCHANGED << tela, timer, retentativas, cruzou, servidor >>

Navegar(c, a) ==
    \/ Sair(c, a)
    \/ Usar(c, a)
    \/ Recarregar(c, a)
    \/ \E u \in Usuarios : Entrar(c, a, u)

Next ==
    \/ \E c \in Chamadas, a \in Abas : Navegar(c, a) \/ Disparar(c, a)
    \/ \E c \in Chamadas : \/ Atender(c)
                           \/ Entregar(c)
                           \/ Perder(c)
                           \/ Descartar(c)
    \/ \E u \in Usuarios : MudarConta(u)
    \/ MudarRedis
    \/ Vencer

Spec == Init /\ [][Next]_vars

\* Timers go off, the server works off what it got, nobody keeps an orphan; and of
\* refreshes sent again and again some reach the server and are answered in time.
Justica ==
    /\ \A a \in Abas : WF_vars(\E c \in Renovadoras : Disparar(c, a))
    /\ \A c \in Renovadoras : /\ SF_vars(Atender(c)) /\ SF_vars(Entregar(c))
                              /\ WF_vars(Descartar(c))

SpecJusta == Spec /\ Justica
-----------------------------------------------------------------------------
TypeOK ==
    /\ tela \in [Abas -> Quem]
    /\ timer \in [Abas -> BOOLEAN]
    /\ retentativas \in [Abas -> 0 .. MaxRetentativas]
    /\ acesso \in Quem
    /\ donos \in Seq(Usuarios)
    /\ renovacao \in 1 .. Len(donos) \cup {Ninguem}
    /\ cruzou \in BOOLEAN
    /\ chamadas \in [Chamadas -> {Livre} \cup Chamada]
    /\ ativo \in [Usuarios -> BOOLEAN]
    /\ revogados \subseteq 1 .. Len(donos)
    /\ redis \in {"conectado", "caiu", "desistiu"}

\* Who is shown as logged in has a timer, or a refresh on its way, that will renew the
\* session or close it: losing it takes an answer of the settings which comes after
\* the session was closed.
TelaSemRenovacaoSoPorPreferencias ==
    [][ \A a \in Abas :
           /\ tela'[a] # Ninguem /\ ~TemRenovacao(a)'
           => \/ tela[a] # Ninguem /\ ~TemRenovacao(a)
              \/ \E c \in Chamadas : /\ Viva(c) /\ chamadas'[c] = Livre
                                     /\ chamadas[c].tipo = "preferencias" ]_vars

\* Whose the cookies are: the access token's owner, or who a refresh would give one to.
DonoDosCookies == IF acesso = Ninguem /\ renovacao # Ninguem THEN donos[renovacao] ELSE acesso
MostraOutro(a) == tela[a] # Ninguem /\ DonoDosCookies \notin {Ninguem, tela[a]}

\* As long as no refresh crosses a change of session, a tab comes to show someone other
\* than the owner of the cookies only by a login in another tab, by the answer of a call
\* sent before the session changed, or by that of settings it saved when it did already.
TelaDeOutroSoPorOutraAbaOuAtraso ==
    [][ \A a \in Abas :
           MostraOutro(a)' /\ ~cruzou'
           => \/ MostraOutro(a)
              \/ \E c \in Chamadas :
                    /\ Viva(c) /\ chamadas'[c] # chamadas[c]
                    /\ \/ chamadas[c].velha
                       \/ chamadas[c].tipo = "entrar" /\ chamadas[c].aba # a
                       \/ /\ chamadas[c].tipo = "preferencias"
                          /\ chamadas[c].de # chamadas[c].acesso ]_vars

\* The access cookie names the owner of the refresh cookie; the one that comes back
\* after a logout, or is another's, was granted to a refresh sent before it.
AcessoAlheioSoPorAtraso ==
    [][ /\ acesso' # acesso /\ acesso' # Ninguem
        /\ renovacao' = Ninguem \/ donos'[renovacao'] # acesso'
        => \E c \in Chamadas : Viva(c) /\ chamadas'[c] # chamadas[c]
                                 /\ chamadas[c].velha ]_vars

\* A deactivated account does not stay on screen: the next refresh closes it, lost
\* requests or not, unless the cookies are another's by then.
Alheia(u) == renovacao # Ninguem /\ donos[renovacao] # u
DesativadaSai ==
    \A a \in Abas, u \in Usuarios :
       tela[a] = u /\ ~ativo[u] /\ ~Alheia(u) /\ TemRenovacao(a)
       ~> tela[a] # u \/ ativo[u] \/ Alheia(u)

\* Neither does a session whose logout reached the server but was not confirmed, once
\* Redis is there to stay.
RevogadaSai ==
    <>[]Conectado =>
       \A a \in Abas, j \in Jtis :
          tela[a] # Ninguem /\ renovacao = j /\ j \in revogados /\ TemRenovacao(a)
          ~> tela[a] = Ninguem \/ renovacao # j
=============================================================================
