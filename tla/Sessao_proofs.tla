---------------------------- MODULE Sessao_proofs ----------------------------
(* Theorems about Sessao, for any number of tabs, calls, accounts and logins. *)
EXTENDS Sessao, TLAPS

Renova == { "renovar", "renovarCarga" }

\* What a call p holds, if d are the owners of the refresh tokens, j is the refresh
\* cookie and x says that a refresh has crossed a change of session.
Coerente(p, d, j, x) ==
    /\ p.jti \in 1 .. Len(d) \cup {Ninguem}
    /\ p.fase = "conta" => p.tipo \in Renova /\ p.jti # Ninguem
    /\ p.fase = "limpar" => p.tipo = "sair"
    /\ p.tipo = "entrar" => p.de \in Usuarios
    /\ p.fase = "volta" /\ p.resp = "ok" /\ p.tipo = "entrar" => p.acesso = p.de
    /\ p.fase = "volta" /\ p.resp = "ok" /\ p.tipo \in Renova \cup {"entrar"} =>
          p.jti # Ninguem /\ p.acesso = d[p.jti]
    /\ ~p.velha /\ p.tipo \in Renova => p.jti = j
    /\ ~p.velha /\ ~x /\ p.tipo # "entrar" /\ p.acesso # Ninguem =>
          j # Ninguem /\ d[j] = p.acesso

\* The access cookie is of the owner of the refresh cookie, but for a crossing.
CookiesCertos(q, d, j, x) == ~x /\ q # Ninguem => j # Ninguem /\ d[j] = q

\* The part of the types that no call depends on.
TiposDoResto ==
    /\ tela \in [Abas -> Quem]
    /\ timer \in [Abas -> BOOLEAN]
    /\ retentativas \in [Abas -> 0 .. MaxRetentativas]
    /\ ativo \in [Usuarios -> BOOLEAN]
    /\ redis \in {"conectado", "caiu", "desistiu"}

SessaoInv ==
    /\ TypeOK
    /\ Len(donos) <= MaxEntradas
    /\ CookiesCertos(acesso, donos, renovacao, cruzou)
    /\ \A c \in Chamadas : EmCurso(c) => Coerente(chamadas[c], donos, renovacao, cruzou)

-----------------------------------------------------------------------------
(* What the steps do to a call. *)

LEMMA ChamadaEmCurso ==
    ASSUME SessaoInv, NEW c \in Chamadas
    PROVE  /\ EmCurso(c) <=> chamadas[c] \in Chamada
           /\ chamadas[c].fase # "livre" <=> EmCurso(c)
           /\ EmCurso(c) => Coerente(chamadas[c], donos, renovacao, cruzou)
BY DEF SessaoInv, TypeOK, EmCurso, Livre, Chamada

\* A token more is nobody's yet.
LEMMA CoerenteComMaisUm ==
    ASSUME NEW p, NEW d \in Seq(Usuarios), NEW u \in Usuarios, NEW x,
           NEW j \in 1 .. Len(d) \cup {Ninguem}, Ninguem \notin 1 .. Len(d),
           Coerente(p, d, j, x)
    PROVE  Coerente(p, Append(d, u), j, x)
<1>1. /\ Len(Append(d, u)) = Len(d) + 1
      /\ \A i \in 1 .. Len(d) : Append(d, u)[i] = d[i] /\ i \in 1 .. Len(d) + 1
      /\ Len(d) \in Nat
  OBVIOUS
<1>. QED  BY <1>1 DEF Coerente

\* A call sent before the session changed is bound to it no more.
LEMMA CoerenteVelha ==
    ASSUME NEW p \in Chamada, NEW d, NEW j, NEW x, NEW j1, NEW x1, Coerente(p, d, j, x)
    PROVE  /\ [p EXCEPT !.velha = TRUE] \in Chamada
           /\ Coerente([p EXCEPT !.velha = TRUE], d, j1, x1)
<1>. DEFINE q == [p EXCEPT !.velha = TRUE]
<1>1. /\ q \in Chamada /\ q.jti = p.jti /\ q.fase = p.fase /\ q.tipo = p.tipo /\ q.de = p.de
      /\ q.resp = p.resp /\ q.acesso = p.acesso /\ q.velha = TRUE
  BY DEF Chamada
<1>. HIDE DEF q
<1>2. Coerente(q, d, j1, x1)
  BY <1>1 DEF Coerente
<1>. QED  BY <1>1, <1>2 DEF q

LEMMA CoerenteOrfa ==
    ASSUME NEW p \in Chamada, NEW d, NEW j, NEW x, Coerente(p, d, j, x)
    PROVE  /\ [p EXCEPT !.orfa = TRUE] \in Chamada
           /\ Coerente([p EXCEPT !.orfa = TRUE], d, j, x)
<1>. DEFINE q == [p EXCEPT !.orfa = TRUE]
<1>1. /\ q \in Chamada /\ q.jti = p.jti /\ q.fase = p.fase /\ q.tipo = p.tipo /\ q.de = p.de
      /\ q.resp = p.resp /\ q.acesso = p.acesso /\ q.velha = p.velha
  BY DEF Chamada
<1>. HIDE DEF q
<1>2. Coerente(q, d, j, x)
  BY <1>1 DEF Coerente
<1>. QED  BY <1>1, <1>2 DEF q

\* A call leaves with the cookies of the moment.
LEMMA NovaCoerente ==
    ASSUME SessaoInv, NEW tipo \in Tipos, NEW a \in Abas, NEW u \in Quem,
           tipo = "entrar" => u \in Usuarios
    PROVE  /\ Nova(tipo, a, u) \in Chamada
           /\ Coerente(Nova(tipo, a, u), donos, renovacao, cruzou)
           /\ Nova(tipo, a, u).tipo = tipo /\ Nova(tipo, a, u).aba = a
           /\ Nova(tipo, a, u).orfa = FALSE
<1>1. /\ acesso \in Quem /\ donos \in Seq(Usuarios) /\ Len(donos) <= MaxEntradas
      /\ renovacao \in 1 .. Len(donos) \cup {Ninguem}
      /\ CookiesCertos(acesso, donos, renovacao, cruzou)
  BY DEF SessaoInv, TypeOK
<1>2. renovacao \in Jtis \cup {Ninguem}
  BY <1>1, LimitesAssumption DEF Jtis
<1>3. Nova(tipo, a, u) \in Chamada
  BY <1>1, <1>2 DEF Nova, Chamada
<1>4. Coerente(Nova(tipo, a, u), donos, renovacao, cruzou)
  BY <1>1 DEF Nova, Coerente, CookiesCertos
<1>. QED  BY <1>3, <1>4 DEF Nova

LEMMA Avancada ==
    ASSUME SessaoInv, NEW c \in Chamadas, EmCurso(c), NEW fase \in {"conta", "limpar"},
           Avancar(c, fase),
           fase = "conta" => chamadas[c].tipo \in Renova /\ chamadas[c].jti # Ninguem,
           fase = "limpar" => chamadas[c].tipo = "sair"
    PROVE  \E q \in Chamada :
              /\ chamadas' = [chamadas EXCEPT ![c] = q]
              /\ Coerente(q, donos, renovacao, cruzou)
<1>. DEFINE p == chamadas[c]
            q == [p EXCEPT !.fase = fase]
<1>1. p \in Chamada /\ Coerente(p, donos, renovacao, cruzou)
  BY ChamadaEmCurso
<1>2. /\ q \in Chamada /\ q.jti = p.jti /\ q.fase = fase /\ q.tipo = p.tipo /\ q.de = p.de
      /\ q.resp = p.resp /\ q.acesso = p.acesso /\ q.velha = p.velha
      /\ q.aba = p.aba /\ q.orfa = p.orfa
  BY <1>1 DEF Chamada
<1>3. chamadas' = [chamadas EXCEPT ![c] = q]
  BY DEF Avancar
<1>. HIDE DEF q
<1>4. Coerente(q, donos, renovacao, cruzou)
  BY <1>1, <1>2 DEF Coerente
<1>. QED  BY <1>2, <1>3, <1>4

LEMMA Respondida ==
    ASSUME SessaoInv, NEW c \in Chamadas, EmCurso(c), NEW resp \in {"ok", "401", "500"},
           Responder(c, resp),
           resp = "ok" => chamadas[c].tipo \notin Renova \cup {"entrar"}
    PROVE  \E q \in Chamada :
              /\ chamadas' = [chamadas EXCEPT ![c] = q]
              /\ Coerente(q, donos, renovacao, cruzou)
<1>. DEFINE p == chamadas[c]
            q == [p EXCEPT !.fase = "volta", !.resp = resp]
<1>1. p \in Chamada /\ Coerente(p, donos, renovacao, cruzou)
  BY ChamadaEmCurso
<1>2. /\ q \in Chamada /\ q.jti = p.jti /\ q.fase = "volta" /\ q.tipo = p.tipo
      /\ q.de = p.de /\ q.resp = resp /\ q.acesso = p.acesso /\ q.velha = p.velha
      /\ q.aba = p.aba /\ q.orfa = p.orfa
  BY <1>1 DEF Chamada
<1>3. chamadas' = [chamadas EXCEPT ![c] = q]
  BY DEF Responder
<1>. HIDE DEF q
<1>4. Coerente(q, donos, renovacao, cruzou)
  BY <1>1, <1>2 DEF Coerente
<1>. QED  BY <1>2, <1>3, <1>4

-----------------------------------------------------------------------------
(* The inductive invariant. *)

LEMMA SessaoInvInit == Init => SessaoInv
<1>. SUFFICES ASSUME Init PROVE SessaoInv
  OBVIOUS
<1>1. donos \in Seq(Usuarios) /\ Len(donos) = 0
  BY DEF Init
<1>2. \A c \in Chamadas : ~EmCurso(c)
  BY DEF Init, EmCurso
<1>3. /\ tela \in [Abas -> Quem] /\ acesso \in Quem
      /\ timer \in [Abas -> BOOLEAN] /\ retentativas \in [Abas -> 0 .. MaxRetentativas]
  BY LimitesAssumption DEF Init, Quem
<1>4. chamadas \in [Chamadas -> {Livre} \cup Chamada]
  BY DEF Init
<1>5. TypeOK
  BY <1>1, <1>3, <1>4 DEF Init, TypeOK
<1>. QED  BY <1>1, <1>2, <1>5, LimitesAssumption DEF Init, SessaoInv, CookiesCertos

LEMMA RestoDoInv == SessaoInv => TiposDoResto
BY DEF SessaoInv, TypeOK, TiposDoResto

\* One call changes, the session does not.
LEMMA SoUmaChamada ==
    ASSUME SessaoInv, NEW c \in Chamadas, NEW q \in {Livre} \cup Chamada,
           chamadas' = [chamadas EXCEPT ![c] = q],
           q # Livre => Coerente(q, donos, renovacao, cruzou),
           UNCHANGED << donos, cookies >>,
           revogados' \subseteq 1 .. Len(donos),
           TiposDoResto'
    PROVE  SessaoInv'
<1>1. UNCHANGED << donos, acesso, renovacao, cruzou >>
  BY DEF cookies
<1>2. TypeOK'
  BY <1>1 DEF SessaoInv, TypeOK, TiposDoResto
<1>3. \A d \in Chamadas : chamadas'[d] = IF d = c THEN q ELSE chamadas[d]
  BY DEF SessaoInv, TypeOK
<1>. QED  BY <1>1, <1>2, <1>3 DEF SessaoInv, EmCurso

\* The session changes: every call left is of the one before.
LEMMA TrocaMantem ==
    ASSUME SessaoInv, NEW c \in Chamadas, NEW u \in Quem,
           NEW j \in 1 .. Len(donos) \cup {Ninguem},
           u # Ninguem => j # Ninguem /\ donos[j] = u,
           TrocarSessao(c, u, j),
           UNCHANGED << donos, revogados >>, TiposDoResto'
    PROVE  SessaoInv'
<1>1. ASSUME NEW d \in Chamadas
      PROVE  /\ chamadas'[d] \in {Livre} \cup Chamada
             /\ chamadas'[d] # Livre => Coerente(chamadas'[d], donos, j, FALSE)
  <2>1. CASE d # c /\ EmCurso(d)
    <3>1. chamadas[d] \in Chamada /\ Coerente(chamadas[d], donos, renovacao, cruzou)
      BY <2>1, ChamadaEmCurso
    <3>2. chamadas'[d] = [chamadas[d] EXCEPT !.velha = TRUE]
      BY <2>1 DEF TrocarSessao
    <3>3. /\ [chamadas[d] EXCEPT !.velha = TRUE] \in Chamada
          /\ Coerente([chamadas[d] EXCEPT !.velha = TRUE], donos, j, FALSE)
      BY <3>1, CoerenteVelha
    <3>. QED  BY <3>2, <3>3
  <2>2. CASE ~(d # c /\ EmCurso(d))
    BY <2>2 DEF TrocarSessao
  <2>. QED  BY <2>1, <2>2
<1>2. chamadas' \in [Chamadas -> {Livre} \cup Chamada]
  <2>. DEFINE f == [d \in Chamadas |->
          IF d = c THEN Livre
          ELSE IF EmCurso(d) THEN [chamadas[d] EXCEPT !.velha = TRUE] ELSE Livre]
  <2>1. chamadas' = f
    BY DEF TrocarSessao
  <2>2. f = [d \in Chamadas |-> f[d]]
    OBVIOUS
  <2>. QED  BY <1>1, <2>1, <2>2
<1>3. acesso' = u /\ renovacao' = j /\ cruzou' = FALSE
  BY DEF TrocarSessao
<1>4. TypeOK'
  BY <1>2, <1>3 DEF SessaoInv, TypeOK, TiposDoResto
<1>. QED  BY <1>1, <1>3, <1>4 DEF SessaoInv, CookiesCertos, EmCurso

\* A tab sends.
LEMMA EnviarMantem ==
    ASSUME SessaoInv, NEW c \in Chamadas, NEW tipo \in Tipos, NEW a \in Abas, NEW u \in Quem,
           tipo = "entrar" => u \in Usuarios,
           Enviar(c, tipo, a, u), UNCHANGED << donos, revogados, cookies >>, TiposDoResto'
    PROVE  SessaoInv'
<1>1. Nova(tipo, a, u) \in Chamada /\ Coerente(Nova(tipo, a, u), donos, renovacao, cruzou)
  BY NovaCoerente
<1>2. chamadas' = [chamadas EXCEPT ![c] = Nova(tipo, a, u)]
         /\ revogados' \subseteq 1 .. Len(donos)
  BY DEF Enviar, SessaoInv, TypeOK
<1>. QED  BY <1>1, <1>2, SoUmaChamada

LEMMA NavegarMantem ==
    ASSUME SessaoInv, NEW c \in Chamadas, NEW a \in Abas,
           Navegar(c, a) \/ Disparar(c, a)
    PROVE  SessaoInv'
<1>0. TiposDoResto /\ tela[a] \in Quem /\ timer[a] \in BOOLEAN
         /\ retentativas[a] \in 0 .. MaxRetentativas
  BY RestoDoInv DEF TiposDoResto
<1>1. CASE Sair(c, a)
  <2>1. TiposDoResto' /\ UNCHANGED << donos, revogados, cookies >>
    BY <1>0, <1>1 DEF Sair, navegador, servidor, TiposDoResto
  <2>2. Enviar(c, "sair", a, tela[a]) /\ "sair" \in Tipos
    BY <1>1 DEF Sair, Tipos
  <2>. QED  BY <1>0, <2>1, <2>2, EnviarMantem
<1>2. CASE Usar(c, a)
  <2>1. TiposDoResto' /\ UNCHANGED << donos, revogados, cookies >>
    BY <1>0, <1>2 DEF Usar, navegador, servidor, TiposDoResto
  <2>2. PICK tipo \in {"preferencias", "dados"} : Enviar(c, tipo, a, tela[a])
    BY <1>2 DEF Usar
  <2>3. tipo \in Tipos /\ tipo # "entrar"
    BY DEF Tipos
  <2>. QED  BY <1>0, <2>1, <2>2, <2>3, EnviarMantem
<1>3. ASSUME NEW u \in Usuarios, Entrar(c, a, u) PROVE SessaoInv'
  <2>1. TiposDoResto' /\ UNCHANGED << donos, revogados, cookies >>
    BY <1>0, <1>3 DEF Entrar, navegador, servidor, TiposDoResto
  <2>2. Enviar(c, "entrar", a, u) /\ "entrar" \in Tipos /\ u \in Quem
    BY <1>3 DEF Entrar, Tipos, Quem
  <2>. QED  BY <2>1, <2>2, EnviarMantem
<1>4. CASE Disparar(c, a)
  <2>1. UNCHANGED << donos, revogados, cookies, tela, ativo, redis >>
    BY <1>4 DEF Disparar, servidor
  <2>2. timer' \in [Abas -> BOOLEAN] /\ retentativas' \in [Abas -> 0 .. MaxRetentativas]
    <3>1. CASE timer' = [timer EXCEPT ![a] = FALSE] /\ UNCHANGED retentativas
      BY <1>0, <3>1 DEF TiposDoResto
    <3>2. CASE /\ retentativas[a] > 0
               /\ retentativas' = [retentativas EXCEPT ![a] = @ - 1]
               /\ UNCHANGED timer
      <4>1. retentativas[a] - 1 \in 0 .. MaxRetentativas
        BY <1>0, <3>2, LimitesAssumption
      <4>. QED  BY <1>0, <3>2, <4>1 DEF TiposDoResto
    <3>. QED  BY <1>4, <3>1, <3>2 DEF Disparar
  <2>3. TiposDoResto'
    BY <1>0, <2>1, <2>2 DEF TiposDoResto
  <2>4. Enviar(c, "renovar", a, Ninguem) /\ "renovar" \in Tipos /\ Ninguem \in Quem
    BY <1>4 DEF Disparar, Tipos, Quem
  <2>. QED  BY <2>1, <2>3, <2>4, EnviarMantem
<1>5. CASE Recarregar(c, a)
  <2>1. TiposDoResto' /\ UNCHANGED << donos, revogados, acesso, renovacao, cruzou >>
    BY <1>0, <1>5, LimitesAssumption
       DEF Recarregar, cookies, servidor, TiposDoResto, Quem
  <2>2. Nova("perfil", a, Ninguem) \in Chamada
           /\ Coerente(Nova("perfil", a, Ninguem), donos, renovacao, cruzou)
    <3>1. "perfil" \in Tipos /\ Ninguem \in Quem
      BY DEF Tipos, Quem
    <3>. QED  BY <3>1, NovaCoerente
  <2>3. ASSUME NEW d \in Chamadas
        PROVE  /\ chamadas'[d] \in {Livre} \cup Chamada
               /\ chamadas'[d] # Livre => Coerente(chamadas'[d], donos, renovacao, cruzou)
    <3>1. CASE d = c
      BY <1>5, <2>2, <3>1 DEF Recarregar
    <3>2. CASE d # c /\ EmCurso(d) /\ chamadas[d].aba = a
      BY <1>5, <3>2, ChamadaEmCurso, CoerenteOrfa DEF Recarregar
    <3>3. CASE d # c /\ ~(EmCurso(d) /\ chamadas[d].aba = a)
      BY <1>5, <3>3, ChamadaEmCurso DEF Recarregar, EmCurso
    <3>. QED  BY <3>1, <3>2, <3>3
  <2>4. chamadas' \in [Chamadas -> {Livre} \cup Chamada]
    <3>1. chamadas' = [d \in Chamadas |-> chamadas'[d]]
      BY <1>5 DEF Recarregar
    <3>. QED  BY <2>3, <3>1
  <2>5. TypeOK'
    BY <2>1, <2>4 DEF SessaoInv, TypeOK, TiposDoResto
  <2>. QED  BY <2>1, <2>3, <2>5 DEF SessaoInv, EmCurso
<1>. QED  BY <1>1, <1>2, <1>3, <1>4, <1>5 DEF Navegar

\* The server answers, or goes on with, one call.
LEMMA AtenderMantem ==
    ASSUME SessaoInv, NEW c \in Chamadas, Atender(c)
    PROVE  SessaoInv'
<1>. DEFINE p == chamadas[c]
<1>0. /\ EmCurso(c) /\ p \in Chamada /\ Coerente(p, donos, renovacao, cruzou)
      /\ TiposDoResto /\ revogados \subseteq 1 .. Len(donos)
  BY ChamadaEmCurso, RestoDoInv DEF Atender, SessaoInv, TypeOK
<1>a. ASSUME UNCHANGED << navegador, ativo, redis >>
      PROVE  TiposDoResto' /\ UNCHANGED cookies
  BY <1>0, <1>a DEF navegador, TiposDoResto
<1>b. ASSUME NEW resp \in {"ok", "401", "500"}, Responder(c, resp),
             resp = "ok" => p.tipo \notin Renova \cup {"entrar"},
             UNCHANGED << navegador, ativo, donos, redis >>,
             revogados' \subseteq 1 .. Len(donos)
      PROVE  SessaoInv'
  <2>1. PICK q \in Chamada : /\ chamadas' = [chamadas EXCEPT ![c] = q]
                             /\ Coerente(q, donos, renovacao, cruzou)
    BY <1>0, <1>b, Respondida
  <2>2. TiposDoResto' /\ UNCHANGED << donos, cookies >>
    BY <1>a, <1>b
  <2>. QED  BY <1>b, <2>1, <2>2, SoUmaChamada
<1>c. ASSUME NEW fase \in {"conta", "limpar"}, Avancar(c, fase),
             fase = "conta" => p.tipo \in Renova /\ p.jti # Ninguem,
             fase = "limpar" => p.tipo = "sair",
             UNCHANGED << navegador, ativo, donos, redis >>,
             revogados' \subseteq 1 .. Len(donos)
      PROVE  SessaoInv'
  <2>1. PICK q \in Chamada : /\ chamadas' = [chamadas EXCEPT ![c] = q]
                             /\ Coerente(q, donos, renovacao, cruzou)
    BY <1>0, <1>c, Avancada
  <2>2. TiposDoResto' /\ UNCHANGED << donos, cookies >>
    BY <1>a, <1>c
  <2>. QED  BY <1>c, <2>1, <2>2, SoUmaChamada
<1>1. CASE AtenderEntrada(c)
  <2>0. p.tipo = "entrar" /\ UNCHANGED << navegador, ativo, revogados, redis >>
    BY <1>1 DEF AtenderEntrada
  <2>1. CASE ativo[p.de] /\ Conectado
    <3>1. /\ Len(donos) < MaxEntradas /\ donos' = Append(donos, p.de)
          /\ chamadas' = [chamadas EXCEPT ![c] =
                [p EXCEPT !.fase = "volta", !.resp = "ok",
                          !.acesso = p.de, !.jti = Len(donos')]]
      BY <1>1, <2>1 DEF AtenderEntrada
    <3>2. /\ donos \in Seq(Usuarios) /\ Len(donos) \in Nat
          /\ renovacao \in 1 .. Len(donos) \cup {Ninguem}
          /\ CookiesCertos(acesso, donos, renovacao, cruzou) /\ p.de \in Usuarios
      BY <1>0, <2>0 DEF SessaoInv, TypeOK, Coerente
    <3>3. /\ donos' \in Seq(Usuarios) /\ Len(donos') = Len(donos) + 1
          /\ Len(donos') \in Jtis /\ donos'[Len(donos')] = p.de
          /\ \A i \in 1 .. Len(donos) : donos'[i] = donos[i] /\ i \in 1 .. Len(donos')
      BY <3>1, <3>2, LimitesAssumption DEF Jtis
    <3>. DEFINE q == [p EXCEPT !.fase = "volta", !.resp = "ok",
                               !.acesso = p.de, !.jti = Len(donos')]
    <3>4. /\ q \in Chamada /\ q.fase = "volta" /\ q.resp = "ok" /\ q.acesso = p.de
          /\ q.jti = Len(donos') /\ q.tipo = "entrar" /\ q.de = p.de
      BY <1>0, <2>0, <3>2, <3>3 DEF Chamada, Quem
    <3>5. chamadas' = [chamadas EXCEPT ![c] = q]
      BY <3>1
    <3>. HIDE DEF q
    <3>6. Coerente(q, donos', renovacao, cruzou)
      <4>1. q.jti \in 1 .. Len(donos') \cup {Ninguem}
        BY <3>2, <3>3, <3>4
      <4>2. q.jti # Ninguem
        BY <3>3, <3>4, SentinelaAssumption DEF Jtis
      <4>. QED  BY <3>2, <3>3, <3>4, <4>1, <4>2 DEF Coerente, Renova
    <3>7. \A d \in Chamadas : chamadas'[d] = IF d = c THEN q ELSE chamadas[d]
      BY <3>5 DEF SessaoInv, TypeOK
    <3>8. chamadas' \in [Chamadas -> {Livre} \cup Chamada]
      BY <3>4, <3>5 DEF SessaoInv, TypeOK
    <3>9. TiposDoResto' /\ UNCHANGED << acesso, renovacao, cruzou, revogados >>
      BY <1>a, <2>0 DEF cookies
    <3>10. TypeOK'
      <4>1. /\ renovacao' \in 1 .. Len(donos') \cup {Ninguem}
            /\ revogados' \subseteq 1 .. Len(donos')
        BY <1>0, <3>2, <3>3, <3>9
      <4>2. acesso' \in Quem /\ cruzou' \in BOOLEAN
        BY <3>9 DEF SessaoInv, TypeOK
      <4>. QED  BY <3>3, <3>8, <3>9, <4>1, <4>2 DEF TypeOK, TiposDoResto
    <3>11. CookiesCertos(acesso, donos', renovacao, cruzou)
      BY <3>2, <3>3 DEF CookiesCertos
    <3>12. ASSUME NEW d \in Chamadas, d # c, EmCurso(d)
           PROVE  Coerente(chamadas[d], donos', renovacao, cruzou)
      <4>1. Coerente(chamadas[d], donos, renovacao, cruzou)
        BY <3>12, ChamadaEmCurso
      <4>2. Ninguem \notin 1 .. Len(donos)
        BY <3>1, <3>2, LimitesAssumption, SentinelaAssumption
      <4>. QED  BY <3>1, <3>2, <4>1, <4>2, CoerenteComMaisUm
    <3>. QED  BY <3>1, <3>2, <3>3, <3>6, <3>7, <3>9, <3>10, <3>11, <3>12, LimitesAssumption
              DEF SessaoInv, EmCurso
  <2>2. CASE ~(ativo[p.de] /\ Conectado)
    <3>1. Responder(c, "401") /\ UNCHANGED donos
      BY <1>1, <2>2 DEF AtenderEntrada
    <3>. QED  BY <1>0, <1>b, <2>0, <3>1
  <2>. QED  BY <2>1, <2>2
<1>2. CASE ConsultarLista(c)
  <2>1. /\ p.tipo \in Renova /\ UNCHANGED << navegador, ativo, donos, revogados, redis >>
        /\ \/ Responder(c, "401")
           \/ p.jti # Ninguem /\ Avancar(c, "conta")
    BY <1>2 DEF ConsultarLista, Renova, servidor
  <2>. QED  BY <1>0, <1>b, <1>c, <2>1
<1>3. CASE ConsultarConta(c)
  <2>0. /\ p.fase = "conta" /\ UNCHANGED << navegador, ativo, donos, revogados, redis >>
        /\ p.tipo \in Renova /\ p.jti \in 1 .. Len(donos) /\ p.jti # Ninguem
    BY <1>0, <1>3 DEF ConsultarConta, servidor, Coerente
  <2>1. CASE ativo[donos[p.jti]]
    <3>. DEFINE q == [p EXCEPT !.fase = "volta", !.resp = "ok", !.acesso = donos[p.jti]]
    <3>1. chamadas' = [chamadas EXCEPT ![c] = q]
      BY <1>3, <2>1 DEF ConsultarConta
    <3>2. donos[p.jti] \in Quem
      BY <2>0 DEF SessaoInv, TypeOK, Quem
    <3>3. /\ q \in Chamada /\ q.fase = "volta" /\ q.resp = "ok" /\ q.acesso = donos[p.jti]
          /\ q.jti = p.jti /\ q.tipo = p.tipo /\ q.de = p.de /\ q.velha = p.velha
      BY <1>0, <3>2 DEF Chamada
    <3>. HIDE DEF q
    <3>4. Coerente(q, donos, renovacao, cruzou)
      BY <1>0, <2>0, <3>3 DEF Coerente, Renova
    <3>5. TiposDoResto' /\ UNCHANGED << donos, cookies >>
             /\ revogados' \subseteq 1 .. Len(donos)
      BY <1>0, <1>a, <2>0
    <3>. QED  BY <3>1, <3>3, <3>4, <3>5, SoUmaChamada
  <2>2. CASE ~ativo[donos[p.jti]]
    <3>1. Responder(c, "401")
      BY <1>3, <2>2 DEF ConsultarConta
    <3>. QED  BY <1>0, <1>b, <2>0, <3>1
  <2>. QED  BY <2>1, <2>2
<1>4. CASE AtenderProtegida(c)
  <2>1. /\ p.tipo \notin Renova \cup {"entrar"}
        /\ UNCHANGED << navegador, ativo, donos, revogados, redis >>
        /\ Responder(c, "ok") \/ Responder(c, "401")
    BY <1>4 DEF AtenderProtegida, Renova, servidor
  <2>. QED  BY <1>0, <1>b, <2>1
<1>5. CASE Revogar(c)
  <2>1. /\ p.tipo = "sair" /\ p.tipo \notin Renova \cup {"entrar"}
        /\ UNCHANGED << navegador, ativo, donos, redis >>
        /\ Responder(c, "ok") \/ Avancar(c, "limpar")
    BY <1>5 DEF Revogar, Renova
  <2>2. revogados' \subseteq 1 .. Len(donos)
    <3>1. p.jti # Ninguem => p.jti \in 1 .. Len(donos)
      BY <1>0 DEF Coerente
    <3>. QED  BY <1>0, <1>5, <3>1 DEF Revogar
  <2>. QED  BY <1>b, <1>c, <2>1, <2>2
<1>6. CASE RemoverOnline(c)
  <2>1. /\ p.tipo = "sair" /\ p.tipo \notin Renova \cup {"entrar"}
        /\ UNCHANGED << navegador, ativo, donos, revogados, redis >>
        /\ Responder(c, "ok") \/ Responder(c, "500")
    BY <1>0, <1>6 DEF RemoverOnline, Renova, servidor, Coerente
  <2>. QED  BY <1>0, <1>b, <2>1
<1>. QED  BY <1>1, <1>2, <1>3, <1>4, <1>5, <1>6 DEF Atender

\* A tab gets an answer, or gives up waiting for it.
LEMMA ReceberMantem ==
    ASSUME SessaoInv, NEW c \in Chamadas, NEW r, EmCurso(c), Receber(c, r),
           r = "ok" => chamadas[c].fase = "volta" /\ chamadas[c].resp = "ok"
    PROVE  SessaoInv'
<1>. DEFINE p == chamadas[c]
<1>0. /\ p \in Chamada /\ Coerente(p, donos, renovacao, cruzou)
      /\ p.aba \in Abas /\ p.de \in Quem /\ p.acesso \in Quem
      /\ TiposDoResto /\ revogados \subseteq 1 .. Len(donos)
  BY ChamadaEmCurso, RestoDoInv DEF SessaoInv, TypeOK, Chamada
<1>a. ASSUME tela' \in [Abas -> Quem], timer' \in [Abas -> BOOLEAN],
             retentativas' \in [Abas -> 0 .. MaxRetentativas], UNCHANGED servidor
      PROVE  TiposDoResto' /\ UNCHANGED << donos, revogados >>
                /\ revogados' \subseteq 1 .. Len(donos)
  BY <1>0, <1>a DEF servidor, TiposDoResto
<1>b. ASSUME TiposDoResto', UNCHANGED << donos, cookies >>,
             revogados' \subseteq 1 .. Len(donos), Encerrar(c)
      PROVE  SessaoInv'
  <2>1. chamadas' = [chamadas EXCEPT ![c] = Livre] /\ Livre \in {Livre} \cup Chamada
    BY <1>b DEF Encerrar
  <2>. QED  BY <1>b, <2>1, SoUmaChamada
<1>1. CASE ReceberEntrada(c, r)
  <2>0. p.tipo = "entrar" /\ UNCHANGED << retentativas, servidor >>
    BY <1>1 DEF ReceberEntrada
  <2>1. CASE r = "ok"
    <3>1. Abrir(p.aba, p.de) /\ TrocarSessao(c, p.acesso, p.jti)
      BY <1>1, <2>1 DEF ReceberEntrada
    <3>2. TiposDoResto' /\ UNCHANGED << donos, revogados >>
      BY <1>0, <1>a, <2>0, <3>1 DEF Abrir, TiposDoResto
    <3>3. p.jti \in 1 .. Len(donos) \cup {Ninguem} /\ p.jti # Ninguem /\ donos[p.jti] = p.acesso
      BY <1>0, <2>0, <2>1 DEF Coerente
    <3>. QED  BY <1>0, <3>1, <3>2, <3>3, TrocaMantem
  <2>2. CASE r # "ok"
    <3>1. Encerrar(c) /\ UNCHANGED << tela, timer, cookies >>
      BY <1>1, <2>2 DEF ReceberEntrada
    <3>. QED  BY <1>0, <1>a, <1>b, <2>0, <3>1 DEF TiposDoResto
  <2>. QED  BY <2>1, <2>2
<1>2. CASE ReceberRenovacao(c, r)
  <2>. DEFINE q == IF r = "ok" THEN p.acesso ELSE acesso
              n == IF p.tipo = "renovar" THEN Livre
                   ELSE [Nova("perfil2", p.aba, Ninguem) EXCEPT !.acesso = q]
  <2>0. /\ p.tipo \in Renova /\ UNCHANGED << renovacao, servidor >> /\ Renovada(p.aba, r)
        /\ acesso' = q /\ cruzou' = (cruzou \/ (r = "ok" /\ p.velha))
        /\ chamadas' = [chamadas EXCEPT ![c] = n]
    BY <1>2 DEF ReceberRenovacao, Renova
  <2>1. TiposDoResto' /\ UNCHANGED << donos, revogados >>
    <3>1. /\ tela' \in [Abas -> Quem] /\ timer' \in [Abas -> BOOLEAN]
          /\ retentativas' \in [Abas -> 0 .. MaxRetentativas]
      <4>1. CASE r = "ok"
        BY <1>0, <2>0, <4>1 DEF Renovada, TiposDoResto
      <4>2. CASE r = "rede"
        <5>1. retentativas[p.aba] + 1 \in 0 .. MaxRetentativas
          BY <1>0, <2>0, <4>2, LimitesAssumption DEF Renovada, TiposDoResto
        <5>. QED  BY <1>0, <2>0, <4>2, <5>1 DEF Renovada, TiposDoResto
      <4>3. CASE r \notin {"ok", "rede"}
        BY <1>0, <2>0, <4>3 DEF Renovada, Fechar, TiposDoResto, Quem
      <4>. QED  BY <4>1, <4>2, <4>3
    <3>. QED  BY <1>a, <2>0, <3>1
  <2>2. /\ q \in Quem /\ CookiesCertos(q, donos, renovacao, cruzou')
        /\ cruzou' \in BOOLEAN /\ (cruzou => cruzou')
    <3>1. acesso \in Quem /\ cruzou \in BOOLEAN
             /\ CookiesCertos(acesso, donos, renovacao, cruzou)
      BY DEF SessaoInv, TypeOK
    <3>2. CASE r = "ok"
      <4>1. p.jti # Ninguem /\ p.acesso = donos[p.jti] /\ (~p.velha => p.jti = renovacao)
        BY <1>0, <2>0, <3>2 DEF Coerente
      <4>. QED  BY <1>0, <2>0, <3>1, <3>2, <4>1 DEF CookiesCertos, Chamada
    <3>3. CASE r # "ok"
      BY <2>0, <3>1, <3>3
    <3>. QED  BY <3>2, <3>3
  <2>3. n \in {Livre} \cup Chamada /\ (n # Livre => Coerente(n, donos, renovacao, cruzou'))
    <3>1. "perfil2" \in Tipos /\ Ninguem \in Quem
      BY DEF Tipos, Quem
    <3>2. Nova("perfil2", p.aba, Ninguem) \in Chamada
             /\ Coerente(Nova("perfil2", p.aba, Ninguem), donos, renovacao, cruzou)
      BY <1>0, <3>1, NovaCoerente
    <3>. DEFINE m == [Nova("perfil2", p.aba, Ninguem) EXCEPT !.acesso = q]
    <3>. HIDE DEF q
    <3>3. m \in Chamada /\ m.tipo = "perfil2" /\ m.jti = renovacao /\ m.fase = "ida"
             /\ m.acesso = q
      BY <2>2, <3>2 DEF Nova, Chamada
    <3>4. m.jti \in 1 .. Len(donos) \cup {Ninguem}
      BY <3>3 DEF SessaoInv, TypeOK
    <3>. HIDE DEF m
    <3>5. Coerente(m, donos, renovacao, cruzou')
      BY <2>2, <3>3, <3>4 DEF Coerente, CookiesCertos, Renova
    <3>. QED  BY <3>3, <3>5 DEF m
  <2>. HIDE DEF n, q
  <2>4. chamadas' \in [Chamadas -> {Livre} \cup Chamada]
           /\ \A d \in Chamadas : chamadas'[d] = IF d = c THEN n ELSE chamadas[d]
    BY <2>0, <2>3 DEF SessaoInv, TypeOK
  <2>5. TypeOK'
    BY <2>0, <2>1, <2>2, <2>4 DEF SessaoInv, TypeOK, TiposDoResto
  <2>6. ASSUME NEW d \in Chamadas, EmCurso(d)
        PROVE  Coerente(chamadas[d], donos, renovacao, cruzou')
    <3>1. Coerente(chamadas[d], donos, renovacao, cruzou)
      BY <2>6, ChamadaEmCurso
    <3>. QED  BY <2>2, <3>1 DEF Coerente
  <2>. QED  BY <2>0, <2>1, <2>2, <2>3, <2>4, <2>5, <2>6 DEF SessaoInv, EmCurso
<1>3. CASE ReceberPerfil(c, r)
  <2>0. UNCHANGED << retentativas, cookies, servidor >>
    BY <1>3 DEF ReceberPerfil
  <2>1. tela' \in [Abas -> Quem] /\ timer' \in [Abas -> BOOLEAN]
           /\ retentativas' \in [Abas -> 0 .. MaxRetentativas]
    BY <1>0, <1>3 DEF ReceberPerfil, Abrir, TiposDoResto, Quem
  <2>2. TiposDoResto' /\ UNCHANGED << donos, cookies >> /\ revogados' \subseteq 1 .. Len(donos)
    BY <1>a, <2>0, <2>1
  <2>3. CASE Encerrar(c)
    BY <1>b, <2>2, <2>3
  <2>4. CASE chamadas' = [chamadas EXCEPT ![c] = Nova("renovarCarga", p.aba, Ninguem)]
    <3>1. "renovarCarga" \in Tipos /\ Ninguem \in Quem
      BY DEF Tipos, Quem
    <3>2. Nova("renovarCarga", p.aba, Ninguem) \in Chamada
             /\ Coerente(Nova("renovarCarga", p.aba, Ninguem), donos, renovacao, cruzou)
      BY <1>0, <3>1, NovaCoerente
    <3>. QED  BY <2>2, <2>4, <3>2, SoUmaChamada
  <2>. QED  BY <1>3, <2>3, <2>4 DEF ReceberPerfil
<1>4. CASE ReceberSaida(c, r)
  <2>0. Fechar(p.aba) /\ UNCHANGED << retentativas, servidor >>
    BY <1>4 DEF ReceberSaida
  <2>1. TiposDoResto' /\ UNCHANGED << donos, revogados >>
           /\ revogados' \subseteq 1 .. Len(donos)
    BY <1>0, <1>a, <2>0 DEF Fechar, TiposDoResto, Quem
  <2>2. CASE r = "ok"
    <3>1. TrocarSessao(c, Ninguem, Ninguem) /\ Ninguem \in Quem
      BY <1>4, <2>2 DEF ReceberSaida, Quem
    <3>. QED  BY <2>1, <3>1, TrocaMantem
  <2>3. CASE r # "ok"
    <3>1. Encerrar(c) /\ UNCHANGED cookies
      BY <1>4, <2>3 DEF ReceberSaida
    <3>. QED  BY <1>b, <2>1, <3>1
  <2>. QED  BY <2>2, <2>3
<1>5. CASE ReceberUso(c, r)
  <2>0. Encerrar(c) /\ UNCHANGED << retentativas, cookies, servidor >>
    BY <1>5 DEF ReceberUso
  <2>1. tela' \in [Abas -> Quem] /\ timer' \in [Abas -> BOOLEAN]
           /\ retentativas' \in [Abas -> 0 .. MaxRetentativas]
    BY <1>0, <1>5 DEF ReceberUso, Fechar, TiposDoResto, Quem
  <2>. QED  BY <1>a, <1>b, <2>0, <2>1
<1>. QED  BY <1>1, <1>2, <1>3, <1>4, <1>5 DEF Receber

LEMMA VencerMantem ==
    ASSUME SessaoInv, Vencer
    PROVE  SessaoInv'
<1>0. TiposDoResto' /\ Ninguem \in Quem
         /\ UNCHANGED << cruzou, donos, revogados >> /\ acesso' = Ninguem
  BY RestoDoInv DEF Vencer, servidor, TiposDoResto, Quem
<1>1. CASE renovacao' = renovacao /\ UNCHANGED chamadas
  <2>1. TypeOK'
    BY <1>0, <1>1 DEF SessaoInv, TypeOK, TiposDoResto
  <2>. QED  BY <1>0, <1>1, <2>1 DEF SessaoInv, CookiesCertos, EmCurso
<1>2. CASE /\ renovacao' = Ninguem
           /\ chamadas' = [d \in Chamadas |->
                 IF EmCurso(d) THEN [chamadas[d] EXCEPT !.velha = TRUE] ELSE Livre]
  <2>. DEFINE f == [d \in Chamadas |->
                 IF EmCurso(d) THEN [chamadas[d] EXCEPT !.velha = TRUE] ELSE Livre]
  <2>1. ASSUME NEW d \in Chamadas
        PROVE  /\ chamadas'[d] \in {Livre} \cup Chamada
               /\ chamadas'[d] # Livre => Coerente(chamadas'[d], donos, Ninguem, cruzou)
    <3>1. CASE EmCurso(d)
      <4>1. chamadas[d] \in Chamada /\ Coerente(chamadas[d], donos, renovacao, cruzou)
        BY <3>1, ChamadaEmCurso
      <4>2. chamadas'[d] = [chamadas[d] EXCEPT !.velha = TRUE]
        BY <1>2, <3>1
      <4>3. /\ [chamadas[d] EXCEPT !.velha = TRUE] \in Chamada
            /\ Coerente([chamadas[d] EXCEPT !.velha = TRUE], donos, Ninguem, cruzou)
        BY <4>1, CoerenteVelha
      <4>. QED  BY <4>2, <4>3
    <3>2. CASE ~EmCurso(d)
      BY <1>2, <3>2
    <3>. QED  BY <3>1, <3>2
  <2>2. chamadas' = f
    BY <1>2
  <2>3. f = [d \in Chamadas |-> f[d]]
    OBVIOUS
  <2>4. chamadas' \in [Chamadas -> {Livre} \cup Chamada]
    BY <2>1, <2>2, <2>3
  <2>5. TypeOK'
    BY <1>0, <1>2, <2>4 DEF SessaoInv, TypeOK, TiposDoResto
  <2>. QED  BY <1>0, <1>2, <2>1, <2>5 DEF SessaoInv, CookiesCertos, EmCurso
<1>. QED  BY <1>1, <1>2 DEF Vencer

LEMMA SessaoInvStep == SessaoInv /\ [Next]_vars => SessaoInv'
<1>. SUFFICES ASSUME SessaoInv, [Next]_vars PROVE SessaoInv'
  OBVIOUS
<1>1. ASSUME NEW c \in Chamadas, NEW a \in Abas, Navegar(c, a) \/ Disparar(c, a)
      PROVE  SessaoInv'
  BY <1>1, NavegarMantem
<1>2. ASSUME NEW c \in Chamadas, Atender(c) PROVE SessaoInv'
  BY <1>2, AtenderMantem
<1>3. ASSUME NEW c \in Chamadas, Entregar(c) PROVE SessaoInv'
  <2>1. EmCurso(c) /\ chamadas[c].fase = "volta" /\ Receber(c, chamadas[c].resp)
    BY <1>3 DEF Entregar, Viva
  <2>. QED  BY <2>1, ReceberMantem
<1>4. ASSUME NEW c \in Chamadas, Perder(c) PROVE SessaoInv'
  <2>1. PICK r \in {"rede", "demora"} : Receber(c, r)
    BY <1>4 DEF Perder
  <2>2. EmCurso(c) /\ r # "ok"
    BY <1>4 DEF Perder, Viva
  <2>. QED  BY <2>1, <2>2, ReceberMantem
<1>5. ASSUME NEW c \in Chamadas, Descartar(c) PROVE SessaoInv'
  <2>1. /\ chamadas' = [chamadas EXCEPT ![c] = Livre] /\ Livre \in {Livre} \cup Chamada
        /\ UNCHANGED << donos, cookies >> /\ revogados' \subseteq 1 .. Len(donos)
    BY <1>5 DEF Descartar, Encerrar, navegador, servidor, SessaoInv, TypeOK
  <2>2. TiposDoResto'
    BY <1>5, RestoDoInv DEF Descartar, navegador, servidor, TiposDoResto
  <2>. QED  BY <2>1, <2>2, SoUmaChamada
<1>6. ASSUME NEW u \in Usuarios, MudarConta(u) PROVE SessaoInv'
  <2>1. /\ ativo' \in [Usuarios -> BOOLEAN]
        /\ UNCHANGED << tela, timer, retentativas, acesso, renovacao, cruzou,
                        chamadas, donos, revogados, redis >>
    BY <1>6 DEF MudarConta, navegador, cookies, SessaoInv, TypeOK
  <2>. QED  BY <2>1 DEF SessaoInv, TypeOK, EmCurso
<1>7. CASE MudarRedis
  <2>1. /\ redis' \in {"conectado", "caiu", "desistiu"}
        /\ UNCHANGED << tela, timer, retentativas, acesso, renovacao, cruzou,
                        chamadas, ativo, donos, revogados >>
    BY <1>7 DEF MudarRedis, navegador, cookies
  <2>. QED  BY <2>1 DEF SessaoInv, TypeOK, EmCurso
<1>8. CASE Vencer
  BY <1>8, VencerMantem
<1>9. CASE UNCHANGED vars
  <2>1. UNCHANGED << tela, timer, retentativas, acesso, renovacao, cruzou,
                     chamadas, ativo, donos, revogados, redis >>
    BY <1>9 DEF vars, navegador, cookies, servidor
  <2>. QED  BY <2>1 DEF SessaoInv, TypeOK, EmCurso
<1>. QED  BY <1>1, <1>2, <1>3, <1>4, <1>5, <1>6, <1>7, <1>8, <1>9 DEF Next

\* In every reachable state the variables have their types, at most MaxEntradas tokens
\* are out, no refresh having crossed the access cookie is of the owner of the refresh
\* cookie, and each call in progress holds what its phase and its age allow.
THEOREM SessaoSempreCoerente == Spec => []SessaoInv
BY SessaoInvInit, SessaoInvStep, PTL DEF Spec

\* The types of the state, for any number of tabs, calls, accounts and logins.
THEOREM TiposDaSessao == Spec => []TypeOK
<1>1. SessaoInv => TypeOK
  BY DEF SessaoInv
<1>. QED  BY <1>1, SessaoSempreCoerente, PTL

-----------------------------------------------------------------------------
(* The steps that touch the screen, the cookies or a renewal. *)

Respostas == {"nada", "ok", "401", "500", "rede", "demora"}

\* The tab of call c gets answer r.
Recebe(c, r) ==
    /\ Viva(c) /\ Receber(c, r)
    /\ r = "ok" => chamadas[c].fase = "volta" /\ chamadas[c].resp = "ok"

\* Call d, if there is one, goes on for the same page.
Continua(d) ==
    EmCurso(d) => /\ EmCurso(d)' /\ chamadas'[d].tipo = chamadas[d].tipo
                  /\ chamadas'[d].aba = chamadas[d].aba
                  /\ chamadas'[d].orfa = chamadas[d].orfa

LEMMA TrocaContinua ==
    ASSUME SessaoInv, NEW c \in Chamadas, NEW u, NEW j, TrocarSessao(c, u, j)
    PROVE  chamadas'[c] = Livre /\ \A d \in Chamadas \ {c} : Continua(d)
<1>1. chamadas'[c] = Livre
  BY DEF TrocarSessao
<1>2. ASSUME NEW d \in Chamadas \ {c}, EmCurso(d)
      PROVE  Continua(d)
  <2>1. chamadas[d] \in Chamada /\ Coerente(chamadas[d], donos, renovacao, cruzou)
    BY <1>2, ChamadaEmCurso
  <2>2. chamadas'[d] = [chamadas[d] EXCEPT !.velha = TRUE]
    BY <1>2 DEF TrocarSessao
  <2>3. chamadas'[d] # Livre
    <3>1. [chamadas[d] EXCEPT !.velha = TRUE] \in Chamada
      BY <2>1, CoerenteVelha
    <3>2. \A p \in Chamada : p # Livre
      BY DEF Chamada, Livre
    <3>. QED  BY <2>2, <3>1, <3>2
  <2>. QED  BY <2>1, <2>2, <2>3 DEF Continua, EmCurso, Chamada
<1>3. ASSUME NEW d \in Chamadas \ {c}, ~EmCurso(d)
      PROVE  Continua(d)
  BY <1>3 DEF Continua
<1>. QED  BY <1>1, <1>2, <1>3

\* Whoever gets an answer is done with the call, and leaves the others.
LEMMA RecebeUmaSo ==
    ASSUME SessaoInv, NEW c \in Chamadas, NEW r, Recebe(c, r)
    PROVE  /\ chamadas'[c] # chamadas[c] /\ UNCHANGED << ativo, donos, revogados, redis >>
           /\ \A d \in Chamadas \ {c} : Continua(d)
           /\ chamadas[c].tipo \notin {"perfil", "renovarCarga"} => chamadas'[c] = Livre
<1>. DEFINE p == chamadas[c]
<1>0. EmCurso(c) /\ p \in Chamada /\ Receber(c, r) /\ chamadas[c] # Livre
         /\ chamadas \in [Chamadas -> {Livre} \cup Chamada]
  BY ChamadaEmCurso DEF Recebe, Viva, EmCurso, SessaoInv, TypeOK
<1>a. ASSUME NEW q, chamadas' = [chamadas EXCEPT ![c] = q]
      PROVE  chamadas'[c] = q /\ \A d \in Chamadas \ {c} : Continua(d)
  BY <1>0, <1>a DEF Continua, EmCurso
<1>1. CASE ReceberEntrada(c, r)
  BY <1>0, <1>a, <1>1, TrocaContinua DEF ReceberEntrada, Encerrar, servidor
<1>2. CASE ReceberRenovacao(c, r)
  <2>. DEFINE q == IF p.tipo = "renovar" THEN Livre
                   ELSE [Nova("perfil2", p.aba, Ninguem)
                            EXCEPT !.acesso = IF r = "ok" THEN p.acesso ELSE acesso]
  <2>1. /\ chamadas' = [chamadas EXCEPT ![c] = q] /\ p.tipo \in {"renovar", "renovarCarga"}
        /\ UNCHANGED servidor
    BY <1>2 DEF ReceberRenovacao
  <2>2. q = Livre \/ q.tipo = "perfil2"
    BY DEF Nova
  <2>3. p.tipo # "renovarCarga" => q = Livre
    BY <2>1
  <2>. HIDE DEF q
  <2>. QED  BY <1>0, <1>a, <2>1, <2>2, <2>3 DEF servidor
<1>3. CASE ReceberPerfil(c, r)
  <2>1. /\ p.tipo \in {"perfil", "perfil2"} /\ UNCHANGED servidor
        /\ \/ chamadas' = [chamadas EXCEPT ![c] = Livre]
           \/ /\ chamadas' = [chamadas EXCEPT ![c] = Nova("renovarCarga", p.aba, Ninguem)]
              /\ p.tipo = "perfil"
    BY <1>3 DEF ReceberPerfil, Encerrar
  <2>2. Nova("renovarCarga", p.aba, Ninguem).tipo = "renovarCarga"
    BY DEF Nova
  <2>. QED  BY <1>0, <1>a, <2>1, <2>2 DEF servidor
<1>4. CASE ReceberSaida(c, r)
  BY <1>0, <1>a, <1>4, TrocaContinua DEF ReceberSaida, Encerrar, servidor
<1>5. CASE ReceberUso(c, r)
  BY <1>0, <1>a, <1>5 DEF ReceberUso, Encerrar, servidor
<1>. QED  BY <1>0, <1>1, <1>2, <1>3, <1>4, <1>5 DEF Receber

\* No other step changes the cookies, but for their expiry, or puts someone on screen.
LEMMA SoRecebendo ==
    ASSUME SessaoInv, Next
    PROVE  \/ \E c \in Chamadas : \E r \in Respostas : Recebe(c, r)
           \/ Vencer
           \/ /\ UNCHANGED cookies
              /\ \A a \in Abas : tela'[a] \in {Ninguem, tela[a]}
              /\ \A j \in 1 .. Len(donos) : donos'[j] = donos[j]
<1>0. tela \in [Abas -> Quem] /\ donos \in Seq(Usuarios)
         /\ chamadas \in [Chamadas -> {Livre} \cup Chamada]
  BY DEF SessaoInv, TypeOK
<1>1. ASSUME NEW c \in Chamadas, NEW a \in Abas, Navegar(c, a) \/ Disparar(c, a)
      PROVE  /\ UNCHANGED << acesso, renovacao, cruzou, donos >>
             /\ \A b \in Abas : tela'[b] \in {Ninguem, tela[b]}
  BY <1>0, <1>1 DEF Navegar, Disparar, Sair, Usar, Entrar, Recarregar,
                    navegador, cookies, servidor
<1>2. ASSUME NEW c \in Chamadas, Atender(c)
      PROVE  /\ UNCHANGED << tela, acesso, renovacao, cruzou >>
             /\ \A j \in 1 .. Len(donos) : donos'[j] = donos[j]
  <2>1. UNCHANGED navegador
    BY <1>2 DEF Atender, AtenderEntrada, ConsultarLista, ConsultarConta, AtenderProtegida,
                Revogar, RemoverOnline
  <2>2. UNCHANGED donos \/ donos' = Append(donos, chamadas[c].de)
    BY <1>2 DEF Atender, AtenderEntrada, ConsultarLista, ConsultarConta, AtenderProtegida,
                Revogar, RemoverOnline, servidor
  <2>3. \A j \in 1 .. Len(donos) : donos'[j] = donos[j]
    BY <1>0, <2>2
  <2>. QED  BY <2>1, <2>3 DEF navegador, cookies
<1>3. ASSUME NEW c \in Chamadas, Entregar(c)
      PROVE  \E r \in Respostas : Recebe(c, r)
  <2>1. Viva(c) /\ chamadas[c].fase = "volta" /\ Receber(c, chamadas[c].resp)
    BY <1>3 DEF Entregar
  <2>2. chamadas[c].resp \in Respostas
    BY <1>0, <2>1 DEF Viva, EmCurso, Chamada, Respostas
  <2>. QED  BY <2>1, <2>2 DEF Recebe
<1>4. ASSUME NEW c \in Chamadas, Perder(c)
      PROVE  \E r \in Respostas : Recebe(c, r)
  BY <1>4 DEF Perder, Recebe, Respostas
<1>5. ASSUME NEW c \in Chamadas, Descartar(c)
      PROVE  UNCHANGED << tela, acesso, renovacao, cruzou, donos >>
  BY <1>5 DEF Descartar, navegador, cookies, servidor
<1>6. ASSUME NEW u \in Usuarios, MudarConta(u)
      PROVE  UNCHANGED << tela, acesso, renovacao, cruzou, donos >>
  BY <1>6 DEF MudarConta, navegador, cookies
<1>7. ASSUME MudarRedis
      PROVE  UNCHANGED << tela, acesso, renovacao, cruzou, donos >>
  BY <1>7 DEF MudarRedis, navegador, cookies
<1>. QED  BY <1>1, <1>2, <1>3, <1>4, <1>5, <1>6, <1>7 DEF Next, cookies

-----------------------------------------------------------------------------
\* The access cookie comes to name someone else than the owner of the refresh cookie, or
\* comes back after a logout, only by the answer to a refresh sent before.
THEOREM AcessoDeOutroChegaAtrasado == Spec => AcessoAlheioSoPorAtraso
<1>. DEFINE P == acesso' # acesso /\ acesso' # Ninguem
                 /\ (renovacao' = Ninguem \/ donos'[renovacao'] # acesso')
                 => \E c \in Chamadas : Viva(c) /\ chamadas'[c] # chamadas[c]
                                          /\ chamadas[c].velha
<1>1. SessaoInv /\ [Next]_vars => [P]_vars
  <2>. SUFFICES ASSUME SessaoInv, Next, acesso' # acesso, acesso' # Ninguem,
                       renovacao' = Ninguem \/ donos'[renovacao'] # acesso'
                PROVE  \E c \in Chamadas : Viva(c) /\ chamadas'[c] # chamadas[c]
                                             /\ chamadas[c].velha
    BY DEF vars
  <2>1. ~Vencer /\ ~UNCHANGED cookies
    BY DEF Vencer, cookies
  <2>2. PICK c \in Chamadas, r \in Respostas : Recebe(c, r)
    BY <2>1, SoRecebendo
  <2>. DEFINE p == chamadas[c]
  <2>3. /\ Viva(c) /\ EmCurso(c) /\ Receber(c, r) /\ p \in Chamada
        /\ Coerente(p, donos, renovacao, cruzou)
        /\ r = "ok" => p.fase = "volta" /\ p.resp = "ok"
    BY <2>2, ChamadaEmCurso DEF Recebe, Viva
  <2>4. chamadas'[c] # chamadas[c] /\ donos' = donos
    BY <2>2, RecebeUmaSo
  <2>5. CASE ReceberEntrada(c, r)
    <3>1. r = "ok" /\ TrocarSessao(c, p.acesso, p.jti) /\ p.tipo = "entrar"
      BY <2>1, <2>5 DEF ReceberEntrada
    <3>2. acesso' = p.acesso /\ renovacao' = p.jti /\ p.jti # Ninguem
             /\ p.acesso = donos[p.jti]
      BY <2>3, <3>1 DEF TrocarSessao, Coerente
    <3>. QED  BY <2>4, <3>2
  <2>6. CASE ReceberRenovacao(c, r)
    <3>1. /\ r = "ok" /\ acesso' = p.acesso /\ renovacao' = renovacao /\ p.tipo \in Renova
      BY <2>6 DEF ReceberRenovacao, Renova
    <3>2. p.jti # Ninguem /\ p.acesso = donos[p.jti] /\ (~p.velha => p.jti = renovacao)
      BY <2>3, <3>1 DEF Coerente
    <3>. QED  BY <2>3, <2>4, <3>1, <3>2
  <2>7. CASE ReceberPerfil(c, r) \/ ReceberUso(c, r)
    BY <2>1, <2>7 DEF ReceberPerfil, ReceberUso
  <2>8. CASE ReceberSaida(c, r)
    BY <2>1, <2>8 DEF ReceberSaida, TrocarSessao
  <2>. QED  BY <2>3, <2>5, <2>6, <2>7, <2>8 DEF Receber
<1>2. Spec => []SessaoInv /\ [][Next]_vars
  BY SessaoSempreCoerente DEF Spec
<1>. QED  BY <1>1, <1>2, PTL DEF AcessoAlheioSoPorAtraso

\* Unless a refresh has crossed, the cookies are of whom the refresh cookie is.
LEMMA DonoDaRenovacao ==
    ASSUME SessaoInv, ~cruzou
    PROVE  /\ renovacao # Ninguem => DonoDosCookies = donos[renovacao]
           /\ renovacao = Ninguem => DonoDosCookies = Ninguem
BY DEF SessaoInv, CookiesCertos, DonoDosCookies

LEMMA RecebeSemMostrarOutro ==
    ASSUME SessaoInv, NEW a \in Abas, NEW c \in Chamadas, NEW r, Recebe(c, r),
           MostraOutro(a)', ~cruzou', ~MostraOutro(a), ~chamadas[c].velha
    PROVE  \/ chamadas[c].tipo = "entrar" /\ chamadas[c].aba # a
           \/ chamadas[c].tipo = "preferencias" /\ chamadas[c].de # chamadas[c].acesso
<1>. DEFINE p == chamadas[c]
<1>1. /\ EmCurso(c) /\ Receber(c, r) /\ p \in Chamada
      /\ Coerente(p, donos, renovacao, cruzou)
      /\ r = "ok" => p.fase = "volta" /\ p.resp = "ok"
  BY ChamadaEmCurso DEF Recebe, Viva
<1>2. /\ donos' = donos /\ p.aba \in Abas /\ p.acesso \in Quem
      /\ tela \in [Abas -> Quem] /\ renovacao \in 1 .. Len(donos) \cup {Ninguem}
      /\ \A j \in 1 .. Len(donos) : donos[j] # Ninguem
  BY <1>1, RecebeUmaSo, SentinelaAssumption DEF Chamada, SessaoInv, TypeOK
<1>3. tela'[a] # Ninguem /\ DonoDosCookies' # Ninguem /\ DonoDosCookies' # tela'[a]
  BY DEF MostraOutro
<1>4. ASSUME UNCHANGED cookies
      PROVE  tela'[a] # tela[a] /\ DonoDosCookies' = DonoDosCookies /\ ~cruzou
  BY <1>2, <1>3, <1>4 DEF cookies, DonoDosCookies, MostraOutro
<1>5. ASSUME ~cruzou, p.tipo # "entrar", p.acesso # Ninguem
      PROVE  DonoDosCookies = p.acesso
  BY <1>1, <1>5, DonoDaRenovacao DEF Coerente
<1>6. CASE ReceberEntrada(c, r)
  <2>1. p.tipo = "entrar"
    BY <1>6 DEF ReceberEntrada
  <2>2. CASE r = "ok"
    <3>1. Abrir(p.aba, p.de) /\ TrocarSessao(c, p.acesso, p.jti)
      BY <1>6, <2>2 DEF ReceberEntrada
    <3>2. p.acesso = p.de /\ p.de \in Usuarios
      BY <1>1, <2>1, <2>2 DEF Coerente
    <3>3. DonoDosCookies' = p.de
      BY <3>1, <3>2, SentinelaAssumption DEF TrocarSessao, DonoDosCookies
    <3>4. p.aba # a
      BY <1>2, <1>3, <3>1, <3>3 DEF Abrir
    <3>. QED  BY <2>1, <3>4
  <2>3. CASE r # "ok"
    BY <1>4, <1>6, <2>3 DEF ReceberEntrada
  <2>. QED  BY <2>2, <2>3
<1>7. CASE ReceberRenovacao(c, r)
  <2>1. /\ p.tipo \in Renova /\ renovacao' = renovacao /\ Renovada(p.aba, r)
        /\ acesso' = IF r = "ok" THEN p.acesso ELSE acesso
        /\ cruzou' = (cruzou \/ (r = "ok" /\ p.velha))
    BY <1>7 DEF ReceberRenovacao, Renova
  <2>2. ~cruzou
    BY <2>1
  <2>3. tela'[a] = tela[a]
    BY <1>2, <1>3, <2>1 DEF Renovada, Fechar
  <2>4. DonoDosCookies' = DonoDosCookies
    <3>1. CASE r = "ok"
      <4>1. p.jti = renovacao /\ p.jti # Ninguem /\ p.acesso = donos[renovacao]
        BY <1>1, <2>1, <3>1 DEF Coerente
      <4>. QED  BY <1>2, <2>1, <2>2, <3>1, <4>1, DonoDaRenovacao DEF DonoDosCookies
    <3>2. CASE r # "ok"
      BY <1>2, <2>1, <3>2 DEF DonoDosCookies
    <3>. QED  BY <3>1, <3>2
  <2>. QED  BY <1>3, <2>3, <2>4 DEF MostraOutro
<1>8. CASE ReceberPerfil(c, r)
  <2>1. p.tipo \in {"perfil", "perfil2"} /\ UNCHANGED cookies
    BY <1>8 DEF ReceberPerfil
  <2>2. CASE r = "ok"
    <3>1. tela' = [tela EXCEPT ![p.aba] = p.acesso]
      BY <1>8, <2>2 DEF ReceberPerfil, Abrir
    <3>2. tela'[a] = p.acesso
      BY <1>2, <1>4, <2>1, <3>1
    <3>. QED  BY <1>3, <1>4, <1>5, <2>1, <3>2
  <2>3. CASE r # "ok"
    BY <1>2, <1>3, <1>4, <1>8, <2>1, <2>3 DEF ReceberPerfil
  <2>. QED  BY <2>2, <2>3
<1>9. CASE ReceberSaida(c, r)
  <2>1. CASE r = "ok"
    BY <1>3, <1>9, <2>1 DEF ReceberSaida, TrocarSessao, DonoDosCookies
  <2>2. CASE r # "ok"
    BY <1>2, <1>3, <1>4, <1>9, <2>2 DEF ReceberSaida, Fechar
  <2>. QED  BY <2>1, <2>2
<1>10. CASE ReceberUso(c, r)
  <2>1. UNCHANGED cookies
    BY <1>10 DEF ReceberUso
  <2>2. /\ p.tipo = "preferencias" /\ tela' = [tela EXCEPT ![p.aba] = p.de]
    BY <1>2, <1>3, <1>4, <1>10, <2>1 DEF ReceberUso, Fechar
  <2>3. tela'[a] = p.de
    BY <1>2, <1>4, <2>1, <2>2
  <2>. QED  BY <1>3, <1>4, <1>5, <2>1, <2>2, <2>3
<1>. QED  BY <1>1, <1>6, <1>7, <1>8, <1>9, <1>10 DEF Receber

\* As long as no refresh has crossed a change of session, a tab comes to show someone
\* other than the owner of the cookies only by a login in another tab, by the answer to
\* a call sent before the change, or by settings saved when it did already.
THEOREM OutroNaTelaSoComMotivo == Spec => TelaDeOutroSoPorOutraAbaOuAtraso
<1>. DEFINE P == \A a \in Abas :
           MostraOutro(a)' /\ ~cruzou'
           => \/ MostraOutro(a)
              \/ \E c \in Chamadas :
                    /\ Viva(c) /\ chamadas'[c] # chamadas[c]
                    /\ \/ chamadas[c].velha
                       \/ chamadas[c].tipo = "entrar" /\ chamadas[c].aba # a
                       \/ /\ chamadas[c].tipo = "preferencias"
                          /\ chamadas[c].de # chamadas[c].acesso
<1>1. SessaoInv /\ [Next]_vars => [P]_vars
  <2>. SUFFICES ASSUME SessaoInv, Next, NEW a \in Abas, MostraOutro(a)', ~cruzou',
                       ~MostraOutro(a)
                PROVE  \E c \in Chamadas :
                         /\ Viva(c) /\ chamadas'[c] # chamadas[c]
                         /\ \/ chamadas[c].velha
                            \/ chamadas[c].tipo = "entrar" /\ chamadas[c].aba # a
                            \/ /\ chamadas[c].tipo = "preferencias"
                               /\ chamadas[c].de # chamadas[c].acesso
    OBVIOUS
  <2>. DEFINE M == \E c \in Chamadas :
                       /\ Viva(c) /\ chamadas'[c] # chamadas[c]
                       /\ \/ chamadas[c].velha
                          \/ chamadas[c].tipo = "entrar" /\ chamadas[c].aba # a
                          \/ /\ chamadas[c].tipo = "preferencias"
                             /\ chamadas[c].de # chamadas[c].acesso
  <2>1. ASSUME NEW c \in Chamadas, NEW r \in Respostas, Recebe(c, r)
        PROVE  M
    <3>1. chamadas'[c] # chamadas[c] /\ Viva(c)
      BY <2>1, RecebeUmaSo DEF Recebe
    <3>2. CASE chamadas[c].velha
      BY <3>1, <3>2
    <3>3. CASE ~chamadas[c].velha
      BY <2>1, <3>1, <3>3, RecebeSemMostrarOutro
    <3>. QED  BY <3>2, <3>3
  <2>2. tela'[a] # Ninguem /\ DonoDosCookies' # Ninguem /\ DonoDosCookies' # tela'[a]
           /\ renovacao \in 1 .. Len(donos) \cup {Ninguem}
    BY DEF MostraOutro, SessaoInv, TypeOK
  <2>3. CASE Vencer
    <3>1. acesso' = Ninguem /\ UNCHANGED << tela, cruzou, donos >>
             /\ renovacao' \in {Ninguem, renovacao}
      BY <2>3 DEF Vencer, servidor
    <3>2. renovacao' = renovacao /\ renovacao # Ninguem
             /\ DonoDosCookies' = donos[renovacao]
      BY <2>2, <3>1 DEF DonoDosCookies
    <3>3. DonoDosCookies = donos[renovacao]
      BY <3>1, <3>2, DonoDaRenovacao
    <3>. QED  BY <2>2, <3>1, <3>2, <3>3 DEF MostraOutro
  <2>4. CASE /\ UNCHANGED cookies
             /\ \A b \in Abas : tela'[b] \in {Ninguem, tela[b]}
             /\ \A j \in 1 .. Len(donos) : donos'[j] = donos[j]
    <3>1. DonoDosCookies' = DonoDosCookies
      BY <2>2, <2>4 DEF cookies, DonoDosCookies
    <3>2. tela'[a] = tela[a]
      BY <2>2, <2>4
    <3>. QED  BY <2>2, <3>1, <3>2 DEF MostraOutro
  <2>. QED  BY <2>1, <2>3, <2>4, SoRecebendo
<1>2. Spec => []SessaoInv /\ [][Next]_vars
  BY SessaoSempreCoerente DEF Spec
<1>. QED  BY <1>1, <1>2, PTL DEF TelaDeOutroSoPorOutraAbaOuAtraso

\* Call d will still renew for tab a, or close its session.
Renovando(d, a) ==
    /\ EmCurso(d) /\ chamadas[d].aba = a /\ ~chamadas[d].orfa
    /\ chamadas[d].tipo \in {"renovar", "renovarCarga"}

\* The renewal of tab a is still there after the step.
LEMMA RenovacaoFica ==
    ASSUME NEW a \in Abas, timer[a] => timer'[a],
           retentativas[a] > 0 => retentativas'[a] > 0,
           \A d \in Chamadas : Renovando(d, a) => Renovando(d, a)'
    PROVE  TemRenovacao(a) => TemRenovacao(a)'
BY DEF TemRenovacao, Renovando

\* What the server does to a call leaves it with its page.
LEMMA AtendidaContinua ==
    ASSUME SessaoInv, NEW c \in Chamadas, Atender(c)
    PROVE  \A d \in Chamadas : Continua(d)
<1>. DEFINE p == chamadas[c]
<1>1. p \in Chamada /\ chamadas \in [Chamadas -> {Livre} \cup Chamada]
  BY ChamadaEmCurso DEF Atender, SessaoInv, TypeOK
<1>2. ASSUME NEW q, chamadas' = [chamadas EXCEPT ![c] = q], q.fase # "livre",
             q.tipo = p.tipo, q.aba = p.aba, q.orfa = p.orfa
      PROVE  \A d \in Chamadas : Continua(d)
  <2>1. q # Livre /\ \A d \in Chamadas : chamadas'[d] = IF d = c THEN q ELSE chamadas[d]
    BY <1>1, <1>2 DEF Livre
  <2>. QED  BY <1>2, <2>1 DEF Continua, EmCurso
<1>3. ASSUME NEW fase \in {"conta", "limpar"}, Avancar(c, fase)
      PROVE  \A d \in Chamadas : Continua(d)
  <2>. DEFINE q == [p EXCEPT !.fase = fase]
  <2>1. q.fase # "livre" /\ q.tipo = p.tipo /\ q.aba = p.aba /\ q.orfa = p.orfa
    BY <1>1 DEF Chamada
  <2>2. chamadas' = [chamadas EXCEPT ![c] = q]
    BY <1>3 DEF Avancar
  <2>. HIDE DEF q
  <2>. QED  BY <1>2, <2>1, <2>2
<1>4. ASSUME NEW resp, Responder(c, resp)
      PROVE  \A d \in Chamadas : Continua(d)
  <2>. DEFINE q == [p EXCEPT !.fase = "volta", !.resp = resp]
  <2>1. q.fase # "livre" /\ q.tipo = p.tipo /\ q.aba = p.aba /\ q.orfa = p.orfa
    BY <1>1 DEF Chamada
  <2>2. chamadas' = [chamadas EXCEPT ![c] = q]
    BY <1>4 DEF Responder
  <2>. HIDE DEF q
  <2>. QED  BY <1>2, <2>1, <2>2
<1>5. CASE AtenderEntrada(c)
  <2>1. CASE ativo[p.de] /\ Conectado
    <3>. DEFINE q == [p EXCEPT !.fase = "volta", !.resp = "ok",
                               !.acesso = p.de, !.jti = Len(donos')]
    <3>1. q.fase # "livre" /\ q.tipo = p.tipo /\ q.aba = p.aba /\ q.orfa = p.orfa
      BY <1>1 DEF Chamada
    <3>2. chamadas' = [chamadas EXCEPT ![c] = q]
      BY <1>5, <2>1 DEF AtenderEntrada
    <3>. HIDE DEF q
    <3>. QED  BY <1>2, <3>1, <3>2
  <2>2. CASE ~(ativo[p.de] /\ Conectado)
    BY <1>4, <1>5, <2>2 DEF AtenderEntrada
  <2>. QED  BY <2>1, <2>2
<1>6. CASE ConsultarConta(c)
  <2>1. CASE ativo[donos[p.jti]]
    <3>. DEFINE q == [p EXCEPT !.fase = "volta", !.resp = "ok", !.acesso = donos[p.jti]]
    <3>1. q.fase # "livre" /\ q.tipo = p.tipo /\ q.aba = p.aba /\ q.orfa = p.orfa
      BY <1>1 DEF Chamada
    <3>2. chamadas' = [chamadas EXCEPT ![c] = q]
      BY <1>6, <2>1 DEF ConsultarConta
    <3>. HIDE DEF q
    <3>. QED  BY <1>2, <3>1, <3>2
  <2>2. CASE ~ativo[donos[p.jti]]
    BY <1>4, <1>6, <2>2 DEF ConsultarConta
  <2>. QED  BY <2>1, <2>2
<1>7. CASE ConsultarLista(c) \/ AtenderProtegida(c) \/ Revogar(c) \/ RemoverOnline(c)
  <2>1. (\E resp : Responder(c, resp)) \/ Avancar(c, "conta") \/ Avancar(c, "limpar")
    BY <1>7 DEF ConsultarLista, AtenderProtegida, Revogar, RemoverOnline
  <2>. QED  BY <1>3, <1>4, <2>1
<1>. QED  BY <1>5, <1>6, <1>7 DEF Atender

LEMMA RecebeSemPerderRenovacao ==
    ASSUME SessaoInv, NEW a \in Abas, NEW c \in Chamadas, NEW r, Recebe(c, r),
           tela'[a] # Ninguem
    PROVE  \/ TemRenovacao(a)'
           \/ tela[a] # Ninguem /\ ~TemRenovacao(a)
           \/ chamadas'[c] = Livre /\ chamadas[c].tipo = "preferencias"
<1>. DEFINE p == chamadas[c]
<1>1. /\ EmCurso(c) /\ Receber(c, r) /\ p \in Chamada /\ p.aba \in Abas
      /\ tela \in [Abas -> Quem] /\ timer \in [Abas -> BOOLEAN]
      /\ retentativas \in [Abas -> 0 .. MaxRetentativas]
  BY ChamadaEmCurso DEF Recebe, Viva, SessaoInv, TypeOK, Chamada
<1>2. /\ \A d \in Chamadas \ {c} : Continua(d)
      /\ p.tipo \notin {"perfil", "renovarCarga"} => chamadas'[c] = Livre
  BY RecebeUmaSo
\* Nothing changes for the tab but that call c is done with.
<1>3. ASSUME tela'[a] = tela[a], timer'[a] = timer[a], retentativas'[a] = retentativas[a],
             p.tipo \notin Renova \/ p.aba # a
      PROVE  TemRenovacao(a)' \/ (tela[a] # Ninguem /\ ~TemRenovacao(a))
  <2>1. ASSUME NEW d \in Chamadas, Renovando(d, a) PROVE Renovando(d, a)'
    <3>1. d # c
      BY <1>3, <2>1 DEF Renovando, Renova
    <3>. QED  BY <1>2, <2>1, <3>1 DEF Renovando, Continua
  <2>2. TemRenovacao(a) => TemRenovacao(a)'
    BY <1>3, <2>1, RenovacaoFica
  <2>. QED  BY <1>3, <2>2
<1>4. ASSUME timer'[a] PROVE TemRenovacao(a)'
  BY <1>4 DEF TemRenovacao
<1>5. CASE ReceberEntrada(c, r)
  <2>1. p.tipo = "entrar" /\ retentativas' = retentativas
    BY <1>5 DEF ReceberEntrada
  <2>2. CASE r = "ok" /\ p.aba = a
    BY <1>1, <1>4, <1>5, <2>2 DEF ReceberEntrada, Abrir
  <2>3. CASE r # "ok" \/ p.aba # a
    BY <1>1, <1>3, <1>5, <2>1, <2>3 DEF ReceberEntrada, Abrir, Renova
  <2>. QED  BY <2>2, <2>3
<1>6. CASE ReceberRenovacao(c, r)
  <2>1. Renovada(p.aba, r)
    BY <1>6 DEF ReceberRenovacao
  <2>2. CASE p.aba # a
    <3>1. tela'[a] = tela[a] /\ timer'[a] = timer[a] /\ retentativas'[a] = retentativas[a]
      BY <1>1, <2>1, <2>2 DEF Renovada, Fechar
    <3>. QED  BY <1>3, <2>2, <3>1
  <2>3. CASE p.aba = a /\ r = "ok"
    BY <1>1, <1>4, <2>1, <2>3 DEF Renovada
  <2>4. CASE p.aba = a /\ r = "rede"
    <3>1. retentativas'[a] > 0
      BY <1>1, <2>1, <2>4, LimitesAssumption DEF Renovada
    <3>. QED  BY <3>1 DEF TemRenovacao
  <2>5. CASE p.aba = a /\ r \notin {"ok", "rede"}
    BY <1>1, <2>1, <2>5 DEF Renovada, Fechar
  <2>. QED  BY <2>2, <2>3, <2>4, <2>5
<1>7. CASE ReceberPerfil(c, r)
  <2>1. p.tipo \in {"perfil", "perfil2"} /\ retentativas' = retentativas
    BY <1>7 DEF ReceberPerfil
  <2>2. CASE r = "ok" /\ p.aba = a
    BY <1>1, <1>4, <1>7, <2>2 DEF ReceberPerfil, Abrir
  <2>3. CASE r # "ok" \/ p.aba # a
    <3>1. tela'[a] = tela[a] /\ timer'[a] = timer[a]
      BY <1>1, <1>7, <2>3 DEF ReceberPerfil, Abrir
    <3>. QED  BY <1>3, <2>1, <3>1 DEF Renova
  <2>. QED  BY <2>2, <2>3
<1>8. CASE ReceberSaida(c, r)
  <2>1. p.tipo = "sair" /\ retentativas' = retentativas /\ Fechar(p.aba)
    BY <1>8 DEF ReceberSaida
  <2>2. p.aba # a /\ tela'[a] = tela[a] /\ timer'[a] = timer[a]
    BY <1>1, <2>1 DEF Fechar
  <2>. QED  BY <1>3, <2>1, <2>2
<1>9. CASE ReceberUso(c, r)
  <2>1. p.tipo \in {"preferencias", "dados"} /\ retentativas' = retentativas
    BY <1>9 DEF ReceberUso
  <2>2. CASE p.tipo = "preferencias"
    BY <1>2, <2>2
  <2>3. CASE p.tipo = "dados"
    <3>1. tela'[a] = tela[a] /\ timer'[a] = timer[a]
      BY <1>1, <1>9, <2>3 DEF ReceberUso, Fechar
    <3>. QED  BY <1>3, <2>1, <2>3, <3>1 DEF Renova
  <2>. QED  BY <2>1, <2>2, <2>3
<1>. QED  BY <1>1, <1>5, <1>6, <1>7, <1>8, <1>9 DEF Receber

\* Who is shown as logged in has a timer, or a refresh on its way, that will renew the
\* session or close it; only the answer of settings after the session was closed can
\* take it away.
THEOREM TelaMantemRenovacao == Spec => TelaSemRenovacaoSoPorPreferencias
<1>. DEFINE P == \A a \in Abas :
           /\ tela'[a] # Ninguem /\ ~TemRenovacao(a)'
           => \/ tela[a] # Ninguem /\ ~TemRenovacao(a)
              \/ \E c \in Chamadas : /\ Viva(c) /\ chamadas'[c] = Livre
                                     /\ chamadas[c].tipo = "preferencias"
<1>1. SessaoInv /\ [Next]_vars => [P]_vars
  <2>. SUFFICES ASSUME SessaoInv, Next, NEW a \in Abas,
                       tela'[a] # Ninguem, ~TemRenovacao(a)',
                       tela[a] = Ninguem \/ TemRenovacao(a)
                PROVE  \E c \in Chamadas : /\ Viva(c) /\ chamadas'[c] = Livre
                                           /\ chamadas[c].tipo = "preferencias"
    OBVIOUS
  <2>0. /\ tela \in [Abas -> Quem] /\ timer \in [Abas -> BOOLEAN]
        /\ retentativas \in [Abas -> 0 .. MaxRetentativas]
        /\ chamadas \in [Chamadas -> {Livre} \cup Chamada]
    BY DEF SessaoInv, TypeOK
  <2>1. ASSUME NEW c \in Chamadas, NEW r, Recebe(c, r)
        PROVE  \E e \in Chamadas : /\ Viva(e) /\ chamadas'[e] = Livre
                                   /\ chamadas[e].tipo = "preferencias"
    <3>1. chamadas'[c] = Livre /\ chamadas[c].tipo = "preferencias"
      BY <2>1, RecebeSemPerderRenovacao
    <3>. QED  BY <2>1, <3>1 DEF Recebe
  \* A step that leaves the tab as it is and every renewing call.
  <2>2. ASSUME tela'[a] = tela[a], timer'[a] = timer[a],
               retentativas'[a] = retentativas[a],
               \A d \in Chamadas : Renovando(d, a) => Renovando(d, a)'
        PROVE  FALSE
    <3>1. TemRenovacao(a) => TemRenovacao(a)'
      BY <2>2, RenovacaoFica
    <3>. QED  BY <2>2, <3>1
  <2>3. ASSUME NEW c \in Chamadas, NEW b \in Abas, Navegar(c, b) PROVE FALSE
    <3>1. tela'[a] = tela[a] /\ timer'[a] = timer[a] /\ retentativas'[a] = retentativas[a]
      BY <2>0, <2>3 DEF Navegar, Sair, Usar, Entrar, Recarregar, navegador
    <3>2. ASSUME NEW d \in Chamadas, Renovando(d, a) PROVE Renovando(d, a)'
      <4>1. EmCurso(d) /\ ~EmCurso(c)
        BY <2>3, <3>2 DEF Renovando, Navegar, Sair, Usar, Entrar, Recarregar, Enviar
      <4>2. CASE \E tipo \in Tipos, u \in Quem \cup Usuarios : Enviar(c, tipo, b, u)
        <5>1. chamadas'[d] = chamadas[d]
          BY <2>0, <4>1, <4>2 DEF Enviar
        <5>. QED  BY <3>2, <5>1 DEF Renovando, EmCurso
      <4>3. CASE Recarregar(c, b)
        <5>1. b # a
          BY <2>0, <4>3 DEF Recarregar
        <5>2. chamadas'[d] = chamadas[d]
          BY <3>2, <4>1, <4>3, <5>1 DEF Recarregar, Renovando
        <5>. QED  BY <3>2, <5>2 DEF Renovando, EmCurso
      <4>4. \/ \E tipo \in Tipos, u \in Quem \cup Usuarios : Enviar(c, tipo, b, u)
            \/ Recarregar(c, b)
        <5>1. {"sair", "preferencias", "dados", "entrar"} \subseteq Tipos /\ tela[b] \in Quem
          BY <2>0 DEF Tipos
        <5>. QED  BY <2>3, <5>1 DEF Navegar, Sair, Usar, Entrar
      <4>. QED  BY <4>2, <4>3, <4>4
    <3>. QED  BY <2>2, <3>1, <3>2
  <2>4. ASSUME NEW c \in Chamadas, NEW b \in Abas, Disparar(c, b) PROVE FALSE
    <3>1. /\ ~EmCurso(c) /\ tela' = tela
          /\ chamadas' = [chamadas EXCEPT ![c] = Nova("renovar", b, Ninguem)]
      BY <2>4 DEF Disparar, Enviar
    <3>2. CASE b = a
      <4>1. "renovar" \in Tipos /\ Ninguem \in Quem
        BY DEF Tipos, Quem
      <4>2. /\ Nova("renovar", b, Ninguem) \in Chamada
            /\ Nova("renovar", b, Ninguem).tipo = "renovar"
            /\ Nova("renovar", b, Ninguem).aba = b
            /\ Nova("renovar", b, Ninguem).orfa = FALSE
        BY <4>1, NovaCoerente
      <4>3. chamadas'[c] = Nova("renovar", b, Ninguem)
        BY <2>0, <3>1
      <4>4. \A q \in Chamada : q # Livre
        BY DEF Chamada, Livre
      <4>. QED  BY <3>2, <4>2, <4>3, <4>4 DEF TemRenovacao, EmCurso
    <3>3. CASE b # a
      <4>1. timer'[a] = timer[a] /\ retentativas'[a] = retentativas[a]
        BY <2>0, <2>4, <3>3 DEF Disparar
      <4>2. ASSUME NEW d \in Chamadas, Renovando(d, a) PROVE Renovando(d, a)'
        <5>1. chamadas'[d] = chamadas[d]
          BY <2>0, <3>1, <4>2 DEF Renovando
        <5>. QED  BY <4>2, <5>1 DEF Renovando, EmCurso
      <4>. QED  BY <2>2, <3>1, <4>1, <4>2
    <3>. QED  BY <3>2, <3>3
  <2>5. ASSUME NEW c \in Chamadas, Atender(c) PROVE FALSE
    <3>1. UNCHANGED << tela, timer, retentativas >>
      BY <2>5 DEF Atender, AtenderEntrada, ConsultarLista, ConsultarConta,
                  AtenderProtegida, Revogar, RemoverOnline, navegador
    <3>2. \A d \in Chamadas : Renovando(d, a) => Renovando(d, a)'
      BY <2>5, AtendidaContinua DEF Renovando, Continua
    <3>. QED  BY <2>2, <3>1, <3>2
  <2>6. ASSUME NEW c \in Chamadas, Descartar(c) PROVE FALSE
    <3>1. /\ UNCHANGED << tela, timer, retentativas >> /\ chamadas[c].orfa
          /\ chamadas' = [chamadas EXCEPT ![c] = Livre]
      BY <2>6 DEF Descartar, Encerrar, navegador
    <3>2. ASSUME NEW d \in Chamadas, Renovando(d, a) PROVE Renovando(d, a)'
      BY <2>0, <3>1, <3>2 DEF Renovando, EmCurso
    <3>. QED  BY <2>2, <3>1, <3>2
  <2>7. ASSUME (\E u \in Usuarios : MudarConta(u)) \/ MudarRedis PROVE FALSE
    <3>1. UNCHANGED << tela, timer, retentativas, chamadas >>
      BY <2>7 DEF MudarConta, MudarRedis, navegador
    <3>. QED  BY <2>2, <3>1 DEF Renovando, EmCurso
  <2>8. ASSUME Vencer PROVE FALSE
    <3>1. UNCHANGED << tela, timer, retentativas >>
      BY <2>8 DEF Vencer
    <3>2. ASSUME NEW d \in Chamadas, Renovando(d, a) PROVE Renovando(d, a)'
      <4>1. chamadas[d] \in Chamada /\ Coerente(chamadas[d], donos, renovacao, cruzou)
        BY <3>2, ChamadaEmCurso DEF Renovando
      <4>2. chamadas'[d] \in {chamadas[d], [chamadas[d] EXCEPT !.velha = TRUE]}
        BY <2>8, <3>2 DEF Vencer, Renovando
      <4>3. chamadas'[d] \in Chamada
        BY <4>1, <4>2, CoerenteVelha
      <4>4. /\ chamadas'[d].tipo = chamadas[d].tipo /\ chamadas'[d].aba = chamadas[d].aba
            /\ chamadas'[d].orfa = chamadas[d].orfa /\ chamadas'[d] # Livre
        BY <4>1, <4>2, <4>3 DEF Chamada, Livre
      <4>. QED  BY <3>2, <4>4 DEF Renovando, EmCurso
    <3>. QED  BY <2>2, <3>1, <3>2
  <2>. QED
    <3>1. \E c \in Chamadas : Entregar(c) \/ Perder(c)
      BY <2>3, <2>4, <2>5, <2>6, <2>7, <2>8 DEF Next
    <3>2. ASSUME NEW c \in Chamadas, Entregar(c) \/ Perder(c)
          PROVE  \E r : Recebe(c, r)
      BY <3>2 DEF Entregar, Perder, Recebe
    <3>. QED  BY <2>1, <3>1, <3>2
<1>2. Spec => []SessaoInv /\ [][Next]_vars
  BY SessaoSempreCoerente DEF Spec
<1>. QED  BY <1>1, <1>2, PTL DEF TelaSemRenovacaoSoPorPreferencias
=============================================================================
