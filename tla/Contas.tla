-------------------------------- MODULE Contas --------------------------------
(***************************************************************************)
(* The accounts and their lockout: the logins of AuthService, unblockUser  *)
(* of SecurityService, the use cases of users and the settings of its      *)
(* controller, several at once.                                            *)
(*                                                                         *)
(* Every one of them reads the row, works on its copy across awaits        *)
(* (bcrypt, roles) and saves the copy.  save reads the row anew and writes *)
(* the columns in which the copy differs, so a request may put back what   *)
(* another one has changed meanwhile.  The use cases save a domain object  *)
(* that knows nothing of the lockout; the others save the whole entity.    *)
(***************************************************************************)
EXTENDS Naturals

CONSTANTS
    Reqs,           \* the requests that may be in progress at one time
    Usuarios,       \* user names (a unique column)
    Senhas,         \* passwords
    Limite,         \* failed logins that block an account (5 in the source)
    Duracao,        \* how long a block lasts, in ticks of the clock
    MaxTentativas,  \* bound: the counter of failed logins
    MaxAgora,       \* bound: the clock
    Ausente,        \* no row has this user name
    NaoInformado    \* the body lacks the key

\* deletedAt is null in the row of an account in use; a domain object may also have
\* it undefined.  bloqueadoAte is an instant, 0 for null.
Conta == [ senha: Senhas, ativo: BOOLEAN, deletedAt: {"null", "data"},
           tentativas: 0 .. MaxTentativas, bloqueadoAte: 0 .. MaxAgora + Duracao ]
\* What a request is said to have read of it.
Situacao == [ativo: BOOLEAN, deletedAt: {"null", "data"}]

ASSUME LimitesAssumption ==
    /\ Limite \in Nat \ {0} /\ Duracao \in Nat \ {0} /\ MaxAgora \in Nat
    /\ MaxTentativas \in Nat /\ MaxTentativas >= Limite
ASSUME SentinelasAssumption ==
    Ausente \notin Conta \cup Situacao /\ NaoInformado \notin Senhas \cup BOOLEAN

VARIABLES
    contas,         \* the table of users
    agora,          \* the clock
    pedidos,        \* what each request in progress holds
    erros           \* history: wrong passwords since the clock last moved, with no
                    \* write of another kind in between

vars == << contas, agora, pedidos, erros >>

Colunas == {"senha", "ativo", "deletedAt", "tentativas", "bloqueadoAte"}
Tipos == { "login", "acerto", "erro", "desbloquear", "preferencias", "alterar",
           "trocarSenha", "reativar", "criar", "excluir" }

\* What save may write.  UserMapper.toEntity leaves the lockout undefined, and a
\* domain object that was "restored" has deletedAt undefined as well: save leaves an
\* undefined column alone.
Salvas(tipo) ==
    CASE tipo \in {"acerto", "erro", "desbloquear", "preferencias"} -> Colunas
      [] tipo \in {"alterar", "trocarSenha", "reativar"} ->
            {"senha", "ativo", "deletedAt"}
      [] tipo = "criar" -> {"senha", "ativo"}
      [] OTHER -> {}

\* lida is the situation of the account when the request read it, senha the password
\* to be compared; copia is what the request wants to save, muda the columns its
\* UPDATE will write.
Pedido == [ fase: {"comparar", "salvar", "gravar", "inserir", "excluir"},
            tipo: Tipos, conta: Usuarios, lida: Situacao \cup {Ausente},
            senha: Senhas \cup {NaoInformado}, copia: Conta \cup {Ausente},
            muda: SUBSET Colunas ]
Livre == [fase |-> "livre"]

Presente(u) == contas[u] # Ausente
\* findOne, findById: a row in the trash is not found.
Encontrada(u) == Presente(u) /\ contas[u].deletedAt = "null"
IsBlocked(c) == c.bloqueadoAte > agora
\* The domain object's isDeleted: anything but undefined, and a row has null.
IsDeleted(deletedAt) == deletedAt # "undefined"

\* User.create and Password.create.
ContaNova(s) == [ senha |-> s, ativo |-> TRUE, deletedAt |-> "null",
                  tentativas |-> 0, bloqueadoAte |-> 0 ]

-----------------------------------------------------------------------------
Init ==
    /\ contas = [u \in Usuarios |-> Ausente]
    /\ agora = 0
    /\ pedidos = [r \in Reqs |-> Livre]
    /\ erros = [u \in Usuarios |-> 0]

\* Request r has read account u and goes on to fase with copy c.
Reter(r, fase, tipo, u, s, c) ==
    /\ pedidos[r] = Livre
    /\ pedidos' = [pedidos EXCEPT ![r] =
          [ fase |-> fase, tipo |-> tipo, conta |-> u, senha |-> s, copia |-> c,
            lida |-> IF Presente(u) THEN [ ativo |-> contas[u].ativo,
                                           deletedAt |-> contas[u].deletedAt ]
                     ELSE Ausente,
            muda |-> {} ]]
    /\ UNCHANGED << contas, agora, erros >>

\* POST /auth/login: findOne, refused at once if inactive or blocked; then bcrypt.
\* Mutant: a blocked account is compared all the same.
PedirLoginSemBloqueio(r, u, s) ==
    /\ Encontrada(u) /\ contas[u].ativo
    /\ Reter(r, "comparar", "login", u, s, contas[u])
PedirLogin(r, u, s) ==
    /\ Encontrada(u) /\ contas[u].ativo /\ ~IsBlocked(contas[u])
    /\ Reter(r, "comparar", "login", u, s, contas[u])

\* DELETE /security/blocked-users/:id
PedirDesbloqueio(r, u) ==
    /\ Encontrada(u) /\ IsBlocked(contas[u])
    /\ Reter(r, "salvar", "desbloquear", u, NaoInformado,
             [contas[u] EXCEPT !.bloqueadoAte = 0, !.tentativas = 0])

\* PATCH /users/me/settings, POST and DELETE /users/me/avatar: the columns they
\* change are not modelled.
PedirPreferencias(r, u) ==
    /\ Encontrada(u)
    /\ Reter(r, "salvar", "preferencias", u, NaoInformado, contas[u])

\* PATCH /users/:id by an administrator, with a password, a status, or neither.
PedirAlteracao(r, u, s, ativo) ==
    /\ Encontrada(u)
    /\ Reter(r, "salvar", "alterar", u, NaoInformado,
             [contas[u] EXCEPT !.senha = IF s = NaoInformado THEN @ ELSE s,
                               !.ativo = IF ativo = NaoInformado THEN @ ELSE ativo])

\* PATCH /users/me/password: the current password is compared with the copy's.
PedirTrocaDeSenha(r, u, atual, nova) ==
    /\ Encontrada(u) /\ contas[u].senha = atual /\ nova # atual
    /\ Reter(r, "salvar", "trocarSenha", u, NaoInformado,
             [contas[u] EXCEPT !.senha = nova])

\* PATCH /users/:id/reativar
\* Mutant: it finds accounts in the trash too, and takes them out of it.
PedirReativacaoDaLixeira(r, u) ==
    /\ Presente(u) /\ ~contas[u].ativo
    /\ Reter(r, "salvar", "reativar", u, NaoInformado,
             [contas[u] EXCEPT !.ativo = TRUE, !.deletedAt = "null"])
PedirReativacao(r, u) ==
    /\ Encontrada(u) /\ ~contas[u].ativo
    /\ Reter(r, "salvar", "reativar", u, NaoInformado,
             [contas[u] EXCEPT !.ativo = TRUE])

\* DELETE /users/:id: findById, then the soft deletion by id.
PedirExclusao(r, u) ==
    /\ Encontrada(u)
    /\ Reter(r, "excluir", "excluir", u, NaoInformado, Ausente)

\* POST /users: refused if the name is taken by an account that is not deleted; a
\* deleted one is to be used again; else a new row.
PedirCriacao(r, u, s) ==
    \/ /\ Presente(u) /\ IsDeleted(contas[u].deletedAt)
       /\ Reter(r, "salvar", "criar", u, NaoInformado,
                [contas[u] EXCEPT !.senha = s, !.ativo = TRUE])
    \/ /\ ~Presente(u)
       /\ Reter(r, "inserir", "criar", u, NaoInformado, ContaNova(s))

\* POST /auth/register: refused if an account in use has the name.
PedirRegistro(r, u, s) ==
    /\ ~Encontrada(u)
    /\ Reter(r, "inserir", "criar", u, NaoInformado, ContaNova(s))

-----------------------------------------------------------------------------
(* The steps of a request that has read its account. *)

\* bcrypt has answered: handleFailedLogin or handleSuccessfulLogin, on the copy.
\* Mutant: the failure after the limit blocks.
ContaComErroFolgada(c) ==
    [c EXCEPT !.tentativas = @ + 1,
              !.bloqueadoAte = IF c.tentativas + 1 > Limite THEN agora + Duracao ELSE @]
ContaComErro(c) ==
    [c EXCEPT !.tentativas = @ + 1,
              !.bloqueadoAte = IF c.tentativas + 1 >= Limite THEN agora + Duracao ELSE @]
ContaComAcerto(c) == [c EXCEPT !.tentativas = 0, !.bloqueadoAte = 0]

Comparar(r) ==
    /\ pedidos[r].fase = "comparar"
    /\ LET p == pedidos[r]
           certa == p.senha = p.copia.senha
       IN  /\ certa \/ p.copia.tentativas < MaxTentativas
           /\ pedidos' = [pedidos EXCEPT ![r] =
                 [p EXCEPT !.fase = "salvar", !.senha = NaoInformado,
                           !.tipo = IF certa THEN "acerto" ELSE "erro",
                           !.copia = IF certa THEN ContaComAcerto(@)
                                     ELSE ContaComErro(@)]]
    /\ UNCHANGED << contas, agora, erros >>

\* save reads the row, in the trash or not, and finds what differs.
Carregar(r) ==
    /\ pedidos[r].fase = "salvar"
    /\ LET p == pedidos[r]
       IN  pedidos' = [pedidos EXCEPT ![r].fase = "gravar", ![r].muda =
              { k \in Salvas(p.tipo) : p.copia[k] # contas[p.conta][k] }]
    /\ UNCHANGED << contas, agora, erros >>

ErrosDepois(p) ==
    [erros EXCEPT ![p.conta] = IF p.tipo = "erro" THEN @ + 1 ELSE 0]

\* The UPDATE.
Gravar(r) ==
    /\ pedidos[r].fase = "gravar"
    /\ LET p == pedidos[r]
       IN  /\ contas' = [contas EXCEPT ![p.conta] =
                 [k \in Colunas |-> IF k \in p.muda THEN p.copia[k] ELSE @[k]]]
           /\ erros' = ErrosDepois(p)
    /\ pedidos' = [pedidos EXCEPT ![r] = Livre]
    /\ UNCHANGED agora

\* The INSERT: the name is unique, deleted accounts included.
Inserir(r) ==
    /\ pedidos[r].fase = "inserir"
    /\ LET p == pedidos[r]
       IN  /\ ~Presente(p.conta)
           /\ contas' = [contas EXCEPT ![p.conta] = p.copia]
           /\ erros' = ErrosDepois(p)
    /\ pedidos' = [pedidos EXCEPT ![r] = Livre]
    /\ UNCHANGED agora

\* Mutant: the column gets what the domain object has for none.
ExcluirIndefinida(r) ==
    /\ pedidos[r].fase = "excluir"
    /\ contas' = [contas EXCEPT ![pedidos[r].conta].deletedAt = "undefined"]
    /\ erros' = ErrosDepois(pedidos[r])
    /\ pedidos' = [pedidos EXCEPT ![r] = Livre]
    /\ UNCHANGED agora
Excluir(r) ==
    /\ pedidos[r].fase = "excluir"
    /\ contas' = [contas EXCEPT ![pedidos[r].conta].deletedAt = "data"]
    /\ erros' = ErrosDepois(pedidos[r])
    /\ pedidos' = [pedidos EXCEPT ![r] = Livre]
    /\ UNCHANGED agora

\* A rejected query, a name that is taken, a role that does not exist.
Falhar(r) ==
    /\ pedidos[r] # Livre
    /\ pedidos' = [pedidos EXCEPT ![r] = Livre]
    /\ UNCHANGED << contas, agora, erros >>

\* Time passes.
Passar ==
    /\ agora < MaxAgora
    /\ agora' = agora + 1
    /\ erros' = [u \in Usuarios |-> 0]
    /\ UNCHANGED << contas, pedidos >>

Chegar(r, u) ==
    \/ \E s \in Senhas : \/ PedirLogin(r, u, s)
                         \/ PedirCriacao(r, u, s)
                         \/ PedirRegistro(r, u, s)
                         \/ \E n \in Senhas : PedirTrocaDeSenha(r, u, s, n)
    \/ \E s \in Senhas \cup {NaoInformado}, a \in BOOLEAN \cup {NaoInformado} :
          PedirAlteracao(r, u, s, a)
    \/ PedirDesbloqueio(r, u)
    \/ PedirPreferencias(r, u)
    \/ PedirReativacao(r, u)
    \/ PedirExclusao(r, u)

Continuar(r) ==
    \/ Comparar(r)
    \/ Carregar(r)
    \/ Gravar(r)
    \/ Inserir(r)
    \/ Excluir(r)
    \/ Falhar(r)

Next == Passar \/ \E r \in Reqs : Continuar(r) \/ \E u \in Usuarios : Chegar(r, u)

Spec == Init /\ [][Next]_vars
-----------------------------------------------------------------------------
TypeOK ==
    /\ contas \in [Usuarios -> Conta \cup {Ausente}]
    /\ agora \in 0 .. MaxAgora
    /\ pedidos \in [Reqs -> {Livre} \cup Pedido]
    /\ erros \in [Usuarios -> Nat]

\* Request r ends with this step.
Termina(r) == pedidos[r] # Livre /\ pedidos'[r] = Livre

\* An account comes back only so far. No operation takes one out of the trash, whatever
\* its name says: only a request which had read it before its deletion does, saving its
\* copy over it. And a deactivation is undone by an administrator, or by a request that
\* had read the account before it.
ContaSoVoltaPorAdminOuLeituraAntiga ==
    [][ \A u \in Usuarios :
           Presente(u) =>
           /\ contas[u].deletedAt = "data" /\ contas'[u].deletedAt = "null" =>
                 \E r \in Reqs : /\ Termina(r) /\ pedidos[r].conta = u
                                 /\ pedidos[r].lida # Ausente
                                 /\ pedidos[r].lida.deletedAt = "null"
           /\ ~contas[u].ativo /\ contas'[u].ativo =>
                 \E r \in Reqs :
                    /\ Termina(r) /\ pedidos[r].conta = u
                    /\ \/ pedidos[r].tipo \in {"alterar", "reativar", "criar"}
                       \/ pedidos[r].lida.ativo ]_vars

\* Of two logins at once one increment may be lost, and a late failure even takes the
\* block of the others away.  Still, two clients never see more than this many wrong
\* passwords compared, at one instant of the clock, on an account that is not blocked:
\* each stale save puts the counter back, but one step further than the time before.
\* (For a limit of one it does not hold: the block may be over when it is written.)
Teto == (Limite * Limite + 3 * Limite - 2) \div 2
ErrosLimitados ==
    \A u \in Usuarios :
       Presente(u) /\ ~IsBlocked(contas[u]) => erros[u] <= Teto
=============================================================================
