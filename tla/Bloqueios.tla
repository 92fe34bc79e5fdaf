------------------------------ MODULE Bloqueios -------------------------------
(***************************************************************************)
(* The blocked addresses of SecurityService: the check that IpBlockerGuard *)
(* makes before a login, the block and the unblock of an administrator,    *)
(* and the automatic block, several at once.                               *)
(*                                                                         *)
(* There is one row for an address, blocked or not any more.  The check is *)
(* a writer too: it counts the attempt, or ends a block that has expired,  *)
(* by saving the row it read, and save writes every column in which that   *)
(* copy differs from the row as it is by then.  Logins, which anybody may  *)
(* try, so compete with the decisions of the administrators.               *)
(***************************************************************************)
EXTENDS Naturals

CONSTANTS
    Verificacoes,   \* the requests that may be in progress at one time
    Ips,            \* addresses (a unique column)
    Validade,       \* how long a block with an end lasts, in ticks of the clock
    MaxInstante,    \* bound: the clock
    MaxContagem,    \* bound: the attempts counted on one block
    SemBloqueio     \* no row has this address

ASSUME InstantesAssumption ==
    Validade \in Nat \ {0} /\ MaxInstante \in Nat /\ MaxContagem \in Nat

\* expiresAt is an instant, 0 for null: a block without end.
Bloqueio == [ isActive: BOOLEAN, expiresAt: 0 .. MaxInstante + Validade,
              attemptsCount: 0 .. MaxContagem ]
ColunasDoBloqueio == {"isActive", "expiresAt", "attemptsCount"}

ASSUME SemBloqueioAssumption == SemBloqueio \notin Bloqueio

VARIABLES
    bloqueios,      \* the table blocked_ips
    instante,       \* the clock
    verificacoes    \* what each request in progress holds

varsBloqueios == << bloqueios, instante, verificacoes >>

Ociosa == [etapa |-> "ociosa"]

\* lida is the row as the request read it, copia what it wants to save, muda the
\* columns its UPDATE will write.
Verificacao ==
    [ etapa: {"bloquear", "salvar", "gravar", "inserir"},
      tipo: {"contar", "expirar", "bloquear", "desbloquear", "automatico"},
      ip: Ips,
      lida: Bloqueio \cup {SemBloqueio}, copia: Bloqueio \cup {SemBloqueio},
      muda: SUBSET ColunasDoBloqueio ]

\* Mutant: a block ends in the instant before its own.
IsExpiredCedo(b) == b.expiresAt # 0 /\ instante >= b.expiresAt
IsExpired(b) == b.expiresAt # 0 /\ instante > b.expiresAt
ShouldBlock(b) == b # SemBloqueio /\ b.isActive /\ (b.expiresAt = 0 \/ instante <= b.expiresAt)

BloqueioNovo(validade) ==
    [isActive |-> TRUE, expiresAt |-> validade, attemptsCount |-> 0]

InitBloqueios ==
    /\ bloqueios = [ip \in Ips |-> SemBloqueio]
    /\ instante = 0
    /\ verificacoes = [v \in Verificacoes |-> Ociosa]

-----------------------------------------------------------------------------
\* Request v has read the row of ip and goes on to etapa with this copy of it.
ReterBloqueio(v, etapa, tipo, ip, copia) ==
    /\ verificacoes' = [verificacoes EXCEPT ![v] =
          [ etapa |-> etapa, tipo |-> tipo, ip |-> ip,
            lida |-> bloqueios[ip], copia |-> copia, muda |-> {} ]]
    /\ UNCHANGED << bloqueios, instante >>

Ativo(ip) == bloqueios[ip] # SemBloqueio /\ bloqueios[ip].isActive

\* isIpBlocked of an active row: it ends an expired block and lets the caller go on,
\* or counts the attempt and refuses.
IsIpBlocked(v, tipo, ip) ==
    /\ Ativo(ip)
    /\ LET b == bloqueios[ip]
       IN  \/ /\ IsExpired(b)
              /\ ReterBloqueio(v, "salvar", tipo, ip, [b EXCEPT !.isActive = FALSE])
           \/ /\ ~IsExpired(b) /\ b.attemptsCount < MaxContagem
              /\ ReterBloqueio(v, "salvar", "contar", ip, [b EXCEPT !.attemptsCount = @ + 1])

\* The guard of POST /auth/login. With no active row it writes nothing.
Verificar(v, ip) ==
    /\ verificacoes[v] = Ociosa
    /\ IsIpBlocked(v, "expirar", ip)

\* What blockIp does once it has read: an active row is refused; another is used again,
\* all its columns set; without one there is a new row.
BlockIp(v, ip, validade) ==
    /\ ~Ativo(ip)
    /\ ReterBloqueio(v, IF bloqueios[ip] = SemBloqueio THEN "inserir" ELSE "salvar",
                     "bloquear", ip, BloqueioNovo(validade))

\* POST /security/blocked-ips, with an end or without.
PedirBloqueio(v, ip, validade) ==
    /\ verificacoes[v] = Ociosa
    /\ BlockIp(v, ip, validade)

\* POST /security/auto-block, for an address with many failures: isIpBlocked, which
\* writes as well, and blockIp if it was not blocked. The addresses come one after
\* the other, and nothing is carried from one to the next.
PedirBloqueioAutomatico(v, ip) ==
    /\ verificacoes[v] = Ociosa
    /\ \/ IsIpBlocked(v, "automatico", ip)
       \/ /\ ~Ativo(ip)
          /\ ReterBloqueio(v, "bloquear", "automatico", ip, SemBloqueio)

\* The automatic block has found the address free.
BloquearAutomatico(v) ==
    /\ verificacoes[v].etapa = "bloquear"
    /\ BlockIp(v, verificacoes[v].ip, instante + Validade)

\* DELETE /security/blocked-ips/:ip
PedirDesbloqueioDoIp(v, ip) ==
    /\ verificacoes[v] = Ociosa
    /\ bloqueios[ip] # SemBloqueio
    /\ ReterBloqueio(v, "salvar", "desbloquear", ip, [bloqueios[ip] EXCEPT !.isActive = FALSE])

-----------------------------------------------------------------------------
\* save reads the row and finds what differs.
CarregarBloqueio(v) ==
    /\ verificacoes[v].etapa = "salvar"
    /\ LET p == verificacoes[v]
       IN  verificacoes' = [verificacoes EXCEPT ![v].etapa = "gravar", ![v].muda =
              { k \in ColunasDoBloqueio : p.copia[k] # bloqueios[p.ip][k] }]
    /\ UNCHANGED << bloqueios, instante >>

\* Where a request goes after its save: the automatic block has still to block.
Depois(p) == IF p.tipo = "automatico" THEN [p EXCEPT !.etapa = "bloquear"] ELSE Ociosa

\* The UPDATE.
GravarBloqueio(v) ==
    /\ verificacoes[v].etapa = "gravar"
    /\ LET p == verificacoes[v]
       IN  /\ bloqueios' = [bloqueios EXCEPT ![p.ip] =
                 [k \in ColunasDoBloqueio |-> IF k \in p.muda THEN p.copia[k] ELSE @[k]]]
           /\ verificacoes' = [verificacoes EXCEPT ![v] = Depois(p)]
    /\ UNCHANGED instante

\* The INSERT: the address is unique.
InserirBloqueio(v) ==
    /\ verificacoes[v].etapa = "inserir"
    /\ LET p == verificacoes[v]
       IN  /\ bloqueios[p.ip] = SemBloqueio
           /\ bloqueios' = [bloqueios EXCEPT ![p.ip] = p.copia]
    /\ verificacoes' = [verificacoes EXCEPT ![v] = Ociosa]
    /\ UNCHANGED instante

\* A rejected query, an address that is taken.
FalharVerificacao(v) ==
    /\ verificacoes[v] # Ociosa
    /\ verificacoes' = [verificacoes EXCEPT ![v] = Ociosa]
    /\ UNCHANGED << bloqueios, instante >>

PassarInstante ==
    /\ instante < MaxInstante
    /\ instante' = instante + 1
    /\ UNCHANGED << bloqueios, verificacoes >>

NextBloqueios ==
    \/ PassarInstante
    \/ \E v \in Verificacoes :
          \/ \E ip \in Ips :
                \/ Verificar(v, ip)
                \/ \E validade \in {0, instante + Validade} : PedirBloqueio(v, ip, validade)
                \/ PedirBloqueioAutomatico(v, ip)
                \/ PedirDesbloqueioDoIp(v, ip)
          \/ BloquearAutomatico(v)
          \/ CarregarBloqueio(v)
          \/ GravarBloqueio(v)
          \/ InserirBloqueio(v)
          \/ FalharVerificacao(v)

SpecBloqueios == InitBloqueios /\ [][NextBloqueios]_varsBloqueios
-----------------------------------------------------------------------------
BloqueiosTypeOK ==
    /\ bloqueios \in [Ips -> Bloqueio \cup {SemBloqueio}]
    /\ instante \in 0 .. MaxInstante
    /\ verificacoes \in [Verificacoes -> {Ociosa} \cup Verificacao]

\* The request has read another row than the one it writes over.
LeuOutra(p) ==
    p.lida # SemBloqueio /\ << p.lida.isActive, p.lida.expiresAt >>
       # << bloqueios[p.ip].isActive, bloqueios[p.ip].expiresAt >>

\* But for the clock, an address begins to be refused because it was blocked, and ceases
\* because it was unblocked; or else because a request put back a row that somebody has
\* decided upon since it read it: an attempt counted late revives a block that was
\* lifted, and a check that saw an old block expired ends the new one.
BloqueioSoMudaPorPedidoOuLeituraAntiga ==
    [][ \A ip \in Ips :
           /\ instante' = instante
           /\ ShouldBlock(bloqueios[ip]) # ShouldBlock(bloqueios'[ip])
           => \E v \in Verificacoes :
                 LET p == verificacoes[v]
                 IN  /\ p # Ociosa /\ p.ip = ip /\ verificacoes'[v] # p
                     /\ \/ LeuOutra(p)
                        \/ p.tipo = IF ShouldBlock(bloqueios[ip]) THEN "desbloquear"
                                    ELSE "bloquear" ]_varsBloqueios
=============================================================================
