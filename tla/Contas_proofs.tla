----------------------------- MODULE Contas_proofs -----------------------------
(***************************************************************************)
(* Proofs about who may log in, for any number of requests, users,         *)
(* addresses and passwords: the types of both parts, that an account comes *)
(* back only by the decision of an administrator or by the save of a copy  *)
(* read before, and the same of what an address is refused for.  Of two    *)
(* requests at a time: how many wrong passwords an open account sees.      *)
(***************************************************************************)
EXTENDS MCContas, ContasSerial, TLAPS

-----------------------------------------------------------------------------
(* Accounts: what a request holds, and where it comes from. *)

\* A request that will write over a row has read it, and the row is still there: no
\* operation takes a row away.
LeuALinha(p) ==
    p.fase \in {"comparar", "salvar", "gravar", "excluir"} =>
        Presente(p.conta) /\ p.lida # Ausente

\* The copy a request wants to save was made from what it read: its deletedAt is the one
\* read, and its ativo too, unless the request is an administrator's.
CopiaDoQueLeu(p) ==
    p.fase \in {"comparar", "salvar", "gravar"} =>
        /\ p.copia # Ausente /\ p.copia.deletedAt = p.lida.deletedAt
        /\ p.copia.ativo = p.lida.ativo \/ p.tipo \in {"alterar", "reativar", "criar"}
        /\ p.fase = "comparar" => p.tipo = "login"

\* A row to be inserted is a whole row.
CopiaParaInserir(p) == p.fase = "inserir" => p.copia # Ausente

PedidoCoerente(p) == LeuALinha(p) /\ CopiaDoQueLeu(p) /\ CopiaParaInserir(p)

ContasInv ==
    TypeOK /\ \A r \in Reqs : pedidos[r] # Livre => PedidoCoerente(pedidos[r])

-----------------------------------------------------------------------------
(* The operators. *)

\* The lockout of a copy changes nothing else in it, and stays in its type.
LEMMA OutroBloqueio ==
    ASSUME NEW c \in Conta, NEW t \in 0 .. MaxTentativas, NEW b \in 0 .. MaxAgora + Duracao
    PROVE  LET d == [c EXCEPT !.tentativas = t, !.bloqueadoAte = b]
               e == [c EXCEPT !.bloqueadoAte = b, !.tentativas = t]
           IN  /\ d \in Conta /\ d.ativo = c.ativo /\ d.deletedAt = c.deletedAt
               /\ e \in Conta /\ e.ativo = c.ativo /\ e.deletedAt = c.deletedAt
BY DEF Conta

LEMMA ContaComAcertoTipo ==
    ASSUME NEW c \in Conta
    PROVE  /\ ContaComAcerto(c) \in Conta
           /\ ContaComAcerto(c).ativo = c.ativo
           /\ ContaComAcerto(c).deletedAt = c.deletedAt
<1>1. 0 \in 0 .. MaxTentativas /\ 0 \in 0 .. MaxAgora + Duracao
  BY LimitesAssumption
<1>. QED  BY <1>1, OutroBloqueio DEF ContaComAcerto

LEMMA ContaComErroTipo ==
    ASSUME NEW c \in Conta, c.tentativas < MaxTentativas, agora \in 0 .. MaxAgora
    PROVE  /\ ContaComErro(c) \in Conta
           /\ ContaComErro(c).ativo = c.ativo
           /\ ContaComErro(c).deletedAt = c.deletedAt
<1>. DEFINE t == c.tentativas + 1
            b == IF t >= Limite THEN agora + Duracao ELSE c.bloqueadoAte
<1>1. c.tentativas \in 0 .. MaxTentativas /\ c.bloqueadoAte \in 0 .. MaxAgora + Duracao
  BY DEF Conta
<1>2. t \in 0 .. MaxTentativas /\ b \in 0 .. MaxAgora + Duracao
  BY <1>1, LimitesAssumption
<1>3. ContaComErro(c) = [c EXCEPT !.tentativas = t, !.bloqueadoAte = b]
  BY Zenon DEF ContaComErro
<1>. DEFINE d == [c EXCEPT !.tentativas = t, !.bloqueadoAte = b]
<1>4. d \in Conta /\ d.ativo = c.ativo /\ d.deletedAt = c.deletedAt
  <2>. HIDE DEF t, b
  <2>. QED  BY <1>2 DEF Conta
<1>. HIDE DEF d
<1>. QED  BY <1>3, <1>4 DEF d

LEMMA ContaNovaTipo == ASSUME NEW s \in Senhas PROVE ContaNova(s) \in Conta
BY LimitesAssumption DEF ContaNova, Conta

\* The row an UPDATE of the columns in muda leaves.
LEMMA LinhaGravada ==
    ASSUME NEW c \in Conta, NEW l \in Conta, NEW muda \in SUBSET Colunas, NEW g,
           g = [k \in Colunas |-> IF k \in muda THEN c[k] ELSE l[k]]
    PROVE  /\ g \in Conta
           /\ g.deletedAt \in {c.deletedAt, l.deletedAt}
           /\ g.ativo \in {c.ativo, l.ativo}
BY DEF Conta, Colunas

\* What is in progress is a request with all its fields, or nothing.
LEMMA PedidoEmCurso ==
    ASSUME TypeOK, NEW r \in Reqs
    PROVE  /\ pedidos[r] = Livre <=> pedidos[r].fase = "livre"
           /\ pedidos[r] # Livre => pedidos[r] \in Pedido
BY DEF TypeOK, Livre, Pedido

\* A row that is not absent is an account.
LEMMA LinhaPresente ==
    ASSUME TypeOK, NEW u \in Usuarios, Presente(u)
    PROVE  contas[u] \in Conta
BY DEF TypeOK, Presente

-----------------------------------------------------------------------------
(* ContasInv is inductive. *)

LEMMA ContasInvInit == Init => ContasInv
BY LimitesAssumption DEF Init, ContasInv, TypeOK, Conta

\* A request that arrives: what it reads and the copy it keeps agree.
LEMMA ReterMantem ==
    ASSUME ContasInv,
           NEW r \in Reqs, NEW u \in Usuarios, NEW s \in Senhas \cup {NaoInformado},
           NEW fase \in {"comparar", "salvar", "inserir", "excluir"}, NEW tipo \in Tipos,
           NEW c \in Conta \cup {Ausente},
           Reter(r, fase, tipo, u, s, c),
           fase # "inserir" => Presente(u),
           fase # "excluir" => c # Ausente,
           fase \in {"comparar", "salvar"} =>
               /\ c.deletedAt = contas[u].deletedAt
               /\ c.ativo = contas[u].ativo \/ tipo \in {"alterar", "reativar", "criar"},
           fase = "comparar" => tipo = "login"
    PROVE  ContasInv'
<1>1. TypeOK
  BY DEF ContasInv
<1>. DEFINE lida == IF Presente(u) THEN [ ativo |-> contas[u].ativo,
                                          deletedAt |-> contas[u].deletedAt ]
                    ELSE Ausente
            p == [ fase |-> fase, tipo |-> tipo, conta |-> u, senha |-> s, copia |-> c,
                   lida |-> lida, muda |-> {} ]
<1>2. lida \in Situacao \cup {Ausente}
  BY <1>1, LinhaPresente DEF Situacao, Conta
<1>3. p \in Pedido
  BY <1>2 DEF Pedido
<1>4. pedidos' = [pedidos EXCEPT ![r] = p] /\ contas' = contas /\ agora' = agora
        /\ erros' = erros
  BY DEF Reter
<1>5. TypeOK'
  <2>. HIDE DEF p
  <2>. QED  BY <1>1, <1>3, <1>4 DEF TypeOK
<1>6. Presente(u) => /\ lida # Ausente
                     /\ lida.ativo = contas[u].ativo /\ lida.deletedAt = contas[u].deletedAt
  <2>1. ASSUME Presente(u) PROVE lida \in Situacao
    BY <2>1, <1>1, LinhaPresente DEF Situacao, Conta
  <2>2. Ausente \notin Situacao
    BY SentinelasAssumption
  <2>. QED  BY <2>1, <2>2
<1>7. p.fase = fase /\ p.conta = u /\ p.lida = lida /\ p.copia = c /\ p.tipo = tipo
  OBVIOUS
<1>8. pedidos'[r] = p
  BY <1>1, <1>4 DEF TypeOK
<1>9. PedidoCoerente(pedidos[r])'
  <2>. HIDE DEF p, lida
  <2>1. LeuALinha(pedidos[r])'
    BY <1>4, <1>6, <1>7, <1>8 DEF LeuALinha, Presente
  <2>2. CopiaDoQueLeu(pedidos[r])'
    BY <1>6, <1>7, <1>8 DEF CopiaDoQueLeu
  <2>3. CopiaParaInserir(pedidos[r])'
    BY <1>7, <1>8 DEF CopiaParaInserir
  <2>. QED  BY <2>1, <2>2, <2>3 DEF PedidoCoerente
<1>10. ASSUME NEW q \in Reqs \ {r}, pedidos'[q] # Livre PROVE PedidoCoerente(pedidos[q])'
  <2>. HIDE DEF p
  <2>1. pedidos'[q] = pedidos[q]
    BY <1>1, <1>4 DEF TypeOK
  <2>. QED
    BY <2>1, <1>4, <1>10 DEF ContasInv, PedidoCoerente, LeuALinha, CopiaDoQueLeu,
                             CopiaParaInserir, Presente
<1>. QED  BY <1>5, <1>9, <1>10 DEF ContasInv

\* A request that arrives keeps the invariant, whatever it asks for.
LEMMA ChegarMantem ==
    ASSUME ContasInv, NEW r \in Reqs, NEW u \in Usuarios, Chegar(r, u)
    PROVE  ContasInv'
<1>. DEFINE l == contas[u]
<1>1. Presente(u) => l \in Conta
  BY LinhaPresente DEF ContasInv
<1>2. Encontrada(u) => Presente(u)
  BY DEF Encontrada
<1>3. l \in Conta => l # Ausente
  BY SentinelasAssumption
<1>4. ASSUME NEW s \in Senhas, PedirLogin(r, u, s) PROVE ContasInv'
  BY <1>1, <1>2, <1>3, <1>4, ReterMantem DEF PedirLogin, Tipos
<1>5. ASSUME NEW s \in Senhas, PedirCriacao(r, u, s) PROVE ContasInv'
  <2>1. CASE Presente(u) /\ Reter(r, "salvar", "criar", u, NaoInformado,
                                  [l EXCEPT !.senha = s, !.ativo = TRUE])
    <3>. DEFINE c == [l EXCEPT !.senha = s, !.ativo = TRUE]
    <3>1. c \in Conta /\ c.deletedAt = l.deletedAt
      BY <1>1, <2>1 DEF Conta
    <3>2. c # Ausente
      BY <3>1, SentinelasAssumption
    <3>. HIDE DEF c
    <3>. QED  BY <2>1, <3>1, <3>2, ReterMantem DEF Tipos, c
  <2>2. CASE Reter(r, "inserir", "criar", u, NaoInformado, ContaNova(s))
    BY <2>2, ContaNovaTipo, SentinelasAssumption, ReterMantem DEF Tipos
  <2>. QED  BY <1>5, <2>1, <2>2 DEF PedirCriacao
<1>6. ASSUME NEW s \in Senhas, PedirRegistro(r, u, s) PROVE ContasInv'
  BY <1>6, ContaNovaTipo, SentinelasAssumption, ReterMantem DEF PedirRegistro, Tipos
<1>7. ASSUME NEW s \in Senhas, NEW n \in Senhas, PedirTrocaDeSenha(r, u, s, n)
      PROVE  ContasInv'
  <2>. DEFINE c == [l EXCEPT !.senha = n]
  <2>1. c \in Conta /\ c.deletedAt = l.deletedAt /\ c.ativo = l.ativo
    BY <1>1, <1>2, <1>7 DEF Conta, PedirTrocaDeSenha
  <2>2. c # Ausente
    BY <2>1, SentinelasAssumption
  <2>. HIDE DEF c
  <2>. QED  BY <1>2, <1>7, <2>1, <2>2, ReterMantem DEF PedirTrocaDeSenha, Tipos, c
<1>8. ASSUME NEW s \in Senhas \cup {NaoInformado}, NEW a \in BOOLEAN \cup {NaoInformado},
             PedirAlteracao(r, u, s, a)
      PROVE  ContasInv'
  <2>. DEFINE c == [l EXCEPT !.senha = IF s = NaoInformado THEN @ ELSE s,
                             !.ativo = IF a = NaoInformado THEN @ ELSE a]
  <2>1. c \in Conta /\ c.deletedAt = l.deletedAt
    BY <1>1, <1>2, <1>8 DEF Conta, PedirAlteracao
  <2>2. c # Ausente
    BY <2>1, SentinelasAssumption
  <2>. HIDE DEF c
  <2>. QED  BY <1>2, <1>8, <2>1, <2>2, ReterMantem DEF PedirAlteracao, Tipos, c
<1>9. ASSUME PedirDesbloqueio(r, u) PROVE ContasInv'
  <2>. DEFINE c == [l EXCEPT !.bloqueadoAte = 0, !.tentativas = 0]
  <2>1. c \in Conta /\ c.deletedAt = l.deletedAt /\ c.ativo = l.ativo
    <3>1. l \in Conta /\ 0 \in 0 .. MaxTentativas /\ 0 \in 0 .. MaxAgora + Duracao
      BY <1>1, <1>2, <1>9, LimitesAssumption DEF PedirDesbloqueio
    <3>. QED  BY <3>1, OutroBloqueio
  <2>2. c # Ausente
    BY <2>1, SentinelasAssumption
  <2>. HIDE DEF c
  <2>. QED  BY <1>2, <1>9, <2>1, <2>2, ReterMantem DEF PedirDesbloqueio, Tipos, c
<1>10. ASSUME PedirPreferencias(r, u) PROVE ContasInv'
  BY <1>1, <1>2, <1>3, <1>10, ReterMantem DEF PedirPreferencias, Tipos
<1>11. ASSUME PedirReativacao(r, u) PROVE ContasInv'
  <2>. DEFINE c == [l EXCEPT !.ativo = TRUE]
  <2>1. c \in Conta /\ c.deletedAt = l.deletedAt
    BY <1>1, <1>2, <1>11 DEF Conta, PedirReativacao
  <2>2. c # Ausente
    BY <2>1, SentinelasAssumption
  <2>. HIDE DEF c
  <2>. QED  BY <1>2, <1>11, <2>1, <2>2, ReterMantem DEF PedirReativacao, Tipos, c
<1>12. ASSUME PedirExclusao(r, u) PROVE ContasInv'
  BY <1>2, <1>12, ReterMantem DEF PedirExclusao, Tipos
<1>. QED
  BY <1>4, <1>5, <1>6, <1>7, <1>8, <1>9, <1>10, <1>11, <1>12 DEF Chegar
\* The account a request in progress is about, and its row as the save finds it.
LEMMA LinhaDoPedido ==
    ASSUME ContasInv, NEW r \in Reqs, pedidos[r] # Livre
    PROVE  /\ pedidos[r] \in Pedido /\ PedidoCoerente(pedidos[r])
           /\ pedidos[r].conta \in Usuarios
           /\ pedidos[r].fase \in {"comparar", "salvar", "gravar", "excluir"} =>
                 contas[pedidos[r].conta] \in Conta
<1>1. pedidos[r] \in Pedido /\ PedidoCoerente(pedidos[r])
  BY PedidoEmCurso DEF ContasInv
<1>2. pedidos[r].conta \in Usuarios
  BY <1>1 DEF Pedido
<1>. QED  BY <1>1, <1>2, LinhaPresente DEF PedidoCoerente, LeuALinha, ContasInv

\* A step that leaves the accounts alone and only ends or rewrites request r.
LEMMA SoOPedidoMuda ==
    ASSUME ContasInv, NEW r \in Reqs, NEW p \in {Livre} \cup Pedido,
           p # Livre => PedidoCoerente(p),
           pedidos' = [pedidos EXCEPT ![r] = p],
           UNCHANGED << contas, agora, erros >>
    PROVE  ContasInv'
<1>1. TypeOK'
  BY DEF ContasInv, TypeOK
<1>2. ASSUME NEW q \in Reqs, pedidos'[q] # Livre PROVE PedidoCoerente(pedidos[q])'
  <2>1. pedidos'[q] = IF q = r THEN p ELSE pedidos[q]
    BY DEF ContasInv, TypeOK
  <2>2. PedidoCoerente(pedidos'[q])
    BY <2>1, <1>2 DEF ContasInv
  <2>. QED
    BY <2>2 DEF PedidoCoerente, LeuALinha, CopiaDoQueLeu, CopiaParaInserir, Presente
<1>. QED  BY <1>1, <1>2 DEF ContasInv

\* A step that ends request r and writes row u, which is there afterwards.
LEMMA SoUmaLinhaMuda ==
    ASSUME ContasInv, NEW r \in Reqs, NEW u \in Usuarios, NEW c \in Conta,
           contas' = [contas EXCEPT ![u] = c],
           pedidos' = [pedidos EXCEPT ![r] = Livre],
           erros' \in [Usuarios -> Nat], agora' = agora
    PROVE  ContasInv'
<1>1. TypeOK'
  BY DEF ContasInv, TypeOK
<1>2. \A v \in Usuarios : Presente(v) => Presente(v)'
  BY SentinelasAssumption DEF ContasInv, TypeOK, Presente
<1>3. ASSUME NEW q \in Reqs, pedidos'[q] # Livre PROVE PedidoCoerente(pedidos[q])'
  <2>1. q # r /\ pedidos'[q] = pedidos[q]
    BY <1>3 DEF ContasInv, TypeOK
  <2>2. PedidoCoerente(pedidos[q]) /\ pedidos[q].conta \in Usuarios
    BY <2>1, <1>3, LinhaDoPedido
  <2>. QED
    BY <2>1, <2>2, <1>2 DEF PedidoCoerente, LeuALinha, CopiaDoQueLeu, CopiaParaInserir
<1>. QED  BY <1>1, <1>3 DEF ContasInv

LEMMA ErrosDepoisTipo ==
    ASSUME TypeOK, NEW p \in Pedido
    PROVE  ErrosDepois(p) \in [Usuarios -> Nat]
BY DEF TypeOK, ErrosDepois, Pedido

\* The steps of a request in progress keep the invariant.
LEMMA ContinuarMantem ==
    ASSUME ContasInv, NEW r \in Reqs, Continuar(r)
    PROVE  ContasInv'
<1>. DEFINE p == pedidos[r]
<1>1. TypeOK /\ agora \in 0 .. MaxAgora
  BY DEF ContasInv, TypeOK
<1>2. ASSUME p # Livre
      PROVE  /\ p \in Pedido /\ PedidoCoerente(p) /\ p.conta \in Usuarios
             /\ p.fase \in {"comparar", "salvar", "gravar", "excluir"} =>
                   contas[p.conta] \in Conta
  BY <1>2, LinhaDoPedido
<1>3. CASE Comparar(r)
  <2>. DEFINE certa == p.senha = p.copia.senha
              c == IF certa THEN ContaComAcerto(p.copia) ELSE ContaComErro(p.copia)
              q == [p EXCEPT !.fase = "salvar", !.senha = NaoInformado,
                             !.tipo = IF certa THEN "acerto" ELSE "erro", !.copia = c]
  <2>1. p.fase = "comparar" /\ (certa \/ p.copia.tentativas < MaxTentativas)
    BY <1>3 DEF Comparar
  <2>2. p \in Pedido /\ PedidoCoerente(p)
    BY <2>1, <1>2 DEF Livre
  <2>3. p.copia \in Conta
    BY <2>1, <2>2 DEF Pedido, PedidoCoerente, CopiaDoQueLeu
  <2>4. c \in Conta /\ c.ativo = p.copia.ativo /\ c.deletedAt = p.copia.deletedAt
    BY <1>1, <2>1, <2>3, ContaComAcertoTipo, ContaComErroTipo
  <2>5. c # Ausente
    BY <2>4, SentinelasAssumption
  <2>6. pedidos' = [pedidos EXCEPT ![r] = q] /\ UNCHANGED << contas, agora, erros >>
    BY <1>3 DEF Comparar
  <2>. HIDE DEF c
  <2>7. q \in Pedido
    BY <2>2, <2>4 DEF Pedido, Tipos
  <2>8. /\ q.fase = "salvar" /\ q.copia = c /\ q.lida = p.lida /\ q.conta = p.conta
        /\ q.tipo \in {"acerto", "erro"}
    BY <2>2 DEF Pedido
  <2>9. p.tipo = "login" /\ p.copia.ativo = p.lida.ativo /\ p.copia.deletedAt = p.lida.deletedAt
    BY <2>1, <2>2 DEF PedidoCoerente, CopiaDoQueLeu
  <2>10. PedidoCoerente(q)
    <3>. HIDE DEF q
    <3>. QED  BY <2>1, <2>2, <2>4, <2>5, <2>8, <2>9
                 DEF PedidoCoerente, LeuALinha, CopiaDoQueLeu, CopiaParaInserir
  <2>. HIDE DEF q
  <2>. QED  BY <2>6, <2>7, <2>10, SoOPedidoMuda
<1>4. CASE Carregar(r)
  <2>. DEFINE muda == { k \in Salvas(p.tipo) : p.copia[k] # contas[p.conta][k] }
              q == [p EXCEPT !.fase = "gravar", !.muda = muda]
  <2>1. p.fase = "salvar" /\ pedidos' = [pedidos EXCEPT ![r] = q]
           /\ UNCHANGED << contas, agora, erros >>
    BY <1>4 DEF Carregar
  <2>2. p \in Pedido /\ PedidoCoerente(p)
    BY <2>1, <1>2 DEF Livre
  <2>3. muda \in SUBSET Colunas
    BY DEF Salvas, Colunas
  <2>. HIDE DEF muda
  <2>4. q \in Pedido
    BY <2>2, <2>3 DEF Pedido
  <2>5. PedidoCoerente(q)
    BY <2>1, <2>2 DEF Pedido, PedidoCoerente, LeuALinha, CopiaDoQueLeu, CopiaParaInserir
  <2>. HIDE DEF q
  <2>. QED  BY <2>1, <2>4, <2>5, SoOPedidoMuda
<1>5. CASE Gravar(r)
  <2>. DEFINE c == [k \in Colunas |-> IF k \in p.muda THEN p.copia[k]
                                      ELSE contas[p.conta][k]]
  <2>1. p.fase = "gravar"
    BY <1>5 DEF Gravar
  <2>2. p \in Pedido /\ PedidoCoerente(p) /\ p.conta \in Usuarios /\ contas[p.conta] \in Conta
    BY <2>1, <1>2 DEF Livre
  <2>3. p.copia \in Conta /\ p.muda \in SUBSET Colunas
    BY <2>1, <2>2 DEF Pedido, PedidoCoerente, CopiaDoQueLeu
  <2>4. c \in Conta
    <3>1. c = [k \in Colunas |-> IF k \in p.muda THEN p.copia[k] ELSE contas[p.conta][k]]
      OBVIOUS
    <3>. HIDE DEF c
    <3>. HIDE DEF p
    <3>. QED  BY <2>2, <2>3, <3>1 DEF Conta, Colunas
  <2>5. contas' = [contas EXCEPT ![p.conta] = c] /\ erros' = ErrosDepois(p)
           /\ pedidos' = [pedidos EXCEPT ![r] = Livre] /\ agora' = agora
    BY <1>5 DEF Gravar
  <2>. HIDE DEF c
  <2>. QED  BY <1>1, <2>2, <2>4, <2>5, ErrosDepoisTipo, SoUmaLinhaMuda
<1>6. CASE Inserir(r)
  <2>1. p.fase = "inserir"
    BY <1>6 DEF Inserir
  <2>2. p \in Pedido /\ PedidoCoerente(p) /\ p.conta \in Usuarios
    BY <2>1, <1>2 DEF Livre
  <2>3. p.copia \in Conta
    BY <2>1, <2>2 DEF Pedido, PedidoCoerente, CopiaParaInserir
  <2>4. contas' = [contas EXCEPT ![p.conta] = p.copia] /\ erros' = ErrosDepois(p)
           /\ pedidos' = [pedidos EXCEPT ![r] = Livre] /\ agora' = agora
    BY <1>6 DEF Inserir
  <2>. QED  BY <1>1, <2>2, <2>3, <2>4, ErrosDepoisTipo, SoUmaLinhaMuda
<1>7. CASE Excluir(r)
  <2>. DEFINE c == [contas[p.conta] EXCEPT !.deletedAt = "data"]
  <2>1. p.fase = "excluir"
    BY <1>7 DEF Excluir
  <2>2. p \in Pedido /\ p.conta \in Usuarios /\ contas[p.conta] \in Conta
    BY <2>1, <1>2 DEF Livre
  <2>3. c \in Conta
    BY <2>2 DEF Conta
  <2>4. contas' = [contas EXCEPT ![p.conta] = c] /\ erros' = ErrosDepois(p)
           /\ pedidos' = [pedidos EXCEPT ![r] = Livre] /\ agora' = agora
    BY <1>7 DEF Excluir
  <2>. HIDE DEF c
  <2>. QED  BY <1>1, <2>2, <2>3, <2>4, ErrosDepoisTipo, SoUmaLinhaMuda
<1>8. CASE Falhar(r)
  BY <1>8, SoOPedidoMuda DEF Falhar
<1>. QED  BY <1>3, <1>4, <1>5, <1>6, <1>7, <1>8 DEF Continuar

LEMMA ContasInvStep == ContasInv /\ [Next]_vars => ContasInv'
<1>. SUFFICES ASSUME ContasInv, [Next]_vars PROVE ContasInv'
  OBVIOUS
<1>1. CASE Passar
  BY <1>1, LimitesAssumption
     DEF Passar, ContasInv, TypeOK, PedidoCoerente, LeuALinha, CopiaDoQueLeu,
         CopiaParaInserir, Presente
<1>2. CASE UNCHANGED vars
  BY <1>2 DEF vars, ContasInv, TypeOK, PedidoCoerente, LeuALinha, CopiaDoQueLeu,
              CopiaParaInserir, Presente
<1>. QED  BY <1>1, <1>2, ContinuarMantem, ChegarMantem DEF Next

-----------------------------------------------------------------------------
(* What the accounts promise. *)

\* The invariant of the accounts: every request in progress holds a copy made from the row
\* it read, and every row read is still in the table.
THEOREM ContasSempreCoerentes == Spec => []ContasInv
<1>. QED  BY ContasInvInit, ContasInvStep, PTL DEF Spec

\* The step property behind ContaSoVoltaPorAdminOuLeituraAntiga, for one account.
SoVolta(u) ==
    Presente(u) =>
    /\ contas[u].deletedAt = "data" /\ contas'[u].deletedAt = "null" =>
          \E r \in Reqs : /\ Termina(r) /\ pedidos[r].conta = u
                          /\ pedidos[r].lida # Ausente
                          /\ pedidos[r].lida.deletedAt = "null"
    /\ ~contas[u].ativo /\ contas'[u].ativo =>
          \E r \in Reqs :
             /\ Termina(r) /\ pedidos[r].conta = u
             /\ \/ pedidos[r].tipo \in {"alterar", "reativar", "criar"}
                \/ pedidos[r].lida.ativo

\* Only three steps write an account: the UPDATE, the INSERT and the soft deletion.
LEMMA QuemEscreve ==
    ASSUME [Next]_vars
    PROVE  \/ contas' = contas
           \/ \E r \in Reqs : Gravar(r) \/ Inserir(r) \/ Excluir(r)
<1>1. ASSUME Passar PROVE contas' = contas
  BY <1>1 DEF Passar
<1>2. ASSUME NEW r \in Reqs, Continuar(r)
      PROVE  contas' = contas \/ Gravar(r) \/ Inserir(r) \/ Excluir(r)
  BY <1>2 DEF Continuar, Comparar, Carregar, Falhar
<1>3. ASSUME NEW r \in Reqs, NEW u \in Usuarios, Chegar(r, u) PROVE contas' = contas
  BY <1>3 DEF Chegar, Reter, PedirLogin, PedirCriacao, PedirRegistro, PedirTrocaDeSenha,
              PedirAlteracao, PedirDesbloqueio, PedirPreferencias, PedirReativacao,
              PedirExclusao
<1>4. CASE UNCHANGED vars
  BY <1>4 DEF vars
<1>. QED  BY <1>1, <1>2, <1>3, <1>4 DEF Next

LEMMA SoVoltaStep ==
    ASSUME ContasInv, [Next]_vars, NEW u \in Usuarios
    PROVE  SoVolta(u)
<1>. SUFFICES ASSUME Presente(u) PROVE SoVolta(u)
  BY DEF SoVolta
<1>1. contas[u] \in Conta
  BY LinhaPresente DEF ContasInv
<1>2. CASE contas' = contas
  BY <1>2 DEF SoVolta
<1>3. ASSUME NEW r \in Reqs, Gravar(r) PROVE SoVolta(u)
  <2>. DEFINE p == pedidos[r]
              c == [k \in Colunas |-> IF k \in p.muda THEN p.copia[k]
                                      ELSE contas[p.conta][k]]
  <2>1. p.fase = "gravar"
    BY <1>3 DEF Gravar
  <2>2. p \in Pedido /\ PedidoCoerente(p) /\ p.conta \in Usuarios /\ contas[p.conta] \in Conta
    BY <2>1, LinhaDoPedido DEF Livre
  <2>3. p.copia \in Conta /\ p.muda \in SUBSET Colunas
    BY <2>1, <2>2 DEF Pedido, PedidoCoerente, CopiaDoQueLeu
  <2>4. c.deletedAt \in {p.copia.deletedAt, contas[p.conta].deletedAt}
           /\ c.ativo \in {p.copia.ativo, contas[p.conta].ativo}
    BY <2>2, <2>3, LinhaGravada
  <2>5. contas' = [contas EXCEPT ![p.conta] = c] /\ Termina(r)
    BY <1>3, <2>1 DEF Gravar, Termina, Livre, ContasInv, TypeOK
  <2>. HIDE DEF c
  <2>6. CASE u # p.conta
    BY <2>5, <2>6 DEF SoVolta, ContasInv, TypeOK
  <2>7. CASE u = p.conta
    <3>1. contas'[u] = c
      BY <2>5, <2>7 DEF ContasInv, TypeOK
    <3>2. p.lida # Ausente /\ p.copia.deletedAt = p.lida.deletedAt
            /\ (p.copia.ativo = p.lida.ativo \/ p.tipo \in {"alterar", "reativar", "criar"})
      BY <2>1, <2>2 DEF PedidoCoerente, CopiaDoQueLeu, LeuALinha
    <3>. QED  BY <2>4, <2>5, <2>7, <3>1, <3>2 DEF SoVolta
  <2>. QED  BY <2>6, <2>7
<1>4. ASSUME NEW r \in Reqs, Inserir(r) PROVE SoVolta(u)
  BY <1>4 DEF Inserir, SoVolta, ContasInv, TypeOK, Presente
<1>5. ASSUME NEW r \in Reqs, Excluir(r) PROVE SoVolta(u)
  <2>. DEFINE w == pedidos[r].conta
  <2>1. pedidos[r] # Livre
    BY <1>5 DEF Excluir, Livre
  <2>2. w \in Usuarios
    BY <2>1, LinhaDoPedido
  <2>3. contas' = [contas EXCEPT ![w] = [contas[w] EXCEPT !.deletedAt = "data"]]
    BY <1>5 DEF Excluir
  <2>4. CASE u # w
    BY <2>2, <2>3, <2>4 DEF SoVolta, ContasInv, TypeOK
  <2>5. CASE u = w
    <3>1. contas'[u] = [contas[u] EXCEPT !.deletedAt = "data"]
      BY <2>2, <2>3, <2>5 DEF ContasInv, TypeOK
    <3>2. contas'[u].deletedAt = "data" /\ contas'[u].ativo = contas[u].ativo
      BY <3>1, <1>1 DEF Conta
    <3>. QED  BY <3>2 DEF SoVolta
  <2>. QED  BY <2>4, <2>5
<1>. QED  BY <1>2, <1>3, <1>4, <1>5, QuemEscreve

\* A deleted account comes back only by the save of a copy read before its deletion; a
\* deactivated one by an administrator, or by the save of a copy read before that.
THEOREM SoVoltaPorAdminOuLeituraAntiga == Spec => ContaSoVoltaPorAdminOuLeituraAntiga
<1>1. ContasInv /\ [Next]_vars =>
         [\A u \in Usuarios : SoVolta(u)]_vars
  BY SoVoltaStep
<1>. QED
  BY <1>1, ContasSempreCoerentes, PTL
     DEF Spec, ContaSoVoltaPorAdminOuLeituraAntiga, SoVolta

-----------------------------------------------------------------------------
(* One request at a time: the lockout of Acesso. *)

\* What the copy and the row of a request are to each other as long as it is alone.
FielALinha(p) ==
    LET l == contas[p.conta]
    IN  /\ p.fase \in {"comparar", "salvar", "gravar"} =>
              p.lida.ativo = l.ativo /\ p.lida.deletedAt = l.deletedAt
        /\ p.fase = "comparar" =>
              p.copia = l /\ l.ativo /\ l.deletedAt = "null" /\ ~IsBlocked(l)
        /\ p.fase \in {"salvar", "gravar"} =>
              /\ p.tipo \notin {"login", "excluir"}
              /\ p.tipo \in {"acerto", "erro"} =>
                    l.ativo /\ l.deletedAt = "null" /\ ~IsBlocked(l)
              /\ p.tipo \in {"acerto", "desbloquear"} =>
                    p.copia.tentativas = 0 /\ p.copia.bloqueadoAte = 0
              /\ p.tipo = "erro" =>
                    /\ p.copia.tentativas = l.tentativas + 1
                    /\ \E t \in 0 .. agora :
                          p.copia.bloqueadoAte = IF l.tentativas + 1 >= Limite
                                                 THEN t + Duracao ELSE l.bloqueadoAte
              /\ p.tipo = "desbloquear" => l.bloqueadoAte # 0
              /\ p.tipo = "preferencias" => p.copia = l
              /\ p.tipo \notin {"preferencias", "criar"} => l.deletedAt = "null"
              /\ p.tipo = "criar" => p.copia.ativo
        /\ p.fase = "gravar" => p.muda = { k \in Salvas(p.tipo) : p.copia[k] # l[k] }
        /\ p.fase = "inserir" =>
              /\ p.copia.ativo /\ p.copia.deletedAt = "null"
              /\ p.copia.tentativas = 0 /\ p.copia.bloqueadoAte = 0
        /\ p.fase = "excluir" => l.deletedAt = "null"

SozinhaInv ==
    ContasInv /\ \A r \in Reqs : pedidos[r] # Livre => FielALinha(pedidos[r])

\* FielALinha is about one request and its row: the only one.
LEMMA SozinhaDaUnica ==
    ASSUME ContasInv, ContasInv', NEW r \in Reqs, Reqs = {r},
           pedidos'[r] # Livre => FielALinha(pedidos[r])'
    PROVE  SozinhaInv'
BY DEF SozinhaInv

\* A request that arrives.
LEMMA SozinhaReter ==
    ASSUME ContasInv, ContasInv', NEW r \in Reqs, Reqs = {r}, NEW u \in Usuarios,
           NEW s, NEW fase, NEW tipo, NEW c, Reter(r, fase, tipo, u, s, c),
           fase \in {"comparar", "salvar", "inserir", "excluir"},
           fase \in {"comparar", "salvar"} => Presente(u),
           fase = "comparar" =>
              c = contas[u] /\ contas[u].ativo /\ contas[u].deletedAt = "null"
              /\ ~IsBlocked(contas[u]),
           fase = "salvar" =>
              /\ tipo \notin {"login", "excluir", "acerto", "erro"}
              /\ tipo = "desbloquear" =>
                    /\ c.tentativas = 0 /\ c.bloqueadoAte = 0
                    /\ contas[u].bloqueadoAte # 0
              /\ tipo = "preferencias" => c = contas[u]
              /\ tipo \notin {"preferencias", "criar"} => contas[u].deletedAt = "null"
              /\ tipo = "criar" => c.ativo,
           fase = "inserir" => /\ c.ativo /\ c.deletedAt = "null"
                               /\ c.tentativas = 0 /\ c.bloqueadoAte = 0,
           fase = "excluir" => contas[u].deletedAt = "null"
    PROVE  SozinhaInv'
<1>1. /\ pedidos'[r].fase = fase /\ pedidos'[r].tipo = tipo /\ pedidos'[r].conta = u
      /\ pedidos'[r].copia = c
      /\ Presente(u) => /\ pedidos'[r].lida.ativo = contas[u].ativo
                        /\ pedidos'[r].lida.deletedAt = contas[u].deletedAt
      /\ contas' = contas /\ agora' = agora
  BY DEF Reter, ContasInv, TypeOK
<1>2. FielALinha(pedidos[r])'
  BY <1>1 DEF FielALinha, IsBlocked
<1>. QED  BY <1>2, SozinhaDaUnica

LEMMA SozinhaChegar ==
    ASSUME SozinhaInv, ContasInv', NEW r \in Reqs, Reqs = {r}, NEW u \in Usuarios,
           Chegar(r, u)
    PROVE  SozinhaInv'
<1>. DEFINE l == contas[u]
<1>0. ContasInv
  BY DEF SozinhaInv
<1>1. Presente(u) => l \in Conta
  BY <1>0, LinhaPresente DEF ContasInv
<1>2. Encontrada(u) => Presente(u) /\ l.deletedAt = "null"
  BY DEF Encontrada
<1>3. ASSUME NEW s \in Senhas
      PROVE  /\ ContaNova(s).ativo /\ ContaNova(s).deletedAt = "null"
             /\ ContaNova(s).tentativas = 0 /\ ContaNova(s).bloqueadoAte = 0
  BY DEF ContaNova
<1>4. ASSUME NEW s \in Senhas, PedirLogin(r, u, s) PROVE SozinhaInv'
  BY <1>0, <1>2, <1>4, SozinhaReter DEF PedirLogin
<1>5. ASSUME NEW s \in Senhas, PedirCriacao(r, u, s) PROVE SozinhaInv'
  <2>1. CASE Presente(u) /\ Reter(r, "salvar", "criar", u, NaoInformado,
                                  [l EXCEPT !.senha = s, !.ativo = TRUE])
    <3>. DEFINE c == [l EXCEPT !.senha = s, !.ativo = TRUE]
    <3>1. c.ativo
      BY <1>1, <2>1 DEF Conta
    <3>. HIDE DEF c
    <3>. QED  BY <1>0, <2>1, <3>1, SozinhaReter DEF c
  <2>2. CASE Reter(r, "inserir", "criar", u, NaoInformado, ContaNova(s))
    BY <1>0, <1>3, <2>2, SozinhaReter
  <2>. QED  BY <1>5, <2>1, <2>2 DEF PedirCriacao
<1>6. ASSUME NEW s \in Senhas, PedirRegistro(r, u, s) PROVE SozinhaInv'
  BY <1>0, <1>3, <1>6, SozinhaReter DEF PedirRegistro
<1>7. ASSUME NEW s \in Senhas, NEW n \in Senhas, PedirTrocaDeSenha(r, u, s, n)
      PROVE  SozinhaInv'
  BY <1>0, <1>2, <1>7, SozinhaReter DEF PedirTrocaDeSenha
<1>8. ASSUME NEW s \in Senhas \cup {NaoInformado}, NEW a \in BOOLEAN \cup {NaoInformado},
             PedirAlteracao(r, u, s, a)
      PROVE  SozinhaInv'
  BY <1>0, <1>2, <1>8, SozinhaReter DEF PedirAlteracao
<1>9. ASSUME PedirDesbloqueio(r, u) PROVE SozinhaInv'
  <2>. DEFINE c == [l EXCEPT !.bloqueadoAte = 0, !.tentativas = 0]
  <2>1. l \in Conta /\ IsBlocked(l) /\ l.deletedAt = "null"
        /\ Reter(r, "salvar", "desbloquear", u, NaoInformado, c)
    BY <1>1, <1>2, <1>9 DEF PedirDesbloqueio
  <2>2. c.tentativas = 0 /\ c.bloqueadoAte = 0
    BY <2>1 DEF Conta
  <2>3. l.bloqueadoAte # 0
    BY <1>0, <2>1, LimitesAssumption DEF IsBlocked, ContasInv, TypeOK
  <2>4. Presente(u)
    BY <1>2, <1>9 DEF PedirDesbloqueio
  <2>. HIDE DEF c
  <2>. QED  BY <1>0, <2>1, <2>2, <2>3, <2>4, SozinhaReter
<1>10. ASSUME PedirPreferencias(r, u) PROVE SozinhaInv'
  BY <1>0, <1>2, <1>10, SozinhaReter DEF PedirPreferencias
<1>11. ASSUME PedirReativacao(r, u) PROVE SozinhaInv'
  BY <1>0, <1>2, <1>11, SozinhaReter DEF PedirReativacao
<1>12. ASSUME PedirExclusao(r, u) PROVE SozinhaInv'
  BY <1>0, <1>2, <1>12, SozinhaReter DEF PedirExclusao
<1>. QED
  BY <1>4, <1>5, <1>6, <1>7, <1>8, <1>9, <1>10, <1>11, <1>12 DEF Chegar

LEMMA SozinhaContinuar ==
    ASSUME SozinhaInv, ContasInv', NEW r \in Reqs, Reqs = {r}, Continuar(r)
    PROVE  SozinhaInv'
<1>. DEFINE p == pedidos[r]
            u == p.conta
            l == contas[u]
<1>0. ContasInv /\ agora \in 0 .. MaxAgora /\ pedidos \in [Reqs -> {Livre} \cup Pedido]
  BY DEF SozinhaInv, ContasInv, TypeOK
<1>1. CASE Comparar(r)
  <2>. DEFINE certa == p.senha = p.copia.senha
              c == IF certa THEN ContaComAcerto(p.copia) ELSE ContaComErro(p.copia)
              tipo == IF certa THEN "acerto" ELSE "erro"
              q == [p EXCEPT !.fase = "salvar", !.senha = NaoInformado,
                             !.tipo = tipo, !.copia = c]
  <2>1. p.fase = "comparar" /\ pedidos' = [pedidos EXCEPT ![r] = q]
           /\ UNCHANGED << contas, agora, erros >>
    BY <1>1 DEF Comparar
  <2>2. p # Livre /\ p \in Pedido /\ FielALinha(p) /\ l \in Conta
    BY <1>0, <2>1, LinhaDoPedido DEF SozinhaInv, Livre
  <2>3. /\ p.copia = l /\ l.ativo /\ l.deletedAt = "null" /\ ~IsBlocked(l)
        /\ p.lida.ativo = l.ativo /\ p.lida.deletedAt = l.deletedAt
    BY <2>1, <2>2 DEF FielALinha
  <2>4. /\ certa => c.tentativas = 0 /\ c.bloqueadoAte = 0
        /\ ~certa => /\ c.tentativas = l.tentativas + 1
                     /\ c.bloqueadoAte = IF l.tentativas + 1 >= Limite
                                         THEN agora + Duracao ELSE l.bloqueadoAte
    BY <2>2, <2>3 DEF ContaComAcerto, ContaComErro, Conta
  <2>. HIDE DEF c
  <2>5. /\ q.fase = "salvar" /\ q.copia = c /\ q.conta = u /\ q.lida = p.lida
        /\ certa => q.tipo = "acerto"
        /\ ~certa => q.tipo = "erro"
    BY <2>2 DEF Pedido
  <2>. HIDE DEF q, l, u, certa
  <2>6. agora \in 0 .. agora
    BY <1>0, LimitesAssumption
  <2>7. FielALinha(q)
    BY <2>3, <2>4, <2>5, <2>6 DEF FielALinha, l, u
  <2>8. pedidos'[r] = q
    BY <1>0, <2>1
  <2>9. FielALinha(pedidos[r])'
    BY <2>1, <2>7, <2>8 DEF FielALinha, IsBlocked
  <2>. QED  BY <1>0, <2>9, SozinhaDaUnica
<1>2. CASE Carregar(r)
  <2>. DEFINE muda == { k \in Salvas(p.tipo) : p.copia[k] # contas[p.conta][k] }
              q == [p EXCEPT !.fase = "gravar", !.muda = muda]
  <2>1. p.fase = "salvar" /\ pedidos' = [pedidos EXCEPT ![r] = q]
           /\ UNCHANGED << contas, agora, erros >>
    BY <1>2 DEF Carregar
  <2>2. p # Livre /\ p \in Pedido /\ FielALinha(p)
    BY <1>0, <2>1, LinhaDoPedido DEF SozinhaInv, Livre
  <2>3. /\ q.fase = "gravar" /\ q.tipo = p.tipo /\ q.conta = p.conta /\ q.copia = p.copia
        /\ q.muda = muda /\ q.lida = p.lida
    BY <2>2 DEF Pedido
  <2>. HIDE DEF q
  <2>4. FielALinha(q)
    BY <2>1, <2>2, <2>3 DEF FielALinha
  <2>5. pedidos'[r] = q
    BY <1>0, <2>1
  <2>6. FielALinha(pedidos[r])'
    BY <2>1, <2>4, <2>5 DEF FielALinha, IsBlocked
  <2>. QED  BY <1>0, <2>6, SozinhaDaUnica
<1>3. CASE Gravar(r) \/ Inserir(r) \/ Excluir(r) \/ Falhar(r)
  <2>1. pedidos'[r] = Livre
    BY <1>0, <1>3 DEF Gravar, Inserir, Excluir, Falhar
  <2>. QED  BY <1>0, <2>1, SozinhaDaUnica
<1>. QED  BY <1>1, <1>2, <1>3 DEF Continuar

LEMMA SozinhaStep ==
    ASSUME UmaRequisicao
    PROVE  SozinhaInv /\ [Next]_vars => SozinhaInv'
<1>. SUFFICES ASSUME SozinhaInv, [Next]_vars PROVE SozinhaInv'
  OBVIOUS
<1>1. ContasInv /\ ContasInv'
  BY ContasInvStep DEF SozinhaInv
<1>2. PICK r \in Reqs : Reqs = {r}
  BY DEF UmaRequisicao
<1>3. CASE Passar
  <2>1. pedidos' = pedidos /\ contas' = contas /\ agora' = agora + 1 /\ agora \in Nat
    BY <1>1, <1>3, LimitesAssumption DEF Passar, ContasInv, TypeOK
  <2>2. ASSUME pedidos[r] # Livre
        PROVE  FielALinha(pedidos[r])'
    <3>. DEFINE p == pedidos[r]
    <3>1. FielALinha(p) /\ (p.fase # "inserir" => contas[p.conta] \in Conta)
      BY <1>1, <2>2, LinhaDoPedido DEF SozinhaInv, Pedido
    <3>2. \A l \in Conta : ~IsBlocked(l) => ~(l.bloqueadoAte > agora')
      BY <2>1, LimitesAssumption DEF IsBlocked, Conta
    <3>3. \A t \in 0 .. agora : t \in 0 .. agora'
      BY <2>1
    <3>. QED  BY <2>1, <3>1, <3>2, <3>3 DEF FielALinha, IsBlocked
  <2>. QED  BY <1>1, <1>2, <2>1, <2>2, SozinhaDaUnica
<1>4. CASE UNCHANGED vars
  BY <1>1, <1>4 DEF vars, SozinhaInv, FielALinha, IsBlocked
<1>. QED  BY <1>1, <1>2, <1>3, <1>4, SozinhaContinuar, SozinhaChegar DEF Next

\* What Acesso sees of the accounts when row u gets c.
LEMMA VistaDaEscrita ==
    ASSUME TypeOK, NEW u \in Usuarios, NEW c \in Conta, contas' = [contas EXCEPT ![u] = c]
    PROVE  /\ SituacaoVista' = [SituacaoVista EXCEPT ![u] = SituacaoDe(c)]
           /\ FalhasVistas' = [FalhasVistas EXCEPT ![u] = c.tentativas]
           /\ AteVisto' = [AteVisto EXCEPT ![u] = c.bloqueadoAte]
<1>1. \A v \in Usuarios : contas'[v] = IF v = u THEN c ELSE contas[v]
  BY DEF TypeOK
<1>2. c # Ausente
  BY SentinelasAssumption
<1>3. /\ SituacaoVista' = [v \in Usuarios |-> SituacaoDe(contas'[v])]
      /\ FalhasVistas' = [v \in Usuarios |-> IF contas'[v] # Ausente
                                            THEN contas'[v].tentativas ELSE 0]
      /\ AteVisto' = [v \in Usuarios |-> IF contas'[v] # Ausente
                                        THEN contas'[v].bloqueadoAte ELSE 0]
  BY DEF SituacaoVista, FalhasVistas, AteVisto, Presente, SituacaoDe
<1>4. /\ [SituacaoVista EXCEPT ![u] = SituacaoDe(c)]
            = [v \in Usuarios |-> IF v = u THEN SituacaoDe(c) ELSE SituacaoDe(contas[v])]
      /\ [FalhasVistas EXCEPT ![u] = c.tentativas]
            = [v \in Usuarios |-> IF v = u THEN c.tentativas
                                  ELSE IF contas[v] # Ausente THEN contas[v].tentativas
                                  ELSE 0]
      /\ [AteVisto EXCEPT ![u] = c.bloqueadoAte]
            = [v \in Usuarios |-> IF v = u THEN c.bloqueadoAte
                                  ELSE IF contas[v] # Ausente THEN contas[v].bloqueadoAte
                                  ELSE 0]
  BY DEF SituacaoVista, FalhasVistas, AteVisto, Presente
<1>5. \A v \in Usuarios :
         /\ SituacaoDe(contas'[v]) = IF v = u THEN SituacaoDe(c) ELSE SituacaoDe(contas[v])
         /\ contas'[v] # Ausente <=> v = u \/ contas[v] # Ausente
         /\ contas'[v] = IF v = u THEN c ELSE contas[v]
  BY <1>1, <1>2
<1>. QED  BY <1>3, <1>4, <1>5

\* What Acesso sees of row u.
LEMMA VistaDaLinha ==
    ASSUME NEW u \in Usuarios, contas[u] \in Conta
    PROVE  /\ SituacaoVista[u] = SituacaoDe(contas[u])
           /\ FalhasVistas[u] = contas[u].tentativas
           /\ AteVisto[u] = contas[u].bloqueadoAte
<1>1. contas[u] # Ausente
  BY SentinelasAssumption
<1>. QED  BY <1>1 DEF SituacaoVista, FalhasVistas, AteVisto, Presente

LEMMA SituacaoDaConta ==
    ASSUME NEW c \in Conta
    PROVE  /\ c.deletedAt = "data" => SituacaoDe(c) = "excluida"
           /\ c.deletedAt = "null" /\ c.ativo => SituacaoDe(c) = "ativa"
           /\ c.deletedAt = "null" /\ ~c.ativo => SituacaoDe(c) = "inativa"
<1>1. c # Ausente
  BY SentinelasAssumption
<1>. QED  BY <1>1 DEF SituacaoDe

\* The row that the UPDATE of a request leaves, column by column.
LEMMA GravadaSozinha ==
    ASSUME NEW c \in Conta, NEW l \in Conta, NEW S \in SUBSET Colunas, NEW g,
           g = [k \in Colunas |-> IF k \in { i \in S : c[i] # l[i] } THEN c[k] ELSE l[k]]
    PROVE  /\ g \in Conta
           /\ g.ativo = IF "ativo" \in S THEN c.ativo ELSE l.ativo
           /\ g.deletedAt = IF "deletedAt" \in S THEN c.deletedAt ELSE l.deletedAt
           /\ g.tentativas = IF "tentativas" \in S THEN c.tentativas ELSE l.tentativas
           /\ g.bloqueadoAte = IF "bloqueadoAte" \in S THEN c.bloqueadoAte
                               ELSE l.bloqueadoAte
<1>1. { i \in S : c[i] # l[i] } \in SUBSET Colunas
  OBVIOUS
<1>2. g \in Conta
  BY <1>1, LinhaGravada
<1>3. /\ g["ativo"] = IF "ativo" \in S THEN c["ativo"] ELSE l["ativo"]
      /\ g["deletedAt"] = IF "deletedAt" \in S THEN c["deletedAt"] ELSE l["deletedAt"]
      /\ g["tentativas"] = IF "tentativas" \in S THEN c["tentativas"] ELSE l["tentativas"]
      /\ g["bloqueadoAte"] = IF "bloqueadoAte" \in S THEN c["bloqueadoAte"]
                             ELSE l["bloqueadoAte"]
  BY DEF Colunas
<1>. QED  BY <1>2, <1>3

\* An UPDATE is a step of Acesso.
LEMMA GravarImplementa ==
    ASSUME SozinhaInv, NEW r \in Reqs, Gravar(r)
    PROVE  [Regra!Next]_(Regra!vars)
<1>. DEFINE p == pedidos[r]
            u == p.conta
            l == contas[u]
            c == p.copia
            g == [k \in Colunas |-> IF k \in p.muda THEN c[k] ELSE l[k]]
            sit == SituacaoVista
            fal == FalhasVistas
            ate == AteVisto
<1>1. p.fase = "gravar" /\ contas' = [contas EXCEPT ![u] = g] /\ agora' = agora
  BY DEF Gravar
<1>2. /\ p \in Pedido /\ FielALinha(p) /\ u \in Usuarios /\ l \in Conta
      /\ p.copia # Ausente /\ TypeOK
      /\ p.copia.deletedAt = p.lida.deletedAt
      /\ PedidoCoerente(p)
  BY <1>1, LinhaDoPedido DEF SozinhaInv, ContasInv, PedidoCoerente, CopiaDoQueLeu, Livre
<1>3. /\ c \in Conta /\ p.tipo \in Tipos /\ p.tipo \notin {"login", "excluir"}
      /\ p.muda = { k \in Salvas(p.tipo) : c[k] # l[k] }
  BY <1>1, <1>2 DEF Pedido, FielALinha
<1>4. Salvas(p.tipo) \in SUBSET Colunas
  BY DEF Salvas, Colunas
<1>5. g = [k \in Colunas |-> IF k \in { i \in Salvas(p.tipo) : c[i] # l[i] } THEN c[k]
                             ELSE l[k]]
  BY <1>3
<1>. HIDE DEF g
<1>6. /\ g \in Conta
      /\ g.ativo = IF "ativo" \in Salvas(p.tipo) THEN c.ativo ELSE l.ativo
      /\ g.deletedAt = IF "deletedAt" \in Salvas(p.tipo) THEN c.deletedAt ELSE l.deletedAt
      /\ g.tentativas = IF "tentativas" \in Salvas(p.tipo) THEN c.tentativas
                        ELSE l.tentativas
      /\ g.bloqueadoAte = IF "bloqueadoAte" \in Salvas(p.tipo) THEN c.bloqueadoAte
                          ELSE l.bloqueadoAte
  BY <1>2, <1>3, <1>4, <1>5, GravadaSozinha
<1>7. /\ sit' = [sit EXCEPT ![u] = SituacaoDe(g)]
      /\ fal' = [fal EXCEPT ![u] = g.tentativas]
      /\ ate' = [ate EXCEPT ![u] = g.bloqueadoAte]
  BY <1>1, <1>2, <1>6, VistaDaEscrita
<1>8. sit[u] = SituacaoDe(l) /\ fal[u] = l.tentativas /\ ate[u] = l.bloqueadoAte
  BY <1>2, VistaDaLinha
<1>9. /\ sit = [v \in Usuarios |-> sit[v]] /\ fal = [v \in Usuarios |-> fal[v]]
      /\ ate = [v \in Usuarios |-> ate[v]]
  BY DEF SituacaoVista, FalhasVistas, AteVisto
<1>10. /\ l.deletedAt \in {"null", "data"} /\ l.ativo \in BOOLEAN /\ g.ativo \in BOOLEAN
       /\ g.deletedAt \in {"null", "data"}
  BY <1>2, <1>6 DEF Conta
<1>11. ASSUME SituacaoDe(g) = SituacaoDe(l)
       PROVE  sit' = sit
  BY <1>7, <1>8, <1>9, <1>11
<1>12. ASSUME g.tentativas = l.tentativas, g.bloqueadoAte = l.bloqueadoAte
       PROVE  fal' = fal /\ ate' = ate
  BY <1>7, <1>8, <1>9, <1>12
<1>13. /\ p.lida.ativo = l.ativo /\ c.deletedAt = l.deletedAt
       /\ p.tipo \notin {"alterar", "reativar", "criar"} => c.ativo = l.ativo
       /\ p.tipo \in {"acerto", "erro"} => l.ativo /\ l.deletedAt = "null" /\ ~IsBlocked(l)
       /\ p.tipo \in {"acerto", "desbloquear"} => c.tentativas = 0 /\ c.bloqueadoAte = 0
       /\ p.tipo = "erro" =>
             /\ c.tentativas = l.tentativas + 1
             /\ \E t \in 0 .. agora :
                   c.bloqueadoAte = IF l.tentativas + 1 >= Limite
                                    THEN t + Duracao ELSE l.bloqueadoAte
       /\ p.tipo = "desbloquear" => l.bloqueadoAte # 0
       /\ p.tipo = "preferencias" => c = l
       /\ p.tipo \notin {"preferencias", "criar"} => l.deletedAt = "null"
       /\ p.tipo = "criar" => c.ativo
  BY <1>1, <1>2 DEF FielALinha, PedidoCoerente, CopiaDoQueLeu
<1>14. /\ SituacaoDe(l) = IF l.deletedAt = "data" THEN "excluida"
                          ELSE IF l.ativo THEN "ativa" ELSE "inativa"
       /\ SituacaoDe(g) = IF g.deletedAt = "data" THEN "excluida"
                          ELSE IF g.ativo THEN "ativa" ELSE "inativa"
  BY <1>2, <1>6, <1>10, SituacaoDaConta
<1>15. u \in Usuarios
  BY <1>2
<1>. HIDE DEF p, u, l, c, sit, fal, ate
<1>16. CASE p.tipo \in {"acerto", "erro", "desbloquear", "preferencias"}
  <2>1. Salvas(p.tipo) = Colunas
    BY <1>16 DEF Salvas
  <2>2. /\ g.ativo = c.ativo /\ g.deletedAt = c.deletedAt
        /\ g.tentativas = c.tentativas /\ g.bloqueadoAte = c.bloqueadoAte
    BY <1>6, <2>1 DEF Colunas
  <2>3. SituacaoDe(g) = SituacaoDe(l)
    BY <1>13, <1>14, <1>16, <2>2
  <2>4. sit' = sit
    BY <1>11, <2>3
  <2>5. CASE p.tipo = "acerto"
    <3>1. Regra!Acertar(u)
      BY <1>1, <1>7, <1>8, <1>13, <1>14, <2>2, <2>4, <2>5
         DEF Regra!Acertar, Regra!Bloqueada, Regra!Zerar, IsBlocked, sit, fal, ate
    <3>. QED  BY <1>15, <3>1 DEF Regra!Next
  <2>6. CASE p.tipo = "erro"
    <3>1. sit[u] = "ativa" /\ ~Regra!Bloqueada(u)
      BY <1>8, <1>13, <1>14, <2>6 DEF Regra!Bloqueada, IsBlocked, ate
    <3>2. fal' = [fal EXCEPT ![u] = @ + 1] /\ fal'[u] = l.tentativas + 1
      BY <1>7, <1>8, <1>9, <1>13, <1>15, <2>2, <2>6
    <3>3. \E t \in 0 .. agora :
             ate' = [ate EXCEPT ![u] = IF fal'[u] >= Limite THEN t + Duracao ELSE @]
      BY <1>7, <1>8, <1>13, <2>2, <2>6, <3>2
    <3>4. Regra!Errar(u)
      BY <1>1, <2>4, <3>1, <3>2, <3>3 DEF Regra!Errar, sit, fal, ate
    <3>. QED  BY <1>15, <3>4 DEF Regra!Next
  <2>7. CASE p.tipo = "desbloquear"
    <3>1. Regra!Desbloquear(u)
      BY <1>1, <1>7, <1>8, <1>13, <1>14, <2>2, <2>4, <2>7
         DEF Regra!Desbloquear, Regra!Zerar, sit, fal, ate
    <3>. QED  BY <1>15, <3>1 DEF Regra!Next
  <2>8. CASE p.tipo = "preferencias"
    <3>1. fal' = fal /\ ate' = ate
      BY <1>12, <1>13, <2>2, <2>8
    <3>. QED  BY <1>1, <2>4, <3>1 DEF Regra!vars, sit, fal, ate
  <2>. QED  BY <1>16, <2>5, <2>6, <2>7, <2>8
<1>17. CASE p.tipo \in {"alterar", "trocarSenha", "reativar", "criar"}
  <2>1. /\ "tentativas" \notin Salvas(p.tipo) /\ "bloqueadoAte" \notin Salvas(p.tipo)
    BY <1>17 DEF Salvas
  <2>2. fal' = fal /\ ate' = ate
    BY <1>6, <1>12, <2>1
  <2>3. g.deletedAt = l.deletedAt
    BY <1>6, <1>13
  <2>4. CASE l.deletedAt = "data"
    BY <1>1, <1>11, <1>14, <2>2, <2>3, <2>4 DEF Regra!vars, sit, fal, ate
  <2>5. CASE l.deletedAt # "data"
    <3>1. sit[u] \in {"ativa", "inativa"} /\ SituacaoDe(g) \in {"ativa", "inativa", "excluida"}
      BY <1>8, <1>14, <2>5
    <3>2. Regra!Administrar(u)
      BY <1>1, <1>7, <2>2, <3>1 DEF Regra!Administrar, sit, fal, ate
    <3>. QED  BY <1>15, <3>2 DEF Regra!Next
  <2>. QED  BY <2>4, <2>5
<1>. QED  BY <1>3, <1>16, <1>17 DEF Tipos

\* So is an INSERT, and a soft deletion.
LEMMA OutraEscritaImplementa ==
    ASSUME SozinhaInv, NEW r \in Reqs, Inserir(r) \/ Excluir(r)
    PROVE  [Regra!Next]_(Regra!vars)
<1>. DEFINE p == pedidos[r]
            u == p.conta
            l == contas[u]
            sit == SituacaoVista
            fal == FalhasVistas
            ate == AteVisto
<1>1. p.fase \in {"inserir", "excluir"} /\ agora' = agora
  BY DEF Inserir, Excluir
<1>2. p \in Pedido /\ FielALinha(p) /\ u \in Usuarios /\ TypeOK /\ PedidoCoerente(p)
  BY <1>1, LinhaDoPedido DEF SozinhaInv, ContasInv, Livre
<1>3. /\ sit = [v \in Usuarios |-> sit[v]] /\ fal = [v \in Usuarios |-> fal[v]]
      /\ ate = [v \in Usuarios |-> ate[v]]
  BY DEF SituacaoVista, FalhasVistas, AteVisto
<1>4. CASE Inserir(r)
  <2>. DEFINE c == p.copia
  <2>1. p.fase = "inserir" /\ ~Presente(u) /\ contas' = [contas EXCEPT ![u] = c]
    BY <1>4 DEF Inserir
  <2>2. /\ c \in Conta /\ c.ativo /\ c.deletedAt = "null" /\ c.tentativas = 0
        /\ c.bloqueadoAte = 0
    BY <1>2, <2>1 DEF FielALinha, PedidoCoerente, CopiaParaInserir, Pedido
  <2>3. /\ sit' = [sit EXCEPT ![u] = SituacaoDe(c)] /\ fal' = [fal EXCEPT ![u] = 0]
        /\ ate' = [ate EXCEPT ![u] = 0]
    BY <1>2, <2>1, <2>2, VistaDaEscrita
  <2>4. fal[u] = 0 /\ ate[u] = 0 /\ sit[u] = "inexistente"
    BY <1>2, <2>1 DEF FalhasVistas, AteVisto, SituacaoVista, Presente, SituacaoDe
  <2>5. SituacaoDe(c) = "ativa"
    BY <2>2, SituacaoDaConta
  <2>. HIDE DEF sit, fal, ate, p, u
  <2>6. fal' = fal /\ ate' = ate
    BY <1>3, <2>3, <2>4
  <2>7. Regra!Administrar(u)
    BY <1>1, <2>3, <2>4, <2>5, <2>6 DEF Regra!Administrar, sit, fal, ate
  <2>. QED  BY <1>2, <2>7 DEF Regra!Next
<1>5. CASE Excluir(r)
  <2>. DEFINE c == [l EXCEPT !.deletedAt = "data"]
  <2>1. p.fase = "excluir" /\ contas' = [contas EXCEPT ![u] = c]
    BY <1>5 DEF Excluir
  <2>2. l \in Conta /\ l.deletedAt = "null"
    BY <1>2, <2>1, LinhaPresente DEF FielALinha, PedidoCoerente, LeuALinha
  <2>3. /\ c \in Conta /\ c.deletedAt = "data" /\ c.tentativas = l.tentativas
        /\ c.bloqueadoAte = l.bloqueadoAte
    BY <2>2 DEF Conta
  <2>. HIDE DEF c
  <2>4. /\ sit' = [sit EXCEPT ![u] = SituacaoDe(c)]
        /\ fal' = [fal EXCEPT ![u] = l.tentativas]
        /\ ate' = [ate EXCEPT ![u] = l.bloqueadoAte]
    BY <1>2, <2>1, <2>3, VistaDaEscrita
  <2>5. /\ sit[u] \in {"ativa", "inativa"} /\ fal[u] = l.tentativas
        /\ ate[u] = l.bloqueadoAte /\ SituacaoDe(c) = "excluida"
    <3>1. l.ativo \in BOOLEAN
      BY <2>2 DEF Conta
    <3>. QED  BY <1>2, <2>2, <2>3, <3>1, VistaDaLinha, SituacaoDaConta
  <2>. HIDE DEF sit, fal, ate, p, u, l
  <2>6. fal' = fal /\ ate' = ate
    BY <1>3, <2>4, <2>5
  <2>7. Regra!Administrar(u)
    BY <1>1, <2>4, <2>5, <2>6 DEF Regra!Administrar, sit, fal, ate
  <2>. QED  BY <1>2, <2>7 DEF Regra!Next
<1>. QED  BY <1>4, <1>5

\* One request after the other, every step of the accounts is a step of Acesso, or
\* changes nothing that Acesso speaks of: the lockout, and the deletion, keep its rules.
THEOREM UmaAUmaImplementaAcesso ==
    ASSUME UmaRequisicao
    PROVE  Spec => ImplementaAcesso
<1>1. Init => SozinhaInv
  BY ContasInvInit DEF Init, SozinhaInv
<1>2. SozinhaInv /\ [Next]_vars => SozinhaInv'
  BY SozinhaStep
<1>3. Init => Regra!Init
  BY DEF Init, Regra!Init, SituacaoVista, FalhasVistas, AteVisto, SituacaoDe, Presente
<1>4. SozinhaInv /\ [Next]_vars => [Regra!Next]_(Regra!vars)
  <2>. SUFFICES ASSUME SozinhaInv, [Next]_vars PROVE [Regra!Next]_(Regra!vars)
    OBVIOUS
  <2>1. CASE contas' = contas /\ agora' = agora
    BY <2>1 DEF Regra!vars, SituacaoVista, FalhasVistas, AteVisto, Presente
  <2>2. CASE Passar
    <3>1. /\ SituacaoVista' = SituacaoVista /\ FalhasVistas' = FalhasVistas
          /\ AteVisto' = AteVisto
      BY <2>2 DEF Passar, SituacaoVista, FalhasVistas, AteVisto, Presente
    <3>2. Regra!Passar
      BY <2>2, <3>1 DEF Passar, Regra!Passar
    <3>. QED  BY <3>2 DEF Regra!Next
  <2>3. ASSUME NEW r \in Reqs, Continuar(r)
        PROVE  [Regra!Next]_(Regra!vars)
    <3>1. CASE Comparar(r) \/ Carregar(r) \/ Falhar(r)
      BY <2>1, <3>1 DEF Comparar, Carregar, Falhar
    <3>. QED  BY <2>3, <3>1, GravarImplementa, OutraEscritaImplementa DEF Continuar
  <2>4. ASSUME NEW r \in Reqs, NEW u \in Usuarios, Chegar(r, u)
        PROVE  contas' = contas /\ agora' = agora
    BY <2>4 DEF Chegar, PedirLogin, PedirCriacao, PedirRegistro, PedirTrocaDeSenha,
                PedirAlteracao, PedirDesbloqueio, PedirPreferencias, PedirReativacao,
                PedirExclusao, Reter
  <2>5. CASE UNCHANGED vars
    BY <2>1, <2>5 DEF vars
  <2>. QED  BY <2>1, <2>2, <2>3, <2>4, <2>5 DEF Next
<1>. QED  BY <1>1, <1>2, <1>3, <1>4, PTL DEF Spec, ImplementaAcesso, Regra!Spec

-----------------------------------------------------------------------------
(* Blocked addresses: what a request holds, and where it comes from. *)

\* A request that will write over a row has read it, and the row is still there.
LeuOBloqueio(p) ==
    p.etapa \in {"salvar", "gravar"} =>
        bloqueios[p.ip] # SemBloqueio /\ p.lida # SemBloqueio /\ p.copia # SemBloqueio

\* What each kind of request has made of the row it read.  An attempt counted leaves the
\* decision as it was; an end, whoever asked for it, keeps the date; a check that ends a
\* block has seen it expired, and what is expired stays so; a block is of an address that
\* was not blocked.
CopiaDoBloqueio(p) ==
    p.etapa \in {"salvar", "gravar"} =>
        /\ p.tipo # "bloquear" => p.copia.expiresAt = p.lida.expiresAt
        /\ p.tipo = "contar" => p.copia.isActive = p.lida.isActive
        /\ p.tipo \in {"expirar", "automatico", "desbloquear"} => ~p.copia.isActive
        /\ p.tipo \in {"expirar", "automatico"} => IsExpired(p.lida)
        /\ p.tipo = "bloquear" => ~p.lida.isActive

\* Only a block inserts.
SoOBloqueioInsere(p) ==
    p.etapa = "inserir" => p.tipo = "bloquear" /\ p.copia # SemBloqueio

VerificacaoCoerente(p) == LeuOBloqueio(p) /\ CopiaDoBloqueio(p) /\ SoOBloqueioInsere(p)

BloqueiosInv ==
    /\ BloqueiosTypeOK
    /\ \A v \in Verificacoes :
          verificacoes[v] # Ociosa => VerificacaoCoerente(verificacoes[v])

LEMMA BloqueioPresente ==
    ASSUME BloqueiosTypeOK, NEW ip \in Ips, bloqueios[ip] # SemBloqueio
    PROVE  bloqueios[ip] \in Bloqueio
BY DEF BloqueiosTypeOK

LEMMA BloqueioNovoTipo ==
    ASSUME NEW validade \in 0 .. MaxInstante + Validade
    PROVE  /\ BloqueioNovo(validade) \in Bloqueio
           /\ BloqueioNovo(validade) # SemBloqueio
<1>1. 0 \in 0 .. MaxContagem
  BY InstantesAssumption
<1>2. BloqueioNovo(validade) \in Bloqueio
  BY <1>1 DEF BloqueioNovo, Bloqueio
<1>. QED  BY <1>2, SemBloqueioAssumption

\* A block ended is the same block, not active.
LEMMA BloqueioEncerrado ==
    ASSUME NEW b \in Bloqueio
    PROVE  LET d == [b EXCEPT !.isActive = FALSE]
           IN  d \in Bloqueio /\ d # SemBloqueio /\ ~d.isActive /\ d.expiresAt = b.expiresAt
<1>1. [b EXCEPT !.isActive = FALSE] \in Bloqueio
  BY DEF Bloqueio
<1>. QED  BY <1>1, SemBloqueioAssumption DEF Bloqueio

\* The row an UPDATE of the columns in muda leaves.
LEMMA BloqueioGravado ==
    ASSUME NEW c \in Bloqueio, NEW l \in Bloqueio, NEW muda \in SUBSET ColunasDoBloqueio,
           NEW g,
           g = [k \in ColunasDoBloqueio |-> IF k \in muda THEN c[k] ELSE l[k]]
    PROVE  /\ g \in Bloqueio
           /\ g.isActive \in {c.isActive, l.isActive}
           /\ g.expiresAt \in {c.expiresAt, l.expiresAt}
BY DEF Bloqueio, ColunasDoBloqueio

LEMMA VerificacaoEmCurso ==
    ASSUME BloqueiosInv, NEW v \in Verificacoes, verificacoes[v].etapa # "ociosa"
    PROVE  /\ verificacoes[v] \in Verificacao /\ VerificacaoCoerente(verificacoes[v])
           /\ verificacoes[v].ip \in Ips
BY DEF BloqueiosInv, BloqueiosTypeOK, Ociosa, Verificacao

-----------------------------------------------------------------------------
(* BloqueiosInv is inductive. *)

LEMMA BloqueiosInvInit == InitBloqueios => BloqueiosInv
BY InstantesAssumption DEF InitBloqueios, BloqueiosInv, BloqueiosTypeOK

\* A step that leaves the rows and the clock alone and only changes what request v holds.
LEMMA SoAVerificacaoMuda ==
    ASSUME BloqueiosInv, NEW v \in Verificacoes, NEW p \in {Ociosa} \cup Verificacao,
           p # Ociosa => VerificacaoCoerente(p),
           verificacoes' = [verificacoes EXCEPT ![v] = p],
           UNCHANGED << bloqueios, instante >>
    PROVE  BloqueiosInv'
<1>1. BloqueiosTypeOK'
  BY DEF BloqueiosInv, BloqueiosTypeOK
<1>2. ASSUME NEW w \in Verificacoes, verificacoes'[w] # Ociosa
      PROVE  VerificacaoCoerente(verificacoes[w])'
  <2>1. verificacoes'[w] = IF w = v THEN p ELSE verificacoes[w]
    BY DEF BloqueiosInv, BloqueiosTypeOK
  <2>2. VerificacaoCoerente(verificacoes'[w])
    BY <2>1, <1>2 DEF BloqueiosInv
  <2>. QED
    BY <2>2 DEF VerificacaoCoerente, LeuOBloqueio, CopiaDoBloqueio, SoOBloqueioInsere,
                IsExpired
<1>. QED  BY <1>1, <1>2 DEF BloqueiosInv

\* A request that reads row ip goes on coherent, if its copy is what its kind makes of it.
LEMMA ReterBloqueioMantem ==
    ASSUME BloqueiosInv, NEW v \in Verificacoes, NEW ip \in Ips,
           NEW etapa \in {"bloquear", "salvar", "inserir"},
           NEW tipo \in {"contar", "expirar", "bloquear", "desbloquear", "automatico"},
           NEW copia \in Bloqueio \cup {SemBloqueio},
           ReterBloqueio(v, etapa, tipo, ip, copia),
           etapa = "inserir" => tipo = "bloquear" /\ copia # SemBloqueio,
           etapa = "salvar" =>
               /\ bloqueios[ip] # SemBloqueio /\ copia # SemBloqueio
               /\ tipo # "bloquear" => copia.expiresAt = bloqueios[ip].expiresAt
               /\ tipo = "contar" => copia.isActive = bloqueios[ip].isActive
               /\ tipo \in {"expirar", "automatico", "desbloquear"} => ~copia.isActive
               /\ tipo \in {"expirar", "automatico"} => IsExpired(bloqueios[ip])
               /\ tipo = "bloquear" => ~bloqueios[ip].isActive
    PROVE  BloqueiosInv'
<1>. DEFINE p == [ etapa |-> etapa, tipo |-> tipo, ip |-> ip, lida |-> bloqueios[ip],
                   copia |-> copia, muda |-> {} ]
<1>1. verificacoes' = [verificacoes EXCEPT ![v] = p] /\ UNCHANGED << bloqueios, instante >>
  BY DEF ReterBloqueio
<1>2. bloqueios[ip] \in Bloqueio \cup {SemBloqueio}
  BY DEF BloqueiosInv, BloqueiosTypeOK
<1>3. p \in Verificacao
  BY <1>2 DEF Verificacao
<1>4. p.etapa = etapa /\ p.tipo = tipo /\ p.ip = ip /\ p.lida = bloqueios[ip]
         /\ p.copia = copia
  OBVIOUS
<1>. HIDE DEF p
<1>5. VerificacaoCoerente(p)
  BY <1>4 DEF VerificacaoCoerente, LeuOBloqueio, CopiaDoBloqueio, SoOBloqueioInsere
<1>. QED  BY <1>1, <1>3, <1>5, SoAVerificacaoMuda

LEMMA IsIpBlockedMantem ==
    ASSUME BloqueiosInv, NEW v \in Verificacoes, NEW ip \in Ips,
           NEW tipo \in {"expirar", "automatico"}, IsIpBlocked(v, tipo, ip)
    PROVE  BloqueiosInv'
<1>. DEFINE b == bloqueios[ip]
<1>1. b \in Bloqueio /\ b # SemBloqueio
  BY BloqueioPresente DEF IsIpBlocked, Ativo, BloqueiosInv
<1>2. CASE /\ IsExpired(b)
           /\ ReterBloqueio(v, "salvar", tipo, ip, [b EXCEPT !.isActive = FALSE])
  <2>. DEFINE c == [b EXCEPT !.isActive = FALSE]
  <2>1. c \in Bloqueio /\ c # SemBloqueio /\ ~c.isActive /\ c.expiresAt = b.expiresAt
    BY <1>1, BloqueioEncerrado
  <2>2. ReterBloqueio(v, "salvar", tipo, ip, c)
    BY <1>2
  <2>. HIDE DEF c
  <2>. QED  BY <1>1, <1>2, <2>1, <2>2, ReterBloqueioMantem
<1>3. CASE /\ b.attemptsCount < MaxContagem
           /\ ReterBloqueio(v, "salvar", "contar", ip, [b EXCEPT !.attemptsCount = @ + 1])
  <2>. DEFINE c == [b EXCEPT !.attemptsCount = @ + 1]
  <2>1. b.attemptsCount + 1 \in 0 .. MaxContagem
    BY <1>1, <1>3, InstantesAssumption DEF Bloqueio
  <2>2. c \in Bloqueio /\ c.isActive = b.isActive /\ c.expiresAt = b.expiresAt
    BY <1>1, <2>1 DEF Bloqueio
  <2>3. c # SemBloqueio
    BY <2>2, SemBloqueioAssumption
  <2>4. ReterBloqueio(v, "salvar", "contar", ip, c)
    BY <1>3
  <2>. HIDE DEF c
  <2>. QED  BY <1>1, <2>2, <2>3, <2>4, ReterBloqueioMantem
<1>. QED  BY <1>2, <1>3 DEF IsIpBlocked

LEMMA BlockIpMantem ==
    ASSUME BloqueiosInv, NEW v \in Verificacoes, NEW ip \in Ips,
           NEW validade \in {0, instante + Validade}, BlockIp(v, ip, validade)
    PROVE  BloqueiosInv'
<1>1. validade \in 0 .. MaxInstante + Validade
  BY InstantesAssumption DEF BloqueiosInv, BloqueiosTypeOK
<1>2. BloqueioNovo(validade) \in Bloqueio /\ BloqueioNovo(validade) # SemBloqueio
  BY <1>1, BloqueioNovoTipo
<1>3. CASE bloqueios[ip] = SemBloqueio
  BY <1>2, <1>3, ReterBloqueioMantem DEF BlockIp
<1>4. CASE bloqueios[ip] # SemBloqueio
  BY <1>2, <1>4, ReterBloqueioMantem DEF BlockIp, Ativo
<1>. QED  BY <1>3, <1>4

\* A step that writes row ip and leaves request v at rest or about to block.
LEMMA SoUmBloqueioMuda ==
    ASSUME BloqueiosInv, NEW v \in Verificacoes, NEW ip \in Ips, NEW b \in Bloqueio,
           NEW q \in {Ociosa} \cup Verificacao, q # Ociosa => q.etapa = "bloquear",
           bloqueios' = [bloqueios EXCEPT ![ip] = b],
           verificacoes' = [verificacoes EXCEPT ![v] = q],
           instante' = instante
    PROVE  BloqueiosInv'
<1>1. BloqueiosTypeOK'
  BY DEF BloqueiosInv, BloqueiosTypeOK
<1>2. \A i \in Ips : bloqueios[i] # SemBloqueio => bloqueios'[i] # SemBloqueio
  BY SemBloqueioAssumption DEF BloqueiosInv, BloqueiosTypeOK
<1>3. ASSUME NEW w \in Verificacoes, verificacoes'[w] # Ociosa
      PROVE  VerificacaoCoerente(verificacoes[w])'
  <2>1. CASE w = v
    <3>1. verificacoes'[w].etapa = "bloquear"
      BY <2>1, <1>3 DEF BloqueiosInv, BloqueiosTypeOK
    <3>. QED
      BY <3>1 DEF VerificacaoCoerente, LeuOBloqueio, CopiaDoBloqueio, SoOBloqueioInsere
  <2>2. CASE w # v
    <3>1. verificacoes'[w] = verificacoes[w] /\ verificacoes[w] # Ociosa
      BY <2>2, <1>3 DEF BloqueiosInv, BloqueiosTypeOK
    <3>2. VerificacaoCoerente(verificacoes[w]) /\ verificacoes[w].ip \in Ips
      BY <3>1, VerificacaoEmCurso DEF BloqueiosInv, BloqueiosTypeOK, Verificacao
    <3>. QED
      BY <3>1, <3>2, <1>2
         DEF VerificacaoCoerente, LeuOBloqueio, CopiaDoBloqueio, SoOBloqueioInsere, IsExpired
  <2>. QED  BY <2>1, <2>2
<1>. QED  BY <1>1, <1>3 DEF BloqueiosInv

\* The row and the copy of an UPDATE.
LEMMA GravacaoDoBloqueio ==
    ASSUME BloqueiosInv, NEW v \in Verificacoes, GravarBloqueio(v)
    PROVE  LET p == verificacoes[v]
           IN  /\ p \in Verificacao /\ p.ip \in Ips /\ p.etapa = "gravar"
               /\ p.copia \in Bloqueio /\ p.lida \in Bloqueio /\ bloqueios[p.ip] \in Bloqueio
               /\ CopiaDoBloqueio(p) /\ p.muda \in SUBSET ColunasDoBloqueio
<1>. DEFINE p == verificacoes[v]
<1>1. p.etapa = "gravar"
  BY DEF GravarBloqueio
<1>2. p \in Verificacao /\ VerificacaoCoerente(p) /\ p.ip \in Ips
  BY <1>1, VerificacaoEmCurso
<1>3. bloqueios[p.ip] # SemBloqueio /\ p.lida # SemBloqueio /\ p.copia # SemBloqueio
  BY <1>1, <1>2 DEF VerificacaoCoerente, LeuOBloqueio
<1>4. p.copia \in Bloqueio /\ p.lida \in Bloqueio /\ p.muda \in SUBSET ColunasDoBloqueio
  BY <1>2, <1>3 DEF Verificacao
<1>5. bloqueios[p.ip] \in Bloqueio
  BY <1>2, <1>3, BloqueioPresente DEF BloqueiosInv
<1>. QED  BY <1>1, <1>2, <1>4, <1>5 DEF VerificacaoCoerente

LEMMA BloqueiosInvStep == BloqueiosInv /\ [NextBloqueios]_varsBloqueios => BloqueiosInv'
<1>. SUFFICES ASSUME BloqueiosInv, [NextBloqueios]_varsBloqueios PROVE BloqueiosInv'
  OBVIOUS
<1>1. CASE PassarInstante
  <2>1. BloqueiosTypeOK' /\ verificacoes' = verificacoes /\ bloqueios' = bloqueios
           /\ instante' = instante + 1 /\ instante \in Nat
    BY <1>1, InstantesAssumption DEF PassarInstante, BloqueiosInv, BloqueiosTypeOK
  <2>2. ASSUME NEW v \in Verificacoes, verificacoes[v] # Ociosa
        PROVE  VerificacaoCoerente(verificacoes[v])'
    <3>. DEFINE p == verificacoes[v]
    <3>1. p \in Verificacao /\ VerificacaoCoerente(p)
      BY <2>2 DEF BloqueiosInv, BloqueiosTypeOK
    <3>2. p.lida # SemBloqueio => p.lida.expiresAt \in Nat
      BY <3>1, InstantesAssumption DEF Verificacao, Bloqueio
    <3>. QED
      BY <2>1, <3>1, <3>2
         DEF VerificacaoCoerente, LeuOBloqueio, CopiaDoBloqueio, SoOBloqueioInsere, IsExpired
  <2>. QED  BY <2>1, <2>2 DEF BloqueiosInv
<1>2. ASSUME NEW v \in Verificacoes, NEW ip \in Ips, Verificar(v, ip) PROVE BloqueiosInv'
  BY <1>2, IsIpBlockedMantem DEF Verificar
<1>3. ASSUME NEW v \in Verificacoes, NEW ip \in Ips,
             NEW validade \in {0, instante + Validade}, PedirBloqueio(v, ip, validade)
      PROVE  BloqueiosInv'
  BY <1>3, BlockIpMantem DEF PedirBloqueio
<1>4. ASSUME NEW v \in Verificacoes, NEW ip \in Ips, PedirBloqueioAutomatico(v, ip)
      PROVE  BloqueiosInv'
  BY <1>4, IsIpBlockedMantem, ReterBloqueioMantem DEF PedirBloqueioAutomatico
<1>5. ASSUME NEW v \in Verificacoes, NEW ip \in Ips, PedirDesbloqueioDoIp(v, ip)
      PROVE  BloqueiosInv'
  <2>. DEFINE c == [bloqueios[ip] EXCEPT !.isActive = FALSE]
  <2>1. c \in Bloqueio /\ c # SemBloqueio /\ ~c.isActive
           /\ c.expiresAt = bloqueios[ip].expiresAt
    BY <1>5, BloqueioPresente, BloqueioEncerrado DEF PedirDesbloqueioDoIp, BloqueiosInv
  <2>2. ReterBloqueio(v, "salvar", "desbloquear", ip, c) /\ bloqueios[ip] # SemBloqueio
    BY <1>5 DEF PedirDesbloqueioDoIp
  <2>. HIDE DEF c
  <2>. QED  BY <2>1, <2>2, ReterBloqueioMantem
<1>6. ASSUME NEW v \in Verificacoes, BloquearAutomatico(v) PROVE BloqueiosInv'
  <2>1. verificacoes[v].ip \in Ips
    BY <1>6, VerificacaoEmCurso DEF BloquearAutomatico
  <2>. QED  BY <1>6, <2>1, BlockIpMantem DEF BloquearAutomatico
<1>7. ASSUME NEW v \in Verificacoes, CarregarBloqueio(v) PROVE BloqueiosInv'
  <2>. DEFINE p == verificacoes[v]
              muda == { k \in ColunasDoBloqueio : p.copia[k] # bloqueios[p.ip][k] }
              q == [p EXCEPT !.etapa = "gravar", !.muda = muda]
  <2>1. p.etapa = "salvar" /\ verificacoes' = [verificacoes EXCEPT ![v] = q]
           /\ UNCHANGED << bloqueios, instante >>
    BY <1>7 DEF CarregarBloqueio
  <2>2. p \in Verificacao /\ VerificacaoCoerente(p)
    BY <2>1, VerificacaoEmCurso
  <2>3. muda \in SUBSET ColunasDoBloqueio
    OBVIOUS
  <2>. HIDE DEF muda
  <2>4. q \in Verificacao /\ q.etapa = "gravar" /\ q.tipo = p.tipo /\ q.ip = p.ip
           /\ q.lida = p.lida /\ q.copia = p.copia
    BY <2>2, <2>3 DEF Verificacao
  <2>. HIDE DEF q
  <2>5. VerificacaoCoerente(q)
    BY <2>1, <2>2, <2>4
       DEF VerificacaoCoerente, LeuOBloqueio, CopiaDoBloqueio, SoOBloqueioInsere
  <2>. QED  BY <2>1, <2>4, <2>5, SoAVerificacaoMuda
<1>8. ASSUME NEW v \in Verificacoes, GravarBloqueio(v) PROVE BloqueiosInv'
  <2>. DEFINE p == verificacoes[v]
              b == [k \in ColunasDoBloqueio |-> IF k \in p.muda THEN p.copia[k]
                                                ELSE bloqueios[p.ip][k]]
  <2>1. p \in Verificacao /\ p.ip \in Ips
           /\ p.copia \in Bloqueio /\ bloqueios[p.ip] \in Bloqueio
           /\ p.muda \in SUBSET ColunasDoBloqueio
    BY <1>8, GravacaoDoBloqueio
  <2>2. b \in Bloqueio
    BY <2>1 DEF Bloqueio, ColunasDoBloqueio
  <2>3. Depois(p) \in {Ociosa} \cup Verificacao
           /\ (Depois(p) # Ociosa => Depois(p).etapa = "bloquear")
    BY <2>1 DEF Depois, Verificacao
  <2>4. bloqueios' = [bloqueios EXCEPT ![p.ip] = b] /\ instante' = instante
           /\ verificacoes' = [verificacoes EXCEPT ![v] = Depois(p)]
    BY <1>8 DEF GravarBloqueio
  <2>. HIDE DEF b
  <2>. QED  BY <2>1, <2>2, <2>3, <2>4, SoUmBloqueioMuda
<1>9. ASSUME NEW v \in Verificacoes, InserirBloqueio(v) PROVE BloqueiosInv'
  <2>. DEFINE p == verificacoes[v]
  <2>1. p.etapa = "inserir"
    BY <1>9 DEF InserirBloqueio
  <2>2. p \in Verificacao /\ p.ip \in Ips /\ p.copia # SemBloqueio
    BY <2>1, VerificacaoEmCurso DEF VerificacaoCoerente, SoOBloqueioInsere
  <2>3. p.copia \in Bloqueio
    BY <2>2 DEF Verificacao
  <2>4. bloqueios' = [bloqueios EXCEPT ![p.ip] = p.copia] /\ instante' = instante
           /\ verificacoes' = [verificacoes EXCEPT ![v] = Ociosa]
    BY <1>9 DEF InserirBloqueio
  <2>. QED  BY <2>2, <2>3, <2>4, SoUmBloqueioMuda
<1>10. ASSUME NEW v \in Verificacoes, FalharVerificacao(v) PROVE BloqueiosInv'
  BY <1>10, SoAVerificacaoMuda DEF FalharVerificacao
<1>11. CASE UNCHANGED varsBloqueios
  BY <1>11 DEF varsBloqueios, BloqueiosInv, BloqueiosTypeOK, VerificacaoCoerente,
               LeuOBloqueio, CopiaDoBloqueio, SoOBloqueioInsere, IsExpired
<1>. QED
  BY <1>1, <1>2, <1>3, <1>4, <1>5, <1>6, <1>7, <1>8, <1>9, <1>10, <1>11
     DEF NextBloqueios

-----------------------------------------------------------------------------
(* What the blocked addresses promise. *)

\* The invariant of the blocked addresses: every request in progress holds what its kind
\* makes of the row it read.
THEOREM BloqueiosSempreCoerentes == SpecBloqueios => []BloqueiosInv
<1>. QED  BY BloqueiosInvInit, BloqueiosInvStep, PTL DEF SpecBloqueios

\* The step property behind BloqueioSoMudaPorPedidoOuLeituraAntiga, for one address.
SoMudaPorPedido(ip) ==
    /\ instante' = instante
    /\ ShouldBlock(bloqueios[ip]) # ShouldBlock(bloqueios'[ip])
    => \E v \in Verificacoes :
          LET p == verificacoes[v]
          IN  /\ p # Ociosa /\ p.ip = ip /\ verificacoes'[v] # p
              /\ \/ LeuOutra(p)
                 \/ p.tipo = IF ShouldBlock(bloqueios[ip]) THEN "desbloquear"
                             ELSE "bloquear"

\* Only two steps write a row: the UPDATE and the INSERT.
LEMMA QuemEscreveBloqueio ==
    ASSUME [NextBloqueios]_varsBloqueios
    PROVE  \/ bloqueios' = bloqueios
           \/ \E v \in Verificacoes : GravarBloqueio(v) \/ InserirBloqueio(v)
<1>1. ASSUME NEW v \in Verificacoes, NEW ip \in Ips, NEW validade,
             Verificar(v, ip) \/ PedirBloqueio(v, ip, validade)
                \/ PedirBloqueioAutomatico(v, ip) \/ PedirDesbloqueioDoIp(v, ip)
      PROVE  bloqueios' = bloqueios
  BY <1>1 DEF Verificar, PedirBloqueio, PedirBloqueioAutomatico, PedirDesbloqueioDoIp,
              IsIpBlocked, BlockIp, ReterBloqueio
<1>2. ASSUME NEW v \in Verificacoes,
             BloquearAutomatico(v) \/ CarregarBloqueio(v) \/ FalharVerificacao(v)
      PROVE  bloqueios' = bloqueios
  BY <1>2 DEF BloquearAutomatico, CarregarBloqueio, FalharVerificacao, BlockIp,
              ReterBloqueio
<1>3. CASE PassarInstante \/ UNCHANGED varsBloqueios
  BY <1>3 DEF PassarInstante, varsBloqueios
<1>. QED  BY <1>1, <1>2, <1>3 DEF NextBloqueios

\* A row rewritten by a copy that read it as it is: the address begins to be refused only
\* by a block, and ceases only by an unblock.
LEMMA GravacaoSemLeituraAntiga ==
    ASSUME NEW p \in Verificacao, NEW l \in Bloqueio, NEW b \in Bloqueio,
           p.lida \in Bloqueio, p.copia \in Bloqueio, p.etapa = "gravar", CopiaDoBloqueio(p),
           p.lida.isActive = l.isActive, p.lida.expiresAt = l.expiresAt,
           b.isActive \in {p.copia.isActive, l.isActive},
           b.expiresAt \in {p.copia.expiresAt, l.expiresAt},
           instante \in 0 .. MaxInstante,
           ShouldBlock(l) # ShouldBlock(b)
    PROVE  p.tipo = IF ShouldBlock(l) THEN "desbloquear" ELSE "bloquear"
<1>1. l # SemBloqueio /\ b # SemBloqueio
  BY SemBloqueioAssumption
<1>2. /\ ShouldBlock(l) <=> l.isActive /\ (l.expiresAt = 0 \/ instante <= l.expiresAt)
      /\ ShouldBlock(b) <=> b.isActive /\ (b.expiresAt = 0 \/ instante <= b.expiresAt)
      /\ ShouldBlock(l) <=> ~ShouldBlock(b)
  BY <1>1 DEF ShouldBlock
<1>3. /\ l.isActive \in BOOLEAN /\ b.isActive \in BOOLEAN /\ p.copia.isActive \in BOOLEAN
      /\ l.expiresAt \in Nat /\ b.expiresAt \in Nat /\ instante \in Nat
  BY InstantesAssumption DEF Bloqueio
<1>4. p.tipo \in {"contar", "expirar", "bloquear", "desbloquear", "automatico"}
  BY DEF Verificacao
<1>5. CASE p.tipo = "contar"
  BY <1>2, <1>3, <1>5 DEF CopiaDoBloqueio
<1>6. CASE p.tipo \in {"expirar", "automatico"}
  <2>1. l.expiresAt # 0 /\ instante > l.expiresAt /\ b.expiresAt = l.expiresAt
    BY <1>6 DEF CopiaDoBloqueio, IsExpired
  <2>. QED  BY <1>2, <1>3, <2>1
<1>7. CASE p.tipo = "desbloquear"
  <2>1. b.expiresAt = l.expiresAt /\ (b.isActive => l.isActive)
    BY <1>7, <1>3 DEF CopiaDoBloqueio
  <2>2. ShouldBlock(l)
    BY <1>2, <2>1, <1>3
  <2>. QED  BY <1>7, <2>2
<1>8. CASE p.tipo = "bloquear"
  <2>1. ~ShouldBlock(l)
    BY <1>2, <1>8 DEF CopiaDoBloqueio
  <2>. QED  BY <1>8, <2>1
<1>. QED  BY <1>4, <1>5, <1>6, <1>7, <1>8

LEMMA SoMudaPorPedidoStep ==
    ASSUME BloqueiosInv, [NextBloqueios]_varsBloqueios, NEW ip \in Ips
    PROVE  SoMudaPorPedido(ip)
<1>. SUFFICES ASSUME instante' = instante,
                     ShouldBlock(bloqueios[ip]) # ShouldBlock(bloqueios'[ip])
              PROVE  \E v \in Verificacoes :
                        LET p == verificacoes[v]
                        IN  /\ p # Ociosa /\ p.ip = ip /\ verificacoes'[v] # p
                            /\ \/ LeuOutra(p)
                               \/ p.tipo = IF ShouldBlock(bloqueios[ip]) THEN "desbloquear"
                                           ELSE "bloquear"
  BY DEF SoMudaPorPedido
<1>1. bloqueios' # bloqueios
  OBVIOUS
<1>2. ASSUME NEW v \in Verificacoes, GravarBloqueio(v)
      PROVE  LET p == verificacoes[v]
             IN  /\ p # Ociosa /\ p.ip = ip /\ verificacoes'[v] # p
                 /\ \/ LeuOutra(p)
                    \/ p.tipo = IF ShouldBlock(bloqueios[ip]) THEN "desbloquear"
                                ELSE "bloquear"
  <2>. DEFINE p == verificacoes[v]
              b == [k \in ColunasDoBloqueio |-> IF k \in p.muda THEN p.copia[k]
                                                ELSE bloqueios[p.ip][k]]
  <2>1. /\ p \in Verificacao /\ p.ip \in Ips /\ p.etapa = "gravar"
        /\ p.copia \in Bloqueio /\ p.lida \in Bloqueio /\ bloqueios[p.ip] \in Bloqueio
        /\ CopiaDoBloqueio(p) /\ p.muda \in SUBSET ColunasDoBloqueio
    BY <1>2, GravacaoDoBloqueio
  <2>2. /\ b \in Bloqueio /\ b.isActive \in {p.copia.isActive, bloqueios[p.ip].isActive}
        /\ b.expiresAt \in {p.copia.expiresAt, bloqueios[p.ip].expiresAt}
    BY <2>1 DEF Bloqueio, ColunasDoBloqueio
  <2>3. bloqueios' = [bloqueios EXCEPT ![p.ip] = b]
           /\ verificacoes' = [verificacoes EXCEPT ![v] = Depois(p)]
    BY <1>2 DEF GravarBloqueio
  <2>. HIDE DEF b
  <2>4. p.ip = ip /\ bloqueios'[ip] = b
    BY <2>1, <2>3 DEF BloqueiosInv, BloqueiosTypeOK
  <2>5. p # Ociosa /\ verificacoes'[v] # p
    <3>1. Depois(p).etapa # "gravar"
      BY <2>1 DEF Depois, Ociosa, Verificacao
    <3>2. verificacoes'[v] = Depois(p)
      BY <2>3 DEF BloqueiosInv, BloqueiosTypeOK
    <3>. QED  BY <2>1, <3>1, <3>2 DEF Ociosa
  <2>6. ASSUME ~LeuOutra(p)
        PROVE  p.tipo = IF ShouldBlock(bloqueios[ip]) THEN "desbloquear" ELSE "bloquear"
    <3>1. p.lida.isActive = bloqueios[ip].isActive
             /\ p.lida.expiresAt = bloqueios[ip].expiresAt
      BY <2>1, <2>4, <2>6, SemBloqueioAssumption DEF LeuOutra
    <3>2. instante \in 0 .. MaxInstante
      BY DEF BloqueiosInv, BloqueiosTypeOK
    <3>3. ShouldBlock(bloqueios'[ip]) = ShouldBlock(b)
      BY <2>4
    <3>. QED  BY <2>1, <2>2, <2>4, <3>1, <3>2, <3>3, GravacaoSemLeituraAntiga
  <2>. QED  BY <2>4, <2>5, <2>6
<1>3. ASSUME NEW v \in Verificacoes, InserirBloqueio(v)
      PROVE  LET p == verificacoes[v]
             IN  /\ p # Ociosa /\ p.ip = ip /\ verificacoes'[v] # p
                 /\ \/ LeuOutra(p)
                    \/ p.tipo = IF ShouldBlock(bloqueios[ip]) THEN "desbloquear"
                                ELSE "bloquear"
  <2>. DEFINE p == verificacoes[v]
  <2>1. p.etapa = "inserir" /\ bloqueios[p.ip] = SemBloqueio
    BY <1>3 DEF InserirBloqueio
  <2>2. p \in Verificacao /\ p.ip \in Ips /\ p.tipo = "bloquear"
    BY <2>1, VerificacaoEmCurso DEF VerificacaoCoerente, SoOBloqueioInsere
  <2>3. bloqueios' = [bloqueios EXCEPT ![p.ip] = p.copia]
           /\ verificacoes' = [verificacoes EXCEPT ![v] = Ociosa]
    BY <1>3 DEF InserirBloqueio
  <2>4. p.ip = ip
    BY <2>2, <2>3 DEF BloqueiosInv, BloqueiosTypeOK
  <2>5. ~ShouldBlock(bloqueios[ip])
    BY <2>1, <2>4 DEF ShouldBlock
  <2>6. p # Ociosa /\ verificacoes'[v] # p
    BY <2>1, <2>3 DEF BloqueiosInv, BloqueiosTypeOK, Ociosa
  <2>. QED  BY <2>2, <2>4, <2>5, <2>6
<1>. QED  BY <1>1, <1>2, <1>3, QuemEscreveBloqueio

\* But for the clock, an address begins or ceases to be refused by the decision of an
\* administrator, or by a save over a row that another one has decided upon since.
THEOREM SoMudaPorPedidoOuLeituraAntiga ==
    SpecBloqueios => BloqueioSoMudaPorPedidoOuLeituraAntiga
<1>1. BloqueiosInv /\ [NextBloqueios]_varsBloqueios =>
         [\A ip \in Ips : SoMudaPorPedido(ip)]_varsBloqueios
  BY SoMudaPorPedidoStep
<1>. QED
  BY <1>1, BloqueiosSempreCoerentes, PTL
     DEF SpecBloqueios, BloqueioSoMudaPorPedidoOuLeituraAntiga, SoMudaPorPedido

-----------------------------------------------------------------------------
(* Both parts, as the run composes them. *)

\* The variables of either part keep their types, and with them what each request in
\* progress holds.
THEOREM TiposDaEntrada == SpecEntrada => []TiposOK
<1>. DEFINE Inv == ContasInv /\ BloqueiosInv
<1>1. InitEntrada => Inv
  BY ContasInvInit, BloqueiosInvInit DEF InitEntrada
<1>2. Inv /\ [NextEntrada]_varsEntrada => Inv'
  <2>. SUFFICES ASSUME Inv, [NextEntrada]_varsEntrada PROVE Inv'
    OBVIOUS
  <2>1. [Next]_vars /\ [NextBloqueios]_varsBloqueios
    BY DEF NextEntrada, varsEntrada
  <2>. QED  BY <2>1, ContasInvStep, BloqueiosInvStep
<1>3. Inv => TiposOK
  BY DEF ContasInv, BloqueiosInv, TiposOK
<1>. QED  BY <1>1, <1>2, <1>3, PTL DEF SpecEntrada

-----------------------------------------------------------------------------
(* Two requests at a time: how many wrong passwords an open account sees.  The     *)
(* invariant says how much room there is below Teto, whichever of the two writes   *)
(* next; everything in it is doubled, to stay clear of halves.                     *)

\* How many more errors, doubled, a counter that stands at n leaves room for, before the
\* account is blocked, if a client may put it back between one error and the next; and
\* how many it leaves room for if nobody does.
Folga(n) == IF n >= Limite THEN 0
            ELSE (Limite - n) * (Limite - n) + 3 * (Limite - n) - 4
Passos(n) == IF n < Limite THEN Limite - n ELSE 1

\* The errors counted so far, doubled, and x more do not pass the ceiling.
TetoDobrado == Limite * Limite + 3 * Limite - 2
Cabe(e, x) == 2 * e + x <= TetoDobrado

Bloqueada(l, t) == l.bloqueadoAte > t

\* A request that may still write an error on account u.
Ameaca(p, u) == p # Livre /\ p.conta = u /\ p.tipo \in {"login", "erro"}
\* What its error makes of the counter.
Contagem(p) == IF p.fase = "comparar" THEN p.copia.tentativas + 1 ELSE p.copia.tentativas
\* It found the counter as it would leave it, and will not write it.
Inerte(p) == p.fase = "gravar" /\ "tentativas" \notin p.muda
\* Whether it writes the end of the block, and which.
GravaBloqueio(p) ==
    p.fase = "salvar" \/ (p.fase = "gravar" /\ "bloqueadoAte" \in p.muda)
Fecha(p, t) == IF p.fase = "comparar" THEN Contagem(p) >= Limite
               ELSE GravaBloqueio(p) /\ Bloqueada(p.copia, t)
Abre(p, t) == IF p.fase = "comparar" THEN Contagem(p) < Limite
              ELSE GravaBloqueio(p) /\ ~Bloqueada(p.copia, t)

\* Room on row l with e errors: with no request in progress, with p in progress, and with
\* p and q.
CabeSo(e, l, t) == ~Bloqueada(l, t) => Cabe(e, Folga(l.tentativas))

CabeUm(e, l, t, p) ==
    /\ ~Bloqueada(l, t) /\ ~Fecha(p, t) /\ ~Inerte(p) =>
          Cabe(e, 2 * Passos(l.tentativas) + 2 + Folga(Contagem(p)))
    /\ ~Bloqueada(l, t) /\ ~Fecha(p, t) /\ Inerte(p) =>
          /\ Cabe(e, 2 + Folga(l.tentativas))
          /\ Cabe(e, 2 + 2 * Passos(l.tentativas))
    /\ Bloqueada(l, t) /\ Abre(p, t) /\ ~Inerte(p) => Cabe(e, 2 + Folga(Contagem(p)))
    /\ Bloqueada(l, t) /\ Abre(p, t) /\ Inerte(p) => Cabe(e, 2 + Folga(l.tentativas))

CabeDois(e, l, t, p, q) ==
    /\ ~Bloqueada(l, t)
    /\ ~Fecha(p, t) /\ ~Fecha(q, t) /\ ~Inerte(p) /\ ~Inerte(q) =>
          Cabe(e, 4 + 2 * Passos(Contagem(q)) + Folga(Contagem(p)))
    /\ ~Fecha(p, t) /\ ~Fecha(q, t) /\ Inerte(p) /\ ~Inerte(q) =>
          /\ Cabe(e, 4 + 2 * Passos(l.tentativas) + Folga(Contagem(q)))
          /\ Cabe(e, 4 + 2 * Passos(Contagem(q)))
    /\ ~Fecha(q, t) /\ Inerte(p) /\ Inerte(q) => Cabe(e, 4 + Folga(l.tentativas))
    /\ ~Fecha(p, t) /\ ~Fecha(q, t) /\ Inerte(p) /\ Inerte(q) =>
          Cabe(e, 4 + 2 * Passos(l.tentativas))
    /\ Inerte(p) /\ Inerte(q) => l.tentativas >= 1

\* A failed login blocks its copy when the counter reaches the limit.
CopiaDoErro(p, t) ==
    /\ p.tipo = "login" => p.fase = "comparar"
    /\ p.tipo = "erro" => p.fase \in {"salvar", "gravar"}
    /\ p.fase = "comparar" => ~Bloqueada(p.copia, t)
    /\ p.tipo = "erro" => /\ p.copia.tentativas >= 1
                          /\ Bloqueada(p.copia, t) => p.copia.tentativas >= Limite

HaLugar(u) ==
    /\ CabeSo(erros[u], contas[u], agora)
    /\ \A r \in Reqs : Ameaca(pedidos[r], u) =>
          /\ CabeUm(erros[u], contas[u], agora, pedidos[r])
          /\ \A q \in Reqs \ {r} : Ameaca(pedidos[q], u) =>
                CabeDois(erros[u], contas[u], agora, pedidos[r], pedidos[q])

ErrosInv ==
    /\ ContasInv
    /\ \A r \in Reqs : pedidos[r] # Livre => CopiaDoErro(pedidos[r], agora)
    /\ \A u \in Usuarios : Presente(u) => HaLugar(u)

-----------------------------------------------------------------------------
(* Room for errors: arithmetic. *)

LEMMA FolgaTipo ==
    ASSUME NEW n \in Nat
    PROVE  /\ Folga(n) \in Nat /\ Passos(n) \in Nat /\ Passos(n) >= 1
           /\ n + 1 >= Limite => Folga(n) = 0 /\ Passos(n) = 1
           /\ n < Limite => Passos(n) = Limite - n
<1>1. Limite \in Nat
  BY LimitesAssumption
<1>2. ASSUME n < Limite PROVE Folga(n) \in Nat /\ (n + 1 >= Limite => Folga(n) = 0)
  <2>. DEFINE m == Limite - n
  <2>1. m \in Nat /\ m >= 1 /\ (n + 1 >= Limite => m = 1)
    BY <1>1, <1>2
  <2>2. m * m \in Nat /\ m * m >= 1 /\ (m = 1 => m * m = 1)
    <3>. HIDE DEF m
    <3>. QED  BY <2>1
  <2>3. Folga(n) = m * m + 3 * m - 4
    BY <1>1, <1>2 DEF Folga
  <2>. HIDE DEF m
  <2>. QED  BY <2>1, <2>2, <2>3
<1>3. n >= Limite => Folga(n) = 0
  BY <1>1 DEF Folga
<1>4. Passos(n) \in Nat /\ Passos(n) >= 1 /\ (n + 1 >= Limite => Passos(n) = 1)
        /\ (n < Limite => Passos(n) = Limite - n)
  BY <1>1 DEF Passos
<1>. QED  BY <1>1, <1>2, <1>3, <1>4

\* One error more takes that much of the room.
LEMMA FolgaPasso ==
    ASSUME NEW n \in Nat, n + 1 < Limite
    PROVE  Folga(n) = 2 * (Limite - n + 1) + Folga(n + 1)
<1>. DEFINE m == Limite - n
            k == Limite - (n + 1)
<1>1. m \in Nat /\ k \in Nat /\ k = m - 1 /\ n < Limite /\ n + 1 \in Nat
  BY LimitesAssumption
<1>2. Folga(n) = m * m + 3 * m - 4 /\ Folga(n + 1) = k * k + 3 * k - 4
  BY <1>1, LimitesAssumption DEF Folga
<1>3. k * k = m * m - 2 * m + 1
  <2>. HIDE DEF m, k
  <2>. QED  BY <1>1
<1>4. 2 * (Limite - n + 1) = 2 * m + 2
  BY LimitesAssumption
<1>5. m * m \in Nat
  <2>. HIDE DEF m
  <2>. QED  BY <1>1
<1>. HIDE DEF m, k
<1>. QED  BY <1>1, <1>2, <1>3, <1>4, <1>5

\* A counter further on leaves no more room.
LEMMA FolgaCai ==
    ASSUME NEW n \in Nat, NEW k \in Nat, k <= n
    PROVE  Folga(n) <= Folga(k)
<1>1. CASE n >= Limite
  BY <1>1, FolgaTipo, LimitesAssumption
<1>2. CASE n < Limite
  <2>. DEFINE a == Limite - k
              b == Limite - n
  <2>1. a \in Nat /\ b \in Nat /\ b <= a /\ k < Limite
    BY <1>2, LimitesAssumption
  <2>2. b * b <= a * a /\ a * a \in Nat /\ b * b \in Nat
    <3>. HIDE DEF a, b
    <3>1. a * b \in Nat /\ b * b <= a * b /\ a * b <= a * a
      BY <2>1
    <3>. QED  BY <2>1, <3>1
  <2>3. Folga(n) = b * b + 3 * b - 4 /\ Folga(k) = a * a + 3 * a - 4
    BY <1>2, <2>1, LimitesAssumption DEF Folga
  <2>. HIDE DEF a, b
  <2>. QED  BY <2>1, <2>2, <2>3
<1>. QED  BY <1>1, <1>2, LimitesAssumption

\* The whole of it is the room of a counter at zero, and one error that is not counted.
LEMMA TetoTipo == TetoDobrado \in Nat
<1>1. Limite \in Nat /\ Limite >= 1
  BY LimitesAssumption
<1>2. Limite * Limite \in Nat /\ Limite * Limite >= 1
  BY <1>1
<1>. QED  BY <1>1, <1>2 DEF TetoDobrado

LEMMA TetoDaFolga ==
    ASSUME Limite >= 2
    PROVE  /\ TetoDobrado \in Nat /\ TetoDobrado = Folga(0) + 2
           /\ TetoDobrado = Folga(1) + 2 * Limite + 4
<1>. DEFINE s == Limite * Limite
<1>1. Limite \in Nat
  BY LimitesAssumption
<1>2. s \in Nat
  BY <1>1
<1>3. Folga(0) = (Limite - 0) * (Limite - 0) + 3 * (Limite - 0) - 4 /\ Limite - 0 = Limite
  BY <1>1 DEF Folga
<1>4. Folga(0) = s + 3 * Limite - 4
  BY <1>3
<1>5. Folga(0) = 2 * (Limite - 0 + 1) + Folga(0 + 1)
  BY <1>1, FolgaPasso
<1>6. Folga(0) \in Nat /\ Folga(1) \in Nat
  BY FolgaTipo
<1>7. TetoDobrado = s + 3 * Limite - 2
  BY DEF TetoDobrado
<1>. HIDE DEF s
<1>8. 0 + 1 = 1 /\ 2 * (Limite - 0 + 1) = 2 * Limite + 2
  BY <1>1
<1>9. Folga(0) = 2 * Limite + 2 + Folga(1)
  BY <1>5, <1>8
<1>. QED  BY <1>1, <1>2, <1>4, <1>6, <1>7, <1>9

-----------------------------------------------------------------------------
(* Room for errors: what one step does to it. *)

\* The types of a row and of a copy, as far as the lockout is concerned.
Contadores(l) == l.tentativas \in Nat /\ l.bloqueadoAte \in Nat

LEMMA ContagemTipo ==
    ASSUME NEW p, Contadores(p.copia)
    PROVE  /\ Contagem(p) \in Nat
           /\ p.fase # "comparar" => Contagem(p) = p.copia.tentativas
           /\ p.fase = "comparar" => Contagem(p) = p.copia.tentativas + 1
BY DEF Contadores, Contagem

LEMMA ContagemDaAmeaca ==
    ASSUME NEW p, NEW t, Contadores(p.copia), CopiaDoErro(p, t), p.tipo \in {"login", "erro"}
    PROVE  Contagem(p) \in Nat /\ Contagem(p) >= 1
BY DEF Contadores, Contagem, CopiaDoErro

\* With no error counted there is room for everything.
LEMMA SemErrosSo ==
    ASSUME Limite >= 2, NEW l, NEW t, Contadores(l)
    PROVE  CabeSo(0, l, t)
<1>1. l.tentativas \in Nat
  BY DEF Contadores
<1>2. Folga(l.tentativas) \in Nat /\ Folga(l.tentativas) <= Folga(0) /\ Folga(0) \in Nat
  BY <1>1, FolgaTipo, FolgaCai
<1>. QED  BY <1>2, TetoDaFolga DEF CabeSo, Cabe

LEMMA SemErrosUm ==
    ASSUME Limite >= 2, NEW l, NEW t, NEW p, Contadores(l), Contadores(p.copia),
           CopiaDoErro(p, t), p.tipo \in {"login", "erro"}
    PROVE  CabeUm(0, l, t, p)
<1>. DEFINE n == l.tentativas
            v == Contagem(p)
<1>1. n \in Nat /\ v \in Nat /\ v >= 1
  BY ContagemDaAmeaca DEF Contadores
<1>2. /\ Folga(n) \in Nat /\ Folga(n) <= Folga(0) /\ Folga(0) \in Nat /\ Folga(1) \in Nat
      /\ Folga(v) \in Nat /\ Folga(v) <= Folga(1) /\ Folga(v) <= Folga(0)
  BY <1>1, FolgaTipo, FolgaCai
<1>3. Passos(n) \in Nat /\ Passos(n) <= Limite
  BY <1>1, FolgaTipo, LimitesAssumption DEF Passos
<1>. HIDE DEF n, v
<1>4. /\ Cabe(0, 2 * Passos(n) + 2 + Folga(v)) /\ Cabe(0, 2 + Folga(n))
      /\ Cabe(0, 2 + 2 * Passos(n)) /\ Cabe(0, 2 + Folga(v))
  BY <1>2, <1>3, TetoDaFolga, LimitesAssumption DEF Cabe
<1>. QED  BY <1>4 DEF CabeUm, n, v

LEMMA SemErrosDois ==
    ASSUME Limite >= 2, NEW l, NEW t, NEW p, NEW q,
           Contadores(l), Contadores(p.copia), Contadores(q.copia),
           CopiaDoErro(p, t), p.tipo \in {"login", "erro"},
           CopiaDoErro(q, t), q.tipo \in {"login", "erro"},
           ~Bloqueada(l, t), Inerte(p) /\ Inerte(q) => l.tentativas >= 1
    PROVE  CabeDois(0, l, t, p, q)
<1>. DEFINE n == l.tentativas
            v == Contagem(p)
            w == Contagem(q)
<1>1. n \in Nat /\ v \in Nat /\ v >= 1 /\ w \in Nat /\ w >= 1
  BY ContagemDaAmeaca DEF Contadores
<1>2. /\ Folga(n) \in Nat /\ Folga(n) <= Folga(0) /\ Folga(0) \in Nat /\ Folga(1) \in Nat
      /\ Folga(v) \in Nat /\ Folga(v) <= Folga(1)
      /\ Folga(w) \in Nat /\ Folga(w) <= Folga(1)
      /\ n >= 1 => Folga(n) <= Folga(1)
  BY <1>1, FolgaTipo, FolgaCai
<1>3. Passos(n) \in Nat /\ Passos(n) <= Limite
  BY <1>1, FolgaTipo, LimitesAssumption DEF Passos
<1>4. Passos(w) \in Nat /\ Passos(w) <= Limite - 1
  BY <1>1, FolgaTipo, LimitesAssumption DEF Passos
<1>5. n >= 1 => Passos(n) <= Limite - 1
  BY <1>1, FolgaTipo, LimitesAssumption DEF Passos
<1>. HIDE DEF n, v, w
<1>6. /\ Cabe(0, 4 + 2 * Passos(w) + Folga(v))
      /\ Cabe(0, 4 + 2 * Passos(n) + Folga(w))
      /\ Cabe(0, 4 + 2 * Passos(w))
      /\ n >= 1 => Cabe(0, 4 + Folga(n)) /\ Cabe(0, 4 + 2 * Passos(n))
  BY <1>2, <1>3, <1>4, <1>5, TetoDaFolga, LimitesAssumption DEF Cabe
<1>. QED  BY <1>6 DEF CabeDois, n, v, w

\* What the UPDATE of a failed login p makes of row l: row k.
Deixa(l, t, p, k) ==
    /\ k.tentativas = IF Inerte(p) THEN l.tentativas ELSE Contagem(p)
    /\ Bloqueada(k, t) <=> Fecha(p, t) \/ (Bloqueada(l, t) /\ ~Abre(p, t))
    /\ ~(Fecha(p, t) /\ Abre(p, t))
    /\ Fecha(p, t) => Contagem(p) >= Limite

LEMMA ErroDeixa ==
    ASSUME NEW l, NEW t, NEW p, NEW k, Contadores(p.copia), CopiaDoErro(p, t),
           p.fase = "gravar", p.tipo = "erro",
           k.tentativas = IF "tentativas" \in p.muda THEN p.copia.tentativas
                          ELSE l.tentativas,
           k.bloqueadoAte = IF "bloqueadoAte" \in p.muda THEN p.copia.bloqueadoAte
                            ELSE l.bloqueadoAte
    PROVE  Deixa(l, t, p, k)
<1>1. Contagem(p) = p.copia.tentativas
  BY ContagemTipo
<1>2. Bloqueada(k, t) <=> IF GravaBloqueio(p) THEN Bloqueada(p.copia, t) ELSE Bloqueada(l, t)
  BY DEF Bloqueada, GravaBloqueio
<1>3. /\ Fecha(p, t) <=> GravaBloqueio(p) /\ Bloqueada(p.copia, t)
      /\ Abre(p, t) <=> GravaBloqueio(p) /\ ~Bloqueada(p.copia, t)
  BY DEF Fecha, Abre
<1>4. k.tentativas = IF Inerte(p) THEN l.tentativas ELSE Contagem(p)
  BY <1>1 DEF Inerte
<1>5. Bloqueada(p.copia, t) => p.copia.tentativas >= Limite
  BY DEF CopiaDoErro
<1>. QED  BY <1>1, <1>2, <1>3, <1>4, <1>5 DEF Deixa

\* One more error on a row that only this request was about to write.
LEMMA MaisUmErro ==
    ASSUME NEW e \in Nat, NEW l, NEW t, NEW p, NEW k, Contadores(l), Contadores(p.copia),
           Deixa(l, t, p, k), CabeUm(e, l, t, p)
    PROVE  CabeSo(e + 1, k, t)
<1>. DEFINE n == l.tentativas
            v == Contagem(p)
            m == k.tentativas
<1>1. n \in Nat /\ v \in Nat /\ m = IF Inerte(p) THEN n ELSE v
  BY ContagemTipo DEF Contadores, Deixa
<1>2. /\ Folga(n) \in Nat /\ Passos(n) \in Nat /\ Folga(v) \in Nat /\ Folga(m) \in Nat
      /\ TetoDobrado \in Nat
  BY <1>1, FolgaTipo, TetoTipo
<1>3. /\ ~Bloqueada(l, t) /\ ~Fecha(p, t) /\ ~Inerte(p) => Cabe(e, 2 * Passos(n) + 2 + Folga(v))
      /\ ~Bloqueada(l, t) /\ ~Fecha(p, t) /\ Inerte(p) => Cabe(e, 2 + Folga(n))
      /\ Bloqueada(l, t) /\ Abre(p, t) /\ ~Inerte(p) => Cabe(e, 2 + Folga(v))
      /\ Bloqueada(l, t) /\ Abre(p, t) /\ Inerte(p) => Cabe(e, 2 + Folga(n))
  BY DEF CabeUm
<1>4. ~Bloqueada(k, t) => ~Fecha(p, t) /\ (Bloqueada(l, t) => Abre(p, t))
  BY DEF Deixa
<1>5. ~Bloqueada(k, t) => IF Inerte(p) THEN Cabe(e, 2 + Folga(n)) ELSE Cabe(e, 2 + Folga(v))
  <2>. HIDE DEF n, v
  <2>1. Cabe(e, 2 * Passos(n) + 2 + Folga(v)) => Cabe(e, 2 + Folga(v))
    BY <1>2 DEF Cabe
  <2>. QED  BY <1>3, <1>4, <2>1
<1>. HIDE DEF n, v
<1>6. ~Bloqueada(k, t) => Cabe(e, 2 + Folga(m))
  BY <1>1, <1>5
<1>7. Cabe(e, 2 + Folga(m)) => Cabe(e + 1, Folga(m))
  <2>. HIDE DEF m
  <2>. QED  BY <1>2 DEF Cabe
<1>. QED  BY <1>6, <1>7 DEF CabeSo, m

\* One more error while another request is about to add one.
LEMMA MaisUmErroComOutro ==
    ASSUME NEW e \in Nat, NEW l, NEW t, NEW p, NEW q, NEW k,
           Contadores(l), Contadores(p.copia), Contadores(q.copia),
           Deixa(l, t, p, k), ~(Fecha(q, t) /\ Abre(q, t)),
           CabeUm(e, l, t, p), CabeUm(e, l, t, q),
           CabeDois(e, l, t, p, q), CabeDois(e, l, t, q, p)
    PROVE  CabeUm(e + 1, k, t, q)
<1>. DEFINE n == l.tentativas
            v == Contagem(p)
            w == Contagem(q)
            m == k.tentativas
            A == Fecha(p, t)
            B == Fecha(q, t)
            I == Inerte(p)
            J == Inerte(q)
<1>1. n \in Nat /\ v \in Nat /\ w \in Nat /\ m = IF I THEN n ELSE v
  BY ContagemTipo DEF Contadores, Deixa
<1>2. /\ Folga(n) \in Nat /\ Passos(n) \in Nat /\ Passos(n) >= 1
      /\ Folga(v) \in Nat /\ Passos(v) \in Nat /\ Passos(v) >= 1
      /\ Folga(w) \in Nat /\ Passos(w) \in Nat /\ Passos(w) >= 1
      /\ TetoDobrado \in Nat
  BY <1>1, FolgaTipo, TetoTipo
<1>3. ~Bloqueada(l, t)
  BY DEF CabeDois
<1>4. Bloqueada(k, t) <=> A
  BY <1>3 DEF Deixa
<1>5. A => Folga(v) = 0
  BY <1>1, FolgaTipo, LimitesAssumption DEF Deixa
<1>6. Abre(q, t) => ~B
  OBVIOUS
<1>7. /\ ~B /\ ~J => 2 * e + (2 * Passos(n) + 2 + Folga(w)) <= TetoDobrado
      /\ ~B /\ J => 2 * e + (2 + 2 * Passos(n)) <= TetoDobrado
  BY <1>3 DEF CabeUm, Cabe
<1>8. /\ ~A /\ ~B /\ ~I /\ ~J =>
            2 * e + (4 + 2 * Passos(v) + Folga(w)) <= TetoDobrado
      /\ ~A /\ ~B /\ I /\ ~J =>
            2 * e + (4 + 2 * Passos(n) + Folga(w)) <= TetoDobrado
      /\ ~A /\ ~B /\ ~I /\ J =>
            /\ 2 * e + (4 + 2 * Passos(n) + Folga(v)) <= TetoDobrado
            /\ 2 * e + (4 + 2 * Passos(v)) <= TetoDobrado
      /\ ~B /\ I /\ J => 2 * e + (4 + Folga(n)) <= TetoDobrado
      /\ ~A /\ ~B /\ I /\ J => 2 * e + (4 + 2 * Passos(n)) <= TetoDobrado
  BY DEF CabeDois, Cabe
<1>9. /\ ~A /\ ~B /\ ~J => 2 * (e + 1) + (2 * Passos(m) + 2 + Folga(w)) <= TetoDobrado
      /\ ~A /\ ~B /\ J => 2 * (e + 1) + (2 + Folga(m)) <= TetoDobrado
      /\ ~A /\ ~B /\ J => 2 * (e + 1) + (2 + 2 * Passos(m)) <= TetoDobrado
      /\ A /\ ~B /\ ~J => 2 * (e + 1) + (2 + Folga(w)) <= TetoDobrado
      /\ A /\ ~B /\ J => 2 * (e + 1) + (2 + Folga(m)) <= TetoDobrado
  <2>. HIDE DEF n, v, w, m, A, B, I, J
  <2>1. CASE I
    BY <2>1, <1>1, <1>2, <1>7, <1>8
  <2>2. CASE ~I
    BY <2>2, <1>1, <1>2, <1>5, <1>7, <1>8
  <2>. QED  BY <2>1, <2>2
<1>. HIDE DEF n, v
<1>. QED  BY <1>4, <1>6, <1>9 DEF CabeUm, Cabe

\* Requests that threaten the row alike have the same room.
LEMMA MesmoLugar ==
    ASSUME NEW e, NEW l, NEW t, NEW p, NEW z, NEW q,
           Fecha(z, t) <=> Fecha(p, t), Abre(z, t) <=> Abre(p, t),
           Inerte(z) <=> Inerte(p), Contagem(z) = Contagem(p)
    PROVE  /\ CabeUm(e, l, t, p) => CabeUm(e, l, t, z)
           /\ CabeDois(e, l, t, p, q) => CabeDois(e, l, t, z, q)
           /\ CabeDois(e, l, t, q, p) => CabeDois(e, l, t, q, z)
<1>1. CabeUm(e, l, t, p) => CabeUm(e, l, t, z)
  BY DEF CabeUm
<1>2. CabeDois(e, l, t, p, q) => CabeDois(e, l, t, z, q)
  BY DEF CabeDois
<1>3. CabeDois(e, l, t, q, p) => CabeDois(e, l, t, q, z)
  BY DEF CabeDois
<1>. QED  BY <1>1, <1>2, <1>3

\* A login that arrives: the row is not blocked, and its copy counts one more than it.
Chega(l, t, p) ==
    /\ ~Bloqueada(l, t) /\ ~Inerte(p) /\ Contagem(p) = l.tentativas + 1
    /\ Fecha(p, t) <=> Contagem(p) >= Limite

LEMMA LoginChega ==
    ASSUME NEW l, NEW t, NEW p, Contadores(l), ~Bloqueada(l, t),
           p.fase = "comparar", p.copia = l
    PROVE  Chega(l, t, p)
BY DEF Chega, Contagem, Inerte, Fecha

LEMMA CabeOLogin ==
    ASSUME NEW e \in Nat, NEW l, NEW t, NEW p, Contadores(l), Chega(l, t, p),
           CabeSo(e, l, t)
    PROVE  CabeUm(e, l, t, p)
<1>. DEFINE n == l.tentativas
<1>1. n \in Nat /\ n + 1 \in Nat /\ Contagem(p) = n + 1
  BY DEF Contadores, Chega
<1>2. ASSUME ~Fecha(p, t) PROVE Cabe(e, 2 * Passos(n) + 2 + Folga(n + 1))
  <2>. HIDE DEF n
  <2>1. n + 1 < Limite /\ n < Limite /\ Limite \in Nat
    BY <1>1, <1>2, LimitesAssumption DEF Chega
  <2>2. Passos(n) = Limite - n /\ Folga(n) \in Nat /\ Folga(n + 1) \in Nat
    BY <1>1, <2>1, FolgaTipo
  <2>3. Folga(n) = 2 * (Limite - n + 1) + Folga(n + 1)
    BY <1>1, <2>1, FolgaPasso
  <2>4. Cabe(e, Folga(n))
    BY DEF CabeSo, Chega, n
  <2>5. Folga(n) = 2 * Passos(n) + 2 + Folga(n + 1)
    BY <1>1, <2>1, <2>2, <2>3
  <2>. QED  BY <2>4, <2>5
<1>. QED  BY <1>1, <1>2 DEF CabeUm, Chega

\* A login that arrives while another request is about to add an error.
LEMMA CabeOLoginComOutro ==
    ASSUME NEW e \in Nat, NEW l, NEW t, NEW p, NEW q,
           Contadores(l), Contadores(q.copia),
           Chega(l, t, p), CabeSo(e, l, t), CabeUm(e, l, t, q)
    PROVE  CabeDois(e, l, t, p, q) /\ CabeDois(e, l, t, q, p)
<1>. DEFINE n == l.tentativas
            w == Contagem(q)
            A == Fecha(p, t)
            B == Fecha(q, t)
            J == Inerte(q)
<1>1. n \in Nat /\ n + 1 \in Nat /\ Contagem(p) = n + 1 /\ w \in Nat /\ Limite \in Nat
  BY ContagemTipo, LimitesAssumption DEF Contadores, Chega
<1>2. ~Bloqueada(l, t) /\ ~Inerte(p) /\ (~A <=> n + 1 < Limite)
  BY <1>1 DEF Chega
<1>3. /\ Folga(n) \in Nat /\ Passos(n) \in Nat /\ Passos(n) >= 1
      /\ Folga(n + 1) \in Nat /\ Passos(n + 1) \in Nat
      /\ Folga(w) \in Nat /\ Passos(w) \in Nat /\ Passos(w) >= 1
      /\ n < Limite => Passos(n) = Limite - n
      /\ n + 1 < Limite => Passos(n + 1) = Limite - (n + 1)
      /\ w < Limite => Passos(w) = Limite - w
      /\ w >= Limite => Passos(w) = 1
      /\ TetoDobrado \in Nat
  <2>. HIDE DEF n, w
  <2>1. w >= Limite => Passos(w) = 1
    BY <1>1 DEF Passos
  <2>. QED  BY <1>1, <2>1, FolgaTipo, TetoTipo
<1>4. ~A => Folga(n) = 2 * (Limite - n + 1) + Folga(n + 1)
  BY <1>1, <1>2, FolgaPasso
<1>5. ~A /\ w <= n => Folga(w) >= 2 * (Limite - w + 1) + Folga(n + 1)
  <2>. HIDE DEF w, n, A
  <2>1. SUFFICES ASSUME ~A, w <= n
                 PROVE  Folga(w) >= 2 * (Limite - w + 1) + Folga(n + 1)
    OBVIOUS
  <2>2. w + 1 < Limite /\ w + 1 \in Nat /\ w + 1 <= n + 1
    BY <1>1, <1>2, <2>1
  <2>3. Folga(w) = 2 * (Limite - w + 1) + Folga(w + 1)
    BY <1>1, <2>2, FolgaPasso
  <2>4. Folga(n + 1) <= Folga(w + 1) /\ Folga(w + 1) \in Nat
    BY <1>1, <2>2, FolgaCai, FolgaTipo
  <2>. QED  BY <1>1, <1>3, <2>3, <2>4
<1>6. /\ 2 * e + Folga(n) <= TetoDobrado
      /\ ~B /\ ~J => 2 * e + (2 * Passos(n) + 2 + Folga(w)) <= TetoDobrado
      /\ ~B /\ J => 2 * e + (2 + Folga(n)) <= TetoDobrado
      /\ ~B /\ J => 2 * e + (2 + 2 * Passos(n)) <= TetoDobrado
  BY <1>2 DEF CabeSo, CabeUm, Cabe
<1>7. ~A /\ ~B /\ ~J => 2 * e + (4 + 2 * Passos(w) + Folga(n + 1)) <= TetoDobrado
  <2>. HIDE DEF n, w, A, B, J
  <2>1. SUFFICES ASSUME ~A, ~B, ~J
                 PROVE  2 * e + (4 + 2 * Passos(w) + Folga(n + 1)) <= TetoDobrado
    OBVIOUS
  <2>2. n + 1 < Limite /\ n < Limite /\ Passos(n) = Limite - n
    BY <1>1, <1>2, <1>3, <2>1
  <2>3. CASE w <= n
    <3>1. w < Limite /\ Passos(w) = Limite - w
      BY <1>1, <1>3, <2>2, <2>3
    <3>2. Folga(w) >= 2 * (Limite - w + 1) + Folga(n + 1)
      BY <1>5, <2>1, <2>3
    <3>3. 2 * e + (2 * Passos(n) + 2 + Folga(w)) <= TetoDobrado
      BY <1>6, <2>1
    <3>. QED  BY <1>1, <1>3, <3>1, <3>2, <3>3
  <2>4. CASE w > n
    <3>1. Passos(w) <= Limite - n - 1
      BY <1>1, <1>3, <2>2, <2>4
    <3>2. 2 * e + 2 * (Limite - n + 1) + Folga(n + 1) <= TetoDobrado
      BY <1>1, <1>3, <1>4, <1>6, <2>1
    <3>. QED  BY <1>1, <1>3, <2>2, <3>1, <3>2
  <2>. QED  BY <1>1, <2>3, <2>4
<1>8. /\ ~A /\ ~B /\ ~J => 2 * e + (4 + 2 * Passos(n + 1) + Folga(w)) <= TetoDobrado
      /\ ~A /\ ~B /\ J => 2 * e + (4 + 2 * Passos(n) + Folga(n + 1)) <= TetoDobrado
      /\ ~A /\ ~B /\ J => 2 * e + (4 + 2 * Passos(n + 1)) <= TetoDobrado
  <2>. HIDE DEF n, w, A, B, J
  <2>1. ~A => Passos(n) = Limite - n /\ Passos(n + 1) = Limite - (n + 1)
    BY <1>1, <1>2, <1>3
  <2>. QED  BY <1>1, <1>3, <1>4, <1>6, <2>1
<1>9. CabeDois(e, l, t, p, q)
  <2>1. Contagem(p) = n + 1
    BY <1>1
  <2>. HIDE DEF n
  <2>. QED  BY <2>1, <1>2, <1>7 DEF CabeDois, Cabe
<1>10. CabeDois(e, l, t, q, p)
  BY <1>1, <1>2, <1>8 DEF CabeDois, Cabe
<1>. QED  BY <1>9, <1>10

\* The request finds out what it will write.
Acha(l, t, p, z) ==
    /\ Contagem(z) = Contagem(p) /\ ~Inerte(p)
    /\ Inerte(z) <=> Contagem(z) = l.tentativas
    /\ ~Bloqueada(l, t) => (Fecha(z, t) <=> Fecha(p, t))
    /\ Bloqueada(l, t) => (Abre(z, t) => Abre(p, t))
    /\ Fecha(p, t) => Contagem(p) >= Limite

LEMMA SaveAcha ==
    ASSUME NEW l, NEW t, NEW p, NEW z, Contadores(p.copia), CopiaDoErro(p, t),
           p.tipo = "erro", p.fase = "salvar",
           z.fase = "gravar", z.copia = p.copia,
           "tentativas" \in z.muda <=> p.copia.tentativas # l.tentativas,
           "bloqueadoAte" \in z.muda <=> p.copia.bloqueadoAte # l.bloqueadoAte
    PROVE  Acha(l, t, p, z)
<1>1. Contagem(z) = p.copia.tentativas /\ Contagem(p) = p.copia.tentativas
  BY DEF Contagem
<1>2. ~Inerte(p) /\ (Inerte(z) <=> Contagem(z) = l.tentativas)
  BY <1>1 DEF Inerte
<1>3. /\ Fecha(p, t) <=> Bloqueada(p.copia, t)
      /\ Abre(p, t) <=> ~Bloqueada(p.copia, t)
      /\ Fecha(z, t) => Bloqueada(p.copia, t)
      /\ Abre(z, t) => ~Bloqueada(p.copia, t)
  BY DEF Fecha, Abre, GravaBloqueio
<1>4. ~Bloqueada(l, t) /\ Bloqueada(p.copia, t) => Fecha(z, t)
  BY DEF Fecha, GravaBloqueio, Bloqueada
<1>5. Bloqueada(p.copia, t) => p.copia.tentativas >= Limite
  BY DEF CopiaDoErro
<1>. QED  BY <1>1, <1>2, <1>3, <1>4, <1>5 DEF Acha

LEMMA CabeOQueAcha ==
    ASSUME NEW e \in Nat, NEW l, NEW t, NEW p, NEW z, Contadores(l), Contadores(p.copia),
           Acha(l, t, p, z), CabeUm(e, l, t, p)
    PROVE  CabeUm(e, l, t, z)
<1>. DEFINE n == l.tentativas
            v == Contagem(p)
<1>1. n \in Nat /\ v \in Nat /\ Contagem(z) = v /\ (Inerte(z) => v = n)
  BY ContagemTipo DEF Contadores, Acha
<1>2. Folga(n) \in Nat /\ Passos(n) \in Nat /\ Folga(v) \in Nat /\ TetoDobrado \in Nat
  BY <1>1, FolgaTipo, TetoTipo
<1>3. /\ ~Bloqueada(l, t) /\ ~Fecha(z, t) => Cabe(e, 2 * Passos(n) + 2 + Folga(v))
      /\ Bloqueada(l, t) /\ Abre(z, t) => Cabe(e, 2 + Folga(v))
  BY DEF CabeUm, Acha
<1>. HIDE DEF n, v
<1>4. Cabe(e, 2 * Passos(n) + 2 + Folga(v)) =>
          Cabe(e, 2 + Folga(v)) /\ Cabe(e, 2 + 2 * Passos(n))
  BY <1>1, <1>2 DEF Cabe
<1>5. /\ ~Bloqueada(l, t) /\ ~Fecha(z, t) /\ Inerte(z) =>
            Cabe(e, 2 + Folga(n)) /\ Cabe(e, 2 + 2 * Passos(n))
      /\ Bloqueada(l, t) /\ Abre(z, t) /\ Inerte(z) => Cabe(e, 2 + Folga(n))
  BY <1>1, <1>3, <1>4
<1>6. Contagem(z) = v
  BY <1>1
<1>. QED  BY <1>3, <1>5, <1>6 DEF CabeUm, n

LEMMA CabeOQueAchaComOutro ==
    ASSUME NEW e \in Nat, NEW l, NEW t, NEW p, NEW z, NEW q,
           Contadores(l), Contadores(p.copia), Contadores(q.copia),
           Acha(l, t, p, z), Contagem(p) >= 1, CabeUm(e, l, t, p), CabeUm(e, l, t, q),
           CabeDois(e, l, t, p, q), CabeDois(e, l, t, q, p)
    PROVE  CabeDois(e, l, t, z, q) /\ CabeDois(e, l, t, q, z)
<1>. DEFINE n == l.tentativas
            v == Contagem(p)
            w == Contagem(q)
            A == Fecha(p, t)
            B == Fecha(q, t)
            I == Inerte(z)
            J == Inerte(q)
<1>1. n \in Nat /\ v \in Nat /\ v >= 1 /\ w \in Nat /\ Contagem(z) = v /\ (I => v = n)
  BY ContagemTipo DEF Contadores, Acha
<1>2. ~Bloqueada(l, t) /\ ~Inerte(p) /\ (Fecha(z, t) <=> A)
  BY DEF CabeDois, Acha
<1>3. /\ Folga(n) \in Nat /\ Passos(n) \in Nat /\ Passos(n) >= 1
      /\ Folga(v) \in Nat /\ Passos(v) \in Nat /\ Passos(v) >= 1
      /\ Folga(w) \in Nat /\ Passos(w) \in Nat /\ Passos(w) >= 1
      /\ TetoDobrado \in Nat
  BY <1>1, FolgaTipo, TetoTipo
<1>4. A => Folga(v) = 0
  BY <1>1, FolgaTipo, LimitesAssumption DEF Acha
<1>5. /\ ~A => 2 * e + (2 * Passos(n) + 2 + Folga(v)) <= TetoDobrado
      /\ ~B /\ J => 2 * e + (2 + 2 * Passos(n)) <= TetoDobrado
  BY <1>2 DEF CabeUm, Cabe
<1>6. /\ ~A /\ ~B /\ ~J => /\ 2 * e + (4 + 2 * Passos(w) + Folga(v)) <= TetoDobrado
                           /\ 2 * e + (4 + 2 * Passos(v) + Folga(w)) <= TetoDobrado
      /\ ~A /\ ~B /\ J => /\ 2 * e + (4 + 2 * Passos(n) + Folga(v)) <= TetoDobrado
                          /\ 2 * e + (4 + 2 * Passos(v)) <= TetoDobrado
  BY <1>2 DEF CabeDois, Cabe
<1>7. /\ ~A /\ ~B /\ I /\ ~J => /\ 2 * e + (4 + 2 * Passos(n) + Folga(w)) <= TetoDobrado
                                /\ 2 * e + (4 + 2 * Passos(w)) <= TetoDobrado
      /\ ~B /\ I /\ J => 2 * e + (4 + Folga(n)) <= TetoDobrado
      /\ ~A /\ I /\ J => 2 * e + (4 + Folga(n)) <= TetoDobrado
      /\ ~A /\ ~B /\ I /\ J => 2 * e + (4 + 2 * Passos(n)) <= TetoDobrado
      /\ I => n >= 1
  <2>. HIDE DEF n, v, w, A, B, I, J
  <2>1. CASE A
    BY <2>1, <1>1, <1>3, <1>4, <1>5, <1>6
  <2>2. CASE ~A
    BY <2>2, <1>1, <1>3, <1>5, <1>6
  <2>. QED  BY <2>1, <2>2
<1>8. Contagem(z) = v
  BY <1>1
<1>9. CabeDois(e, l, t, z, q)
  <2>. HIDE DEF v
  <2>. QED  BY <1>2, <1>6, <1>7, <1>8 DEF CabeDois, Cabe
<1>10. CabeDois(e, l, t, q, z)
  <2>. HIDE DEF v
  <2>. QED  BY <1>2, <1>6, <1>7, <1>8 DEF CabeDois, Cabe
<1>. QED  BY <1>9, <1>10

LEMMA FechaOuAbre ==
    ASSUME NEW p, NEW t, Contadores(p.copia)
    PROVE  ~(Fecha(p, t) /\ Abre(p, t))
<1>1. Contagem(p) \in Nat
  BY ContagemTipo
<1>. QED  BY <1>1, LimitesAssumption DEF Fecha, Abre

LEMMA ContaConta == ASSUME NEW c \in Conta PROVE Contadores(c)
<1>1. c.tentativas \in 0 .. MaxTentativas /\ c.bloqueadoAte \in 0 .. MaxAgora + Duracao
  BY DEF Conta
<1>. QED  BY <1>1, LimitesAssumption DEF Contadores

-----------------------------------------------------------------------------
(* Room for errors: it is an invariant. *)

\* What is known of a request that may write an error, and of the row it is about.
LEMMA DaAmeaca ==
    ASSUME ErrosInv, NEW r \in Reqs, NEW u \in Usuarios, Ameaca(pedidos[r], u)
    PROVE  LET p == pedidos[r]
           IN  /\ p # Livre /\ p.conta = u /\ p.tipo \in {"login", "erro"}
               /\ p.fase \in {"comparar", "salvar", "gravar"}
               /\ CopiaDoErro(p, agora) /\ Contadores(p.copia)
               /\ Contagem(p) \in Nat /\ Contagem(p) >= 1
               /\ Presente(u) /\ contas[u] \in Conta /\ Contadores(contas[u])
               /\ HaLugar(u) /\ CabeUm(erros[u], contas[u], agora, p)
<1>. DEFINE p == pedidos[r]
<1>1. p # Livre /\ p.conta = u /\ p.tipo \in {"login", "erro"}
  BY DEF Ameaca
<1>2. CopiaDoErro(p, agora)
  BY <1>1 DEF ErrosInv
<1>3. p.fase \in {"comparar", "salvar", "gravar"}
  BY <1>1, <1>2 DEF CopiaDoErro
<1>4. p \in Pedido /\ PedidoCoerente(p) /\ contas[u] \in Conta
  BY <1>1, <1>3, LinhaDoPedido DEF ErrosInv
<1>5. Presente(u)
  BY <1>1, <1>3, <1>4 DEF PedidoCoerente, LeuALinha
<1>6. p.copia \in Conta
  BY <1>3, <1>4 DEF Pedido, PedidoCoerente, CopiaDoQueLeu
<1>7. Contadores(p.copia) /\ Contadores(contas[u])
  BY <1>4, <1>6, ContaConta
<1>8. Contagem(p) \in Nat /\ Contagem(p) >= 1
  BY <1>1, <1>2, <1>7, ContagemDaAmeaca
<1>9. HaLugar(u)
  BY <1>5 DEF ErrosInv
<1>10. CabeUm(erros[u], contas[u], agora, p)
  BY <1>9 DEF HaLugar
<1>. QED  BY <1>1, <1>2, <1>3, <1>4, <1>5, <1>7, <1>8, <1>9, <1>10

\* A step that only begins, rewrites or ends request r.
LEMMA LugarSoPedido ==
    ASSUME ErrosInv, ContasInv', NEW r \in Reqs, NEW p,
           pedidos' = [pedidos EXCEPT ![r] = p], UNCHANGED << contas, agora, erros >>,
           p # Livre => CopiaDoErro(p, agora),
           \A u \in Usuarios : Presente(u) /\ Ameaca(p, u) =>
               /\ CabeUm(erros[u], contas[u], agora, p)
               /\ \A q \in Reqs \ {r} : Ameaca(pedidos[q], u) =>
                     /\ CabeDois(erros[u], contas[u], agora, p, pedidos[q])
                     /\ CabeDois(erros[u], contas[u], agora, pedidos[q], p)
    PROVE  ErrosInv'
<1>1. pedidos'[r] = p /\ \A q \in Reqs \ {r} : pedidos'[q] = pedidos[q]
  BY DEF ErrosInv, ContasInv, TypeOK
<1>2. ASSUME NEW q \in Reqs, pedidos'[q] # Livre PROVE CopiaDoErro(pedidos'[q], agora')
  BY <1>1, <1>2 DEF ErrosInv
<1>3. ASSUME NEW u \in Usuarios, Presente(u)' PROVE HaLugar(u)'
  <2>1. Presente(u) /\ HaLugar(u)
    BY <1>3 DEF ErrosInv, Presente
  <2>2. CabeSo(erros[u], contas[u], agora)
    BY <2>1 DEF HaLugar
  <2>3. ASSUME NEW s \in Reqs, Ameaca(pedidos'[s], u)
        PROVE  CabeUm(erros[u], contas[u], agora, pedidos'[s])
    BY <1>1, <2>1, <2>3 DEF HaLugar
  <2>4. ASSUME NEW s \in Reqs, NEW q \in Reqs \ {s},
               Ameaca(pedidos'[s], u), Ameaca(pedidos'[q], u)
        PROVE  CabeDois(erros[u], contas[u], agora, pedidos'[s], pedidos'[q])
    <3>1. CASE s = r
      BY <3>1, <1>1, <2>1, <2>4
    <3>2. CASE q = r
      BY <3>2, <1>1, <2>1, <2>4
    <3>3. CASE s # r /\ q # r
      BY <3>3, <1>1, <2>1, <2>4 DEF HaLugar
    <3>. QED  BY <3>1, <3>2, <3>3
  <2>. QED  BY <2>2, <2>3, <2>4 DEF HaLugar
<1>. QED  BY <1>2, <1>3 DEF ErrosInv

\* A step that ends request r and writes row u: of two requests one is left.
LEMMA LugarEscrita ==
    ASSUME ErrosInv, ContasInv', NEW r1, NEW r2, Reqs = {r1, r2},
           NEW r \in Reqs, NEW u \in Usuarios, NEW c,
           contas' = [contas EXCEPT ![u] = c],
           pedidos' = [pedidos EXCEPT ![r] = Livre], agora' = agora,
           \A w \in Usuarios \ {u} : erros'[w] = erros[w],
           CabeSo(erros'[u], c, agora),
           \A q \in Reqs \ {r} : Ameaca(pedidos[q], u) =>
               CabeUm(erros'[u], c, agora, pedidos[q])
    PROVE  ErrosInv'
<1>1. pedidos'[r] = Livre /\ \A q \in Reqs \ {r} : pedidos'[q] = pedidos[q]
  BY DEF ErrosInv, ContasInv, TypeOK
<1>2. contas'[u] = c /\ \A w \in Usuarios \ {u} : contas'[w] = contas[w]
  BY DEF ErrosInv, ContasInv, TypeOK
<1>3. \A w \in Usuarios : ~Ameaca(pedidos'[r], w)
  BY <1>1 DEF Ameaca
<1>4. ASSUME NEW q \in Reqs, pedidos'[q] # Livre PROVE CopiaDoErro(pedidos'[q], agora')
  BY <1>1, <1>4 DEF ErrosInv
<1>5. ASSUME NEW w \in Usuarios, Presente(w)' PROVE HaLugar(w)'
  <2>1. ASSUME NEW s \in Reqs, NEW q \in Reqs \ {s},
               Ameaca(pedidos'[s], w), Ameaca(pedidos'[q], w)
        PROVE  FALSE
    BY <2>1, <1>3
  <2>2. CASE w = u
    <3>1. CabeSo(erros'[u], contas'[u], agora')
      BY <1>2
    <3>2. ASSUME NEW s \in Reqs, Ameaca(pedidos'[s], u)
          PROVE  CabeUm(erros'[u], contas'[u], agora', pedidos'[s])
      BY <3>2, <1>1, <1>2, <1>3
    <3>. QED  BY <2>1, <2>2, <3>1, <3>2 DEF HaLugar
  <2>3. CASE w # u
    <3>1. contas'[w] = contas[w] /\ erros'[w] = erros[w] /\ HaLugar(w)
      BY <1>2, <1>5, <2>3 DEF ErrosInv, Presente
    <3>2. CabeSo(erros'[w], contas'[w], agora')
      BY <3>1 DEF HaLugar
    <3>3. ASSUME NEW s \in Reqs, Ameaca(pedidos'[s], w)
          PROVE  CabeUm(erros'[w], contas'[w], agora', pedidos'[s])
      BY <3>1, <3>3, <1>1, <1>3 DEF HaLugar
    <3>. QED  BY <2>1, <3>2, <3>3 DEF HaLugar
  <2>. QED  BY <2>2, <2>3
<1>. QED  BY <1>4, <1>5 DEF ErrosInv

\* A write of another kind: the errors begin to be counted again.
LEMMA LugarRecomeca ==
    ASSUME Limite >= 2, ErrosInv, ContasInv', NEW r1, NEW r2, Reqs = {r1, r2},
           NEW r \in Reqs, NEW u \in Usuarios, NEW c \in Conta,
           contas' = [contas EXCEPT ![u] = c],
           pedidos' = [pedidos EXCEPT ![r] = Livre], agora' = agora,
           erros' = [erros EXCEPT ![u] = 0]
    PROVE  ErrosInv'
<1>1. erros'[u] = 0 /\ \A w \in Usuarios \ {u} : erros'[w] = erros[w]
  BY DEF ErrosInv, ContasInv, TypeOK
<1>2. CabeSo(erros'[u], c, agora)
  BY <1>1, ContaConta, SemErrosSo
<1>3. ASSUME NEW q \in Reqs \ {r}, Ameaca(pedidos[q], u)
      PROVE  CabeUm(erros'[u], c, agora, pedidos[q])
  <2>1. CopiaDoErro(pedidos[q], agora) /\ Contadores(pedidos[q].copia)
           /\ pedidos[q].tipo \in {"login", "erro"}
    BY <1>3, DaAmeaca
  <2>. QED  BY <2>1, <1>1, ContaConta, SemErrosUm
<1>. QED  BY <1>1, <1>2, <1>3, LugarEscrita

LEMMA LugarPassar ==
    ASSUME Limite >= 2, ErrosInv, ContasInv', Passar
    PROVE  ErrosInv'
<1>1. contas' = contas /\ pedidos' = pedidos /\ agora' = agora + 1 /\ agora \in Nat
        /\ \A u \in Usuarios : erros'[u] = 0
  BY LimitesAssumption DEF Passar, ErrosInv, ContasInv, TypeOK
<1>2. ASSUME NEW l, Contadores(l), ~Bloqueada(l, agora) PROVE ~Bloqueada(l, agora')
  BY <1>1, <1>2 DEF Contadores, Bloqueada
<1>3. ASSUME NEW q \in Reqs, pedidos[q] # Livre PROVE CopiaDoErro(pedidos[q], agora')
  <2>. DEFINE p == pedidos[q]
  <2>1. CopiaDoErro(p, agora)
    BY <1>3 DEF ErrosInv
  <2>2. p.fase \in {"comparar", "salvar", "gravar"} => Contadores(p.copia)
    <3>1. p \in Pedido /\ PedidoCoerente(p)
      BY <1>3, LinhaDoPedido DEF ErrosInv
    <3>. QED  BY <3>1, ContaConta DEF Pedido, PedidoCoerente, CopiaDoQueLeu
  <2>. HIDE DEF p
  <2>3. p.fase \in {"comparar", "salvar", "gravar"} =>
            (~Bloqueada(p.copia, agora) => ~Bloqueada(p.copia, agora'))
    BY <2>2, <1>2
  <2>4. p.tipo = "erro" => p.fase \in {"salvar", "gravar"}
    BY <2>1 DEF CopiaDoErro
  <2>5. CopiaDoErro(p, agora')
    BY <2>1, <2>3, <2>4 DEF CopiaDoErro
  <2>. QED  BY <2>5 DEF p
<1>4. ASSUME NEW u \in Usuarios, Presente(u) PROVE HaLugar(u)'
  <2>1. contas[u] \in Conta /\ Contadores(contas[u]) /\ HaLugar(u)
    BY <1>4, LinhaPresente, ContaConta DEF ErrosInv, ContasInv
  <2>2. CabeSo(0, contas[u], agora')
    BY <2>1, SemErrosSo
  <2>3. ASSUME NEW r \in Reqs, Ameaca(pedidos[r], u)
        PROVE  CabeUm(0, contas[u], agora', pedidos[r])
    <3>1. pedidos[r] # Livre /\ Contadores(pedidos[r].copia)
             /\ pedidos[r].tipo \in {"login", "erro"}
      BY <2>3, DaAmeaca
    <3>. QED  BY <3>1, <1>3, <2>1, SemErrosUm
  <2>4. ASSUME NEW r \in Reqs, NEW q \in Reqs \ {r},
               Ameaca(pedidos[r], u), Ameaca(pedidos[q], u)
        PROVE  CabeDois(0, contas[u], agora', pedidos[r], pedidos[q])
    <3>1. /\ pedidos[r] # Livre /\ Contadores(pedidos[r].copia)
          /\ pedidos[r].tipo \in {"login", "erro"}
          /\ pedidos[q] # Livre /\ Contadores(pedidos[q].copia)
          /\ pedidos[q].tipo \in {"login", "erro"}
      BY <2>4, DaAmeaca
    <3>2. CabeDois(erros[u], contas[u], agora, pedidos[r], pedidos[q])
      BY <2>1, <2>4 DEF HaLugar
    <3>3. /\ ~Bloqueada(contas[u], agora)
          /\ Inerte(pedidos[r]) /\ Inerte(pedidos[q]) => contas[u].tentativas >= 1
      BY <3>2 DEF CabeDois
    <3>4. ~Bloqueada(contas[u], agora')
      BY <3>3, <2>1, <1>2
    <3>5. CopiaDoErro(pedidos[r], agora') /\ CopiaDoErro(pedidos[q], agora')
      BY <3>1, <1>3
    <3>. QED  BY <3>1, <3>3, <3>4, <3>5, <2>1, SemErrosDois
  <2>. QED  BY <1>1, <2>2, <2>3, <2>4 DEF HaLugar
<1>. QED  BY <1>1, <1>3, <1>4 DEF ErrosInv, Presente

\* A request that arrives and is not a login adds no error.
LEMMA LugarOutroPedido ==
    ASSUME ErrosInv, ContasInv', NEW r \in Reqs, NEW u \in Usuarios, NEW s, NEW c,
           NEW fase \in {"salvar", "inserir", "excluir"},
           NEW tipo \in Tipos \ {"login", "erro"}, Reter(r, fase, tipo, u, s, c)
    PROVE  ErrosInv'
<1>. DEFINE lida == IF Presente(u) THEN [ ativo |-> contas[u].ativo,
                                          deletedAt |-> contas[u].deletedAt ]
                    ELSE Ausente
            p == [ fase |-> fase, tipo |-> tipo, conta |-> u, senha |-> s, copia |-> c,
                   lida |-> lida, muda |-> {} ]
<1>1. pedidos' = [pedidos EXCEPT ![r] = p] /\ UNCHANGED << contas, agora, erros >>
  BY DEF Reter
<1>2. p.fase = fase /\ p.tipo = tipo
  OBVIOUS
<1>. HIDE DEF p
<1>3. CopiaDoErro(p, agora) /\ \A w \in Usuarios : ~Ameaca(p, w)
  BY <1>2 DEF CopiaDoErro, Ameaca
<1>. QED  BY <1>1, <1>3, LugarSoPedido

LEMMA LugarLogin ==
    ASSUME ErrosInv, ContasInv', NEW r \in Reqs, NEW u \in Usuarios, NEW s \in Senhas,
           PedirLogin(r, u, s)
    PROVE  ErrosInv'
<1>. DEFINE l == contas[u]
            p == [ fase |-> "comparar", tipo |-> "login", conta |-> u, senha |-> s,
                   copia |-> l,
                   lida |-> [ativo |-> l.ativo, deletedAt |-> l.deletedAt],
                   muda |-> {} ]
<1>1. Presente(u) /\ ~IsBlocked(l)
  BY DEF PedirLogin, Encontrada
<1>2. pedidos' = [pedidos EXCEPT ![r] = p] /\ UNCHANGED << contas, agora, erros >>
  BY <1>1 DEF PedirLogin, Reter
<1>3. /\ p.fase = "comparar" /\ p.copia = l /\ p.conta = u /\ p.tipo = "login"
  OBVIOUS
<1>4. l \in Conta /\ Contadores(l) /\ HaLugar(u) /\ erros[u] \in Nat
  BY <1>1, LinhaPresente, ContaConta DEF ErrosInv, ContasInv, TypeOK
<1>5. ~Bloqueada(l, agora)
  BY <1>1 DEF IsBlocked, Bloqueada
<1>. HIDE DEF p, l
<1>6. CopiaDoErro(p, agora)
  BY <1>3, <1>5 DEF CopiaDoErro
<1>7. Chega(l, agora, p)
  BY <1>3, <1>4, <1>5, LoginChega
<1>8. CabeSo(erros[u], l, agora)
  BY <1>4 DEF HaLugar, l
<1>9. CabeUm(erros[u], l, agora, p)
  BY <1>4, <1>7, <1>8, CabeOLogin
<1>10. ASSUME NEW q \in Reqs \ {r}, Ameaca(pedidos[q], u)
       PROVE  /\ CabeDois(erros[u], l, agora, p, pedidos[q])
              /\ CabeDois(erros[u], l, agora, pedidos[q], p)
  <2>1. Contadores(pedidos[q].copia) /\ CabeUm(erros[u], l, agora, pedidos[q])
    BY <1>10, DaAmeaca DEF l
  <2>. QED  BY <2>1, <1>4, <1>7, <1>8, CabeOLoginComOutro
<1>11. \A w \in Usuarios : Ameaca(p, w) => w = u
  BY <1>3 DEF Ameaca
<1>. QED  BY <1>2, <1>6, <1>9, <1>10, <1>11, LugarSoPedido DEF l

LEMMA LugarChegar ==
    ASSUME ErrosInv, ContasInv', NEW r \in Reqs, NEW u \in Usuarios, Chegar(r, u)
    PROVE  ErrosInv'
<1>1. ASSUME NEW s \in Senhas, PedirCriacao(r, u, s) PROVE ErrosInv'
  BY <1>1, LugarOutroPedido DEF PedirCriacao, Tipos
<1>2. ASSUME NEW s \in Senhas, PedirRegistro(r, u, s) PROVE ErrosInv'
  BY <1>2, LugarOutroPedido DEF PedirRegistro, Tipos
<1>3. ASSUME NEW s \in Senhas, NEW n \in Senhas, PedirTrocaDeSenha(r, u, s, n)
      PROVE  ErrosInv'
  BY <1>3, LugarOutroPedido DEF PedirTrocaDeSenha, Tipos
<1>4. ASSUME NEW s \in Senhas \cup {NaoInformado}, NEW a \in BOOLEAN \cup {NaoInformado},
             PedirAlteracao(r, u, s, a)
      PROVE  ErrosInv'
  BY <1>4, LugarOutroPedido DEF PedirAlteracao, Tipos
<1>5. ASSUME PedirDesbloqueio(r, u) PROVE ErrosInv'
  BY <1>5, LugarOutroPedido DEF PedirDesbloqueio, Tipos
<1>6. ASSUME PedirPreferencias(r, u) PROVE ErrosInv'
  BY <1>6, LugarOutroPedido DEF PedirPreferencias, Tipos
<1>7. ASSUME PedirReativacao(r, u) PROVE ErrosInv'
  BY <1>7, LugarOutroPedido DEF PedirReativacao, Tipos
<1>8. ASSUME PedirExclusao(r, u) PROVE ErrosInv'
  BY <1>8, LugarOutroPedido DEF PedirExclusao, Tipos
<1>. QED  BY <1>1, <1>2, <1>3, <1>4, <1>5, <1>6, <1>7, <1>8, LugarLogin DEF Chegar

\* bcrypt has answered: the copy of a failed login counts one more, and is blocked if
\* that reaches the limit, as it was said when the request arrived.
LEMMA LugarComparar ==
    ASSUME ErrosInv, ContasInv', NEW r \in Reqs, Comparar(r)
    PROVE  ErrosInv'
<1>. DEFINE p == pedidos[r]
            u == p.conta
            certa == p.senha = p.copia.senha
            d == ContaComErro(p.copia)
            z == [p EXCEPT !.fase = "salvar", !.senha = NaoInformado,
                           !.tipo = IF certa THEN "acerto" ELSE "erro",
                           !.copia = IF certa THEN ContaComAcerto(p.copia) ELSE d]
<1>1. p.fase = "comparar" /\ p # Livre
  BY DEF Comparar, Livre
<1>2. p \in Pedido /\ PedidoCoerente(p) /\ u \in Usuarios
  BY <1>1, LinhaDoPedido DEF ErrosInv
<1>3. p.copia \in Conta /\ p.tipo = "login" /\ Contadores(p.copia)
  BY <1>1, <1>2, ContaConta DEF Pedido, PedidoCoerente, CopiaDoQueLeu
<1>4. pedidos' = [pedidos EXCEPT ![r] = z] /\ UNCHANGED << contas, agora, erros >>
  BY Zenon DEF Comparar
<1>5. /\ z.fase = "salvar" /\ z.tipo = IF certa THEN "acerto" ELSE "erro"
      /\ z.conta = u
      /\ ~certa => z.copia = d
  <2>. HIDE DEF d
  <2>. QED  BY <1>2 DEF Pedido
<1>6. /\ d.tentativas = p.copia.tentativas + 1
      /\ d.bloqueadoAte = IF p.copia.tentativas + 1 >= Limite THEN agora + Duracao
                          ELSE p.copia.bloqueadoAte
  BY <1>3 DEF ContaComErro, Conta
<1>7. Ameaca(p, u)
  BY <1>1, <1>3 DEF Ameaca
<1>8. CopiaDoErro(p, agora) /\ CabeUm(erros[u], contas[u], agora, p) /\ HaLugar(u)
  BY <1>2, <1>7, DaAmeaca
<1>. HIDE DEF p, d, certa, z
<1>9. ~Bloqueada(p.copia, agora) /\ Contagem(p) = p.copia.tentativas + 1
        /\ p.copia.tentativas \in Nat
  BY <1>1, <1>3, <1>8 DEF CopiaDoErro, Contagem, Contadores
<1>10. Bloqueada(d, agora) <=> p.copia.tentativas + 1 >= Limite
  <2>1. agora + Duracao > agora
    BY LimitesAssumption DEF ErrosInv, ContasInv, TypeOK
  <2>. QED  BY <2>1, <1>6, <1>9, LimitesAssumption DEF Bloqueada
<1>11. CASE certa
  <2>1. CopiaDoErro(z, agora) /\ \A w \in Usuarios : ~Ameaca(z, w)
    BY <1>5, <1>11 DEF CopiaDoErro, Ameaca
  <2>. QED  BY <1>4, <2>1, LugarSoPedido
<1>12. CASE ~certa
  <2>1. z.fase = "salvar" /\ z.tipo = "erro" /\ z.conta = u /\ z.copia = d
    BY <1>5, <1>12
  <2>2. CopiaDoErro(z, agora)
    BY <2>1, <1>6, <1>9, <1>10, LimitesAssumption DEF CopiaDoErro
  <2>3. Contagem(z) = Contagem(p) /\ ~Inerte(z) /\ ~Inerte(p)
    BY <2>1, <1>1, <1>6, <1>9 DEF Contagem, Inerte
  <2>4. /\ Fecha(z, agora) <=> Fecha(p, agora)
        /\ Abre(z, agora) <=> Abre(p, agora)
    BY <2>1, <1>1, <1>9, <1>10, LimitesAssumption DEF Fecha, Abre, GravaBloqueio
  <2>5. CabeUm(erros[u], contas[u], agora, z)
    BY <2>3, <2>4, <1>8, MesmoLugar
  <2>6. ASSUME NEW q \in Reqs \ {r}, Ameaca(pedidos[q], u)
        PROVE  /\ CabeDois(erros[u], contas[u], agora, z, pedidos[q])
               /\ CabeDois(erros[u], contas[u], agora, pedidos[q], z)
    <3>1. /\ CabeDois(erros[u], contas[u], agora, p, pedidos[q])
          /\ CabeDois(erros[u], contas[u], agora, pedidos[q], p)
      BY <1>7, <1>8, <2>6 DEF HaLugar, p
    <3>. QED  BY <2>3, <2>4, <3>1, MesmoLugar
  <2>7. \A w \in Usuarios : Ameaca(z, w) => w = u
    BY <2>1 DEF Ameaca
  <2>. QED  BY <1>4, <2>2, <2>5, <2>6, <2>7, LugarSoPedido
<1>. QED  BY <1>11, <1>12

LEMMA LugarCarregar ==
    ASSUME ErrosInv, ContasInv', NEW r \in Reqs, Carregar(r)
    PROVE  ErrosInv'
<1>. DEFINE p == pedidos[r]
            u == p.conta
            muda == { k \in Salvas(p.tipo) : p.copia[k] # contas[u][k] }
            z == [p EXCEPT !.fase = "gravar", !.muda = muda]
<1>0. p.fase = "salvar" /\ pedidos' = [pedidos EXCEPT ![r] = z]
        /\ UNCHANGED << contas, agora, erros >>
  BY DEF Carregar
<1>1. p # Livre
  BY <1>0 DEF Livre
<1>2. p \in Pedido /\ u \in Usuarios /\ CopiaDoErro(p, agora)
  BY <1>1, LinhaDoPedido DEF ErrosInv
<1>3. z.fase = "gravar" /\ z.copia = p.copia /\ z.tipo = p.tipo /\ z.conta = u
        /\ z.muda = muda
  <2>. HIDE DEF muda
  <2>. QED  BY <1>2 DEF Pedido
<1>4. p.tipo # "login"
  BY <1>0, <1>1, <1>2 DEF CopiaDoErro
<1>5. CopiaDoErro(z, agora)
  <2>. HIDE DEF z, p
  <2>. QED  BY <1>2, <1>3, <1>4 DEF CopiaDoErro
<1>6. CASE p.tipo # "erro"
  <2>. HIDE DEF z
  <2>1. \A w \in Usuarios : ~Ameaca(z, w)
    BY <1>3, <1>4, <1>6 DEF Ameaca
  <2>. QED  BY <1>0, <1>1, <1>5, <2>1, LugarSoPedido
<1>7. CASE p.tipo = "erro"
  <2>1. Ameaca(p, u)
    BY <1>0, <1>1, <1>7 DEF Ameaca
  <2>2. /\ Contadores(p.copia) /\ Contadores(contas[u]) /\ Contagem(p) >= 1
        /\ HaLugar(u) /\ CabeUm(erros[u], contas[u], agora, p)
    BY <1>2, <2>1, DaAmeaca
  <2>3. erros[u] \in Nat
    BY <1>2 DEF ErrosInv, ContasInv, TypeOK
  <2>4. muda = { k \in Colunas : p.copia[k] # contas[u][k] }
    BY <1>7 DEF Salvas
  <2>5. /\ "tentativas" \in muda <=> p.copia["tentativas"] # contas[u]["tentativas"]
        /\ "bloqueadoAte" \in muda <=> p.copia["bloqueadoAte"] # contas[u]["bloqueadoAte"]
    <3>. HIDE DEF p, u, muda
    <3>. QED  BY <2>4 DEF Colunas
  <2>. HIDE DEF z, muda, p
  <2>6. Acha(contas[u], agora, p, z)
    BY <1>0, <1>1, <1>2, <1>3, <1>7, <2>2, <2>5, SaveAcha
  <2>7. CabeUm(erros[u], contas[u], agora, z)
    BY <2>2, <2>3, <2>6, CabeOQueAcha
  <2>8. ASSUME NEW q \in Reqs \ {r}, Ameaca(pedidos[q], u)
        PROVE  /\ CabeDois(erros[u], contas[u], agora, z, pedidos[q])
               /\ CabeDois(erros[u], contas[u], agora, pedidos[q], z)
    <3>1. /\ CabeDois(erros[u], contas[u], agora, p, pedidos[q])
          /\ CabeDois(erros[u], contas[u], agora, pedidos[q], p)
      BY <2>1, <2>2, <2>8 DEF HaLugar, p
    <3>2. Contadores(pedidos[q].copia) /\ CabeUm(erros[u], contas[u], agora, pedidos[q])
      BY <1>2, <2>8, DaAmeaca
    <3>. QED  BY <2>2, <2>3, <2>6, <3>1, <3>2, CabeOQueAchaComOutro
  <2>9. \A w \in Usuarios : Ameaca(z, w) => w = u
    BY <1>3 DEF Ameaca
  <2>. QED  BY <1>0, <1>1, <1>5, <2>7, <2>8, <2>9, LugarSoPedido
<1>. QED  BY <1>6, <1>7

\* The UPDATE: one more error, or a write of another kind.
LEMMA LugarGravar ==
    ASSUME Limite >= 2, ErrosInv, ContasInv', NEW r1, NEW r2, Reqs = {r1, r2},
           NEW r \in Reqs, Gravar(r)
    PROVE  ErrosInv'
<1>. DEFINE p == pedidos[r]
            u == p.conta
            l == contas[u]
            c == [k \in Colunas |-> IF k \in p.muda THEN p.copia[k] ELSE l[k]]
<1>0. p.fase = "gravar"
  BY DEF Gravar
<1>1. p # Livre
  BY <1>0 DEF Livre
<1>2. p \in Pedido /\ PedidoCoerente(p) /\ u \in Usuarios /\ l \in Conta
        /\ CopiaDoErro(p, agora)
  BY <1>0, <1>1, LinhaDoPedido DEF ErrosInv
<1>3. p.copia \in Conta /\ p.muda \in SUBSET Colunas
  BY <1>0, <1>2 DEF Pedido, PedidoCoerente, CopiaDoQueLeu
<1>4. /\ contas' = [contas EXCEPT ![u] = c] /\ pedidos' = [pedidos EXCEPT ![r] = Livre]
      /\ agora' = agora /\ erros' = ErrosDepois(p)
  BY DEF Gravar
<1>5. erros \in [Usuarios -> Nat]
  BY DEF ErrosInv, ContasInv, TypeOK
<1>6. c \in Conta
  <2>1. c = [k \in Colunas |-> IF k \in p.muda THEN p.copia[k] ELSE l[k]]
    OBVIOUS
  <2>. HIDE DEF p, l, c
  <2>. QED  BY <1>2, <1>3, <2>1 DEF Conta, Colunas
<1>7. CASE p.tipo # "erro"
  <2>. HIDE DEF c
  <2>1. erros' = [erros EXCEPT ![u] = 0]
    BY <1>4, <1>7 DEF ErrosDepois
  <2>. QED  BY <1>2, <1>4, <1>6, <2>1, LugarRecomeca
<1>8. CASE p.tipo = "erro"
  <2>1. erros'[u] = erros[u] + 1 /\ \A w \in Usuarios \ {u} : erros'[w] = erros[w]
    BY <1>2, <1>4, <1>5, <1>8 DEF ErrosDepois
  <2>2. /\ c.tentativas = IF "tentativas" \in p.muda THEN p.copia.tentativas
                          ELSE l.tentativas
        /\ c.bloqueadoAte = IF "bloqueadoAte" \in p.muda THEN p.copia.bloqueadoAte
                            ELSE l.bloqueadoAte
    <3>. HIDE DEF p, l
    <3>. QED  BY DEF Colunas
  <2>3. Ameaca(p, u)
    BY <1>1, <1>8 DEF Ameaca
  <2>4. /\ Contadores(p.copia) /\ Contadores(l) /\ HaLugar(u)
        /\ CabeUm(erros[u], l, agora, p)
    BY <1>2, <2>3, DaAmeaca
  <2>5. erros[u] \in Nat
    BY <1>2, <1>5
  <2>. HIDE DEF c, p, l
  <2>6. Deixa(l, agora, p, c)
    BY <1>0, <1>2, <1>8, <2>2, <2>4, ErroDeixa
  <2>7. CabeSo(erros'[u], c, agora)
    BY <2>1, <2>4, <2>5, <2>6, MaisUmErro
  <2>8. ASSUME NEW q \in Reqs \ {r}, Ameaca(pedidos[q], u)
        PROVE  CabeUm(erros'[u], c, agora, pedidos[q])
    <3>1. /\ CabeDois(erros[u], l, agora, p, pedidos[q])
          /\ CabeDois(erros[u], l, agora, pedidos[q], p)
      BY <2>3, <2>4, <2>8 DEF HaLugar, p, l
    <3>2. Contadores(pedidos[q].copia) /\ CabeUm(erros[u], l, agora, pedidos[q])
      BY <1>2, <2>8, DaAmeaca DEF l
    <3>3. ~(Fecha(pedidos[q], agora) /\ Abre(pedidos[q], agora))
      BY <3>2, FechaOuAbre
    <3>4. CabeUm(erros[u] + 1, c, agora, pedidos[q])
      BY <2>4, <2>5, <2>6, <3>1, <3>2, <3>3, MaisUmErroComOutro
    <3>. QED  BY <2>1, <3>4
  <2>. QED  BY <1>2, <1>4, <2>1, <2>7, <2>8, LugarEscrita
<1>. QED  BY <1>7, <1>8

LEMMA LugarInserir ==
    ASSUME Limite >= 2, ErrosInv, ContasInv', NEW r1, NEW r2, Reqs = {r1, r2},
           NEW r \in Reqs, Inserir(r)
    PROVE  ErrosInv'
<1>. DEFINE p == pedidos[r]
<1>0. p.fase = "inserir"
  BY DEF Inserir
<1>1. p # Livre
  BY <1>0 DEF Livre
<1>2. p \in Pedido /\ PedidoCoerente(p) /\ p.conta \in Usuarios /\ CopiaDoErro(p, agora)
  BY <1>1, LinhaDoPedido DEF ErrosInv
<1>3. p.copia \in Conta
  BY <1>0, <1>2 DEF Pedido, PedidoCoerente, CopiaParaInserir
<1>4. p.tipo # "erro"
  BY <1>0, <1>2 DEF CopiaDoErro
<1>5. /\ contas' = [contas EXCEPT ![p.conta] = p.copia]
      /\ pedidos' = [pedidos EXCEPT ![r] = Livre]
      /\ agora' = agora /\ erros' = [erros EXCEPT ![p.conta] = 0]
  BY <1>4 DEF Inserir, ErrosDepois
<1>. HIDE DEF p
<1>. QED  BY <1>2, <1>3, <1>5, LugarRecomeca

LEMMA LugarExcluir ==
    ASSUME Limite >= 2, ErrosInv, ContasInv', NEW r1, NEW r2, Reqs = {r1, r2},
           NEW r \in Reqs, Excluir(r)
    PROVE  ErrosInv'
<1>. DEFINE p == pedidos[r]
            c == [contas[p.conta] EXCEPT !.deletedAt = "data"]
<1>0. p.fase = "excluir"
  BY DEF Excluir
<1>1. p # Livre
  BY <1>0 DEF Livre
<1>2. p \in Pedido /\ p.conta \in Usuarios /\ contas[p.conta] \in Conta
        /\ CopiaDoErro(p, agora)
  BY <1>0, <1>1, LinhaDoPedido DEF ErrosInv
<1>3. c \in Conta
  BY <1>2 DEF Conta
<1>4. p.tipo # "erro"
  BY <1>0, <1>2 DEF CopiaDoErro
<1>5. /\ contas' = [contas EXCEPT ![p.conta] = c]
      /\ pedidos' = [pedidos EXCEPT ![r] = Livre]
      /\ agora' = agora /\ erros' = [erros EXCEPT ![p.conta] = 0]
  BY <1>4 DEF Excluir, ErrosDepois
<1>. HIDE DEF p, c
<1>. QED  BY <1>2, <1>3, <1>5, LugarRecomeca

LEMMA LugarFalhar ==
    ASSUME ErrosInv, ContasInv', NEW r \in Reqs, Falhar(r)
    PROVE  ErrosInv'
<1>1. pedidos' = [pedidos EXCEPT ![r] = Livre] /\ UNCHANGED << contas, agora, erros >>
  BY DEF Falhar
<1>2. \A w \in Usuarios : ~Ameaca(Livre, w)
  BY DEF Ameaca
<1>. QED  BY <1>1, <1>2, LugarSoPedido

LEMMA ErrosInvInit == Init => ErrosInv
<1>. SUFFICES ASSUME Init PROVE ErrosInv
  OBVIOUS
<1>1. ContasInv
  BY ContasInvInit
<1>2. \A r \in Reqs : pedidos[r] = Livre
  BY DEF Init
<1>3. \A u \in Usuarios : ~Presente(u)
  BY DEF Init, Presente
<1>. QED  BY <1>1, <1>2, <1>3 DEF ErrosInv

LEMMA ErrosInvStep ==
    ASSUME Limite >= 2, NEW r1, NEW r2, Reqs = {r1, r2}
    PROVE  ErrosInv /\ [Next]_vars => ErrosInv'
<1>. SUFFICES ASSUME ErrosInv, [Next]_vars PROVE ErrosInv'
  OBVIOUS
<1>1. ContasInv'
  BY ContasInvStep DEF ErrosInv
<1>2. CASE Passar
  BY <1>1, <1>2, LugarPassar
<1>3. ASSUME NEW r \in Reqs, Continuar(r) PROVE ErrosInv'
  BY <1>1, <1>3, LugarComparar, LugarCarregar, LugarGravar, LugarInserir, LugarExcluir,
     LugarFalhar DEF Continuar
<1>4. ASSUME NEW r \in Reqs, NEW u \in Usuarios, Chegar(r, u) PROVE ErrosInv'
  BY <1>1, <1>4, LugarChegar
<1>5. CASE UNCHANGED vars
  BY <1>1, <1>5 DEF vars, ErrosInv, HaLugar, Presente
<1>. QED  BY <1>2, <1>3, <1>4, <1>5 DEF Next

LEMMA LugarLimita == ErrosInv => ErrosLimitados
<1>. SUFFICES ASSUME ErrosInv, NEW u \in Usuarios, Presente(u), ~IsBlocked(contas[u])
              PROVE  erros[u] <= Teto
  BY DEF ErrosLimitados
<1>1. contas[u] \in Conta /\ HaLugar(u) /\ erros[u] \in Nat
  BY LinhaPresente DEF ErrosInv, ContasInv, TypeOK
<1>2. ~Bloqueada(contas[u], agora)
  BY DEF IsBlocked, Bloqueada
<1>3. Folga(contas[u].tentativas) \in Nat
  BY <1>1, ContaConta, FolgaTipo DEF Contadores
<1>4. 2 * erros[u] + Folga(contas[u].tentativas) <= TetoDobrado
  BY <1>1, <1>2 DEF HaLugar, CabeSo, Cabe
<1>5. erros[u] <= TetoDobrado \div 2
  BY <1>1, <1>3, <1>4, TetoTipo
<1>6. Teto = TetoDobrado \div 2
  BY DEF Teto, TetoDobrado
<1>. QED  BY <1>5, <1>6

\* With two requests in progress at a time, logins, unblocks and saves in any order, no
\* more than Teto wrong passwords are counted on an account before it is blocked, as long
\* as the clock stands and nobody writes it otherwise.  For a limit of one it is false: a
\* block of one instant may be over when it is written.
THEOREM DoisClientesErramPouco ==
    ASSUME Limite >= 2, NEW r1, NEW r2, Reqs = {r1, r2}
    PROVE  Spec => []ErrosLimitados
<1>1. ErrosInv /\ [Next]_vars => ErrosInv'
  BY ErrosInvStep
<1>. QED  BY <1>1, ErrosInvInit, LugarLimita, PTL DEF Spec
=============================================================================
