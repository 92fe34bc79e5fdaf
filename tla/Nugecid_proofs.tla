--------------------------- MODULE Nugecid_proofs ---------------------------
(* Theorems about Nugecid, for every set of users, requests, bodies and rows. *)
EXTENDS NugecidSerial, TLAPS

-----------------------------------------------------------------------------
(* The operators of the domain keep a record a record. *)

\* What a request holds is told by its fase.
LEMMA PorFase ==
    ASSUME NEW p \in Pedido
    PROVE  /\ p.fase = "livre" => p = Livre
           /\ p.fase = "consultado" => p \in Consulta
           /\ p.fase \in {"editado", "insercao"} => p \in Edicao
           /\ p.fase = "atualizacao" => p \in Atualizacao
           /\ p.fase \in {"exclusao", "eliminacao", "restauracao"} => p \in Remocao
           /\ p.fase = "importacao" => p \in Importacao
BY DEF Pedido, Livre, Consulta, Edicao, Atualizacao, Remocao, Importacao

LEMMA FichaNovaTipo ==
    ASSUME NEW u \in Usuarios, NEW s \in Status, NEW resp \in Responsavel,
           NEW sag \in Data, NEW dev \in Data
    PROVE  FichaNova(u, s, resp, sag, dev) \in Ficha
BY DEF FichaNova, Ficha

LEMMA AssignTipo ==
    ASSUME NEW f \in Ficha, NEW u \in Usuarios \cup {NaoInformado}
    PROVE  /\ AssignResponsible(f, u) \in Ficha
           /\ AssignResponsible(f, u).criadoPor = f.criadoPor
BY DEF AssignResponsible, Ficha, Responsavel, Status

LEMMA ComDatasTipo ==
    ASSUME NEW f \in Ficha, NEW d \in UpdateDto
    PROVE  /\ ComDatas(f, d) \in Ficha
           /\ ComDatas(f, d).criadoPor = f.criadoPor
BY DEF ComDatas, Ficha, UpdateDto, Data

LEMMA ComStatusTipo ==
    ASSUME NEW f \in Ficha, NEW s \in Status, NEW agora \in Instantes
    PROVE  /\ ComStatus(f, s, agora) \in Ficha
           /\ ComStatus(f, s, agora).criadoPor = f.criadoPor
BY DEF ComStatus, Ficha, Data

\* applyUpdates returns a record, of the same creator.
LEMMA ApplyUpdatesTipo ==
    ASSUME NEW f \in Ficha, NEW d \in UpdateDto, NEW agora \in Instantes
    PROVE  /\ ApplyUpdates(f, d, agora) \in Ficha
           /\ ApplyUpdates(f, d, agora).criadoPor = f.criadoPor
<1>1. /\ d.responsavel \in Usuarios \cup {NaoInformado}
      /\ d.status \in Status \cup {NaoInformado}
  BY DEF UpdateDto
<1>2. /\ AntesDoStatus(f, d) \in Ficha
      /\ AntesDoStatus(f, d).criadoPor = f.criadoPor
  BY <1>1, AssignTipo, ComDatasTipo DEF AntesDoStatus
<1> QED
  BY <1>1, <1>2, ComStatusTipo DEF ApplyUpdates

LEMMA ComPadroesTipo ==
    ASSUME NEW f \in Ficha, NEW d \in UpdateDto, NEW agora \in Instantes
    PROVE  ComPadroes(f, d, agora) \in UpdateDto
BY DEF ComPadroes, UpdateDto, Data

LEMMA MesclarTipo ==
    ASSUME NEW f \in Ficha, NEW c \in Ficha, NEW cols \in SUBSET Colunas
    PROVE  /\ Mesclar(f, c, cols) \in Ficha
           /\ Mesclar(f, c, cols).excluida = f.excluida
           /\ c.criadoPor = f.criadoPor =>
                 Mesclar(f, c, cols).criadoPor = f.criadoPor
BY DEF Mesclar, Ficha

-----------------------------------------------------------------------------
(* Type correctness. *)

LEMMA TypeInit == Init => TypeOK
BY BoundsAssumption DEF Init, TypeOK, Ids, Pedido

LEMMA TypeStep == TypeOK /\ [Next]_vars => TypeOK'
<1> SUFFICES ASSUME TypeOK, [Next]_vars PROVE TypeOK'
  OBVIOUS
<1> USE BoundsAssumption, AusenteAssumption
<1>t. /\ \A id \in Ids : Presente(id) => fichas[id] \in Ficha
      /\ \A r \in Reqs : pedidos[r] \in Pedido
  BY DEF TypeOK, Presente
<1>1. CASE UNCHANGED vars
  BY <1>1 DEF TypeOK, vars
<1>2. ASSUME NEW u \in Usuarios, NEW form \in Formularios, Criar(u, form)
      PROVE  TypeOK'
  <2>1. FichaNova(u, "SOLICITADO", form.responsavel, form.sag, form.devolucao) \in Ficha
    BY FichaNovaTipo DEF Formulario, Status
  <2>2. seq' \in 0 .. MaxIds
    BY <1>2 DEF TypeOK, Criar
  <2> QED
    BY <1>2, <2>1, <2>2 DEF TypeOK, Criar
<1>3. ASSUME NEW r \in Reqs, NEW u \in Usuarios, IniciarImportacao(r, u)
      PROVE  TypeOK'
  <2>1. [ fase |-> "importacao", usuario |-> u,
          lote |-> [id \in Ids |-> Ausente] ] \in Pedido
    BY DEF Pedido, Importacao
  <2> QED
    BY <1>3, <2>1 DEF TypeOK, IniciarImportacao
<1>4. ASSUME NEW r \in Reqs, NEW u \in Usuarios, NEW id \in Ids, NEW d \in Dtos,
             Consultar(r, u, id, d)
      PROVE  TypeOK'
  <2>1. PICK agora \in Instantes :
           pedidos' = [pedidos EXCEPT ![r] =
             [ fase |-> "consultado", usuario |-> u, id |-> id,
               dto |-> ComPadroes(fichas[id], d, agora) ]]
    BY <1>4 DEF Consultar
  <2>2. ComPadroes(fichas[id], d, agora) \in UpdateDto
    BY <1>4, <1>t, ComPadroesTipo DEF Consultar, Ativa
  <2>3. [ fase |-> "consultado", usuario |-> u, id |-> id,
          dto |-> ComPadroes(fichas[id], d, agora) ] \in Pedido
    BY <2>2 DEF Pedido, Consulta
  <2> QED
    BY <1>4, <2>1, <2>3 DEF TypeOK, Consultar
<1>5. ASSUME NEW r \in Reqs, NEW u \in Usuarios, NEW id \in Ids,
             NEW fase \in {"exclusao", "eliminacao", "restauracao"},
             Reter(r, fase, u, id)
      PROVE  TypeOK'
  <2>1. [ fase |-> fase, usuario |-> u, id |-> id ] \in Pedido
    BY DEF Pedido, Remocao
  <2> QED
    BY <1>5, <2>1 DEF TypeOK, Reter
<1>6. ASSUME NEW r \in Reqs, NEW u \in Usuarios, Chegar(r, u)
      PROVE  TypeOK'
  BY <1>3, <1>4, <1>5, <1>6
     DEF Chegar, PedirExclusao, PedirEliminacao, PedirRestauracao
<1>7. ASSUME NEW r \in Reqs, NEW l \in Planilha, ImportarLinha(r, l)
      PROVE  TypeOK'
  <2>1. pedidos[r] \in Importacao
    BY <1>7, <1>t, PorFase DEF ImportarLinha
  <2>2. FichaNova(pedidos[r].usuario, l.status, Nulo, l.sag, l.devolucao) \in Ficha
    BY <2>1, FichaNovaTipo DEF LinhaPlanilha, Importacao, Responsavel
  <2>3. [pedidos[r] EXCEPT !.lote[seq + 1] =
           FichaNova(pedidos[r].usuario, l.status, Nulo, l.sag, l.devolucao)] \in Pedido
    BY <2>1, <2>2 DEF Importacao, Pedido
  <2>4. seq' \in 0 .. MaxIds
    BY <1>7 DEF TypeOK, ImportarLinha
  <2> QED
    BY <1>7, <2>3, <2>4 DEF TypeOK, ImportarLinha
<1>8. ASSUME NEW r \in Reqs, ConfirmarImportacao(r)
      PROVE  TypeOK'
  <2>1. pedidos[r] \in Importacao
    BY <1>8, <1>t, PorFase DEF ConfirmarImportacao
  <2>2. fichas' \in [Ids -> Ficha \cup {Ausente}]
    BY <1>8, <2>1 DEF TypeOK, ConfirmarImportacao, Importacao
  <2> QED
    BY <1>8, <2>2 DEF TypeOK, ConfirmarImportacao, Pedido
<1>9. ASSUME NEW r \in Reqs, Editar(r)
      PROVE  TypeOK'
  <2>1. pedidos[r] \in Consulta
    BY <1>9, <1>t, PorFase DEF Editar
  <2>2. fichas[pedidos[r].id] \in Ficha
    BY <1>9, <1>t, <2>1 DEF Editar, Ativa, Consulta
  <2>3. PICK agora \in Instantes :
           pedidos' = [pedidos EXCEPT ![r] =
             [ fase |-> "editado", usuario |-> pedidos[r].usuario,
               id |-> pedidos[r].id, lida |-> fichas[pedidos[r].id],
               copia |-> ApplyUpdates(fichas[pedidos[r].id], pedidos[r].dto, agora) ]]
    BY <1>9 DEF Editar
  <2>4. ApplyUpdates(fichas[pedidos[r].id], pedidos[r].dto, agora) \in Ficha
    BY <2>1, <2>2, ApplyUpdatesTipo DEF Consulta
  <2>5. [ fase |-> "editado", usuario |-> pedidos[r].usuario,
          id |-> pedidos[r].id, lida |-> fichas[pedidos[r].id],
          copia |-> ApplyUpdates(fichas[pedidos[r].id], pedidos[r].dto, agora) ] \in Pedido
    BY <2>1, <2>2, <2>4 DEF Consulta, Edicao, Pedido
  <2> QED
    BY <1>9, <2>3, <2>5 DEF TypeOK, Editar
<1>10. ASSUME NEW r \in Reqs, Carregar(r)
       PROVE  TypeOK'
  <2>1. pedidos[r] \in Edicao
    BY <1>10, <1>t, PorFase DEF Carregar
  <2>2. Diferentes(pedidos[r].copia, fichas[pedidos[r].id]) \in SUBSET Colunas
    BY DEF Diferentes
  <2>3. [ fase |-> "atualizacao", usuario |-> pedidos[r].usuario,
          id |-> pedidos[r].id, lida |-> pedidos[r].lida,
          copia |-> pedidos[r].copia,
          colunas |-> Diferentes(pedidos[r].copia, fichas[pedidos[r].id]) ] \in Pedido
    BY <2>1, <2>2 DEF Edicao, Atualizacao, Pedido
  <2>4. [pedidos[r] EXCEPT !.fase = "insercao"] \in Pedido
    BY <2>1 DEF Edicao, Pedido
  <2> QED
    BY <1>10, <2>3, <2>4 DEF TypeOK, Carregar
<1>11. ASSUME NEW r \in Reqs, Atualizar(r)
       PROVE  TypeOK'
  <2>1. pedidos[r] \in Atualizacao
    BY <1>11, <1>t, PorFase DEF Atualizar
  <2>2. Presente(pedidos[r].id) =>
           Mesclar(fichas[pedidos[r].id], pedidos[r].copia, pedidos[r].colunas) \in Ficha
    BY <1>t, <2>1, MesclarTipo DEF Atualizacao
  <2> QED
    BY <1>11, <2>1, <2>2 DEF TypeOK, Atualizar, Atualizacao, Pedido
<1>12. ASSUME NEW r \in Reqs, Inserir(r)
       PROVE  TypeOK'
  <2>1. pedidos[r] \in Edicao
    BY <1>12, <1>t, PorFase DEF Inserir
  <2>2. [pedidos[r].copia EXCEPT !.excluida = FALSE] \in Ficha
    BY <2>1 DEF Edicao, Ficha
  <2> QED
    BY <1>12, <2>1, <2>2 DEF TypeOK, Inserir, Edicao, Pedido
<1>13. ASSUME NEW r \in Reqs, Excluir(r) \/ Eliminar(r) \/ Restaurar(r)
       PROVE  TypeOK'
  <2>1. pedidos[r] \in Remocao
    BY <1>13, <1>t, PorFase DEF Excluir, Eliminar, Restaurar
  <2>2. Presente(pedidos[r].id) =>
           \A b \in BOOLEAN : [fichas[pedidos[r].id] EXCEPT !.excluida = b] \in Ficha
    BY <1>t, <2>1 DEF Remocao, Ficha
  <2>3. fichas' \in [Ids -> Ficha \cup {Ausente}]
    BY <1>13, <2>1, <2>2 DEF TypeOK, Excluir, Eliminar, Restaurar, Remocao
  <2> QED
    BY <1>13, <2>3 DEF TypeOK, Excluir, Eliminar, Restaurar, Pedido
<1>14. ASSUME NEW r \in Reqs, Falhar(r)
       PROVE  TypeOK'
  BY <1>14 DEF TypeOK, Falhar, Pedido
<1>15. ASSUME NEW r \in Reqs, Continuar(r)
       PROVE  TypeOK'
  BY <1>7, <1>8, <1>9, <1>10, <1>11, <1>12, <1>13, <1>14, <1>15 DEF Continuar
<1> QED
  BY <1>1, <1>2, <1>6, <1>15 DEF Next

\* The table and the requests in progress hold only what the code can build.
THEOREM TypeCorrect == Spec => []TypeOK
BY TypeInit, TypeStep, PTL DEF Spec

-----------------------------------------------------------------------------
(* Ids. *)

\* Which ids each shape of request refers to.
LEMMA ReferidosPorForma ==
    /\ Referidos(Livre) = {}
    /\ \A p \in Consulta \cup Edicao \cup Atualizacao \cup Remocao :
          Referidos(p) = {p.id}
    /\ \A p \in Importacao : Referidos(p) = { id \in Ids : p.lote[id] # Ausente }
BY DEF Referidos, Livre, Consulta, Edicao, Atualizacao, Remocao, Importacao

LEMMA IdUnicoInit == Init => IdUnico
BY DEF Init, IdUnico, IdNaoEmitidoLivre, IdImportadoReservado, Referidos, Livre,
       Presente

\* A step of one request that draws no id keeps ids unique when the request comes
\* to know only ids it knew or saw in the table, and puts into the table only ids
\* it knew.
LEMMA PassoDeUm ==
    ASSUME IdUnico, NEW r \in Reqs,
           \A s \in Reqs \ {r} : pedidos'[s] = pedidos[s],
           seq' = seq,
           pedidos'[r].fase = "importacao" => Referidos(pedidos'[r]) = {},
           \A id \in Referidos(pedidos'[r]) :
              id \in Referidos(pedidos[r]) \/ Presente(id),
           \A id \in Ids :
              fichas'[id] # Ausente =>
                 Presente(id) \/ id \in Referidos(pedidos[r])
    PROVE  IdUnico'
<1>1. IdNaoEmitidoLivre'
  BY DEF IdUnico, IdNaoEmitidoLivre, Presente
<1>2. ASSUME NEW s \in Reqs, pedidos'[s].fase = "importacao",
             NEW id \in Referidos(pedidos'[s])
      PROVE  /\ ~(fichas'[id] # Ausente)
             /\ \A t \in Reqs \ {s} : id \notin Referidos(pedidos'[t])
  <2>1. s # r
    BY <1>2
  <2>2. /\ pedidos[s].fase = "importacao" /\ id \in Referidos(pedidos[s])
        /\ ~Presente(id)
        /\ \A t \in Reqs \ {s} : id \notin Referidos(pedidos[t])
    BY <1>2, <2>1 DEF IdUnico, IdImportadoReservado
  <2>3. id \in Ids
    BY <2>2 DEF Referidos
  <2> QED
    BY <2>1, <2>2, <2>3
<1>3. IdImportadoReservado'
  BY <1>2 DEF IdImportadoReservado, Presente
<1> QED
  BY <1>1, <1>3 DEF IdUnico

LEMMA IdUnicoStep == TypeOK /\ IdUnico /\ [Next]_vars => IdUnico'
<1> SUFFICES ASSUME TypeOK, IdUnico, [Next]_vars PROVE IdUnico'
  OBVIOUS
<1> USE BoundsAssumption, AusenteAssumption
<1>t. /\ fichas \in [Ids -> Ficha \cup {Ausente}]
      /\ seq \in 0 .. MaxIds
      /\ DOMAIN pedidos = Reqs
      /\ \A r \in Reqs : pedidos[r] \in Pedido
  BY DEF TypeOK
<1>l. Referidos(Livre) = {} /\ Livre.fase = "livre"
  BY ReferidosPorForma DEF Livre
<1>1. CASE UNCHANGED vars
  BY <1>1 DEF vars, IdUnico, IdNaoEmitidoLivre, IdImportadoReservado, Presente
<1>2. ASSUME NEW u \in Usuarios, NEW form \in Formularios, Criar(u, form)
      PROVE  IdUnico'
  <2>1. /\ seq + 1 \in Ids
        /\ \A r \in Reqs : seq + 1 \notin Referidos(pedidos[r])
    BY <1>2, <1>t DEF Criar, Ids, IdUnico, IdNaoEmitidoLivre
  <2>2. \A id \in Ids \ {seq + 1} : fichas'[id] = fichas[id]
    BY <1>2, <1>t DEF Criar
  <2>3. IdNaoEmitidoLivre'
    BY <1>2, <1>t, <2>2 DEF Criar, Ids, IdUnico, IdNaoEmitidoLivre, Presente
  <2>4. \A r \in Reqs : Referidos(pedidos[r]) \subseteq Ids \/ pedidos[r].fase # "importacao"
    BY DEF Referidos
  <2>5. IdImportadoReservado'
    BY <1>2, <2>1, <2>2, <2>4 DEF Criar, IdUnico, IdImportadoReservado, Presente
  <2> QED
    BY <2>3, <2>5 DEF IdUnico
<1>3. ASSUME NEW r \in Reqs, NEW u \in Usuarios, IniciarImportacao(r, u)
      PROVE  IdUnico'
  <2>1. /\ \A s \in Reqs \ {r} : pedidos'[s] = pedidos[s]
        /\ Referidos(pedidos'[r]) = {}
    BY <1>3, <1>t DEF IniciarImportacao, Referidos
  <2> QED
    BY <1>3, <2>1, PassoDeUm DEF IniciarImportacao, Presente
<1>4. ASSUME NEW r \in Reqs, NEW u \in Usuarios, NEW id \in Ids, NEW d \in Dtos,
             Consultar(r, u, id, d)
      PROVE  IdUnico'
  <2>1. /\ \A s \in Reqs \ {r} : pedidos'[s] = pedidos[s]
        /\ pedidos'[r].fase = "consultado" /\ pedidos'[r].id = id
    BY <1>4, <1>t DEF Consultar
  <2>2. Referidos(pedidos'[r]) = {id} /\ Presente(id)
    BY <1>4, <2>1 DEF Referidos, Consultar, Ativa
  <2> QED
    BY <1>4, <2>1, <2>2, PassoDeUm DEF Consultar, Presente
<1>5. ASSUME NEW r \in Reqs, NEW u \in Usuarios, NEW id \in Ids,
             NEW fase \in {"exclusao", "eliminacao", "restauracao"},
             Presente(id), Reter(r, fase, u, id)
      PROVE  IdUnico'
  <2>1. /\ \A s \in Reqs \ {r} : pedidos'[s] = pedidos[s]
        /\ pedidos'[r].fase = fase /\ pedidos'[r].id = id
    BY <1>5, <1>t DEF Reter
  <2>2. Referidos(pedidos'[r]) = {id}
    BY <2>1 DEF Referidos
  <2> QED
    BY <1>5, <2>1, <2>2, PassoDeUm DEF Reter, Presente
<1>6. ASSUME NEW r \in Reqs, NEW u \in Usuarios, Chegar(r, u)
      PROVE  IdUnico'
  BY <1>3, <1>4, <1>5, <1>6
     DEF Chegar, PedirExclusao, PedirEliminacao, PedirRestauracao, Ativa
<1>7. ASSUME NEW r \in Reqs, NEW l \in Planilha, ImportarLinha(r, l)
      PROVE  IdUnico'
  <2> DEFINE n == seq + 1
             q == pedidos'[r]
  <2>1. /\ n \in Ids /\ seq' = n /\ fichas' = fichas
        /\ ~Presente(n)
        /\ \A s \in Reqs : n \notin Referidos(pedidos[s])
    BY <1>7, <1>t DEF ImportarLinha, Ids, IdUnico, IdNaoEmitidoLivre
  <2>2. pedidos[r] \in Importacao
    BY <1>7, <1>t, PorFase DEF ImportarLinha
  <2>3. /\ \A s \in Reqs \ {r} : pedidos'[s] = pedidos[s]
        /\ q.fase = "importacao"
        /\ \A id \in Ids \ {n} : q.lote[id] = pedidos[r].lote[id]
    BY <1>7, <1>t, <2>2 DEF ImportarLinha, Importacao
  <2>4. Referidos(q) \subseteq Referidos(pedidos[r]) \cup {n}
    BY <1>7, <2>3 DEF Referidos, ImportarLinha
  <2> HIDE DEF q
  <2>5. IdNaoEmitidoLivre'
    BY <1>t, <2>1, <2>3, <2>4 DEF IdUnico, IdNaoEmitidoLivre, Presente, Ids, q
  <2>6. IdImportadoReservado'
    BY <1>7, <2>1, <2>3, <2>4
       DEF IdUnico, IdImportadoReservado, Presente, q, ImportarLinha
  <2> QED
    BY <2>5, <2>6 DEF IdUnico
<1>8. ASSUME NEW r \in Reqs, ConfirmarImportacao(r)
      PROVE  IdUnico'
  <2>1. \A id \in Ids : fichas'[id] # Ausente =>
           Presente(id) \/ id \in Referidos(pedidos[r])
    BY <1>8 DEF ConfirmarImportacao, Presente, Referidos
  <2>2. \A s \in Reqs \ {r} : pedidos'[s] = pedidos[s]
    BY <1>8, <1>t DEF ConfirmarImportacao
  <2>3. pedidos'[r] = Livre
    BY <1>8, <1>t DEF ConfirmarImportacao
  <2> QED
    BY <1>8, <1>l, <2>1, <2>2, <2>3, PassoDeUm DEF ConfirmarImportacao
<1>9. ASSUME NEW r \in Reqs, Editar(r) \/ Carregar(r)
      PROVE  IdUnico'
  <2>1. pedidos[r] \in Consulta \cup Edicao
    BY <1>9, <1>t, PorFase DEF Editar, Carregar
  <2>2. /\ \A s \in Reqs \ {r} : pedidos'[s] = pedidos[s]
        /\ pedidos'[r].fase \in ComCopia /\ pedidos'[r].id = pedidos[r].id
    <3>1. CASE Editar(r)
      BY <3>1, <1>t DEF Editar, ComCopia
    <3>2. CASE Carregar(r)
      <4>1. pedidos[r] \in Edicao
        BY <3>2, <1>t, PorFase DEF Carregar
      <4>2. /\ [pedidos[r] EXCEPT !.fase = "insercao"].fase = "insercao"
            /\ [pedidos[r] EXCEPT !.fase = "insercao"].id = pedidos[r].id
        BY <4>1 DEF Edicao
      <4> QED
        BY <3>2, <4>2, <1>t DEF Carregar, ComCopia
    <3> QED
      BY <1>9, <3>1, <3>2
  <2>3. Referidos(pedidos'[r]) \subseteq Referidos(pedidos[r])
    BY <2>1, <2>2 DEF Referidos, ComCopia, Consulta, Edicao
  <2> QED
    BY <1>9, <2>2, <2>3, PassoDeUm DEF Editar, Carregar, ComCopia, Presente
<1>10. ASSUME NEW r \in Reqs,
              Atualizar(r) \/ Inserir(r) \/ Excluir(r) \/ Eliminar(r)
                \/ Restaurar(r) \/ Falhar(r)
       PROVE  IdUnico'
  <2>1. /\ \A s \in Reqs \ {r} : pedidos'[s] = pedidos[s]
        /\ pedidos'[r] = Livre /\ seq' = seq
    BY <1>10, <1>t DEF Atualizar, Inserir, Excluir, Eliminar, Restaurar, Falhar
  <2>2. \A id \in Ids : fichas'[id] # Ausente =>
           Presente(id) \/ id \in Referidos(pedidos[r])
    <3>1. CASE Inserir(r)
      BY <3>1, <1>t DEF Inserir, Presente, Referidos
    <3>2. CASE Atualizar(r)
      BY <3>2, <1>t DEF Atualizar, Presente
    <3>3. CASE Excluir(r)
      BY <3>3, <1>t DEF Excluir, Presente
    <3>4. CASE Eliminar(r) \/ Falhar(r)
      BY <3>4, <1>t DEF Eliminar, Falhar, Presente
    <3>5. CASE Restaurar(r)
      BY <3>5, <1>t DEF Restaurar, Presente
    <3> QED
      BY <1>10, <3>1, <3>2, <3>3, <3>4, <3>5
  <2> QED
    BY <1>l, <2>1, <2>2, PassoDeUm
<1>11. ASSUME NEW r \in Reqs, Continuar(r)
       PROVE  IdUnico'
  BY <1>7, <1>8, <1>9, <1>10, <1>11 DEF Continuar
<1> QED
  BY <1>1, <1>2, <1>6, <1>11 DEF Next

\* No id is ever given to two records.
THEOREM IdsUnicos == Spec => []IdUnico
<1>1. TypeOK /\ IdUnico /\ [Next]_vars => (TypeOK /\ IdUnico)'
  BY TypeStep, IdUnicoStep
<1> QED
  BY <1>1, TypeInit, IdUnicoInit, PTL DEF Spec

-----------------------------------------------------------------------------
(* The creator of a record. *)

LEMMA CriadorInit == Init => CriadorPreservado
BY DEF Init, CriadorPreservado, Livre, ComCopia

LEMMA CriadorStep ==
    TypeOK /\ IdUnico /\ CriadorPreservado /\ [Next]_vars => CriadorPreservado'
<1> SUFFICES ASSUME TypeOK, IdUnico, CriadorPreservado, [Next]_vars
             PROVE  CriadorPreservado'
  OBVIOUS
<1> USE BoundsAssumption, AusenteAssumption
<1>t. /\ fichas \in [Ids -> Ficha \cup {Ausente}]
      /\ seq \in 0 .. MaxIds
      /\ DOMAIN pedidos = Reqs
      /\ \A r \in Reqs : pedidos[r] \in Pedido
      /\ \A id \in Ids : Presente(id) => fichas[id] \in Ficha
  BY DEF TypeOK, Presente
\* Whoever carries a copy refers to its id, so the id was issued.
<1>c. \A r \in Reqs : pedidos[r].fase \in ComCopia =>
         /\ pedidos[r].id \in Ids
         /\ pedidos[r].id \in Referidos(pedidos[r])
         /\ pedidos[r].copia \in Ficha
  <2>1. \A r \in Reqs : pedidos[r].fase \in ComCopia =>
           pedidos[r] \in Edicao \cup Atualizacao
    BY <1>t, PorFase DEF ComCopia
  <2> QED
    BY <2>1 DEF Referidos, ComCopia, Edicao, Atualizacao
<1>l. Livre.fase \notin ComCopia
  BY DEF Livre, ComCopia
<1>1. CASE UNCHANGED vars
  BY <1>1 DEF vars, CriadorPreservado, Presente
<1>2. ASSUME NEW u \in Usuarios, NEW form \in Formularios, Criar(u, form)
      PROVE  CriadorPreservado'
  <2>1. \A r \in Reqs : seq + 1 \notin Referidos(pedidos[r])
    BY <1>2, <1>t DEF Criar, Ids, IdUnico, IdNaoEmitidoLivre
  <2>2. \A id \in Ids \ {seq + 1} : fichas'[id] = fichas[id]
    BY <1>2, <1>t DEF Criar
  <2> QED
    BY <1>2, <1>c, <2>1, <2>2 DEF Criar, CriadorPreservado, Presente
\* A request that carries no copy after the step adds none.
<1>3. ASSUME NEW r \in Reqs, UNCHANGED fichas,
             \A s \in Reqs \ {r} : pedidos'[s] = pedidos[s],
             pedidos'[r].fase \notin ComCopia
      PROVE  CriadorPreservado'
  BY <1>3 DEF CriadorPreservado, Presente
<1>4. ASSUME NEW r \in Reqs, NEW u \in Usuarios, Chegar(r, u)
      PROVE  CriadorPreservado'
  <2>1. UNCHANGED fichas /\ \A s \in Reqs \ {r} : pedidos'[s] = pedidos[s]
    BY <1>4, <1>t DEF Chegar, IniciarImportacao, Consultar, PedirExclusao,
                      PedirEliminacao, PedirRestauracao, Reter
  <2>2. pedidos'[r].fase \notin ComCopia
    BY <1>4, <1>t DEF Chegar, IniciarImportacao, Consultar, PedirExclusao,
                      PedirEliminacao, PedirRestauracao, Reter, ComCopia
  <2> QED
    BY <1>3, <2>1, <2>2
<1>5. ASSUME NEW r \in Reqs, NEW l \in Planilha, ImportarLinha(r, l)
      PROVE  CriadorPreservado'
  <2>1. pedidos[r] \in Importacao
    BY <1>5, <1>t, PorFase DEF ImportarLinha
  <2>2. pedidos'[r].fase = "importacao"
    BY <1>5, <1>t, <2>1 DEF ImportarLinha, Importacao
  <2> QED
    BY <1>3, <1>5, <1>t, <2>2 DEF ImportarLinha, ComCopia
<1>6. ASSUME NEW r \in Reqs, ConfirmarImportacao(r)
      PROVE  CriadorPreservado'
  <2>1. /\ \A s \in Reqs \ {r} : pedidos'[s] = pedidos[s]
        /\ pedidos'[r] = Livre
        /\ \A id \in Ids \ Referidos(pedidos[r]) : fichas'[id] = fichas[id]
    BY <1>6, <1>t DEF ConfirmarImportacao, Referidos
  <2>2. \A s \in Reqs \ {r} : pedidos[s].fase \in ComCopia =>
           pedidos[s].id \notin Referidos(pedidos[r])
    BY <1>6, <1>c DEF ConfirmarImportacao, IdUnico, IdImportadoReservado
  <2> QED
    BY <1>c, <1>l, <2>1, <2>2 DEF CriadorPreservado, Presente
<1>7. ASSUME NEW r \in Reqs, Editar(r)
      PROVE  CriadorPreservado'
  <2>1. pedidos[r] \in Consulta /\ fichas[pedidos[r].id] \in Ficha
        /\ Presente(pedidos[r].id)
    BY <1>7, <1>t, PorFase DEF Editar, Ativa, Consulta
  <2>2. \A agora \in Instantes :
           ApplyUpdates(fichas[pedidos[r].id], pedidos[r].dto, agora).criadoPor
              = fichas[pedidos[r].id].criadoPor
    BY <2>1, ApplyUpdatesTipo DEF Consulta
  <2>3. /\ \A s \in Reqs \ {r} : pedidos'[s] = pedidos[s]
        /\ pedidos'[r].id = pedidos[r].id
        /\ pedidos'[r].copia.criadoPor = fichas[pedidos[r].id].criadoPor
        /\ fichas' = fichas
    BY <1>7, <1>t, <2>2 DEF Editar
  <2> QED
    BY <2>1, <2>3 DEF CriadorPreservado, Presente
<1>8. ASSUME NEW r \in Reqs, Carregar(r)
      PROVE  CriadorPreservado'
  <2>1. pedidos[r] \in Edicao
    BY <1>8, <1>t, PorFase DEF Carregar
  <2>2. LET q == [pedidos[r] EXCEPT !.fase = "insercao"]
        IN  q.id = pedidos[r].id /\ q.copia = pedidos[r].copia
    BY <2>1 DEF Edicao
  <2>3. /\ \A s \in Reqs \ {r} : pedidos'[s] = pedidos[s]
        /\ pedidos'[r].id = pedidos[r].id
        /\ pedidos'[r].copia = pedidos[r].copia
        /\ fichas' = fichas
    BY <1>8, <1>t, <2>2 DEF Carregar
  <2>4. pedidos[r].fase \in ComCopia
    BY <1>8 DEF Carregar, ComCopia
  <2> QED
    BY <2>3, <2>4 DEF CriadorPreservado, Presente
\* The requests that write a row or fail carry no copy afterwards; the row they
\* leave, if any, has the creator of the row or of the copy they started from.
<1>9. ASSUME NEW r \in Reqs,
             Atualizar(r) \/ Inserir(r) \/ Excluir(r) \/ Eliminar(r)
               \/ Restaurar(r) \/ Falhar(r)
      PROVE  CriadorPreservado'
  <2>1. /\ \A s \in Reqs \ {r} : pedidos'[s] = pedidos[s]
        /\ pedidos'[r] = Livre
    BY <1>9, <1>t DEF Atualizar, Inserir, Excluir, Eliminar, Restaurar, Falhar
  <2>2. \A id \in Ids : fichas'[id] # Ausente =>
           \/ Presente(id) /\ fichas'[id].criadoPor = fichas[id].criadoPor
           \/ /\ pedidos[r].fase \in ComCopia /\ pedidos[r].id = id
              /\ fichas'[id].criadoPor = pedidos[r].copia.criadoPor
    <3>1. CASE Atualizar(r)
      <4>1. pedidos[r] \in Atualizacao
        BY <3>1, <1>t, PorFase DEF Atualizar
      <4>2. Presente(pedidos[r].id) =>
               Mesclar(fichas[pedidos[r].id], pedidos[r].copia,
                       pedidos[r].colunas).criadoPor
                  = fichas[pedidos[r].id].criadoPor
        BY <3>1, <4>1, <1>t, MesclarTipo
           DEF Atualizar, Atualizacao, CriadorPreservado, ComCopia
      <4> QED
        BY <3>1, <4>2, <1>t DEF Atualizar, Presente
    <3>2. CASE Inserir(r)
      <4>1. [pedidos[r].copia EXCEPT !.excluida = FALSE].criadoPor
               = pedidos[r].copia.criadoPor
        BY <3>2, <1>c DEF Inserir, ComCopia, Ficha
      <4> QED
        BY <3>2, <4>1, <1>t DEF Inserir, Presente, ComCopia
    <3>3. CASE Excluir(r) \/ Restaurar(r)
      <4>1. \A id \in Ids : Presente(id) =>
               \A b \in BOOLEAN :
                  [fichas[id] EXCEPT !.excluida = b].criadoPor = fichas[id].criadoPor
        BY <1>t DEF Ficha
      <4> QED
        BY <3>3, <4>1, <1>t DEF Excluir, Restaurar, Presente
    <3>4. CASE Eliminar(r) \/ Falhar(r)
      BY <3>4, <1>t DEF Eliminar, Falhar, Presente
    <3> QED
      BY <1>9, <3>1, <3>2, <3>3, <3>4
  <2> QED
    BY <1>c, <1>l, <2>1, <2>2 DEF CriadorPreservado, Presente
<1>10. ASSUME NEW r \in Reqs, Continuar(r)
       PROVE  CriadorPreservado'
  BY <1>5, <1>6, <1>7, <1>8, <1>9, <1>10 DEF Continuar
<1> QED
  BY <1>1, <1>2, <1>4, <1>10 DEF Next

\* Stale copies never disagree with the row, or with each other, about the creator.
THEOREM CriadorUnico == Spec => []CriadorPreservado
<1>1. TypeOK /\ IdUnico /\ CriadorPreservado /\ [Next]_vars
         => (TypeOK /\ IdUnico /\ CriadorPreservado)'
  BY TypeStep, IdUnicoStep, CriadorStep
<1> QED
  BY <1>1, TypeInit, IdUnicoInit, CriadorInit, PTL DEF Spec

-----------------------------------------------------------------------------
(* Permissions: what a request was allowed when it read. *)

\* A request that carries a copy was allowed to edit the row it read; one that
\* restores is an administrator's.
Autorizado ==
    \A r \in Reqs :
       /\ pedidos[r].fase \in ComCopia =>
             CanBeEditedBy(pedidos[r].lida, pedidos[r].usuario)
       /\ pedidos[r].fase = "restauracao" => Admin(pedidos[r].usuario)

LEMMA AutorizadoInit == Init => Autorizado
BY DEF Init, Autorizado, Livre, ComCopia

LEMMA AutorizadoStep == TypeOK /\ Autorizado /\ [Next]_vars => Autorizado'
<1> SUFFICES ASSUME TypeOK, Autorizado, [Next]_vars PROVE Autorizado'
  OBVIOUS
<1>t. DOMAIN pedidos = Reqs /\ \A r \in Reqs : pedidos[r] \in Pedido
  BY DEF TypeOK
<1>1. CASE UNCHANGED vars
  BY <1>1 DEF vars, Autorizado
\* Enough to look at the request that moves.
<1>2. ASSUME NEW r \in Reqs,
             \A s \in Reqs \ {r} : pedidos'[s] = pedidos[s],
             pedidos'[r].fase \in ComCopia =>
                CanBeEditedBy(pedidos'[r].lida, pedidos'[r].usuario),
             pedidos'[r].fase = "restauracao" => Admin(pedidos'[r].usuario)
      PROVE  Autorizado'
  BY <1>2 DEF Autorizado
<1>3. ASSUME NEW u \in Usuarios, NEW form \in Formularios, Criar(u, form)
      PROVE  Autorizado'
  BY <1>3 DEF Criar, Autorizado
<1>4. ASSUME NEW r \in Reqs, NEW u \in Usuarios, Chegar(r, u)
      PROVE  Autorizado'
  BY <1>2, <1>4, <1>t
     DEF Chegar, IniciarImportacao, Consultar, PedirExclusao, PedirEliminacao,
         PedirRestauracao, Reter, ComCopia
<1>5. ASSUME NEW r \in Reqs, NEW l \in Planilha, ImportarLinha(r, l)
      PROVE  Autorizado'
  <2>1. pedidos[r] \in Importacao
    BY <1>5, <1>t, PorFase DEF ImportarLinha
  <2>2. pedidos'[r].fase = "importacao"
    BY <1>5, <1>t, <2>1 DEF ImportarLinha, Importacao
  <2> QED
    BY <1>2, <1>5, <1>t, <2>2 DEF ImportarLinha, ComCopia
<1>6. ASSUME NEW r \in Reqs, Editar(r)
      PROVE  Autorizado'
  BY <1>2, <1>6, <1>t DEF Editar
<1>7. ASSUME NEW r \in Reqs, Carregar(r)
      PROVE  Autorizado'
  <2>1. pedidos[r] \in Edicao
    BY <1>7, <1>t, PorFase DEF Carregar
  <2>2. LET q == [pedidos[r] EXCEPT !.fase = "insercao"]
        IN  /\ q.fase = "insercao" /\ q.usuario = pedidos[r].usuario
            /\ q.lida = pedidos[r].lida
    BY <2>1 DEF Edicao
  <2>3. /\ \A s \in Reqs \ {r} : pedidos'[s] = pedidos[s]
        /\ pedidos'[r].fase \in {"atualizacao", "insercao"}
        /\ pedidos'[r].usuario = pedidos[r].usuario
        /\ pedidos'[r].lida = pedidos[r].lida
    BY <1>7, <1>t, <2>2 DEF Carregar
  <2>4. CanBeEditedBy(pedidos[r].lida, pedidos[r].usuario)
    BY <1>7 DEF Carregar, Autorizado, ComCopia
  <2> QED
    BY <1>2, <2>3, <2>4
<1>8. ASSUME NEW r \in Reqs,
             ConfirmarImportacao(r) \/ Atualizar(r) \/ Inserir(r) \/ Excluir(r)
               \/ Eliminar(r) \/ Restaurar(r) \/ Falhar(r)
      PROVE  Autorizado'
  <2>1. /\ \A s \in Reqs \ {r} : pedidos'[s] = pedidos[s]
        /\ pedidos'[r].fase = "livre"
    BY <1>8, <1>t DEF ConfirmarImportacao, Atualizar, Inserir, Excluir, Eliminar,
                      Restaurar, Falhar, Livre
  <2> QED
    BY <1>2, <2>1 DEF ComCopia
<1>9. ASSUME NEW r \in Reqs, Continuar(r)
      PROVE  Autorizado'
  BY <1>5, <1>6, <1>7, <1>8, <1>9 DEF Continuar
<1> QED
  BY <1>1, <1>3, <1>4, <1>9 DEF Next

\* What every step keeps.
IInv == TypeOK /\ IdUnico /\ Autorizado

LEMMA Invariante == Spec => []IInv
<1>1. Init => IInv
  BY TypeInit, IdUnicoInit, AutorizadoInit DEF IInv
<1>2. IInv /\ [Next]_vars => IInv'
  BY TypeStep, IdUnicoStep, AutorizadoStep DEF IInv
<1> QED
  BY <1>1, <1>2, PTL DEF Spec

-----------------------------------------------------------------------------
(* Which steps touch a row that stays a row. *)

\* A row that is there before and after a step of Next is unchanged by it, or it
\* is the row the moving request is about: written by a PATCH, put in the trash
\* or taken out of it.
LEMMA QuemEscreve ==
    ASSUME IInv, Next, NEW id \in Ids, Presente(id), fichas'[id] # Ausente
    PROVE  \/ fichas'[id] = fichas[id]
           \/ \E r \in Reqs :
                 /\ pedidos[r].id = id /\ pedidos'[r] = Livre
                 /\ \/ Atualizar(r)
                       /\ fichas'[id] = Mesclar(fichas[id], pedidos[r].copia,
                                                pedidos[r].colunas)
                    \/ Excluir(r) /\ fichas'[id] = [fichas[id] EXCEPT !.excluida = TRUE]
                    \/ Restaurar(r) /\ fichas'[id] = [fichas[id] EXCEPT !.excluida = FALSE]
<1> USE BoundsAssumption, AusenteAssumption
<1>t. /\ fichas \in [Ids -> Ficha \cup {Ausente}]
      /\ seq \in 0 .. MaxIds
      /\ DOMAIN pedidos = Reqs
  BY DEF IInv, TypeOK
<1>1. ASSUME NEW u \in Usuarios, NEW form \in Formularios, Criar(u, form)
      PROVE  fichas'[id] = fichas[id]
  BY <1>1, <1>t DEF Criar, IInv, IdUnico, IdNaoEmitidoLivre, Ids
<1>2. ASSUME NEW r \in Reqs, NEW u \in Usuarios, Chegar(r, u)
      PROVE  fichas'[id] = fichas[id]
  BY <1>2 DEF Chegar, IniciarImportacao, Consultar, PedirExclusao, PedirEliminacao,
              PedirRestauracao, Reter
<1>3. ASSUME NEW r \in Reqs, ConfirmarImportacao(r)
      PROVE  fichas'[id] = fichas[id]
  <2>1. id \notin Referidos(pedidos[r])
    BY <1>3 DEF ConfirmarImportacao, IInv, IdUnico, IdImportadoReservado
  <2> QED
    BY <1>3, <2>1, <1>t DEF ConfirmarImportacao, Referidos
<1>4. ASSUME NEW r \in Reqs,
             Editar(r) \/ Carregar(r) \/ Falhar(r)
               \/ \E l \in Planilha : ImportarLinha(r, l)
      PROVE  fichas'[id] = fichas[id]
  BY <1>4 DEF Editar, Carregar, Falhar, ImportarLinha
<1>5. ASSUME NEW r \in Reqs, Inserir(r) \/ Eliminar(r)
      PROVE  fichas'[id] = fichas[id]
  BY <1>5, <1>t DEF Inserir, Eliminar, Presente
<1>6. ASSUME NEW r \in Reqs, Atualizar(r)
      PROVE  \/ fichas'[id] = fichas[id]
             \/ /\ pedidos[r].id = id /\ pedidos'[r] = Livre
                /\ fichas'[id] = Mesclar(fichas[id], pedidos[r].copia,
                                         pedidos[r].colunas)
  BY <1>6, <1>t DEF Atualizar
<1>7. ASSUME NEW r \in Reqs, Excluir(r)
      PROVE  \/ fichas'[id] = fichas[id]
             \/ /\ pedidos[r].id = id /\ pedidos'[r] = Livre
                /\ fichas'[id] = [fichas[id] EXCEPT !.excluida = TRUE]
  BY <1>7, <1>t DEF Excluir
<1>8. ASSUME NEW r \in Reqs, Restaurar(r)
      PROVE  \/ fichas'[id] = fichas[id]
             \/ /\ pedidos[r].id = id /\ pedidos'[r] = Livre
                /\ fichas'[id] = [fichas[id] EXCEPT !.excluida = FALSE]
  BY <1>8, <1>t DEF Restaurar
<1>9. CASE \E r \in Reqs : Continuar(r)
  <2>1. PICK r \in Reqs : Continuar(r)
    BY <1>9
  <2> QED
    BY <2>1, <1>3, <1>4, <1>5, <1>6, <1>7, <1>8 DEF Continuar
<1> QED
  BY <1>1, <1>2, <1>9 DEF Next

-----------------------------------------------------------------------------
(* The two action properties. *)

\* A finished record reopens only by an administrator or by a stale read.
THEOREM ReaberturaJustificada == Spec => FinalSoPorAdminOuLeituraAntiga
<1>1. ASSUME IInv, [Next]_vars, NEW id \in Ids, DeixaFinal(id)
      PROVE  \E r \in Reqs :
                /\ pedidos[r].fase = "atualizacao" /\ pedidos[r].id = id
                /\ pedidos'[r] = Livre
                /\ Admin(pedidos[r].usuario) \/ ~IsFinal(pedidos[r].lida.status)
  <2>1. Presente(id) /\ fichas'[id] # Ausente /\ fichas[id] \in Ficha
        /\ fichas'[id].status # fichas[id].status
    BY <1>1 DEF DeixaFinal, IInv, TypeOK, Presente
  <2>2. Next
    BY <1>1, <2>1 DEF vars
  <2>3. \A b \in BOOLEAN :
           [fichas[id] EXCEPT !.excluida = b].status = fichas[id].status
    BY <2>1 DEF Ficha
  <2>4. PICK r \in Reqs : /\ pedidos[r].id = id /\ pedidos'[r] = Livre
                          /\ Atualizar(r)
    BY <1>1, <2>1, <2>2, <2>3, QuemEscreve
  <2>5. CanBeEditedBy(pedidos[r].lida, pedidos[r].usuario)
    BY <1>1, <2>4 DEF IInv, Autorizado, Atualizar, ComCopia
  <2> QED
    BY <2>4, <2>5 DEF Atualizar, CanBeEditedBy
<1>2. IInv /\ [Next]_vars =>
         [ \A id \in Ids : DeixaFinal(id) =>
              \E r \in Reqs :
                 /\ pedidos[r].fase = "atualizacao" /\ pedidos[r].id = id
                 /\ pedidos'[r] = Livre
                 /\ Admin(pedidos[r].usuario) \/ ~IsFinal(pedidos[r].lida.status) ]_vars
  BY <1>1
<1> QED
  BY <1>2, Invariante, PTL DEF Spec, FinalSoPorAdminOuLeituraAntiga

\* Nothing but an administrator's restore takes a row out of the trash.
THEOREM LixeiraSoPorRestauracao == Spec => SoRestaurarTiraDaLixeira
<1>1. ASSUME IInv, [Next]_vars, NEW id \in Ids,
             Presente(id), fichas[id].excluida,
             fichas'[id] # Ausente, ~fichas'[id].excluida
      PROVE  \E r \in Reqs : /\ pedidos[r].fase = "restauracao"
                             /\ pedidos[r].id = id /\ pedidos'[r] = Livre
                             /\ Admin(pedidos[r].usuario)
  <2>1. fichas[id] \in Ficha /\ fichas'[id] # fichas[id]
    BY <1>1 DEF IInv, TypeOK, Presente
  <2>2. Next
    BY <1>1, <2>1 DEF vars
  <2>3. [fichas[id] EXCEPT !.excluida = TRUE].excluida
    BY <2>1 DEF Ficha
  <2>4. \A c, cols : Mesclar(fichas[id], c, cols).excluida = fichas[id].excluida
    BY DEF Mesclar
  <2>5. PICK r \in Reqs :
           /\ pedidos[r].id = id /\ pedidos'[r] = Livre
           /\ \/ fichas'[id] = Mesclar(fichas[id], pedidos[r].copia, pedidos[r].colunas)
              \/ fichas'[id] = [fichas[id] EXCEPT !.excluida = TRUE]
              \/ Restaurar(r)
    BY <1>1, <2>1, <2>2, QuemEscreve
  <2>6. fichas'[id] # Mesclar(fichas[id], pedidos[r].copia, pedidos[r].colunas)
    BY <1>1, <2>4, Zenon
  <2>7. fichas'[id] # [fichas[id] EXCEPT !.excluida = TRUE]
    BY <1>1, <2>3
  <2> QED
    BY <1>1, <2>5, <2>6, <2>7 DEF Restaurar, IInv, Autorizado
<1>2. IInv /\ [Next]_vars =>
         [ \A id \in Ids :
              /\ Presente(id) /\ fichas[id].excluida
              /\ fichas'[id] # Ausente /\ ~fichas'[id].excluida
              => \E r \in Reqs : /\ pedidos[r].fase = "restauracao"
                                 /\ pedidos[r].id = id /\ pedidos'[r] = Livre
                                 /\ Admin(pedidos[r].usuario) ]_vars
  BY <1>1
<1> QED
  BY <1>2, Invariante, PTL DEF Spec, SoRestaurarTiraDaLixeira
-----------------------------------------------------------------------------
(* One request at a time: what a request knows is still so. *)

\* The statuses in which a record is out of the archive's hands.
Retirados == { "RETIRADO_PELO_SETOR", "REARQUIVAMENTO_SOLICITADO", "FINALIZADO" }

\* If the body d takes the row f there, the body or the row has the SAG date.
SagPrevista(f, d) ==
    d.status \in Retirados \ {f.status} => d.sag # NaoInformado \/ f.sag # Nulo

\* c is what a PATCH of u makes of the row f: a status within u's reach, and the SAG
\* date with it.
Movida(f, c, u) ==
    /\ c.status \in Ciclo!Alcance(u, f.status)
    /\ c.status \in Retirados \ {f.status} => c.sag # Nulo

\* What a request in progress p is to the row it is about, as long as it is alone.
Sozinho(p) ==
    LET f == fichas[p.id]
    IN  /\ p.fase # "insercao"
        /\ p.fase = "consultado" => Ativa(p.id) /\ SagPrevista(f, p.dto)
        /\ p.fase \in {"editado", "atualizacao"} =>
              Ativa(p.id) /\ Movida(f, p.copia, p.usuario)
        /\ p.fase = "atualizacao" => p.colunas = Diferentes(p.copia, f)
        /\ p.fase = "exclusao" => Ativa(p.id) /\ CanBeDeletedBy(f, p.usuario)
        /\ p.fase = "eliminacao" => Presente(p.id) /\ Admin(p.usuario)
        /\ p.fase = "restauracao" => Presente(p.id) /\ f.excluida /\ Admin(p.usuario)
        /\ p.fase = "importacao" =>
              /\ Admin(p.usuario)
              /\ \A id \in Ids : p.lote[id] # Ausente => ~p.lote[id].excluida

SerialInv == IInv /\ \A r \in Reqs : Sozinho(pedidos[r])

\* The dates a change of status implies are added before the permission is checked.
LEMMA ComPadroesPreve ==
    ASSUME NEW f \in Ficha, NEW d \in UpdateDto, NEW agora \in Instantes
    PROVE  SagPrevista(f, ComPadroes(f, d, agora))
<1>. DEFINE e == ComPadroes(f, d, agora)
<1>1. e.status = d.status
  BY DEF ComPadroes, UpdateDto
<1>2. CASE d.status \in Retirados \ {f.status}
  <2>1. d.status \notin {NaoInformado, f.status} /\ d.status \in ComDataDesarquivamento
    BY <1>2, SentinelAssumption DEF Retirados, ComDataDesarquivamento, Status
  <2>2. e.sag = IF d.sag = NaoInformado /\ f.sag = Nulo THEN agora ELSE d.sag
    BY <2>1 DEF ComPadroes, UpdateDto
  <2>. QED  BY <2>2, SentinelAssumption DEF SagPrevista
<1>. QED  BY <1>1, <1>2 DEF SagPrevista

\* The status and the SAG date just before the status of the body is applied.
LEMMA AntesDoStatusCampos ==
    ASSUME NEW f \in Ficha, NEW d \in UpdateDto, NEW g, g = AntesDoStatus(f, d)
    PROVE  /\ g.status = IF d.responsavel # NaoInformado /\ f.status = "SOLICITADO"
                         THEN "DESARQUIVADO" ELSE f.status
           /\ g.sag = IF d.sag = NaoInformado THEN f.sag ELSE d.sag
<1>. DEFINE h == AssignResponsible(f, d.responsavel)
<1>1. d.responsavel \in Usuarios \cup {NaoInformado}
  BY DEF UpdateDto
<1>2. h \in Ficha
  BY <1>1, AssignTipo
<1>3. /\ h.status = IF d.responsavel # NaoInformado /\ f.status = "SOLICITADO"
                    THEN "DESARQUIVADO" ELSE f.status
      /\ h.sag = f.sag
  BY DEF AssignResponsible, Ficha, IsPending
<1>. HIDE DEF h
<1>4. ComDatas(h, d).status = h.status
      /\ ComDatas(h, d).sag = IF d.sag = NaoInformado THEN h.sag ELSE d.sag
  BY <1>2 DEF ComDatas, Ficha
<1>5. g = ComDatas(h, d)
  BY DEF AntesDoStatus, h
<1>. QED  BY <1>3, <1>4, <1>5

\* An accepted update of a row the user may edit moves it within the user's reach.
LEMMA ApplyUpdatesMove ==
    ASSUME NEW f \in Ficha, NEW d \in UpdateDto, NEW u \in Usuarios,
           NEW agora \in Instantes,
           CanBeEditedBy(f, u), UpdateAceito(f, u, d), SagPrevista(f, d)
    PROVE  Movida(f, ApplyUpdates(f, d, agora), u)
<1>. DEFINE g == AntesDoStatus(f, d)
            c == ApplyUpdates(f, d, agora)
<1>1. /\ g.status = IF d.responsavel # NaoInformado /\ f.status = "SOLICITADO"
                    THEN "DESARQUIVADO" ELSE f.status
      /\ g.sag = IF d.sag = NaoInformado THEN f.sag ELSE d.sag
      /\ g \in Ficha
  <2>1. d.responsavel \in Usuarios \cup {NaoInformado}
    BY DEF UpdateDto
  <2>2. g \in Ficha
    BY <2>1, AssignTipo, ComDatasTipo DEF AntesDoStatus
  <2>. HIDE DEF g
  <2>3. g = AntesDoStatus(f, d)
    BY DEF g
  <2>. QED  BY <2>2, <2>3, AntesDoStatusCampos
<1>2. d.status # NaoInformado => IsPrivileged(u) \/ CanTransitionTo(g.status, d.status)
  BY DEF UpdateAceito, TransicaoAceita
<1>. HIDE DEF g
<1>3. /\ d.status = NaoInformado => c = g
      /\ d.status # NaoInformado => c = ComStatus(g, d.status, agora)
  BY DEF ApplyUpdates, g
<1>4. /\ ComStatus(g, d.status, agora).status = d.status
      /\ g.sag # Nulo => ComStatus(g, d.status, agora).sag # Nulo
  BY <1>1 DEF ComStatus, Ficha
<1>. HIDE DEF c
<1>5. c.status = IF d.status = NaoInformado THEN g.status ELSE d.status
  BY <1>3, <1>4
<1>6. f.status \in Status /\ d.status \in Status \cup {NaoInformado} /\ g.status \in Status
  BY <1>1 DEF Ficha, UpdateDto
<1>7. c.status \in Ciclo!Alcance(u, f.status)
  <2>0. c.status \in Ciclo!Status
    BY <1>5, <1>6 DEF Status, Ciclo!Status
  <2>1. CASE Admin(u)
    BY <2>0, <2>1 DEF Ciclo!Alcance
  <2>2. CASE ~Admin(u)
    <3>1. ~Ciclo!IsFinal(f.status)
      BY <2>2 DEF CanBeEditedBy, IsFinal, Final, Ciclo!IsFinal, Ciclo!Final
    <3>2. CASE IsPrivileged(u)
      BY <2>0, <2>2, <3>1, <3>2 DEF Ciclo!Alcance
    <3>3. CASE ~IsPrivileged(u)
      <4>1. c.status \in Ciclo!Adiante(f.status)
        <5>1. CASE d.status = NaoInformado
          BY <1>1, <1>5, <2>0, <5>1
             DEF Ciclo!Adiante, Ciclo!CanTransitionTo, Ciclo!ValidTransitions
        <5>2. CASE d.status # NaoInformado
          <6>1. CanTransitionTo(g.status, c.status)
            BY <1>2, <1>5, <3>3, <5>2
          <6>2. Ciclo!CanTransitionTo(g.status, c.status)
            BY <6>1 DEF CanTransitionTo, ValidTransitions,
                        Ciclo!CanTransitionTo, Ciclo!ValidTransitions
          <6>. QED  BY <1>1, <2>0, <6>2 DEF Ciclo!Adiante, Ciclo!IsPending
        <5>. QED  BY <5>1, <5>2
      <4>. QED  BY <2>2, <3>1, <3>3, <4>1 DEF Ciclo!Alcance
    <3>. QED  BY <3>2, <3>3
  <2>. QED  BY <2>1, <2>2
<1>8. ASSUME c.status \in Retirados \ {f.status}
      PROVE  c.sag # Nulo
  <2>1. d.status = c.status /\ d.status # NaoInformado
    BY <1>1, <1>5, <1>8 DEF Retirados
  <2>2. d.sag # NaoInformado \/ f.sag # Nulo
    BY <1>8, <2>1 DEF SagPrevista
  <2>3. d.sag \in Instantes \cup {NaoInformado}
    BY DEF UpdateDto
  <2>4. g.sag # Nulo
    BY <1>1, <2>2, <2>3, SentinelAssumption
  <2>. QED  BY <1>3, <1>4, <2>1, <2>4
<1>. QED  BY <1>7, <1>8 DEF Movida, c

\* The UPDATE of the columns that differ makes the row the entity, but for the trash.
LEMMA MesclarSozinha ==
    ASSUME NEW f \in Ficha, NEW c \in Ficha, NEW m, m = Mesclar(f, c, Diferentes(c, f))
    PROVE  m \in Ficha /\ m.status = c.status /\ m.sag = c.sag /\ m.excluida = f.excluida
<1>1. Diferentes(c, f) \in SUBSET Colunas
  BY DEF Diferentes
<1>2. /\ "status" \in Diferentes(c, f) <=> c["status"] # f["status"]
      /\ "sag" \in Diferentes(c, f) <=> c["sag"] # f["sag"]
  BY DEF Diferentes, Colunas
<1>3. m \in Ficha
  BY <1>1, MesclarTipo
<1>. QED  BY <1>2, <1>3 DEF Mesclar

\* What a request knew is still so when it stands where it stood, and so its row.
LEMMA SozinhoMantem ==
    ASSUME NEW r \in Reqs, Sozinho(pedidos[r]), pedidos'[r] = pedidos[r],
           pedidos[r].fase \notin {"livre", "importacao"} =>
              fichas'[pedidos[r].id] = fichas[pedidos[r].id]
    PROVE  Sozinho(pedidos[r])'
<1>1. CASE pedidos[r].fase \in {"livre", "importacao"}
  BY <1>1 DEF Sozinho
<1>2. CASE pedidos[r].fase \notin {"livre", "importacao"}
  BY <1>2 DEF Sozinho, Ativa, Presente
<1>. QED  BY <1>1, <1>2

LEMMA SozinhoChegar ==
    ASSUME SerialInv, NEW r \in Reqs, NEW u \in Usuarios, Chegar(r, u)
    PROVE  Sozinho(pedidos[r])'
<1>t. /\ \A id \in Ids : Presente(id) => fichas[id] \in Ficha
      /\ DOMAIN pedidos = Reqs
  BY DEF SerialInv, IInv, TypeOK, Presente
<1>1. ASSUME IniciarImportacao(r, u) PROVE Sozinho(pedidos[r])'
  <2>1. pedidos'[r] = [ fase |-> "importacao", usuario |-> u,
                        lote |-> [id \in Ids |-> Ausente] ] /\ Admin(u)
    BY <1>1, <1>t DEF IniciarImportacao
  <2>. QED  BY <2>1 DEF Sozinho
<1>2. ASSUME NEW id \in Ids, NEW d \in Dtos, Consultar(r, u, id, d)
      PROVE  Sozinho(pedidos[r])'
  <2>1. Ativa(id) /\ fichas[id] \in Ficha /\ fichas' = fichas /\ d \in UpdateDto
    BY <1>2, <1>t, BoundsAssumption DEF Consultar, Ativa
  <2>2. PICK agora \in Instantes :
           pedidos'[r] = [ fase |-> "consultado", usuario |-> u, id |-> id,
                           dto |-> ComPadroes(fichas[id], d, agora) ]
    BY <1>2, <1>t DEF Consultar
  <2>3. SagPrevista(fichas[id], ComPadroes(fichas[id], d, agora))
    BY <2>1, ComPadroesPreve
  <2>. QED  BY <2>1, <2>2, <2>3 DEF Sozinho, Ativa, Presente
<1>3. ASSUME NEW id \in Ids,
             PedirExclusao(r, u, id) \/ PedirEliminacao(r, u, id)
                \/ PedirRestauracao(r, u, id)
      PROVE  Sozinho(pedidos[r])'
  BY <1>3, <1>t DEF PedirExclusao, PedirEliminacao, PedirRestauracao, Reter, Sozinho,
                    Ativa, Presente
<1>. QED  BY <1>1, <1>2, <1>3 DEF Chegar

LEMMA SozinhoContinuar ==
    ASSUME SerialInv, NEW r \in Reqs, Continuar(r)
    PROVE  Sozinho(pedidos[r])'
<1>. DEFINE p == pedidos[r]
            f == fichas[p.id]
<1>t. /\ \A id \in Ids : Presente(id) => fichas[id] \in Ficha
      /\ DOMAIN pedidos = Reqs
      /\ p \in Pedido /\ Sozinho(p)
  BY DEF SerialInv, IInv, TypeOK, Presente
<1>1. ASSUME NEW l \in Planilha, ImportarLinha(r, l) PROVE Sozinho(pedidos[r])'
  <2>. DEFINE g == FichaNova(p.usuario, l.status, Nulo, l.sag, l.devolucao)
  <2>1. p \in Importacao
    BY <1>1, <1>t, PorFase DEF ImportarLinha
  <2>2. ~g.excluida
    BY DEF FichaNova
  <2>. HIDE DEF g
  <2>3. /\ pedidos'[r] = [p EXCEPT !.lote[seq + 1] = g]
        /\ fichas' = fichas
    BY <1>1, <1>t DEF ImportarLinha, g
  <2>4. /\ pedidos'[r].fase = "importacao" /\ pedidos'[r].usuario = p.usuario
        /\ \A id \in Ids : pedidos'[r].lote[id] \in {p.lote[id], g}
    BY <2>1, <2>3 DEF Importacao
  <2>. QED  BY <1>t, <2>1, <2>2, <2>4 DEF Sozinho, Importacao
<1>2. ASSUME Editar(r) PROVE Sozinho(pedidos[r])'
  <2>1. p \in Consulta /\ Ativa(p.id) /\ f \in Ficha /\ fichas' = fichas
    BY <1>2, <1>t, PorFase DEF Editar, Ativa, Consulta
  <2>2. PICK agora \in Instantes :
           pedidos'[r] = [ fase |-> "editado", usuario |-> p.usuario, id |-> p.id,
                           lida |-> f, copia |-> ApplyUpdates(f, p.dto, agora) ]
    BY <1>2, <1>t DEF Editar
  <2>3. SagPrevista(f, p.dto) /\ CanBeEditedBy(f, p.usuario)
           /\ UpdateAceito(f, p.usuario, p.dto)
    BY <1>2, <1>t DEF Editar, Sozinho
  <2>4. Movida(f, ApplyUpdates(f, p.dto, agora), p.usuario)
    BY <2>1, <2>3, ApplyUpdatesMove DEF Consulta
  <2>. QED  BY <2>1, <2>2, <2>4 DEF Sozinho, Ativa, Presente
<1>3. ASSUME Carregar(r) PROVE Sozinho(pedidos[r])'
  <2>1. Ativa(p.id) /\ Movida(f, p.copia, p.usuario) /\ fichas' = fichas
    BY <1>3, <1>t DEF Carregar, Sozinho
  <2>2. pedidos'[r] = [ fase |-> "atualizacao", usuario |-> p.usuario, id |-> p.id,
                        lida |-> p.lida, copia |-> p.copia,
                        colunas |-> Diferentes(p.copia, f) ]
    BY <1>3, <1>t, <2>1 DEF Carregar, Ativa
  <2>. QED  BY <2>1, <2>2 DEF Sozinho, Ativa, Presente
<1>4. ASSUME ConfirmarImportacao(r) \/ Atualizar(r) \/ Inserir(r) \/ Excluir(r)
                \/ Eliminar(r) \/ Restaurar(r) \/ Falhar(r)
      PROVE  Sozinho(pedidos[r])'
  <2>1. pedidos'[r].fase = "livre"
    BY <1>4, <1>t DEF ConfirmarImportacao, Atualizar, Inserir, Excluir, Eliminar,
                      Restaurar, Falhar, Livre
  <2>. QED  BY <2>1 DEF Sozinho
<1>. QED  BY <1>1, <1>2, <1>3, <1>4 DEF Continuar

LEMMA SerialStep ==
    ASSUME UmaRequisicao, SerialInv, [Next]_vars
    PROVE  SerialInv'
<1>1. IInv /\ IInv'
  BY TypeStep, IdUnicoStep, AutorizadoStep DEF IInv, SerialInv
<1>2. PICK r \in Reqs : Reqs = {r}
  BY DEF UmaRequisicao
<1>3. Sozinho(pedidos[r])'
  <2>1. CASE UNCHANGED vars
    BY <2>1, SozinhoMantem DEF vars, SerialInv
  <2>2. ASSUME NEW u \in Usuarios, NEW form \in Formularios, Criar(u, form)
        PROVE  Sozinho(pedidos[r])'
    <3>1. /\ \A id \in Ids \ {seq + 1} : fichas'[id] = fichas[id]
          /\ seq + 1 \in Ids /\ seq + 1 > seq /\ pedidos' = pedidos
      BY <1>1, <2>2, BoundsAssumption DEF Criar, Ids, IInv, TypeOK
    <3>2. pedidos[r].fase \notin {"livre", "importacao"} =>
             pedidos[r].id \in Ids /\ pedidos[r].id # seq + 1
      <4>1. seq + 1 \notin Referidos(pedidos[r])
        BY <1>1, <3>1 DEF IInv, IdUnico, IdNaoEmitidoLivre
      <4>2. pedidos[r].fase \notin {"livre", "importacao"} => pedidos[r].id \in Ids
        BY <1>1 DEF IInv, TypeOK, Pedido, Livre, Consulta, Edicao, Atualizacao, Remocao,
                    Importacao
      <4>. QED  BY <3>1, <4>1, <4>2 DEF Referidos
    <3>. QED  BY <3>1, <3>2, SozinhoMantem DEF SerialInv
  <2>. QED  BY <1>2, <2>1, <2>2, SozinhoChegar, SozinhoContinuar DEF Next
<1>. QED  BY <1>1, <1>2, <1>3 DEF SerialInv

\* As long as requests do not overlap, what a request knows is still so.
LEMMA SerialSempre == ASSUME UmaRequisicao PROVE Spec => []SerialInv
<1>1. Init => SerialInv
  BY TypeInit, IdUnicoInit, AutorizadoInit DEF IInv, SerialInv, Init, Sozinho, Livre
<1>2. SerialInv /\ [Next]_vars => SerialInv'
  BY SerialStep
<1>. QED  BY <1>1, <1>2, PTL DEF Spec

-----------------------------------------------------------------------------
(* One request at a time: what CicloDeVida sees. *)

\* What CicloDeVida sees of a row, and where there is none.
LEMMA VidaDaFicha ==
    ASSUME NEW id \in Ids, fichas[id] \in Ficha
    PROVE  EstadoVisto[id] = Ciclo!Registro(fichas[id].status, fichas[id].excluida)
BY AusenteAssumption DEF EstadoVisto, Vida, Presente, Ciclo!Registro

LEMMA VidaSemFicha ==
    ASSUME NEW id \in Ids, fichas[id] = Ausente
    PROVE  EstadoVisto[id] = IF Sumiu(id) THEN Ciclo!Eliminado ELSE Ciclo!Inexistente
BY DEF EstadoVisto, Vida, Presente, Ciclo!Eliminado, Ciclo!Inexistente

\* An id is gone when it was issued, has no row, and is not in the import under way.
LEMMA SumiuDaUnica ==
    ASSUME NEW r \in Reqs, Reqs = {r}, NEW id \in Ids
    PROVE  /\ pedidos[r].fase # "importacao" =>
                 (Sumiu(id) <=> id <= seq /\ fichas[id] = Ausente)
           /\ pedidos[r].fase = "importacao" =>
                 (Sumiu(id) <=>
                    id <= seq /\ fichas[id] = Ausente /\ pedidos[r].lote[id] = Ausente)
           /\ pedidos'[r].fase # "importacao" =>
                 (Sumiu(id)' <=> id <= seq' /\ fichas'[id] = Ausente)
           /\ pedidos'[r].fase = "importacao" =>
                 (Sumiu(id)' <=>
                    id <= seq' /\ fichas'[id] = Ausente /\ pedidos'[r].lote[id] = Ausente)
BY DEF Sumiu, Referidos, Presente

\* The user being attended is the user of the request.
LEMMA AtendidoDaUnica ==
    ASSUME NEW r \in Reqs, Reqs = {r}, pedidos[r] \in Pedido, pedidos'[r] \in Pedido
    PROVE  /\ pedidos[r].fase = "livre" => Atendido = Nulo
           /\ pedidos[r].fase # "livre" => Atendido = pedidos[r].usuario
           /\ pedidos'[r].fase = "livre" => Atendido' = Nulo
           /\ pedidos'[r].fase # "livre" => Atendido' = pedidos'[r].usuario
<1>1. Requisicao = r
  BY DEF Requisicao
<1>2. /\ pedidos[r].fase = "livre" <=> pedidos[r] = Livre
      /\ pedidos'[r].fase = "livre" <=> pedidos'[r] = Livre
  BY PorFase DEF Livre
<1>. QED  BY <1>1, <1>2 DEF Atendido

LEMMA EstadoVistoTipo ==
    TypeOK =>
       EstadoVisto \in [Ids -> {Ciclo!Inexistente, Ciclo!Eliminado} \cup Ciclo!Registrado]
<1>. SUFFICES ASSUME TypeOK
              PROVE  EstadoVisto
                        \in [Ids -> {Ciclo!Inexistente, Ciclo!Eliminado} \cup Ciclo!Registrado]
  OBVIOUS
<1>1. ASSUME NEW id \in Ids
      PROVE  EstadoVisto[id] \in {Ciclo!Inexistente, Ciclo!Eliminado} \cup Ciclo!Registrado
  <2>1. CASE fichas[id] = Ausente
    BY <2>1, VidaSemFicha
  <2>2. CASE fichas[id] \in Ficha
    <3>1. fichas[id].status \in Ciclo!Status /\ fichas[id].excluida \in BOOLEAN
      BY <2>2 DEF Ficha, Status, Ciclo!Status
    <3>2. ASSUME NEW s \in Ciclo!Status, NEW l \in BOOLEAN
          PROVE  Ciclo!Registro(s, l) \in Ciclo!Registrado
      BY DEF Ciclo!Registro, Ciclo!Registrado
    <3>. QED  BY <2>2, <3>1, <3>2, VidaDaFicha
  <2>. QED  BY <2>1, <2>2 DEF TypeOK
<1>. QED  BY <1>1 DEF EstadoVisto

\* The three kinds of life are told apart.
LEMMA VidasDiferentes ==
    ASSUME NEW s, NEW l
    PROVE  /\ Ciclo!Inexistente # Ciclo!Eliminado
           /\ Ciclo!Registro(s, l) # Ciclo!Inexistente
           /\ Ciclo!Registro(s, l) # Ciclo!Eliminado
           /\ Ciclo!Registro(s, l).vida = "registrado"
           /\ Ciclo!Registro(s, l).status = s /\ Ciclo!Registro(s, l).lixeira = l
           /\ Ciclo!Inexistente.vida # "registrado" /\ Ciclo!Eliminado.vida # "registrado"
BY DEF Ciclo!Inexistente, Ciclo!Eliminado, Ciclo!Registro

\* Without an import before or after, what is seen changes only where the table does.
LEMMA VidaDosOutros ==
    ASSUME NEW r \in Reqs, Reqs = {r}, NEW id \in Ids,
           pedidos[r].fase # "importacao", pedidos'[r].fase # "importacao",
           fichas'[id] = fichas[id], id <= seq' <=> id <= seq
    PROVE  EstadoVisto'[id] = EstadoVisto[id]
<1>1. Sumiu(id)' <=> Sumiu(id)
  BY SumiuDaUnica
<1>. QED  BY <1>1 DEF EstadoVisto, Vida, Presente

\* The same of two steps of an import that draws no id.
LEMMA VidaNaImportacao ==
    ASSUME NEW r \in Reqs, Reqs = {r}, NEW id \in Ids,
           fichas'[id] = fichas[id],
           Sumiu(id)' <=> Sumiu(id)
    PROVE  EstadoVisto'[id] = EstadoVisto[id]
BY DEF EstadoVisto, Vida, Presente

\* One request writes one row, or deletes it, and ends.
LEMMA VidaDaEscrita ==
    ASSUME IInv, IInv', NEW r \in Reqs, Reqs = {r}, NEW id \in Ids, NEW g,
           g = Ausente \/ g \in Ficha, Presente(id),
           pedidos[r].fase # "importacao", pedidos'[r].fase = "livre",
           seq' = seq, fichas' = [fichas EXCEPT ![id] = g]
    PROVE  EstadoVisto' = [EstadoVisto EXCEPT ![id] =
              IF g = Ausente THEN Ciclo!Eliminado ELSE Ciclo!Registro(g.status, g.excluida)]
<1>. DEFINE v == IF g = Ausente THEN Ciclo!Eliminado
                 ELSE Ciclo!Registro(g.status, g.excluida)
<1>1. /\ fichas'[id] = g
      /\ \A i \in Ids \ {id} : fichas'[i] = fichas[i]
  BY DEF IInv, TypeOK
<1>2. \A i \in Ids \ {id} : EstadoVisto'[i] = EstadoVisto[i]
  BY <1>1, VidaDosOutros
<1>3. EstadoVisto'[id] = v
  <2>1. CASE g = Ausente
    <3>1. id <= seq
      BY BoundsAssumption DEF IInv, TypeOK, IdUnico, IdNaoEmitidoLivre, Ids
    <3>2. Sumiu(id)'
      BY <1>1, <2>1, <3>1, SumiuDaUnica
    <3>. QED  BY <1>1, <2>1, <3>2
              DEF EstadoVisto, Vida, Presente, Ciclo!Eliminado
  <2>2. CASE g \in Ficha
    BY <1>1, <2>2, AusenteAssumption
       DEF EstadoVisto, Vida, Presente, Ciclo!Registro
  <2>. QED  BY <2>1, <2>2
<1>4. EstadoVisto = [i \in Ids |-> Vida(i)] /\ EstadoVisto' = [i \in Ids |-> Vida(i)']
  BY DEF EstadoVisto
<1>. HIDE DEF v
<1>5. EstadoVisto' = [EstadoVisto EXCEPT ![id] = v]
  BY <1>2, <1>3, <1>4
<1>. QED  BY <1>5 DEF v

-----------------------------------------------------------------------------
(* One request at a time: every step is a step of CicloDeVida, or none. *)

LEMMA EstadoIgual ==
    ASSUME \A id \in Ids : EstadoVisto'[id] = EstadoVisto[id]
    PROVE  EstadoVisto' = EstadoVisto
<1>1. EstadoVisto = [i \in Ids |-> Vida(i)] /\ EstadoVisto' = [i \in Ids |-> Vida(i)']
  BY DEF EstadoVisto
<1>. QED  BY <1>1

LEMMA CriarImplementa ==
    ASSUME SerialInv, NEW r \in Reqs, Reqs = {r},
           NEW u \in Usuarios, NEW form \in Formularios, Criar(u, form)
    PROVE  Ciclo!Next
<1>. DEFINE n == seq + 1
            g == FichaNova(u, "SOLICITADO", form.responsavel, form.sag, form.devolucao)
<1>1. /\ n \in Ids /\ n > seq /\ seq' = n /\ pedidos' = pedidos
      /\ fichas' = [fichas EXCEPT ![n] = g] /\ seq \in Nat
  BY BoundsAssumption DEF Criar, Ids, SerialInv, IInv, TypeOK
<1>2. g \in Ficha /\ g.status = "SOLICITADO" /\ g.excluida = FALSE
  BY BoundsAssumption, FichaNovaTipo DEF Formulario, Status, FichaNova
<1>. HIDE DEF g
<1>3. /\ fichas'[n] = g /\ fichas[n] = Ausente /\ ~Sumiu(n)
      /\ \A i \in Ids \ {n} : fichas'[i] = fichas[i]
  BY <1>1 DEF SerialInv, IInv, TypeOK, IdUnico, IdNaoEmitidoLivre, Presente, Sumiu
<1>4. ASSUME NEW i \in Ids \ {n} PROVE EstadoVisto'[i] = EstadoVisto[i]
  <2>1. i <= seq' <=> i <= seq
    BY <1>1, BoundsAssumption DEF Ids
  <2>2. Sumiu(i)' <=> Sumiu(i)
    BY <1>1, <1>3, <2>1 DEF Sumiu, Presente
  <2>. QED  BY <1>3, <2>2, VidaNaImportacao
<1>5. EstadoVisto[n] = Ciclo!Inexistente
  BY <1>1, <1>3, VidaSemFicha
<1>6. EstadoVisto'[n] = Ciclo!Registro("SOLICITADO", FALSE)
  BY <1>1, <1>2, <1>3, AusenteAssumption DEF EstadoVisto, Vida, Presente, Ciclo!Registro
<1>7. EstadoVisto' = [EstadoVisto EXCEPT ![n] = Ciclo!Registro("SOLICITADO", FALSE)]
  <2>1. EstadoVisto = [i \in Ids |-> Vida(i)] /\ EstadoVisto' = [i \in Ids |-> Vida(i)']
    BY DEF EstadoVisto
  <2>. QED  BY <1>4, <1>6, <2>1
<1>8. Atendido' = Atendido
  BY <1>1 DEF Atendido
<1>9. Ciclo!Registrar(n)
  BY <1>5, <1>7, <1>8 DEF Ciclo!Registrar
<1>. QED  BY <1>1, <1>9 DEF Ciclo!Next

\* Any request that arrives is attended; nothing is written yet.
LEMMA ChegarImplementa ==
    ASSUME SerialInv, IInv', NEW r \in Reqs, Reqs = {r}, NEW u \in Usuarios, Chegar(r, u)
    PROVE  Ciclo!Next
<1>1. /\ pedidos[r] = Livre /\ fichas' = fichas /\ seq' = seq
      /\ pedidos'[r].usuario = u /\ pedidos'[r].fase # "livre"
      /\ pedidos'[r].fase = "importacao" => \A id \in Ids : pedidos'[r].lote[id] = Ausente
  BY DEF SerialInv, IInv, TypeOK, Chegar, IniciarImportacao, Consultar, PedirExclusao,
         PedirEliminacao, PedirRestauracao, Reter
<1>2. Livre.fase = "livre" /\ pedidos[r] \in Pedido /\ pedidos'[r] \in Pedido
  BY DEF Livre, SerialInv, IInv, TypeOK
<1>3. Atendido = Nulo /\ Atendido' = u
  BY <1>1, <1>2, AtendidoDaUnica
<1>4. ASSUME NEW id \in Ids PROVE EstadoVisto'[id] = EstadoVisto[id]
  <2>1. Sumiu(id) <=> id <= seq /\ ~Presente(id)
    BY <1>1, <1>2, SumiuDaUnica DEF Presente
  <2>2. Sumiu(id)' <=> id <= seq /\ ~Presente(id)
    BY <1>1, SumiuDaUnica DEF Presente
  <2>. QED  BY <1>1, <2>1, <2>2, VidaNaImportacao
<1>5. EstadoVisto' = EstadoVisto
  BY <1>4, EstadoIgual
<1>. QED  BY <1>3, <1>5 DEF Ciclo!Next, Ciclo!Atender

\* An import draws an id: nothing is seen of it.
LEMMA ImportarLinhaCala ==
    ASSUME SerialInv, IInv', NEW r \in Reqs, Reqs = {r},
           NEW l \in Planilha, ImportarLinha(r, l)
    PROVE  UNCHANGED Ciclo!ciclo
<1>. DEFINE p == pedidos[r]
            n == seq + 1
            g == FichaNova(p.usuario, l.status, Nulo, l.sag, l.devolucao)
<1>0. p \in Pedido /\ pedidos'[r] \in Pedido /\ seq \in Nat
  BY BoundsAssumption DEF SerialInv, IInv, TypeOK
<1>1. p \in Importacao /\ p.fase = "importacao"
  BY <1>0, PorFase DEF ImportarLinha
<1>2. g \in Ficha
  BY <1>1, BoundsAssumption, FichaNovaTipo DEF LinhaPlanilha, Importacao, Responsavel
<1>. HIDE DEF g
<1>3. /\ pedidos'[r] = [p EXCEPT !.lote[n] = g] /\ fichas' = fichas /\ seq' = n
      /\ n \in Ids
  BY <1>0, BoundsAssumption DEF ImportarLinha, g, SerialInv, IInv, TypeOK, Ids
<1>4. /\ pedidos'[r].fase = "importacao" /\ pedidos'[r].usuario = p.usuario
      /\ pedidos'[r].lote[n] = g
      /\ \A i \in Ids \ {n} : pedidos'[r].lote[i] = p.lote[i]
  BY <1>1, <1>3 DEF Importacao
<1>5. ASSUME NEW i \in Ids PROVE EstadoVisto'[i] = EstadoVisto[i]
  <2>1. Sumiu(i) <=> i <= seq /\ ~Presente(i) /\ p.lote[i] = Ausente
    BY <1>1, SumiuDaUnica DEF Presente
  <2>2. Sumiu(i)' <=> i <= n /\ ~Presente(i) /\ pedidos'[r].lote[i] = Ausente
    BY <1>3, <1>4, SumiuDaUnica DEF Presente
  <2>3. i # n => (i <= n <=> i <= seq)
    BY <1>0 DEF Ids
  <2>4. n > seq /\ g # Ausente
    BY <1>0, <1>2, AusenteAssumption
  <2>5. Sumiu(i)' <=> Sumiu(i)
    BY <1>0, <1>4, <2>1, <2>2, <2>3, <2>4 DEF Ids
  <2>. QED  BY <1>3, <2>5, VidaNaImportacao
<1>6. EstadoVisto' = EstadoVisto
  BY <1>5, EstadoIgual
<1>7. Atendido' = Atendido
  BY <1>0, <1>1, <1>4, AtendidoDaUnica
<1>. QED  BY <1>6, <1>7 DEF Ciclo!ciclo

\* An import ends, with its rows or without them: records appear and drawn ids are lost.
LEMMA FimDaImportacaoImplementa ==
    ASSUME SerialInv, IInv', NEW r \in Reqs, Reqs = {r}, pedidos[r].fase = "importacao",
           ConfirmarImportacao(r) \/ Falhar(r)
    PROVE  Ciclo!Next
<1>. DEFINE p == pedidos[r]
<1>1. /\ p \in Importacao /\ pedidos'[r] = Livre /\ seq' = seq /\ Admin(p.usuario)
      /\ \A id \in Ids : p.lote[id] # Ausente => p.lote[id] \in Ficha /\ ~p.lote[id].excluida
      /\ p \in Pedido /\ pedidos'[r] \in Pedido
  <2>1. p \in Pedido /\ pedidos'[r] \in Pedido /\ Sozinho(p)
    BY DEF SerialInv, IInv, TypeOK
  <2>2. p \in Importacao
    BY <2>1, PorFase
  <2>3. pedidos'[r] = Livre /\ seq' = seq
    BY DEF ConfirmarImportacao, Falhar, SerialInv, IInv, TypeOK
  <2>. QED  BY <2>1, <2>2, <2>3 DEF Sozinho, Importacao
<1>2. \A id \in Ids :
         \/ fichas'[id] = fichas[id]
         \/ (p.lote[id] # Ausente /\ fichas'[id] = p.lote[id])
  <2>1. CASE ConfirmarImportacao(r)
    BY <2>1 DEF ConfirmarImportacao
  <2>2. CASE Falhar(r)
    BY <2>2 DEF Falhar
  <2>. QED  BY <2>1, <2>2
<1>3. Livre.fase = "livre"
  BY DEF Livre
<1>4. Atendido = p.usuario /\ Atendido' = Nulo
  BY <1>1, <1>3, AtendidoDaUnica
<1>5. EstadoVisto' \in [Ids -> {Ciclo!Inexistente, Ciclo!Eliminado} \cup Ciclo!Registrado]
  <2>1. (TypeOK =>
           EstadoVisto
              \in [Ids -> {Ciclo!Inexistente, Ciclo!Eliminado} \cup Ciclo!Registrado])'
    BY EstadoVistoTipo, PTL
  <2>. QED  BY <2>1 DEF IInv
<1>6. ASSUME NEW id \in Ids
      PROVE  IF EstadoVisto[id] = Ciclo!Inexistente
             THEN EstadoVisto'[id].vida = "registrado" => ~EstadoVisto'[id].lixeira
             ELSE EstadoVisto'[id] = EstadoVisto[id]
  <2>1. Sumiu(id) <=> id <= seq /\ ~Presente(id) /\ p.lote[id] = Ausente
    BY SumiuDaUnica DEF Presente
  <2>2. Sumiu(id)' <=> id <= seq /\ fichas'[id] = Ausente
    BY <1>1, <1>3, SumiuDaUnica
  <2>3. CASE p.lote[id] # Ausente
    <3>1. fichas[id] = Ausente /\ ~Sumiu(id)
      BY <2>1, <2>3 DEF SerialInv, IInv, IdUnico, IdImportadoReservado, Referidos, Presente
    <3>2. EstadoVisto[id] = Ciclo!Inexistente
      BY <3>1, VidaSemFicha
    <3>3. ASSUME fichas'[id] = p.lote[id]
          PROVE  ~EstadoVisto'[id].lixeira
      BY <1>1, <2>3, <3>3 DEF EstadoVisto, Vida, Presente
    <3>4. ASSUME fichas'[id] = Ausente
          PROVE  EstadoVisto'[id].vida # "registrado"
      BY <3>4 DEF EstadoVisto, Vida, Presente
    <3>. QED  BY <1>2, <3>1, <3>2, <3>3, <3>4
  <2>4. CASE p.lote[id] = Ausente
    <3>1. fichas'[id] = fichas[id] /\ (Sumiu(id)' <=> Sumiu(id))
      BY <1>2, <2>1, <2>2, <2>4 DEF Presente
    <3>2. EstadoVisto'[id] = EstadoVisto[id]
      BY <3>1, VidaNaImportacao
    <3>3. EstadoVisto[id] = Ciclo!Inexistente => EstadoVisto[id].vida # "registrado"
      BY VidasDiferentes
    <3>. QED  BY <3>2, <3>3
  <2>. QED  BY <2>3, <2>4
<1>7. Atendido \in { u \in Usuarios : Admin(u) }
  BY <1>1, <1>4 DEF Importacao
<1>. QED  BY <1>4, <1>5, <1>6, <1>7 DEF Ciclo!Next, Ciclo!Importar

\* What a request that is about a row knows of it.
LEMMA PedidoDaFicha ==
    ASSUME SerialInv, NEW r \in Reqs, Reqs = {r},
           pedidos[r].fase \in {"editado", "atualizacao", "exclusao", "eliminacao",
                                "restauracao"}
    PROVE  /\ pedidos[r].id \in Ids /\ pedidos[r].usuario \in Usuarios
           /\ Presente(pedidos[r].id) /\ fichas[pedidos[r].id] \in Ficha
           /\ Sozinho(pedidos[r])
           /\ Atendido = pedidos[r].usuario
           /\ EstadoVisto[pedidos[r].id] =
                 Ciclo!Registro(fichas[pedidos[r].id].status, fichas[pedidos[r].id].excluida)
<1>. DEFINE p == pedidos[r]
<1>1. p \in Pedido /\ Sozinho(p)
  BY DEF SerialInv, IInv, TypeOK
<1>2. p.id \in Ids /\ p.usuario \in Usuarios
  <2>1. p \in Edicao \cup Atualizacao \cup Remocao
    BY <1>1, PorFase
  <2>. QED  BY <2>1 DEF Edicao, Atualizacao, Remocao
<1>3. Presente(p.id) /\ fichas[p.id] \in Ficha
  BY <1>1, <1>2 DEF Sozinho, Ativa, SerialInv, IInv, TypeOK, Presente
<1>4. Atendido = p.usuario
  <2>1. Requisicao = r /\ pedidos[r] # Livre
    BY DEF Requisicao, Livre
  <2>. QED  BY <2>1 DEF Atendido
<1>. QED  BY <1>1, <1>2, <1>3, <1>4, VidaDaFicha

\* A request that writes its row, as CicloDeVida sees it.
LEMMA EscritaVista ==
    ASSUME SerialInv, IInv', NEW r \in Reqs, Reqs = {r},
           pedidos[r].fase \in {"atualizacao", "exclusao", "eliminacao", "restauracao"},
           NEW g, g = Ausente \/ g \in Ficha,
           seq' = seq, fichas' = [fichas EXCEPT ![pedidos[r].id] = g],
           pedidos' = [pedidos EXCEPT ![r] = Livre]
    PROVE  /\ Atendido' = Nulo
           /\ EstadoVisto' = [EstadoVisto EXCEPT ![pedidos[r].id] =
                 IF g = Ausente THEN Ciclo!Eliminado
                 ELSE Ciclo!Registro(g.status, g.excluida)]
<1>1. pedidos[r].id \in Ids /\ Presente(pedidos[r].id) /\ IInv
  BY PedidoDaFicha DEF SerialInv
<1>2. pedidos'[r].fase = "livre" /\ pedidos[r] \in Pedido /\ pedidos'[r] \in Pedido
  BY DEF Livre, SerialInv, IInv, TypeOK
<1>3. Atendido' = Nulo
  BY <1>2, AtendidoDaUnica
<1>. QED  BY <1>1, <1>2, <1>3, VidaDaEscrita

LEMMA AtualizarImplementa ==
    ASSUME SerialInv, IInv', NEW r \in Reqs, Reqs = {r}, Atualizar(r)
    PROVE  Ciclo!Next
<1>. DEFINE p == pedidos[r]
            f == fichas[p.id]
            m == Mesclar(f, p.copia, p.colunas)
<1>1. p.fase = "atualizacao"
  BY DEF Atualizar
<1>2. /\ p.id \in Ids /\ p.usuario \in Usuarios /\ Presente(p.id) /\ f \in Ficha
      /\ Sozinho(p) /\ Atendido = p.usuario
      /\ EstadoVisto[p.id] = Ciclo!Registro(f.status, f.excluida)
  BY <1>1, PedidoDaFicha
<1>3. p.copia \in Ficha
  BY <1>1, PorFase DEF SerialInv, IInv, TypeOK, Atualizacao
<1>4. p.colunas = Diferentes(p.copia, f) /\ ~f.excluida /\ Movida(f, p.copia, p.usuario)
  BY <1>1, <1>2 DEF Sozinho, Ativa
<1>5. m \in Ficha /\ m.status = p.copia.status /\ m.excluida = f.excluida
  BY <1>2, <1>3, <1>4, MesclarSozinha
<1>6. /\ fichas' = [fichas EXCEPT ![p.id] = m] /\ seq' = seq
      /\ pedidos' = [pedidos EXCEPT ![r] = Livre]
  BY <1>2 DEF Atualizar
<1>. HIDE DEF m
<1>7. /\ Atendido' = Nulo
      /\ EstadoVisto' = [EstadoVisto EXCEPT ![p.id] = Ciclo!Registro(m.status, m.excluida)]
  BY <1>1, <1>5, <1>6, EscritaVista, AusenteAssumption
<1>8. [Ciclo!Registro(f.status, f.excluida) EXCEPT !.status = m.status]
         = Ciclo!Registro(m.status, f.excluida)
  BY DEF Ciclo!Registro
<1>9. EstadoVisto' = [EstadoVisto EXCEPT ![p.id].status = m.status]
  BY <1>2, <1>5, <1>7, <1>8
<1>10. m.status \in Ciclo!Alcance(Atendido, EstadoVisto[p.id].status)
  BY <1>2, <1>4, <1>5, VidasDiferentes DEF Movida
<1>11. Ciclo!Vivo(p.id) /\ ~EstadoVisto[p.id].lixeira
  BY <1>2, <1>4, VidasDiferentes DEF Ciclo!Vivo
<1>12. Ciclo!Mover(p.id)
  BY <1>2, <1>7, <1>9, <1>10, <1>11 DEF Ciclo!Mover
<1>. QED  BY <1>2, <1>12 DEF Ciclo!Next

LEMMA RemocaoImplementa ==
    ASSUME SerialInv, IInv', NEW r \in Reqs, Reqs = {r},
           Excluir(r) \/ Eliminar(r) \/ Restaurar(r)
    PROVE  Ciclo!Next
<1>. DEFINE p == pedidos[r]
            f == fichas[p.id]
<1>1. p.fase \in {"exclusao", "eliminacao", "restauracao"}
  BY DEF Excluir, Eliminar, Restaurar
<1>2. /\ p.id \in Ids /\ p.usuario \in Usuarios /\ Presente(p.id) /\ f \in Ficha
      /\ Sozinho(p) /\ Atendido = p.usuario
      /\ EstadoVisto[p.id] = Ciclo!Registro(f.status, f.excluida)
  BY <1>1, PedidoDaFicha
<1>3. /\ Ciclo!Vivo(p.id) /\ EstadoVisto[p.id].lixeira = f.excluida
      /\ EstadoVisto[p.id].status = f.status
  BY <1>2, VidasDiferentes DEF Ciclo!Vivo
<1>4. ASSUME NEW b \in BOOLEAN
      PROVE  /\ [f EXCEPT !.excluida = b] \in Ficha
             /\ [f EXCEPT !.excluida = b].status = f.status
             /\ [f EXCEPT !.excluida = b].excluida = b
             /\ [Ciclo!Registro(f.status, f.excluida) EXCEPT !.lixeira = b]
                   = Ciclo!Registro(f.status, b)
  BY <1>2 DEF Ficha, Ciclo!Registro
<1>5. ASSUME NEW b \in BOOLEAN, seq' = seq, fichas' = [fichas EXCEPT ![p.id].excluida = b],
             pedidos' = [pedidos EXCEPT ![r] = Livre]
      PROVE  Atendido' = Nulo /\ EstadoVisto' = [EstadoVisto EXCEPT ![p.id].lixeira = b]
  <2>. DEFINE g == [f EXCEPT !.excluida = b]
  <2>1. g \in Ficha /\ g.status = f.status /\ g.excluida = b /\ g # Ausente
    BY <1>4, AusenteAssumption
  <2>2. fichas' = [fichas EXCEPT ![p.id] = g]
    BY <1>5
  <2>. HIDE DEF g
  <2>3. /\ Atendido' = Nulo
        /\ EstadoVisto' = [EstadoVisto EXCEPT ![p.id] = Ciclo!Registro(f.status, b)]
    BY <1>1, <1>5, <2>1, <2>2, EscritaVista
  <2>. QED  BY <1>2, <1>4, <2>3
<1>6. CASE Excluir(r)
  <2>1. ~f.excluida /\ CanBeDeletedBy(f, p.usuario)
    BY <1>2, <1>6 DEF Excluir, Sozinho, Ativa
  <2>2. Atendido' = Nulo /\ EstadoVisto' = [EstadoVisto EXCEPT ![p.id].lixeira = TRUE]
    BY <1>5, <1>6 DEF Excluir
  <2>3. p.usuario \in (IF Ciclo!IsFinal(f.status) THEN { u \in Usuarios : Admin(u) }
                       ELSE Usuarios)
    BY <1>2, <2>1 DEF CanBeDeletedBy, IsFinal, Final, Ciclo!IsFinal, Ciclo!Final
  <2>4. Ciclo!Excluir(p.id)
    BY <1>2, <1>3, <2>1, <2>2, <2>3 DEF Ciclo!Excluir
  <2>. QED  BY <1>2, <2>4 DEF Ciclo!Next
<1>7. CASE Eliminar(r)
  <2>1. Admin(p.usuario)
    BY <1>2, <1>7 DEF Eliminar, Sozinho
  <2>2. Atendido' = Nulo /\ EstadoVisto' = [EstadoVisto EXCEPT ![p.id] = Ciclo!Eliminado]
    BY <1>1, <1>7, EscritaVista DEF Eliminar
  <2>3. Ciclo!Eliminar(p.id)
    BY <1>2, <1>3, <2>1, <2>2 DEF Ciclo!Eliminar
  <2>. QED  BY <1>2, <2>3 DEF Ciclo!Next
<1>8. CASE Restaurar(r)
  <2>1. f.excluida /\ Admin(p.usuario)
    BY <1>2, <1>8 DEF Restaurar, Sozinho
  <2>2. Atendido' = Nulo /\ EstadoVisto' = [EstadoVisto EXCEPT ![p.id].lixeira = FALSE]
    BY <1>2, <1>5, <1>8 DEF Restaurar
  <2>3. Ciclo!Restaurar(p.id)
    BY <1>2, <1>3, <2>1, <2>2 DEF Ciclo!Restaurar
  <2>. QED  BY <1>2, <2>3 DEF Ciclo!Next
<1>. QED  BY <1>6, <1>7, <1>8

\* The steps of a PATCH before its UPDATE are not seen, and a failure ends the request.
LEMMA PassoSemEscritaImplementa ==
    ASSUME SerialInv, IInv', NEW r \in Reqs, Reqs = {r}, pedidos[r].fase # "importacao",
           Editar(r) \/ Carregar(r) \/ Falhar(r)
    PROVE  [Ciclo!Next]_(Ciclo!ciclo)
<1>. DEFINE p == pedidos[r]
<1>1. fichas' = fichas /\ seq' = seq /\ p \in Pedido /\ pedidos'[r] \in Pedido
  BY DEF Editar, Carregar, Falhar, SerialInv, IInv, TypeOK
<1>2. ASSUME pedidos'[r].fase # "importacao"
      PROVE  EstadoVisto' = EstadoVisto
  BY <1>1, <1>2, VidaDosOutros, EstadoIgual
<1>3. CASE Editar(r) \/ Carregar(r)
  <2>1. /\ p.fase \in {"consultado", "editado"}
        /\ pedidos'[r].fase \in {"editado", "atualizacao"}
        /\ pedidos'[r].usuario = p.usuario
    <3>1. CASE Editar(r)
      BY <3>1 DEF Editar, SerialInv, IInv, TypeOK
    <3>2. CASE Carregar(r)
      <4>1. Presente(p.id) /\ p.fase = "editado"
        BY <3>2, PedidoDaFicha DEF Carregar
      <4>. QED  BY <3>2, <4>1 DEF Carregar, SerialInv, IInv, TypeOK
    <3>. QED  BY <1>3, <3>1, <3>2
  <2>2. Atendido' = Atendido
    BY <1>1, <2>1, AtendidoDaUnica
  <2>. QED  BY <1>2, <2>1, <2>2 DEF Ciclo!ciclo
<1>4. CASE Falhar(r)
  <2>1. p # Livre /\ pedidos'[r] = Livre
    BY <1>4 DEF Falhar, SerialInv, IInv, TypeOK
  <2>2. p.fase # "livre" /\ pedidos'[r].fase = "livre"
    BY <1>1, <2>1, PorFase DEF Livre
  <2>3. Atendido = p.usuario /\ Atendido' = Nulo
    BY <1>1, <2>2, AtendidoDaUnica
  <2>4. p.usuario \in Usuarios
    BY <1>1, <2>1 DEF Pedido, Consulta, Edicao, Atualizacao, Remocao, Importacao
  <2>5. Ciclo!Encerrar
    BY <1>2, <2>2, <2>3, <2>4 DEF Ciclo!Encerrar
  <2>. QED  BY <2>5 DEF Ciclo!Next
<1>. QED  BY <1>3, <1>4

LEMMA PassoImplementa ==
    ASSUME UmaRequisicao, SerialInv, [Next]_vars
    PROVE  [Ciclo!Next]_(Ciclo!ciclo)
<1>1. IInv'
  BY SerialStep DEF SerialInv
<1>2. PICK r \in Reqs : Reqs = {r}
  BY DEF UmaRequisicao
<1>3. CASE UNCHANGED vars
  BY <1>3 DEF vars, Ciclo!ciclo, EstadoVisto, Vida, Presente, Sumiu, Referidos, Atendido
<1>4. ASSUME NEW u \in Usuarios, NEW form \in Formularios, Criar(u, form)
      PROVE  Ciclo!Next
  BY <1>2, <1>4, CriarImplementa
<1>5. ASSUME NEW u \in Usuarios, Chegar(r, u) PROVE Ciclo!Next
  BY <1>1, <1>2, <1>5, ChegarImplementa
<1>6. CASE Continuar(r)
  <2>1. ASSUME NEW l \in Planilha, ImportarLinha(r, l) PROVE UNCHANGED Ciclo!ciclo
    BY <1>1, <1>2, <2>1, ImportarLinhaCala
  <2>2. ASSUME ConfirmarImportacao(r) PROVE Ciclo!Next
    BY <1>1, <1>2, <2>2, FimDaImportacaoImplementa DEF ConfirmarImportacao
  <2>3. ASSUME Falhar(r) PROVE [Ciclo!Next]_(Ciclo!ciclo)
    BY <1>1, <1>2, <2>3, FimDaImportacaoImplementa, PassoSemEscritaImplementa
  <2>4. ASSUME Editar(r) \/ Carregar(r) PROVE [Ciclo!Next]_(Ciclo!ciclo)
    BY <1>1, <1>2, <2>4, PassoSemEscritaImplementa DEF Editar, Carregar
  <2>5. ASSUME Atualizar(r) PROVE Ciclo!Next
    BY <1>1, <1>2, <2>5, AtualizarImplementa
  <2>6. ~Inserir(r)
    BY DEF Inserir, SerialInv, Sozinho
  <2>7. ASSUME Excluir(r) \/ Eliminar(r) \/ Restaurar(r) PROVE Ciclo!Next
    BY <1>1, <1>2, <2>7, RemocaoImplementa
  <2>. QED  BY <1>6, <2>1, <2>2, <2>3, <2>4, <2>5, <2>6, <2>7 DEF Continuar
<1>. QED  BY <1>2, <1>3, <1>4, <1>5, <1>6 DEF Next

\* Served one at a time, the requests implement the abstract life cycle: each role within
\* its reach of the status flow, the trash undone by administrators alone, and an
\* eliminated record gone for ever.
THEOREM UmaAUmaImplementaCiclo == ASSUME UmaRequisicao PROVE Spec => ImplementaCiclo
<1>1. Init => Ciclo!Init
  <2>. SUFFICES ASSUME Init PROVE Ciclo!Init
    OBVIOUS
  <2>1. PICK r \in Reqs : Reqs = {r}
    BY DEF UmaRequisicao
  <2>2. pedidos[r] = Livre /\ Requisicao = r
    BY <2>1 DEF Init, Requisicao
  <2>3. \A id \in Ids : fichas[id] = Ausente /\ ~Sumiu(id)
    BY BoundsAssumption DEF Init, Sumiu, Ids
  <2>4. \A id \in Ids : EstadoVisto[id] = Ciclo!Inexistente
    BY <2>3, VidaSemFicha
  <2>. QED  BY <2>2, <2>4 DEF Ciclo!Init, Atendido, EstadoVisto
<1>2. SerialInv /\ [Next]_vars => [Ciclo!Next]_(Ciclo!ciclo)
  BY PassoImplementa
<1>. QED  BY <1>1, <1>2, SerialSempre, PTL DEF Spec, ImplementaCiclo, Ciclo!Spec

\* Served one at a time, no PATCH takes a record out of the archive without a SAG date.
THEOREM UmaAUmaRegistraSAG == ASSUME UmaRequisicao PROVE Spec => RetiradaRegistraSAG
<1>1. ASSUME SerialInv, [Next]_vars, NEW id \in Ids,
             Presente(id), fichas'[id] # Ausente,
             fichas[id].status # fichas'[id].status,
             fichas'[id].status \in
                { "RETIRADO_PELO_SETOR", "REARQUIVAMENTO_SOLICITADO", "FINALIZADO" }
      PROVE  fichas'[id].sag # Nulo
  <2>1. Next /\ IInv /\ fichas[id] \in Ficha
    BY <1>1 DEF vars, SerialInv, IInv, TypeOK, Presente
  <2>2. \A b \in BOOLEAN :
           [fichas[id] EXCEPT !.excluida = b].status = fichas[id].status
    BY <2>1 DEF Ficha
  <2>3. PICK r \in Reqs :
           /\ pedidos[r].id = id /\ Atualizar(r)
           /\ fichas'[id] = Mesclar(fichas[id], pedidos[r].copia, pedidos[r].colunas)
    BY <1>1, <2>1, <2>2, QuemEscreve
  <2>4. /\ pedidos[r].colunas = Diferentes(pedidos[r].copia, fichas[id])
        /\ Movida(fichas[id], pedidos[r].copia, pedidos[r].usuario)
    BY <1>1, <2>3 DEF SerialInv, Sozinho, Atualizar
  <2>5. pedidos[r].copia \in Ficha
    BY <2>1, <2>3, PorFase DEF Atualizar, IInv, TypeOK, Atualizacao
  <2>6. /\ fichas'[id].status = pedidos[r].copia.status
        /\ fichas'[id].sag = pedidos[r].copia.sag
    BY <2>1, <2>3, <2>4, <2>5, MesclarSozinha
  <2>. QED  BY <1>1, <2>4, <2>6 DEF Movida, Retirados
<1>2. SerialInv /\ [Next]_vars =>
         [ \A id \in Ids :
              /\ Presente(id) /\ fichas'[id] # Ausente
              /\ fichas[id].status # fichas'[id].status
              /\ fichas'[id].status \in
                   { "RETIRADO_PELO_SETOR", "REARQUIVAMENTO_SOLICITADO", "FINALIZADO" }
              => fichas'[id].sag # Nulo ]_vars
  BY <1>1
<1>. QED  BY <1>2, SerialSempre, PTL DEF Spec, RetiradaRegistraSAG

-----------------------------------------------------------------------------
(* What follows from the life cycle. *)

\* Each record is in one of the three lives.
LEMMA UmaDasVidas ==
    ASSUME NEW e, e \in {Ciclo!Inexistente, Ciclo!Eliminado} \cup Ciclo!Registrado
    PROVE  e.vida = "registrado" <=> e \in Ciclo!Registrado
BY DEF Ciclo!Inexistente, Ciclo!Eliminado, Ciclo!Registrado

\* A step of the life cycle leaves what is eliminated, and what is finished but for an
\* administrator.
LEMMA CicloStep ==
    ASSUME TypeOK, [Ciclo!Next]_(Ciclo!ciclo), NEW id \in Ids
    PROVE  /\ EstadoVisto[id] = Ciclo!Eliminado => EstadoVisto'[id] = Ciclo!Eliminado
           /\ /\ Ciclo!Vivo(id) /\ Ciclo!Vivo(id)'
              /\ Ciclo!IsFinal(EstadoVisto[id].status)
              /\ EstadoVisto'[id].status # EstadoVisto[id].status
              => Atendido \in { u \in Usuarios : Admin(u) }
<1>. DEFINE e == EstadoVisto[id]
            e1 == EstadoVisto'[id]
<1>1. /\ EstadoVisto \in [Ids -> {Ciclo!Inexistente, Ciclo!Eliminado} \cup Ciclo!Registrado]
      /\ e = Ciclo!Eliminado => ~Ciclo!Vivo(id) /\ e # Ciclo!Inexistente
      /\ Ciclo!Vivo(id) => e \in Ciclo!Registrado
  BY EstadoVistoTipo, VidasDiferentes, UmaDasVidas DEF Ciclo!Vivo
<1>2. CASE UNCHANGED Ciclo!ciclo
  BY <1>2 DEF Ciclo!ciclo
<1>3. ASSUME NEW k \in Ids, Ciclo!Registrar(k)
      PROVE  e1 = e \/ (e = Ciclo!Inexistente /\ ~Ciclo!Vivo(id))
  BY <1>1, <1>3, VidasDiferentes DEF Ciclo!Registrar, Ciclo!Vivo
<1>4. ASSUME NEW k \in Ids, Ciclo!Mover(k)
      PROVE  \/ e1 = e
             \/ /\ Ciclo!Vivo(id)
                /\ Ciclo!IsFinal(e.status) => Atendido \in { u \in Usuarios : Admin(u) }
  <2>1. CASE k = id
    <3>1. Ciclo!Alcance(Atendido, e.status) # {} /\ Ciclo!Vivo(id)
      BY <1>4, <2>1 DEF Ciclo!Mover
    <3>. QED  BY <3>1 DEF Ciclo!Alcance
  <2>2. CASE k # id
    BY <1>1, <1>4, <2>2 DEF Ciclo!Mover
  <2>. QED  BY <2>1, <2>2
<1>5. ASSUME NEW k \in Ids, Ciclo!Excluir(k) \/ Ciclo!Restaurar(k)
      PROVE  e1 = e \/ (Ciclo!Vivo(id) /\ e1.status = e.status)
  <2>1. PICK b \in BOOLEAN : EstadoVisto' = [EstadoVisto EXCEPT ![k].lixeira = b]
    BY <1>5 DEF Ciclo!Excluir, Ciclo!Restaurar
  <2>2. CASE k = id
    <3>1. Ciclo!Vivo(id)
      BY <1>5, <2>2 DEF Ciclo!Excluir, Ciclo!Restaurar
    <3>2. e1 = [e EXCEPT !.lixeira = b] /\ e \in Ciclo!Registrado
      BY <1>1, <2>1, <2>2, <3>1
    <3>3. e1.status = e.status
      BY <3>2 DEF Ciclo!Registrado
    <3>. QED  BY <3>1, <3>3
  <2>3. CASE k # id
    BY <1>1, <2>1, <2>3
  <2>. QED  BY <2>2, <2>3
<1>6. ASSUME NEW k \in Ids, Ciclo!Eliminar(k)
      PROVE  e1 \in {e, Ciclo!Eliminado} /\ Atendido \in { u \in Usuarios : Admin(u) }
  BY <1>1, <1>6 DEF Ciclo!Eliminar
<1>7. ASSUME Ciclo!Importar
      PROVE  e1 = e \/ (e = Ciclo!Inexistente /\ ~Ciclo!Vivo(id))
  BY <1>7, VidasDiferentes DEF Ciclo!Importar, Ciclo!Vivo
<1>8. ASSUME Ciclo!Encerrar \/ \E u \in Usuarios : Ciclo!Atender(u)
      PROVE  e1 = e
  BY <1>8 DEF Ciclo!Encerrar, Ciclo!Atender
<1>. QED
  BY <1>1, <1>2, <1>3, <1>4, <1>5, <1>6, <1>7, <1>8, VidasDiferentes DEF Ciclo!Next

\* Served one at a time: what was eliminated does not come back.
THEOREM EliminationIsFinal == ASSUME UmaRequisicao PROVE Spec => Ciclo!PromessaEliminacao
<1>1. SerialInv /\ [Next]_vars =>
         [ \A id \in Ids : EstadoVisto[id] = Ciclo!Eliminado =>
                              EstadoVisto'[id] = Ciclo!Eliminado ]_(Ciclo!ciclo)
  <2>. SUFFICES ASSUME SerialInv, [Next]_vars, NEW id \in Ids,
                       EstadoVisto[id] = Ciclo!Eliminado
                PROVE  EstadoVisto'[id] = Ciclo!Eliminado
    OBVIOUS
  <2>. QED  BY PassoImplementa, CicloStep DEF SerialInv, IInv
<1>. QED  BY <1>1, SerialSempre, PTL DEF Spec, Ciclo!PromessaEliminacao

\* Served one at a time: a finished record reopens only while an administrator is served.
THEOREM FinalMovesOnlyForFree == ASSUME UmaRequisicao PROVE Spec => Ciclo!PromessaFinal
<1>1. SerialInv /\ [Next]_vars =>
         [ \A id \in Ids :
              Ciclo!Vivo(id) /\ Ciclo!Vivo(id)' /\ Ciclo!IsFinal(EstadoVisto[id].status)
              /\ EstadoVisto'[id].status # EstadoVisto[id].status
              => Atendido \in { u \in Usuarios : Admin(u) } ]_(Ciclo!ciclo)
  <2>. SUFFICES ASSUME SerialInv, [Next]_vars, NEW id \in Ids,
                       Ciclo!Vivo(id), Ciclo!Vivo(id)',
                       Ciclo!IsFinal(EstadoVisto[id].status),
                       EstadoVisto'[id].status # EstadoVisto[id].status
                PROVE  Atendido \in { u \in Usuarios : Admin(u) }
    OBVIOUS
  <2>. QED  BY PassoImplementa, CicloStep DEF SerialInv, IInv
<1>. QED  BY <1>1, SerialSempre, PTL DEF Spec, Ciclo!PromessaFinal
=============================================================================
