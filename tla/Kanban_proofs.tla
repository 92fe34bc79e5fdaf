----------------------------- MODULE Kanban_proofs -----------------------------
(***************************************************************************)
(* Proofs about the board (Kanban): for any number of requests, columns    *)
(* and tasks.                                                              *)
(***************************************************************************)
EXTENDS KanbanSerial, SequenceTheorems, TLAPS

-----------------------------------------------------------------------------
(* The inductive invariant. *)

Ativo(r) == pedidos[r] # Livre

\* No row has an id that was not issued, and no request knows of one.
SemFuturo ==
    /\ \A i \in Ids : Presente(i) => i <= seq
    /\ \A r \in Reqs : Ativo(r) =>
          /\ pedidos[r].id <= seq
          /\ \A i \in pedidos[r].vistas \cup pedidos[r].travadas : i <= seq

\* A row is locked by one transaction.
TravasDisjuntas ==
    \A r, q \in Reqs :
       Ativo(r) /\ Ativo(q) /\ r # q => pedidos[r].travadas \cap pedidos[q].travadas = {}

\* The statements a transaction has still to run: a column is shifted once; the task is
\* put after the last one of the column by the statement that follows the one that finds
\* it; an INSERT is the last; only one that has a task of its own works on it.
CadaColunaUmaVez(s) ==
    \A k, l \in 1 .. Len(s) :
       s[k].op = "reordenar" /\ s[l].op = "reordenar" /\ k # l => s[k].coluna # s[l].coluna
UltimaAntesDeGravar(s) ==
    \A k \in 1 .. Len(s) : s[k].op = "ultima" =>
       k + 1 \in 1 .. Len(s) /\ s[k + 1].op \in {"gravar", "inserir"}
GravarDepoisDaUltima(s) ==
    \A k \in 1 .. Len(s) : s[k].op \in {"gravar", "inserir"} /\ s[k].ordem = SemOrdem =>
       k - 1 \in 1 .. Len(s) /\ s[k - 1].op = "ultima"
InserirNoFim(s) == \A k \in 1 .. Len(s) : s[k].op = "inserir" => k = Len(s)
SuaTarefa(id, s) ==
    \A k \in 1 .. Len(s) :
       s[k].op \in {"gravar", "remover", "carregar", "salvar", "reinserir"} => id # 0
FormaDosPassos(id, s) ==
    /\ CadaColunaUmaVez(s) /\ UltimaAntesDeGravar(s) /\ GravarDepoisDaUltima(s)
    /\ InserirNoFim(s) /\ SuaTarefa(id, s)

\* The others' rows written so far are not in the columns that are still to be shifted.
ColunasPorVir(p) ==
    \A k \in 1 .. Len(p.passos) : p.passos[k].op = "reordenar" =>
       \A i \in Ids \ {p.id} :
          p.escritas[i] # Intacta /\ p.escritas[i] # Ausente
             => p.escritas[i].coluna # p.passos[k].coluna

\* What is written is locked; of a task the transaction is not about, it is a shift by one
\* from where the task is, or a task of the transaction's own making.
Vizinha(l, m) == l.coluna = m.coluna /\ (l.ordem = m.ordem + 1 \/ m.ordem = l.ordem + 1)
EscritasCertas(p) ==
    \A i \in Ids : p.escritas[i] # Intacta =>
       /\ i \in p.travadas
       /\ i # p.id =>
             /\ p.escritas[i] # Ausente
             /\ Presente(i) => Vizinha(p.escritas[i], tarefas[i])

KanbanInv ==
    /\ TypeOK /\ SemFuturo /\ TravasDisjuntas
    /\ \A r \in Reqs : Ativo(r) =>
          /\ FormaDosPassos(pedidos[r].id, pedidos[r].passos)
          /\ ColunasPorVir(pedidos[r]) /\ EscritasCertas(pedidos[r])

-----------------------------------------------------------------------------
(* Sequences of statements. *)

LEMMA Concatenadas ==
  ASSUME NEW S, NEW s \in Seq(S), NEW t \in Seq(S)
  PROVE  /\ s \o t \in Seq(S) /\ Len(s \o t) = Len(s) + Len(t)
         /\ \A k \in 1 .. Len(s) : (s \o t)[k] = s[k]
         /\ \A k \in 1 .. Len(t) : (s \o t)[Len(s) + k] = t[k]
OBVIOUS

LEMMA Restantes ==
  ASSUME NEW S, NEW s \in Seq(S), s # << >>
  PROVE  /\ Tail(s) \in Seq(S) /\ Len(Tail(s)) = Len(s) - 1 /\ Len(s) \in Nat \ {0}
         /\ Head(s) = s[1] /\ s[1] \in S
         /\ \A k \in 1 .. Len(Tail(s)) : Tail(s)[k] = s[k + 1]
OBVIOUS

\* A statement is known by its op.
LEMMA TiposDePassos ==
  ASSUME NEW s \in Passo
  PROVE  /\ s.op = "selecionar" <=> s \in Selecao
         /\ s.op = "reordenar" <=> s \in Deslocamento
         /\ s.op = "ultima" <=> s \in Ultima
         /\ s.op \in {"gravar", "inserir"} <=> s \in Gravacao
         /\ s.op = "salvar" <=> s \in Salvamento
         /\ s.op \in {"carregar", "reinserir"} <=> s \in Carga
         /\ s.op = "remover" <=> s \in Saida
BY DEF Passo, Selecao, Deslocamento, Ultima, Gravacao, Salvamento, Carga, Saida

\* What is left when the first statement is done, unless the next one waits for its result.
LEMMA FormaAvanca ==
  ASSUME NEW id \in Nat, NEW s \in Seq(Passo), s # << >>, FormaDosPassos(id, s),
         s[1].op # "ultima"
  PROVE  FormaDosPassos(id, Tail(s))
<1>1. /\ Len(Tail(s)) = Len(s) - 1 /\ Len(s) \in Nat \ {0}
      /\ \A k \in 1 .. Len(Tail(s)) : Tail(s)[k] = s[k + 1] /\ k + 1 \in 1 .. Len(s)
  BY Restantes
<1>2. CadaColunaUmaVez(Tail(s))
  <2> SUFFICES ASSUME NEW k \in 1 .. Len(Tail(s)), NEW l \in 1 .. Len(Tail(s)),
                      Tail(s)[k].op = "reordenar", Tail(s)[l].op = "reordenar", k # l
               PROVE  Tail(s)[k].coluna # Tail(s)[l].coluna
    BY DEF CadaColunaUmaVez
  <2>1. k + 1 # l + 1
    BY <1>1
  <2> QED BY <1>1, <2>1 DEF FormaDosPassos, CadaColunaUmaVez
<1>3. UltimaAntesDeGravar(Tail(s))
  <2> SUFFICES ASSUME NEW k \in 1 .. Len(Tail(s)), Tail(s)[k].op = "ultima"
               PROVE  /\ k + 1 \in 1 .. Len(Tail(s))
                      /\ Tail(s)[k + 1].op \in {"gravar", "inserir"}
    BY DEF UltimaAntesDeGravar
  <2>1. (k + 1) + 1 \in 1 .. Len(s) /\ s[(k + 1) + 1].op \in {"gravar", "inserir"}
    BY <1>1 DEF FormaDosPassos, UltimaAntesDeGravar
  <2>2. k + 1 \in 1 .. Len(Tail(s))
    BY <1>1, <2>1
  <2> QED BY <1>1, <2>1, <2>2
<1>4. GravarDepoisDaUltima(Tail(s))
  <2> SUFFICES ASSUME NEW k \in 1 .. Len(Tail(s)),
                      Tail(s)[k].op \in {"gravar", "inserir"}, Tail(s)[k].ordem = SemOrdem
               PROVE  k - 1 \in 1 .. Len(Tail(s)) /\ Tail(s)[k - 1].op = "ultima"
    BY DEF GravarDepoisDaUltima
  <2>1. (k + 1) - 1 \in 1 .. Len(s) /\ s[(k + 1) - 1].op = "ultima"
    BY <1>1 DEF FormaDosPassos, GravarDepoisDaUltima
  <2>2. (k + 1) - 1 = k /\ k \in Nat
    OBVIOUS
  <2>3. s[k].op = "ultima" /\ k # 1
    BY <2>1, <2>2
  <2>4. k - 1 \in 1 .. Len(Tail(s)) /\ (k - 1) + 1 = k
    BY <1>1, <2>3
  <2> QED BY <1>1, <2>3, <2>4
<1>5. InserirNoFim(Tail(s))
  <2> SUFFICES ASSUME NEW k \in 1 .. Len(Tail(s)), Tail(s)[k].op = "inserir"
               PROVE  k = Len(Tail(s))
    BY DEF InserirNoFim
  <2>1. k + 1 = Len(s)
    BY <1>1 DEF FormaDosPassos, InserirNoFim
  <2>2. k \in Int
    OBVIOUS
  <2>3. Len(Tail(s)) = Len(s) - 1
    BY <1>1
  <2> QED BY <2>1, <2>2, <2>3
<1>6. SuaTarefa(id, Tail(s))
  BY <1>1 DEF FormaDosPassos, SuaTarefa
<1> QED BY <1>2, <1>3, <1>4, <1>5, <1>6 DEF FormaDosPassos

\* Two lists of statements that shift different columns, the first without an INSERT.
LEMMA FormaConcatenada ==
  ASSUME NEW id \in Nat, NEW s \in Seq(Passo), NEW t \in Seq(Passo),
         FormaDosPassos(id, s), FormaDosPassos(id, t),
         \A k \in 1 .. Len(s) : s[k].op # "inserir",
         \A k \in 1 .. Len(s), l \in 1 .. Len(t) :
            s[k].op = "reordenar" /\ t[l].op = "reordenar" => s[k].coluna # t[l].coluna
  PROVE  FormaDosPassos(id, s \o t)
<1> DEFINE u == s \o t
           n == Len(s)
           m == Len(t)
<1>1. /\ n \in Nat /\ m \in Nat /\ Len(u) = n + m
      /\ \A k \in 1 .. n : u[k] = s[k] /\ k \in 1 .. Len(u)
      /\ \A k \in 1 .. m : u[n + k] = t[k] /\ n + k \in 1 .. Len(u)
  BY Concatenadas
<1>2. \A k \in 1 .. Len(u) :
         \/ k \in 1 .. n /\ u[k] = s[k]
         \/ k - n \in 1 .. m /\ u[k] = t[k - n] /\ n + (k - n) = k
  BY <1>1
<1> HIDE DEF u
<1>3. CadaColunaUmaVez(u)
  <2> SUFFICES ASSUME NEW k \in 1 .. Len(u), NEW l \in 1 .. Len(u),
                      u[k].op = "reordenar", u[l].op = "reordenar", k # l
               PROVE  u[k].coluna # u[l].coluna
    BY DEF CadaColunaUmaVez
  <2>1. CASE k \in 1 .. n /\ u[k] = s[k] /\ l \in 1 .. n /\ u[l] = s[l]
    BY <2>1 DEF FormaDosPassos, CadaColunaUmaVez
  <2>2. CASE k \in 1 .. n /\ u[k] = s[k] /\ l - n \in 1 .. m /\ u[l] = t[l - n]
    BY <2>2
  <2>3. CASE l \in 1 .. n /\ u[l] = s[l] /\ k - n \in 1 .. m /\ u[k] = t[k - n]
    BY <2>3
  <2>4. CASE k - n \in 1 .. m /\ u[k] = t[k - n] /\ l - n \in 1 .. m /\ u[l] = t[l - n]
    <3>1. k - n # l - n
      BY <1>1
    <3> QED BY <2>4, <3>1 DEF FormaDosPassos, CadaColunaUmaVez
  <2> QED BY <1>2, <2>1, <2>2, <2>3, <2>4
<1>4. UltimaAntesDeGravar(u)
  <2> SUFFICES ASSUME NEW k \in 1 .. Len(u), u[k].op = "ultima"
               PROVE  k + 1 \in 1 .. Len(u) /\ u[k + 1].op \in {"gravar", "inserir"}
    BY DEF UltimaAntesDeGravar
  <2>1. CASE k \in 1 .. n /\ u[k] = s[k]
    <3>1. k + 1 \in 1 .. n /\ s[k + 1].op \in {"gravar", "inserir"}
      BY <2>1 DEF FormaDosPassos, UltimaAntesDeGravar
    <3> QED BY <1>1, <3>1
  <2>2. CASE k - n \in 1 .. m /\ u[k] = t[k - n]
    <3>1. (k - n) + 1 \in 1 .. m /\ t[(k - n) + 1].op \in {"gravar", "inserir"}
      BY <2>2 DEF FormaDosPassos, UltimaAntesDeGravar
    <3>2. n + ((k - n) + 1) = k + 1
      BY <1>1
    <3> QED BY <1>1, <3>1, <3>2
  <2> QED BY <1>2, <2>1, <2>2
<1>5. GravarDepoisDaUltima(u)
  <2> SUFFICES ASSUME NEW k \in 1 .. Len(u), u[k].op \in {"gravar", "inserir"},
                      u[k].ordem = SemOrdem
               PROVE  k - 1 \in 1 .. Len(u) /\ u[k - 1].op = "ultima"
    BY DEF GravarDepoisDaUltima
  <2>1. CASE k \in 1 .. n /\ u[k] = s[k]
    <3>1. k - 1 \in 1 .. n /\ s[k - 1].op = "ultima"
      BY <2>1 DEF FormaDosPassos, GravarDepoisDaUltima
    <3> QED BY <1>1, <3>1
  <2>2. CASE k - n \in 1 .. m /\ u[k] = t[k - n]
    <3>1. (k - n) - 1 \in 1 .. m /\ t[(k - n) - 1].op = "ultima"
      BY <2>2 DEF FormaDosPassos, GravarDepoisDaUltima
    <3>2. n + ((k - n) - 1) = k - 1
      BY <1>1
    <3> QED BY <1>1, <3>1, <3>2
  <2> QED BY <1>2, <2>1, <2>2
<1>6. InserirNoFim(u)
  <2> SUFFICES ASSUME NEW k \in 1 .. Len(u), u[k].op = "inserir" PROVE k = Len(u)
    BY DEF InserirNoFim
  <2>1. k - n \in 1 .. m /\ u[k] = t[k - n]
    BY <1>2
  <2>2. k - n = m
    BY <2>1 DEF FormaDosPassos, InserirNoFim
  <2> QED BY <1>1, <2>2
<1>7. SuaTarefa(id, u)
  BY <1>2 DEF FormaDosPassos, SuaTarefa
<1> QED BY <1>3, <1>4, <1>5, <1>6, <1>7 DEF FormaDosPassos, u

LEMMA FormaDeUm ==
  ASSUME NEW id \in Nat, NEW s \in Seq(Passo), Len(s) = 1, s[1].op # "ultima",
         s[1].op \in {"gravar", "inserir"} => s[1].ordem # SemOrdem,
         s[1].op \in {"gravar", "remover", "carregar", "salvar", "reinserir"} => id # 0
  PROVE  FormaDosPassos(id, s)
BY DEF FormaDosPassos, CadaColunaUmaVez, UltimaAntesDeGravar, GravarDepoisDaUltima,
       InserirNoFim, SuaTarefa

LEMMA FormaDeReordenacao ==
  ASSUME NEW id \in Nat, NEW c \in Colunas, NEW modo \in {"insert", "update", "delete"},
         NEW alvo \in Ordem, NEW atual \in Ordem
  PROVE  /\ Reordenacao(c, modo, alvo, atual) \in Seq(Passo)
         /\ FormaDosPassos(id, Reordenacao(c, modo, alvo, atual))
         /\ Len(Reordenacao(c, modo, alvo, atual)) = 2
         /\ Reordenacao(c, modo, alvo, atual)[1].op = "selecionar"
         /\ Reordenacao(c, modo, alvo, atual)[2].op = "reordenar"
         /\ Reordenacao(c, modo, alvo, atual)[2].coluna = c
<1> DEFINE a == [op |-> "selecionar", coluna |-> c]
           b == [op |-> "reordenar", coluna |-> c, modo |-> modo, alvo |-> alvo,
                 atual |-> atual]
           s == << a, b >>
<1>1. /\ a \in Passo /\ b \in Passo /\ a.op = "selecionar" /\ b.op = "reordenar"
      /\ b.coluna = c
  BY DEF Passo, Selecao, Deslocamento
<1>2. s = Reordenacao(c, modo, alvo, atual)
  BY DEF Reordenacao
<1> HIDE DEF a, b
<1>3. s \in Seq(Passo) /\ Len(s) = 2 /\ s[1] = a /\ s[2] = b
  BY <1>1
<1> HIDE DEF s
<1>4. FormaDosPassos(id, s)
  BY <1>1, <1>3
     DEF FormaDosPassos, CadaColunaUmaVez, UltimaAntesDeGravar, GravarDepoisDaUltima,
         InserirNoFim, SuaTarefa
<1> QED BY <1>1, <1>2, <1>3, <1>4

LEMMA FormaDeAbrir ==
  ASSUME NEW op \in {"gravar", "inserir"}, NEW c \in Colunas,
         NEW o \in Ordem \cup {SemOrdem}, NEW id \in Nat, op = "gravar" => id # 0
  PROVE  /\ Abrir(op, c, o) \in Seq(Passo) /\ FormaDosPassos(id, Abrir(op, c, o))
         /\ \A k \in 1 .. Len(Abrir(op, c, o)) :
               Abrir(op, c, o)[k].op = "reordenar" => Abrir(op, c, o)[k].coluna = c
<1> DEFINE g == [op |-> op, coluna |-> c, ordem |-> o]
           t == << g >>
<1>1. g \in Passo /\ g.op = op /\ g.ordem = o
  BY DEF Passo, Gravacao
<1>2. Gravar(op, c, o) = t
  BY DEF Gravar
<1> HIDE DEF g
<1>3. t \in Seq(Passo) /\ Len(t) = 1 /\ t[1] = g
  BY <1>1
<1> HIDE DEF t
<1>4. CASE o = SemOrdem
  <2> DEFINE a == [op |-> "ultima", coluna |-> c]
             s == << a >>
             u == s \o t
  <2>1. a \in Passo /\ a.op = "ultima"
    BY DEF Passo, Ultima
  <2>2. Abrir(op, c, o) = u
    BY <1>2, <1>4 DEF Abrir
  <2> HIDE DEF a
  <2>3. s \in Seq(Passo) /\ Len(s) = 1 /\ s[1] = a
    BY <2>1
  <2> HIDE DEF s
  <2>4. u \in Seq(Passo) /\ Len(u) = 2 /\ u[1] = a /\ u[2] = g
    <3>1. /\ u \in Seq(Passo) /\ Len(u) = Len(s) + Len(t)
          /\ \A k \in 1 .. Len(s) : u[k] = s[k]
          /\ \A k \in 1 .. Len(t) : u[Len(s) + k] = t[k]
      BY <1>3, <2>3, Concatenadas
    <3> HIDE DEF u
    <3>2. u[1] = s[1] /\ u[1 + 1] = t[1]
      BY <1>3, <2>3, <3>1
    <3> QED BY <1>3, <2>3, <3>1, <3>2
  <2> HIDE DEF u
  <2>5. FormaDosPassos(id, u)
    BY <1>1, <2>1, <2>4
       DEF FormaDosPassos, CadaColunaUmaVez, UltimaAntesDeGravar, GravarDepoisDaUltima,
           InserirNoFim, SuaTarefa
  <2>6. \A k \in 1 .. Len(u) : u[k].op # "reordenar"
    BY <1>1, <2>1, <2>4
  <2> QED BY <2>2, <2>4, <2>5, <2>6
<1>5. CASE o # SemOrdem
  <2>0. PICK modo \in {"insert", "update", "delete"} : modo = "insert"
    OBVIOUS
  <2> DEFINE s == Reordenacao(c, modo, o, o)
             u == s \o t
  <2>a. o \in Ordem
    BY <1>5
  <2>1. /\ s \in Seq(Passo) /\ FormaDosPassos(id, s) /\ Len(s) = 2
        /\ s[1].op = "selecionar" /\ s[2].op = "reordenar" /\ s[2].coluna = c
    BY <2>a, FormaDeReordenacao
  <2>2. Abrir(op, c, o) = u
    BY <1>2, <1>5, <2>0 DEF Abrir
  <2> HIDE DEF s
  <2>3. FormaDosPassos(id, t)
    BY <1>1, <1>3, <1>5, FormaDeUm
  <2>4. /\ \A k \in 1 .. Len(s) : s[k].op # "inserir"
        /\ \A k \in 1 .. Len(s), l \in 1 .. Len(t) :
              s[k].op = "reordenar" /\ t[l].op = "reordenar" => s[k].coluna # t[l].coluna
    BY <1>1, <1>3, <2>1
  <2>5. FormaDosPassos(id, u)
    BY <1>3, <2>1, <2>3, <2>4, FormaConcatenada
  <2>8. /\ u \in Seq(Passo) /\ Len(u) = Len(s) + Len(t)
        /\ \A k \in 1 .. Len(s) : u[k] = s[k]
        /\ \A k \in 1 .. Len(t) : u[Len(s) + k] = t[k]
    <3>1. s \in Seq(Passo) /\ t \in Seq(Passo)
      BY <1>3, <2>1
    <3> QED BY <3>1, Concatenadas
  <2>6. u \in Seq(Passo) /\ Len(u) = 3 /\ u[1] = s[1] /\ u[2] = s[2] /\ u[3] = g
    <3>1. u[1] = s[1] /\ u[2] = s[2]
      BY <2>1, <2>8
    <3>2. u[2 + 1] = t[1]
      BY <1>3, <2>1, <2>8
    <3> QED BY <1>3, <2>1, <2>8, <3>1, <3>2
  <2> HIDE DEF u
  <2>7. \A k \in 1 .. Len(u) : u[k].op = "reordenar" => u[k].coluna = c
    BY <1>1, <2>1, <2>6
  <2> QED BY <2>2, <2>5, <2>6, <2>7
<1> QED BY <1>4, <1>5

LEMMA FormaDeGravar ==
  ASSUME NEW c \in Colunas, NEW o \in Ordem, NEW id \in Nat, id # 0
  PROVE  /\ Gravar("gravar", c, o) \in Seq(Passo)
         /\ FormaDosPassos(id, Gravar("gravar", c, o))
         /\ \A k \in 1 .. Len(Gravar("gravar", c, o)) :
               Gravar("gravar", c, o)[k].op # "reordenar"
<1> DEFINE g == [op |-> "gravar", coluna |-> c, ordem |-> o]
           t == << g >>
<1>1. g \in Passo /\ g.op = "gravar" /\ g.ordem = o /\ o # SemOrdem
  BY SentinelasAssumption DEF Passo, Gravacao
<1>2. Gravar("gravar", c, o) = t
  BY DEF Gravar
<1> HIDE DEF g
<1>3. t \in Seq(Passo) /\ Len(t) = 1 /\ t[1] = g
  BY <1>1
<1> HIDE DEF t
<1> QED BY <1>1, <1>2, <1>3, FormaDeUm

LEMMA FormaDeMover ==
  ASSUME NEW lida \in Linha, NEW c \in Colunas, NEW o \in Ordem \cup {SemOrdem},
         NEW id \in Nat, id # 0
  PROVE  /\ PassosMover(lida, c, o) \in Seq(Passo)
         /\ FormaDosPassos(id, PassosMover(lida, c, o))
<1>1. lida.coluna \in Colunas /\ lida.ordem \in Ordem
  BY DEF Linha
<1>2. CASE c # lida.coluna
  <2>0. PICK modo \in {"insert", "update", "delete"} : modo = "delete"
    OBVIOUS
  <2> DEFINE s == Reordenacao(lida.coluna, modo, lida.ordem, lida.ordem)
             t == Abrir("gravar", c, o)
  <2>1. /\ s \in Seq(Passo) /\ FormaDosPassos(id, s) /\ Len(s) = 2
        /\ s[1].op = "selecionar" /\ s[2].op = "reordenar" /\ s[2].coluna = lida.coluna
    BY <1>1, FormaDeReordenacao
  <2>2. /\ t \in Seq(Passo) /\ FormaDosPassos(id, t)
        /\ \A k \in 1 .. Len(t) : t[k].op = "reordenar" => t[k].coluna = c
    BY FormaDeAbrir
  <2>3. PassosMover(lida, c, o) = s \o t
    BY <1>2, <2>0 DEF PassosMover
  <2> HIDE DEF s, t
  <2>4. \A k \in 1 .. Len(s) : s[k].op # "inserir"
    BY <2>1
  <2>5. \A k \in 1 .. Len(s), l \in 1 .. Len(t) :
           s[k].op = "reordenar" /\ t[l].op = "reordenar" => s[k].coluna # t[l].coluna
    BY <1>2, <2>1, <2>2
  <2> QED BY <2>1, <2>2, <2>3, <2>4, <2>5, FormaConcatenada, Concatenadas
<1>3. CASE c = lida.coluna /\ o \notin {SemOrdem, lida.ordem}
  <2>0. PICK modo \in {"insert", "update", "delete"} : modo = "update"
    OBVIOUS
  <2> DEFINE s == Reordenacao(c, modo, o, lida.ordem)
             t == Gravar("gravar", c, o)
  <2>1. /\ s \in Seq(Passo) /\ FormaDosPassos(id, s) /\ Len(s) = 2
        /\ s[1].op = "selecionar" /\ s[2].op = "reordenar" /\ s[2].coluna = c
    BY <1>1, <1>3, FormaDeReordenacao
  <2>2. /\ t \in Seq(Passo) /\ FormaDosPassos(id, t)
        /\ \A k \in 1 .. Len(t) : t[k].op # "reordenar"
    BY <1>3, FormaDeGravar
  <2>3. PassosMover(lida, c, o) = s \o t
    BY <1>3, <2>0 DEF PassosMover
  <2> HIDE DEF s, t
  <2>4. \A k \in 1 .. Len(s) : s[k].op # "inserir"
    BY <2>1
  <2>5. \A k \in 1 .. Len(s), l \in 1 .. Len(t) :
           s[k].op = "reordenar" /\ t[l].op = "reordenar" => s[k].coluna # t[l].coluna
    BY <2>2
  <2> QED BY <2>1, <2>2, <2>3, <2>4, <2>5, FormaConcatenada, Concatenadas
<1>4. CASE c = lida.coluna /\ o \in {SemOrdem, lida.ordem}
  BY <1>1, <1>4, FormaDeGravar DEF PassosMover
<1> QED BY <1>2, <1>3, <1>4

LEMMA FormaDeRemover ==
  ASSUME NEW lida \in Linha, NEW id \in Nat, id # 0
  PROVE  PassosRemover(lida) \in Seq(Passo) /\ FormaDosPassos(id, PassosRemover(lida))
<1> DEFINE a == [op |-> "remover"]
           s == << a >>
           t == Reordenacao(lida.coluna, "delete", lida.ordem, lida.ordem)
<1>1. /\ t \in Seq(Passo) /\ FormaDosPassos(id, t)
  BY FormaDeReordenacao DEF Linha
<1>2. a \in Passo /\ a.op = "remover"
  BY DEF Passo, Saida
<1>3. PassosRemover(lida) = s \o t
  BY DEF PassosRemover
<1> HIDE DEF a, t
<1>4. s \in Seq(Passo) /\ Len(s) = 1 /\ s[1] = a
  BY <1>2
<1> HIDE DEF s
<1>5. FormaDosPassos(id, s)
  BY <1>2, <1>4, FormaDeUm
<1>6. /\ \A k \in 1 .. Len(s) : s[k].op # "inserir"
      /\ \A k \in 1 .. Len(s) : s[k].op # "reordenar"
  BY <1>2, <1>4
<1> QED BY <1>1, <1>3, <1>4, <1>5, <1>6, FormaConcatenada, Concatenadas

LEMMA FormaDeEditar ==
  ASSUME NEW l \in Linha, NEW op \in {"carregar", "reinserir"}, NEW id \in Nat, id # 0,
         NEW s, s = << [op |-> op, linha |-> l] >>
  PROVE  s \in Seq(Passo) /\ FormaDosPassos(id, s) /\ Len(s) = 1 /\ s[1].op = op
<1> DEFINE a == [op |-> op, linha |-> l]
<1>1. a \in Passo /\ a.op = op
  BY DEF Passo, Carga
<1>2. s = << a >>
  OBVIOUS
<1> HIDE DEF a
<1>3. s \in Seq(Passo) /\ Len(s) = 1 /\ s[1] = a
  BY <1>1, <1>2
<1>4. FormaDosPassos(id, s)
  BY <1>1, <1>3, FormaDeUm
<1> QED BY <1>1, <1>3, <1>4

-----------------------------------------------------------------------------
(* What every step has in common. *)

LEMMA CamposDaTransacao ==
  ASSUME NEW q \in Transacao
  PROVE  /\ q # Livre /\ q.id \in 0 .. MaxIds /\ q.id \in Nat /\ q.passos \in Seq(Passo)
         /\ q.lida \in Linha \cup {Ausente}
         /\ q.vistas \subseteq Ids /\ q.travadas \subseteq Ids
         /\ q.escritas \in [Ids -> Linha \cup {Ausente, Intacta}]
<1>1. q.fase = "transacao" /\ Livre.fase = "livre"
  BY DEF Transacao, Livre
<1>2. q # Livre
  BY <1>1
<1> QED BY <1>2, LimitesAssumption DEF Transacao

LEMMA TransacaoAtiva ==
  ASSUME TypeOK, NEW r \in Reqs, Ativo(r)
  PROVE  pedidos[r] \in Transacao
BY DEF TypeOK, Ativo

\* A step that leaves one request with a sound transaction and changes no committed row.
LEMMA InvSegue ==
  ASSUME KanbanInv, NEW r \in Reqs, NEW q \in Transacao,
         pedidos' = [pedidos EXCEPT ![r] = q], tarefas' = tarefas,
         seq' \in 0 .. MaxIds, seq <= seq',
         q.id <= seq', \A i \in q.vistas \cup q.travadas : i <= seq',
         \A s \in Reqs \ {r} : Ativo(s) => q.travadas \cap pedidos[s].travadas = {},
         FormaDosPassos(q.id, q.passos), ColunasPorVir(q), EscritasCertas(q)
  PROVE  KanbanInv'
<1>0. /\ TypeOK /\ SemFuturo /\ TravasDisjuntas
      /\ \A s \in Reqs : Ativo(s) =>
            /\ FormaDosPassos(pedidos[s].id, pedidos[s].passos)
            /\ ColunasPorVir(pedidos[s]) /\ EscritasCertas(pedidos[s])
  BY DEF KanbanInv
<1>1. pedidos'[r] = q /\ \A s \in Reqs \ {r} : pedidos'[s] = pedidos[s]
  BY <1>0 DEF TypeOK
<1>2. TypeOK'
  BY <1>0 DEF TypeOK
<1>3. seq \in Nat /\ seq' \in Nat /\ seq <= seq' /\ MaxIds \in Nat
  BY <1>0, LimitesAssumption DEF TypeOK
<1>4. SemFuturo'
  <2>1. ASSUME NEW i \in Ids, Presente(i)' PROVE i <= seq'
    <3>1. i <= seq /\ i \in Nat
      BY <1>0, <2>1, <1>3 DEF SemFuturo, Presente, Ids
    <3> QED BY <3>1, <1>3
  <2>2. ASSUME NEW s \in Reqs, Ativo(s)'
        PROVE  /\ pedidos'[s].id <= seq'
               /\ \A i \in pedidos'[s].vistas \cup pedidos'[s].travadas : i <= seq'
    <3>1. CASE s = r
      BY <1>1, <3>1
    <3>2. CASE s # r
      <4>1. pedidos'[s] = pedidos[s] /\ Ativo(s)
        BY <1>1, <2>2, <3>2 DEF Ativo
      <4>2. pedidos[s] \in Transacao
        BY <1>0, <4>1, TransacaoAtiva
      <4>3. /\ pedidos[s].id \in Nat
            /\ \A i \in pedidos[s].vistas \cup pedidos[s].travadas : i \in Nat
        BY <4>2, <1>3, CamposDaTransacao DEF Ids
      <4>4. /\ pedidos[s].id <= seq
            /\ \A i \in pedidos[s].vistas \cup pedidos[s].travadas : i <= seq
        BY <1>0, <4>1 DEF SemFuturo
      <4> QED BY <4>1, <4>3, <4>4, <1>3
    <3> QED BY <3>1, <3>2
  <2> QED BY <2>1, <2>2 DEF SemFuturo
<1>5. TravasDisjuntas'
  <2> SUFFICES ASSUME NEW a \in Reqs, NEW b \in Reqs, Ativo(a)', Ativo(b)', a # b
               PROVE  pedidos'[a].travadas \cap pedidos'[b].travadas = {}
    BY DEF TravasDisjuntas
  <2>1. CASE a = r
    BY <1>1, <2>1 DEF Ativo
  <2>2. CASE b = r
    BY <1>1, <2>2 DEF Ativo
  <2>3. CASE a # r /\ b # r
    BY <1>0, <1>1, <2>3 DEF Ativo, TravasDisjuntas
  <2> QED BY <2>1, <2>2, <2>3
<1>6. ASSUME NEW s \in Reqs, Ativo(s)'
      PROVE  /\ FormaDosPassos(pedidos'[s].id, pedidos'[s].passos)
             /\ ColunasPorVir(pedidos[s])' /\ EscritasCertas(pedidos[s])'
  <2>2. CASE s = r
    BY <1>1, <2>2 DEF EscritasCertas, ColunasPorVir, Presente
  <2>3. CASE s # r
    <3>1. pedidos'[s] = pedidos[s] /\ Ativo(s)
      BY <1>1, <1>6, <2>3 DEF Ativo
    <3>2. /\ FormaDosPassos(pedidos[s].id, pedidos[s].passos)
          /\ ColunasPorVir(pedidos[s]) /\ EscritasCertas(pedidos[s])
      BY <1>0, <3>1
    <3>3. ColunasPorVir(pedidos[s])'
      BY <3>1, <3>2 DEF ColunasPorVir
    <3>4. EscritasCertas(pedidos[s])'
      BY <3>1, <3>2 DEF EscritasCertas, Presente
    <3> QED BY <3>1, <3>2, <3>3, <3>4
  <2> QED BY <2>2, <2>3
<1> QED BY <1>2, <1>4, <1>5, <1>6 DEF KanbanInv

\* ... and when a transaction ends without a commit.
LEMMA InvFalhar ==
  ASSUME KanbanInv, NEW r \in Reqs, Falhar(r)
  PROVE  KanbanInv'
<1>0. /\ TypeOK /\ SemFuturo /\ TravasDisjuntas
      /\ \A s \in Reqs : Ativo(s) =>
            /\ FormaDosPassos(pedidos[s].id, pedidos[s].passos)
            /\ ColunasPorVir(pedidos[s]) /\ EscritasCertas(pedidos[s])
      /\ pedidos' = [pedidos EXCEPT ![r] = Livre] /\ tarefas' = tarefas /\ seq' = seq
  BY DEF KanbanInv, Falhar
<1>1. pedidos'[r] = Livre /\ \A s \in Reqs \ {r} : pedidos'[s] = pedidos[s]
  BY <1>0 DEF TypeOK
<1>2. TypeOK'
  BY <1>0 DEF TypeOK
<1>3. \A s \in Reqs : Ativo(s)' => s # r /\ Ativo(s) /\ pedidos'[s] = pedidos[s]
  BY <1>1 DEF Ativo
<1>4. SemFuturo'
  BY <1>0, <1>3 DEF SemFuturo, Presente
<1>5. TravasDisjuntas'
  BY <1>0, <1>3 DEF TravasDisjuntas
<1>6. ASSUME NEW s \in Reqs, Ativo(s)'
      PROVE  /\ FormaDosPassos(pedidos'[s].id, pedidos'[s].passos)
             /\ ColunasPorVir(pedidos[s])' /\ EscritasCertas(pedidos[s])'
  <2>1. /\ FormaDosPassos(pedidos[s].id, pedidos[s].passos)
        /\ ColunasPorVir(pedidos[s]) /\ EscritasCertas(pedidos[s])
        /\ pedidos'[s] = pedidos[s]
    BY <1>0, <1>3, <1>6
  <2>2. ColunasPorVir(pedidos[s])'
    BY <2>1 DEF ColunasPorVir
  <2>3. EscritasCertas(pedidos[s])'
    BY <1>0, <2>1 DEF EscritasCertas, Presente
  <2> QED BY <2>1, <2>2, <2>3
<1> QED BY <1>2, <1>4, <1>5, <1>6 DEF KanbanInv

-----------------------------------------------------------------------------
(* Requests that begin. *)

LEMMA InvInicial == Init => KanbanInv
<1> SUFFICES ASSUME Init PROVE KanbanInv
  OBVIOUS
<1>1. TypeOK
  BY LimitesAssumption DEF Init, TypeOK
<1>2. \A r \in Reqs : ~Ativo(r)
  BY DEF Init, Ativo
<1>3. SemFuturo
  BY <1>2 DEF Init, SemFuturo, Presente
<1> QED BY <1>1, <1>2, <1>3 DEF KanbanInv, TravasDisjuntas

LEMMA InvIniciar ==
  ASSUME KanbanInv, NEW r \in Reqs, NEW tipo \in Tipos, NEW id \in 0 .. MaxIds,
         NEW lida \in Linha \cup {Ausente}, NEW passos \in Seq(Passo),
         id <= seq, FormaDosPassos(id, passos), Iniciar(r, tipo, id, lida, passos)
  PROVE  KanbanInv'
<1> DEFINE e == [i \in Ids |-> Intacta]
           q == [ fase |-> "transacao", tipo |-> tipo, id |-> id, lida |-> lida,
                  passos |-> passos, vistas |-> {}, travadas |-> {}, escritas |-> e ]
<1>1. e \in [Ids -> Linha \cup {Ausente, Intacta}] /\ \A i \in Ids : e[i] = Intacta
  OBVIOUS
<1>2. /\ pedidos' = [pedidos EXCEPT ![r] = q] /\ tarefas' = tarefas /\ seq' = seq
      /\ TypeOK
  BY DEF Iniciar, KanbanInv
<1> HIDE DEF e
<1>3. /\ q \in Transacao /\ q.id = id /\ q.passos = passos /\ q.vistas = {}
      /\ q.travadas = {} /\ q.escritas = e
  BY <1>1 DEF Transacao
<1> HIDE DEF q
<1>4. ColunasPorVir(q) /\ EscritasCertas(q)
  BY <1>1, <1>3 DEF ColunasPorVir, EscritasCertas
<1>5. seq' \in 0 .. MaxIds /\ seq <= seq' /\ q.id <= seq'
  BY <1>2, <1>3 DEF TypeOK
<1> QED BY <1>2, <1>3, <1>4, <1>5, InvSegue

LEMMA InvPedirCriacao ==
  ASSUME KanbanInv, NEW r \in Reqs, NEW c \in Colunas, NEW o \in Pedidas \cup {SemOrdem},
         PedirCriacao(r, c, o)
  PROVE  KanbanInv'
<1>1. PICK op \in {"gravar", "inserir"} : op = "inserir"
  OBVIOUS
<1>2. PICK id \in Nat : id = 0
  OBVIOUS
<1>3. o \in Ordem \cup {SemOrdem}
  BY LimitesAssumption
<1>4. Abrir(op, c, o) \in Seq(Passo) /\ FormaDosPassos(id, Abrir(op, c, o))
  BY <1>1, <1>3, FormaDeAbrir
<1>5. PICK tipo \in Tipos : tipo = "criar"
  BY DEF Tipos
<1>6. Iniciar(r, tipo, id, Ausente, Abrir(op, c, o))
  BY <1>1, <1>2, <1>5 DEF PedirCriacao
<1>7. id \in 0 .. MaxIds /\ id <= seq
  BY <1>2, LimitesAssumption DEF KanbanInv, TypeOK
<1> QED BY <1>4, <1>6, <1>7, InvIniciar

\* A task there is has an id that was issued.
LEMMA DaTabela ==
  ASSUME KanbanInv, NEW i \in Ids, Presente(i)
  PROVE  i \in Nat /\ i # 0 /\ i \in 0 .. MaxIds /\ i <= seq /\ tarefas[i] \in Linha
BY LimitesAssumption DEF KanbanInv, SemFuturo, TypeOK, Presente, Ids

LEMMA InvPedirMovimento ==
  ASSUME KanbanInv, NEW r \in Reqs, NEW i \in Ids, NEW c \in Colunas,
         NEW o \in Pedidas \cup {SemOrdem}, PedirMovimento(r, i, c, o)
  PROVE  KanbanInv'
<1>1. Presente(i)
  BY DEF PedirMovimento
<1>2. i \in Nat /\ i # 0 /\ i \in 0 .. MaxIds /\ i <= seq /\ tarefas[i] \in Linha
  BY <1>1, DaTabela
<1>3. o \in Ordem \cup {SemOrdem}
  BY LimitesAssumption
<1>4. /\ PassosMover(tarefas[i], c, o) \in Seq(Passo)
      /\ FormaDosPassos(i, PassosMover(tarefas[i], c, o))
  BY <1>2, <1>3, FormaDeMover
<1>5. PICK tipo \in Tipos : tipo = "mover"
  BY DEF Tipos
<1>6. Iniciar(r, tipo, i, tarefas[i], PassosMover(tarefas[i], c, o))
  BY <1>5 DEF PedirMovimento
<1> QED BY <1>2, <1>4, <1>6, InvIniciar

LEMMA InvPedirRemocao ==
  ASSUME KanbanInv, NEW r \in Reqs, NEW i \in Ids, PedirRemocao(r, i)
  PROVE  KanbanInv'
<1>1. Presente(i)
  BY DEF PedirRemocao
<1>2. i \in Nat /\ i # 0 /\ i \in 0 .. MaxIds /\ i <= seq /\ tarefas[i] \in Linha
  BY <1>1, DaTabela
<1>4. /\ PassosRemover(tarefas[i]) \in Seq(Passo)
      /\ FormaDosPassos(i, PassosRemover(tarefas[i]))
  BY <1>2, FormaDeRemover
<1>5. PICK tipo \in Tipos : tipo = "remover"
  BY DEF Tipos
<1>6. Iniciar(r, tipo, i, tarefas[i], PassosRemover(tarefas[i]))
  BY <1>5 DEF PedirRemocao
<1> QED BY <1>2, <1>4, <1>6, InvIniciar

LEMMA InvPedirEdicao ==
  ASSUME KanbanInv, NEW r \in Reqs, NEW i \in Ids, NEW o \in Editadas \cup {SemOrdem},
         PedirEdicao(r, i, o)
  PROVE  KanbanInv'
<1>1. Presente(i)
  BY DEF PedirEdicao
<1>2. i \in Nat /\ i # 0 /\ i \in 0 .. MaxIds /\ i <= seq /\ tarefas[i] \in Linha
  BY <1>1, DaTabela
<1> DEFINE l == IF o = SemOrdem THEN tarefas[i] ELSE [tarefas[i] EXCEPT !.ordem = o]
<1>3. l \in Linha
  BY <1>2, LimitesAssumption DEF Linha
<1>5. PICK tipo \in Tipos : tipo = "editar"
  BY DEF Tipos
<1>7. PICK op \in {"carregar", "reinserir"} : op = "carregar"
  OBVIOUS
<1> DEFINE s == << [op |-> op, linha |-> l] >>
<1>6. Iniciar(r, tipo, i, tarefas[i], s)
  BY <1>5, <1>7 DEF PedirEdicao
<1> HIDE DEF l
<1>4. s \in Seq(Passo) /\ FormaDosPassos(i, s)
  BY <1>2, <1>3, FormaDeEditar
<1> QED BY <1>2, <1>4, <1>6, InvIniciar

-----------------------------------------------------------------------------
(* Statements of a transaction. *)

LEMMA NoPasso ==
  ASSUME KanbanInv, NEW r \in Reqs, NEW op, Proximo(r, op)
  PROVE  /\ Ativo(r) /\ pedidos[r] \in Transacao
         /\ pedidos[r].passos \in Seq(Passo) /\ pedidos[r].passos # << >>
         /\ Tail(pedidos[r].passos) \in Seq(Passo)
         /\ Head(pedidos[r].passos) = pedidos[r].passos[1]
         /\ pedidos[r].passos[1] \in Passo /\ pedidos[r].passos[1].op = op
         /\ 1 \in 1 .. Len(pedidos[r].passos) /\ Len(pedidos[r].passos) \in Nat
         /\ FormaDosPassos(pedidos[r].id, pedidos[r].passos)
         /\ ColunasPorVir(pedidos[r]) /\ EscritasCertas(pedidos[r])
<1>1. Ativo(r)
  BY DEF Proximo, Ativo
<1>2. pedidos[r] \in Transacao
  BY <1>1, TransacaoAtiva DEF KanbanInv
<1>3. pedidos[r].passos \in Seq(Passo) /\ pedidos[r].passos # << >>
  BY <1>2, CamposDaTransacao DEF Proximo
<1>4. /\ Tail(pedidos[r].passos) \in Seq(Passo) /\ Len(pedidos[r].passos) \in Nat \ {0}
      /\ Head(pedidos[r].passos) = pedidos[r].passos[1]
      /\ pedidos[r].passos[1] \in Passo
  BY <1>3, Restantes
<1>5. /\ FormaDosPassos(pedidos[r].id, pedidos[r].passos)
      /\ ColunasPorVir(pedidos[r]) /\ EscritasCertas(pedidos[r])
  BY <1>1 DEF KanbanInv
<1> QED BY <1>1, <1>2, <1>3, <1>4, <1>5 DEF Proximo

\* A transaction that has run its first statement, which is not the one that finds the
\* last task: what it has written of others' rows it had written before, or is in the
\* column shifted now, or there is nothing more to run.
LEMMA InvAnda ==
  ASSUME KanbanInv, NEW r \in Reqs, NEW op, Proximo(r, op), op # "ultima",
         NEW q \in Transacao, pedidos' = [pedidos EXCEPT ![r] = q], tarefas' = tarefas,
         q.id = pedidos[r].id, q.passos = Tail(pedidos[r].passos), EscritasCertas(q),
         seq' \in 0 .. MaxIds, seq <= seq',
         \A i \in q.vistas \cup q.travadas : i <= seq',
         \A s \in Reqs \ {r} : Ativo(s) => q.travadas \cap pedidos[s].travadas = {},
         \A i \in Ids : i # q.id /\ q.escritas[i] # Intacta =>
            \/ q.escritas[i] = pedidos[r].escritas[i]
            \/ op = "reordenar" /\ q.escritas[i].coluna = pedidos[r].passos[1].coluna
            \/ op = "inserir"
  PROVE  KanbanInv'
<1> DEFINE p == pedidos[r]
<1>1. /\ p \in Transacao /\ p.passos \in Seq(Passo) /\ p.passos # << >>
      /\ Tail(p.passos) \in Seq(Passo) /\ p.passos[1].op = op
      /\ 1 \in 1 .. Len(p.passos) /\ Len(p.passos) \in Nat
      /\ FormaDosPassos(p.id, p.passos) /\ ColunasPorVir(p) /\ Ativo(r)
  BY NoPasso
<1>3. /\ q.id = p.id /\ q.passos = Tail(p.passos)
      /\ \A i \in Ids : i # q.id /\ q.escritas[i] # Intacta =>
            \/ q.escritas[i] = p.escritas[i]
            \/ op = "reordenar" /\ q.escritas[i].coluna = p.passos[1].coluna
            \/ op = "inserir"
  OBVIOUS
<1> HIDE DEF p
<1>4. FormaDosPassos(q.id, q.passos)
  <2>1. p.id \in Nat
    BY <1>1, CamposDaTransacao
  <2>2. FormaDosPassos(p.id, Tail(p.passos))
    BY <1>1, <2>1, FormaAvanca
  <2> QED BY <1>3, <2>2
<1>5. /\ Len(q.passos) = Len(p.passos) - 1
      /\ \A k \in 1 .. Len(q.passos) :
            q.passos[k] = p.passos[k + 1] /\ k + 1 \in 1 .. Len(p.passos) /\ k + 1 # 1
  <2>1. /\ Len(Tail(p.passos)) = Len(p.passos) - 1
        /\ \A k \in 1 .. Len(Tail(p.passos)) : Tail(p.passos)[k] = p.passos[k + 1]
    BY <1>1, Restantes
  <2>2. q.passos = Tail(p.passos)
    BY <1>3
  <2>3. \A k \in 1 .. Len(p.passos) - 1 : k + 1 \in 1 .. Len(p.passos) /\ k + 1 # 1
    BY <1>1
  <2> QED BY <2>1, <2>2, <2>3
<1>6. ColunasPorVir(q)
  <2> SUFFICES ASSUME NEW k \in 1 .. Len(q.passos), q.passos[k].op = "reordenar",
                      NEW i \in Ids \ {q.id}, q.escritas[i] # Intacta,
                      q.escritas[i] # Ausente
               PROVE  q.escritas[i].coluna # q.passos[k].coluna
    BY DEF ColunasPorVir
  <2>1. /\ k + 1 \in 1 .. Len(p.passos) /\ p.passos[k + 1].op = "reordenar"
        /\ q.passos[k].coluna = p.passos[k + 1].coluna /\ k + 1 # 1
    BY <1>5
  <2>2. CASE q.escritas[i] = p.escritas[i]
    BY <1>1, <1>3, <2>1, <2>2 DEF ColunasPorVir
  <2>3. CASE op = "reordenar" /\ q.escritas[i].coluna = p.passos[1].coluna
    <3>1. p.passos[1].coluna # p.passos[k + 1].coluna
      BY <1>1, <2>1, <2>3 DEF FormaDosPassos, CadaColunaUmaVez
    <3> QED BY <2>1, <2>3, <3>1
  <2>4. CASE op = "inserir"
    <3>1. 1 = Len(p.passos)
      BY <1>1, <2>4 DEF FormaDosPassos, InserirNoFim
    <3> QED BY <1>5, <3>1
  <2> QED BY <1>3, <2>2, <2>3, <2>4
<1>8. q.id <= seq'
  <2>1. p.id <= seq /\ seq \in Nat
    BY <1>1, LimitesAssumption DEF KanbanInv, SemFuturo, TypeOK, p
  <2>2. p.id \in Nat /\ seq' \in Nat
    BY <1>1, CamposDaTransacao
  <2> QED BY <1>3, <2>1, <2>2
<1> QED BY <1>4, <1>6, <1>8, InvSegue

\* What a transaction sees of a row.
LEMMA TipoDaVista ==
  ASSUME KanbanInv, NEW r \in Reqs, Ativo(r), NEW i \in Ids
  PROVE  /\ Vista(r, i) \in Linha \cup {Ausente}
         /\ Vista(r, i) # Ausente => Vista(r, i) \in Linha /\ i <= seq
         /\ pedidos[r].escritas[i] = Intacta => Vista(r, i) = tarefas[i]
         /\ pedidos[r].escritas[i] # Intacta => Vista(r, i) = pedidos[r].escritas[i]
<1>1. pedidos[r] \in Transacao /\ tarefas[i] \in Linha \cup {Ausente}
  BY TransacaoAtiva DEF KanbanInv, TypeOK
<1>2. pedidos[r].escritas[i] \in Linha \cup {Ausente, Intacta}
  BY <1>1, CamposDaTransacao
<1>3. pedidos[r].escritas[i] # Intacta => i <= seq
  <2>1. pedidos[r].escritas[i] # Intacta => i \in pedidos[r].travadas
    BY DEF KanbanInv, EscritasCertas
  <2> QED BY <2>1 DEF KanbanInv, SemFuturo
<1>4. tarefas[i] # Ausente => i <= seq
  BY DEF KanbanInv, SemFuturo, Presente
<1> QED BY <1>1, <1>2, <1>3, <1>4, SentinelasAssumption DEF Vista

\* What a transaction in progress has, piece by piece.
LEMMA DoPedido ==
  ASSUME KanbanInv, NEW r \in Reqs, Ativo(r)
  PROVE  /\ pedidos[r].vistas \in SUBSET Ids /\ pedidos[r].travadas \in SUBSET Ids
         /\ pedidos[r].escritas \in [Ids -> Linha \cup {Ausente, Intacta}]
         /\ pedidos[r].id \in Nat /\ pedidos[r].id \in 0 .. MaxIds /\ pedidos[r].id <= seq
         /\ pedidos[r].lida \in Linha \cup {Ausente}
         /\ \A i \in pedidos[r].vistas \cup pedidos[r].travadas : i <= seq
         /\ \A s \in Reqs \ {r} :
               Ativo(s) => pedidos[r].travadas \cap pedidos[s].travadas = {}
         /\ \A i \in Ids : pedidos[r].escritas[i] # Intacta =>
               /\ i \in pedidos[r].travadas
               /\ i # pedidos[r].id =>
                     /\ pedidos[r].escritas[i] # Ausente
                     /\ Presente(i) => Vizinha(pedidos[r].escritas[i], tarefas[i])
<1>1. pedidos[r] \in Transacao
  BY TransacaoAtiva DEF KanbanInv
<1>2. /\ pedidos[r].id <= seq
      /\ \A i \in pedidos[r].vistas \cup pedidos[r].travadas : i <= seq
  BY DEF KanbanInv, SemFuturo
<1>3. \A s \in Reqs \ {r} :
         Ativo(s) => pedidos[r].travadas \cap pedidos[s].travadas = {}
  BY DEF KanbanInv, TravasDisjuntas
<1>4. EscritasCertas(pedidos[r])
  BY DEF KanbanInv
<1> QED BY <1>1, <1>2, <1>3, <1>4, CamposDaTransacao DEF EscritasCertas

LEMMA SeqTipada == KanbanInv => seq \in Nat /\ seq \in 0 .. MaxIds
BY LimitesAssumption DEF KanbanInv, TypeOK

\* A statement that writes nothing.
LEMMA InvSoAnda ==
  ASSUME KanbanInv, NEW r \in Reqs, NEW op, Proximo(r, op), op # "ultima",
         NEW v \in SUBSET Ids, \A i \in v : i <= seq,
         pedidos' = [pedidos EXCEPT ![r] =
            [pedidos[r] EXCEPT !.passos = Tail(@), !.vistas = v]],
         tarefas' = tarefas, seq' = seq
  PROVE  KanbanInv'
<1> DEFINE p == pedidos[r]
           q == [p EXCEPT !.passos = Tail(@), !.vistas = v]
<1>1. Ativo(r) /\ p \in Transacao /\ Tail(p.passos) \in Seq(Passo) /\ EscritasCertas(p)
  BY NoPasso
<1>2. /\ \A i \in p.travadas : i <= seq
      /\ \A s \in Reqs \ {r} : Ativo(s) => p.travadas \cap pedidos[s].travadas = {}
  BY <1>1, DoPedido
<1>3. pedidos' = [pedidos EXCEPT ![r] = q]
  OBVIOUS
<1>4. /\ q \in Transacao /\ q.id = pedidos[r].id /\ q.passos = Tail(pedidos[r].passos)
      /\ q.vistas = v /\ q.travadas = p.travadas /\ q.escritas = p.escritas
  BY <1>1 DEF Transacao
<1> HIDE DEF q
<1>5. EscritasCertas(q)
  BY <1>1, <1>4 DEF EscritasCertas
<1>6. /\ seq' \in 0 .. MaxIds /\ seq <= seq'
      /\ \A i \in q.vistas \cup q.travadas : i <= seq'
  BY <1>2, <1>4, SeqTipada
<1>7. \A s \in Reqs \ {r} : Ativo(s) => q.travadas \cap pedidos[s].travadas = {}
  BY <1>2, <1>4
<1>8. \A i \in Ids : i # q.id /\ q.escritas[i] # Intacta =>
         \/ q.escritas[i] = pedidos[r].escritas[i]
         \/ op = "reordenar" /\ q.escritas[i].coluna = pedidos[r].passos[1].coluna
         \/ op = "inserir"
  BY <1>4
<1> HIDE DEF p
<1> QED BY <1>3, <1>4, <1>5, <1>6, <1>7, <1>8, InvAnda

\* A statement that writes one row: its own task's, or one whose id was just issued.
LEMMA InvEscreve ==
  ASSUME KanbanInv, NEW r \in Reqs, NEW op, Proximo(r, op), op # "ultima",
         NEW j \in Ids, NEW l \in Linha \cup {Ausente},
         pedidos' = [pedidos EXCEPT ![r] =
            [Escrever(pedidos[r], j, l) EXCEPT !.passos = Tail(@)]],
         tarefas' = tarefas, seq' \in 0 .. MaxIds, seq <= seq', j <= seq',
         \A s \in Reqs \ {r} : Ativo(s) => j \notin pedidos[s].travadas,
         j = pedidos[r].id \/ (op = "inserir" /\ l # Ausente /\ ~Presente(j))
  PROVE  KanbanInv'
<1> DEFINE p == pedidos[r]
           q == [Escrever(p, j, l) EXCEPT !.passos = Tail(@)]
<1>1. Ativo(r) /\ p \in Transacao /\ Tail(p.passos) \in Seq(Passo) /\ EscritasCertas(p)
  BY NoPasso
<1>2. /\ \A i \in p.vistas \cup p.travadas : i <= seq
      /\ \A s \in Reqs \ {r} : Ativo(s) => p.travadas \cap pedidos[s].travadas = {}
      /\ p.vistas \subseteq Ids /\ p.travadas \subseteq Ids
  BY <1>1, DoPedido
<1>3. pedidos' = [pedidos EXCEPT ![r] = q]
  OBVIOUS
<1>4. /\ q \in Transacao /\ q.id = pedidos[r].id /\ q.passos = Tail(pedidos[r].passos)
      /\ q.vistas = p.vistas /\ q.travadas = p.travadas \cup {j}
      /\ q.escritas = [p.escritas EXCEPT ![j] = l]
  BY <1>1 DEF Transacao, Escrever
<1> HIDE DEF q
<1>5. q.escritas[j] = l /\ \A i \in Ids \ {j} : q.escritas[i] = p.escritas[i]
  BY <1>1, <1>4, CamposDaTransacao
<1>6. \A i \in q.vistas \cup q.travadas : i <= seq'
  <2>1. \A i \in p.vistas \cup p.travadas : i \in Nat /\ i <= seq
    BY <1>2, LimitesAssumption DEF Ids
  <2>2. seq \in Nat /\ seq' \in Nat
    BY SeqTipada
  <2> QED BY <1>4, <2>1, <2>2
<1>7. \A s \in Reqs \ {r} : Ativo(s) => q.travadas \cap pedidos[s].travadas = {}
  BY <1>2, <1>4
<1>8. EscritasCertas(q)
  <2> SUFFICES ASSUME NEW i \in Ids, q.escritas[i] # Intacta
               PROVE  /\ i \in q.travadas
                      /\ i # q.id =>
                            /\ q.escritas[i] # Ausente
                            /\ Presente(i) => Vizinha(q.escritas[i], tarefas[i])
    BY DEF EscritasCertas
  <2>1. CASE i = j
    BY <1>4, <1>5, <2>1
  <2>2. CASE i # j
    BY <1>1, <1>4, <1>5, <2>2 DEF EscritasCertas
  <2> QED BY <2>1, <2>2
<1>9. \A i \in Ids : i # q.id /\ q.escritas[i] # Intacta =>
         \/ q.escritas[i] = pedidos[r].escritas[i]
         \/ op = "reordenar" /\ q.escritas[i].coluna = pedidos[r].passos[1].coluna
         \/ op = "inserir"
  BY <1>4, <1>5
<1> HIDE DEF p
<1> QED BY <1>3, <1>4, <1>6, <1>7, <1>8, <1>9, InvAnda

LEMMA InvSelecionar ==
  ASSUME KanbanInv, NEW r \in Reqs, Selecionar(r)
  PROVE  KanbanInv'
<1> DEFINE p == pedidos[r]
           v == NaColuna(r, Head(p.passos).coluna)
<1>0. PICK op : op = "selecionar"
  OBVIOUS
<1>1. Proximo(r, op) /\ op # "ultima" /\ tarefas' = tarefas /\ seq' = seq
  BY <1>0 DEF Selecionar, Seguir
<1>2. Ativo(r) /\ p \in Transacao
  BY <1>1, NoPasso
<1>3. v \in SUBSET Ids /\ \A i \in v : i <= seq
  BY <1>2, TipoDaVista DEF NaColuna
<1>4. pedidos' = [pedidos EXCEPT ![r] =
         [[p EXCEPT !.vistas = v] EXCEPT !.passos = Tail(@)]]
  BY DEF Selecionar, Seguir
<1> HIDE DEF v
<1>5. [[p EXCEPT !.vistas = v] EXCEPT !.passos = Tail(@)]
         = [p EXCEPT !.passos = Tail(@), !.vistas = v]
  BY <1>2 DEF Transacao
<1> QED BY <1>1, <1>3, <1>4, <1>5, InvSoAnda

\* Its own task, not locked by another.
LEMMA InvEscreveSua ==
  ASSUME KanbanInv, NEW r \in Reqs, NEW op, Proximo(r, op),
         op \in {"gravar", "remover", "salvar", "reinserir"},
         ~TravadaPorOutra(r, pedidos[r].id), NEW l \in Linha \cup {Ausente},
         Seguir(r, Escrever(pedidos[r], pedidos[r].id, l)), seq' = seq
  PROVE  KanbanInv'
<1> DEFINE j == pedidos[r].id
<1>1. Ativo(r)
  BY NoPasso
<1>2. /\ pedidos[r].passos[1].op = op /\ FormaDosPassos(j, pedidos[r].passos)
      /\ 1 \in 1 .. Len(pedidos[r].passos)
  BY NoPasso
<1>3. j # 0
  BY <1>2 DEF FormaDosPassos, SuaTarefa
<1>4. j \in Nat /\ j \in 0 .. MaxIds /\ j <= seq
  BY <1>1, DoPedido
<1>5. j \in Ids
  BY <1>3, <1>4, LimitesAssumption DEF Ids
<1>6. /\ pedidos' = [pedidos EXCEPT ![r] =
            [Escrever(pedidos[r], j, l) EXCEPT !.passos = Tail(@)]]
      /\ tarefas' = tarefas
  BY DEF Seguir
<1>7. \A s \in Reqs \ {r} : Ativo(s) => j \notin pedidos[s].travadas
  BY DEF TravadaPorOutra, Ativo
<1>8. seq' \in 0 .. MaxIds /\ seq <= seq' /\ j <= seq'
  BY <1>4, SeqTipada
<1>9. op # "ultima"
  OBVIOUS
<1> HIDE DEF j
<1>10. j = pedidos[r].id \/ (op = "inserir" /\ l # Ausente /\ ~Presente(j))
  BY DEF j
<1> QED BY <1>5, <1>6, <1>7, <1>8, <1>9, <1>10, InvEscreve

\* Nothing to write.
LEMMA InvPula ==
  ASSUME KanbanInv, NEW r \in Reqs, NEW op, Proximo(r, op), op # "ultima",
         Seguir(r, pedidos[r]), seq' = seq
  PROVE  KanbanInv'
<1> DEFINE v == pedidos[r].vistas
<1>1. Ativo(r) /\ pedidos[r] \in Transacao
  BY NoPasso
<1>2. v \in SUBSET Ids /\ \A i \in v : i <= seq
  BY <1>1, DoPedido
<1>3. [pedidos[r] EXCEPT !.passos = Tail(@)]
         = [pedidos[r] EXCEPT !.passos = Tail(@), !.vistas = v]
  BY <1>1 DEF Transacao
<1>4. /\ pedidos' = [pedidos EXCEPT ![r] =
            [pedidos[r] EXCEPT !.passos = Tail(@), !.vistas = v]]
      /\ tarefas' = tarefas
  BY <1>3 DEF Seguir
<1> HIDE DEF v
<1> QED BY <1>2, <1>4, InvSoAnda

LEMMA InvGravarPosicao ==
  ASSUME KanbanInv, NEW r \in Reqs, GravarPosicao(r)
  PROVE  KanbanInv'
<1> DEFINE p == pedidos[r]
           g == Head(p.passos)
           l == [coluna |-> g.coluna, ordem |-> g.ordem]
<1>0. PICK op \in {"gravar", "remover", "salvar", "reinserir"} : op = "gravar"
  OBVIOUS
<1>1. Proximo(r, op) /\ seq' = seq /\ ~TravadaPorOutra(r, p.id) /\ op # "ultima"
  BY <1>0 DEF GravarPosicao
<1>2. /\ g = p.passos[1] /\ g \in Passo /\ g.op = op
      /\ FormaDosPassos(p.id, p.passos) /\ 1 \in 1 .. Len(p.passos)
  BY <1>1, NoPasso
<1>3. g \in Gravacao /\ g.ordem # SemOrdem
  <2>1. g \in Gravacao
    BY <1>0, <1>2, TiposDePassos
  <2>2. g.ordem = SemOrdem => 1 - 1 \in 1 .. Len(p.passos)
    BY <1>0, <1>2 DEF FormaDosPassos, GravarDepoisDaUltima
  <2> QED BY <2>1, <2>2
<1>4. l \in Linha \cup {Ausente}
  BY <1>3 DEF Gravacao, Linha
<1>5. \/ Seguir(r, Escrever(p, p.id, l))
      \/ Seguir(r, p)
  BY DEF GravarPosicao
<1> HIDE DEF g, l
<1>6. CASE Seguir(r, Escrever(p, p.id, l))
  BY <1>1, <1>4, <1>6, InvEscreveSua
<1>7. CASE Seguir(r, p)
  BY <1>1, <1>7, InvPula
<1> QED BY <1>5, <1>6, <1>7

LEMMA InvRemoverTarefa ==
  ASSUME KanbanInv, NEW r \in Reqs, RemoverTarefa(r)
  PROVE  KanbanInv'
<1> DEFINE p == pedidos[r]
<1>0. PICK op \in {"gravar", "remover", "salvar", "reinserir"} : op = "remover"
  OBVIOUS
<1>1. Proximo(r, op) /\ seq' = seq /\ ~TravadaPorOutra(r, p.id) /\ op # "ultima"
  BY <1>0 DEF RemoverTarefa
<1>2. PICK l \in Linha \cup {Ausente} : l = Ausente
  OBVIOUS
<1>5. \/ Seguir(r, Escrever(p, p.id, l))
      \/ Seguir(r, p)
  BY <1>2 DEF RemoverTarefa
<1>6. CASE Seguir(r, Escrever(p, p.id, l))
  BY <1>1, <1>6, InvEscreveSua
<1>7. CASE Seguir(r, p)
  BY <1>1, <1>7, InvPula
<1> QED BY <1>5, <1>6, <1>7

LEMMA InvSalvarTarefa ==
  ASSUME KanbanInv, NEW r \in Reqs, SalvarTarefa(r)
  PROVE  KanbanInv'
<1> DEFINE p == pedidos[r]
           s == Head(p.passos)
           l == [k \in Campos |-> IF k \in s.campos THEN s.linha[k] ELSE tarefas[p.id][k]]
<1>0. PICK op \in {"gravar", "remover", "salvar", "reinserir"} : op = "salvar"
  OBVIOUS
<1>1. Proximo(r, op) /\ seq' = seq /\ ~TravadaPorOutra(r, p.id) /\ op # "ultima"
  BY <1>0 DEF SalvarTarefa
<1>2. /\ s = p.passos[1] /\ s \in Passo /\ s.op = op /\ Ativo(r)
      /\ FormaDosPassos(p.id, p.passos) /\ 1 \in 1 .. Len(p.passos)
  BY <1>1, NoPasso
<1>3. s \in Salvamento
  BY <1>0, <1>2, TiposDePassos
<1>4. \/ Presente(p.id) /\ Seguir(r, Escrever(p, p.id, l))
      \/ Seguir(r, p)
  BY DEF SalvarTarefa
<1>5. CASE Presente(p.id) /\ Seguir(r, Escrever(p, p.id, l))
  <2>1. p.id \in Ids
    <3>1. p.id \in Nat /\ p.id \in 0 .. MaxIds
      BY <1>2, DoPedido
    <3>2. p.id # 0
      BY <1>0, <1>2 DEF FormaDosPassos, SuaTarefa
    <3> QED BY <3>1, <3>2, LimitesAssumption DEF Ids
  <2>2. tarefas[p.id] \in Linha /\ s.linha \in Linha
    BY <1>3, <1>5, <2>1, DaTabela DEF Salvamento
  <2> DEFINE a == tarefas[p.id]
             b == s.linha
             cs == s.campos
  <2>3. l = [k \in Campos |-> IF k \in cs THEN b[k] ELSE a[k]]
    OBVIOUS
  <2> HIDE DEF a, b, cs
  <2>4. [k \in Campos |-> IF k \in cs THEN b[k] ELSE a[k]] \in Linha
    BY <2>2 DEF Linha, Campos, a, b
  <2>5. l \in Linha \cup {Ausente}
    BY <2>3, <2>4
  <2> HIDE DEF l, s
  <2> QED BY <1>1, <1>5, <2>5, InvEscreveSua
<1>6. CASE Seguir(r, p)
  BY <1>1, <1>6, InvPula
<1> QED BY <1>4, <1>5, <1>6

LEMMA InvReinserirTarefa ==
  ASSUME KanbanInv, NEW r \in Reqs, ReinserirTarefa(r)
  PROVE  KanbanInv'
<1> DEFINE p == pedidos[r]
           l == Head(p.passos).linha
<1>0. PICK op \in {"gravar", "remover", "salvar", "reinserir"} : op = "reinserir"
  OBVIOUS
<1>1. /\ Proximo(r, op) /\ seq' = seq /\ ~TravadaPorOutra(r, p.id)
      /\ Seguir(r, Escrever(p, p.id, l))
  BY <1>0 DEF ReinserirTarefa
<1>2. /\ Head(p.passos) = p.passos[1] /\ p.passos[1] \in Passo /\ p.passos[1].op = op
  BY <1>1, NoPasso
<1>3. p.passos[1] \in Carga
  BY <1>0, <1>2, TiposDePassos
<1>4. l \in Linha \cup {Ausente}
  BY <1>2, <1>3 DEF Carga
<1> HIDE DEF l
<1> QED BY <1>1, <1>4, InvEscreveSua

LEMMA InvInserirTarefa ==
  ASSUME KanbanInv, NEW r \in Reqs, InserirTarefa(r)
  PROVE  KanbanInv'
<1> DEFINE p == pedidos[r]
           g == Head(p.passos)
           l == [coluna |-> g.coluna, ordem |-> g.ordem]
           j == seq + 1
<1>0. PICK op : op = "inserir"
  OBVIOUS
<1>1. Proximo(r, op) /\ seq' = seq + 1 /\ seq < MaxIds /\ op # "ultima"
  BY <1>0 DEF InserirTarefa
<1>2. /\ g = p.passos[1] /\ g \in Passo /\ g.op = op /\ Ativo(r)
      /\ FormaDosPassos(p.id, p.passos) /\ 1 \in 1 .. Len(p.passos)
  BY <1>1, NoPasso
<1>3. g \in Gravacao /\ g.ordem # SemOrdem
  <2>1. g \in Gravacao
    BY <1>0, <1>2, TiposDePassos
  <2>2. g.ordem = SemOrdem => 1 - 1 \in 1 .. Len(p.passos)
    BY <1>0, <1>2 DEF FormaDosPassos, GravarDepoisDaUltima
  <2> QED BY <2>1, <2>2
<1>4. l \in Linha /\ l # Ausente
  BY <1>3, SentinelasAssumption DEF Gravacao, Linha
<1>5. /\ pedidos' = [pedidos EXCEPT ![r] =
            [Escrever(pedidos[r], j, l) EXCEPT !.passos = Tail(@)]]
      /\ tarefas' = tarefas
  BY DEF InserirTarefa, Seguir
<1>6. /\ seq \in Nat /\ MaxIds \in Nat /\ j \in Ids /\ seq' \in 0 .. MaxIds
      /\ seq <= seq' /\ j <= seq' /\ ~(j <= seq)
  BY <1>1, SeqTipada, LimitesAssumption DEF Ids
<1>7. ~Presente(j)
  BY <1>6 DEF KanbanInv, SemFuturo
<1>8. \A s \in Reqs \ {r} : Ativo(s) => j \notin pedidos[s].travadas
  BY <1>6 DEF KanbanInv, SemFuturo
<1> HIDE DEF g, l, j
<1>9. j = pedidos[r].id \/ (op = "inserir" /\ l # Ausente /\ ~Presente(j))
  BY <1>0, <1>4, <1>7
<1> QED BY <1>1, <1>4, <1>5, <1>6, <1>8, <1>9, InvEscreve

LEMMA FormaDeSalvar ==
  ASSUME NEW l \in Linha, NEW cs \in SUBSET Campos, NEW id \in Nat, id # 0,
         NEW s, s = << [op |-> "salvar", linha |-> l, campos |-> cs] >>
  PROVE  s \in Seq(Passo) /\ FormaDosPassos(id, s) /\ Len(s) = 1 /\ s[1].op = "salvar"
<1> DEFINE a == [op |-> "salvar", linha |-> l, campos |-> cs]
<1>1. a \in Passo /\ a.op = "salvar"
  BY DEF Passo, Salvamento
<1>2. s = << a >>
  OBVIOUS
<1> HIDE DEF a
<1>3. s \in Seq(Passo) /\ Len(s) = 1 /\ s[1] = a
  BY <1>1, <1>2
<1>4. FormaDosPassos(id, s)
  BY <1>1, <1>3, FormaDeUm
<1> QED BY <1>1, <1>3, <1>4

\* save finds the row, or not.
LEMMA InvCarregarTarefa ==
  ASSUME KanbanInv, NEW r \in Reqs, CarregarTarefa(r)
  PROVE  KanbanInv'
<1> DEFINE p == pedidos[r]
           l == Head(p.passos).linha
           cs == { k \in Campos : l[k] # tarefas[p.id][k] }
<1>0. PICK op : op = "carregar"
  OBVIOUS
<1>1. Proximo(r, op) /\ tarefas' = tarefas /\ seq' = seq
  BY <1>0 DEF CarregarTarefa
<1>2. /\ Ativo(r) /\ p \in Transacao /\ Head(p.passos) = p.passos[1]
      /\ p.passos[1] \in Passo
      /\ p.passos[1].op = op /\ FormaDosPassos(p.id, p.passos) /\ 1 \in 1 .. Len(p.passos)
      /\ EscritasCertas(p)
  BY <1>1, NoPasso
<1>3. l \in Linha
  <2>1. p.passos[1] \in Carga
    BY <1>0, <1>2, TiposDePassos
  <2> QED BY <1>2, <2>1 DEF Carga
<1>4. p.id \in Nat /\ p.id # 0
  <2>1. p.id # 0
    BY <1>0, <1>2 DEF FormaDosPassos, SuaTarefa
  <2> QED BY <1>2, <2>1, CamposDaTransacao
<1>5. PICK s : /\ pedidos' = [pedidos EXCEPT ![r].passos = s]
               /\ s \in Seq(Passo) /\ FormaDosPassos(p.id, s) /\ Len(s) = 1
               /\ s[1].op # "reordenar"
  <2>1. CASE Presente(p.id)
    <3> DEFINE s == << [op |-> "salvar", linha |-> l, campos |-> cs] >>
    <3>1. pedidos' = [pedidos EXCEPT ![r].passos = s]
      BY <2>1 DEF CarregarTarefa
    <3>2. cs \in SUBSET Campos
      OBVIOUS
    <3> HIDE DEF l, cs
    <3>3. s \in Seq(Passo) /\ FormaDosPassos(p.id, s) /\ Len(s) = 1 /\ s[1].op = "salvar"
      BY <1>3, <1>4, <3>2, FormaDeSalvar
    <3> QED BY <3>1, <3>3
  <2>2. CASE ~Presente(p.id)
    <3>0. PICK op2 \in {"carregar", "reinserir"} : op2 = "reinserir"
      OBVIOUS
    <3> DEFINE s == << [op |-> op2, linha |-> l] >>
    <3>1. pedidos' = [pedidos EXCEPT ![r].passos = s]
      BY <2>2, <3>0 DEF CarregarTarefa
    <3> HIDE DEF l
    <3>3. s \in Seq(Passo) /\ FormaDosPassos(p.id, s) /\ Len(s) = 1 /\ s[1].op = op2
      BY <1>3, <1>4, FormaDeEditar
    <3> QED BY <3>0, <3>1, <3>3
  <2> QED BY <2>1, <2>2
<1> DEFINE q == [p EXCEPT !.passos = s]
<1>6. pedidos' = [pedidos EXCEPT ![r] = q]
  BY <1>5
<1>7. /\ q \in Transacao /\ q.id = p.id /\ q.passos = s /\ q.vistas = p.vistas
      /\ q.travadas = p.travadas /\ q.escritas = p.escritas
  BY <1>2, <1>5 DEF Transacao
<1> HIDE DEF q
<1>8. FormaDosPassos(q.id, q.passos)
  BY <1>5, <1>7
<1>9. ColunasPorVir(q)
  <2>1. \A k \in 1 .. Len(s) : s[k].op # "reordenar"
    BY <1>5
  <2> QED BY <1>7, <2>1 DEF ColunasPorVir
<1>10. EscritasCertas(q)
  BY <1>2, <1>7 DEF EscritasCertas
<1>11. /\ q.id <= seq' /\ seq' \in 0 .. MaxIds /\ seq <= seq'
       /\ \A i \in q.vistas \cup q.travadas : i <= seq'
       /\ \A z \in Reqs \ {r} : Ativo(z) => q.travadas \cap pedidos[z].travadas = {}
  BY <1>1, <1>2, <1>7, DoPedido, SeqTipada
<1> HIDE DEF p
<1> QED BY <1>1, <1>6, <1>7, <1>8, <1>9, <1>10, <1>11, InvSegue

\* The statement after the one that finds the last task of the column gets its position.
LEMMA InvLerUltima ==
  ASSUME KanbanInv, NEW r \in Reqs, LerUltima(r)
  PROVE  KanbanInv'
<1> DEFINE p == pedidos[r]
           s == p.passos
<1>0. PICK op : op = "ultima"
  OBVIOUS
<1>1. Proximo(r, op) /\ tarefas' = tarefas /\ seq' = seq
  BY <1>0 DEF LerUltima, Seguir
<1>2. /\ Ativo(r) /\ p \in Transacao /\ s \in Seq(Passo) /\ s # << >> /\ s[1].op = op
      /\ FormaDosPassos(p.id, s) /\ 1 \in 1 .. Len(s) /\ Len(s) \in Nat
      /\ EscritasCertas(p) /\ ColunasPorVir(p)
  BY <1>1, NoPasso
<1>3. PICK o \in 0 .. MaxOrdem - 1 :
         pedidos' = [pedidos EXCEPT ![r] =
            [[p EXCEPT !.passos[2].ordem = o + 1] EXCEPT !.passos = Tail(@)]]
  BY DEF LerUltima, Seguir
<1>4. o + 1 \in Ordem /\ o + 1 # SemOrdem
  BY LimitesAssumption, SentinelasAssumption DEF Ordem
<1>5. 2 \in 1 .. Len(s) /\ s[2].op \in {"gravar", "inserir"}
  BY <1>0, <1>2 DEF FormaDosPassos, UltimaAntesDeGravar
<1>6. s[2] \in Gravacao
  <2>1. s[2] \in Passo
    BY <1>2, <1>5
  <2> QED BY <1>5, <2>1, TiposDePassos
<1> DEFINE g == [s[2] EXCEPT !.ordem = o + 1]
           u == [s EXCEPT ![2] = g]
           t == Tail(u)
           q == [p EXCEPT !.passos = t]
<1>7. g \in Passo /\ g.op = s[2].op /\ g.ordem = o + 1
  BY <1>4, <1>6 DEF Gravacao, Passo
<1>8. pedidos' = [pedidos EXCEPT ![r] = q]
  <2>1. [[p EXCEPT !.passos[2].ordem = o + 1] EXCEPT !.passos = Tail(@)] = q
    BY <1>2 DEF Transacao
  <2> QED BY <1>3, <2>1
<1> HIDE DEF g, s
<1>9. /\ u \in Seq(Passo) /\ Len(u) = Len(s) /\ u[2] = g
      /\ \A k \in 1 .. Len(s) : k # 2 => u[k] = s[k]
  BY <1>2, <1>5, <1>7
<1> HIDE DEF u
<1>10. /\ t \in Seq(Passo) /\ Len(t) = Len(s) - 1
       /\ \A k \in 1 .. Len(t) : t[k] = u[k + 1] /\ k + 1 \in 1 .. Len(s) /\ k + 1 # 1
  <2>1. u # << >>
    BY <1>5, <1>9
  <2>2. /\ t \in Seq(Passo) /\ Len(t) = Len(u) - 1
        /\ \A k \in 1 .. Len(t) : t[k] = u[k + 1]
    BY <1>9, <2>1, Restantes
  <2>3. \A k \in 1 .. Len(s) - 1 : k + 1 \in 1 .. Len(s) /\ k + 1 # 1
    BY <1>2
  <2> QED BY <1>9, <2>2, <2>3
<1>11. /\ q \in Transacao /\ q.id = p.id /\ q.passos = t /\ q.vistas = p.vistas
       /\ q.travadas = p.travadas /\ q.escritas = p.escritas
  BY <1>2, <1>10 DEF Transacao
<1> HIDE DEF t, q
\* The positions aside, the statements are those that followed the first.
<1>12. /\ 1 \in 1 .. Len(t) /\ t[1] = g
       /\ \A k \in 1 .. Len(t) : k # 1 => t[k] = s[k + 1]
       /\ \A k \in 1 .. Len(t) : t[k].op = s[k + 1].op
  <2>1. 1 \in 1 .. Len(t) /\ t[1] = g
    BY <1>2, <1>5, <1>9, <1>10
  <2>2. \A k \in 1 .. Len(t) : k # 1 => k + 1 # 2 /\ k + 1 \in 1 .. Len(s)
    BY <1>10
  <2>3. \A k \in 1 .. Len(t) : k # 1 => t[k] = s[k + 1]
    BY <1>9, <1>10, <2>2
  <2> QED BY <1>7, <2>1, <2>3
<1>13. FormaDosPassos(p.id, t)
  <2>1. CadaColunaUmaVez(t)
    <3> SUFFICES ASSUME NEW k \in 1 .. Len(t), NEW l \in 1 .. Len(t),
                        t[k].op = "reordenar", t[l].op = "reordenar", k # l
                 PROVE  t[k].coluna # t[l].coluna
      BY DEF CadaColunaUmaVez
    <3>1. k # 1 /\ l # 1 /\ k + 1 # l + 1
      BY <1>5, <1>7, <1>12
    <3>2. /\ t[k] = s[k + 1] /\ t[l] = s[l + 1]
          /\ k + 1 \in 1 .. Len(s) /\ l + 1 \in 1 .. Len(s)
      BY <1>10, <1>12, <3>1
    <3> QED BY <1>2, <3>1, <3>2 DEF FormaDosPassos, CadaColunaUmaVez
  <2>2. UltimaAntesDeGravar(t)
    <3> SUFFICES ASSUME NEW k \in 1 .. Len(t), t[k].op = "ultima"
                 PROVE  k + 1 \in 1 .. Len(t) /\ t[k + 1].op \in {"gravar", "inserir"}
      BY DEF UltimaAntesDeGravar
    <3>1. (k + 1) + 1 \in 1 .. Len(s) /\ s[(k + 1) + 1].op \in {"gravar", "inserir"}
      BY <1>2, <1>10, <1>12 DEF FormaDosPassos, UltimaAntesDeGravar
    <3>2. k + 1 \in 1 .. Len(t)
      BY <1>2, <1>10, <3>1
    <3> QED BY <1>12, <3>1, <3>2
  <2>3. GravarDepoisDaUltima(t)
    <3> SUFFICES ASSUME NEW k \in 1 .. Len(t), t[k].op \in {"gravar", "inserir"},
                        t[k].ordem = SemOrdem
                 PROVE  k - 1 \in 1 .. Len(t) /\ t[k - 1].op = "ultima"
      BY DEF GravarDepoisDaUltima
    <3>1. k # 1
      BY <1>4, <1>7, <1>12
    <3>2. t[k] = s[k + 1] /\ k + 1 \in 1 .. Len(s)
      BY <1>10, <1>12, <3>1
    <3>3. (k + 1) - 1 \in 1 .. Len(s) /\ s[(k + 1) - 1].op = "ultima"
      BY <1>2, <3>2 DEF FormaDosPassos, GravarDepoisDaUltima
    <3>4. (k + 1) - 1 = k /\ k - 1 \in 1 .. Len(t) /\ (k - 1) + 1 = k
      BY <1>2, <1>10, <3>1
    <3>5. t[k - 1].op = s[(k - 1) + 1].op
      BY <1>12, <3>4
    <3> QED BY <3>3, <3>4, <3>5
  <2>4. InserirNoFim(t)
    <3> SUFFICES ASSUME NEW k \in 1 .. Len(t), t[k].op = "inserir"
                 PROVE  k = Len(t)
      BY DEF InserirNoFim
    <3>1. k + 1 = Len(s)
      BY <1>2, <1>10, <1>12 DEF FormaDosPassos, InserirNoFim
    <3>2. k \in Int /\ Len(t) = Len(s) - 1
      BY <1>10
    <3> QED BY <3>1, <3>2
  <2>5. SuaTarefa(p.id, t)
    BY <1>2, <1>10, <1>12 DEF FormaDosPassos, SuaTarefa
  <2> QED BY <2>1, <2>2, <2>3, <2>4, <2>5 DEF FormaDosPassos
<1>14. ColunasPorVir(q)
  <2> SUFFICES ASSUME NEW k \in 1 .. Len(q.passos), q.passos[k].op = "reordenar",
                      NEW i \in Ids \ {q.id}, q.escritas[i] # Intacta,
                      q.escritas[i] # Ausente
               PROVE  q.escritas[i].coluna # q.passos[k].coluna
    BY DEF ColunasPorVir
  <2>1. k \in 1 .. Len(t) /\ k # 1
    BY <1>5, <1>7, <1>11, <1>12
  <2>2. q.passos[k] = s[k + 1] /\ k + 1 \in 1 .. Len(s)
    BY <1>10, <1>11, <1>12, <2>1
  <2> QED BY <1>2, <1>11, <2>2 DEF ColunasPorVir, s
<1>15. EscritasCertas(q)
  BY <1>2, <1>11 DEF EscritasCertas
<1>16. /\ q.id <= seq' /\ seq' \in 0 .. MaxIds /\ seq <= seq'
       /\ \A i \in q.vistas \cup q.travadas : i <= seq'
       /\ \A z \in Reqs \ {r} : Ativo(z) => q.travadas \cap pedidos[z].travadas = {}
  BY <1>1, <1>2, <1>11, DoPedido, SeqTipada
<1>17. FormaDosPassos(q.id, q.passos)
  BY <1>11, <1>13
<1> HIDE DEF p
<1> QED BY <1>1, <1>8, <1>11, <1>14, <1>15, <1>16, <1>17, InvSegue

\* A row that is shifted goes to the position before or after, which is one there is.
LEMMA DeslocadaVizinha ==
  ASSUME NEW m \in Deslocamento, NEW o \in Ordem, Deslocada(o, m) <= MaxOrdem,
         Deslocada(o, m) # o
  PROVE  Deslocada(o, m) \in Ordem /\ (Deslocada(o, m) = o + 1 \/ o = Deslocada(o, m) + 1)
BY LimitesAssumption DEF Deslocada, Desce, Sobe, Deslocamento, Ordem

LEMMA InvReordenar ==
  ASSUME KanbanInv, NEW r \in Reqs, Reordenar(r)
  PROVE  KanbanInv'
<1> DEFINE p == pedidos[r]
           m == Head(p.passos)
           linhas == p.vistas \cap NaColuna(r, m.coluna)
           nova(i) == Deslocada(Vista(r, i).ordem, m)
           mudam == { i \in linhas : nova(i) # Vista(r, i).ordem }
           e == [i \in Ids |-> IF i \in mudam THEN [Vista(r, i) EXCEPT !.ordem = nova(i)]
                                              ELSE p.escritas[i]]
           q == [p EXCEPT !.passos = Tail(@), !.travadas = @ \cup linhas, !.escritas = e]
<1>0. PICK op : op = "reordenar"
  OBVIOUS
<1>1. /\ Proximo(r, op) /\ tarefas' = tarefas /\ seq' = seq /\ op # "ultima"
      /\ \A i \in p.vistas : ~TravadaPorOutra(r, i)
      /\ \A i \in linhas : nova(i) <= MaxOrdem
  BY <1>0 DEF Reordenar, Seguir
<1>2. /\ Ativo(r) /\ p \in Transacao /\ m = p.passos[1] /\ m \in Passo /\ m.op = op
      /\ Tail(p.passos) \in Seq(Passo) /\ 1 \in 1 .. Len(p.passos)
      /\ EscritasCertas(p) /\ ColunasPorVir(p)
  BY <1>1, NoPasso
<1>3. m \in Deslocamento
  BY <1>0, <1>2, TiposDePassos
<1>4. pedidos' = [pedidos EXCEPT ![r] = q]
  <2> DEFINE f == [i \in Ids |->
                     IF i \in linhas /\ nova(i) # Vista(r, i).ordem
                     THEN [Vista(r, i) EXCEPT !.ordem = nova(i)] ELSE p.escritas[i]]
  <2>1. f = e
    OBVIOUS
  <2>2. pedidos' = [pedidos EXCEPT ![r] =
           [[p EXCEPT !.travadas = @ \cup linhas, !.escritas = f]
               EXCEPT !.passos = Tail(@)]]
    BY DEF Reordenar, Seguir
  <2> HIDE DEF f, e
  <2>3. [[p EXCEPT !.travadas = @ \cup linhas, !.escritas = f] EXCEPT !.passos = Tail(@)]
           = [p EXCEPT !.passos = Tail(@), !.travadas = @ \cup linhas, !.escritas = f]
    BY <1>2 DEF Transacao
  <2> QED BY <2>1, <2>2, <2>3
<1>5. linhas \subseteq Ids /\ linhas \subseteq p.vistas /\ mudam \subseteq linhas
  BY <1>2, CamposDaTransacao
\* A row of the column it has not written yet is shifted from where it is.
<1>6. \A i \in linhas :
         /\ Vista(r, i) \in Linha /\ Vista(r, i).coluna = m.coluna
         /\ i # p.id => Vista(r, i) = tarefas[i]
  <2> SUFFICES ASSUME NEW i \in linhas
               PROVE  /\ Vista(r, i) \in Linha /\ Vista(r, i).coluna = m.coluna
                      /\ i # p.id => Vista(r, i) = tarefas[i]
    OBVIOUS
  <2>1. i \in Ids /\ Vista(r, i) # Ausente /\ Vista(r, i).coluna = m.coluna
    BY DEF NaColuna
  <2>2. Vista(r, i) \in Linha
    BY <1>2, <2>1, TipoDaVista
  <2>3. ASSUME i # p.id PROVE Vista(r, i) = tarefas[i]
    <3>1. CASE p.escritas[i] = Intacta
      BY <1>2, <2>1, <3>1, TipoDaVista
    <3>2. CASE p.escritas[i] # Intacta
      <4>1. Vista(r, i) = p.escritas[i]
        BY <1>2, <2>1, <3>2, TipoDaVista
      <4>2. p.escritas[i].coluna # p.passos[1].coluna
        BY <1>0, <1>2, <2>1, <2>3, <3>2, <4>1 DEF ColunasPorVir
      <4> QED BY <1>2, <2>1, <4>1, <4>2
    <3> QED BY <3>1, <3>2
  <2> QED BY <2>1, <2>2, <2>3
<1>7. \A i \in mudam :
         /\ e[i] \in Linha /\ e[i].coluna = m.coluna
         /\ i # p.id => Vizinha(e[i], tarefas[i])
  <2> SUFFICES ASSUME NEW i \in mudam
               PROVE  /\ e[i] \in Linha /\ e[i].coluna = m.coluna
                      /\ i # p.id => Vizinha(e[i], tarefas[i])
    OBVIOUS
  <2> DEFINE v == Vista(r, i)
             n == nova(i)
  <2>1. i \in linhas /\ i \in Ids /\ n # v.ordem /\ n <= MaxOrdem
    BY <1>1, <1>5
  <2>2. v \in Linha /\ v.coluna = m.coluna /\ (i # p.id => v = tarefas[i])
    BY <1>6, <2>1
  <2>3. e[i] = [v EXCEPT !.ordem = n]
    BY <2>1
  <2>4. n = Deslocada(v.ordem, m)
    OBVIOUS
  <2> HIDE DEF e, v, n, m, mudam, linhas
  <2>5. v.ordem \in Ordem
    BY <2>2 DEF Linha
  <2>6. n \in Ordem /\ (n = v.ordem + 1 \/ v.ordem = n + 1)
    BY <1>3, <2>1, <2>4, <2>5, DeslocadaVizinha
  <2>7. e[i] \in Linha /\ e[i].coluna = v.coluna /\ e[i].ordem = n
    BY <2>2, <2>3, <2>6 DEF Linha
  <2> QED BY <2>2, <2>6, <2>7 DEF Vizinha
<1>8. \A i \in Ids \ mudam : e[i] = p.escritas[i]
  OBVIOUS
<1>9. e \in [Ids -> Linha \cup {Ausente, Intacta}]
  <2>1. p.escritas \in [Ids -> Linha \cup {Ausente, Intacta}]
    BY <1>2, CamposDaTransacao
  <2>2. \A i \in Ids : e[i] \in Linha \cup {Ausente, Intacta}
    BY <1>7, <1>8, <2>1
  <2> HIDE DEF mudam
  <2> QED BY <2>2
<1> HIDE DEF e, mudam, linhas, m
<1>10. /\ q \in Transacao /\ q.id = pedidos[r].id /\ q.passos = Tail(pedidos[r].passos)
       /\ q.vistas = p.vistas /\ q.travadas = p.travadas \cup linhas /\ q.escritas = e
  BY <1>2, <1>5, <1>9 DEF Transacao
<1> HIDE DEF q
<1>11. EscritasCertas(q)
  <2> SUFFICES ASSUME NEW i \in Ids, q.escritas[i] # Intacta
               PROVE  /\ i \in q.travadas
                      /\ i # q.id =>
                            /\ q.escritas[i] # Ausente
                            /\ Presente(i) => Vizinha(q.escritas[i], tarefas[i])
    BY DEF EscritasCertas
  <2>1. CASE i \in mudam
    BY <1>5, <1>7, <1>10, <2>1, SentinelasAssumption
  <2>2. CASE i \notin mudam
    BY <1>2, <1>8, <1>10, <2>2 DEF EscritasCertas
  <2> QED BY <2>1, <2>2
<1>12. /\ \A i \in p.vistas \cup p.travadas : i <= seq
       /\ \A s \in Reqs \ {r} : Ativo(s) => p.travadas \cap pedidos[s].travadas = {}
  BY <1>2, DoPedido
<1>13. /\ \A i \in q.vistas \cup q.travadas : i <= seq'
       /\ seq' \in 0 .. MaxIds /\ seq <= seq'
  BY <1>1, <1>5, <1>10, <1>12, SeqTipada
<1>14. \A s \in Reqs \ {r} : Ativo(s) => q.travadas \cap pedidos[s].travadas = {}
  <2>1. \A s \in Reqs \ {r} : Ativo(s) => p.vistas \cap pedidos[s].travadas = {}
    BY <1>1 DEF TravadaPorOutra, Ativo
  <2> QED BY <1>5, <1>10, <1>12, <2>1
<1>15. \A i \in Ids : i # q.id /\ q.escritas[i] # Intacta =>
         \/ q.escritas[i] = pedidos[r].escritas[i]
         \/ op = "reordenar" /\ q.escritas[i].coluna = pedidos[r].passos[1].coluna
         \/ op = "inserir"
  BY <1>0, <1>2, <1>7, <1>8, <1>10
<1> HIDE DEF p
<1> QED BY <1>1, <1>4, <1>10, <1>11, <1>13, <1>14, <1>15, InvAnda

\* Who else is at work has locked what it has written, which the commit leaves alone.
LEMMA InvConfirmar ==
  ASSUME KanbanInv, NEW r \in Reqs, Confirmar(r)
  PROVE  KanbanInv'
<1>1. /\ Ativo(r) /\ tarefas' = [i \in Ids |-> Vista(r, i)]
      /\ pedidos' = [pedidos EXCEPT ![r] = Livre] /\ seq' = seq
  BY DEF Confirmar, Ativo
<1>2. /\ TypeOK /\ SemFuturo /\ TravasDisjuntas
      /\ \A s \in Reqs : Ativo(s) =>
            /\ FormaDosPassos(pedidos[s].id, pedidos[s].passos)
            /\ ColunasPorVir(pedidos[s]) /\ EscritasCertas(pedidos[s])
  BY DEF KanbanInv
<1>3. \A s \in Reqs : Ativo(s)' => s # r /\ Ativo(s) /\ pedidos'[s] = pedidos[s]
  BY <1>1, <1>2 DEF Ativo, TypeOK
<1>4. \A i \in Ids :
         /\ tarefas'[i] = Vista(r, i) /\ tarefas'[i] \in Linha \cup {Ausente}
         /\ tarefas'[i] # Ausente => i <= seq
         /\ pedidos[r].escritas[i] = Intacta => tarefas'[i] = tarefas[i]
  <2> SUFFICES ASSUME NEW i \in Ids
               PROVE  /\ tarefas'[i] = Vista(r, i) /\ tarefas'[i] \in Linha \cup {Ausente}
                      /\ tarefas'[i] # Ausente => i <= seq
                      /\ pedidos[r].escritas[i] = Intacta => tarefas'[i] = tarefas[i]
    OBVIOUS
  <2>1. tarefas'[i] = Vista(r, i)
    BY <1>1
  <2> QED BY <1>1, <2>1, TipoDaVista
<1>5. TypeOK'
  <2>1. tarefas' \in [Ids -> Linha \cup {Ausente}]
    BY <1>1, <1>4
  <2> QED BY <1>1, <1>2, <2>1 DEF TypeOK
<1>6. SemFuturo'
  <2>1. \A i \in Ids : Presente(i)' => i <= seq'
    BY <1>1, <1>4 DEF Presente
  <2>2. ASSUME NEW s \in Reqs, Ativo(s)'
        PROVE  /\ pedidos'[s].id <= seq'
               /\ \A i \in pedidos'[s].vistas \cup pedidos'[s].travadas : i <= seq'
    BY <1>1, <1>2, <1>3, <2>2 DEF SemFuturo
  <2> QED BY <2>1, <2>2 DEF SemFuturo
<1>7. TravasDisjuntas'
  BY <1>2, <1>3 DEF TravasDisjuntas
<1>8. ASSUME NEW s \in Reqs, Ativo(s)'
      PROVE  /\ FormaDosPassos(pedidos'[s].id, pedidos'[s].passos)
             /\ ColunasPorVir(pedidos[s])' /\ EscritasCertas(pedidos[s])'
  <2> DEFINE q == pedidos[s]
  <2>1. /\ FormaDosPassos(q.id, q.passos) /\ ColunasPorVir(q) /\ EscritasCertas(q)
        /\ pedidos'[s] = q /\ s # r /\ Ativo(s)
    BY <1>2, <1>3, <1>8
  <2>2. ColunasPorVir(pedidos[s])'
    BY <2>1 DEF ColunasPorVir
  <2>3. ASSUME NEW i \in Ids, q.escritas[i] # Intacta
        PROVE  /\ i \in q.travadas
               /\ i # q.id =>
                     /\ q.escritas[i] # Ausente
                     /\ tarefas'[i] # Ausente => Vizinha(q.escritas[i], tarefas'[i])
    <3>1. i \in q.travadas
      BY <2>1, <2>3 DEF EscritasCertas
    <3>2. i \notin pedidos[r].travadas
      BY <1>1, <1>2, <2>1, <3>1 DEF TravasDisjuntas
    <3>3. pedidos[r].escritas[i] = Intacta
      BY <1>1, <1>2, <3>2 DEF EscritasCertas
    <3>4. tarefas'[i] = tarefas[i]
      BY <1>4, <3>3
    <3> QED BY <2>1, <2>3, <3>1, <3>4 DEF EscritasCertas, Presente
  <2>4. EscritasCertas(pedidos[s])'
    BY <2>1, <2>3 DEF EscritasCertas, Presente
  <2> QED BY <2>1, <2>2, <2>4
<1> QED BY <1>5, <1>6, <1>7, <1>8 DEF KanbanInv

-----------------------------------------------------------------------------
(* Every step. *)

LEMMA InvChegar ==
  ASSUME KanbanInv, NEW r \in Reqs, Chegar(r)
  PROVE  KanbanInv'
BY InvPedirCriacao, InvPedirMovimento, InvPedirRemocao, InvPedirEdicao DEF Chegar

LEMMA InvContinuar ==
  ASSUME KanbanInv, NEW r \in Reqs, Continuar(r)
  PROVE  KanbanInv'
BY InvSelecionar, InvReordenar, InvLerUltima, InvGravarPosicao, InvInserirTarefa,
   InvRemoverTarefa, InvCarregarTarefa, InvSalvarTarefa, InvReinserirTarefa, InvConfirmar,
   InvFalhar DEF Continuar

LEMMA InvParada ==
  ASSUME KanbanInv, UNCHANGED vars
  PROVE  KanbanInv'
BY DEF vars, KanbanInv, TypeOK, SemFuturo, TravasDisjuntas, Ativo, Presente, ColunasPorVir,
       EscritasCertas

\* The board's inductive invariant: a row is locked by one transaction, what a transaction
\* writes it has locked, the tasks it is not about it shifts by one from where they are,
\* in a column it has not shifted before.
THEOREM KanbanSempreCoerente == Spec => []KanbanInv
<1>1. KanbanInv /\ [Next]_vars => KanbanInv'
  BY InvChegar, InvContinuar, InvParada DEF Next
<1> QED BY <1>1, InvInicial, PTL DEF Spec

\* The tasks, the ids issued and the transactions in progress are always of their types:
\* no position below the first, no statement that is not one of TarefasService's.
THEOREM TiposDoKanban == Spec => []TypeOK
<1>1. KanbanInv => TypeOK
  BY DEF KanbanInv
<1> QED BY <1>1, KanbanSempreCoerente, PTL

\* Only a commit changes a committed row.
LEMMA SoConfirmarMuda ==
  ASSUME NEW r \in Reqs, Chegar(r) \/ Continuar(r), tarefas' # tarefas
  PROVE  Confirmar(r)
BY DEF Chegar, Continuar, PedirCriacao, PedirMovimento, PedirRemocao, PedirEdicao, Iniciar,
       Selecionar, Reordenar, LerUltima, GravarPosicao, InserirTarefa, RemoverTarefa,
       CarregarTarefa, SalvarTarefa, ReinserirTarefa, Seguir, Falhar

-----------------------------------------------------------------------------
(* Requests that follow each other. *)

\* The table as one who has written e sees it, and as request r does.
VistaCom(e) == [i \in Ids |-> IF e[i] = Intacta THEN tarefas[i] ELSE e[i]]
VistaDe(r) == VistaCom(pedidos[r].escritas)

\* Of table v, with id the task of the request: no other task is at position o of column c,
\* no two others are at the same place, no other is where the task is.
Vaga(v, id, c, o) ==
    \A i \in Ids \ {id} : v[i] # Ausente /\ v[i].coluna = c => v[i].ordem # o
OutrasDistintas(v, id) ==
    \A i \in Ids \ {id} : v[i] # Ausente =>
       \A j \in Ids \ {id, i} : v[j] # Ausente /\ v[j].coluna = v[i].coluna
          => v[j].ordem # v[i].ordem
SuaVaga(v, id) == id \in Ids /\ v[id] # Ausente => Vaga(v, id, v[id].coluna, v[id].ordem)

NaColunaDe(v, c) == { i \in Ids : v[i] # Ausente /\ v[i].coluna = c }

\* What statements s have still to do in table v makes sense: a column is shifted whole,
\* into a vacant position, and the task goes where the shift made room, or after the last
\* one.
DesvioCerto(v, id, vistas, s) ==
    \A k \in 1 .. Len(s) : s[k].op = "reordenar" =>
       /\ k = 1 => vistas = NaColunaDe(v, s[k].coluna)
       /\ k # 1 => /\ k - 1 \in 1 .. Len(s) /\ s[k - 1].op = "selecionar"
                   /\ s[k - 1].coluna = s[k].coluna
       /\ s[k].modo = "delete" => Vaga(v, id, s[k].coluna, s[k].alvo)
       /\ s[k].modo = "update" => Vaga(v, id, s[k].coluna, s[k].atual)
       /\ s[k].modo # "delete" =>
             /\ k + 1 \in 1 .. Len(s) /\ s[k + 1].op \in {"gravar", "inserir"}
             /\ s[k + 1].coluna = s[k].coluna /\ s[k + 1].ordem = s[k].alvo
GravacaoCerta(v, id, s) ==
    \A k \in 1 .. Len(s) : s[k].op \in {"gravar", "inserir"} =>
       /\ k = Len(s)
       /\ k = 1 => Vaga(v, id, s[k].coluna, s[k].ordem)
       /\ k # 1 => /\ k - 1 \in 1 .. Len(s) /\ s[k - 1].coluna = s[k].coluna
                   /\ \/ s[k - 1].op = "ultima"
                      \/ s[k - 1].op = "reordenar" /\ s[k - 1].modo # "delete"
TemLinha(v, id) == id \in Ids /\ v[id] # Ausente
FimCerto(v, id, s) ==
    \/ Len(s) \in 1 .. Len(s) /\ s[Len(s)].op = "gravar"
    \/ /\ SuaVaga(v, id)
       /\ TemLinha(v, id) =>
             \A k \in 1 .. Len(s) :
                /\ s[k].op = "reordenar" => s[1].op = "remover"
                /\ s[k].op # "inserir"
EdicaoCerta(v, t, id, s) ==
    \A k \in 1 .. Len(s) : s[k].op \in {"carregar", "salvar", "reinserir"} =>
       /\ Len(s) = 1 /\ id \in Ids
       /\ t[id] # Ausente /\ v[id] = t[id] /\ s[k].linha = t[id]
PlanoCerto(v, t, id, vistas, s) ==
    /\ OutrasDistintas(v, id) /\ DesvioCerto(v, id, vistas, s) /\ GravacaoCerta(v, id, s)
    /\ FimCerto(v, id, s) /\ EdicaoCerta(v, t, id, s)

SerialInv ==
    /\ OrdensDistintas
    /\ \A r \in Reqs : Ativo(r) =>
          PlanoCerto(VistaDe(r), tarefas, pedidos[r].id, pedidos[r].vistas,
                     pedidos[r].passos)

\* What is left of the plan when the first statement is done and the request sees w.
LEMMA PlanoAvanca ==
  ASSUME NEW v, NEW w, NEW t, NEW id \in Nat, NEW vistas, NEW novas,
         NEW s \in Seq(Passo), s # << >>, PlanoCerto(v, t, id, vistas, s),
         OutrasDistintas(w, id),
         \A k \in 1 .. Len(s) : k # 1 /\ s[k].op = "reordenar" =>
            \A o : Vaga(v, id, s[k].coluna, o) => Vaga(w, id, s[k].coluna, o),
         s[1].op = "selecionar" => novas = NaColunaDe(w, s[1].coluna),
         2 \in 1 .. Len(s) /\ s[2].op \in {"gravar", "inserir"} =>
            Vaga(w, id, s[2].coluna, s[2].ordem),
         \/ 1 # Len(s) /\ s[Len(s)].op = "gravar"
         \/ /\ SuaVaga(w, id)
            /\ TemLinha(w, id) =>
                  \A k \in 1 .. Len(s) : k # 1 => s[k].op \notin {"reordenar", "inserir"}
  PROVE  PlanoCerto(w, t, id, novas, Tail(s))
<1> DEFINE u == Tail(s)
<1>1. /\ Len(u) = Len(s) - 1 /\ Len(s) \in Nat \ {0}
      /\ \A k \in 1 .. Len(u) : u[k] = s[k + 1]
  BY Restantes
<1>2. \A k \in 1 .. Len(u) : k + 1 \in 1 .. Len(s) /\ k + 1 # 1 /\ k \in Nat
  BY <1>1
<1>3. /\ DesvioCerto(v, id, vistas, s) /\ GravacaoCerta(v, id, s)
      /\ FimCerto(v, id, s) /\ EdicaoCerta(v, t, id, s)
  BY DEF PlanoCerto
<1> HIDE DEF u
<1>4. DesvioCerto(w, id, novas, u)
  <2> SUFFICES ASSUME NEW k \in 1 .. Len(u), u[k].op = "reordenar"
               PROVE  /\ k = 1 => novas = NaColunaDe(w, u[k].coluna)
                      /\ k # 1 => /\ k - 1 \in 1 .. Len(u) /\ u[k - 1].op = "selecionar"
                                  /\ u[k - 1].coluna = u[k].coluna
                      /\ u[k].modo = "delete" => Vaga(w, id, u[k].coluna, u[k].alvo)
                      /\ u[k].modo = "update" => Vaga(w, id, u[k].coluna, u[k].atual)
                      /\ u[k].modo # "delete" =>
                            /\ k + 1 \in 1 .. Len(u)
                            /\ u[k + 1].op \in {"gravar", "inserir"}
                            /\ u[k + 1].coluna = u[k].coluna /\ u[k + 1].ordem = u[k].alvo
    BY DEF DesvioCerto
  <2> DEFINE l == k + 1
  <2>1. l \in 1 .. Len(s) /\ l # 1 /\ u[k] = s[l] /\ l - 1 = k
    BY <1>1, <1>2
  <2> HIDE DEF l
  <2>2. /\ l - 1 \in 1 .. Len(s) /\ s[l - 1].op = "selecionar"
        /\ s[l - 1].coluna = s[l].coluna
    BY <1>3, <2>1 DEF DesvioCerto
  <2>3. /\ s[l].modo = "delete" => Vaga(v, id, s[l].coluna, s[l].alvo)
        /\ s[l].modo = "update" => Vaga(v, id, s[l].coluna, s[l].atual)
    BY <1>3, <2>1 DEF DesvioCerto
  <2>4. s[l].modo # "delete" =>
           /\ l + 1 \in 1 .. Len(s) /\ s[l + 1].op \in {"gravar", "inserir"}
           /\ s[l + 1].coluna = s[l].coluna /\ s[l + 1].ordem = s[l].alvo
    BY <1>3, <2>1 DEF DesvioCerto
  <2>5. k = 1 => novas = NaColunaDe(w, u[k].coluna)
    BY <2>1, <2>2
  <2>6. k # 1 => /\ k - 1 \in 1 .. Len(u) /\ u[k - 1].op = "selecionar"
                 /\ u[k - 1].coluna = u[k].coluna
    <3>1. k # 1 => k - 1 \in 1 .. Len(u) /\ (k - 1) + 1 = k
      BY <1>1
    <3> QED BY <1>1, <2>1, <2>2, <3>1
  <2>7. /\ u[k].modo = "delete" => Vaga(w, id, u[k].coluna, u[k].alvo)
        /\ u[k].modo = "update" => Vaga(w, id, u[k].coluna, u[k].atual)
    BY <2>1, <2>3
  <2>8. u[k].modo # "delete" =>
           /\ k + 1 \in 1 .. Len(u) /\ u[k + 1].op \in {"gravar", "inserir"}
           /\ u[k + 1].coluna = u[k].coluna /\ u[k + 1].ordem = u[k].alvo
    <3> SUFFICES ASSUME s[l].modo # "delete"
                 PROVE  /\ k + 1 \in 1 .. Len(u) /\ u[k + 1] = s[l + 1]
      BY <2>1, <2>4
    <3>1. k + 1 \in 1 .. Len(u)
      BY <1>1, <2>1, <2>4
    <3>2. (k + 1) + 1 = l + 1
      BY <2>1
    <3> QED BY <1>1, <3>1, <3>2
  <2> QED BY <2>5, <2>6, <2>7, <2>8
<1>5. GravacaoCerta(w, id, u)
  <2> SUFFICES ASSUME NEW k \in 1 .. Len(u), u[k].op \in {"gravar", "inserir"}
               PROVE  /\ k = Len(u)
                      /\ k = 1 => Vaga(w, id, u[k].coluna, u[k].ordem)
                      /\ k # 1 => /\ k - 1 \in 1 .. Len(u)
                                  /\ u[k - 1].coluna = u[k].coluna
                                  /\ \/ u[k - 1].op = "ultima"
                                     \/ /\ u[k - 1].op = "reordenar"
                                        /\ u[k - 1].modo # "delete"
    BY DEF GravacaoCerta
  <2> DEFINE l == k + 1
  <2>1. l \in 1 .. Len(s) /\ l # 1 /\ u[k] = s[l] /\ l - 1 = k
    BY <1>1, <1>2
  <2> HIDE DEF l
  <2>2. /\ l = Len(s) /\ s[l - 1].coluna = s[l].coluna
        /\ \/ s[l - 1].op = "ultima"
           \/ s[l - 1].op = "reordenar" /\ s[l - 1].modo # "delete"
    BY <1>3, <2>1 DEF GravacaoCerta
  <2>3. k = Len(u)
    BY <1>1, <2>1, <2>2
  <2>4. k = 1 => l = 2
    BY <2>1
  <2>5. k # 1 => k - 1 \in 1 .. Len(u) /\ (k - 1) + 1 = k
    BY <1>1
  <2>6. k # 1 => k - 1 \in 1 .. Len(u) /\ u[k - 1] = s[l - 1]
    BY <1>1, <2>1, <2>5
  <2> QED BY <2>1, <2>2, <2>3, <2>4, <2>6
<1>6. FimCerto(w, id, u)
  <2>1. CASE 1 # Len(s) /\ s[Len(s)].op = "gravar"
    <3>1. Len(u) \in 1 .. Len(u) /\ Len(u) + 1 = Len(s)
      BY <1>1, <2>1
    <3> QED BY <1>1, <2>1, <3>1 DEF FimCerto
  <2>2. CASE /\ SuaVaga(w, id)
             /\ TemLinha(w, id) =>
                   \A k \in 1 .. Len(s) : k # 1 => s[k].op \notin {"reordenar", "inserir"}
    <3>1. TemLinha(w, id) =>
             \A k \in 1 .. Len(u) : u[k].op # "reordenar" /\ u[k].op # "inserir"
      BY <1>1, <1>2, <2>2
    <3> QED BY <2>2, <3>1 DEF FimCerto
  <2> QED BY <2>1, <2>2
<1>7. EdicaoCerta(w, t, id, u)
  <2> SUFFICES ASSUME NEW k \in 1 .. Len(u), u[k].op \in {"carregar", "salvar", "reinserir"}
               PROVE  FALSE
    BY DEF EdicaoCerta
  <2>1. k + 1 \in 1 .. Len(s) /\ s[k + 1].op \in {"carregar", "salvar", "reinserir"}
    BY <1>1, <1>2
  <2>2. Len(s) = 1
    BY <1>3, <2>1 DEF EdicaoCerta
  <2> QED BY <1>2, <2>1, <2>2
<1> QED BY <1>4, <1>5, <1>6, <1>7 DEF PlanoCerto, u

\* A step of the only request there is that changes no committed row.
LEMMA SerialSegue ==
  ASSUME NEW r \in Reqs, Reqs = {r}, TypeOK, OrdensDistintas, NEW q,
         pedidos' = [pedidos EXCEPT ![r] = q], tarefas' = tarefas,
         PlanoCerto(VistaCom(q.escritas), tarefas, q.id, q.vistas, q.passos)
  PROVE  SerialInv'
<1>1. pedidos'[r] = q
  BY DEF TypeOK
<1>2. OrdensDistintas'
  BY DEF OrdensDistintas, Presente
<1>3. VistaDe(r)' = VistaCom(q.escritas)
  BY <1>1 DEF VistaDe, VistaCom
<1>4. PlanoCerto(VistaDe(r)', tarefas', pedidos'[r].id, pedidos'[r].vistas,
                 pedidos'[r].passos)
  BY <1>1, <1>3
<1> QED BY <1>2, <1>4 DEF SerialInv

LEMMA SerialIniciar ==
  ASSUME NEW r \in Reqs, Reqs = {r}, TypeOK, OrdensDistintas, NEW tipo, NEW id, NEW lida,
         NEW passos, Iniciar(r, tipo, id, lida, passos),
         PlanoCerto(tarefas, tarefas, id, {}, passos)
  PROVE  SerialInv'
<1> DEFINE e == [i \in Ids |-> Intacta]
           q == [ fase |-> "transacao", tipo |-> tipo, id |-> id, lida |-> lida,
                  passos |-> passos, vistas |-> {}, travadas |-> {}, escritas |-> e ]
<1>1. pedidos' = [pedidos EXCEPT ![r] = q] /\ tarefas' = tarefas
  BY DEF Iniciar
<1>2. VistaCom(e) = tarefas
  BY DEF TypeOK, VistaCom
<1> HIDE DEF e
<1>3. q.id = id /\ q.vistas = {} /\ q.passos = passos /\ q.escritas = e
  OBVIOUS
<1> HIDE DEF q
<1>4. PlanoCerto(VistaCom(q.escritas), tarefas, q.id, q.vistas, q.passos)
  BY <1>2, <1>3
<1> QED BY <1>1, <1>4, SerialSegue

\* In a table whose tasks are all at distinct positions no other task is where one is.
LEMMA DistintasDaTabela ==
  ASSUME OrdensDistintas, NEW id
  PROVE  /\ OutrasDistintas(tarefas, id) /\ SuaVaga(tarefas, id)
         /\ id \in Ids /\ Presente(id) =>
               Vaga(tarefas, id, tarefas[id].coluna, tarefas[id].ordem)
BY DEF OrdensDistintas, OutrasDistintas, SuaVaga, Vaga, Presente

\* The statements, one by one.
LEMMA ReordenacaoPorExtenso ==
  ASSUME NEW c \in Colunas, NEW modo \in {"insert", "update", "delete"},
         NEW alvo \in Ordem, NEW atual \in Ordem,
         NEW s, s = Reordenacao(c, modo, alvo, atual)
  PROVE  /\ s \in Seq(Passo) /\ Len(s) = 2
         /\ s[1].op = "selecionar" /\ s[1].coluna = c
         /\ s[2].op = "reordenar" /\ s[2].coluna = c /\ s[2].modo = modo
         /\ s[2].alvo = alvo /\ s[2].atual = atual
<1> DEFINE a == [op |-> "selecionar", coluna |-> c]
           b == [op |-> "reordenar", coluna |-> c, modo |-> modo, alvo |-> alvo,
                 atual |-> atual]
<1>1. /\ a \in Passo /\ b \in Passo /\ a.op = "selecionar" /\ a.coluna = c
      /\ b.op = "reordenar" /\ b.coluna = c /\ b.modo = modo /\ b.alvo = alvo
      /\ b.atual = atual
  BY DEF Passo, Selecao, Deslocamento
<1>2. s = << a, b >>
  BY DEF Reordenacao
<1> HIDE DEF a, b
<1>3. s \in Seq(Passo) /\ Len(s) = 2 /\ s[1] = a /\ s[2] = b
  BY <1>1, <1>2
<1> QED BY <1>1, <1>3

LEMMA GravarPorExtenso ==
  ASSUME NEW op \in {"gravar", "inserir"}, NEW c \in Colunas,
         NEW o \in Ordem \cup {SemOrdem}, NEW s, s = Gravar(op, c, o)
  PROVE  /\ s \in Seq(Passo) /\ Len(s) = 1
         /\ s[1].op = op /\ s[1].coluna = c /\ s[1].ordem = o
<1> DEFINE g == [op |-> op, coluna |-> c, ordem |-> o]
<1>1. g \in Passo /\ g.op = op /\ g.coluna = c /\ g.ordem = o
  BY DEF Passo, Gravacao
<1>2. s = << g >>
  BY DEF Gravar
<1> HIDE DEF g
<1>3. s \in Seq(Passo) /\ Len(s) = 1 /\ s[1] = g
  BY <1>1, <1>2
<1> QED BY <1>1, <1>3

LEMMA AbrirPorExtenso ==
  ASSUME NEW op \in {"gravar", "inserir"}, NEW c \in Colunas,
         NEW o \in Ordem \cup {SemOrdem}, NEW s, s = Abrir(op, c, o)
  PROVE  /\ s \in Seq(Passo)
         /\ \/ /\ Len(s) = 2 /\ s[1].op = "ultima" /\ s[1].coluna = c
               /\ s[2].op = op /\ s[2].coluna = c
            \/ /\ Len(s) = 3 /\ s[1].op = "selecionar" /\ s[1].coluna = c
               /\ s[2].op = "reordenar" /\ s[2].coluna = c /\ s[2].modo = "insert"
               /\ s[2].alvo = o
               /\ s[3].op = op /\ s[3].coluna = c /\ s[3].ordem = o
<1> DEFINE t == Gravar(op, c, o)
<1>1. t \in Seq(Passo) /\ Len(t) = 1 /\ t[1].op = op /\ t[1].coluna = c /\ t[1].ordem = o
  BY GravarPorExtenso
<1>2. CASE o = SemOrdem
  <2> DEFINE a == [op |-> "ultima", coluna |-> c]
             u == << a >>
  <2>1. a \in Passo /\ a.op = "ultima" /\ a.coluna = c
    BY DEF Passo, Ultima
  <2>2. s = u \o t
    BY <1>2 DEF Abrir
  <2> HIDE DEF a, t
  <2>3. u \in Seq(Passo) /\ Len(u) = 1 /\ u[1] = a
    BY <2>1
  <2> HIDE DEF u
  <2>4. /\ s \in Seq(Passo) /\ Len(s) = Len(u) + Len(t)
        /\ \A k \in 1 .. Len(u) : s[k] = u[k]
        /\ \A k \in 1 .. Len(t) : s[Len(u) + k] = t[k]
    BY <1>1, <2>2, <2>3, Concatenadas
  <2>5. Len(s) = 2 /\ s[1] = u[1] /\ s[1 + 1] = t[1]
    BY <1>1, <2>3, <2>4
  <2> QED BY <1>1, <2>1, <2>3, <2>4, <2>5
<1>3. CASE o # SemOrdem
  <2>0. PICK modo \in {"insert", "update", "delete"} : modo = "insert"
    OBVIOUS
  <2> DEFINE u == Reordenacao(c, modo, o, o)
  <2>a. o \in Ordem
    BY <1>3
  <2>1. /\ u \in Seq(Passo) /\ Len(u) = 2
        /\ u[1].op = "selecionar" /\ u[1].coluna = c
        /\ u[2].op = "reordenar" /\ u[2].coluna = c /\ u[2].modo = modo /\ u[2].alvo = o
    BY <2>a, ReordenacaoPorExtenso
  <2>2. s = u \o t
    BY <1>3, <2>0 DEF Abrir
  <2> HIDE DEF u, t
  <2>4. /\ s \in Seq(Passo) /\ Len(s) = Len(u) + Len(t)
        /\ \A k \in 1 .. Len(u) : s[k] = u[k]
        /\ \A k \in 1 .. Len(t) : s[Len(u) + k] = t[k]
    <3>1. u \in Seq(Passo) /\ t \in Seq(Passo)
      BY <1>1, <2>1
    <3> QED BY <2>2, <3>1, Concatenadas
  <2>5. Len(s) = 3 /\ s[1] = u[1] /\ s[2] = u[2] /\ s[2 + 1] = t[1]
    BY <1>1, <2>1, <2>4
  <2> QED BY <1>1, <2>0, <2>1, <2>4, <2>5
<1> QED BY <1>2, <1>3

LEMMA PlanoDeAbrir ==
  ASSUME OrdensDistintas, NEW c \in Colunas, NEW o \in Ordem \cup {SemOrdem},
         NEW s, s = Abrir("inserir", c, o)
  PROVE  PlanoCerto(tarefas, tarefas, 0, {}, s)
<1>0. PICK op \in {"gravar", "inserir"} : op = "inserir"
  OBVIOUS
<1>1. /\ s \in Seq(Passo)
      /\ \/ /\ Len(s) = 2 /\ s[1].op = "ultima" /\ s[1].coluna = c
            /\ s[2].op = op /\ s[2].coluna = c
         \/ /\ Len(s) = 3 /\ s[1].op = "selecionar" /\ s[1].coluna = c
            /\ s[2].op = "reordenar" /\ s[2].coluna = c /\ s[2].modo = "insert"
            /\ s[2].alvo = o
            /\ s[3].op = op /\ s[3].coluna = c /\ s[3].ordem = o
  BY <1>0, AbrirPorExtenso
<1>2. OutrasDistintas(tarefas, 0) /\ SuaVaga(tarefas, 0) /\ ~TemLinha(tarefas, 0)
  BY DistintasDaTabela, LimitesAssumption DEF TemLinha, Ids
<1>3. CASE Len(s) = 2
  <2>1. \A k \in 1 .. Len(s) : k = 1 \/ k = 2
    <3>1. \A k \in 1 .. 2 : k = 1 \/ k = 2
      OBVIOUS
    <3> QED BY <1>3, <3>1
  <2>2. s[1].op = "ultima" /\ s[1].coluna = c /\ s[2].op = op /\ s[2].coluna = c
    BY <1>1, <1>3
  <2>3. DesvioCerto(tarefas, 0, {}, s) /\ EdicaoCerta(tarefas, tarefas, 0, s)
    BY <1>0, <2>1, <2>2 DEF DesvioCerto, EdicaoCerta
  <2>4. GravacaoCerta(tarefas, 0, s)
    BY <1>0, <1>3, <2>1, <2>2 DEF GravacaoCerta
  <2> QED BY <1>2, <2>3, <2>4 DEF PlanoCerto, FimCerto
<1>4. CASE Len(s) = 3
  <2>1. \A k \in 1 .. Len(s) : k = 1 \/ k = 2 \/ k = 3
    <3>1. \A k \in 1 .. 3 : k = 1 \/ k = 2 \/ k = 3
      OBVIOUS
    <3> QED BY <1>4, <3>1
  <2>2. /\ s[1].op = "selecionar" /\ s[1].coluna = c
        /\ s[2].op = "reordenar" /\ s[2].coluna = c /\ s[2].modo = "insert"
        /\ s[2].alvo = o
        /\ s[3].op = op /\ s[3].coluna = c /\ s[3].ordem = o
    BY <1>1, <1>4
  <2>3. EdicaoCerta(tarefas, tarefas, 0, s)
    BY <1>0, <2>1, <2>2 DEF EdicaoCerta
  <2>4. GravacaoCerta(tarefas, 0, s)
    BY <1>0, <1>4, <2>1, <2>2 DEF GravacaoCerta
  <2>5. DesvioCerto(tarefas, 0, {}, s)
    BY <1>0, <1>4, <2>1, <2>2 DEF DesvioCerto
  <2> QED BY <1>2, <2>3, <2>4, <2>5 DEF PlanoCerto, FimCerto
<1> QED BY <1>1, <1>3, <1>4

LEMMA PlanoDeMover ==
  ASSUME OrdensDistintas, NEW i \in Ids, Presente(i), tarefas[i] \in Linha,
         NEW c \in Colunas, NEW o \in Ordem \cup {SemOrdem},
         NEW s, s = PassosMover(tarefas[i], c, o)
  PROVE  PlanoCerto(tarefas, tarefas, i, {}, s)
<1> DEFINE d == tarefas[i].coluna
           x == tarefas[i].ordem
<1>0. PICK op \in {"gravar", "inserir"} : op = "gravar"
  OBVIOUS
<1>1. d \in Colunas /\ x \in Ordem
  BY DEF Linha
<1>2. /\ OutrasDistintas(tarefas, i) /\ SuaVaga(tarefas, i) /\ Vaga(tarefas, i, d, x)
  BY DistintasDaTabela
<1>3. CASE c # d
  <2>0. PICK modo \in {"insert", "update", "delete"} : modo = "delete"
    OBVIOUS
  <2> DEFINE u == Reordenacao(d, modo, x, x)
             t == Abrir(op, c, o)
  <2>1. s = u \o t
    BY <1>0, <1>3, <2>0 DEF PassosMover
  <2>2. /\ u \in Seq(Passo) /\ Len(u) = 2
        /\ u[1].op = "selecionar" /\ u[1].coluna = d
        /\ u[2].op = "reordenar" /\ u[2].coluna = d /\ u[2].modo = modo /\ u[2].alvo = x
    BY <1>1, ReordenacaoPorExtenso
  <2>3. /\ t \in Seq(Passo)
        /\ \/ /\ Len(t) = 2 /\ t[1].op = "ultima" /\ t[1].coluna = c
              /\ t[2].op = op /\ t[2].coluna = c
           \/ /\ Len(t) = 3 /\ t[1].op = "selecionar" /\ t[1].coluna = c
              /\ t[2].op = "reordenar" /\ t[2].coluna = c /\ t[2].modo = "insert"
              /\ t[2].alvo = o
              /\ t[3].op = op /\ t[3].coluna = c /\ t[3].ordem = o
    BY AbrirPorExtenso
  <2> HIDE DEF u, t
  <2>4. /\ Len(s) = Len(u) + Len(t)
        /\ \A k \in 1 .. Len(u) : s[k] = u[k]
        /\ \A k \in 1 .. Len(t) : s[Len(u) + k] = t[k]
    <3>1. u \in Seq(Passo) /\ t \in Seq(Passo)
      BY <2>2, <2>3
    <3> QED BY <2>1, <3>1, Concatenadas
  <2>5. s[1] = u[1] /\ s[2] = u[2]
    BY <2>2, <2>4
  <2>6. CASE Len(t) = 2
    <3>1. Len(s) = 4 /\ s[2 + 1] = t[1] /\ s[2 + 2] = t[2]
      BY <2>2, <2>4, <2>6
    <3>2. \A k \in 1 .. Len(s) : k = 1 \/ k = 2 \/ k = 3 \/ k = 4
      <4>1. \A k \in 1 .. 4 : k = 1 \/ k = 2 \/ k = 3 \/ k = 4
        OBVIOUS
      <4> QED BY <3>1, <4>1
    <3>3. /\ s[1].op = "selecionar" /\ s[1].coluna = d
          /\ s[2].op = "reordenar" /\ s[2].coluna = d /\ s[2].modo = "delete"
          /\ s[2].alvo = x
          /\ s[3].op = "ultima" /\ s[3].coluna = c
          /\ s[4].op = "gravar" /\ s[4].coluna = c
      BY <1>0, <2>0, <2>2, <2>3, <2>5, <2>6, <3>1
    <3> HIDE DEF d, x
    <3>4. DesvioCerto(tarefas, i, {}, s)
      BY <1>2, <3>1, <3>2, <3>3 DEF DesvioCerto
    <3>5. GravacaoCerta(tarefas, i, s)
      BY <3>1, <3>2, <3>3 DEF GravacaoCerta
    <3>6. EdicaoCerta(tarefas, tarefas, i, s)
      BY <3>2, <3>3 DEF EdicaoCerta
    <3>7. FimCerto(tarefas, i, s)
      BY <3>1, <3>3 DEF FimCerto
    <3> QED BY <1>2, <3>4, <3>5, <3>6, <3>7 DEF PlanoCerto
  <2>7. CASE Len(t) = 3
    <3>1. Len(s) = 5 /\ s[2 + 1] = t[1] /\ s[2 + 2] = t[2] /\ s[2 + 3] = t[3]
      BY <2>2, <2>4, <2>7
    <3>2. \A k \in 1 .. Len(s) : k = 1 \/ k = 2 \/ k = 3 \/ k = 4 \/ k = 5
      <4>1. \A k \in 1 .. 5 : k = 1 \/ k = 2 \/ k = 3 \/ k = 4 \/ k = 5
        OBVIOUS
      <4> QED BY <3>1, <4>1
    <3>3. /\ s[1].op = "selecionar" /\ s[1].coluna = d
          /\ s[2].op = "reordenar" /\ s[2].coluna = d /\ s[2].modo = "delete"
          /\ s[2].alvo = x
          /\ s[3].op = "selecionar" /\ s[3].coluna = c
          /\ s[4].op = "reordenar" /\ s[4].coluna = c /\ s[4].modo = "insert"
          /\ s[4].alvo = o
          /\ s[5].op = "gravar" /\ s[5].coluna = c /\ s[5].ordem = o
      BY <1>0, <2>0, <2>2, <2>3, <2>5, <2>7, <3>1
    <3> HIDE DEF d, x
    <3>4. DesvioCerto(tarefas, i, {}, s)
      BY <1>2, <3>1, <3>2, <3>3 DEF DesvioCerto
    <3>5. GravacaoCerta(tarefas, i, s)
      BY <3>1, <3>2, <3>3 DEF GravacaoCerta
    <3>6. EdicaoCerta(tarefas, tarefas, i, s)
      BY <3>2, <3>3 DEF EdicaoCerta
    <3>7. FimCerto(tarefas, i, s)
      BY <3>1, <3>3 DEF FimCerto
    <3> QED BY <1>2, <3>4, <3>5, <3>6, <3>7 DEF PlanoCerto
  <2> QED BY <2>3, <2>6, <2>7
<1>4. CASE c = d /\ o \notin {SemOrdem, x}
  <2>0. PICK modo \in {"insert", "update", "delete"} : modo = "update"
    OBVIOUS
  <2> DEFINE u == Reordenacao(c, modo, o, x)
             t == Gravar(op, c, o)
  <2>1. s = u \o t
    BY <1>0, <1>4, <2>0 DEF PassosMover
  <2>2. /\ u \in Seq(Passo) /\ Len(u) = 2
        /\ u[1].op = "selecionar" /\ u[1].coluna = c
        /\ u[2].op = "reordenar" /\ u[2].coluna = c /\ u[2].modo = modo /\ u[2].alvo = o
        /\ u[2].atual = x
    BY <1>1, <1>4, ReordenacaoPorExtenso
  <2>3. t \in Seq(Passo) /\ Len(t) = 1 /\ t[1].op = op /\ t[1].coluna = c /\ t[1].ordem = o
    BY GravarPorExtenso
  <2> HIDE DEF u, t
  <2>4. /\ Len(s) = Len(u) + Len(t)
        /\ \A k \in 1 .. Len(u) : s[k] = u[k]
        /\ \A k \in 1 .. Len(t) : s[Len(u) + k] = t[k]
    <3>1. u \in Seq(Passo) /\ t \in Seq(Passo)
      BY <2>2, <2>3
    <3> QED BY <2>1, <3>1, Concatenadas
  <2>5. Len(s) = 3 /\ s[1] = u[1] /\ s[2] = u[2] /\ s[2 + 1] = t[1]
    BY <2>2, <2>3, <2>4
  <2>6. \A k \in 1 .. Len(s) : k = 1 \/ k = 2 \/ k = 3
    <3>1. \A k \in 1 .. 3 : k = 1 \/ k = 2 \/ k = 3
      OBVIOUS
    <3> QED BY <2>5, <3>1
  <2>7. /\ s[1].op = "selecionar" /\ s[1].coluna = c
        /\ s[2].op = "reordenar" /\ s[2].coluna = c /\ s[2].modo = "update"
        /\ s[2].alvo = o /\ s[2].atual = x
        /\ s[3].op = "gravar" /\ s[3].coluna = c /\ s[3].ordem = o
    BY <1>0, <2>0, <2>2, <2>3, <2>5
  <2>8. Vaga(tarefas, i, c, x)
    BY <1>2, <1>4
  <2> HIDE DEF d, x
  <2>9. DesvioCerto(tarefas, i, {}, s)
    BY <2>5, <2>6, <2>7, <2>8 DEF DesvioCerto
  <2>10. GravacaoCerta(tarefas, i, s)
    BY <2>5, <2>6, <2>7 DEF GravacaoCerta
  <2>11. EdicaoCerta(tarefas, tarefas, i, s)
    BY <2>6, <2>7 DEF EdicaoCerta
  <2>12. FimCerto(tarefas, i, s)
    BY <2>5, <2>7 DEF FimCerto
  <2> QED BY <1>2, <2>9, <2>10, <2>11, <2>12 DEF PlanoCerto
<1>5. CASE c = d /\ o \in {SemOrdem, x}
  <2>1. s = Gravar(op, c, x)
    BY <1>0, <1>5 DEF PassosMover
  <2>2. Len(s) = 1 /\ s[1].op = "gravar" /\ s[1].coluna = c /\ s[1].ordem = x
    BY <1>0, <1>1, <2>1, GravarPorExtenso
  <2>3. \A k \in 1 .. Len(s) : k = 1
    BY <2>2
  <2>4. Vaga(tarefas, i, c, x)
    BY <1>2, <1>5
  <2> HIDE DEF d, x
  <2>5. DesvioCerto(tarefas, i, {}, s) /\ EdicaoCerta(tarefas, tarefas, i, s)
    BY <2>2, <2>3 DEF DesvioCerto, EdicaoCerta
  <2>6. GravacaoCerta(tarefas, i, s)
    BY <2>2, <2>3, <2>4 DEF GravacaoCerta
  <2>7. FimCerto(tarefas, i, s)
    BY <2>2 DEF FimCerto
  <2> QED BY <1>2, <2>5, <2>6, <2>7 DEF PlanoCerto
<1> QED BY <1>3, <1>4, <1>5

LEMMA PlanoDeRemover ==
  ASSUME OrdensDistintas, NEW i \in Ids, Presente(i), tarefas[i] \in Linha,
         NEW s, s = PassosRemover(tarefas[i])
  PROVE  PlanoCerto(tarefas, tarefas, i, {}, s)
<1> DEFINE d == tarefas[i].coluna
           x == tarefas[i].ordem
           a == [op |-> "remover"]
           t == << a >>
<1>1. d \in Colunas /\ x \in Ordem
  BY DEF Linha
<1>2. /\ OutrasDistintas(tarefas, i) /\ SuaVaga(tarefas, i) /\ Vaga(tarefas, i, d, x)
  BY DistintasDaTabela
<1>3. a \in Passo /\ a.op = "remover"
  BY DEF Passo, Saida
<1>4. PICK modo \in {"insert", "update", "delete"} : modo = "delete"
  OBVIOUS
<1> DEFINE u == Reordenacao(d, modo, x, x)
<1>5. s = t \o u
  BY <1>4 DEF PassosRemover
<1> HIDE DEF a
<1>6. t \in Seq(Passo) /\ Len(t) = 1 /\ t[1] = a
  BY <1>3
<1>7. /\ u \in Seq(Passo) /\ Len(u) = 2
      /\ u[1].op = "selecionar" /\ u[1].coluna = d
      /\ u[2].op = "reordenar" /\ u[2].coluna = d /\ u[2].modo = modo /\ u[2].alvo = x
  BY <1>1, ReordenacaoPorExtenso
<1> HIDE DEF u, t
<1>8. /\ Len(s) = Len(t) + Len(u)
      /\ \A k \in 1 .. Len(t) : s[k] = t[k]
      /\ \A k \in 1 .. Len(u) : s[Len(t) + k] = u[k]
  <2>1. u \in Seq(Passo) /\ t \in Seq(Passo)
    BY <1>6, <1>7
  <2> QED BY <1>5, <2>1, Concatenadas
<1>9. Len(s) = 3 /\ s[1] = a /\ s[1 + 1] = u[1] /\ s[1 + 2] = u[2]
  BY <1>6, <1>7, <1>8
<1>10. \A k \in 1 .. Len(s) : k = 1 \/ k = 2 \/ k = 3
  <2>1. \A k \in 1 .. 3 : k = 1 \/ k = 2 \/ k = 3
    OBVIOUS
  <2> QED BY <1>9, <2>1
<1>11. /\ s[1].op = "remover" /\ s[2].op = "selecionar" /\ s[2].coluna = d
       /\ s[3].op = "reordenar" /\ s[3].coluna = d /\ s[3].modo = "delete"
       /\ s[3].alvo = x
  BY <1>3, <1>4, <1>7, <1>9
<1> HIDE DEF d, x
<1>12. DesvioCerto(tarefas, i, {}, s)
  BY <1>2, <1>9, <1>10, <1>11 DEF DesvioCerto
<1>13. GravacaoCerta(tarefas, i, s) /\ EdicaoCerta(tarefas, tarefas, i, s)
  BY <1>10, <1>11 DEF GravacaoCerta, EdicaoCerta
<1>14. FimCerto(tarefas, i, s)
  BY <1>2, <1>10, <1>11 DEF FimCerto
<1> QED BY <1>2, <1>12, <1>13, <1>14 DEF PlanoCerto

LEMMA PlanoDeEditar ==
  ASSUME NEW v, NEW i \in Ids, tarefas[i] # Ausente, v[i] = tarefas[i], NEW vistas,
         OutrasDistintas(v, i), SuaVaga(v, i),
         NEW s, Len(s) = 1, s[1].op \in {"carregar", "salvar"}, s[1].linha = tarefas[i]
  PROVE  PlanoCerto(v, tarefas, i, vistas, s)
<1>1. \A k \in 1 .. Len(s) : k = 1
  OBVIOUS
<1>2. DesvioCerto(v, i, vistas, s) /\ GravacaoCerta(v, i, s)
  BY <1>1 DEF DesvioCerto, GravacaoCerta
<1>3. EdicaoCerta(v, tarefas, i, s)
  BY <1>1 DEF EdicaoCerta
<1>4. FimCerto(v, i, s)
  BY <1>1 DEF FimCerto
<1> QED BY <1>2, <1>3, <1>4 DEF PlanoCerto

LEMMA SerialChegar ==
  ASSUME NEW r \in Reqs, Reqs = {r}, Editadas = {}, KanbanInv, OrdensDistintas, Chegar(r)
  PROVE  SerialInv'
<1>0. TypeOK
  BY DEF KanbanInv
<1>1. ASSUME NEW c \in Colunas, NEW o \in Pedidas \cup {SemOrdem}, PedirCriacao(r, c, o)
      PROVE  SerialInv'
  <2> DEFINE s == Abrir("inserir", c, o)
  <2>1. o \in Ordem \cup {SemOrdem}
    BY LimitesAssumption
  <2>2. Iniciar(r, "criar", 0, Ausente, s)
    BY <1>1 DEF PedirCriacao
  <2> HIDE DEF s
  <2>3. PlanoCerto(tarefas, tarefas, 0, {}, s)
    BY <2>1, PlanoDeAbrir DEF s
  <2> QED BY <1>0, <2>2, <2>3, SerialIniciar
<1>2. ASSUME NEW c \in Colunas, NEW o \in Pedidas \cup {SemOrdem}, NEW i \in Ids,
             PedirMovimento(r, i, c, o)
      PROVE  SerialInv'
  <2> DEFINE s == PassosMover(tarefas[i], c, o)
  <2>1. o \in Ordem \cup {SemOrdem} /\ Presente(i) /\ tarefas[i] \in Linha
    BY <1>2, LimitesAssumption, DaTabela DEF PedirMovimento
  <2>2. Iniciar(r, "mover", i, tarefas[i], s)
    BY <1>2 DEF PedirMovimento
  <2> HIDE DEF s
  <2>3. PlanoCerto(tarefas, tarefas, i, {}, s)
    BY <2>1, PlanoDeMover DEF s
  <2> QED BY <1>0, <2>2, <2>3, SerialIniciar
<1>3. ASSUME NEW i \in Ids, PedirRemocao(r, i)
      PROVE  SerialInv'
  <2> DEFINE s == PassosRemover(tarefas[i])
  <2>1. Presente(i) /\ tarefas[i] \in Linha
    BY <1>3, DaTabela DEF PedirRemocao
  <2>2. Iniciar(r, "remover", i, tarefas[i], s)
    BY <1>3 DEF PedirRemocao
  <2> HIDE DEF s
  <2>3. PlanoCerto(tarefas, tarefas, i, {}, s)
    BY <2>1, PlanoDeRemover DEF s
  <2> QED BY <1>0, <2>2, <2>3, SerialIniciar
<1>4. ASSUME NEW i \in Ids, PedirEdicao(r, i, SemOrdem)
      PROVE  SerialInv'
  <2> DEFINE a == [op |-> "carregar", linha |-> tarefas[i]]
             s == << a >>
  <2>1. Presente(i) /\ tarefas[i] # Ausente
    BY <1>4 DEF PedirEdicao, Presente
  <2>2. Iniciar(r, "editar", i, tarefas[i], s)
    BY <1>4 DEF PedirEdicao
  <2>3. a.op = "carregar" /\ a.linha = tarefas[i]
    OBVIOUS
  <2> HIDE DEF a
  <2>4. Len(s) = 1 /\ s[1] = a
    OBVIOUS
  <2> HIDE DEF s
  <2>5. OutrasDistintas(tarefas, i) /\ SuaVaga(tarefas, i)
    BY DistintasDaTabela
  <2>6. PlanoCerto(tarefas, tarefas, i, {}, s)
    BY <2>1, <2>3, <2>4, <2>5, PlanoDeEditar
  <2> QED BY <1>0, <2>2, <2>6, SerialIniciar
<1> QED BY <1>1, <1>2, <1>3, <1>4 DEF Chegar

\* What the request in progress knows.
LEMMA NoPassoSerial ==
  ASSUME NEW r \in Reqs, KanbanInv, SerialInv, NEW op, Proximo(r, op)
  PROVE  /\ pedidos[r] \in Transacao /\ pedidos[r].id \in Nat
         /\ pedidos[r].passos \in Seq(Passo) /\ pedidos[r].passos # << >>
         /\ pedidos[r].passos[1].op = op /\ pedidos[r].passos[1] \in Passo
         /\ Head(pedidos[r].passos) = pedidos[r].passos[1]
         /\ 1 \in 1 .. Len(pedidos[r].passos)
         /\ PlanoCerto(VistaDe(r), tarefas, pedidos[r].id, pedidos[r].vistas,
                       pedidos[r].passos)
         /\ OrdensDistintas /\ TypeOK
<1>1. /\ Ativo(r) /\ pedidos[r] \in Transacao
      /\ pedidos[r].passos \in Seq(Passo) /\ pedidos[r].passos # << >>
      /\ pedidos[r].passos[1].op = op /\ pedidos[r].passos[1] \in Passo
      /\ Head(pedidos[r].passos) = pedidos[r].passos[1]
      /\ 1 \in 1 .. Len(pedidos[r].passos)
  BY NoPasso
<1> QED BY <1>1, CamposDaTransacao DEF SerialInv, KanbanInv

\* A statement that writes nothing, or only the row of its own task.
LEMMA SerialDaSua ==
  ASSUME NEW r \in Reqs, Reqs = {r}, KanbanInv, SerialInv, NEW op, Proximo(r, op),
         op \notin {"reordenar", "ultima", "inserir"},
         NEW q, pedidos' = [pedidos EXCEPT ![r] = q], tarefas' = tarefas,
         q.id = pedidos[r].id, q.passos = Tail(pedidos[r].passos),
         \A i \in Ids : i # q.id => VistaCom(q.escritas)[i] = VistaDe(r)[i],
         op = "selecionar" =>
            q.vistas = NaColunaDe(VistaCom(q.escritas), pedidos[r].passos[1].coluna),
         \/ op \in {"gravar", "salvar"} /\ SuaVaga(VistaCom(q.escritas), q.id)
         \/ op = "remover" /\ ~TemLinha(VistaCom(q.escritas), q.id)
         \/ op \notin {"gravar", "remover"} /\ VistaCom(q.escritas) = VistaDe(r)
  PROVE  SerialInv'
<1> DEFINE p == pedidos[r]
           v == VistaDe(r)
           s == p.passos
           w == VistaCom(q.escritas)
<1>1. /\ p.id \in Nat /\ s \in Seq(Passo) /\ s # << >> /\ s[1].op = op
      /\ PlanoCerto(v, tarefas, p.id, p.vistas, s) /\ OrdensDistintas /\ TypeOK
      /\ 1 \in 1 .. Len(s)
  BY NoPassoSerial
<1>0. /\ \A i \in Ids : i # p.id => w[i] = v[i]
      /\ op = "selecionar" => q.vistas = NaColunaDe(w, s[1].coluna)
      /\ \/ op \in {"gravar", "salvar"} /\ SuaVaga(w, p.id)
         \/ op = "remover" /\ ~TemLinha(w, p.id)
         \/ op \notin {"gravar", "remover"} /\ w = v
  OBVIOUS
<1> HIDE DEF p, v, w
<1>2. \A c, o : Vaga(v, p.id, c, o) => Vaga(w, p.id, c, o)
  BY <1>0 DEF Vaga
<1>3. OutrasDistintas(w, p.id)
  BY <1>0, <1>1 DEF OutrasDistintas, PlanoCerto
<1>5. ~(2 \in 1 .. Len(s) /\ s[2].op \in {"gravar", "inserir"})
  <2> SUFFICES ASSUME 2 \in 1 .. Len(s), s[2].op \in {"gravar", "inserir"} PROVE FALSE
    OBVIOUS
  <2>1. s[2 - 1].op = "ultima" \/ s[2 - 1].op = "reordenar"
    BY <1>1 DEF PlanoCerto, GravacaoCerta
  <2> QED BY <1>1, <2>1
<1>6. \/ 1 # Len(s) /\ s[Len(s)].op = "gravar"
      \/ /\ SuaVaga(w, p.id)
         /\ TemLinha(w, p.id) =>
               \A k \in 1 .. Len(s) : k # 1 => s[k].op \notin {"reordenar", "inserir"}
  <2>1. CASE op \in {"gravar", "salvar"} /\ SuaVaga(w, p.id)
    <3>1. 1 = Len(s)
      BY <1>1, <2>1 DEF PlanoCerto, GravacaoCerta, EdicaoCerta
    <3>2. \A k \in 1 .. Len(s) : k = 1
      <4>1. \A k \in 1 .. 1 : k = 1
        OBVIOUS
      <4> QED BY <3>1, <4>1
    <3> QED BY <2>1, <3>2
  <2>2. CASE op = "remover" /\ ~TemLinha(w, p.id)
    BY <2>2 DEF SuaVaga, TemLinha
  <2>3. CASE op \notin {"gravar", "remover"} /\ w = v
    <3>1. \/ Len(s) \in 1 .. Len(s) /\ s[Len(s)].op = "gravar"
          \/ /\ SuaVaga(v, p.id)
             /\ TemLinha(v, p.id) =>
                   \A k \in 1 .. Len(s) :
                      /\ s[k].op = "reordenar" => s[1].op = "remover"
                      /\ s[k].op # "inserir"
      BY <1>1 DEF PlanoCerto, FimCerto
    <3>2. 1 # Len(s) \/ s[Len(s)].op # "gravar"
      BY <1>1, <2>3
    <3> QED BY <1>1, <2>3, <3>1, <3>2
  <2> QED BY <1>0, <2>1, <2>2, <2>3
<1>7. PlanoCerto(w, tarefas, p.id, q.vistas, Tail(s))
  <2> DEFINE n == q.vistas
  <2>1. s[1].op = "selecionar" => n = NaColunaDe(w, s[1].coluna)
    BY <1>0, <1>1
  <2>2. \A k \in 1 .. Len(s) : k # 1 /\ s[k].op = "reordenar" =>
           \A o : Vaga(v, p.id, s[k].coluna, o) => Vaga(w, p.id, s[k].coluna, o)
    BY <1>2
  <2> HIDE DEF n, s
  <2> QED BY <1>1, <1>3, <1>5, <1>6, <2>1, <2>2, PlanoAvanca DEF n
<1>8. PlanoCerto(VistaCom(q.escritas), tarefas, q.id, q.vistas, q.passos)
  BY <1>7 DEF p, w
<1> QED BY <1>1, <1>8, SerialSegue

\* The table as the request sees it once row j is l.
LEMMA VistaEscrita ==
  ASSUME NEW r \in Reqs, pedidos[r] \in Transacao, NEW j \in Ids,
         NEW l \in Linha \cup {Ausente},
         NEW e, e = [pedidos[r].escritas EXCEPT ![j] = l]
  PROVE  /\ VistaCom(e)[j] = l
         /\ \A i \in Ids : i # j => VistaCom(e)[i] = VistaDe(r)[i]
<1>1. e[j] = l /\ \A i \in Ids \ {j} : e[i] = pedidos[r].escritas[i]
  BY CamposDaTransacao
<1> QED BY <1>1, SentinelasAssumption DEF VistaDe, VistaCom

LEMMA SerialSelecionar ==
  ASSUME NEW r \in Reqs, Reqs = {r}, KanbanInv, SerialInv, Selecionar(r)
  PROVE  SerialInv'
<1> DEFINE p == pedidos[r]
           c == Head(p.passos).coluna
           q == [[p EXCEPT !.vistas = NaColuna(r, c)] EXCEPT !.passos = Tail(@)]
<1>0. PICK op : op = "selecionar"
  OBVIOUS
<1>1. Proximo(r, op) /\ tarefas' = tarefas /\ pedidos' = [pedidos EXCEPT ![r] = q]
  BY <1>0 DEF Selecionar, Seguir
<1>2. p \in Transacao /\ c = p.passos[1].coluna
  BY <1>1, NoPassoSerial
<1>3. /\ q.id = p.id /\ q.passos = Tail(p.passos) /\ q.escritas = p.escritas
      /\ q.vistas = NaColuna(r, c)
  BY <1>2 DEF Transacao
<1> HIDE DEF q
<1>4. VistaCom(q.escritas) = VistaDe(r)
  BY <1>3 DEF VistaDe
<1>5. NaColuna(r, c) = NaColunaDe(VistaDe(r), c)
  BY DEF NaColuna, NaColunaDe, VistaDe, VistaCom, Vista
<1>6. op = "selecionar" =>
         q.vistas = NaColunaDe(VistaCom(q.escritas), pedidos[r].passos[1].coluna)
  BY <1>2, <1>3, <1>4, <1>5
<1>7. op \notin {"reordenar", "ultima", "inserir"}
  BY <1>0
<1>8. q.id = pedidos[r].id /\ q.passos = Tail(pedidos[r].passos)
  BY <1>3
<1>9. /\ \A i \in Ids : i # q.id => VistaCom(q.escritas)[i] = VistaDe(r)[i]
      /\ \/ op \in {"gravar", "salvar"} /\ SuaVaga(VistaCom(q.escritas), q.id)
         \/ op = "remover" /\ ~TemLinha(VistaCom(q.escritas), q.id)
         \/ op \notin {"gravar", "remover"} /\ VistaCom(q.escritas) = VistaDe(r)
  BY <1>0, <1>4
<1> HIDE DEF p, c
<1> QED BY <1>1, <1>6, <1>7, <1>8, <1>9, SerialDaSua

\* A statement that leaves the table as the request sees it.
LEMMA SerialPula ==
  ASSUME NEW r \in Reqs, Reqs = {r}, KanbanInv, SerialInv, NEW op, Proximo(r, op),
         op \notin {"selecionar", "reordenar", "ultima", "inserir"}, Seguir(r, pedidos[r]),
         op \in {"gravar", "remover"} => ~TemLinha(VistaDe(r), pedidos[r].id)
  PROVE  SerialInv'
<1> DEFINE p == pedidos[r]
           q == [p EXCEPT !.passos = Tail(@)]
<1>1. tarefas' = tarefas /\ pedidos' = [pedidos EXCEPT ![r] = q]
  BY DEF Seguir
<1>2. p \in Transacao
  BY NoPassoSerial
<1>3. q.id = p.id /\ q.passos = Tail(p.passos) /\ q.escritas = p.escritas
  BY <1>2 DEF Transacao
<1> HIDE DEF q
<1>4. VistaCom(q.escritas) = VistaDe(r)
  BY <1>3 DEF VistaDe
<1>5. op = "selecionar" =>
         q.vistas = NaColunaDe(VistaCom(q.escritas), pedidos[r].passos[1].coluna)
  OBVIOUS
<1>6. op \notin {"reordenar", "ultima", "inserir"}
  OBVIOUS
<1>7. q.id = pedidos[r].id /\ q.passos = Tail(pedidos[r].passos)
  BY <1>3
<1>8. /\ \A i \in Ids : i # q.id => VistaCom(q.escritas)[i] = VistaDe(r)[i]
      /\ \/ op \in {"gravar", "salvar"} /\ SuaVaga(VistaCom(q.escritas), q.id)
         \/ op = "remover" /\ ~TemLinha(VistaCom(q.escritas), q.id)
         \/ op \notin {"gravar", "remover"} /\ VistaCom(q.escritas) = VistaDe(r)
  BY <1>3, <1>4 DEF SuaVaga, TemLinha
<1> HIDE DEF p
<1> QED BY <1>1, <1>5, <1>6, <1>7, <1>8, SerialDaSua

\* A statement that writes the row of the request's task, where no other task is.
LEMMA SerialEscreve ==
  ASSUME NEW r \in Reqs, Reqs = {r}, KanbanInv, SerialInv, NEW op, Proximo(r, op),
         op \in {"gravar", "salvar", "remover"}, pedidos[r].id \in Ids,
         NEW l \in Linha \cup {Ausente}, op = "remover" => l = Ausente,
         Seguir(r, Escrever(pedidos[r], pedidos[r].id, l)),
         l # Ausente => Vaga(VistaDe(r), pedidos[r].id, l.coluna, l.ordem)
  PROVE  SerialInv'
<1> DEFINE j == pedidos[r].id
           q == [Escrever(pedidos[r], j, l) EXCEPT !.passos = Tail(@)]
<1>1. tarefas' = tarefas /\ pedidos' = [pedidos EXCEPT ![r] = q]
  BY DEF Seguir
<1>2. pedidos[r] \in Transacao
  BY NoPassoSerial
<1>3. /\ q.id = pedidos[r].id /\ q.passos = Tail(pedidos[r].passos)
      /\ q.escritas = [pedidos[r].escritas EXCEPT ![j] = l] /\ j \in Ids
  BY <1>2 DEF Transacao, Escrever
<1> HIDE DEF q, j
<1>4. /\ VistaCom(q.escritas)[j] = l
      /\ \A i \in Ids : i # j => VistaCom(q.escritas)[i] = VistaDe(r)[i]
  BY <1>2, <1>3, VistaEscrita
<1>5. j = q.id
  BY <1>3 DEF j
<1>6. SuaVaga(VistaCom(q.escritas), q.id)
  <2> DEFINE w == VistaCom(q.escritas)
             v == VistaDe(r)
  <2>1. w[j] = l /\ \A i \in Ids : i # j => w[i] = v[i]
    BY <1>4
  <2>2. l # Ausente => Vaga(v, j, l.coluna, l.ordem)
    BY DEF j
  <2> HIDE DEF w, v
  <2>3. SuaVaga(w, j)
    BY <2>1, <2>2 DEF SuaVaga, Vaga
  <2> QED BY <1>5, <2>3 DEF w
<1>7. op = "selecionar" =>
         q.vistas = NaColunaDe(VistaCom(q.escritas), pedidos[r].passos[1].coluna)
  OBVIOUS
<1>8. op \notin {"reordenar", "ultima", "inserir"}
  OBVIOUS
<1>9. /\ \A i \in Ids : i # q.id => VistaCom(q.escritas)[i] = VistaDe(r)[i]
      /\ \/ op \in {"gravar", "salvar"} /\ SuaVaga(VistaCom(q.escritas), q.id)
         \/ op = "remover" /\ ~TemLinha(VistaCom(q.escritas), q.id)
         \/ op \notin {"gravar", "remover"} /\ VistaCom(q.escritas) = VistaDe(r)
  BY <1>4, <1>5, <1>6 DEF TemLinha
<1> QED BY <1>1, <1>3, <1>7, <1>8, <1>9, SerialDaSua

LEMMA IdDaSua ==
  ASSUME NEW r \in Reqs, KanbanInv, NEW op, Proximo(r, op),
         op \in {"gravar", "remover", "carregar", "salvar", "reinserir"}
  PROVE  pedidos[r].id \in Ids
<1>1. /\ Ativo(r) /\ pedidos[r].passos[1].op = op /\ 1 \in 1 .. Len(pedidos[r].passos)
      /\ FormaDosPassos(pedidos[r].id, pedidos[r].passos)
  BY NoPasso
<1>2. pedidos[r].id # 0
  BY <1>1 DEF FormaDosPassos, SuaTarefa
<1>3. pedidos[r].id \in Nat /\ pedidos[r].id \in 0 .. MaxIds
  BY <1>1, DoPedido
<1> QED BY <1>2, <1>3, LimitesAssumption DEF Ids

LEMMA VistaDeI ==
  ASSUME NEW r \in Reqs, NEW i \in Ids
  PROVE  VistaDe(r)[i] = Vista(r, i)
BY DEF VistaDe, VistaCom, Vista

LEMMA SerialGravarPosicao ==
  ASSUME NEW r \in Reqs, Reqs = {r}, KanbanInv, SerialInv, GravarPosicao(r)
  PROVE  SerialInv'
<1> DEFINE p == pedidos[r]
           g == Head(p.passos)
           l == [coluna |-> g.coluna, ordem |-> g.ordem]
<1>0. PICK op : op = "gravar"
  OBVIOUS
<1>1. /\ Proximo(r, op) /\ op \in {"gravar", "salvar", "remover"}
      /\ op \notin {"selecionar", "reordenar", "ultima", "inserir"}
  BY <1>0 DEF GravarPosicao
<1>2. /\ g = p.passos[1] /\ g \in Passo /\ g.op = op /\ 1 \in 1 .. Len(p.passos)
      /\ PlanoCerto(VistaDe(r), tarefas, p.id, p.vistas, p.passos)
  BY <1>1, NoPassoSerial
<1>3. Vaga(VistaDe(r), p.id, g.coluna, g.ordem)
  BY <1>0, <1>2 DEF PlanoCerto, GravacaoCerta
<1>4. g \in Gravacao /\ g.ordem # SemOrdem
  <2>1. g \in Gravacao
    BY <1>0, <1>2, TiposDePassos
  <2>2. FormaDosPassos(p.id, p.passos)
    BY <1>1, NoPasso
  <2>3. g.ordem = SemOrdem => 1 - 1 \in 1 .. Len(p.passos)
    BY <1>0, <1>2, <2>2 DEF FormaDosPassos, GravarDepoisDaUltima
  <2> QED BY <2>1, <2>3
<1>5. l \in Linha \cup {Ausente} /\ l.coluna = g.coluna /\ l.ordem = g.ordem
  BY <1>4 DEF Gravacao, Linha
<1>6. p.id \in Ids
  BY <1>0, <1>1, IdDaSua
<1>7. CASE Vista(r, p.id) # Ausente
  <2>1. Seguir(r, Escrever(p, p.id, l))
    BY <1>7 DEF GravarPosicao
  <2>2. l # Ausente => Vaga(VistaDe(r), pedidos[r].id, l.coluna, l.ordem)
    BY <1>3, <1>5
  <2>3. op = "remover" => l = Ausente
    BY <1>0
  <2> HIDE DEF l, g
  <2> QED BY <1>1, <1>5, <1>6, <2>1, <2>2, <2>3, SerialEscreve
<1>8. CASE Vista(r, p.id) = Ausente
  <2>1. Seguir(r, p)
    BY <1>8 DEF GravarPosicao
  <2>2. ~TemLinha(VistaDe(r), p.id)
    BY <1>8, VistaDeI DEF TemLinha
  <2> QED BY <1>1, <2>1, <2>2, SerialPula
<1> QED BY <1>7, <1>8

LEMMA SerialRemoverTarefa ==
  ASSUME NEW r \in Reqs, Reqs = {r}, KanbanInv, SerialInv, RemoverTarefa(r)
  PROVE  SerialInv'
<1> DEFINE p == pedidos[r]
<1>0. PICK op : op = "remover"
  OBVIOUS
<1>1. /\ Proximo(r, op) /\ op \in {"gravar", "salvar", "remover"}
      /\ op \notin {"selecionar", "reordenar", "ultima", "inserir"}
  BY <1>0 DEF RemoverTarefa
<1>2. p.id \in Ids
  BY <1>0, <1>1, IdDaSua
<1>3. PICK l \in Linha \cup {Ausente} : l = Ausente
  OBVIOUS
<1>4. CASE Vista(r, p.id) # Ausente
  <2>1. Seguir(r, Escrever(p, p.id, l))
    BY <1>3, <1>4 DEF RemoverTarefa
  <2>2. /\ l # Ausente => Vaga(VistaDe(r), pedidos[r].id, l.coluna, l.ordem)
        /\ op = "remover" => l = Ausente
    BY <1>3
  <2> QED BY <1>1, <1>2, <2>1, <2>2, SerialEscreve
<1>5. CASE Vista(r, p.id) = Ausente
  <2>1. Seguir(r, p)
    BY <1>5 DEF RemoverTarefa
  <2>2. ~TemLinha(VistaDe(r), p.id)
    BY <1>5, VistaDeI DEF TemLinha
  <2> QED BY <1>1, <2>1, <2>2, SerialPula
<1> QED BY <1>4, <1>5

\* An edit without a position writes the row as it is.
LEMMA SuaEdicao ==
  ASSUME NEW r \in Reqs, KanbanInv, SerialInv, NEW op, Proximo(r, op),
         op \in {"carregar", "salvar", "reinserir"}
  PROVE  /\ pedidos[r].id \in Ids /\ Presente(pedidos[r].id)
         /\ tarefas[pedidos[r].id] \in Linha
         /\ Head(pedidos[r].passos).linha = tarefas[pedidos[r].id]
         /\ VistaDe(r)[pedidos[r].id] = tarefas[pedidos[r].id]
         /\ OutrasDistintas(VistaDe(r), pedidos[r].id)
         /\ SuaVaga(VistaDe(r), pedidos[r].id)
<1> DEFINE p == pedidos[r]
<1>1. /\ Head(p.passos) = p.passos[1] /\ p.passos[1].op = op /\ 1 \in 1 .. Len(p.passos)
      /\ PlanoCerto(VistaDe(r), tarefas, p.id, p.vistas, p.passos)
  BY NoPassoSerial
<1>2. /\ Len(p.passos) = 1 /\ p.id \in Ids /\ tarefas[p.id] # Ausente
      /\ VistaDe(r)[p.id] = tarefas[p.id] /\ p.passos[1].linha = tarefas[p.id]
  BY <1>1 DEF PlanoCerto, EdicaoCerta
<1>3. SuaVaga(VistaDe(r), p.id)
  <2>1. p.passos[Len(p.passos)].op # "gravar"
    BY <1>1, <1>2
  <2> QED BY <1>1, <2>1 DEF PlanoCerto, FimCerto
<1>4. OutrasDistintas(VistaDe(r), p.id)
  BY <1>1 DEF PlanoCerto
<1>5. Presente(p.id) /\ tarefas[p.id] \in Linha
  BY <1>2, DaTabela DEF Presente
<1> QED BY <1>1, <1>2, <1>3, <1>4, <1>5

LEMMA SerialSalvarTarefa ==
  ASSUME NEW r \in Reqs, Reqs = {r}, KanbanInv, SerialInv, SalvarTarefa(r)
  PROVE  SerialInv'
<1> DEFINE p == pedidos[r]
           s == Head(p.passos)
           a == tarefas[p.id]
           l == [k \in Campos |-> IF k \in s.campos THEN s.linha[k] ELSE a[k]]
<1>0. PICK op : op = "salvar"
  OBVIOUS
<1>1. /\ Proximo(r, op) /\ op \in {"gravar", "salvar", "remover"}
      /\ op \notin {"selecionar", "reordenar", "ultima", "inserir"}
  BY <1>0 DEF SalvarTarefa
<1>2. /\ p.id \in Ids /\ Presente(p.id) /\ a \in Linha /\ s.linha = a
      /\ VistaDe(r)[p.id] = a /\ SuaVaga(VistaDe(r), p.id)
  BY <1>0, <1>1, SuaEdicao
<1>3. Seguir(r, Escrever(p, p.id, l))
  BY <1>2 DEF SalvarTarefa
<1>4. l = [k \in Campos |-> a[k]]
  BY <1>2
<1> HIDE DEF l
<1>5. l = a
  <2> HIDE DEF a
  <2> QED BY <1>2, <1>4 DEF Linha, Campos
<1>6. a \in Linha \cup {Ausente} /\ Seguir(r, Escrever(p, p.id, a))
  BY <1>2, <1>3, <1>5
<1>7. /\ a # Ausente => Vaga(VistaDe(r), pedidos[r].id, a.coluna, a.ordem)
      /\ op = "remover" => a = Ausente
  BY <1>0, <1>2 DEF SuaVaga
<1> HIDE DEF a
<1> QED BY <1>1, <1>2, <1>6, <1>7, SerialEscreve

LEMMA SerialReinserirTarefa ==
  ASSUME NEW r \in Reqs, Reqs = {r}, KanbanInv, SerialInv, ReinserirTarefa(r)
  PROVE  SerialInv'
<1>0. PICK op : op = "reinserir"
  OBVIOUS
<1>1. Proximo(r, op) /\ ~Presente(pedidos[r].id)
  BY <1>0 DEF ReinserirTarefa
<1> QED BY <1>0, <1>1, SuaEdicao

LEMMA SerialCarregarTarefa ==
  ASSUME NEW r \in Reqs, Reqs = {r}, KanbanInv, SerialInv, CarregarTarefa(r)
  PROVE  SerialInv'
<1> DEFINE p == pedidos[r]
           l == Head(p.passos).linha
           cs == { k \in Campos : l[k] # tarefas[p.id][k] }
           a == [op |-> "salvar", linha |-> l, campos |-> cs]
           s == << a >>
           q == [p EXCEPT !.passos = s]
<1>0. PICK op : op = "carregar"
  OBVIOUS
<1>1. Proximo(r, op) /\ tarefas' = tarefas
  BY <1>0 DEF CarregarTarefa
<1>2. /\ p.id \in Ids /\ Presente(p.id) /\ tarefas[p.id] \in Linha /\ l = tarefas[p.id]
      /\ VistaDe(r)[p.id] = tarefas[p.id] /\ OutrasDistintas(VistaDe(r), p.id)
      /\ SuaVaga(VistaDe(r), p.id)
  BY <1>0, <1>1, SuaEdicao
<1>3. pedidos' = [pedidos EXCEPT ![r] = q]
  BY <1>2 DEF CarregarTarefa
<1>4. a.op = "salvar" /\ a.linha = tarefas[p.id]
  BY <1>2
<1> HIDE DEF a
<1>5. Len(s) = 1 /\ s[1] = a
  OBVIOUS
<1> HIDE DEF s
<1>6. p \in Transacao /\ OrdensDistintas /\ TypeOK
  BY <1>1, NoPassoSerial
<1>7. q.id = p.id /\ q.passos = s /\ q.escritas = p.escritas /\ q.vistas = p.vistas
  BY <1>6 DEF Transacao
<1> HIDE DEF q
<1>8. PlanoCerto(VistaDe(r), tarefas, p.id, p.vistas, s)
  <2> DEFINE v == VistaDe(r)
             i == p.id
             n == p.vistas
  <2>1. /\ i \in Ids /\ tarefas[i] # Ausente /\ v[i] = tarefas[i]
        /\ OutrasDistintas(v, i) /\ SuaVaga(v, i)
        /\ s[1].op \in {"carregar", "salvar"} /\ s[1].linha = tarefas[i]
    BY <1>2, <1>4, <1>5 DEF Presente
  <2> HIDE DEF v, i, n
  <2>2. PlanoCerto(v, tarefas, i, n, s)
    BY <1>5, <2>1, PlanoDeEditar
  <2> QED BY <2>2 DEF v, i, n
<1>9. PlanoCerto(VistaCom(q.escritas), tarefas, q.id, q.vistas, q.passos)
  BY <1>7, <1>8 DEF VistaDe
<1> QED BY <1>1, <1>3, <1>6, <1>9, SerialSegue

\* A shift keeps positions distinct, and frees the one asked for.
LEMMA DeslocadaDistinta ==
  ASSUME NEW m \in Deslocamento, NEW x \in Ordem, NEW y \in Ordem, x # y,
         m.modo = "delete" => x # m.alvo /\ y # m.alvo,
         m.modo = "update" => x # m.atual /\ y # m.atual
  PROVE  Deslocada(x, m) # Deslocada(y, m)
<1>1. m.alvo \in Int /\ m.atual \in Int /\ x \in Int /\ y \in Int
  BY LimitesAssumption DEF Deslocamento, Ordem
<1>2. m.modo \in {"insert", "update", "delete"}
  BY DEF Deslocamento
<1>3. CASE m.modo = "insert"
  BY <1>1, <1>3 DEF Deslocada, Desce, Sobe
<1>4. CASE m.modo = "update"
  BY <1>1, <1>4 DEF Deslocada, Desce, Sobe
<1>5. CASE m.modo = "delete"
  BY <1>1, <1>5 DEF Deslocada, Desce, Sobe
<1> QED BY <1>2, <1>3, <1>4, <1>5

LEMMA DeslocadaAbreVaga ==
  ASSUME NEW m \in Deslocamento, NEW x \in Ordem, m.modo # "delete",
         m.modo = "update" => x # m.atual
  PROVE  Deslocada(x, m) # m.alvo
<1>1. m.alvo \in Int /\ m.atual \in Int /\ x \in Int
  BY LimitesAssumption DEF Deslocamento, Ordem
<1>2. m.modo \in {"insert", "update", "delete"}
  BY DEF Deslocamento
<1> QED BY <1>1, <1>2 DEF Deslocada, Desce, Sobe

\* The table v once column m.coluna is shifted.
DeslocadaEm(v, w, m) ==
    \A i \in Ids :
       /\ v[i] = Ausente <=> w[i] = Ausente
       /\ v[i] # Ausente =>
             /\ v[i] \in Linha /\ w[i].coluna = v[i].coluna
             /\ w[i].ordem = IF v[i].coluna = m.coluna THEN Deslocada(v[i].ordem, m)
                                                       ELSE v[i].ordem

LEMMA PlanoDeslocado ==
  ASSUME NEW v, NEW w, NEW id \in Nat, NEW s \in Seq(Passo), s # << >>, NEW vistas, NEW t,
         PlanoCerto(v, t, id, vistas, s), CadaColunaUmaVez(s), NEW m \in Deslocamento,
         m = s[1], m.op = "reordenar", DeslocadaEm(v, w, m), NEW novas
  PROVE  PlanoCerto(w, t, id, novas, Tail(s))
<1>0. 1 \in 1 .. Len(s) /\ Len(s) \in Nat
  BY Restantes
<1>1. /\ OutrasDistintas(v, id) /\ DesvioCerto(v, id, vistas, s)
      /\ GravacaoCerta(v, id, s) /\ FimCerto(v, id, s)
  BY DEF PlanoCerto
<1>2. /\ m.modo = "delete" => Vaga(v, id, m.coluna, m.alvo)
      /\ m.modo = "update" => Vaga(v, id, m.coluna, m.atual)
      /\ m.modo # "delete" =>
            /\ 1 + 1 \in 1 .. Len(s) /\ s[1 + 1].op \in {"gravar", "inserir"}
            /\ s[1 + 1].coluna = m.coluna /\ s[1 + 1].ordem = m.alvo
  BY <1>0, <1>1 DEF DesvioCerto
\* Whoever is in the column and is not the task itself is shifted from a sound place.
<1>3. \A i \in Ids \ {id} : v[i] # Ausente /\ v[i].coluna = m.coluna =>
         /\ v[i].ordem \in Ordem
         /\ m.modo = "delete" => v[i].ordem # m.alvo
         /\ m.modo = "update" => v[i].ordem # m.atual
         /\ w[i].ordem = Deslocada(v[i].ordem, m)
  BY <1>2 DEF Vaga, DeslocadaEm, Linha
<1>4. OutrasDistintas(w, id)
  <2> SUFFICES ASSUME NEW i \in Ids \ {id}, w[i] # Ausente, NEW j \in Ids \ {id, i},
                      w[j] # Ausente, w[j].coluna = w[i].coluna
               PROVE  w[j].ordem # w[i].ordem
    BY DEF OutrasDistintas
  <2>1. /\ v[i] # Ausente /\ v[j] # Ausente /\ v[j].coluna = v[i].coluna
        /\ w[i].coluna = v[i].coluna
    BY DEF DeslocadaEm
  <2>2. v[j].ordem # v[i].ordem
    BY <1>1, <2>1 DEF OutrasDistintas
  <2>3. CASE v[i].coluna # m.coluna
    BY <2>1, <2>2, <2>3 DEF DeslocadaEm
  <2>4. CASE v[i].coluna = m.coluna
    <3> DEFINE x == v[i].ordem
               y == v[j].ordem
    <3>1. /\ x \in Ordem /\ y \in Ordem /\ y # x
          /\ m.modo = "delete" => y # m.alvo /\ x # m.alvo
          /\ m.modo = "update" => y # m.atual /\ x # m.atual
          /\ w[i].ordem = Deslocada(x, m) /\ w[j].ordem = Deslocada(y, m)
      BY <1>3, <2>1, <2>2, <2>4
    <3> HIDE DEF x, y
    <3>2. Deslocada(y, m) # Deslocada(x, m)
      BY <3>1, DeslocadaDistinta
    <3> QED BY <3>1, <3>2
  <2> QED BY <2>3, <2>4
<1>5. ASSUME NEW k \in 1 .. Len(s), k # 1, s[k].op = "reordenar", NEW o,
             Vaga(v, id, s[k].coluna, o)
      PROVE  Vaga(w, id, s[k].coluna, o)
  <2>1. s[k].coluna # m.coluna
    BY <1>0, <1>5 DEF CadaColunaUmaVez
  <2> QED BY <1>5, <2>1 DEF Vaga, DeslocadaEm
<1>6. ASSUME 2 \in 1 .. Len(s), s[2].op \in {"gravar", "inserir"}
      PROVE  Vaga(w, id, s[2].coluna, s[2].ordem)
  <2>1. m.modo # "delete"
    <3>1. \/ s[2 - 1].op = "ultima"
          \/ s[2 - 1].op = "reordenar" /\ s[2 - 1].modo # "delete"
      BY <1>1, <1>6 DEF GravacaoCerta
    <3> QED BY <3>1
  <2>2. s[2].coluna = m.coluna /\ s[2].ordem = m.alvo
    BY <1>2, <2>1
  <2> SUFFICES ASSUME NEW i \in Ids \ {id}, w[i] # Ausente, w[i].coluna = m.coluna
               PROVE  w[i].ordem # m.alvo
    BY <2>2 DEF Vaga
  <2>3. v[i] # Ausente /\ v[i].coluna = m.coluna
    BY DEF DeslocadaEm
  <2> DEFINE x == v[i].ordem
  <2>4. /\ x \in Ordem /\ (m.modo = "update" => x # m.atual)
        /\ w[i].ordem = Deslocada(x, m)
    BY <1>3, <2>3
  <2> HIDE DEF x
  <2> QED BY <2>1, <2>4, DeslocadaAbreVaga
<1>7. \/ 1 # Len(s) /\ s[Len(s)].op = "gravar"
      \/ /\ SuaVaga(w, id)
         /\ TemLinha(w, id) =>
               \A k \in 1 .. Len(s) : k # 1 => s[k].op \notin {"reordenar", "inserir"}
  <2>1. CASE s[Len(s)].op = "gravar"
    BY <2>1
  <2>2. CASE TemLinha(v, id) => \A k \in 1 .. Len(s) :
                                   s[k].op = "reordenar" => s[1].op = "remover"
    <3>1. ~TemLinha(v, id)
      BY <1>0, <2>2
    <3>2. ~TemLinha(w, id)
      BY <3>1 DEF TemLinha, DeslocadaEm
    <3> QED BY <3>2 DEF SuaVaga, TemLinha
  <2> QED BY <1>1, <2>1, <2>2 DEF FimCerto
<1>8. s[1].op # "selecionar"
  OBVIOUS
<1>9. \A k \in 1 .. Len(s) : k # 1 /\ s[k].op = "reordenar" =>
         \A o : Vaga(v, id, s[k].coluna, o) => Vaga(w, id, s[k].coluna, o)
  BY <1>5
<1>10. 2 \in 1 .. Len(s) /\ s[2].op \in {"gravar", "inserir"} =>
          Vaga(w, id, s[2].coluna, s[2].ordem)
  BY <1>6
<1> QED BY <1>4, <1>7, <1>8, <1>9, <1>10, PlanoAvanca

\* The request that shifts a column then sees that column shifted, and the rest as it was.
LEMMA ReordenarDesloca ==
  ASSUME NEW r \in Reqs, KanbanInv, SerialInv, Reordenar(r)
  PROVE  \E q, m :
            /\ pedidos' = [pedidos EXCEPT ![r] = q] /\ tarefas' = tarefas
            /\ q.id = pedidos[r].id /\ q.passos = Tail(pedidos[r].passos)
            /\ q.vistas = pedidos[r].vistas
            /\ m = pedidos[r].passos[1] /\ m \in Deslocamento /\ m.op = "reordenar"
            /\ DeslocadaEm(VistaDe(r), VistaCom(q.escritas), m)
<1> DEFINE p == pedidos[r]
           m == Head(p.passos)
           v == VistaDe(r)
           linhas == p.vistas \cap NaColuna(r, m.coluna)
           e == [i \in Ids |->
                    IF i \in linhas /\ Deslocada(Vista(r, i).ordem, m) # Vista(r, i).ordem
                    THEN [Vista(r, i) EXCEPT !.ordem = Deslocada(Vista(r, i).ordem, m)]
                    ELSE p.escritas[i]]
           q == [p EXCEPT !.passos = Tail(@), !.travadas = @ \cup linhas, !.escritas = e]
           w == VistaCom(e)
<1>0. PICK op : op = "reordenar"
  OBVIOUS
<1>1. /\ Proximo(r, op) /\ tarefas' = tarefas
      /\ \A i \in linhas : Deslocada(Vista(r, i).ordem, m) <= MaxOrdem
  BY <1>0 DEF Reordenar, Seguir
<1>2. /\ p \in Transacao /\ p.id \in Nat /\ m = p.passos[1] /\ m \in Passo /\ m.op = op
      /\ p.passos \in Seq(Passo) /\ p.passos # << >> /\ 1 \in 1 .. Len(p.passos)
      /\ PlanoCerto(v, tarefas, p.id, p.vistas, p.passos) /\ OrdensDistintas /\ TypeOK
  BY <1>1, NoPassoSerial
<1>3. m \in Deslocamento
  BY <1>0, <1>2, TiposDePassos
<1>4. Ativo(r) /\ CadaColunaUmaVez(p.passos)
  BY <1>1, NoPasso DEF FormaDosPassos
<1>5. pedidos' = [pedidos EXCEPT ![r] = q]
  <2>2. pedidos' = [pedidos EXCEPT ![r] =
           [[p EXCEPT !.travadas = @ \cup linhas, !.escritas = e]
               EXCEPT !.passos = Tail(@)]]
    BY DEF Reordenar, Seguir
  <2> HIDE DEF e, linhas
  <2>3. [[p EXCEPT !.travadas = @ \cup linhas, !.escritas = e] EXCEPT !.passos = Tail(@)]
           = [p EXCEPT !.passos = Tail(@), !.travadas = @ \cup linhas, !.escritas = e]
    BY <1>2 DEF Transacao
  <2> QED BY <2>2, <2>3
\* The rows the locking SELECT returns are those of the column.
<1>6. \A i \in Ids : i \in linhas <=> v[i] # Ausente /\ v[i].coluna = m.coluna
  <2>1. p.vistas = NaColunaDe(v, m.coluna)
    BY <1>0, <1>2 DEF PlanoCerto, DesvioCerto
  <2> QED BY <2>1, VistaDeI DEF NaColuna, NaColunaDe
<1>7. \A i \in Ids :
         /\ v[i] = Vista(r, i) /\ v[i] \in Linha \cup {Ausente}
         /\ p.escritas[i] = Intacta => v[i] = tarefas[i]
         /\ p.escritas[i] # Intacta => v[i] = p.escritas[i]
  BY <1>4, VistaDeI, TipoDaVista
<1> HIDE DEF linhas, m, v
<1>8. ASSUME NEW i \in Ids
      PROVE  /\ v[i] = Ausente <=> w[i] = Ausente
             /\ v[i] # Ausente =>
                   /\ v[i] \in Linha /\ w[i].coluna = v[i].coluna
                   /\ w[i].ordem = IF v[i].coluna = m.coluna THEN Deslocada(v[i].ordem, m)
                                                             ELSE v[i].ordem
  <2> DEFINE x == v[i]
             n == Deslocada(x.ordem, m)
  <2>1. w[i] = IF e[i] = Intacta THEN tarefas[i] ELSE e[i]
    BY DEF VistaCom
  <2>2. e[i] = IF i \in linhas /\ n # x.ordem THEN [x EXCEPT !.ordem = n] ELSE p.escritas[i]
    BY <1>7
  <2> HIDE DEF e, w, x, n
  <2>3. x \in Linha \cup {Ausente} /\ x = v[i]
    BY <1>7 DEF x
  <2>4. CASE i \in linhas /\ n # x.ordem
    <3>1. x \in Linha /\ x.coluna = m.coluna /\ n <= MaxOrdem
      BY <1>1, <1>6, <1>7, <2>3, <2>4 DEF n, x
    <3>2. x.ordem \in Ordem
      BY <3>1 DEF Linha
    <3>3. n = Deslocada(x.ordem, m)
      BY DEF n
    <3>4. n \in Ordem
      BY <1>3, <2>4, <3>1, <3>2, <3>3, DeslocadaVizinha
    <3>5. /\ e[i] = [x EXCEPT !.ordem = n] /\ e[i] \in Linha
          /\ e[i].coluna = x.coluna /\ e[i].ordem = n
      BY <2>2, <2>4, <3>1, <3>4 DEF Linha
    <3>6. w[i] = e[i] /\ e[i] # Ausente /\ x # Ausente
      BY <2>1, <3>1, <3>5, SentinelasAssumption
    <3> QED BY <2>3, <3>1, <3>3, <3>5, <3>6
  <2>5. CASE ~(i \in linhas /\ n # x.ordem)
    <3>1. w[i] = x
      BY <1>7, <2>1, <2>2, <2>3, <2>5
    <3>2. x # Ausente /\ x.coluna = m.coluna => n = x.ordem
      BY <1>6, <2>3, <2>5
    <3> QED BY <2>3, <3>1, <3>2 DEF n
  <2> QED BY <2>4, <2>5
<1>9. DeslocadaEm(v, w, m)
  BY <1>8 DEF DeslocadaEm
<1> HIDE DEF e, w
<1>10. /\ q.id = p.id /\ q.passos = Tail(p.passos) /\ q.escritas = e /\ q.vistas = p.vistas
  BY <1>2 DEF Transacao
<1>11. DeslocadaEm(v, VistaCom(q.escritas), m)
  BY <1>9, <1>10 DEF w
<1> HIDE DEF q
<1>12. m.op = "reordenar"
  BY <1>0, <1>2
<1> QED BY <1>1, <1>2, <1>3, <1>5, <1>10, <1>11, <1>12 DEF v

LEMMA SerialReordenar ==
  ASSUME NEW r \in Reqs, Reqs = {r}, KanbanInv, SerialInv, Reordenar(r)
  PROVE  SerialInv'
<1> DEFINE p == pedidos[r]
           v == VistaDe(r)
<1>1. PICK q, m :
         /\ pedidos' = [pedidos EXCEPT ![r] = q] /\ tarefas' = tarefas
         /\ q.id = p.id /\ q.passos = Tail(p.passos) /\ q.vistas = p.vistas
         /\ m = p.passos[1] /\ m \in Deslocamento /\ m.op = "reordenar"
         /\ DeslocadaEm(v, VistaCom(q.escritas), m)
  BY ReordenarDesloca
<1>2. PICK op : op = "reordenar"
  OBVIOUS
<1>3. Proximo(r, op)
  BY <1>2 DEF Reordenar
<1>4. /\ p.id \in Nat /\ p.passos \in Seq(Passo) /\ p.passos # << >>
      /\ PlanoCerto(v, tarefas, p.id, p.vistas, p.passos) /\ OrdensDistintas /\ TypeOK
  BY <1>3, NoPassoSerial
<1>5. CadaColunaUmaVez(p.passos)
  BY <1>3, NoPasso DEF FormaDosPassos
<1> DEFINE s == p.passos
           id == p.id
           n == p.vistas
           w == VistaCom(q.escritas)
<1>6. /\ s \in Seq(Passo) /\ s # << >> /\ id \in Nat /\ PlanoCerto(v, tarefas, id, n, s)
      /\ CadaColunaUmaVez(s) /\ m \in Deslocamento /\ m = s[1] /\ m.op = "reordenar"
      /\ DeslocadaEm(v, w, m)
  BY <1>1, <1>4, <1>5
<1>7. q.id = id /\ q.passos = Tail(s) /\ q.vistas = n
  BY <1>1
<1> HIDE DEF s, id, n, w, v
<1>8. PlanoCerto(w, tarefas, id, n, Tail(s))
  BY <1>6, PlanoDeslocado
<1>9. PlanoCerto(VistaCom(q.escritas), tarefas, q.id, q.vistas, q.passos)
  BY <1>7, <1>8 DEF w
<1> QED BY <1>1, <1>4, <1>9, SerialSegue

\* The position found is after every other in the column.
LEMMA SerialLerUltima ==
  ASSUME NEW r \in Reqs, Reqs = {r}, KanbanInv, SerialInv, LerUltima(r)
  PROVE  SerialInv'
<1> DEFINE p == pedidos[r]
           s == p.passos
           v == VistaDe(r)
           c == Head(s).coluna
<1>0. PICK op : op = "ultima"
  OBVIOUS
<1>1. Proximo(r, op) /\ tarefas' = tarefas
  BY <1>0 DEF LerUltima, Seguir
<1>2. /\ p \in Transacao /\ Head(s) = s[1] /\ s[1].op = op
      /\ s \in Seq(Passo) /\ s # << >> /\ 1 \in 1 .. Len(s)
      /\ PlanoCerto(v, tarefas, p.id, p.vistas, s) /\ OrdensDistintas /\ TypeOK
  BY <1>1, NoPassoSerial
<1>3. Ativo(r) /\ FormaDosPassos(p.id, s)
  BY <1>1, NoPasso
<1>4. 1 + 1 \in 1 .. Len(s) /\ s[1 + 1].op \in {"gravar", "inserir"}
  BY <1>0, <1>2, <1>3 DEF FormaDosPassos, UltimaAntesDeGravar
<1>5. Len(s) = 2 /\ s[2].op \in {"gravar", "inserir"} /\ s[1].coluna = s[2].coluna
  <2>1. 2 \in 1 .. Len(s) /\ s[2].op \in {"gravar", "inserir"} /\ 2 - 1 = 1
    BY <1>4
  <2>2. GravacaoCerta(v, p.id, s)
    BY <1>2 DEF PlanoCerto
  <2> HIDE DEF s, v
  <2>3. 2 = Len(s) /\ s[2 - 1].coluna = s[2].coluna
    BY <2>1, <2>2 DEF GravacaoCerta
  <2> QED BY <2>1, <2>3
<1>6. s[2] \in Gravacao /\ s[2].coluna = c
  <2>1. s[2] \in Passo
    BY <1>2, <1>5
  <2> QED BY <1>2, <1>4, <1>5, <2>1, TiposDePassos
<1>7. PICK o \in 0 .. MaxOrdem - 1 :
         /\ \A x \in { Vista(r, i).ordem : i \in NaColuna(r, c) } : x <= o
         /\ pedidos' = [pedidos EXCEPT ![r] =
               [[p EXCEPT !.passos[2].ordem = o + 1] EXCEPT !.passos = Tail(@)]]
  BY DEF LerUltima, Seguir
<1> DEFINE g == [s[2] EXCEPT !.ordem = o + 1]
           u == [s EXCEPT ![2] = g]
           t == Tail(u)
           q == [p EXCEPT !.passos = t]
<1>8. pedidos' = [pedidos EXCEPT ![r] = q]
  <2>1. [[p EXCEPT !.passos[2].ordem = o + 1] EXCEPT !.passos = Tail(@)] = q
    BY <1>2 DEF Transacao
  <2> QED BY <1>7, <2>1
<1>9. g \in Passo /\ g.op = s[2].op /\ g.coluna = c /\ g.ordem = o + 1
  <2>1. o + 1 \in Ordem
    BY LimitesAssumption DEF Ordem
  <2> QED BY <1>6, <2>1 DEF Gravacao, Passo
<1>10. Vaga(v, p.id, c, o + 1)
  <2> SUFFICES ASSUME NEW i \in Ids, v[i] # Ausente, v[i].coluna = c
               PROVE  v[i].ordem # o + 1
    BY DEF Vaga
  <2>1. v[i] = Vista(r, i)
    BY VistaDeI
  <2>2. i \in NaColuna(r, c)
    BY <2>1 DEF NaColuna
  <2>3. v[i].ordem <= o
    BY <1>7, <2>1, <2>2
  <2>4. v[i].ordem \in Nat
    <3>1. v[i] \in Linha
      BY <1>3, <2>1, TipoDaVista
    <3> QED BY <3>1, LimitesAssumption DEF Linha, Ordem
  <2> QED BY <2>3, <2>4
<1> HIDE DEF g, s, c
<1>11. u \in Seq(Passo) /\ Len(u) = 2 /\ u[2] = g
  <2>1. 2 \in 1 .. Len(s)
    BY <1>5
  <2>2. u \in Seq(Passo) /\ Len(u) = Len(s) /\ u[2] = g
    BY <1>2, <1>9, <2>1
  <2> QED BY <1>5, <2>2
<1> HIDE DEF u
<1>12. t \in Seq(Passo) /\ Len(t) = 1 /\ t[1] = g
  <2>1. u # << >>
    BY <1>11
  <2>2. /\ t \in Seq(Passo) /\ Len(t) = Len(u) - 1
        /\ \A k \in 1 .. Len(t) : t[k] = u[k + 1]
    BY <1>11, <2>1, Restantes
  <2>3. Len(t) = 1 /\ 1 \in 1 .. Len(t) /\ 1 + 1 = 2
    BY <1>11, <2>2
  <2> QED BY <1>11, <2>2, <2>3
<1>13. q.id = p.id /\ q.passos = t /\ q.escritas = p.escritas /\ q.vistas = p.vistas
  BY <1>2 DEF Transacao
<1> HIDE DEF t, q
<1>14. \A k \in 1 .. Len(t) : k = 1
  <2>1. \A k \in 1 .. 1 : k = 1
    OBVIOUS
  <2> QED BY <1>12, <2>1
<1>15. g.op \in {"gravar", "inserir"}
  BY <1>4, <1>9
<1>16. PlanoCerto(v, tarefas, p.id, p.vistas, t)
  <2> DEFINE id == p.id
             n == p.vistas
  <2>1. OutrasDistintas(v, id) /\ FimCerto(v, id, s)
    BY <1>2 DEF PlanoCerto
  <2>2. Vaga(v, id, g.coluna, g.ordem)
    BY <1>9, <1>10
  <2> HIDE DEF v, id, n
  <2>3. DesvioCerto(v, id, n, t) /\ EdicaoCerta(v, tarefas, id, t)
    BY <1>12, <1>14, <1>15 DEF DesvioCerto, EdicaoCerta
  <2>4. GravacaoCerta(v, id, t)
    BY <1>12, <1>14, <2>2 DEF GravacaoCerta
  <2>5. FimCerto(v, id, t)
    <3>1. CASE s[2].op = "gravar"
      BY <1>9, <1>12, <3>1 DEF FimCerto
    <3>2. CASE s[2].op # "gravar"
      BY <1>5, <1>12, <1>14, <1>15, <2>1, <3>2 DEF FimCerto
    <3> QED BY <3>1, <3>2
  <2>6. PlanoCerto(v, tarefas, id, n, t)
    BY <2>1, <2>3, <2>4, <2>5 DEF PlanoCerto
  <2> QED BY <2>6 DEF id, n
<1>17. PlanoCerto(VistaCom(q.escritas), tarefas, q.id, q.vistas, q.passos)
  BY <1>13, <1>16 DEF v, VistaDe
<1> QED BY <1>1, <1>2, <1>8, <1>17, SerialSegue

\* The new task goes where no other is.
LEMMA SerialInserirTarefa ==
  ASSUME NEW r \in Reqs, Reqs = {r}, KanbanInv, SerialInv, InserirTarefa(r)
  PROVE  SerialInv'
<1> DEFINE p == pedidos[r]
           s == p.passos
           v == VistaDe(r)
           g == Head(s)
           l == [coluna |-> g.coluna, ordem |-> g.ordem]
           j == seq + 1
           q == [Escrever(p, j, l) EXCEPT !.passos = Tail(@)]
           w == VistaCom(q.escritas)
<1>0. PICK op : op = "inserir"
  OBVIOUS
<1>1. /\ Proximo(r, op) /\ tarefas' = tarefas /\ seq < MaxIds
      /\ pedidos' = [pedidos EXCEPT ![r] = q]
  BY <1>0 DEF InserirTarefa, Seguir
<1>2. /\ p \in Transacao /\ g = s[1] /\ g \in Passo /\ g.op = op /\ p.id \in Nat
      /\ s \in Seq(Passo) /\ s # << >> /\ 1 \in 1 .. Len(s)
      /\ PlanoCerto(v, tarefas, p.id, p.vistas, s) /\ OrdensDistintas /\ TypeOK
  BY <1>1, NoPassoSerial
<1>3. Ativo(r) /\ FormaDosPassos(p.id, s)
  BY <1>1, NoPasso
<1>4. j \in Ids /\ seq \in Nat /\ p.id <= seq /\ ~(j <= seq) /\ p.id # j
  BY <1>1, <1>3, SeqTipada, DoPedido, LimitesAssumption DEF Ids
<1>5. Len(s) = 1 /\ Vaga(v, p.id, g.coluna, g.ordem)
  BY <1>0, <1>2 DEF PlanoCerto, GravacaoCerta
<1>6. g \in Gravacao /\ g.ordem # SemOrdem
  <2>1. g \in Gravacao
    BY <1>0, <1>2, TiposDePassos
  <2>2. g.ordem = SemOrdem => 1 - 1 \in 1 .. Len(s)
    BY <1>0, <1>2, <1>3 DEF FormaDosPassos, GravarDepoisDaUltima
  <2> QED BY <2>1, <2>2
<1>7. l \in Linha /\ l \in Linha \cup {Ausente} /\ l.coluna = g.coluna /\ l.ordem = g.ordem
  BY <1>6 DEF Gravacao, Linha
<1>8. /\ q.id = p.id /\ q.passos = Tail(s) /\ q.vistas = p.vistas
      /\ q.escritas = [p.escritas EXCEPT ![j] = l]
  BY <1>2 DEF Transacao, Escrever
<1>9. ~TemLinha(v, p.id)
  <2>1. s[Len(s)].op # "gravar" /\ s[1].op = "inserir"
    BY <1>0, <1>2, <1>5
  <2>2. FimCerto(v, p.id, s)
    BY <1>2 DEF PlanoCerto
  <2> HIDE DEF s, v
  <2> QED BY <1>2, <2>1, <2>2 DEF FimCerto
<1> HIDE DEF q, g, l, j
<1>10. w[j] = l /\ \A i \in Ids : i # j => w[i] = v[i]
  <2> DEFINE e == q.escritas
  <2>1. e = [pedidos[r].escritas EXCEPT ![j] = l]
    BY <1>8
  <2> HIDE DEF e
  <2>2. /\ VistaCom(e)[j] = l
        /\ \A i \in Ids : i # j => VistaCom(e)[i] = VistaDe(r)[i]
    BY <1>2, <1>4, <1>7, <2>1, VistaEscrita
  <2> QED BY <2>2 DEF e
<1>11. PlanoCerto(w, tarefas, p.id, p.vistas, Tail(s))
  <2> DEFINE id == p.id
             n == p.vistas
             t == Tail(s)
  <2>1. Len(t) = 0
    BY <1>2, <1>5, Restantes
  <2>2. OutrasDistintas(v, id) /\ id # j
    BY <1>2, <1>4 DEF PlanoCerto
  <2>3. Vaga(v, id, l.coluna, l.ordem) /\ ~TemLinha(v, id)
    BY <1>5, <1>7, <1>9
  <2> HIDE DEF v, w, id, n, t
  <2>4. OutrasDistintas(w, id)
    <3> SUFFICES ASSUME NEW i \in Ids \ {id}, w[i] # Ausente, NEW k \in Ids \ {id, i},
                        w[k] # Ausente, w[k].coluna = w[i].coluna
                 PROVE  w[k].ordem # w[i].ordem
      BY DEF OutrasDistintas
    <3>1. CASE i = j
      BY <1>10, <2>3, <3>1 DEF Vaga
    <3>2. CASE k = j
      BY <1>10, <2>3, <3>2 DEF Vaga
    <3>3. CASE i # j /\ k # j
      BY <1>10, <2>2, <3>3 DEF OutrasDistintas
    <3> QED BY <3>1, <3>2, <3>3
  <2>5. ~TemLinha(w, id)
    BY <1>10, <2>2, <2>3 DEF TemLinha
  <2>6. FimCerto(w, id, t)
    BY <2>5 DEF FimCerto, SuaVaga, TemLinha
  <2>7. \A k \in 1 .. Len(t) : FALSE
    BY <2>1
  <2>8. /\ DesvioCerto(w, id, n, t) /\ GravacaoCerta(w, id, t)
        /\ EdicaoCerta(w, tarefas, id, t)
    BY <2>7 DEF DesvioCerto, GravacaoCerta, EdicaoCerta
  <2>9. PlanoCerto(w, tarefas, id, n, t)
    BY <2>4, <2>6, <2>8 DEF PlanoCerto
  <2> QED BY <2>9 DEF id, n, t
<1>12. PlanoCerto(VistaCom(q.escritas), tarefas, q.id, q.vistas, q.passos)
  BY <1>8, <1>11 DEF w
<1> QED BY <1>1, <1>2, <1>12, SerialSegue

LEMMA SerialConfirmar ==
  ASSUME NEW r \in Reqs, Reqs = {r}, KanbanInv, SerialInv, Confirmar(r)
  PROVE  SerialInv'
<1> DEFINE p == pedidos[r]
           v == VistaDe(r)
<1>1. /\ Ativo(r) /\ p.passos = << >> /\ tarefas' = [i \in Ids |-> Vista(r, i)]
      /\ pedidos' = [pedidos EXCEPT ![r] = Livre]
  BY DEF Confirmar, Ativo
<1>2. PlanoCerto(v, tarefas, p.id, p.vistas, p.passos)
  BY <1>1 DEF SerialInv
<1>3. OutrasDistintas(v, p.id) /\ SuaVaga(v, p.id)
  BY <1>1, <1>2 DEF PlanoCerto, FimCerto
<1>4. \A i \in Ids : tarefas'[i] = v[i]
  BY <1>1, VistaDeI
<1> HIDE DEF v
<1>5. ASSUME NEW i \in Ids, NEW j \in Ids, v[i] # Ausente, v[j] # Ausente, i # j,
             v[i].coluna = v[j].coluna
      PROVE  v[i].ordem # v[j].ordem
  <2>1. CASE i = p.id
    BY <1>3, <1>5, <2>1 DEF SuaVaga, Vaga
  <2>2. CASE j = p.id
    BY <1>3, <1>5, <2>2 DEF SuaVaga, Vaga
  <2>3. CASE i # p.id /\ j # p.id
    BY <1>3, <1>5, <2>3 DEF OutrasDistintas
  <2> QED BY <2>1, <2>2, <2>3
<1>6. OrdensDistintas'
  BY <1>4, <1>5 DEF OrdensDistintas, Presente
<1>7. pedidos'[r] = Livre
  BY <1>1 DEF KanbanInv, TypeOK
<1> QED BY <1>6, <1>7 DEF SerialInv, Ativo

LEMMA SerialFalhar ==
  ASSUME NEW r \in Reqs, Reqs = {r}, KanbanInv, SerialInv, Falhar(r)
  PROVE  SerialInv'
<1>1. pedidos'[r] = Livre /\ tarefas' = tarefas
  BY DEF Falhar, KanbanInv, TypeOK
<1> QED BY <1>1 DEF SerialInv, Ativo, OrdensDistintas, Presente

LEMMA SerialInicial ==
  ASSUME Init
  PROVE  SerialInv
BY DEF Init, SerialInv, Ativo, OrdensDistintas, Presente

LEMMA SerialParada ==
  ASSUME SerialInv, UNCHANGED vars
  PROVE  SerialInv'
<1>1. tarefas' = tarefas /\ pedidos' = pedidos
  BY DEF vars
<1>2. \A r \in Reqs : VistaDe(r)' = VistaDe(r)
  BY <1>1 DEF VistaDe, VistaCom
<1>3. OrdensDistintas' /\ \A r \in Reqs : Ativo(r)' <=> Ativo(r)
  BY <1>1 DEF SerialInv, OrdensDistintas, Presente, Ativo
<1> QED BY <1>1, <1>2, <1>3 DEF SerialInv

LEMMA SerialSeMantem ==
  ASSUME NEW r \in Reqs, Reqs = {r}, Editadas = {}, KanbanInv, SerialInv, [Next]_vars
  PROVE  SerialInv'
<1>1. CASE Chegar(r)
  BY <1>1, SerialChegar DEF SerialInv
<1>2. CASE Continuar(r)
  BY <1>2, SerialSelecionar, SerialReordenar, SerialLerUltima, SerialGravarPosicao,
     SerialInserirTarefa, SerialRemoverTarefa, SerialCarregarTarefa, SerialSalvarTarefa,
     SerialReinserirTarefa, SerialConfirmar, SerialFalhar DEF Continuar
<1>3. CASE UNCHANGED vars
  BY <1>3, SerialParada
<1> QED BY <1>1, <1>2, <1>3 DEF Next

\* PosicoesCoerentes when one request follows another, none of them an edit that asks for a
\* position: every shift then opens the place the task is written to, or closes the one it
\* leaves, and no two tasks of a column ever have the same position.
THEOREM PosicoesSempreCoerentes ==
  ASSUME NEW r \in Reqs, Reqs = {r}, Editadas = {}
  PROVE  Spec => []PosicoesCoerentes
<1>1. KanbanInv /\ SerialInv /\ [Next]_vars => SerialInv'
  BY SerialSeMantem
<1>2. KanbanInv /\ SerialInv => PosicoesCoerentes
  BY DEF KanbanInv, SerialInv, PosicoesCoerentes
<1>3. Init => SerialInv
  BY SerialInicial
<1> QED BY <1>1, <1>2, <1>3, KanbanSempreCoerente, PTL DEF Spec

-----------------------------------------------------------------------------
(* The board of Quadro. *)

\* In v, the table as a request about task id sees it, the other tasks of t are in the
\* columns they are in, in the order they are in.
MesmasListas(v, t, id) ==
    /\ \A i \in Ids \ {id} : t[i] # Ausente => v[i] # Ausente /\ v[i].coluna = t[i].coluna
    /\ \A i, j \in Ids \ {id} :
          t[i] # Ausente /\ t[j] # Ausente /\ t[i].coluna = t[j].coluna
             => (v[i].ordem < v[j].ordem <=> t[i].ordem < t[j].ordem)

\* A task that is not the one the request was about is the one it creates, with its last
\* statement; a request that is about a task creates none.
SoATarefaNova(v, t, id, s, n) ==
    /\ \A i \in Ids \ {id} : t[i] = Ausente /\ v[i] # Ausente => id = 0 /\ s = << >> /\ i = n
    /\ \A k \in 1 .. Len(s) : s[k].op = "inserir" => id = 0

ListasInv ==
    \A r \in Reqs : Ativo(r) =>
       /\ MesmasListas(VistaDe(r), tarefas, pedidos[r].id)
       /\ SoATarefaNova(VistaDe(r), tarefas, pedidos[r].id, pedidos[r].passos, seq)

LEMMA ListasSegue ==
  ASSUME NEW r \in Reqs, Reqs = {r}, TypeOK, NEW q,
         pedidos' = [pedidos EXCEPT ![r] = q], tarefas' = tarefas,
         MesmasListas(VistaCom(q.escritas), tarefas, q.id),
         SoATarefaNova(VistaCom(q.escritas), tarefas, q.id, q.passos, seq')
  PROVE  ListasInv'
<1>1. pedidos'[r] = q
  BY DEF TypeOK
<1>2. VistaDe(r)' = VistaCom(q.escritas)
  BY <1>1 DEF VistaDe, VistaCom
<1>3. /\ MesmasListas(VistaDe(r)', tarefas', pedidos'[r].id)
      /\ SoATarefaNova(VistaDe(r)', tarefas', pedidos'[r].id, pedidos'[r].passos, seq')
  BY <1>1, <1>2
<1> QED BY <1>3 DEF ListasInv

\* What the request in progress knows.
LEMMA NoPassoDasListas ==
  ASSUME NEW r \in Reqs, KanbanInv, ListasInv, NEW op, Proximo(r, op)
  PROVE  /\ MesmasListas(VistaDe(r), tarefas, pedidos[r].id)
         /\ \A i \in Ids \ {pedidos[r].id} : tarefas[i] = Ausente => VistaDe(r)[i] = Ausente
         /\ \A k \in 1 .. Len(pedidos[r].passos) :
               pedidos[r].passos[k].op = "inserir" => pedidos[r].id = 0
         /\ TypeOK
<1>1. Ativo(r) /\ pedidos[r].passos # << >>
  BY NoPasso
<1> QED BY <1>1 DEF ListasInv, SoATarefaNova, KanbanInv

\* A request begins with the table as it is.
LEMMA ListasIniciar ==
  ASSUME NEW r \in Reqs, Reqs = {r}, TypeOK, NEW tipo, NEW id, NEW lida,
         NEW passos, Iniciar(r, tipo, id, lida, passos),
         \A k \in 1 .. Len(passos) : passos[k].op = "inserir" => id = 0
  PROVE  ListasInv'
<1> DEFINE e == [i \in Ids |-> Intacta]
           q == [ fase |-> "transacao", tipo |-> tipo, id |-> id, lida |-> lida,
                  passos |-> passos, vistas |-> {}, travadas |-> {}, escritas |-> e ]
<1>1. pedidos' = [pedidos EXCEPT ![r] = q] /\ tarefas' = tarefas
  BY DEF Iniciar
<1>2. VistaCom(e) = tarefas
  BY DEF TypeOK, VistaCom
<1> HIDE DEF e
<1>3. q.id = id /\ q.passos = passos /\ q.escritas = e
  OBVIOUS
<1> HIDE DEF q
<1>4. /\ MesmasListas(tarefas, tarefas, id)
      /\ SoATarefaNova(tarefas, tarefas, id, passos, seq')
  BY DEF MesmasListas, SoATarefaNova
<1>5. /\ MesmasListas(VistaCom(q.escritas), tarefas, q.id)
      /\ SoATarefaNova(VistaCom(q.escritas), tarefas, q.id, q.passos, seq')
  BY <1>2, <1>3, <1>4
<1> QED BY <1>1, <1>5, ListasSegue

\* Only the plan of a request that creates a task has an INSERT.
SemInsercao(s) == \A k \in 1 .. Len(s) : s[k].op # "inserir"

LEMMA SemInsercaoConcatenada ==
  ASSUME NEW s \in Seq(Passo), NEW t \in Seq(Passo), SemInsercao(s), SemInsercao(t)
  PROVE  s \o t \in Seq(Passo) /\ SemInsercao(s \o t)
<1> DEFINE u == s \o t
           n == Len(s)
           m == Len(t)
<1>1. /\ n \in Nat /\ m \in Nat /\ Len(u) = n + m /\ u \in Seq(Passo)
      /\ \A k \in 1 .. n : u[k] = s[k]
      /\ \A k \in 1 .. m : u[n + k] = t[k]
  BY Concatenadas
<1>2. \A k \in 1 .. Len(u) :
         \/ k \in 1 .. n /\ u[k] = s[k]
         \/ k - n \in 1 .. m /\ u[k] = t[k - n]
  BY <1>1
<1> HIDE DEF u
<1>3. SemInsercao(u)
  BY <1>2 DEF SemInsercao
<1> QED BY <1>1, <1>3 DEF u

LEMMA SemInsercaoNaReordenacao ==
  ASSUME NEW c \in Colunas, NEW modo \in {"insert", "update", "delete"},
         NEW alvo \in Ordem, NEW atual \in Ordem
  PROVE  /\ Reordenacao(c, modo, alvo, atual) \in Seq(Passo)
         /\ SemInsercao(Reordenacao(c, modo, alvo, atual))
<1> DEFINE s == Reordenacao(c, modo, alvo, atual)
<1>1. s \in Seq(Passo) /\ Len(s) = 2 /\ s[1].op = "selecionar" /\ s[2].op = "reordenar"
  BY ReordenacaoPorExtenso
<1> HIDE DEF s
<1>2. \A k \in 1 .. 2 : k = 1 \/ k = 2
  OBVIOUS
<1>3. SemInsercao(s)
  BY <1>1, <1>2 DEF SemInsercao
<1> QED BY <1>1, <1>3 DEF s

LEMMA SemInsercaoAoGravar ==
  ASSUME NEW c \in Colunas, NEW o \in Ordem \cup {SemOrdem}
  PROVE  /\ Gravar("gravar", c, o) \in Seq(Passo) /\ SemInsercao(Gravar("gravar", c, o))
         /\ Abrir("gravar", c, o) \in Seq(Passo) /\ SemInsercao(Abrir("gravar", c, o))
<1>0. PICK op \in {"gravar", "inserir"} : op = "gravar"
  OBVIOUS
<1> DEFINE s == Gravar(op, c, o)
           t == Abrir(op, c, o)
<1>1. s \in Seq(Passo) /\ Len(s) = 1 /\ s[1].op = op
  BY GravarPorExtenso
<1>2. /\ t \in Seq(Passo)
      /\ \/ Len(t) = 2 /\ t[1].op = "ultima" /\ t[2].op = op
         \/ /\ Len(t) = 3 /\ t[1].op = "selecionar" /\ t[2].op = "reordenar"
            /\ t[3].op = op
  BY AbrirPorExtenso
<1>3. /\ s = Gravar("gravar", c, o) /\ t = Abrir("gravar", c, o)
  BY <1>0
<1> HIDE DEF s, t
<1>4. /\ \A k \in 1 .. 1 : k = 1
      /\ \A k \in 1 .. 2 : k = 1 \/ k = 2
      /\ \A k \in 1 .. 3 : k = 1 \/ k = 2 \/ k = 3
  OBVIOUS
<1>5. SemInsercao(s) /\ SemInsercao(t)
  BY <1>0, <1>1, <1>2, <1>4 DEF SemInsercao
<1> QED BY <1>1, <1>2, <1>3, <1>5

LEMMA SemInsercaoAoMover ==
  ASSUME NEW l \in Linha, NEW c \in Colunas, NEW o \in Ordem \cup {SemOrdem}
  PROVE  SemInsercao(PassosMover(l, c, o))
<1>1. l.coluna \in Colunas /\ l.ordem \in Ordem
  BY DEF Linha
<1>2. PICK del \in {"insert", "update", "delete"}, upd \in {"insert", "update", "delete"} :
         del = "delete" /\ upd = "update"
  OBVIOUS
<1>3. CASE c # l.coluna
  <2> DEFINE s == Reordenacao(l.coluna, del, l.ordem, l.ordem)
             t == Abrir("gravar", c, o)
  <2>1. s \in Seq(Passo) /\ SemInsercao(s) /\ t \in Seq(Passo) /\ SemInsercao(t)
    BY <1>1, SemInsercaoNaReordenacao, SemInsercaoAoGravar
  <2>2. PassosMover(l, c, o) = s \o t
    BY <1>2, <1>3 DEF PassosMover
  <2> HIDE DEF s, t
  <2> QED BY <2>1, <2>2, SemInsercaoConcatenada
<1>4. CASE c = l.coluna /\ o \notin {SemOrdem, l.ordem}
  <2> DEFINE s == Reordenacao(c, upd, o, l.ordem)
             t == Gravar("gravar", c, o)
  <2>1. o \in Ordem
    BY <1>4
  <2>2. s \in Seq(Passo) /\ SemInsercao(s) /\ t \in Seq(Passo) /\ SemInsercao(t)
    BY <1>1, <2>1, SemInsercaoNaReordenacao, SemInsercaoAoGravar
  <2>3. PassosMover(l, c, o) = s \o t
    BY <1>2, <1>4 DEF PassosMover
  <2> HIDE DEF s, t
  <2> QED BY <2>2, <2>3, SemInsercaoConcatenada
<1>5. CASE c = l.coluna /\ o \in {SemOrdem, l.ordem}
  <2>1. PassosMover(l, c, o) = Gravar("gravar", c, l.ordem)
    BY <1>5 DEF PassosMover
  <2>2. l.ordem \in Ordem \cup {SemOrdem}
    BY <1>1
  <2> QED BY <2>1, <2>2, SemInsercaoAoGravar
<1> QED BY <1>3, <1>4, <1>5

LEMMA SemInsercaoAoRemover ==
  ASSUME NEW l \in Linha
  PROVE  SemInsercao(PassosRemover(l))
<1> DEFINE a == [op |-> "remover"]
           s == << a >>
<1>1. PICK modo \in {"insert", "update", "delete"} : modo = "delete"
  OBVIOUS
<1> DEFINE t == Reordenacao(l.coluna, modo, l.ordem, l.ordem)
<1>2. t \in Seq(Passo) /\ SemInsercao(t)
  <2>1. l.coluna \in Colunas /\ l.ordem \in Ordem
    BY DEF Linha
  <2> QED BY <2>1, SemInsercaoNaReordenacao
<1>3. PassosRemover(l) = s \o t
  BY <1>1 DEF PassosRemover
<1>4. a \in Passo /\ a.op = "remover"
  BY DEF Passo, Saida
<1> HIDE DEF a, t
<1>5. s \in Seq(Passo) /\ SemInsercao(s)
  BY <1>4 DEF SemInsercao
<1> HIDE DEF s
<1> QED BY <1>2, <1>3, <1>5, SemInsercaoConcatenada

LEMMA ListasChegar ==
  ASSUME NEW r \in Reqs, Reqs = {r}, KanbanInv, Chegar(r)
  PROVE  ListasInv'
<1>0. TypeOK
  BY DEF KanbanInv
<1>1. ASSUME NEW c \in Colunas, NEW o \in Pedidas \cup {SemOrdem}, PedirCriacao(r, c, o)
      PROVE  ListasInv'
  <2> DEFINE s == Abrir("inserir", c, o)
  <2>1. Iniciar(r, "criar", 0, Ausente, s)
    BY <1>1 DEF PedirCriacao
  <2> HIDE DEF s
  <2>2. PICK id : id = 0
    OBVIOUS
  <2>3. /\ Iniciar(r, "criar", id, Ausente, s)
        /\ \A k \in 1 .. Len(s) : s[k].op = "inserir" => id = 0
    BY <2>1, <2>2
  <2> QED BY <1>0, <2>3, ListasIniciar
<1>2. ASSUME NEW c \in Colunas, NEW o \in Pedidas \cup {SemOrdem}, NEW i \in Ids,
             PedirMovimento(r, i, c, o)
      PROVE  ListasInv'
  <2> DEFINE s == PassosMover(tarefas[i], c, o)
  <2>1. o \in Ordem \cup {SemOrdem} /\ tarefas[i] \in Linha
    BY <1>2, LimitesAssumption, DaTabela DEF PedirMovimento
  <2>2. Iniciar(r, "mover", i, tarefas[i], s)
    BY <1>2 DEF PedirMovimento
  <2>3. SemInsercao(s)
    BY <2>1, SemInsercaoAoMover
  <2> HIDE DEF s
  <2>4. \A k \in 1 .. Len(s) : s[k].op = "inserir" => i = 0
    BY <2>3 DEF SemInsercao
  <2> QED BY <1>0, <2>2, <2>4, ListasIniciar
<1>3. ASSUME NEW i \in Ids, PedirRemocao(r, i)
      PROVE  ListasInv'
  <2> DEFINE s == PassosRemover(tarefas[i])
  <2>1. tarefas[i] \in Linha
    BY <1>3, DaTabela DEF PedirRemocao
  <2>2. Iniciar(r, "remover", i, tarefas[i], s)
    BY <1>3 DEF PedirRemocao
  <2>3. SemInsercao(s)
    BY <2>1, SemInsercaoAoRemover
  <2> HIDE DEF s
  <2>4. \A k \in 1 .. Len(s) : s[k].op = "inserir" => i = 0
    BY <2>3 DEF SemInsercao
  <2> QED BY <1>0, <2>2, <2>4, ListasIniciar
<1>4. ASSUME NEW i \in Ids, NEW o \in Editadas \cup {SemOrdem}, PedirEdicao(r, i, o)
      PROVE  ListasInv'
  <2> DEFINE l == IF o = SemOrdem THEN tarefas[i] ELSE [tarefas[i] EXCEPT !.ordem = o]
             a == [op |-> "carregar", linha |-> l]
             s == << a >>
  <2>1. Iniciar(r, "editar", i, tarefas[i], s)
    BY <1>4 DEF PedirEdicao
  <2> HIDE DEF l
  <2>2. a.op # "inserir"
    OBVIOUS
  <2> HIDE DEF a
  <2>3. \A k \in 1 .. Len(s) : s[k].op = "inserir" => i = 0
    BY <2>2
  <2> HIDE DEF s
  <2> QED BY <1>0, <2>1, <2>3, ListasIniciar
<1> QED BY <1>1, <1>2, <1>3, <1>4 DEF Chegar

\* A statement that leaves the rows of other tasks as they are.
LEMMA ListasDaSua ==
  ASSUME NEW r \in Reqs, Reqs = {r}, KanbanInv, ListasInv, NEW op, Proximo(r, op),
         NEW q, pedidos' = [pedidos EXCEPT ![r] = q], tarefas' = tarefas,
         q.id = pedidos[r].id,
         \A i \in Ids : i # q.id => VistaCom(q.escritas)[i] = VistaDe(r)[i],
         \A k \in 1 .. Len(q.passos) : q.passos[k].op = "inserir" =>
            \E l \in 1 .. Len(pedidos[r].passos) : pedidos[r].passos[l].op = "inserir"
  PROVE  ListasInv'
<1> DEFINE v == VistaDe(r)
           w == VistaCom(q.escritas)
           id == pedidos[r].id
<1>1. /\ MesmasListas(v, tarefas, id) /\ TypeOK
      /\ \A i \in Ids \ {id} : tarefas[i] = Ausente => v[i] = Ausente
      /\ \A k \in 1 .. Len(pedidos[r].passos) :
            pedidos[r].passos[k].op = "inserir" => id = 0
  BY NoPassoDasListas
<1>2. q.id = id /\ \A i \in Ids \ {id} : w[i] = v[i]
  OBVIOUS
<1>3. \A k \in 1 .. Len(q.passos) : q.passos[k].op = "inserir" => id = 0
  BY <1>1
<1> HIDE DEF v, w, id
<1>4. MesmasListas(w, tarefas, id)
  BY <1>1, <1>2 DEF MesmasListas
<1>5. SoATarefaNova(w, tarefas, id, q.passos, seq')
  BY <1>1, <1>2, <1>3 DEF SoATarefaNova
<1>6. /\ MesmasListas(VistaCom(q.escritas), tarefas, q.id)
      /\ SoATarefaNova(VistaCom(q.escritas), tarefas, q.id, q.passos, seq')
  BY <1>2, <1>4, <1>5 DEF w
<1> QED BY <1>1, <1>6, ListasSegue

LEMMA InsercaoNaCauda ==
  ASSUME NEW s \in Seq(Passo), s # << >>
  PROVE  \A k \in 1 .. Len(Tail(s)) : Tail(s)[k].op = "inserir" =>
            \E l \in 1 .. Len(s) : s[l].op = "inserir"
<1>1. /\ Len(Tail(s)) = Len(s) - 1 /\ Len(s) \in Nat \ {0}
      /\ \A k \in 1 .. Len(Tail(s)) : Tail(s)[k] = s[k + 1] /\ k + 1 \in 1 .. Len(s)
  BY Restantes
<1> QED BY <1>1

LEMMA ListasSelecionar ==
  ASSUME NEW r \in Reqs, Reqs = {r}, KanbanInv, ListasInv, Selecionar(r)
  PROVE  ListasInv'
<1> DEFINE p == pedidos[r]
           c == Head(p.passos).coluna
           q == [[p EXCEPT !.vistas = NaColuna(r, c)] EXCEPT !.passos = Tail(@)]
<1>0. PICK op : op = "selecionar"
  OBVIOUS
<1>1. Proximo(r, op) /\ tarefas' = tarefas /\ pedidos' = [pedidos EXCEPT ![r] = q]
  BY <1>0 DEF Selecionar, Seguir
<1>2. p \in Transacao /\ p.passos \in Seq(Passo) /\ p.passos # << >>
  BY <1>1, NoPasso
<1>3. q.id = p.id /\ q.passos = Tail(p.passos) /\ q.escritas = p.escritas
  BY <1>2 DEF Transacao
<1> HIDE DEF q
<1>4. \A i \in Ids : i # q.id => VistaCom(q.escritas)[i] = VistaDe(r)[i]
  BY <1>3 DEF VistaDe
<1>5. \A k \in 1 .. Len(q.passos) : q.passos[k].op = "inserir" =>
         \E l \in 1 .. Len(pedidos[r].passos) : pedidos[r].passos[l].op = "inserir"
  BY <1>2, <1>3, InsercaoNaCauda
<1>6. q.id = pedidos[r].id
  BY <1>3
<1> HIDE DEF p
<1> QED BY <1>1, <1>4, <1>5, <1>6, ListasDaSua

\* A statement that writes nothing, or the row of the request's task.
LEMMA ListasPula ==
  ASSUME NEW r \in Reqs, Reqs = {r}, KanbanInv, ListasInv, NEW op, Proximo(r, op),
         Seguir(r, pedidos[r])
  PROVE  ListasInv'
<1> DEFINE p == pedidos[r]
           q == [p EXCEPT !.passos = Tail(@)]
<1>1. tarefas' = tarefas /\ pedidos' = [pedidos EXCEPT ![r] = q]
  BY DEF Seguir
<1>2. p \in Transacao /\ p.passos \in Seq(Passo) /\ p.passos # << >>
  BY NoPasso
<1>3. q.id = p.id /\ q.passos = Tail(p.passos) /\ q.escritas = p.escritas
  BY <1>2 DEF Transacao
<1> HIDE DEF q
<1>4. \A i \in Ids : i # q.id => VistaCom(q.escritas)[i] = VistaDe(r)[i]
  BY <1>3 DEF VistaDe
<1>5. \A k \in 1 .. Len(q.passos) : q.passos[k].op = "inserir" =>
         \E l \in 1 .. Len(pedidos[r].passos) : pedidos[r].passos[l].op = "inserir"
  BY <1>2, <1>3, InsercaoNaCauda
<1>6. q.id = pedidos[r].id
  BY <1>3
<1> HIDE DEF p
<1> QED BY <1>1, <1>4, <1>5, <1>6, ListasDaSua

LEMMA ListasEscreve ==
  ASSUME NEW r \in Reqs, Reqs = {r}, KanbanInv, ListasInv, NEW op, Proximo(r, op),
         pedidos[r].id \in Ids, NEW l \in Linha \cup {Ausente},
         Seguir(r, Escrever(pedidos[r], pedidos[r].id, l))
  PROVE  ListasInv'
<1> DEFINE j == pedidos[r].id
           q == [Escrever(pedidos[r], j, l) EXCEPT !.passos = Tail(@)]
<1>1. tarefas' = tarefas /\ pedidos' = [pedidos EXCEPT ![r] = q]
  BY DEF Seguir
<1>2. /\ pedidos[r] \in Transacao /\ pedidos[r].passos \in Seq(Passo)
      /\ pedidos[r].passos # << >>
  BY NoPasso
<1>3. /\ q.id = pedidos[r].id /\ q.passos = Tail(pedidos[r].passos)
      /\ q.escritas = [pedidos[r].escritas EXCEPT ![j] = l] /\ j \in Ids
  BY <1>2 DEF Transacao, Escrever
<1> HIDE DEF q, j
<1>4. \A i \in Ids : i # j => VistaCom(q.escritas)[i] = VistaDe(r)[i]
  BY <1>2, <1>3, VistaEscrita
<1>5. \A i \in Ids : i # q.id => VistaCom(q.escritas)[i] = VistaDe(r)[i]
  BY <1>3, <1>4 DEF j
<1>6. \A k \in 1 .. Len(q.passos) : q.passos[k].op = "inserir" =>
         \E m \in 1 .. Len(pedidos[r].passos) : pedidos[r].passos[m].op = "inserir"
  BY <1>2, <1>3, InsercaoNaCauda
<1> QED BY <1>1, <1>3, <1>5, <1>6, ListasDaSua

LEMMA ListasGravarPosicao ==
  ASSUME NEW r \in Reqs, Reqs = {r}, KanbanInv, ListasInv, GravarPosicao(r)
  PROVE  ListasInv'
<1> DEFINE p == pedidos[r]
           g == Head(p.passos)
           l == [coluna |-> g.coluna, ordem |-> g.ordem]
<1>0. PICK op : op = "gravar"
  OBVIOUS
<1>1. Proximo(r, op)
  BY <1>0 DEF GravarPosicao
<1>2. /\ g = p.passos[1] /\ g \in Passo /\ g.op = op /\ 1 \in 1 .. Len(p.passos)
      /\ FormaDosPassos(p.id, p.passos)
  BY <1>1, NoPasso
<1>3. g \in Gravacao /\ g.ordem # SemOrdem
  <2>1. g \in Gravacao
    BY <1>0, <1>2, TiposDePassos
  <2>2. g.ordem = SemOrdem => 1 - 1 \in 1 .. Len(p.passos)
    BY <1>0, <1>2 DEF FormaDosPassos, GravarDepoisDaUltima
  <2> QED BY <2>1, <2>2
<1>4. l \in Linha \cup {Ausente}
  BY <1>3 DEF Gravacao, Linha
<1>5. p.id \in Ids
  BY <1>0, <1>1, IdDaSua
<1>6. Seguir(r, Escrever(p, p.id, l)) \/ Seguir(r, p)
  BY DEF GravarPosicao
<1> HIDE DEF l, g
<1> QED BY <1>1, <1>4, <1>5, <1>6, ListasEscreve, ListasPula

LEMMA ListasRemoverTarefa ==
  ASSUME NEW r \in Reqs, Reqs = {r}, KanbanInv, ListasInv, RemoverTarefa(r)
  PROVE  ListasInv'
<1> DEFINE p == pedidos[r]
<1>0. PICK op : op = "remover"
  OBVIOUS
<1>1. Proximo(r, op)
  BY <1>0 DEF RemoverTarefa
<1>2. p.id \in Ids
  BY <1>0, <1>1, IdDaSua
<1>3. PICK l \in Linha \cup {Ausente} : l = Ausente
  OBVIOUS
<1>4. Seguir(r, Escrever(p, p.id, l)) \/ Seguir(r, p)
  BY <1>3 DEF RemoverTarefa
<1> QED BY <1>1, <1>2, <1>4, ListasEscreve, ListasPula

LEMMA ListasSalvarTarefa ==
  ASSUME NEW r \in Reqs, Reqs = {r}, KanbanInv, ListasInv, SalvarTarefa(r)
  PROVE  ListasInv'
<1> DEFINE p == pedidos[r]
           s == Head(p.passos)
           a == tarefas[p.id]
           l == [k \in Campos |-> IF k \in s.campos THEN s.linha[k] ELSE a[k]]
<1>0. PICK op : op = "salvar"
  OBVIOUS
<1>1. Proximo(r, op)
  BY <1>0 DEF SalvarTarefa
<1>2. p.id \in Ids /\ s \in Passo /\ s.op = op
  BY <1>0, <1>1, IdDaSua, NoPasso
<1>3. CASE Presente(p.id)
  <2>1. a \in Linha
    BY <1>2, <1>3, DaTabela
  <2>2. s \in Salvamento
    BY <1>0, <1>2, TiposDePassos
  <2>3. s.linha \in Linha
    BY <2>2 DEF Salvamento
  <2>4. Seguir(r, Escrever(p, p.id, l))
    BY <1>3 DEF SalvarTarefa
  <2> DEFINE b == s.linha
             cs == s.campos
  <2>5. l = [k \in Campos |-> IF k \in cs THEN b[k] ELSE a[k]] /\ b \in Linha
    BY <2>3
  <2> HIDE DEF a, b, cs, l, s
  <2>6. l = [ coluna |-> IF "coluna" \in cs THEN b.coluna ELSE a.coluna,
              ordem |-> IF "ordem" \in cs THEN b.ordem ELSE a.ordem ]
    BY <2>5 DEF Campos
  <2>7. l \in Linha \cup {Ausente}
    BY <2>1, <2>5, <2>6 DEF Linha
  <2> QED BY <1>1, <1>2, <2>4, <2>7, ListasEscreve
<1>4. CASE ~Presente(p.id)
  <2>1. Seguir(r, p)
    BY <1>4 DEF SalvarTarefa
  <2> QED BY <1>1, <2>1, ListasPula
<1> QED BY <1>3, <1>4

LEMMA ListasReinserirTarefa ==
  ASSUME NEW r \in Reqs, Reqs = {r}, KanbanInv, ListasInv, ReinserirTarefa(r)
  PROVE  ListasInv'
<1> DEFINE p == pedidos[r]
           l == Head(p.passos).linha
<1>0. PICK op : op = "reinserir"
  OBVIOUS
<1>1. Proximo(r, op) /\ Seguir(r, Escrever(p, p.id, l))
  BY <1>0 DEF ReinserirTarefa
<1>2. p.id \in Ids /\ Head(p.passos) \in Passo /\ Head(p.passos).op = op
  BY <1>0, <1>1, IdDaSua, NoPasso
<1>3. Head(p.passos) \in Carga
  BY <1>0, <1>2, TiposDePassos
<1>4. l \in Linha \cup {Ausente}
  BY <1>3 DEF Carga
<1> HIDE DEF l
<1> QED BY <1>1, <1>2, <1>4, ListasEscreve

LEMMA ListasCarregarTarefa ==
  ASSUME NEW r \in Reqs, Reqs = {r}, KanbanInv, ListasInv, CarregarTarefa(r)
  PROVE  ListasInv'
<1> DEFINE p == pedidos[r]
           l == Head(p.passos).linha
           cs == { k \in Campos : l[k] # tarefas[p.id][k] }
           a == IF Presente(p.id) THEN [op |-> "salvar", linha |-> l, campos |-> cs]
                ELSE [op |-> "reinserir", linha |-> l]
           s == << a >>
           q == [p EXCEPT !.passos = s]
<1>0. PICK op : op = "carregar"
  OBVIOUS
<1>1. Proximo(r, op) /\ tarefas' = tarefas
  BY <1>0 DEF CarregarTarefa
<1>2. p \in Transacao
  BY <1>1, NoPasso
<1>3. pedidos' = [pedidos EXCEPT ![r] = q]
  BY DEF CarregarTarefa
<1>4. a.op # "inserir"
  OBVIOUS
<1> HIDE DEF a
<1>5. SemInsercao(s)
  BY <1>4 DEF SemInsercao
<1> HIDE DEF s
<1>6. q.id = p.id /\ q.passos = s /\ q.escritas = p.escritas
  BY <1>2 DEF Transacao
<1> HIDE DEF q
<1>7. \A i \in Ids : i # q.id => VistaCom(q.escritas)[i] = VistaDe(r)[i]
  BY <1>6 DEF VistaDe
<1>8. \A k \in 1 .. Len(q.passos) : q.passos[k].op = "inserir" =>
         \E m \in 1 .. Len(pedidos[r].passos) : pedidos[r].passos[m].op = "inserir"
  BY <1>5, <1>6 DEF SemInsercao
<1>9. q.id = pedidos[r].id
  BY <1>6
<1> HIDE DEF p
<1> QED BY <1>1, <1>3, <1>7, <1>8, <1>9, ListasDaSua

LEMMA ListasLerUltima ==
  ASSUME NEW r \in Reqs, Reqs = {r}, KanbanInv, ListasInv, LerUltima(r)
  PROVE  ListasInv'
<1> DEFINE p == pedidos[r]
           s == p.passos
<1>0. PICK op : op = "ultima"
  OBVIOUS
<1>1. Proximo(r, op) /\ tarefas' = tarefas
  BY <1>0 DEF LerUltima, Seguir
<1>2. /\ p \in Transacao /\ s \in Seq(Passo) /\ s # << >> /\ s[1].op = op
      /\ 1 \in 1 .. Len(s) /\ FormaDosPassos(p.id, s)
  BY <1>1, NoPasso
<1>3. 1 + 1 \in 1 .. Len(s) /\ s[1 + 1].op \in {"gravar", "inserir"}
  BY <1>0, <1>2 DEF FormaDosPassos, UltimaAntesDeGravar
<1>4. s[2] \in Gravacao
  <2>1. 2 \in 1 .. Len(s) /\ s[2].op \in {"gravar", "inserir"} /\ s[2] \in Passo
    BY <1>2, <1>3
  <2> QED BY <2>1, TiposDePassos
<1>5. PICK o \in 0 .. MaxOrdem - 1 :
         pedidos' = [pedidos EXCEPT ![r] =
            [[p EXCEPT !.passos[2].ordem = o + 1] EXCEPT !.passos = Tail(@)]]
  BY DEF LerUltima, Seguir
<1> DEFINE g == [s[2] EXCEPT !.ordem = o + 1]
           u == [s EXCEPT ![2] = g]
           t == Tail(u)
           q == [p EXCEPT !.passos = t]
<1>6. pedidos' = [pedidos EXCEPT ![r] = q]
  <2>1. [[p EXCEPT !.passos[2].ordem = o + 1] EXCEPT !.passos = Tail(@)] = q
    BY <1>2 DEF Transacao
  <2> QED BY <1>5, <2>1
<1>7. g \in Passo /\ g.op = s[2].op
  <2>1. o + 1 \in Ordem
    BY LimitesAssumption DEF Ordem
  <2> QED BY <1>4, <2>1 DEF Gravacao, Passo
<1> HIDE DEF g
<1>8. /\ u \in Seq(Passo) /\ u # << >> /\ Len(u) = Len(s)
      /\ \A k \in 1 .. Len(s) : u[k].op = s[k].op
  <2>1. 2 \in 1 .. Len(s)
    BY <1>3
  <2> HIDE DEF s
  <2>2. /\ u \in Seq(Passo) /\ Len(u) = Len(s)
        /\ \A k \in 1 .. Len(s) : u[k] = IF k = 2 THEN g ELSE s[k]
    BY <1>2, <1>7, <2>1
  <2>3. u # << >>
    BY <1>2, <2>2
  <2> QED BY <1>7, <2>2, <2>3
<1>9. q.id = p.id /\ q.passos = t /\ q.escritas = p.escritas
  BY <1>2 DEF Transacao
<1> HIDE DEF u
<1>10. \A k \in 1 .. Len(t) : t[k].op = "inserir" =>
          \E l \in 1 .. Len(s) : s[l].op = "inserir"
  BY <1>8, InsercaoNaCauda
<1> HIDE DEF q, t
<1>11. \A k \in 1 .. Len(q.passos) : q.passos[k].op = "inserir" =>
          \E l \in 1 .. Len(pedidos[r].passos) : pedidos[r].passos[l].op = "inserir"
  BY <1>9, <1>10
<1>12. \A i \in Ids : i # q.id => VistaCom(q.escritas)[i] = VistaDe(r)[i]
  BY <1>9 DEF VistaDe
<1>13. q.id = pedidos[r].id
  BY <1>9
<1> HIDE DEF p, s
<1> QED BY <1>1, <1>6, <1>11, <1>12, <1>13, ListasDaSua

\* A shift keeps the order.
LEMMA DeslocadaMonotona ==
  ASSUME NEW m \in Deslocamento, NEW x \in Ordem, NEW y \in Ordem,
         m.modo = "delete" => x # m.alvo /\ y # m.alvo,
         m.modo = "update" => x # m.atual /\ y # m.atual
  PROVE  Deslocada(x, m) < Deslocada(y, m) <=> x < y
<1>1. m.alvo \in Int /\ m.atual \in Int /\ x \in Int /\ y \in Int
  BY LimitesAssumption DEF Deslocamento, Ordem
<1>2. m.modo \in {"insert", "update", "delete"}
  BY DEF Deslocamento
<1>3. CASE m.modo = "insert"
  BY <1>1, <1>3 DEF Deslocada, Desce, Sobe
<1>4. CASE m.modo = "update"
  BY <1>1, <1>4 DEF Deslocada, Desce, Sobe
<1>5. CASE m.modo = "delete"
  BY <1>1, <1>5 DEF Deslocada, Desce, Sobe
<1> QED BY <1>2, <1>3, <1>4, <1>5

LEMMA ListasDeslocadas ==
  ASSUME NEW v, NEW w, NEW t, NEW id, NEW m \in Deslocamento, DeslocadaEm(v, w, m),
         MesmasListas(v, t, id),
         m.modo = "delete" => Vaga(v, id, m.coluna, m.alvo),
         m.modo = "update" => Vaga(v, id, m.coluna, m.atual)
  PROVE  MesmasListas(w, t, id)
<1>1. ASSUME NEW i \in Ids \ {id}, t[i] # Ausente
      PROVE  w[i] # Ausente /\ w[i].coluna = t[i].coluna
  BY <1>1 DEF MesmasListas, DeslocadaEm
<1>2. ASSUME NEW i \in Ids \ {id}, NEW j \in Ids \ {id}, t[i] # Ausente, t[j] # Ausente,
             t[i].coluna = t[j].coluna
      PROVE  w[i].ordem < w[j].ordem <=> t[i].ordem < t[j].ordem
  <2>1. /\ v[i] # Ausente /\ v[j] # Ausente /\ v[i].coluna = v[j].coluna
        /\ v[i].ordem < v[j].ordem <=> t[i].ordem < t[j].ordem
    BY <1>2 DEF MesmasListas
  <2>2. CASE v[i].coluna # m.coluna
    BY <2>1, <2>2 DEF DeslocadaEm
  <2>3. CASE v[i].coluna = m.coluna
    <3> DEFINE x == v[i].ordem
               y == v[j].ordem
    <3>1. /\ x \in Ordem /\ y \in Ordem
          /\ w[i].ordem = Deslocada(x, m) /\ w[j].ordem = Deslocada(y, m)
      BY <2>1, <2>3 DEF DeslocadaEm, Linha
    <3>2. /\ m.modo = "delete" => x # m.alvo /\ y # m.alvo
          /\ m.modo = "update" => x # m.atual /\ y # m.atual
      BY <2>1, <2>3 DEF Vaga
    <3> HIDE DEF x, y
    <3>3. Deslocada(x, m) < Deslocada(y, m) <=> x < y
      BY <3>1, <3>2, DeslocadaMonotona
    <3> QED BY <2>1, <3>1, <3>3 DEF x, y
  <2> QED BY <2>2, <2>3
<1> QED BY <1>1, <1>2 DEF MesmasListas

LEMMA ListasReordenar ==
  ASSUME NEW r \in Reqs, Reqs = {r}, KanbanInv, SerialInv, ListasInv, Reordenar(r)
  PROVE  ListasInv'
<1> DEFINE p == pedidos[r]
           v == VistaDe(r)
<1>1. PICK q, m :
         /\ pedidos' = [pedidos EXCEPT ![r] = q] /\ tarefas' = tarefas
         /\ q.id = p.id /\ q.passos = Tail(p.passos) /\ q.vistas = p.vistas
         /\ m = p.passos[1] /\ m \in Deslocamento /\ m.op = "reordenar"
         /\ DeslocadaEm(v, VistaCom(q.escritas), m)
  BY ReordenarDesloca
<1>2. PICK op : op = "reordenar"
  OBVIOUS
<1>3. Proximo(r, op)
  BY <1>2 DEF Reordenar
<1>4. /\ p.passos \in Seq(Passo) /\ p.passos # << >> /\ 1 \in 1 .. Len(p.passos)
      /\ PlanoCerto(v, tarefas, p.id, p.vistas, p.passos) /\ TypeOK
  BY <1>3, NoPassoSerial
<1>5. /\ MesmasListas(v, tarefas, p.id)
      /\ \A i \in Ids \ {p.id} : tarefas[i] = Ausente => v[i] = Ausente
      /\ \A k \in 1 .. Len(p.passos) : p.passos[k].op = "inserir" => p.id = 0
  BY <1>3, NoPassoDasListas
<1> DEFINE s == p.passos
           id == p.id
           n == p.vistas
           w == VistaCom(q.escritas)
<1>6. /\ q.id = id /\ q.passos = Tail(s) /\ m = s[1] /\ 1 \in 1 .. Len(s)
      /\ DeslocadaEm(v, w, m) /\ MesmasListas(v, tarefas, id) /\ DesvioCerto(v, id, n, s)
      /\ \A i \in Ids \ {id} : tarefas[i] = Ausente => v[i] = Ausente
      /\ \A k \in 1 .. Len(s) : s[k].op = "inserir" => id = 0
      /\ \A k \in 1 .. Len(Tail(s)) : Tail(s)[k].op = "inserir" =>
            \E l \in 1 .. Len(s) : s[l].op = "inserir"
  BY <1>1, <1>4, <1>5, InsercaoNaCauda DEF PlanoCerto
<1> HIDE DEF s, id, n, w, v
<1>7. /\ m.modo = "delete" => Vaga(v, id, m.coluna, m.alvo)
      /\ m.modo = "update" => Vaga(v, id, m.coluna, m.atual)
  BY <1>1, <1>6 DEF DesvioCerto
<1>8. MesmasListas(w, tarefas, id)
  BY <1>1, <1>6, <1>7, ListasDeslocadas
<1>9. SoATarefaNova(w, tarefas, id, Tail(s), seq')
  BY <1>6 DEF SoATarefaNova, DeslocadaEm
<1>10. /\ MesmasListas(VistaCom(q.escritas), tarefas, q.id)
       /\ SoATarefaNova(VistaCom(q.escritas), tarefas, q.id, q.passos, seq')
  BY <1>6, <1>8, <1>9 DEF w
<1> QED BY <1>1, <1>4, <1>10, ListasSegue

LEMMA ListasInserirTarefa ==
  ASSUME NEW r \in Reqs, Reqs = {r}, KanbanInv, SerialInv, ListasInv, InserirTarefa(r)
  PROVE  ListasInv'
<1> DEFINE p == pedidos[r]
           s == p.passos
           v == VistaDe(r)
           g == Head(s)
           l == [coluna |-> g.coluna, ordem |-> g.ordem]
           j == seq + 1
           id == p.id
           q == [Escrever(p, j, l) EXCEPT !.passos = Tail(@)]
           w == VistaCom(q.escritas)
<1>0. PICK op : op = "inserir"
  OBVIOUS
<1>1. /\ Proximo(r, op) /\ tarefas' = tarefas /\ seq < MaxIds /\ seq' = j
      /\ pedidos' = [pedidos EXCEPT ![r] = q]
  BY <1>0 DEF InserirTarefa, Seguir
<1>2. /\ Ativo(r) /\ p \in Transacao /\ g = s[1] /\ g \in Passo /\ g.op = op
      /\ s \in Seq(Passo) /\ s # << >> /\ 1 \in 1 .. Len(s) /\ FormaDosPassos(p.id, s)
  BY <1>1, NoPasso
<1>3. /\ MesmasListas(v, tarefas, id) /\ TypeOK
      /\ \A i \in Ids \ {id} : tarefas[i] = Ausente => v[i] = Ausente
      /\ \A k \in 1 .. Len(s) : s[k].op = "inserir" => id = 0
  BY <1>1, NoPassoDasListas
<1>4. id = 0
  BY <1>0, <1>2, <1>3
<1>5. j \in Ids /\ ~(j <= seq) /\ j # 0
  BY <1>1, SeqTipada, LimitesAssumption DEF Ids
<1>6. tarefas[j] = Ausente
  BY <1>5 DEF KanbanInv, SemFuturo, Presente
<1>7. Tail(s) = << >>
  <2>1. 1 = Len(s)
    BY <1>0, <1>2 DEF FormaDosPassos, InserirNoFim
  <2>2. Tail(s) \in Seq(Passo) /\ Len(Tail(s)) = 0
    BY <1>2, <2>1, Restantes
  <2> QED BY <2>2, EmptySeq
<1>8. l \in Linha \cup {Ausente}
  <2>1. g \in Gravacao
    BY <1>0, <1>2, TiposDePassos
  <2>2. g.ordem = SemOrdem => 1 - 1 \in 1 .. Len(s)
    BY <1>0, <1>2 DEF FormaDosPassos, GravarDepoisDaUltima
  <2> QED BY <2>1, <2>2 DEF Gravacao, Linha
<1>9. /\ q.id = id /\ q.passos = Tail(s)
      /\ q.escritas = [p.escritas EXCEPT ![j] = l]
  BY <1>2 DEF Transacao, Escrever
<1> HIDE DEF q, g, l, j
<1>10. \A i \in Ids : i # j => w[i] = v[i]
  <2> DEFINE e == q.escritas
  <2>1. e = [pedidos[r].escritas EXCEPT ![j] = l]
    BY <1>9
  <2> HIDE DEF e
  <2>2. \A i \in Ids : i # j => VistaCom(e)[i] = VistaDe(r)[i]
    BY <1>2, <1>5, <1>8, <2>1, VistaEscrita
  <2> QED BY <2>2 DEF e
<1> HIDE DEF v, w, s, id
<1>11. MesmasListas(w, tarefas, id)
  BY <1>3, <1>6, <1>10 DEF MesmasListas
<1>12. SoATarefaNova(w, tarefas, id, << >>, j)
  BY <1>3, <1>4, <1>10 DEF SoATarefaNova
<1>13. /\ MesmasListas(VistaCom(q.escritas), tarefas, q.id)
       /\ SoATarefaNova(VistaCom(q.escritas), tarefas, q.id, q.passos, seq')
  BY <1>1, <1>7, <1>9, <1>11, <1>12 DEF w
<1> QED BY <1>1, <1>3, <1>13, ListasSegue

LEMMA ListasSolta ==
  ASSUME NEW r \in Reqs, Reqs = {r}, KanbanInv, Confirmar(r) \/ Falhar(r)
  PROVE  ListasInv'
<1>1. pedidos'[r] = Livre
  BY DEF Confirmar, Falhar, KanbanInv, TypeOK
<1> QED BY <1>1 DEF ListasInv, Ativo

LEMMA ListasParada ==
  ASSUME ListasInv, UNCHANGED vars
  PROVE  ListasInv'
<1>1. tarefas' = tarefas /\ pedidos' = pedidos /\ seq' = seq
  BY DEF vars
<1>2. \A r \in Reqs : VistaDe(r)' = VistaDe(r)
  BY <1>1 DEF VistaDe, VistaCom
<1>3. \A r \in Reqs : Ativo(r)' <=> Ativo(r)
  BY <1>1 DEF Ativo
<1> QED BY <1>1, <1>2, <1>3 DEF ListasInv

\* The board of table t.
PresentesEm(t) == { i \in Ids : t[i] # Ausente }
ColunaEm(t) == [i \in PresentesEm(t) |-> t[i].coluna]
AntesEm(t) == { p \in PresentesEm(t) \X PresentesEm(t) :
                   t[p[1]].coluna = t[p[2]].coluna /\ t[p[1]].ordem < t[p[2]].ordem }

LEMMA AntesPar ==
  ASSUME NEW t, NEW i, NEW j
  PROVE  << i, j >> \in AntesEm(t) <=>
            /\ i \in Ids /\ j \in Ids /\ t[i] # Ausente /\ t[j] # Ausente
            /\ t[i].coluna = t[j].coluna /\ t[i].ordem < t[j].ordem
BY DEF AntesEm, PresentesEm

\* From table t to table u the others of task k keep their columns and their order.
OutrasSeguem(t, u, k) ==
    /\ \A i \in Ids \ {k} :
          /\ t[i] = Ausente <=> u[i] = Ausente
          /\ t[i] # Ausente => u[i].coluna = t[i].coluna
    /\ \A i, j \in Ids \ {k} :
          t[i] # Ausente /\ t[j] # Ausente /\ t[i].coluna = t[j].coluna
             => (u[i].ordem < u[j].ordem <=> t[i].ordem < t[j].ordem)

LEMMA OutrasNaOrdem ==
  ASSUME NEW t, NEW u, NEW k, OutrasSeguem(t, u, k), NEW i \in Ids \ {k}, NEW j \in Ids \ {k}
  PROVE  << i, j >> \in AntesEm(u) <=> << i, j >> \in AntesEm(t)
BY AntesPar DEF OutrasSeguem

LEMMA QuadroParado ==
  ASSUME NEW t, NEW u, NEW k, OutrasSeguem(t, u, k),
         k \in Ids => t[k] = Ausente /\ u[k] = Ausente
  PROVE  ColunaEm(u) = ColunaEm(t) /\ AntesEm(u) = AntesEm(t)
<1>1. PresentesEm(u) = PresentesEm(t)
  BY DEF PresentesEm, OutrasSeguem
<1>2. \A i \in PresentesEm(t) : i \in Ids \ {k} /\ t[i] # Ausente /\ u[i].coluna = t[i].coluna
  BY DEF PresentesEm, OutrasSeguem
<1>3. ColunaEm(u) = ColunaEm(t)
  BY <1>1, <1>2 DEF ColunaEm
<1>4. ASSUME NEW p \in PresentesEm(t) \X PresentesEm(t)
      PROVE  p \in AntesEm(u) <=> p \in AntesEm(t)
  <2>1. PICK i \in PresentesEm(t), j \in PresentesEm(t) : p = << i, j >>
    OBVIOUS
  <2> QED BY <1>2, <2>1, OutrasNaOrdem
<1>5. /\ AntesEm(u) \subseteq PresentesEm(t) \X PresentesEm(t)
      /\ AntesEm(t) \subseteq PresentesEm(t) \X PresentesEm(t)
  BY <1>1 DEF AntesEm
<1> QED BY <1>3, <1>4, <1>5

\* The columns f of the tasks P once task k is in c.
ComTarefa(P, f, k, c) == [i \in P \cup {k} |-> IF i = k THEN c ELSE f[i]]

LEMMA QuadroCom ==
  ASSUME NEW t, NEW u, NEW k \in Ids, OutrasSeguem(t, u, k), u[k] # Ausente
  PROVE  ColunaEm(u) = ComTarefa(PresentesEm(t), ColunaEm(t), k, u[k].coluna)
<1>1. \A i \in PresentesEm(t) \ {k} :
         i \in Ids \ {k} /\ t[i] # Ausente /\ u[i].coluna = t[i].coluna
  BY DEF PresentesEm, OutrasSeguem
<1>2. PresentesEm(u) = PresentesEm(t) \cup {k}
  BY DEF PresentesEm, OutrasSeguem
<1>3. \A i \in PresentesEm(u) :
         u[i].coluna = IF i = k THEN u[k].coluna ELSE ColunaEm(t)[i]
  BY <1>1, <1>2 DEF ColunaEm
<1> QED BY <1>2, <1>3 DEF ColunaEm, ComTarefa

LEMMA QuadroSem ==
  ASSUME NEW t, NEW u, NEW k \in Ids, OutrasSeguem(t, u, k), u[k] = Ausente
  PROVE  ColunaEm(u) = [i \in PresentesEm(t) \ {k} |-> ColunaEm(t)[i]]
<1>1. \A i \in PresentesEm(t) \ {k} :
         i \in Ids \ {k} /\ t[i] # Ausente /\ u[i].coluna = t[i].coluna
  BY DEF PresentesEm, OutrasSeguem
<1>2. PresentesEm(u) = PresentesEm(t) \ {k}
  BY DEF PresentesEm, OutrasSeguem
<1>3. \A i \in PresentesEm(u) : u[i].coluna = ColunaEm(t)[i]
  BY <1>1, <1>2 DEF ColunaEm
<1> QED BY <1>2, <1>3 DEF ColunaEm

\* The board is that of the committed rows.
LEMMA QuadroDaTabela ==
  /\ Presentes = PresentesEm(tarefas) /\ Presentes' = PresentesEm(tarefas')
  /\ Antes = AntesEm(tarefas) /\ Antes' = AntesEm(tarefas')
  /\ [i \in Presentes |-> tarefas[i].coluna] = ColunaEm(tarefas)
  /\ [i \in Presentes |-> tarefas[i].coluna]' = ColunaEm(tarefas')
BY DEF Presentes, PresentesEm, Antes, AntesEm, ColunaEm, Presente

LEMMA ListaDepois ==
  ASSUME TypeOK', OrdensDistintas'
  PROVE  Listas!Lista'
<1> DEFINE u == tarefas'
           P == PresentesEm(u)
           c == ColunaEm(u)
           A == AntesEm(u)
<1>1. /\ \A i \in P : i \in Ids /\ u[i] # Ausente /\ u[i].ordem \in Int /\ c[i] = u[i].coluna
      /\ DOMAIN c = P
  <2>1. \A i \in P : u[i] \in Linha
    BY DEF TypeOK, PresentesEm
  <2> QED BY <2>1, LimitesAssumption DEF PresentesEm, ColunaEm, Linha, Ordem
<1>2. \A i, j \in P : i # j /\ u[i].coluna = u[j].coluna => u[i].ordem # u[j].ordem
  BY <1>1 DEF OrdensDistintas, Presente
<1>3. \A i, j \in P : << i, j >> \in A <=> u[i].coluna = u[j].coluna /\ u[i].ordem < u[j].ordem
  BY <1>1 DEF AntesEm
<1>4. A \subseteq P \X P
  BY DEF AntesEm
<1>5. [i \in Presentes |-> tarefas[i].coluna]' = c /\ Antes' = A
  BY QuadroDaTabela
<1> HIDE DEF u, P, c, A
<1>6. Listas!NoQuadro' = P
  BY <1>1, <1>5 DEF Listas!NoQuadro
<1>7. \A i, j \in P : << i, j >> \in A => i # j /\ c[i] = c[j]
  BY <1>1, <1>3
<1>8. \A i, j \in P : i # j /\ c[i] = c[j] => (<< i, j >> \in A <=> << j, i >> \notin A)
  BY <1>1, <1>2, <1>3
<1>9. \A i, j, k \in P : << i, j >> \in A /\ << j, k >> \in A => << i, k >> \in A
  BY <1>1, <1>3
<1> QED BY <1>4, <1>5, <1>6, <1>7, <1>8, <1>9 DEF Listas!Lista

\* A commit puts the task of its request somewhere, moves it or takes it out.
LEMMA PassoDoQuadro ==
  ASSUME NEW k, OutrasSeguem(tarefas, tarefas', k), TypeOK', OrdensDistintas'
  PROVE  Listas!Next \/ UNCHANGED Listas!quadro
<1> DEFINE t == tarefas
           u == tarefas'
<1>1. Listas!Lista'
  BY ListaDepois
<1>2. \A i, j \in Ids \ {k} : << i, j >> \in AntesEm(u) <=> << i, j >> \in AntesEm(t)
  BY OutrasNaOrdem
<1>3. /\ Antes = AntesEm(t) /\ Antes' = AntesEm(u) /\ Presentes = PresentesEm(t)
      /\ [i \in Presentes |-> tarefas[i].coluna] = ColunaEm(t)
      /\ [i \in Presentes |-> tarefas[i].coluna]' = ColunaEm(u)
  BY QuadroDaTabela
<1>4. Listas!SoReordena(k)
  BY <1>1, <1>2, <1>3 DEF Listas!SoReordena
<1>5. DOMAIN ColunaEm(t) = PresentesEm(t)
  BY DEF ColunaEm
<1>6. Listas!NoQuadro = PresentesEm(t)
  BY <1>3, <1>5 DEF Listas!NoQuadro
<1>0. OutrasSeguem(t, u, k) /\ (k \in Ids /\ u[k] # Ausente => u[k].coluna \in Colunas)
  BY DEF TypeOK, Linha
<1> HIDE DEF t, u
<1>7. CASE k \in Ids => t[k] = Ausente /\ u[k] = Ausente
  BY <1>0, <1>3, <1>7, QuadroParado DEF Listas!quadro
<1>8. CASE k \in Ids /\ u[k] # Ausente
  <2>1. u[k].coluna \in Colunas
    BY <1>0, <1>8
  <2>2. ColunaEm(u) = ComTarefa(PresentesEm(t), ColunaEm(t), k, u[k].coluna)
    BY <1>0, <1>8, QuadroCom
  <2>3. Listas!Por(k, u[k].coluna)
    BY <1>3, <1>4, <1>6, <2>2 DEF Listas!Por, ComTarefa
  <2>4. Listas!Colocar(k, u[k].coluna) \/ Listas!Mover(k, u[k].coluna)
    BY <2>3 DEF Listas!Colocar, Listas!Mover
  <2> QED BY <1>8, <2>1, <2>4 DEF Listas!Next
<1>9. CASE k \in Ids /\ t[k] # Ausente /\ u[k] = Ausente
  <2>1. k \in Listas!NoQuadro
    BY <1>6, <1>9 DEF PresentesEm
  <2>2. ColunaEm(u) = [i \in PresentesEm(t) \ {k} |-> ColunaEm(t)[i]]
    BY <1>0, <1>9, QuadroSem
  <2>3. Listas!Retirar(k)
    BY <1>3, <1>4, <1>6, <2>1, <2>2 DEF Listas!Retirar
  <2> QED BY <1>9, <2>3 DEF Listas!Next
<1> QED BY <1>7, <1>8, <1>9

LEMMA ConfirmarNoQuadro ==
  ASSUME NEW r \in Reqs, KanbanInv, ListasInv, Confirmar(r), KanbanInv', OrdensDistintas'
  PROVE  Listas!Next \/ UNCHANGED Listas!quadro
<1> DEFINE p == pedidos[r]
           v == VistaDe(r)
           k == IF p.id = 0 THEN seq ELSE p.id
<1>1. /\ Ativo(r) /\ p.passos = << >> /\ \A i \in Ids : tarefas'[i] = v[i]
      /\ MesmasListas(v, tarefas, p.id) /\ SoATarefaNova(v, tarefas, p.id, p.passos, seq)
  BY VistaDeI DEF Confirmar, Ativo, ListasInv
<1>2. 0 \notin Ids
  BY LimitesAssumption DEF Ids
<1> HIDE DEF v, p
<1>3. OutrasSeguem(tarefas, tarefas', k)
  BY <1>1, <1>2 DEF MesmasListas, SoATarefaNova, OutrasSeguem
<1>4. TypeOK'
  BY DEF KanbanInv
<1> HIDE DEF k
<1> QED BY <1>3, <1>4, PassoDoQuadro

LEMMA QuadroInicial ==
  ASSUME Init
  PROVE  Listas!Init
<1>1. Presentes = {} /\ Antes = {}
  BY DEF Init, Presentes, Presente, Antes
<1>2. [i \in Presentes |-> tarefas[i].coluna] = [i \in {} |-> {}]
  BY <1>1
<1> QED BY <1>1, <1>2 DEF Listas!Init

\* Seen through the columns and the order of their positions, requests that follow each
\* other, none of them an edit that asks for a position, put tasks in lists, take them out
\* and move them, and the tasks they are not about stay where they are, in their order.
THEOREM PosicoesSaoListas ==
  ASSUME NEW r \in Reqs, Reqs = {r}, Editadas = {}
  PROVE  Spec => ImplementaQuadro
<1>1. KanbanInv /\ SerialInv /\ ListasInv /\ [Next]_vars => ListasInv'
  <2> SUFFICES ASSUME KanbanInv, SerialInv, ListasInv, [Next]_vars PROVE ListasInv'
    OBVIOUS
  <2>1. CASE Chegar(r)
    BY <2>1, ListasChegar
  <2>2. CASE Continuar(r)
    BY <2>2, ListasSelecionar, ListasReordenar, ListasLerUltima, ListasGravarPosicao,
       ListasInserirTarefa, ListasRemoverTarefa, ListasCarregarTarefa, ListasSalvarTarefa,
       ListasReinserirTarefa, ListasSolta DEF Continuar
  <2>3. CASE UNCHANGED vars
    BY <2>3, ListasParada
  <2> QED BY <2>1, <2>2, <2>3 DEF Next
<1>2. Init => ListasInv
  BY DEF Init, ListasInv, Ativo
<1>3. KanbanInv /\ KanbanInv' /\ SerialInv' /\ ListasInv /\ [Next]_vars
         => Listas!Next \/ UNCHANGED Listas!quadro
  <2> SUFFICES ASSUME KanbanInv, KanbanInv', SerialInv', ListasInv, [Next]_vars
               PROVE  Listas!Next \/ UNCHANGED Listas!quadro
    OBVIOUS
  <2>1. CASE Confirmar(r)
    <3>1. OrdensDistintas'
      BY DEF SerialInv
    <3> QED BY <2>1, <3>1, ConfirmarNoQuadro
  <2>2. CASE tarefas' = tarefas
    BY <2>2, QuadroDaTabela DEF Listas!quadro
  <2> QED BY <2>1, <2>2, SoConfirmarMuda DEF Next, vars
<1>4. KanbanInv /\ SerialInv /\ [Next]_vars => SerialInv'
  BY SerialSeMantem
<1>5. Init => SerialInv /\ Listas!Init
  BY SerialInicial, QuadroInicial
<1> QED
  BY <1>1, <1>2, <1>3, <1>4, <1>5, KanbanSempreCoerente, PTL
     DEF Spec, ImplementaQuadro, Listas!Spec

-----------------------------------------------------------------------------
(* Where a row a transaction writes comes from. *)

OpDoTipo(tipo, op) ==
    \/ tipo # "editar" /\ op \in {"selecionar", "reordenar"}
    \/ tipo \in {"criar", "mover"} /\ op = "ultima"
    \/ tipo = "criar" /\ op = "inserir"
    \/ tipo = "mover" /\ op = "gravar"
    \/ tipo = "remover" /\ op = "remover"
    \/ tipo = "editar" /\ op \in {"carregar", "salvar", "reinserir"}

\* A row as the request read it, but for the position in the body.
ComoLida(l, lida) == l.coluna = lida.coluna /\ l.ordem \in {lida.ordem} \cup Editadas

\* The shift that a removal makes is its last statement.
PassosDoTipo(tipo, lida, s) ==
    \A k \in 1 .. Len(s) :
       /\ OpDoTipo(tipo, s[k].op)
       /\ tipo = "editar" => ComoLida(s[k].linha, lida)
       /\ tipo = "remover" /\ s[k].op = "reordenar" => k = Len(s)

\* Of the rows that e writes over table t, s being still to run, the one of a task that is
\* not there is the task an edit is about, as read, or the one a creation has just added.
Grava(e, i) == e[i] # Intacta /\ e[i] # Ausente
SoEsta(e, t, i) == \A j \in Ids \ {i} : Grava(e, j) => t[j] # Ausente
OrigemCerta(tipo, id, lida, s, e, t) ==
    /\ tipo = "criar" => id = 0
    /\ tipo = "editar" => lida # Ausente
    /\ \A i \in Ids : Grava(e, i) =>
          /\ tipo # "editar" /\ t[i] = Ausente => tipo = "criar" /\ s = << >> /\ SoEsta(e, t, i)
          /\ tipo = "remover" => s = << >> /\ Vizinha(e[i], t[i])
          /\ tipo = "editar" => i = id /\ Editada(e[i], lida, t[i])

PedidoCerto(p, t) ==
    /\ PassosDoTipo(p.tipo, p.lida, p.passos)
    /\ OrigemCerta(p.tipo, p.id, p.lida, p.passos, p.escritas, t)
OrigemInv == \A r \in Reqs : Ativo(r) => PedidoCerto(pedidos[r], tarefas)

LEMMA OrigemSegue ==
  ASSUME KanbanInv, OrigemInv, NEW r \in Reqs, NEW q,
         pedidos' = [pedidos EXCEPT ![r] = q], tarefas' = tarefas, PedidoCerto(q, tarefas)
  PROVE  OrigemInv'
<1>1. pedidos'[r] = q /\ \A s \in Reqs \ {r} : pedidos'[s] = pedidos[s]
  BY DEF KanbanInv, TypeOK
<1>2. ASSUME NEW s \in Reqs, Ativo(s)' PROVE PedidoCerto(pedidos'[s], tarefas')
  <2>1. CASE s = r
    BY <1>1, <2>1
  <2>2. CASE s # r
    <3>1. Ativo(s) /\ pedidos'[s] = pedidos[s]
      BY <1>1, <1>2, <2>2 DEF Ativo
    <3> QED BY <3>1 DEF OrigemInv
  <2> QED BY <2>1, <2>2
<1> QED BY <1>2 DEF OrigemInv

\* What a request about to run a statement knows: unless it is an edit, the rows it sees
\* are of tasks that are there.
LEMMA NoPassoDaOrigem ==
  ASSUME KanbanInv, OrigemInv, NEW r \in Reqs, NEW op, Proximo(r, op)
  PROVE  /\ PedidoCerto(pedidos[r], tarefas) /\ OpDoTipo(pedidos[r].tipo, op)
         /\ pedidos[r].tipo = "editar" => ComoLida(pedidos[r].passos[1].linha, pedidos[r].lida)
         /\ PassosDoTipo(pedidos[r].tipo, pedidos[r].lida, Tail(pedidos[r].passos))
         /\ pedidos[r].tipo = "editar" => pedidos[r].lida # Ausente
         /\ pedidos[r].tipo # "editar" =>
               \A i \in Ids : Vista(r, i) # Ausente => Presente(i)
<1> DEFINE p == pedidos[r]
           s == p.passos
<1>1. /\ Ativo(r) /\ s \in Seq(Passo) /\ s # << >> /\ s[1].op = op
      /\ 1 \in 1 .. Len(s)
  BY NoPasso
<1>2. PedidoCerto(p, tarefas)
  BY <1>1 DEF OrigemInv
<1>3. PassosDoTipo(p.tipo, p.lida, s)
  BY <1>2 DEF PedidoCerto
<1>4. OpDoTipo(p.tipo, op) /\ (p.tipo = "editar" => ComoLida(s[1].linha, p.lida))
  BY <1>1, <1>3 DEF PassosDoTipo
<1>5. PassosDoTipo(p.tipo, p.lida, Tail(s))
  <2>1. /\ Len(Tail(s)) = Len(s) - 1 /\ Len(s) \in Nat \ {0}
        /\ \A k \in 1 .. Len(Tail(s)) : Tail(s)[k] = s[k + 1]
    BY <1>1, Restantes
  <2>2. \A k \in 1 .. Len(Tail(s)) :
           /\ Tail(s)[k] = s[k + 1] /\ k + 1 \in 1 .. Len(s)
           /\ k + 1 = Len(s) => k = Len(Tail(s))
    BY <2>1
  <2> QED BY <1>3, <2>2 DEF PassosDoTipo
<1>7. p.tipo = "editar" => p.lida # Ausente
  BY <1>2 DEF PedidoCerto, OrigemCerta
<1>6. ASSUME p.tipo # "editar", NEW i \in Ids, Vista(r, i) # Ausente PROVE Presente(i)
  <2>1. CASE p.escritas[i] = Intacta
    BY <1>6, <2>1 DEF Vista, Presente
  <2>2. CASE p.escritas[i] # Intacta
    <3>1. Grava(p.escritas, i)
      BY <1>6, <2>2 DEF Vista, Grava
    <3> QED BY <1>1, <1>2, <1>6, <3>1 DEF PedidoCerto, OrigemCerta, Presente
  <2> QED BY <2>1, <2>2
<1> QED BY <1>2, <1>4, <1>5, <1>6, <1>7

\* A request begins, nothing written.
LEMMA OrigemIniciar ==
  ASSUME KanbanInv, OrigemInv, NEW r \in Reqs, NEW tipo, NEW id, NEW lida, NEW passos,
         Iniciar(r, tipo, id, lida, passos), PassosDoTipo(tipo, lida, passos),
         tipo = "criar" => id = 0, tipo = "editar" => lida # Ausente
  PROVE  OrigemInv'
<1> DEFINE e == [i \in Ids |-> Intacta]
           q == [ fase |-> "transacao", tipo |-> tipo, id |-> id, lida |-> lida,
                  passos |-> passos, vistas |-> {}, travadas |-> {}, escritas |-> e ]
<1>1. pedidos' = [pedidos EXCEPT ![r] = q] /\ tarefas' = tarefas
  BY DEF Iniciar
<1>2. \A i \in Ids : ~Grava(e, i)
  BY DEF Grava
<1> HIDE DEF e
<1>3. /\ q.tipo = tipo /\ q.id = id /\ q.lida = lida /\ q.passos = passos
      /\ q.escritas = e
  OBVIOUS
<1> HIDE DEF q
<1>4. PedidoCerto(q, tarefas)
  BY <1>2, <1>3 DEF PedidoCerto, OrigemCerta
<1> QED BY <1>1, <1>4, OrigemSegue

LEMMA TipoConcatenado ==
  ASSUME NEW tipo, tipo # "editar", NEW lida, NEW s \in Seq(Passo), NEW t \in Seq(Passo),
         PassosDoTipo(tipo, lida, s), PassosDoTipo(tipo, lida, t),
         tipo = "remover" => \A k \in 1 .. Len(s) : s[k].op # "reordenar"
  PROVE  PassosDoTipo(tipo, lida, s \o t)
<1> DEFINE u == s \o t
           n == Len(s)
           m == Len(t)
<1>1. /\ n \in Nat /\ m \in Nat /\ Len(u) = n + m
      /\ \A k \in 1 .. n : u[k] = s[k]
      /\ \A k \in 1 .. m : u[n + k] = t[k]
  BY Concatenadas
<1>2. \A k \in 1 .. Len(u) :
         \/ k \in 1 .. n /\ u[k] = s[k]
         \/ /\ k - n \in 1 .. m /\ u[k] = t[k - n]
            /\ k - n = m => k = Len(u)
  BY <1>1
<1> HIDE DEF u
<1>3. PassosDoTipo(tipo, lida, u)
  BY <1>2 DEF PassosDoTipo
<1> QED BY <1>3 DEF u

LEMMA TipoDaReordenacao ==
  ASSUME NEW tipo, tipo # "editar", NEW lida,
         NEW c \in Colunas, NEW modo \in {"insert", "update", "delete"},
         NEW alvo \in Ordem, NEW atual \in Ordem
  PROVE  /\ Reordenacao(c, modo, alvo, atual) \in Seq(Passo)
         /\ PassosDoTipo(tipo, lida, Reordenacao(c, modo, alvo, atual))
<1> DEFINE s == Reordenacao(c, modo, alvo, atual)
<1>1. s \in Seq(Passo) /\ Len(s) = 2 /\ s[1].op = "selecionar" /\ s[2].op = "reordenar"
  BY ReordenacaoPorExtenso
<1> HIDE DEF s
<1>2. \A k \in 1 .. 2 : k = 1 \/ k = 2
  OBVIOUS
<1>3. PassosDoTipo(tipo, lida, s)
  BY <1>1, <1>2 DEF PassosDoTipo, OpDoTipo
<1> QED BY <1>1, <1>3 DEF s

\* A position is opened by a creation for its INSERT, by a move for its UPDATE.
LEMMA TipoDeAbrir ==
  ASSUME NEW tipo, NEW lida, NEW op \in {"gravar", "inserir"}, NEW c \in Colunas,
         NEW o \in Ordem \cup {SemOrdem},
         \/ tipo = "criar" /\ op = "inserir"
         \/ tipo = "mover" /\ op = "gravar"
  PROVE  /\ Gravar(op, c, o) \in Seq(Passo) /\ PassosDoTipo(tipo, lida, Gravar(op, c, o))
         /\ Abrir(op, c, o) \in Seq(Passo) /\ PassosDoTipo(tipo, lida, Abrir(op, c, o))
<1> DEFINE s == Gravar(op, c, o)
           t == Abrir(op, c, o)
<1>1. s \in Seq(Passo) /\ Len(s) = 1 /\ s[1].op = op
  BY GravarPorExtenso
<1>2. /\ t \in Seq(Passo)
      /\ \/ Len(t) = 2 /\ t[1].op = "ultima" /\ t[2].op = op
         \/ /\ Len(t) = 3 /\ t[1].op = "selecionar" /\ t[2].op = "reordenar"
            /\ t[3].op = op
  BY AbrirPorExtenso
<1> HIDE DEF s, t
<1>4. /\ \A k \in 1 .. 1 : k = 1
      /\ \A k \in 1 .. 2 : k = 1 \/ k = 2
      /\ \A k \in 1 .. 3 : k = 1 \/ k = 2 \/ k = 3
  OBVIOUS
<1>5. PassosDoTipo(tipo, lida, s) /\ PassosDoTipo(tipo, lida, t)
  BY <1>1, <1>2, <1>4 DEF PassosDoTipo, OpDoTipo
<1> QED BY <1>1, <1>2, <1>5 DEF s, t

LEMMA TipoDeMover ==
  ASSUME NEW tipo, tipo = "mover", NEW l \in Linha, NEW c \in Colunas,
         NEW o \in Ordem \cup {SemOrdem}
  PROVE  PassosDoTipo(tipo, l, PassosMover(l, c, o))
<1>1. l.coluna \in Colunas /\ l.ordem \in Ordem
  BY DEF Linha
<1>7. tipo # "remover"
  OBVIOUS
<1>2. PICK del \in {"insert", "update", "delete"}, upd \in {"insert", "update", "delete"},
           op \in {"gravar", "inserir"} :
         del = "delete" /\ upd = "update" /\ op = "gravar"
  OBVIOUS
<1>6. /\ tipo # "editar"
      /\ \/ tipo = "criar" /\ op = "inserir"
         \/ tipo = "mover" /\ op = "gravar"
  BY <1>2
<1>3. CASE c # l.coluna
  <2> DEFINE s == Reordenacao(l.coluna, del, l.ordem, l.ordem)
             t == Abrir(op, c, o)
  <2>1. s \in Seq(Passo) /\ PassosDoTipo(tipo, l, s)
    BY <1>1, <1>6, TipoDaReordenacao
  <2>3. t \in Seq(Passo) /\ PassosDoTipo(tipo, l, t)
    BY <1>6, TipoDeAbrir
  <2>2. PassosMover(l, c, o) = s \o t
    BY <1>2, <1>3 DEF PassosMover
  <2> HIDE DEF s, t
  <2> QED BY <1>6, <1>7, <2>1, <2>2, <2>3, TipoConcatenado
<1>4. CASE c = l.coluna /\ o \notin {SemOrdem, l.ordem}
  <2> DEFINE s == Reordenacao(c, upd, o, l.ordem)
             t == Gravar(op, c, o)
  <2>1. o \in Ordem
    BY <1>4
  <2>2. s \in Seq(Passo) /\ PassosDoTipo(tipo, l, s)
    BY <1>1, <1>6, <2>1, TipoDaReordenacao
  <2>3. t \in Seq(Passo) /\ PassosDoTipo(tipo, l, t)
    BY <1>6, TipoDeAbrir
  <2>4. PassosMover(l, c, o) = s \o t
    BY <1>2, <1>4 DEF PassosMover
  <2> HIDE DEF s, t
  <2> QED BY <1>6, <1>7, <2>2, <2>3, <2>4, TipoConcatenado
<1>5. CASE c = l.coluna /\ o \in {SemOrdem, l.ordem}
  <2>1. PassosMover(l, c, o) = Gravar(op, c, l.ordem)
    BY <1>2, <1>5 DEF PassosMover
  <2>2. l.ordem \in Ordem \cup {SemOrdem}
    BY <1>1
  <2> QED BY <1>6, <2>1, <2>2, TipoDeAbrir
<1> QED BY <1>3, <1>4, <1>5

LEMMA TipoDeRemover ==
  ASSUME NEW tipo, tipo = "remover", NEW l \in Linha
  PROVE  PassosDoTipo(tipo, l, PassosRemover(l))
<1> DEFINE a == [op |-> "remover"]
           s == << a >>
<1>1. PICK modo \in {"insert", "update", "delete"} : modo = "delete"
  OBVIOUS
<1> DEFINE t == Reordenacao(l.coluna, modo, l.ordem, l.ordem)
<1>6. tipo # "editar"
  OBVIOUS
<1>2. t \in Seq(Passo) /\ PassosDoTipo(tipo, l, t)
  <2>1. l.coluna \in Colunas /\ l.ordem \in Ordem
    BY DEF Linha
  <2> QED BY <1>6, <2>1, TipoDaReordenacao
<1>3. PassosRemover(l) = s \o t
  BY <1>1 DEF PassosRemover
<1>4. a \in Passo /\ a.op = "remover"
  BY DEF Passo, Saida
<1> HIDE DEF a, t
<1>5. s \in Seq(Passo) /\ PassosDoTipo(tipo, l, s)
  BY <1>4 DEF PassosDoTipo, OpDoTipo
<1>7. \A k \in 1 .. Len(s) : s[k].op # "reordenar"
  BY <1>4
<1> HIDE DEF s
<1> QED BY <1>2, <1>3, <1>5, <1>6, <1>7, TipoConcatenado

LEMMA OrigemChegar ==
  ASSUME KanbanInv, OrigemInv, NEW r \in Reqs, Chegar(r)
  PROVE  OrigemInv'
<1>1. ASSUME NEW c \in Colunas, NEW o \in Pedidas \cup {SemOrdem}, PedirCriacao(r, c, o)
      PROVE  OrigemInv'
  <2>1. PICK op \in {"gravar", "inserir"} : op = "inserir"
    OBVIOUS
  <2>2. PICK tipo, id : tipo = "criar" /\ id = 0
    OBVIOUS
  <2> DEFINE s == Abrir(op, c, o)
  <2>3. Iniciar(r, tipo, id, Ausente, s)
    BY <1>1, <2>1, <2>2 DEF PedirCriacao
  <2>4. o \in Ordem \cup {SemOrdem}
    BY LimitesAssumption
  <2>5. \/ tipo = "criar" /\ op = "inserir"
        \/ tipo = "mover" /\ op = "gravar"
    BY <2>1, <2>2
  <2>6. PassosDoTipo(tipo, Ausente, s)
    BY <2>4, <2>5, TipoDeAbrir
  <2>7. tipo = "criar" => id = 0
    BY <2>2
  <2>8. tipo # "editar"
    BY <2>2
  <2> HIDE DEF s
  <2> QED BY <2>3, <2>6, <2>7, <2>8, OrigemIniciar
<1>2. ASSUME NEW c \in Colunas, NEW o \in Pedidas \cup {SemOrdem}, NEW i \in Ids,
             PedirMovimento(r, i, c, o)
      PROVE  OrigemInv'
  <2> DEFINE s == PassosMover(tarefas[i], c, o)
  <2>1. o \in Ordem \cup {SemOrdem} /\ tarefas[i] \in Linha
    BY <1>2, LimitesAssumption, DaTabela DEF PedirMovimento
  <2>2. PICK tipo : tipo = "mover"
    OBVIOUS
  <2>3. Iniciar(r, tipo, i, tarefas[i], s)
    BY <1>2, <2>2 DEF PedirMovimento
  <2>4. PassosDoTipo(tipo, tarefas[i], s)
    BY <2>1, <2>2, TipoDeMover
  <2>5. tipo # "criar" /\ tipo # "editar"
    BY <2>2
  <2> HIDE DEF s
  <2> QED BY <2>3, <2>4, <2>5, OrigemIniciar
<1>3. ASSUME NEW i \in Ids, PedirRemocao(r, i)
      PROVE  OrigemInv'
  <2> DEFINE s == PassosRemover(tarefas[i])
  <2>1. tarefas[i] \in Linha
    BY <1>3, DaTabela DEF PedirRemocao
  <2>2. PICK tipo : tipo = "remover"
    OBVIOUS
  <2>3. Iniciar(r, tipo, i, tarefas[i], s)
    BY <1>3, <2>2 DEF PedirRemocao
  <2>4. PassosDoTipo(tipo, tarefas[i], s)
    BY <2>1, <2>2, TipoDeRemover
  <2>5. tipo # "criar" /\ tipo # "editar"
    BY <2>2
  <2> HIDE DEF s
  <2> QED BY <2>3, <2>4, <2>5, OrigemIniciar
<1>4. ASSUME NEW i \in Ids, NEW o \in Editadas \cup {SemOrdem}, PedirEdicao(r, i, o)
      PROVE  OrigemInv'
  <2> DEFINE l == IF o = SemOrdem THEN tarefas[i] ELSE [tarefas[i] EXCEPT !.ordem = o]
             a == [op |-> "carregar", linha |-> l]
             s == << a >>
  <2>1. tarefas[i] \in Linha
    BY <1>4, DaTabela DEF PedirEdicao
  <2>2. PICK tipo : tipo = "editar"
    OBVIOUS
  <2>3. Iniciar(r, tipo, i, tarefas[i], s)
    BY <1>4, <2>2 DEF PedirEdicao
  <2>4. ComoLida(l, tarefas[i])
    BY <2>1 DEF ComoLida, Linha
  <2> HIDE DEF l
  <2>5. a.op = "carregar" /\ a.linha = l
    OBVIOUS
  <2> HIDE DEF a
  <2>6. PassosDoTipo(tipo, tarefas[i], s)
    BY <2>2, <2>4, <2>5 DEF PassosDoTipo, OpDoTipo
  <2>7. tipo # "criar" /\ tarefas[i] # Ausente
    BY <1>4, <2>2 DEF PedirEdicao, Presente
  <2> HIDE DEF s
  <2> QED BY <2>3, <2>6, <2>7, OrigemIniciar
<1> QED BY <1>1, <1>2, <1>3, <1>4 DEF Chegar

-----------------------------------------------------------------------------
(* The statements. *)

\* A statement that writes nothing, or one that writes row j.
LEMMA OrigemAnda ==
  ASSUME KanbanInv, OrigemInv, NEW r \in Reqs, NEW op, Proximo(r, op), NEW q,
         pedidos' = [pedidos EXCEPT ![r] = q], tarefas' = tarefas,
         q.tipo = pedidos[r].tipo, q.id = pedidos[r].id, q.lida = pedidos[r].lida,
         q.escritas = pedidos[r].escritas, PassosDoTipo(q.tipo, q.lida, q.passos)
  PROVE  OrigemInv'
<1> DEFINE p == pedidos[r]
<1>1. PedidoCerto(p, tarefas) /\ p.passos # << >>
  BY NoPasso, NoPassoDaOrigem
<1>2. OrigemCerta(q.tipo, q.id, q.lida, q.passos, q.escritas, tarefas)
  BY <1>1 DEF PedidoCerto, OrigemCerta
<1>3. PedidoCerto(q, tarefas)
  BY <1>2 DEF PedidoCerto
<1> QED BY <1>3, OrigemSegue

LEMMA OrigemEscreve ==
  ASSUME KanbanInv, OrigemInv, NEW r \in Reqs, NEW op, Proximo(r, op),
         NEW j \in Ids, NEW l \in Linha \cup {Ausente},
         pedidos' = [pedidos EXCEPT ![r] =
            [Escrever(pedidos[r], j, l) EXCEPT !.passos = Tail(@)]],
         tarefas' = tarefas,
         pedidos[r].tipo # "editar" /\ l # Ausente /\ ~Presente(j)
            => pedidos[r].tipo = "criar" /\ Tail(pedidos[r].passos) = << >>,
         pedidos[r].tipo = "remover" => l = Ausente,
         pedidos[r].tipo = "editar" /\ l # Ausente =>
            j = pedidos[r].id /\ Editada(l, pedidos[r].lida, tarefas[j])
  PROVE  OrigemInv'
<1> DEFINE p == pedidos[r]
           q == [Escrever(p, j, l) EXCEPT !.passos = Tail(@)]
<1>1. /\ PedidoCerto(p, tarefas) /\ p.passos # << >> /\ p \in Transacao
      /\ PassosDoTipo(p.tipo, p.lida, Tail(p.passos))
  BY NoPasso, NoPassoDaOrigem
<1>2. /\ q.tipo = p.tipo /\ q.id = p.id /\ q.lida = p.lida /\ q.passos = Tail(p.passos)
      /\ q.escritas = [p.escritas EXCEPT ![j] = l]
  BY <1>1 DEF Transacao, Escrever
<1>3. pedidos' = [pedidos EXCEPT ![r] = q]
  OBVIOUS
<1> HIDE DEF q
<1>4. q.escritas[j] = l /\ \A i \in Ids \ {j} : q.escritas[i] = p.escritas[i]
  BY <1>1, <1>2, CamposDaTransacao
<1>5. OrigemCerta(q.tipo, q.id, q.lida, q.passos, q.escritas, tarefas)
  <2>0. OrigemCerta(p.tipo, p.id, p.lida, p.passos, p.escritas, tarefas)
    BY <1>1 DEF PedidoCerto
  <2>1. ASSUME NEW i \in Ids, Grava(q.escritas, i), p.tipo # "editar", tarefas[i] = Ausente
        PROVE  p.tipo = "criar" /\ q.passos = << >> /\ SoEsta(q.escritas, tarefas, i)
    <3>1. \A k \in Ids \ {j} : Grava(q.escritas, k) => tarefas[k] # Ausente
      BY <1>1, <1>4, <2>0, <2>1 DEF OrigemCerta, Grava
    <3>2. i = j
      BY <2>1, <3>1
    <3>3. l # Ausente /\ ~Presente(j)
      BY <1>4, <2>1, <3>2 DEF Grava, Presente
    <3>4. SoEsta(q.escritas, tarefas, i)
      BY <3>1, <3>2 DEF SoEsta
    <3> QED BY <1>2, <2>1, <3>3, <3>4
  <2>2. ASSUME NEW i \in Ids, Grava(q.escritas, i), p.tipo = "remover" PROVE FALSE
    <3>1. i # j
      BY <1>4, <2>2 DEF Grava
    <3>2. Grava(p.escritas, i)
      BY <1>4, <2>2, <3>1 DEF Grava
    <3> QED BY <1>1, <2>0, <2>2, <3>2 DEF OrigemCerta
  <2>3. ASSUME NEW i \in Ids, Grava(q.escritas, i), p.tipo = "editar"
        PROVE  i = p.id /\ Editada(q.escritas[i], p.lida, tarefas[i])
    <3>1. CASE i = j
      BY <1>4, <2>3, <3>1 DEF Grava
    <3>2. CASE i # j
      <4>1. Grava(p.escritas, i)
        BY <1>4, <2>3, <3>2 DEF Grava
      <4> QED BY <1>4, <2>0, <2>3, <3>2, <4>1 DEF OrigemCerta
    <3> QED BY <3>1, <3>2
  <2> QED BY <1>2, <2>0, <2>1, <2>2, <2>3 DEF OrigemCerta
<1>6. PedidoCerto(q, tarefas)
  BY <1>1, <1>2, <1>5 DEF PedidoCerto
<1> QED BY <1>3, <1>6, OrigemSegue

\* The task of the request has an id.
LEMMA IdDaOrigem ==
  ASSUME KanbanInv, NEW r \in Reqs, NEW op, Proximo(r, op),
         op \in {"gravar", "remover", "carregar", "salvar", "reinserir"}
  PROVE  pedidos[r].id \in Ids
<1>1. /\ Ativo(r) /\ pedidos[r].passos[1].op = op
      /\ FormaDosPassos(pedidos[r].id, pedidos[r].passos)
      /\ 1 \in 1 .. Len(pedidos[r].passos)
  BY NoPasso
<1>2. pedidos[r].id # 0
  BY <1>1 DEF FormaDosPassos, SuaTarefa
<1>3. pedidos[r].id \in Nat /\ pedidos[r].id \in 0 .. MaxIds
  BY <1>1, DoPedido
<1> QED BY <1>2, <1>3, LimitesAssumption DEF Ids

LEMMA OrigemPula ==
  ASSUME KanbanInv, OrigemInv, NEW r \in Reqs, NEW op, Proximo(r, op),
         Seguir(r, pedidos[r])
  PROVE  OrigemInv'
<1> DEFINE p == pedidos[r]
           q == [p EXCEPT !.passos = Tail(@)]
<1>1. p \in Transacao /\ PassosDoTipo(p.tipo, p.lida, Tail(p.passos))
  BY NoPasso, NoPassoDaOrigem
<1>2. /\ q.tipo = p.tipo /\ q.id = p.id /\ q.lida = p.lida /\ q.passos = Tail(p.passos)
      /\ q.escritas = p.escritas
  BY <1>1 DEF Transacao
<1>3. pedidos' = [pedidos EXCEPT ![r] = q] /\ tarefas' = tarefas
  BY DEF Seguir
<1> HIDE DEF q
<1>4. PassosDoTipo(q.tipo, q.lida, q.passos)
  BY <1>1, <1>2
<1> QED BY <1>2, <1>3, <1>4, OrigemAnda

LEMMA OrigemSelecionar ==
  ASSUME KanbanInv, OrigemInv, NEW r \in Reqs, Selecionar(r)
  PROVE  OrigemInv'
<1> DEFINE p == pedidos[r]
           v == NaColuna(r, Head(p.passos).coluna)
           q == [[p EXCEPT !.vistas = v] EXCEPT !.passos = Tail(@)]
<1>0. PICK op : op = "selecionar"
  OBVIOUS
<1>1. Proximo(r, op) /\ tarefas' = tarefas /\ pedidos' = [pedidos EXCEPT ![r] = q]
  BY <1>0 DEF Selecionar, Seguir
<1>2. p \in Transacao /\ PassosDoTipo(p.tipo, p.lida, Tail(p.passos))
  BY <1>1, NoPasso, NoPassoDaOrigem
<1> HIDE DEF v
<1>3. /\ q.tipo = p.tipo /\ q.id = p.id /\ q.lida = p.lida /\ q.passos = Tail(p.passos)
      /\ q.escritas = p.escritas
  BY <1>2 DEF Transacao
<1> HIDE DEF q
<1>4. PassosDoTipo(q.tipo, q.lida, q.passos)
  BY <1>2, <1>3
<1> QED BY <1>1, <1>3, <1>4, OrigemAnda

LEMMA OrigemGravarPosicao ==
  ASSUME KanbanInv, OrigemInv, NEW r \in Reqs, GravarPosicao(r)
  PROVE  OrigemInv'
<1> DEFINE p == pedidos[r]
           g == Head(p.passos)
           l == [coluna |-> g.coluna, ordem |-> g.ordem]
<1>0. PICK op \in {"gravar", "remover", "carregar", "salvar", "reinserir"} : op = "gravar"
  OBVIOUS
<1>1. Proximo(r, op)
  BY <1>0 DEF GravarPosicao
<1>2. /\ g = p.passos[1] /\ g \in Passo /\ g.op = op
      /\ FormaDosPassos(p.id, p.passos) /\ 1 \in 1 .. Len(p.passos)
  BY <1>1, NoPasso
<1>3. g \in Gravacao /\ g.ordem # SemOrdem
  <2>1. g \in Gravacao
    BY <1>0, <1>2, TiposDePassos
  <2>2. g.ordem = SemOrdem => 1 - 1 \in 1 .. Len(p.passos)
    BY <1>0, <1>2 DEF FormaDosPassos, GravarDepoisDaUltima
  <2> QED BY <2>1, <2>2
<1>4. l \in Linha \cup {Ausente}
  BY <1>3 DEF Gravacao, Linha
<1>5. \/ Vista(r, p.id) # Ausente /\ Seguir(r, Escrever(p, p.id, l))
      \/ Seguir(r, p)
  BY DEF GravarPosicao
<1>6. p.id \in Ids /\ p.tipo = "mover"
  <2>1. p.id \in Ids
    BY <1>1, IdDaOrigem
  <2>2. OpDoTipo(p.tipo, op)
    BY <1>1, NoPassoDaOrigem
  <2> QED BY <1>0, <2>1, <2>2 DEF OpDoTipo
<1> HIDE DEF g, l
<1>7. CASE Vista(r, p.id) # Ausente /\ Seguir(r, Escrever(p, p.id, l))
  <2> DEFINE j == p.id
  <2>1. /\ pedidos' = [pedidos EXCEPT ![r] =
              [Escrever(pedidos[r], j, l) EXCEPT !.passos = Tail(@)]]
        /\ tarefas' = tarefas
    BY <1>7 DEF Seguir
  <2>2. Presente(j)
    BY <1>1, <1>6, <1>7, NoPassoDaOrigem
  <2>3. j \in Ids
    BY <1>6
  <2> HIDE DEF j
  <2> QED BY <1>1, <1>4, <1>6, <2>1, <2>2, <2>3, OrigemEscreve
<1>8. CASE Seguir(r, p)
  BY <1>1, <1>8, OrigemPula
<1> QED BY <1>5, <1>7, <1>8

LEMMA OrigemRemoverTarefa ==
  ASSUME KanbanInv, OrigemInv, NEW r \in Reqs, RemoverTarefa(r)
  PROVE  OrigemInv'
<1> DEFINE p == pedidos[r]
<1>0. PICK op \in {"gravar", "remover", "carregar", "salvar", "reinserir"} : op = "remover"
  OBVIOUS
<1>1. Proximo(r, op)
  BY <1>0 DEF RemoverTarefa
<1>2. PICK l \in Linha \cup {Ausente} : l = Ausente
  OBVIOUS
<1>3. \/ Seguir(r, Escrever(p, p.id, l))
      \/ Seguir(r, p)
  BY <1>2 DEF RemoverTarefa
<1>4. p.id \in Ids /\ p.tipo = "remover"
  <2>1. p.id \in Ids
    BY <1>1, IdDaOrigem
  <2>2. OpDoTipo(p.tipo, op)
    BY <1>1, NoPassoDaOrigem
  <2> QED BY <1>0, <2>1, <2>2 DEF OpDoTipo
<1>5. CASE Seguir(r, Escrever(p, p.id, l))
  <2> DEFINE j == p.id
  <2>1. /\ pedidos' = [pedidos EXCEPT ![r] =
              [Escrever(pedidos[r], j, l) EXCEPT !.passos = Tail(@)]]
        /\ tarefas' = tarefas
    BY <1>5 DEF Seguir
  <2>3. j \in Ids
    BY <1>4
  <2> HIDE DEF j
  <2> QED BY <1>1, <1>2, <1>4, <2>1, <2>3, OrigemEscreve
<1>6. CASE Seguir(r, p)
  BY <1>1, <1>6, OrigemPula
<1> QED BY <1>3, <1>5, <1>6

LEMMA OrigemSalvarTarefa ==
  ASSUME KanbanInv, OrigemInv, NEW r \in Reqs, SalvarTarefa(r)
  PROVE  OrigemInv'
<1> DEFINE p == pedidos[r]
           s == Head(p.passos)
           l == [k \in Campos |-> IF k \in s.campos THEN s.linha[k] ELSE tarefas[p.id][k]]
<1>0. PICK op \in {"gravar", "remover", "carregar", "salvar", "reinserir"} : op = "salvar"
  OBVIOUS
<1>1. Proximo(r, op)
  BY <1>0 DEF SalvarTarefa
<1>2. s = p.passos[1] /\ s \in Passo /\ s.op = op
  BY <1>1, NoPasso
<1>3. s \in Salvamento
  BY <1>0, <1>2, TiposDePassos
<1>4. p.id \in Ids /\ p.tipo = "editar" /\ p.lida # Ausente /\ ComoLida(s.linha, p.lida)
  <2>1. p.id \in Ids
    BY <1>1, IdDaOrigem
  <2>2. /\ OpDoTipo(p.tipo, op)
        /\ p.tipo = "editar" => p.lida # Ausente /\ ComoLida(p.passos[1].linha, p.lida)
    BY <1>1, NoPassoDaOrigem
  <2>3. p.tipo = "editar"
    BY <1>0, <2>2 DEF OpDoTipo
  <2> QED BY <1>2, <2>1, <2>2, <2>3
<1>5. \/ Presente(p.id) /\ Seguir(r, Escrever(p, p.id, l))
      \/ Seguir(r, p)
  BY DEF SalvarTarefa
<1>6. ASSUME Presente(p.id)
      PROVE  l \in Linha \cup {Ausente} /\ Editada(l, p.lida, tarefas[p.id])
  <2> DEFINE a == tarefas[p.id]
             b == s.linha
             cs == s.campos
  <2>1. a \in Linha
    BY <1>4, <1>6, DaTabela
  <2>2. b \in Linha
    BY <1>3 DEF Salvamento
  <2>3. l = [k \in Campos |-> IF k \in cs THEN b[k] ELSE a[k]]
    OBVIOUS
  <2>4. ComoLida(b, p.lida) /\ p.lida \in {p.lida, a} \ {Ausente}
        /\ a \in {p.lida, a} \ {Ausente}
    BY <1>4, <1>6 DEF Presente
  <2> HIDE DEF a, b, cs, l
  <2>5. l \in Linha
    <3>1. l = [coluna |-> l.coluna, ordem |-> l.ordem]
      BY <2>3 DEF Campos
    <3>2. l.coluna \in {a.coluna, b.coluna} /\ l.ordem \in {a.ordem, b.ordem}
      BY <2>3 DEF Campos
    <3>3. l.coluna \in Colunas /\ l.ordem \in Ordem
      BY <2>1, <2>2, <3>2 DEF Linha
    <3> QED BY <3>1, <3>3 DEF Linha
  <2>6. l.coluna \in {a.coluna, b.coluna} /\ l.ordem \in {a.ordem, b.ordem}
    BY <2>3 DEF Campos
  <2>7. Editada(l, p.lida, a)
    <3>1. \E x \in {p.lida, a} \ {Ausente} : l.coluna = x.coluna
      BY <2>4, <2>6 DEF ComoLida
    <3>2. \E y \in {p.lida, a} \ {Ausente} : l.ordem \in {y.ordem} \cup Editadas
      BY <2>4, <2>6 DEF ComoLida
    <3> QED BY <3>1, <3>2 DEF Editada
  <2> QED BY <2>5, <2>7 DEF a
<1> HIDE DEF s, l
<1>7. CASE Presente(p.id) /\ Seguir(r, Escrever(p, p.id, l))
  <2> DEFINE j == p.id
  <2>1. /\ pedidos' = [pedidos EXCEPT ![r] =
              [Escrever(pedidos[r], j, l) EXCEPT !.passos = Tail(@)]]
        /\ tarefas' = tarefas
    BY <1>7 DEF Seguir
  <2>2. /\ Presente(j) /\ j \in Ids /\ j = pedidos[r].id /\ l \in Linha \cup {Ausente}
        /\ Editada(l, p.lida, tarefas[j])
    BY <1>4, <1>6, <1>7
  <2> HIDE DEF j
  <2> QED BY <1>1, <1>4, <2>1, <2>2, OrigemEscreve
<1>8. CASE Seguir(r, p)
  BY <1>1, <1>8, OrigemPula
<1> QED BY <1>5, <1>7, <1>8

LEMMA OrigemReinserirTarefa ==
  ASSUME KanbanInv, OrigemInv, NEW r \in Reqs, ReinserirTarefa(r)
  PROVE  OrigemInv'
<1> DEFINE p == pedidos[r]
           l == Head(p.passos).linha
<1>0. PICK op \in {"gravar", "remover", "carregar", "salvar", "reinserir"} :
         op = "reinserir"
  OBVIOUS
<1>1. Proximo(r, op)
  BY <1>0 DEF ReinserirTarefa
<1>2. Head(p.passos) = p.passos[1] /\ p.passos[1] \in Passo /\ p.passos[1].op = op
  BY <1>1, NoPasso
<1>3. l \in Linha
  <2>1. p.passos[1] \in Carga
    BY <1>0, <1>2, TiposDePassos
  <2> QED BY <1>2, <2>1 DEF Carga
<1>4. p.id \in Ids /\ p.tipo = "editar" /\ p.lida # Ausente /\ ComoLida(l, p.lida)
  <2>1. p.id \in Ids
    BY <1>1, IdDaOrigem
  <2>2. /\ OpDoTipo(p.tipo, op)
        /\ p.tipo = "editar" => p.lida # Ausente /\ ComoLida(p.passos[1].linha, p.lida)
    BY <1>1, NoPassoDaOrigem
  <2>3. p.tipo = "editar"
    BY <1>0, <2>2 DEF OpDoTipo
  <2> QED BY <1>2, <2>1, <2>2, <2>3
<1> DEFINE j == p.id
<1>5. /\ pedidos' = [pedidos EXCEPT ![r] =
            [Escrever(pedidos[r], j, l) EXCEPT !.passos = Tail(@)]]
      /\ tarefas' = tarefas /\ ~Presente(j)
  BY DEF ReinserirTarefa, Seguir
<1>6. j \in Ids /\ j = pedidos[r].id /\ l \in Linha \cup {Ausente}
  BY <1>3, <1>4
<1>7. Editada(l, p.lida, tarefas[j])
  <2>1. p.lida \in {p.lida, tarefas[j]} \ {Ausente}
    BY <1>4
  <2> QED BY <1>4, <2>1 DEF Editada, ComoLida
<1> HIDE DEF j, l
<1> QED BY <1>1, <1>4, <1>5, <1>6, <1>7, OrigemEscreve

LEMMA OrigemInserirTarefa ==
  ASSUME KanbanInv, OrigemInv, NEW r \in Reqs, InserirTarefa(r)
  PROVE  OrigemInv'
<1> DEFINE p == pedidos[r]
           g == Head(p.passos)
           l == [coluna |-> g.coluna, ordem |-> g.ordem]
           j == seq + 1
<1>0. PICK op : op = "inserir"
  OBVIOUS
<1>1. Proximo(r, op) /\ seq < MaxIds
  BY <1>0 DEF InserirTarefa
<1>2. /\ g = p.passos[1] /\ g \in Passo /\ g.op = op
      /\ FormaDosPassos(p.id, p.passos) /\ 1 \in 1 .. Len(p.passos)
      /\ p.passos \in Seq(Passo) /\ p.passos # << >>
  BY <1>1, NoPasso
<1>3. g \in Gravacao /\ g.ordem # SemOrdem
  <2>1. g \in Gravacao
    BY <1>0, <1>2, TiposDePassos
  <2>2. g.ordem = SemOrdem => 1 - 1 \in 1 .. Len(p.passos)
    BY <1>0, <1>2 DEF FormaDosPassos, GravarDepoisDaUltima
  <2> QED BY <2>1, <2>2
<1>4. l \in Linha \cup {Ausente}
  BY <1>3 DEF Gravacao, Linha
<1>5. /\ pedidos' = [pedidos EXCEPT ![r] =
            [Escrever(pedidos[r], j, l) EXCEPT !.passos = Tail(@)]]
      /\ tarefas' = tarefas
  BY DEF InserirTarefa, Seguir
<1>6. j \in Ids
  BY <1>1, SeqTipada, LimitesAssumption DEF Ids
<1>7. p.tipo = "criar"
  <2>1. OpDoTipo(p.tipo, op)
    BY <1>1, NoPassoDaOrigem
  <2> QED BY <1>0, <2>1 DEF OpDoTipo
<1>8. Tail(p.passos) = << >>
  <2>1. Len(p.passos) = 1
    BY <1>0, <1>2 DEF FormaDosPassos, InserirNoFim
  <2>2. Tail(p.passos) \in Seq(Passo) /\ Len(Tail(p.passos)) = Len(p.passos) - 1
    BY <1>2, Restantes
  <2>3. Len(Tail(p.passos)) = 0
    BY <2>1, <2>2
  <2> QED BY <2>2, <2>3, EmptySeq
<1> HIDE DEF g, l, j
<1> QED BY <1>1, <1>4, <1>5, <1>6, <1>7, <1>8, OrigemEscreve

LEMMA OrigemCarregarTarefa ==
  ASSUME KanbanInv, OrigemInv, NEW r \in Reqs, CarregarTarefa(r)
  PROVE  OrigemInv'
<1> DEFINE p == pedidos[r]
           l == Head(p.passos).linha
           cs == { k \in Campos : l[k] # tarefas[p.id][k] }
           a == IF Presente(p.id) THEN [op |-> "salvar", linha |-> l, campos |-> cs]
                ELSE [op |-> "reinserir", linha |-> l]
           s == << a >>
           q == [p EXCEPT !.passos = s]
<1>0. PICK op : op = "carregar"
  OBVIOUS
<1>1. Proximo(r, op) /\ tarefas' = tarefas
  BY <1>0 DEF CarregarTarefa
<1>2. p \in Transacao /\ Head(p.passos) = p.passos[1]
  BY <1>1, NoPasso
<1>3. pedidos' = [pedidos EXCEPT ![r] = q]
  BY DEF CarregarTarefa
<1>4. a.op \in {"salvar", "reinserir"} /\ a.linha = l
  OBVIOUS
<1>5. p.tipo = "editar" /\ ComoLida(l, p.lida)
  <2>1. OpDoTipo(p.tipo, op) /\ (p.tipo = "editar" => ComoLida(p.passos[1].linha, p.lida))
    BY <1>1, NoPassoDaOrigem
  <2>2. p.tipo = "editar"
    BY <1>0, <2>1 DEF OpDoTipo
  <2> QED BY <1>2, <2>1, <2>2
<1> HIDE DEF a, l
<1>6. PassosDoTipo(p.tipo, p.lida, s)
  BY <1>4, <1>5 DEF PassosDoTipo, OpDoTipo
<1> HIDE DEF s
<1>7. /\ q.tipo = p.tipo /\ q.id = p.id /\ q.lida = p.lida /\ q.passos = s
      /\ q.escritas = p.escritas
  BY <1>2 DEF Transacao
<1> HIDE DEF q
<1>8. PassosDoTipo(q.tipo, q.lida, q.passos)
  BY <1>6, <1>7
<1> QED BY <1>1, <1>3, <1>7, <1>8, OrigemAnda

LEMMA OrigemLerUltima ==
  ASSUME KanbanInv, OrigemInv, NEW r \in Reqs, LerUltima(r)
  PROVE  OrigemInv'
<1> DEFINE p == pedidos[r]
           s == p.passos
<1>0. PICK op : op = "ultima"
  OBVIOUS
<1>1. Proximo(r, op) /\ tarefas' = tarefas
  BY <1>0 DEF LerUltima, Seguir
<1>2. /\ p \in Transacao /\ s \in Seq(Passo) /\ s # << >> /\ s[1].op = op
      /\ 1 \in 1 .. Len(s) /\ FormaDosPassos(p.id, s)
  BY <1>1, NoPasso
<1>3. 2 \in 1 .. Len(s) /\ s[2].op \in {"gravar", "inserir"}
  BY <1>0, <1>2 DEF FormaDosPassos, UltimaAntesDeGravar
<1>4. s[2] \in Gravacao
  <2>1. s[2] \in Passo
    BY <1>2, <1>3
  <2> QED BY <1>3, <2>1, TiposDePassos
<1>5. PICK o \in 0 .. MaxOrdem - 1 :
         pedidos' = [pedidos EXCEPT ![r] =
            [[p EXCEPT !.passos[2].ordem = o + 1] EXCEPT !.passos = Tail(@)]]
  BY DEF LerUltima, Seguir
<1> DEFINE g == [s[2] EXCEPT !.ordem = o + 1]
           u == [s EXCEPT ![2] = g]
           t == Tail(u)
           q == [p EXCEPT !.passos = t]
<1>6. pedidos' = [pedidos EXCEPT ![r] = q]
  <2>1. [[p EXCEPT !.passos[2].ordem = o + 1] EXCEPT !.passos = Tail(@)] = q
    BY <1>2 DEF Transacao
  <2> QED BY <1>5, <2>1
<1>7. g \in Passo /\ g.op = s[2].op
  <2>1. o + 1 \in Ordem
    BY LimitesAssumption DEF Ordem
  <2> QED BY <1>4, <2>1 DEF Gravacao, Passo
<1>8. p.tipo # "editar" /\ PassosDoTipo(p.tipo, p.lida, s)
  <2>1. OpDoTipo(p.tipo, op) /\ PedidoCerto(p, tarefas)
    BY <1>1, NoPassoDaOrigem
  <2> QED BY <1>0, <2>1 DEF OpDoTipo, PedidoCerto
<1> HIDE DEF g
<1>9. /\ u \in Seq(Passo) /\ u # << >> /\ Len(u) = Len(s)
      /\ \A k \in 1 .. Len(s) : u[k].op = s[k].op
  <2> HIDE DEF s
  <2>2. /\ u \in Seq(Passo) /\ Len(u) = Len(s)
        /\ \A k \in 1 .. Len(s) : u[k] = IF k = 2 THEN g ELSE s[k]
    BY <1>2, <1>3, <1>7
  <2>3. u # << >>
    BY <1>2, <2>2
  <2> QED BY <1>7, <2>2, <2>3
<1>10. /\ q.tipo = p.tipo /\ q.id = p.id /\ q.lida = p.lida /\ q.passos = t
       /\ q.escritas = p.escritas
  BY <1>2 DEF Transacao
<1> HIDE DEF u, s, q
<1>11. PassosDoTipo(p.tipo, p.lida, t)
  <2>1. /\ Len(t) = Len(u) - 1 /\ Len(u) \in Nat \ {0}
        /\ \A k \in 1 .. Len(t) : t[k] = u[k + 1]
    BY <1>9, Restantes
  <2>2. \A k \in 1 .. Len(t) : t[k] = u[k + 1] /\ k + 1 \in 1 .. Len(s)
    BY <1>9, <2>1
  <2> QED BY <1>8, <1>9, <2>2 DEF PassosDoTipo
<1> HIDE DEF t
<1>12. PassosDoTipo(q.tipo, q.lida, q.passos)
  BY <1>10, <1>11
<1> QED BY <1>1, <1>6, <1>10, <1>12, OrigemAnda

\* A shift writes rows it sees, each in the column it sees it in.
LEMMA OrigemReordenar ==
  ASSUME KanbanInv, OrigemInv, NEW r \in Reqs, Reordenar(r)
  PROVE  OrigemInv'
<1> DEFINE p == pedidos[r]
           m == Head(p.passos)
           linhas == p.vistas \cap NaColuna(r, m.coluna)
           nova(i) == Deslocada(Vista(r, i).ordem, m)
           e == [i \in Ids |->
                   IF i \in linhas /\ nova(i) # Vista(r, i).ordem
                   THEN [Vista(r, i) EXCEPT !.ordem = nova(i)] ELSE p.escritas[i]]
           q == [p EXCEPT !.passos = Tail(@), !.travadas = @ \cup linhas, !.escritas = e]
<1>0. PICK op : op = "reordenar"
  OBVIOUS
<1>1. Proximo(r, op) /\ tarefas' = tarefas
  BY <1>0 DEF Reordenar, Seguir
<1>2. p \in Transacao /\ p.passos # << >> /\ Ativo(r)
  BY <1>1, NoPasso
<1>3. pedidos' = [pedidos EXCEPT ![r] = q]
  <2>1. pedidos' = [pedidos EXCEPT ![r] =
           [[p EXCEPT !.travadas = @ \cup linhas, !.escritas = e]
               EXCEPT !.passos = Tail(@)]]
    BY DEF Reordenar, Seguir
  <2> HIDE DEF e
  <2>2. [[p EXCEPT !.travadas = @ \cup linhas, !.escritas = e] EXCEPT !.passos = Tail(@)]
           = [p EXCEPT !.passos = Tail(@), !.travadas = @ \cup linhas, !.escritas = e]
    BY <1>2 DEF Transacao
  <2> QED BY <2>1, <2>2
<1>4. \A i \in Ids : \/ e[i] = p.escritas[i]
                     \/ /\ Vista(r, i) # Ausente /\ nova(i) # Vista(r, i).ordem
                        /\ nova(i) <= MaxOrdem
                        /\ e[i] = [Vista(r, i) EXCEPT !.ordem = nova(i)]
  BY DEF Reordenar, NaColuna
<1>5. \A i \in Ids : Vista(r, i) # Ausente => Vista(r, i) \in Linha
  BY <1>2, TipoDaVista
<1>14. m \in Deslocamento
  <2>1. m = p.passos[1] /\ p.passos[1] \in Passo /\ p.passos[1].op = op
    BY <1>1, NoPasso
  <2> QED BY <1>0, <2>1, TiposDePassos
<1> HIDE DEF e, linhas
<1>7. /\ q.tipo = p.tipo /\ q.id = p.id /\ q.lida = p.lida /\ q.passos = Tail(p.passos)
      /\ q.escritas = e
  BY <1>2 DEF Transacao
<1>8. /\ p.tipo # "editar" /\ PassosDoTipo(p.tipo, p.lida, Tail(p.passos))
      /\ OrigemCerta(p.tipo, p.id, p.lida, p.passos, p.escritas, tarefas)
      /\ \A i \in Ids : Vista(r, i) # Ausente => Presente(i)
  <2>1. /\ OpDoTipo(p.tipo, op) /\ PedidoCerto(p, tarefas)
        /\ PassosDoTipo(p.tipo, p.lida, Tail(p.passos))
        /\ p.tipo # "editar" => \A i \in Ids : Vista(r, i) # Ausente => Presente(i)
    BY <1>1, NoPassoDaOrigem
  <2>2. p.tipo # "editar"
    BY <1>0, <2>1 DEF OpDoTipo
  <2> QED BY <2>1, <2>2 DEF PedidoCerto
<1> HIDE DEF q
<1>9. \A i \in Ids : Grava(e, i) => tarefas[i] # Ausente
  BY <1>2, <1>4, <1>8 DEF OrigemCerta, Grava, Presente
<1>15. p.tipo = "remover" => Tail(p.passos) = << >>
  <2>1. PassosDoTipo(p.tipo, p.lida, p.passos)
    BY <1>1, NoPassoDaOrigem DEF PedidoCerto
  <2>2. p.passos \in Seq(Passo) /\ p.passos[1].op = op /\ 1 \in 1 .. Len(p.passos)
    BY <1>1, NoPasso
  <2>3. ASSUME p.tipo = "remover" PROVE 1 = Len(p.passos)
    BY <1>0, <2>1, <2>2, <2>3 DEF PassosDoTipo
  <2>4. Tail(p.passos) \in Seq(Passo) /\ Len(Tail(p.passos)) = Len(p.passos) - 1
    BY <1>2, <2>2, Restantes
  <2>5. p.tipo = "remover" => Len(Tail(p.passos)) = 0
    BY <2>3, <2>4
  <2> QED BY <2>4, <2>5, EmptySeq
<1>10. ASSUME p.tipo = "remover", NEW i \in Ids, Grava(e, i)
       PROVE  Tail(p.passos) = << >> /\ Vizinha(e[i], tarefas[i])
  <2>1. ~Grava(p.escritas, i)
    BY <1>2, <1>8, <1>10 DEF OrigemCerta
  <2>2. e[i] # p.escritas[i]
    BY <1>10, <2>1 DEF Grava
  <2>3. /\ Vista(r, i) # Ausente /\ nova(i) # Vista(r, i).ordem /\ nova(i) <= MaxOrdem
        /\ e[i] = [Vista(r, i) EXCEPT !.ordem = nova(i)]
    BY <1>4, <2>2
  <2>4. Vista(r, i) = tarefas[i] /\ tarefas[i] \in Linha
    BY <1>2, <1>5, <2>1, <2>3, TipoDaVista DEF Grava
  <2>5. nova(i) \in Ordem /\ (nova(i) = tarefas[i].ordem + 1 \/ tarefas[i].ordem = nova(i) + 1)
    <3>1. tarefas[i].ordem \in Ordem
      BY <2>4 DEF Linha
    <3>2. /\ Deslocada(tarefas[i].ordem, m) <= MaxOrdem
          /\ Deslocada(tarefas[i].ordem, m) # tarefas[i].ordem
          /\ nova(i) = Deslocada(tarefas[i].ordem, m)
      BY <2>3, <2>4
    <3> HIDE DEF m, nova
    <3> QED BY <1>14, <3>1, <3>2, DeslocadaVizinha
  <2>6. e[i].coluna = tarefas[i].coluna /\ e[i].ordem = nova(i)
    BY <2>3, <2>4 DEF Linha
  <2> QED BY <1>10, <1>15, <2>5, <2>6 DEF Vizinha
<1>12. OrigemCerta(p.tipo, p.id, p.lida, Tail(p.passos), e, tarefas)
  BY <1>8, <1>9, <1>10 DEF OrigemCerta
<1>13. PedidoCerto(q, tarefas)
  BY <1>7, <1>8, <1>12 DEF PedidoCerto
<1> QED BY <1>1, <1>3, <1>13, OrigemSegue

\* A commit leaves alone what the others have written, which they have locked.
LEMMA OrigemConfirmar ==
  ASSUME KanbanInv, OrigemInv, NEW r \in Reqs, Confirmar(r)
  PROVE  OrigemInv'
<1>1. /\ Ativo(r) /\ tarefas' = [i \in Ids |-> Vista(r, i)]
      /\ pedidos' = [pedidos EXCEPT ![r] = Livre]
  BY DEF Confirmar, Ativo
<1>2. \A s \in Reqs : Ativo(s)' => s # r /\ Ativo(s) /\ pedidos'[s] = pedidos[s]
  BY <1>1 DEF Ativo, KanbanInv, TypeOK
<1>3. ASSUME NEW s \in Reqs, Ativo(s)' PROVE PedidoCerto(pedidos'[s], tarefas')
  <2> DEFINE q == pedidos[s]
  <2>1. s # r /\ Ativo(s) /\ pedidos'[s] = q /\ PedidoCerto(q, tarefas)
    BY <1>2, <1>3 DEF OrigemInv
  <2>2. ASSUME NEW i \in Ids, Grava(q.escritas, i) PROVE tarefas'[i] = tarefas[i]
    <3>1. i \in q.travadas
      BY <2>1, <2>2, DoPedido DEF Grava
    <3>2. i \notin pedidos[r].travadas
      BY <1>1, <2>1, <3>1 DEF KanbanInv, TravasDisjuntas
    <3>3. pedidos[r].escritas[i] = Intacta
      BY <1>1, <3>2, DoPedido
    <3> QED BY <1>1, <3>3 DEF Vista
  <2> HIDE DEF q
  <2>3. OrigemCerta(q.tipo, q.id, q.lida, q.passos, q.escritas, tarefas')
    BY <2>1, <2>2 DEF PedidoCerto, OrigemCerta, SoEsta
  <2> QED BY <2>1, <2>3 DEF PedidoCerto
<1> QED BY <1>3 DEF OrigemInv

LEMMA OrigemFalhar ==
  ASSUME KanbanInv, OrigemInv, NEW r \in Reqs, Falhar(r)
  PROVE  OrigemInv'
<1>1. pedidos' = [pedidos EXCEPT ![r] = Livre] /\ tarefas' = tarefas
  BY DEF Falhar
<1>2. \A s \in Reqs : Ativo(s)' => Ativo(s) /\ pedidos'[s] = pedidos[s]
  BY <1>1 DEF Ativo, KanbanInv, TypeOK
<1> QED BY <1>1, <1>2 DEF OrigemInv

LEMMA OrigemContinuar ==
  ASSUME KanbanInv, OrigemInv, NEW r \in Reqs, Continuar(r)
  PROVE  OrigemInv'
BY OrigemSelecionar, OrigemReordenar, OrigemLerUltima, OrigemGravarPosicao,
   OrigemInserirTarefa, OrigemRemoverTarefa, OrigemCarregarTarefa, OrigemSalvarTarefa,
   OrigemReinserirTarefa, OrigemConfirmar, OrigemFalhar DEF Continuar

LEMMA OrigemParada ==
  ASSUME OrigemInv, UNCHANGED vars
  PROVE  OrigemInv'
<1>1. tarefas' = tarefas /\ pedidos' = pedidos
  BY DEF vars
<1> QED BY <1>1 DEF OrigemInv, Ativo

\* What a commit makes of a task that it changes or adds, and does not just shift.
LEMMA CommitDeOrigem ==
  ASSUME KanbanInv, OrigemInv, NEW r \in Reqs, Confirmar(r), NEW i \in Ids,
         tarefas'[i] # Ausente, tarefas'[i] # tarefas[i]
  PROVE  /\ pedidos[r] # Livre /\ pedidos'[r] = Livre
         /\ \/ DeslocadaPorUm(i)
            \/ /\ pedidos[r].tipo = "criar" /\ ~Presente(i)
               /\ \A j \in Ids \ {i} : Presente(j) \/ tarefas'[j] = Ausente
            \/ pedidos[r].tipo = "mover" /\ pedidos[r].id = i /\ Presente(i)
            \/ /\ pedidos[r].tipo = "editar" /\ pedidos[r].id = i
               /\ Editada(tarefas'[i], pedidos[r].lida, tarefas[i])
<1> DEFINE p == pedidos[r]
           e == p.escritas
<1>1. /\ Ativo(r) /\ p # Livre /\ pedidos'[r] = Livre
      /\ \A j \in Ids : tarefas'[j] = IF e[j] = Intacta THEN tarefas[j] ELSE e[j]
  BY DEF Confirmar, Ativo, KanbanInv, TypeOK, Vista
<1>2. /\ OrigemCerta(p.tipo, p.id, p.lida, p.passos, e, tarefas)
      /\ p.tipo \in {"criar", "mover", "remover", "editar"}
  BY <1>1, TransacaoAtiva DEF OrigemInv, PedidoCerto, KanbanInv, Transacao, Tipos
<1>3. Grava(e, i) /\ tarefas'[i] = e[i]
  BY <1>1 DEF Grava, Presente
\* A shift is by one: of the tasks of others by KanbanInv, of its own when it is removed.
<1>7. ASSUME Presente(i), Vizinha(e[i], tarefas[i]) PROVE DeslocadaPorUm(i)
  <2>1. tarefas[i] \in Linha /\ e[i] \in Linha
    <3>1. tarefas[i] \in Linha
      BY <1>7, DaTabela
    <3>2. e[i] \in Linha \cup {Ausente, Intacta}
      BY <1>1, DoPedido
    <3> QED BY <1>3, <3>1, <3>2 DEF Grava
  <2>2. tarefas[i].ordem \in Nat \ {0} /\ e[i].ordem \in Nat \ {0}
    BY <2>1, LimitesAssumption DEF Linha, Ordem
  <2>3. /\ e[i].coluna = tarefas[i].coluna
        /\ e[i].ordem \in { tarefas[i].ordem + 1, tarefas[i].ordem - 1 } \ {0}
    BY <1>7, <2>2 DEF Vizinha
  <2> QED BY <1>3, <1>7, <2>3 DEF DeslocadaPorUm
<1>4. CASE ~Presente(i) /\ p.tipo # "editar"
  <2>1. p.tipo = "criar" /\ SoEsta(e, tarefas, i)
    BY <1>2, <1>3, <1>4 DEF OrigemCerta, Presente
  <2>2. \A j \in Ids \ {i} : Presente(j) \/ tarefas'[j] = Ausente
    BY <1>1, <2>1 DEF SoEsta, Grava, Presente
  <2> QED BY <1>1, <1>4, <2>1, <2>2
<1>5. CASE p.tipo = "editar"
  BY <1>1, <1>2, <1>3, <1>5 DEF OrigemCerta
<1>6. CASE Presente(i) /\ p.tipo # "editar"
  <2>1. CASE p.id # i
    <3>1. Vizinha(e[i], tarefas[i])
      BY <1>1, <1>3, <1>6, <2>1, DoPedido DEF Grava
    <3> QED BY <1>1, <1>6, <1>7, <3>1
  <2>2. CASE p.tipo = "remover"
    <3>1. Vizinha(e[i], tarefas[i])
      BY <1>2, <1>3, <2>2 DEF OrigemCerta
    <3> QED BY <1>1, <1>6, <1>7, <3>1
  <2>3. CASE p.id = i /\ p.tipo # "remover"
    <3>1. p.tipo # "criar"
      BY <1>2, <2>3 DEF OrigemCerta, Ids
    <3> QED BY <1>1, <1>2, <1>6, <2>3, <3>1
  <2> QED BY <2>1, <2>2, <2>3
<1> QED BY <1>4, <1>5, <1>6

\* Whatever the interleaving, a commit shifts other tasks than its own by one position, from
\* where they are, in their column; it puts elsewhere only the task of a move or an edit,
\* adds only the one it creates, and only an edit that had read a task brings it back.
THEOREM CommitSoTocaOQueDeve == Spec => CommitSoMudaOSeuOuDesloca
<1>1. KanbanInv /\ OrigemInv /\ [Next]_vars => OrigemInv'
  BY OrigemChegar, OrigemContinuar, OrigemParada DEF Next
<1>2. Init => OrigemInv
  BY DEF Init, OrigemInv, Ativo
<1>3. ASSUME KanbanInv, OrigemInv, [Next]_vars, NEW i \in Ids, tarefas'[i] # Ausente,
             tarefas'[i] # tarefas[i]
      PROVE  \E r \in Reqs :
                /\ pedidos[r] # Livre /\ pedidos'[r] = Livre
                /\ \/ DeslocadaPorUm(i)
                   \/ /\ pedidos[r].tipo = "criar" /\ ~Presente(i)
                      /\ \A j \in Ids \ {i} : Presente(j) \/ tarefas'[j] = Ausente
                   \/ pedidos[r].tipo = "mover" /\ pedidos[r].id = i /\ Presente(i)
                   \/ /\ pedidos[r].tipo = "editar" /\ pedidos[r].id = i
                      /\ Editada(tarefas'[i], pedidos[r].lida, tarefas[i])
  <2>1. tarefas' # tarefas
    BY <1>3
  <2>2. PICK r \in Reqs : Chegar(r) \/ Continuar(r)
    BY <1>3, <2>1 DEF Next, vars
  <2>3. Confirmar(r)
    BY <2>1, <2>2, SoConfirmarMuda
  <2> QED BY <1>3, <2>3, CommitDeOrigem
<1>4. KanbanInv /\ OrigemInv /\ [Next]_vars =>
         [ \A i \in Ids :
              tarefas'[i] # Ausente /\ tarefas'[i] # tarefas[i]
              => \E r \in Reqs :
                    /\ pedidos[r] # Livre /\ pedidos'[r] = Livre
                    /\ \/ DeslocadaPorUm(i)
                       \/ /\ pedidos[r].tipo = "criar" /\ ~Presente(i)
                          /\ \A j \in Ids \ {i} : Presente(j) \/ tarefas'[j] = Ausente
                       \/ pedidos[r].tipo = "mover" /\ pedidos[r].id = i /\ Presente(i)
                       \/ /\ pedidos[r].tipo = "editar" /\ pedidos[r].id = i
                          /\ Editada(tarefas'[i], pedidos[r].lida, tarefas[i]) ]_vars
  BY <1>3
<1> QED BY <1>1, <1>2, <1>4, KanbanSempreCoerente, PTL DEF Spec, CommitSoMudaOSeuOuDesloca
=============================================================================
