----------------------------- MODULE MCNavegador ------------------------------
(***************************************************************************)
(* Sessao for TLC, in two scenes that together leave little out: several   *)
(* tabs and accounts, with Redis up and every account active; or one tab   *)
(* and one account, with Redis and the administrators doing what they can. *)
(***************************************************************************)
EXTENDS MCSessao, FiniteSets

VARIABLE cena

AbasEmUso ==
    { a \in Abas : \/ tela[a] # Ninguem \/ TemRenovacao(a)
                   \/ \E c \in Chamadas : EmCurso(c) /\ chamadas[c].aba = a }
UsuariosEmUso ==
    { u \in Usuarios : \/ ~ativo[u] \/ \E a \in Abas : tela[a] = u
                       \/ \E i \in DOMAIN donos : donos[i] = u
                       \/ \E c \in Chamadas : EmCurso(c) /\ chamadas[c].de = u }

InitCena == Init /\ cena \in {"variasAbas", "servidorInstavel"}

NextCena ==
    /\ UNCHANGED cena
    /\ cena = "variasAbas" => UNCHANGED << ativo, redis >>
    /\ Next
    /\ cena = "variasAbas" => \A c \in Chamadas : EmCurso(c)' => chamadas'[c].tipo # "dados"
    /\ cena = "servidorInstavel" =>
          Cardinality(AbasEmUso') <= 1 /\ Cardinality(UsuariosEmUso') <= 1

SpecCena == InitCena /\ [][NextCena]_<< vars, cena >>
=============================================================================
