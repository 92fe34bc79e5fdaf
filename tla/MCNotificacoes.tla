---------------------------- MODULE MCNotificacoes ----------------------------
(***************************************************************************)
(* The notifications (Notificacoes) and the cache of lists (ListaEmCache)  *)
(* for TLC.  Notificacoes only takes from the cache that a list may be one *)
(* read earlier, and ListaEmCache says how much earlier: a behaviour is of *)
(* one part or of the other.                                               *)
(***************************************************************************)
EXTENDS Notificacoes, ListaEmCache, TLC

VARIABLE parte

varsListas == << vars, varsLista, parte >>

\* The part that has no steps starts in one of its initial states.
InitListas ==
    /\ Init /\ InitLista
    /\ \/ parte = "notificacoes"
       \/ parte = "lista" /\ notas = << >>

NextListas ==
    \/ parte = "notificacoes" /\ Next /\ UNCHANGED << varsLista, parte >>
    \/ parte = "lista" /\ NextLista /\ UNCHANGED << vars, parte >>

SpecListas == InitListas /\ [][NextListas]_varsListas /\ JusticaLista

\* The variables of either part have their types.
TiposOK == TypeOK /\ ListaTypeOK
=============================================================================
