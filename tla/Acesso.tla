-------------------------------- MODULE Acesso --------------------------------
(***************************************************************************)
(* What the lockout of an account promises when its requests do not        *)
(* overlap: failures in a row are counted, the limit blocks the account    *)
(* for a while, nobody fails or succeeds while it is blocked, only a       *)
(* success or an administrator clears the counter, and administration      *)
(* does not touch it.  A deleted account stays deleted.                    *)
(***************************************************************************)
EXTENDS Naturals

CONSTANTS Usuarios, Limite, Duracao, MaxAgora

VARIABLES
    situacao,   \* of each account
    falhas,     \* failed logins in a row
    ate,        \* the instant at which the block ends; 0 for none
    agora

vars == << situacao, falhas, ate, agora >>

Bloqueada(u) == ate[u] > agora

Init ==
    /\ situacao = [u \in Usuarios |-> "inexistente"]
    /\ falhas = [u \in Usuarios |-> 0]
    /\ ate = [u \in Usuarios |-> 0]
    /\ agora = 0

Zerar(u) == falhas' = [falhas EXCEPT ![u] = 0] /\ ate' = [ate EXCEPT ![u] = 0]

\* The block counts from the instant t at which the password was compared.
Errar(u) ==
    /\ situacao[u] = "ativa" /\ ~Bloqueada(u)
    /\ falhas' = [falhas EXCEPT ![u] = @ + 1]
    /\ \E t \in 0 .. agora :
          ate' = [ate EXCEPT ![u] = IF falhas'[u] >= Limite THEN t + Duracao ELSE @]
    /\ UNCHANGED << situacao, agora >>

Acertar(u) ==
    /\ situacao[u] = "ativa" /\ ~Bloqueada(u)
    /\ Zerar(u)
    /\ UNCHANGED << situacao, agora >>

\* The block may run out while the administrator lifts it.
Desbloquear(u) ==
    /\ situacao[u] \in {"ativa", "inativa"} /\ ate[u] # 0
    /\ Zerar(u)
    /\ UNCHANGED << situacao, agora >>

Administrar(u) ==
    /\ \/ situacao[u] = "inexistente" /\ situacao' = [situacao EXCEPT ![u] = "ativa"]
       \/ /\ situacao[u] \in {"ativa", "inativa"}
          /\ \E s \in {"ativa", "inativa", "excluida"} :
                situacao' = [situacao EXCEPT ![u] = s]
    /\ UNCHANGED << falhas, ate, agora >>

Passar ==
    /\ agora < MaxAgora
    /\ agora' = agora + 1
    /\ UNCHANGED << situacao, falhas, ate >>

Next == Passar \/ \E u \in Usuarios :
                     Errar(u) \/ Acertar(u) \/ Desbloquear(u) \/ Administrar(u)
Spec == Init /\ [][Next]_vars
=============================================================================
