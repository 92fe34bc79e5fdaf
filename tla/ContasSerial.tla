----------------------------- MODULE ContasSerial -----------------------------
(***************************************************************************)
(* Contas implements the lockout of Acesso when requests do not overlap.   *)
(***************************************************************************)
EXTENDS Contas

\* One client: every request ends before the next one comes.
UmaRequisicao == \E r \in Reqs : Reqs = {r}

SituacaoDe(c) ==
    CASE c = Ausente -> "inexistente"
      [] c # Ausente /\ c.deletedAt = "data" -> "excluida"
      [] OTHER -> IF c.ativo THEN "ativa" ELSE "inativa"

SituacaoVista == [u \in Usuarios |-> SituacaoDe(contas[u])]
FalhasVistas == [u \in Usuarios |-> IF Presente(u) THEN contas[u].tentativas ELSE 0]
AteVisto == [u \in Usuarios |-> IF Presente(u) THEN contas[u].bloqueadoAte ELSE 0]

Regra == INSTANCE Acesso
    WITH situacao <- SituacaoVista, falhas <- FalhasVistas, ate <- AteVisto

\* One after the other, the requests keep the rules of the lockout: five failures in
\* a row block, a blocked account is not tried, what administrators change leaves the
\* counter alone, and nothing takes an account out of the trash.
ImplementaAcesso == Regra!Spec
=============================================================================
