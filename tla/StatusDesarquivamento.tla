------------------------ MODULE StatusDesarquivamento ------------------------
(***************************************************************************)
(* The status flow of a desarquivamento, from the value object             *)
(* status-desarquivamento.vo.ts.  Constant level: operators only.          *)
(***************************************************************************)

\* enum StatusDesarquivamentoEnum
Status == { "SOLICITADO", "DESARQUIVADO", "NAO_COLETADO", "NAO_LOCALIZADO",
            "RETIRADO_PELO_SETOR", "REARQUIVAMENTO_SOLICITADO", "FINALIZADO" }

\* The static map VALID_TRANSITIONS, as the set of its (from, to) pairs.
ValidTransitions ==
    { << "SOLICITADO", "DESARQUIVADO" >>,
      << "SOLICITADO", "NAO_LOCALIZADO" >>,
      << "DESARQUIVADO", "RETIRADO_PELO_SETOR" >>,
      << "DESARQUIVADO", "NAO_COLETADO" >>,
      << "DESARQUIVADO", "REARQUIVAMENTO_SOLICITADO" >>,
      << "RETIRADO_PELO_SETOR", "FINALIZADO" >>,
      << "NAO_COLETADO", "REARQUIVAMENTO_SOLICITADO" >>,
      << "REARQUIVAMENTO_SOLICITADO", "FINALIZADO" >> }

CanTransitionTo(de, para) == << de, para >> \in ValidTransitions

Final == { "FINALIZADO", "NAO_LOCALIZADO" }

IsFinal(s) == s \in Final

IsPending(s) == s = "SOLICITADO"

\* NAO_COLETADO is not "in progress" for isInProgress.
IsInProgress(s) ==
    s \in { "DESARQUIVADO", "RETIRADO_PELO_SETOR", "REARQUIVAMENTO_SOLICITADO" }
=============================================================================
