----------------------------- MODULE MCAuditChain -----------------------------
(* Instances of AuditChain for TLC. *)
EXTENDS AuditChain, TLC

Auditoria(a, id, erro) ==
    [ assunto |-> a, entityId |-> id, error |-> erro, timestamp |-> Indefinido ]

\* A login and a change of a desarquivamento.
MCEventos == { Auditoria("login", Indefinido, Indefinido),
               Auditoria("desarquivamento", "id", Indefinido) }

\* The writers are interchangeable.
Simetria == Permutations(Escritores)
=============================================================================
