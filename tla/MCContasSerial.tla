---------------------------- MODULE MCContasSerial ----------------------------
(* ContasSerial for TLC: the .cfg gives every constant its value. *)
EXTENDS ContasSerial

ASSUME UmaRequisicaoAssumption == UmaRequisicao
=============================================================================
