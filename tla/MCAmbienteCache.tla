---------------------------- MODULE MCAmbienteCache ----------------------------
(* Instances of AmbienteCache: one or two rows, a reader and one or two     *)
(* administrators, so that a late cache fill meets a write and two writes   *)
(* meet each other.                                                         *)
EXTENDS AmbienteCache

CONSTANTS a1, a2, r1, d1, d2

UmAmbiente == {a1}
DoisAmbientes == {a1, a2}
UmLeitor == {r1}
UmAdmin == {d1}
DoisAdmins == {d1, d2}
TodosOsEventos == TiposDeEvento
SemEventos == {}
=============================================================================
