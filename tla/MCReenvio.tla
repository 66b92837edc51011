------------------------------ MODULE MCReenvio ------------------------------
(* Instances of Reenvio: a message of an inbox, and one of none; pages of   *)
(* two rows, so that a page can be full.                                    *)
EXTENDS Reenvio, TLC

CONSTANTS i1, i2, m1, m2, b1, b2, d1

DuasInboxes == {i1, i2}
UmaMensagem == {m1}
DuasMensagens == {m1, m2}
CaixaUma == m1 :> i1
CaixaDuas == (m1 :> i1) @@ (m2 :> SemInbox)
UmLote == {b1}
DoisLotes == {b1, b2}
UmAvulso == {d1}
Nenhum == {}
=============================================================================
