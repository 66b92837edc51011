------------------------------ MODULE MCDispatch ------------------------------
(* Instances of Dispatch for TLC: two calls, so that their awaits           *)
(* interleave, over one or two inboxes.                                     *)
EXTENDS Dispatch

CONSTANTS t1, t2, i1, i2, a1, u1

DuasTarefas == {t1, t2}
UmaInbox == {i1}
DuasInboxes == {i1, i2}
UmAmbiente == {a1}
UmaUrl == {u1}

TodasAsFalhas == TiposDeFalha
SoRedis == {"redis"}
=============================================================================
