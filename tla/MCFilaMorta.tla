----------------------------- MODULE MCFilaMorta -----------------------------
(* Instances of FilaMorta.  Envelopes share nothing but the connection, so  *)
(* one of them is followed, through several losses of it.                   *)
EXTENDS FilaMorta

CONSTANT e1

UmEnvelope == {e1}

SoBanco == {"banco"}
TodasAsFalhas == TiposDeFalha
=============================================================================
