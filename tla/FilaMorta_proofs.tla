--------------------------- MODULE FilaMorta_proofs ---------------------------
(***************************************************************************)
(* FilaMorta for any number of envelopes and losses of the connection: an  *)
(* envelope the broker has taken is never nowhere, and it is multiplied    *)
(* only by the loss of a connection.                                       *)
(***************************************************************************)
EXTENDS FilaMorta, TLAPS

USE DEF copias

LEMMA InitIndutivo == Init => Indutivo
  BY MaxRupturasAssumption DEF Init, Indutivo, TypeOK, NadaEvapora, UmaLinhaPorEnvelope,
     NoBroker, Envios, Zero

(* What an action moves is a copy from one place to another, so it is      *)
(* enough to look at the counters of one envelope at a time.               *)
LEMMA PassoTipos == Indutivo /\ [Next]_vars => TypeOK' /\ (rupturas = 0 => orfas = Zero)'
<1> SUFFICES ASSUME Indutivo, [Next]_vars
             PROVE  TypeOK' /\ (rupturas = 0 => orfas = Zero)'
  OBVIOUS
<1> USE MaxRupturasAssumption DEF Indutivo, TypeOK, Envios, Zero, Mais, Menos
<1>1. ASSUME NEW e \in Envelopes, SendToQueue(e) PROVE TypeOK' /\ (rupturas = 0 => orfas = Zero)'
  BY <1>1 DEF SendToQueue
<1>2. ASSUME NEW e \in Envelopes, Escreve(e) PROVE TypeOK' /\ (rupturas = 0 => orfas = Zero)'
  BY <1>2 DEF Escreve
<1>3. ASSUME NEW e \in Envelopes, Confirma(e) PROVE TypeOK' /\ (rupturas = 0 => orfas = Zero)'
  BY <1>3 DEF Confirma
<1>4. ASSUME NEW e \in Envelopes, Consome(e) PROVE TypeOK' /\ (rupturas = 0 => orfas = Zero)'
  BY <1>4 DEF Consome
<1>5. ASSUME NEW e \in Envelopes, Create(e) PROVE TypeOK' /\ (rupturas = 0 => orfas = Zero)'
  BY <1>5 DEF Create
<1>6. ASSUME NEW e \in Envelopes, Nack(e) PROVE TypeOK' /\ (rupturas = 0 => orfas = Zero)'
  BY <1>6 DEF Nack
<1>7. ASSUME NEW e \in Envelopes, Ack(e) PROVE TypeOK' /\ (rupturas = 0 => orfas = Zero)'
  BY <1>7 DEF Ack
<1>8. ASSUME NEW e \in Envelopes, CreateOrfa(e) PROVE TypeOK' /\ (rupturas = 0 => orfas = Zero)'
  BY <1>8 DEF CreateOrfa
<1>9. ASSUME Desconecta \/ Queda \/ ReiniciaBroker
      PROVE  TypeOK' /\ (rupturas = 0 => orfas = Zero)'
  <2>0. Zero \in [Envelopes -> Nat] /\ rupturas \in Nat
    OBVIOUS
  <2> HIDE DEF Zero
  <2>1. conectado' = FALSE /\ rupturas' = rupturas + 1 /\ rupturas < MaxRupturas
    BY <1>9 DEF Desconecta, Queda, Rompe, ReiniciaBroker
  <2>2. criando' = Zero /\ criadas' = Zero /\ linhas' = linhas /\ descartes' = descartes
    BY <1>9 DEF Desconecta, Queda, Rompe, ReiniciaBroker
  <2>3. fila' \in [Envelopes -> Nat]
    BY <1>9, <2>0 DEF Desconecta, Queda, Rompe, ReiniciaBroker
  <2>4. orfas' \in [Envelopes -> Nat]
    <3>1. [e \in Envelopes |-> orfas[e] + criando[e]] \in [Envelopes -> Nat]
      OBVIOUS
    <3>2. orfas' \in {Zero, [e \in Envelopes |-> orfas[e] + criando[e]]}
      BY <1>9 DEF Desconecta, Queda, Rompe, ReiniciaBroker
    <3> QED
      BY <3>1, <3>2, <2>0
  <2>5. envio' \in [Envelopes -> Envios]
    BY <1>9 DEF Desconecta, Queda, Rompe, ReiniciaBroker, DepoisDoReinicio
  <2>6. rupturas' \in 0 .. MaxRupturas /\ rupturas' # 0
    BY <2>0, <2>1
  <2>7. TypeOK'
    BY <2>0, <2>1, <2>2, <2>3, <2>4, <2>5, <2>6
  <2> QED
    BY <2>6, <2>7
<1>10. ASSUME Conecta \/ UNCHANGED vars PROVE TypeOK' /\ (rupturas = 0 => orfas = Zero)'
  BY <1>10 DEF Conecta, vars
<1> QED
  BY <1>1, <1>2, <1>3, <1>4, <1>5, <1>6, <1>7, <1>8, <1>9, <1>10 DEF Next, Handler

LEMMA PassoIndutivo == Indutivo /\ [Next]_vars => Indutivo'
<1> SUFFICES ASSUME Indutivo, [Next]_vars PROVE NadaEvapora' /\ UmaLinhaPorEnvelope'
  BY PassoTipos DEF Indutivo
<1> DEFINE Conta == NadaEvapora' /\ UmaLinhaPorEnvelope'
<1> USE DEF Indutivo, TypeOK, NadaEvapora, UmaLinhaPorEnvelope, NoBroker, Envios, Zero, Mais, Menos
<1>1. ASSUME NEW e \in Envelopes, SendToQueue(e) PROVE Conta
  BY <1>1 DEF SendToQueue
<1>2. ASSUME NEW e \in Envelopes, Escreve(e) PROVE Conta
  BY <1>2 DEF Escreve
<1>3. ASSUME NEW e \in Envelopes, Confirma(e) PROVE Conta
  BY <1>3 DEF Confirma
<1>4. ASSUME NEW e \in Envelopes, Consome(e) PROVE Conta
  BY <1>4 DEF Consome
<1>5. ASSUME NEW e \in Envelopes, Create(e) PROVE Conta
  BY <1>5 DEF Create
<1>6. ASSUME NEW e \in Envelopes, Nack(e) PROVE Conta
  BY <1>6 DEF Nack
<1>7. ASSUME NEW e \in Envelopes, Ack(e) PROVE Conta
  BY <1>7 DEF Ack
<1>8. ASSUME NEW e \in Envelopes, CreateOrfa(e) PROVE Conta
  BY <1>8 DEF CreateOrfa
<1>9. ASSUME Desconecta \/ Queda PROVE Conta
  <2>1. rupturas' # 0 /\ linhas' = linhas /\ descartes' = descartes
    BY <1>9 DEF Desconecta, Queda, Rompe
  <2>2. fila' = [e \in Envelopes |-> fila[e] + criando[e] + criadas[e]] /\ criando' = Zero
    BY <1>9 DEF Desconecta, Queda, Rompe
  <2>3. \A e \in Envelopes : NoBroker(e)' => NoBroker(e)
    BY <1>9 DEF Desconecta, Queda, Rompe
  <2>4. NadaEvapora'
    <3> SUFFICES ASSUME NEW e \in Envelopes, NoBroker(e)'
                 PROVE  fila'[e] + criando'[e] + linhas'[e] + descartes'[e] > 0
      OBVIOUS
    <3>1. fila[e] + criando[e] + linhas[e] + descartes[e] > 0
      BY <2>3
    <3>2. /\ fila'[e] = fila[e] + criando[e] + criadas[e]
          /\ criando'[e] = 0
          /\ linhas'[e] = linhas[e]
          /\ descartes'[e] = descartes[e]
      BY <2>1, <2>2
    <3> QED
      BY <3>1, <3>2
  <2> QED
    BY <2>1, <2>4
<1>10. ASSUME ReiniciaBroker PROVE Conta
  <2>1. /\ rupturas' # 0 /\ fila' = Zero /\ criando' = Zero
        /\ linhas' = linhas /\ descartes' = descartes
    BY <1>10 DEF ReiniciaBroker
  <2>2. ASSUME NEW e \in Envelopes, NoBroker(e)' PROVE linhas[e] + descartes[e] > 0
    <3>1. envio'[e] = DepoisDoReinicio(e)
      BY <1>10 DEF ReiniciaBroker
    <3>2. envio[e] = "confirmado" /\ linhas[e] + descartes[e] # 0
      BY <2>2, <3>1 DEF DepoisDoReinicio
    <3> QED
      BY <3>2
  <2> QED
    BY <2>1, <2>2
<1>11. ASSUME Conecta \/ UNCHANGED vars PROVE Conta
  BY <1>11 DEF Conecta, vars
<1> QED
  BY <1>1, <1>2, <1>3, <1>4, <1>5, <1>6, <1>7, <1>8, <1>9, <1>10, <1>11 DEF Next, Handler

LEMMA Indutividade == Spec => []Indutivo
<1>1. Init => Indutivo
  BY InitIndutivo
<1>2. Indutivo /\ [Next]_vars => Indutivo'
  BY PassoIndutivo
<1> QED
  BY <1>1, <1>2, PTL DEF Spec

(* No place ever holds a negative number of copies of an envelope: a step  *)
(* that moves a copy finds it where it takes it from.                      *)
THEOREM Tipos == Spec => []TypeOK
<1>1. Indutivo => TypeOK
  BY DEF Indutivo
<1> QED
  BY <1>1, Indutividade, PTL

(* An envelope the broker has taken and not lost in a restart is queued,   *)
(* handled, in the table or nacked, across any number of lost connections  *)
(* and process deaths.                                                     *)
THEOREM NadaSeEvapora == Spec => []NadaEvapora
<1>1. Indutivo => NadaEvapora
  BY DEF Indutivo
<1> QED
  BY <1>1, Indutividade, PTL

(* While no connection is lost an envelope gives at most one row. *)
THEOREM LinhaUnica == Spec => []UmaLinhaPorEnvelope
<1>1. Indutivo => UmaLinhaPorEnvelope
  BY DEF Indutivo
<1> QED
  BY <1>1, Indutividade, PTL
=============================================================================
