------------------------------ MODULE FilaMorta ------------------------------
(***************************************************************************)
(* The dead-letter queue `inbox.dead-letter`, from RabbitMQService         *)
(* .sendToQueue to the row of fila_mensagens_mortas: the publisher's       *)
(* buffer (amqp-connection-manager), the broker, the consumer that         *)
(* startConsuming installs on every channel, the handler of                *)
(* DeadLetterConsumerService, and ack or nack.                             *)
(*                                                                         *)
(* The copies of an envelope are interchangeable, so each place holds a    *)
(* number of copies per envelope.  There is no prefetch: the handlers of   *)
(* all the deliveries run at once.                                         *)
(***************************************************************************)
EXTENDS Naturals

CONSTANTS Envelopes,    \* dead letters given to sendToQueue
          MaxRupturas,  \* bound: losses of the connection
          Falhas        \* faults of this instance, a subset of TiposDeFalha

(* "banco": a create fails; "queda": the process dies; "broker": the       *)
(* broker restarts.                                                        *)
TiposDeFalha == {"banco", "queda", "broker"}

ASSUME MaxRupturasAssumption == MaxRupturas \in Nat
ASSUME FalhasAssumption == Falhas \subseteq TiposDeFalha

VARIABLES conectado,   \* whether there is a channel, with its consumer
          rupturas,    \* history: losses of the connection so far
          envio,       \* per envelope: the state of its publication, "perdido"
                       \* when the process or the broker died with it
          fila,        \* per envelope: copies ready in the broker
          criando,     \* deliveries of this channel whose create is under way
          criadas,     \* deliveries of this channel whose row is committed
          orfas,       \* handlers that outlived the channel of their delivery
          linhas,      \* per envelope: rows of fila_mensagens_mortas
          descartes    \* per envelope: copies nacked without requeue

copias == <<fila, criando, criadas, orfas, linhas, descartes>>
vars == <<conectado, rupturas, envio, copias>>

Envios == {"nenhum", "buffer", "escrito", "confirmado", "perdido"}

Zero == [e \in Envelopes |-> 0]

Init == /\ conectado \in BOOLEAN
        /\ rupturas = 0
        /\ envio = [e \in Envelopes |-> "nenhum"]
        /\ fila = Zero
        /\ criando = Zero
        /\ criadas = Zero
        /\ orfas = Zero
        /\ linhas = Zero
        /\ descartes = Zero

Mais(f, e) == [f EXCEPT ![e] = @ + 1]
Menos(f, e) == [f EXCEPT ![e] = @ - 1]

-----------------------------------------------------------------------------
(* The publisher.  sendToQueue serialises the envelope and returns a       *)
(* promise that settles when the broker confirms.                          *)
SendToQueue(e) == /\ envio[e] = "nenhum"
                  /\ envio' = [envio EXCEPT ![e] = "buffer"]
                  /\ UNCHANGED <<conectado, rupturas, copias>>

(* The manager writes what it buffered once there is a channel. *)
Escreve(e) == /\ conectado
              /\ envio[e] = "buffer"
              /\ envio' = [envio EXCEPT ![e] = "escrito"]
              /\ fila' = Mais(fila, e)
              /\ UNCHANGED <<conectado, rupturas, criando, criadas, orfas, linhas, descartes>>

Confirma(e) == /\ conectado
               /\ envio[e] = "escrito"
               /\ envio' = [envio EXCEPT ![e] = "confirmado"]
               /\ UNCHANGED <<conectado, rupturas, copias>>

-----------------------------------------------------------------------------
(* Mutant: the consumer is installed on the first channel only. *)
ConsomeSoNoPrimeiro(e) == /\ rupturas = 0
                          /\ conectado
                          /\ fila[e] > 0
                          /\ fila' = Menos(fila, e)
                          /\ criando' = Mais(criando, e)
                          /\ UNCHANGED <<conectado, rupturas, envio, criadas, orfas, linhas, descartes>>

(* The consumer. *)
Consome(e) == /\ conectado
              /\ fila[e] > 0
              /\ fila' = Menos(fila, e)
              /\ criando' = Mais(criando, e)
              /\ UNCHANGED <<conectado, rupturas, envio, criadas, orfas, linhas, descartes>>

(* DeadLetterService.create: the row commits before the handler resumes.   *)
Create(e) == /\ criando[e] > 0
             /\ linhas' = Mais(linhas, e)
             /\ criando' = Menos(criando, e)
             /\ criadas' = Mais(criadas, e)
             /\ UNCHANGED <<conectado, rupturas, envio, fila, orfas, descartes>>

(* Mutants: create is not awaited; a second ack of a delivery; the ack and *)
(* the nack of a handled delivery swapped, with requeue.                   *)
AckSemEsperar(e) == /\ criando[e] > 0
                    /\ criando' = Menos(criando, e)
                    /\ orfas' = Mais(orfas, e)
                    /\ UNCHANGED <<conectado, rupturas, envio, fila, criadas, linhas, descartes>>

AckRepetido(e) == /\ linhas[e] > 0
                  /\ criadas' = Menos(criadas, e)
                  /\ UNCHANGED <<conectado, rupturas, envio, fila, criando, orfas, linhas, descartes>>

AckTrocado(e) == /\ criadas[e] > 0
                 /\ criadas' = Menos(criadas, e)
                 /\ fila' = Mais(fila, e)
                 /\ UNCHANGED <<conectado, rupturas, envio, criando, orfas, linhas, descartes>>

Ack(e) == /\ criadas[e] > 0
          /\ criadas' = Menos(criadas, e)
          /\ UNCHANGED <<conectado, rupturas, envio, fila, criando, orfas, linhas, descartes>>

(* nack(msg, false, false) does not requeue and the queue has no           *)
(* dead-letter exchange of its own.                                        *)
Nack(e) == /\ "banco" \in Falhas
           /\ criando[e] > 0
           /\ criando' = Menos(criando, e)
           /\ descartes' = Mais(descartes, e)
           /\ UNCHANGED <<conectado, rupturas, envio, fila, criadas, orfas, linhas>>

(* The handler of a delivery whose channel is gone still creates its row;  *)
(* its ack or nack raises on the closed channel and settles nothing.       *)
CreateOrfa(e) == /\ orfas[e] > 0
                 /\ orfas' = Menos(orfas, e)
                 /\ \/ linhas' = Mais(linhas, e)
                    \/ "banco" \in Falhas /\ UNCHANGED linhas
                 /\ UNCHANGED <<conectado, rupturas, envio, fila, criando, criadas, descartes>>

-----------------------------------------------------------------------------
(* The connection drops: the broker requeues what was not acknowledged and *)
(* the manager will write again what was not confirmed.                    *)
Rompe(bufferSobrevive, handlersSobrevivem) ==
  /\ conectado
  /\ rupturas < MaxRupturas
  /\ conectado' = FALSE
  /\ rupturas' = rupturas + 1
  /\ fila' = [e \in Envelopes |-> fila[e] + criando[e] + criadas[e]]
  /\ orfas' = IF handlersSobrevivem THEN [e \in Envelopes |-> orfas[e] + criando[e]] ELSE Zero
  /\ envio' = [e \in Envelopes |->
                 IF envio[e] \in {"buffer", "escrito"}
                 THEN IF bufferSobrevive THEN "buffer" ELSE "perdido"
                 ELSE envio[e]]
  /\ criando' = Zero
  /\ criadas' = Zero
  /\ UNCHANGED <<linhas, descartes>>

Desconecta == Rompe(TRUE, TRUE)

(* The process dies and starts again: its buffer and handlers are gone.    *)
Queda == "queda" \in Falhas /\ Rompe(FALSE, FALSE)

(* The queue is durable but its messages are not persistent: those that    *)
(* wait or are being handled are gone, and what the publisher still has to *)
(* see confirmed is written again.                                         *)
DepoisDoReinicio(e) ==
  CASE envio[e] = "escrito" -> "buffer"
    [] envio[e] = "confirmado" /\ linhas[e] + descartes[e] = 0 -> "perdido"
    [] OTHER -> envio[e]

ReiniciaBroker == /\ "broker" \in Falhas
                  /\ conectado
                  /\ rupturas < MaxRupturas
                  /\ conectado' = FALSE
                  /\ rupturas' = rupturas + 1
                  /\ fila' = Zero
                  /\ orfas' = [e \in Envelopes |-> orfas[e] + criando[e]]
                  /\ envio' = [e \in Envelopes |-> DepoisDoReinicio(e)]
                  /\ criando' = Zero
                  /\ criadas' = Zero
                  /\ UNCHANGED <<linhas, descartes>>

(* The setup functions run again on the new channel, the consumer's too.   *)
Conecta == /\ ~conectado
           /\ conectado' = TRUE
           /\ UNCHANGED <<rupturas, envio, copias>>

Handler(e) == Create(e) \/ Nack(e)

Next == \/ \E e \in Envelopes : \/ SendToQueue(e) \/ Escreve(e) \/ Confirma(e)
                                \/ Consome(e) \/ Handler(e) \/ Ack(e) \/ CreateOrfa(e)
        \/ Desconecta
        \/ Queda
        \/ ReiniciaBroker
        \/ Conecta

Spec == Init /\ [][Next]_vars

(* The manager reconnects, writes its buffer and consumes for as long as   *)
(* it runs; a create ends, well or badly.                                  *)
SpecJusta ==
  /\ Spec
  /\ WF_vars(Conecta)
  /\ \A e \in Envelopes : /\ WF_vars(Escreve(e))
                          /\ WF_vars(Consome(e))
                          /\ WF_vars(Handler(e))
                          /\ WF_vars(CreateOrfa(e))

-----------------------------------------------------------------------------
TypeOK == /\ conectado \in BOOLEAN
          /\ rupturas \in 0 .. MaxRupturas
          /\ envio \in [Envelopes -> Envios]
          /\ fila \in [Envelopes -> Nat]
          /\ criando \in [Envelopes -> Nat]
          /\ criadas \in [Envelopes -> Nat]
          /\ orfas \in [Envelopes -> Nat]
          /\ linhas \in [Envelopes -> Nat]
          /\ descartes \in [Envelopes -> Nat]

NoBroker(e) == envio[e] \in {"escrito", "confirmado"}

(* An envelope the broker has taken and not lost in a restart is never in  *)
(* no place at all: it waits in the queue, is being handled, is in the     *)
(* table, or was nacked.  Losing the channel or the process between the    *)
(* row and the ack moves it back, never out.                               *)
NadaEvapora ==
  \A e \in Envelopes : NoBroker(e) => fila[e] + criando[e] + linhas[e] + descartes[e] > 0

(* One envelope gives one row, and not several, for as long as the         *)
(* connection holds: only a redelivery or a repeated write can multiply    *)
(* it.                                                                     *)
UmaLinhaPorEnvelope ==
  rupturas = 0 =>
     \A e \in Envelopes :
        fila[e] + criando[e] + linhas[e] + descartes[e] = (IF NoBroker(e) THEN 1 ELSE 0)

(* Handlers outlive a channel only after one was lost: with it the three   *)
(* invariants above are inductive.                                         *)
Indutivo == /\ TypeOK
            /\ NadaEvapora
            /\ UmaLinhaPorEnvelope
            /\ rupturas = 0 => orfas = Zero

(* NFR-1 of docs/specs/2026-06-02-fila-mensagens-mortas.md: a persistence  *)
(* failure does not lose the message.                                      *)
FalhaDeBancoNaoPerde ==
  \A e \in Envelopes : NoBroker(e) => fila[e] + criando[e] + linhas[e] > 0

(* However the connection comes and goes, every envelope given to          *)
(* sendToQueue ends in the table or is nacked, unless the process died     *)
(* with it in its buffer or the broker with it in its queue.               *)
TodaCartaRegistrada ==
  \A e \in Envelopes : envio[e] # "nenhum" ~> linhas[e] + descartes[e] > 0 \/ envio[e] = "perdido"
=============================================================================
