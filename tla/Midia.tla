-------------------------------- MODULE Midia --------------------------------
(***************************************************************************)
(* Uploads of media.  The controllers write the body to a file, publish a  *)
(* job and answer 202; the consumer, which has no prefetch, sends the file *)
(* to Meta, deletes it and tells the caller by a callback, if the caller   *)
(* asked for one.  A cron deletes the files older than an hour.            *)
(***************************************************************************)
EXTENDS Naturals, FiniteSets

CONSTANTS Jobs,
          Bracos,          \* bound: handlers that run at once for a job
          TentativasDeCallback,  \* 6 in the code
          MaxRupturas,     \* bound: losses of the connection, of the process or the broker
          Falhas           \* faults of this instance: "banco", "queda", "broker"

VARIABLES pedido,      \* per job: what the caller sent
          etapa,       \* per job: where its request is
          arquivo,     \* jobs whose file is in /tmp/wpp-uploads
          velhos,      \* those whose file is more than an hour old
          fila,        \* per job: copies ready in media.upload
          exec,        \* per job: its handlers
          rupturas,    \* losses so far
          feito        \* history, per job: what became of it

vars == <<pedido, etapa, arquivo, velhos, fila, exec, rupturas, feito>>

Pedido == [tipo : {"media", "binario"}, valido : BOOLEAN, callback : BOOLEAN]

(* A request goes from "livre" through "corpo", "publica" and "escrito" to  *)
(* "aceito", a 202, or ends in "recusado" (an error before there is a      *)
(* file), "erro" (one after it), "perdido" or "pendurado": the body of a   *)
(* multipart upload broke off, and nothing answers it any more.  A handler *)
(* goes from "livre" through "abre", "meta", "registra", "limpa", "segue"  *)
(* and "callback" back to "livre".                                         *)
(* What became of a job: "sucesso", Meta took the file; "rastro", the      *)
(* callback was answered 2xx or an error has its row; "perda", a cause why *)
(* there may be neither: its row or its message was lost, the cron took    *)
(* its file, or a crash came between deleting the file and the callback.   *)

(* A handler: presa, its delivery is unsettled on a channel that is still  *)
(* open; res, how the forward ended; tent, failed attempts of the callback.*)
Parado == [em |-> "livre", presa |-> FALSE, res |-> "nenhuma", tent |-> 0]

Init == /\ pedido \in [Jobs -> Pedido]
        /\ etapa = [j \in Jobs |-> "livre"]
        /\ arquivo = {} /\ velhos = {}
        /\ fila = [j \in Jobs |-> 0]
        /\ exec = [j \in Jobs |-> [b \in Bracos |-> Parado]]
        /\ rupturas = 0
        /\ feito = [j \in Jobs |-> {}]

-----------------------------------------------------------------------------
Vai(j, e) == etapa' = [etapa EXCEPT ![j] = e]
Anota(j, f) == feito' = [feito EXCEPT ![j] = @ \cup {f}]

(* Before there is a file uploadBinary resolves the id of the session, a   *)
(* 400 if it cannot, and uploadMedia hands the headers to busboy, which    *)
(* throws, a 500, if they announce no multipart body.                      *)
Recebe(j) == /\ etapa[j] = "livre"
             /\ IF pedido[j].valido THEN Vai(j, "corpo") /\ arquivo' = arquivo \cup {j}
                                    ELSE Vai(j, "recusado") /\ UNCHANGED arquivo
             /\ UNCHANGED <<pedido, velhos, fila, exec, rupturas, feito>>

CorpoFim(j) == /\ etapa[j] = "corpo"
               /\ Vai(j, "publica")
               /\ UNCHANGED <<pedido, arquivo, velhos, fila, exec, rupturas, feito>>

(* The body or the disk fails; a multipart body may also just stop.        *)
CorpoFalha(j) == /\ etapa[j] = "corpo"
                 /\ \/ Vai(j, "erro")
                    \/ pedido[j].tipo = "media" /\ Vai(j, "pendurado")
                 /\ UNCHANGED <<pedido, arquivo, velhos, fila, exec, rupturas, feito>>

(* publish: the manager writes the job, and the broker confirms it. *)
Escreve(j) == /\ etapa[j] = "publica"
              /\ Vai(j, "escrito")
              /\ fila' = [fila EXCEPT ![j] = @ + 1]
              /\ UNCHANGED <<pedido, arquivo, velhos, exec, rupturas, feito>>

Confirma(j) == /\ etapa[j] = "escrito"
               /\ Vai(j, "aceito")
               /\ UNCHANGED <<pedido, arquivo, velhos, fila, exec, rupturas, feito>>

(* The publication is refused: 500, and the file stays. *)
PublicaFalha(j) == /\ etapa[j] \in {"publica", "escrito"} /\ "broker" \in Falhas
                   /\ Vai(j, "erro")
                   /\ UNCHANGED <<pedido, arquivo, velhos, fila, exec, rupturas, feito>>

-----------------------------------------------------------------------------
(* A handler b of the job j. *)
Move(j, b, e) == exec' = [exec EXCEPT ![j][b] = e]
Em(j, b, lugar) == exec[j][b].em = lugar
Passa(j, b, lugar) == Move(j, b, [exec[j][b] EXCEPT !.em = lugar])
Meio(j, b, lugar, r) == Move(j, b, [exec[j][b] EXCEPT !.em = lugar, !.res = r])

Consome(j) ==
  /\ fila[j] > 0
  /\ fila' = [fila EXCEPT ![j] = @ - 1]
  /\ \E b \in Bracos : /\ Em(j, b, "livre")
                       /\ \A c \in Bracos : c < b => ~Em(j, c, "livre")
                       /\ Move(j, b, [Parado EXCEPT !.em = "abre", !.presa = TRUE])
  /\ UNCHANGED <<pedido, etapa, arquivo, velhos, rupturas, feito>>

(* readFile, before the try of the forward. *)
Abre(j, b) == /\ Em(j, b, "abre")
              /\ IF j \in arquivo THEN Passa(j, b, "meta") ELSE Meio(j, b, "limpa", "semArquivo")
              /\ UNCHANGED <<pedido, etapa, arquivo, velhos, fila, rupturas, feito>>

(* Mutant: an error of the transport is only thrown. *)
MetaSemRegistro(j, b) ==
  /\ Em(j, b, "meta")
  /\ \/ Meio(j, b, "limpa", "ok") /\ Anota(j, "sucesso")
     \/ Meio(j, b, "registra", "recusa") /\ UNCHANGED feito
     \/ Meio(j, b, "limpa", "transporte") /\ UNCHANGED feito
  /\ UNCHANGED <<pedido, etapa, arquivo, velhos, fila, rupturas>>

(* Meta takes the file, or its error or that of the transport is persisted *)
(* before anything else.                                                   *)
Meta(j, b) ==
  /\ Em(j, b, "meta")
  /\ \/ Meio(j, b, "limpa", "ok") /\ Anota(j, "sucesso")
     \/ \E r \in {"recusa", "transporte"} : Meio(j, b, "registra", r) /\ UNCHANGED feito
  /\ UNCHANGED <<pedido, etapa, arquivo, velhos, fila, rupturas>>

(* persistirErro never throws. *)
Persiste(j) == Anota(j, "rastro") \/ ("banco" \in Falhas /\ Anota(j, "perda"))

Registra(j, b) == /\ Em(j, b, "registra")
                  /\ Persiste(j)
                  /\ Passa(j, b, "limpa")
                  /\ UNCHANGED <<pedido, etapa, arquivo, velhos, fila, rupturas>>

(* The finally of handleJob. *)
Unlink(j, b) == /\ Em(j, b, "limpa")
                /\ arquivo' = arquivo \ {j}
                /\ velhos' = velhos \ {j}
                /\ Passa(j, b, "segue")
                /\ UNCHANGED <<pedido, etapa, fila, rupturas, feito>>

(* What was thrown becomes a nack without requeue, and the letter it turns *)
(* into, which has no message, is refused by the consumer of dead letters: *)
(* nothing is left of it.  Without a callback the job is acked.            *)
Segue(j, b) ==
  /\ Em(j, b, "segue")
  /\ IF exec[j][b].res \in {"transporte", "semArquivo"} \/ ~pedido[j].callback
     THEN Move(j, b, Parado)
     ELSE Passa(j, b, "callback")
  /\ UNCHANGED <<pedido, etapa, arquivo, velhos, fila, rupturas, feito>>

(* fireWebhookWithRetry, and the ack. *)
FireWebhook(j, b) ==
  /\ Em(j, b, "callback")
  /\ \/ Anota(j, "rastro") /\ Move(j, b, Parado)
     \/ /\ IF exec[j][b].tent + 1 < TentativasDeCallback
           THEN Move(j, b, [exec[j][b] EXCEPT !.tent = @ + 1])
           ELSE Passa(j, b, "registraCallback")
        /\ UNCHANGED feito
  /\ UNCHANGED <<pedido, etapa, arquivo, velhos, fila, rupturas>>

RegistraCallback(j, b) == /\ Em(j, b, "registraCallback")
                          /\ Persiste(j)
                          /\ Move(j, b, Parado)
                          /\ UNCHANGED <<pedido, etapa, arquivo, velhos, fila, rupturas>>

-----------------------------------------------------------------------------
Presas(j) == Cardinality({b \in Bracos : exec[j][b].presa})
Soltas(j) == [b \in Bracos |-> [exec[j][b] EXCEPT !.presa = FALSE]]
Perde == rupturas < MaxRupturas /\ rupturas' = rupturas + 1

(* The connection breaks and is made again: the broker requeues what is    *)
(* unsettled, the handlers go on as orphans, whose ack settles nothing,    *)
(* and the manager writes again what was not confirmed.                    *)
Rompe == /\ Perde
         /\ fila' = [j \in Jobs |-> fila[j] + Presas(j)]
         /\ exec' = [j \in Jobs |-> Soltas(j)]
         /\ etapa' = [j \in Jobs |-> IF etapa[j] = "escrito" THEN "publica" ELSE etapa[j]]
         /\ UNCHANGED <<pedido, arquivo, velhos, feito>>

(* The queue is durable, its messages are not. *)
ReiniciaBroker ==
  /\ "broker" \in Falhas /\ Perde
  /\ feito' = [j \in Jobs |-> IF fila[j] + Presas(j) = 0 THEN feito[j]
                              ELSE feito[j] \cup {"perda"}]
  /\ fila' = [j \in Jobs |-> 0]
  /\ exec' = [j \in Jobs |-> Soltas(j)]
  /\ etapa' = [j \in Jobs |-> IF etapa[j] = "escrito" THEN "publica" ELSE etapa[j]]
  /\ UNCHANGED <<pedido, arquivo, velhos>>

Apagou(j, b) == exec[j][b].em \in {"segue", "callback", "registraCallback"}

Queda == /\ "queda" \in Falhas /\ Perde
         /\ fila' = [j \in Jobs |-> fila[j] + Presas(j)]
         /\ exec' = [j \in Jobs |-> [b \in Bracos |-> Parado]]
         /\ feito' = [j \in Jobs |-> IF \E b \in Bracos : Apagou(j, b)
                                     THEN feito[j] \cup {"perda"} ELSE feito[j]]
         /\ etapa' = [j \in Jobs |-> IF etapa[j] \in {"corpo", "pendurado", "publica", "escrito"}
                                     THEN "perdido" ELSE etapa[j]]
         /\ UNCHANGED <<pedido, arquivo, velhos>>

-----------------------------------------------------------------------------
(* An hour passes over a file that is no longer being written. *)
Envelhece(j) == /\ j \in arquivo \ velhos /\ etapa[j] # "corpo"
                /\ velhos' = velhos \cup {j}
                /\ UNCHANGED <<pedido, etapa, arquivo, fila, exec, rupturas, feito>>

(* Mutant: the cron knows the files of accepted jobs only. *)
LimpaVelhoAceito(j) == /\ j \in velhos /\ etapa[j] = "aceito"
                       /\ arquivo' = arquivo \ {j}
                       /\ velhos' = velhos \ {j}
                       /\ Anota(j, "perda")
                       /\ UNCHANGED <<pedido, etapa, fila, exec, rupturas>>

(* WppMediaCleanupService.cleanup, whatever the job is at. *)
LimpaVelho(j) == /\ j \in velhos
                 /\ arquivo' = arquivo \ {j}
                 /\ velhos' = velhos \ {j}
                 /\ Anota(j, "perda")
                 /\ UNCHANGED <<pedido, etapa, fila, exec, rupturas>>

Upload(j) == \/ Recebe(j) \/ CorpoFim(j) \/ CorpoFalha(j) \/ Escreve(j) \/ Confirma(j)
             \/ PublicaFalha(j)

HandleJob(j, b) == \/ Abre(j, b) \/ Meta(j, b) \/ Registra(j, b) \/ Unlink(j, b) \/ Segue(j, b)
                   \/ FireWebhook(j, b) \/ RegistraCallback(j, b)

Tempo(j) == Envelhece(j) \/ LimpaVelho(j)

-----------------------------------------------------------------------------
(* A job answered 202 that is neither queued nor being handled reached its *)
(* caller, or left a row, or succeeded for a caller that did not want to   *)
(* know, unless the row or the message was lost, the cron took its file or *)
(* a crash came between the deletion of the file and the callback.         *)
JobDeixaRastro ==
  \A j \in Jobs :
     (/\ etapa[j] = "aceito" /\ fila[j] = 0
      /\ \A b \in Bracos : Em(j, b, "livre")) =>
        \/ feito[j] \cap {"rastro", "perda"} # {}
        \/ "sucesso" \in feito[j] /\ ~pedido[j].callback

(* No path of a request or of its job leaves its file on the disk for good. *)
ArquivoSome == \A j \in Jobs : <>[](j \notin arquivo \/ etapa[j] = "corpo")

-----------------------------------------------------------------------------
(* The inductive invariant.  A handler that is past its forward has left   *)
(* what its way of ending leaves; one that found no file came after one    *)
(* that deleted it and has yet to settle the job, unless the job is        *)
(* settled; and a job written is queued, held unsettled by a handler that  *)
(* may yet be requeued, settled soon by one that deleted its file, or      *)
(* settled.                                                                *)
Braco == [em : {"livre", "abre", "meta", "registra", "limpa", "segue", "callback",
                "registraCallback"},
          presa : BOOLEAN, res : {"nenhuma", "ok", "recusa", "transporte", "semArquivo"},
          tent : Nat]

TypeOK == /\ etapa \in [Jobs -> {"livre", "corpo", "publica", "escrito", "aceito",
                                 "recusado", "erro", "perdido", "pendurado"}]
          /\ fila \in [Jobs -> Nat]
          /\ exec \in [Jobs -> [Bracos -> Braco]]
          /\ feito = [j \in Jobs |-> feito[j]]

Resolvido(j) == \/ feito[j] \cap {"rastro", "perda"} # {}
                \/ "sucesso" \in feito[j] /\ ~pedido[j].callback
Pendente(j) == \E b \in Bracos : Apagou(j, b) /\ exec[j][b].res # "semArquivo"

Cumpre(j, b) ==
  LET h == exec[j][b]
  IN /\ h.em = "livre" => ~h.presa
     /\ h.em = "registra" => h.res \in {"recusa", "transporte"}
     /\ h.em \in {"limpa", "segue", "callback", "registraCallback"} =>
          /\ h.res # "nenhuma"
          /\ h.res = "ok" => "sucesso" \in feito[j]
          /\ h.res \in {"recusa", "transporte"} => feito[j] \cap {"rastro", "perda"} # {}
          /\ h.res = "semArquivo" => h.em \in {"limpa", "segue"} /\ j \notin arquivo

Acompanha(j) ==
  /\ etapa[j] \in {"livre", "recusado"} => fila[j] = 0 /\ \A b \in Bracos : Em(j, b, "livre")
  /\ etapa[j] \notin {"livre", "recusado"} /\ j \notin arquivo => Pendente(j) \/ Resolvido(j)
  /\ etapa[j] \in {"escrito", "aceito"} =>
       \/ fila[j] > 0 \/ (\E b \in Bracos : exec[j][b].presa)
       \/ Pendente(j) \/ Resolvido(j)

Indutivo == TypeOK /\ \A j \in Jobs : Acompanha(j) /\ \A b \in Bracos : Cumpre(j, b)
=============================================================================
