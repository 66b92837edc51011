-------------------------------- MODULE Canais --------------------------------
(***************************************************************************)
(* The inboxes and what reads them besides the dispatch, with the uploads  *)
(* of media, in one process: registrations and edits of inboxes run among  *)
(* the webhooks of Instagram and the copies to redirects, which resolve a  *)
(* pid by the same table.  A scenario says which calls a behaviour makes.  *)
(***************************************************************************)
EXTENDS Integers, FiniteSets

CONSTANTS Pids, Ambientes, Ids, Nenhuma, Chamadas, Operacoes,
          Eventos,
          MaxRetries,      \* DISPATCH_MAX_RETRIES, of the events of Instagram
          Envios, Reds, Global, Gestores,
          RetriesDaCopia,  \* MAX_RETRIES of a copy to a redirect
          Jobs, Pedidos, Bracos, TentativasDeCallback, MaxRupturas,
          Cenarios,    \* which calls a behaviour may make, see Cenario
          Falhas       \* "banco", "redis", "broker", "queda"

VARIABLES cenario, inboxes,
          ativos, op, passo, achada, responde, mexeram,
          pidDe, ev, achados, restam, atual, tent, letra, desfechos,
          reds, gere, alvo, payload, fase, faltam, copias, tentou, entregues, sempre, vistos,
          pedido, etapa, arquivo, velhos, fila, exec, rupturas, feito

Cenario == [chamadas : SUBSET Chamadas, apagam : SUBSET Ambientes,
            eventos : SUBSET Eventos, envios : SUBSET Envios,
            gestores : SUBSET Gestores, jobs : SUBSET Jobs, caem : BOOLEAN]

ASSUME CenariosAssumption == Cenarios \subseteq Cenario

K == INSTANCE Cadastro
I == INSTANCE Instagram
R == INSTANCE Redirecionamentos WITH MaxRetries <- RetriesDaCopia
M == INSTANCE Midia

ASSUME ConstantesAssumption ==
  /\ Nenhuma \notin Ids /\ Nenhuma \notin Pids /\ Nenhuma \notin K!Linha
  /\ Global \notin Ambientes
  /\ Operacoes \subseteq K!Operacao
  /\ Pedidos \subseteq M!Pedido
  /\ MaxRetries \in Nat /\ RetriesDaCopia \in Nat \ {0} /\ TentativasDeCallback \in Nat \ {0}
  /\ IsFiniteSet(Bracos)

cadastro == <<ativos, op, passo, achada, responde, mexeram>>
evento == <<pidDe, ev, achados, restam, atual, tent, letra, desfechos>>
envio == <<reds, gere, alvo, payload, fase, faltam, copias, tentou, entregues>>
midia == <<pedido, etapa, arquivo, velhos, fila, exec, rupturas, feito>>
vars == <<cenario, inboxes, cadastro, evento, envio, sempre, vistos, midia>>

(* The inputs S of some calls; those of the calls that a behaviour does    *)
(* not make are never read, and are the same.                              *)
Entradas(calls, usadas, S) ==
  {f \in [calls -> S] : \A x \in calls \ usadas : f[x] = CHOOSE y \in S : TRUE}

Init == /\ cenario \in Cenarios
        /\ op \in Entradas(Chamadas, cenario.chamadas, Operacoes)
        /\ pidDe \in Entradas(Eventos, cenario.eventos, Pids \cup {Nenhuma})
        /\ payload \in Entradas(Envios, cenario.envios, Pids \cup {Nenhuma})
        /\ alvo \in Entradas(Gestores, cenario.gestores, Reds)
        /\ pedido \in Entradas(Jobs, cenario.jobs, Pedidos)
        /\ inboxes \in IF cenario.jobs # {} THEN {[i \in Ids |-> Nenhuma]}
                      ELSE [Ids -> K!Linha \cup {Nenhuma}]
        /\ reds \in IF cenario.envios = {} THEN {[r \in Reds |-> Nenhuma]}
                   ELSE [Reds -> R!Red \cup {Nenhuma}]
        /\ K!Init /\ I!Init /\ R!Init /\ M!Init

-----------------------------------------------------------------------------
Cadastra == /\ \/ \E c \in cenario.chamadas : K!Chamada(c)
               \/ \E a \in cenario.apagam : K!ApagaAmbiente(a)
            /\ UNCHANGED <<evento, envio, midia>>

Encaminha == /\ \E e \in cenario.eventos : I!Evento(e)
             /\ UNCHANGED <<inboxes, cadastro, envio, midia>>

Redireciona == /\ \/ \E d \in cenario.envios : R!Envio(d)
                  \/ \E g \in cenario.gestores : R!Gestor(g)
                  \/ cenario.gestores # {} /\ \E r \in Reds : R!Vence(r)
               /\ UNCHANGED <<cadastro, evento, midia>>

Trata(j) == \E b \in Bracos : M!HandleJob(j, b)

Publica == /\ \/ \E j \in cenario.jobs : M!Upload(j) \/ M!Consome(j) \/ Trata(j) \/ M!Tempo(j)
              \/ cenario.jobs # {} /\ (M!Rompe \/ M!ReiniciaBroker)
           /\ UNCHANGED <<inboxes, cadastro, evento, envio>>

(* The process dies, and all its calls with it. *)
Queda == /\ cenario.caem
         /\ K!Queda /\ I!Queda /\ R!Queda /\ M!Queda

Next == /\ Cadastra \/ Encaminha \/ Redireciona \/ Publica \/ Queda
        /\ R!Observa
        /\ UNCHANGED cenario

Spec == Init /\ [][Next]_vars

So(doUpload) == /\ doUpload
                /\ UNCHANGED <<cenario, inboxes, cadastro, evento, envio>>
                /\ R!Observa

(* Time passes and the cron runs; nothing else is needed. *)
SpecJusta == /\ Spec
             /\ \A j \in Jobs : WF_vars(So(M!Envelhece(j))) /\ WF_vars(So(M!LimpaVelho(j)))

-----------------------------------------------------------------------------
(* A create that was answered has its pair in the table, unless another    *)
(* call took it away, and fails on the unique index only if another took   *)
(* the pair while it ran.                                                  *)
CadastroCumpre == K!CadastroCumpre

(* However the queries of registrations, edits and deletions interleave,   *)
(* and wherever the process dies between them, what the readers of the     *)
(* table see is an edit of one row after the other: none ever gets another *)
(* pid or goes away, and no pair of pid and ambiente is ever in two rows.  *)
Edita(i) == /\ \A j \in Ids \ {i} : inboxes'[j] = inboxes[j]
            /\ inboxes'[i] \in K!Linha
            /\ inboxes[i] # Nenhuma => inboxes'[i].pid = inboxes[i].pid
            /\ K!ParUnico'
SoEdita == [][\E i \in Ids : Edita(i)]_inboxes

(* An Instagram event answered 200 has one outcome for each inbox it       *)
(* resolved to, and one of its own if it resolved to none, until a crash;  *)
(* it is silence only where no attempt is configured.                      *)
InstagramNaoPerde == I!InstagramNaoPerde

(* A webhook is copied to the redirects due while it read them, all of     *)
(* them and no others, each until it is answered or the attempts are over. *)
RedirecionaExato == R!RedirecionaExato

(* An upload that was accepted reached its caller or left a trace, but for *)
(* the named losses, and no file stays on the disk for good.               *)
JobDeixaRastro == M!JobDeixaRastro
ArquivoSome == M!ArquivoSome
=============================================================================
