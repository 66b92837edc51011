-------------------------------- MODULE Rotas --------------------------------
(***************************************************************************)
(* The routes below /wpp: what each request carries, which handler of the  *)
(* process receives it, whether the pipes admit its body, and what the     *)
(* handler passes on to Meta.  Express gives a request to the first route  *)
(* registered whose method and path match, so a route may never be reached *)
(* by the very requests it was written for.                                *)
(***************************************************************************)
EXTENDS Naturals, Sequences

(* What the body of a request is made of, besides its fields by name: the  *)
(* query string and the file of a form.                                    *)
Partes == {"query", "arquivo"}

(* A DTO under the global pipe (whitelist and forbidNonWhitelisted): the   *)
(* fields it requires and those it has validation metadata for.  A body    *)
(* typed Record<...> is not validated.                                     *)
Dto(exige, opcionais) == [valida |-> TRUE, exige |-> exige, aceita |-> exige \cup opcionais]
SemDto == [valida |-> FALSE, exige |-> {}, aceita |-> {}]

SendMessageDto ==
  Dto({"messaging_product"},
      {"recipient_type", "to", "type", "status", "message_id", "context", "text",
       "reaction", "image", "audio", "document", "sticker", "video", "contacts",
       "location", "template", "interactive", "typing_indicator"})
MarkAsReadDto == Dto({"messaging_product", "status", "message_id"}, {})
CreateTemplateDto == Dto({"name", "language", "category", "components"}, {"parameter_format"})
EditTemplateDto == Dto({}, {"name", "components", "language", "category", "parameter_format"})
RequestCodeDto == Dto({}, {"code_method", "locale"})
VerifyCodeDto == Dto({}, {"code"})
SetTwoStepPinDto == Dto({}, {"pin"})
RegisterPhoneDto == Dto({}, {"messaging_product", "pin"})
OverrideCallbackDto == Dto({}, {"override_callback_uri", "verify_token"})
UpdateBusinessProfileDto ==
  Dto({"messaging_product"},
      {"about", "address", "description", "email", "websites", "vertical",
       "profile_picture_handle"})
CreateOrUpdateQrCodeDto == Dto({}, {"prefilled_message", "generate_qr_image", "code"})
FlowEndpointRequestDto ==
  Dto({"encrypted_flow_data", "encrypted_aes_key", "initial_vector"}, {})

(* Declared without a single validation decorator. *)
BlockUsersDto == Dto({}, {})
BusinessComplianceDto == Dto({}, {})

-----------------------------------------------------------------------------
(* A route: its path after /wpp ("*" is a parameter), the bodies it is     *)
(* documented to receive and whether as a form, the parts its handler      *)
(* reads and whether it parses forms, its DTO, its way of answering and    *)
(* the token it uses.                                                      *)
Rota(metodo, caminho, corpos, partes, dto) ==
  [metodo |-> metodo, caminho |-> caminho, corpos |-> corpos, le |-> partes, dto |-> dto,
   form |-> FALSE, acao |-> "repassa", app |-> FALSE]

Simples(metodo, caminho) == Rota(metodo, caminho, {{}}, {}, SemDto)
Consulta(metodo, caminho) == Rota(metodo, caminho, {{"query"}}, {"query"}, SemDto)
Corpo(metodo, caminho, corpos, dto) == Rota(metodo, caminho, corpos, {"corpo"}, dto)
Formulario(caminho, campos) ==
  [Rota("POST", caminho, {campos}, {"corpo"}, SemDto) EXCEPT !.form = TRUE]

ComUid(r) == [r EXCEPT !.caminho = <<"*">> \o @, !.acao = "uid"]
ComAppToken(r) == [r EXCEPT !.app = TRUE]
Acao(r, a) == [r EXCEPT !.acao = a]

WppController == <<Consulta("GET", <<"debug_token">>)>>

EnviaMensagem ==
  Acao(Corpo("POST", <<"*", "messages">>,
             {{"messaging_product", "to", "type", "text"},
              {"messaging_product", "status", "message_id", "typing_indicator"}},
             SendMessageDto), "mensagem")
MarcaLida == Corpo("PUT", <<"*", "messages">>,
                   {{"messaging_product", "status", "message_id"}}, MarkAsReadDto)

LeTemplates == <<Consulta("GET", <<"*">>), Consulta("GET", <<"*", "message_templates">>)>>
CriaTemplates ==
  <<Corpo("POST", <<"*", "message_templates">>,
          {{"name", "language", "category", "components"}}, CreateTemplateDto),
    Consulta("POST", <<"*", "migrate_message_templates">>)>>
EditaTemplates ==
  <<Corpo("POST", <<"*">>, {{"components"}, {"category"}}, EditTemplateDto),
    Consulta("DELETE", <<"*", "message_templates">>)>>

WppGetStartedController == <<Consulta("GET", <<"debug_token">>)>>
LeNumeros == <<Consulta("GET", <<"*", "phone_numbers">>), Consulta("GET", <<"*">>)>>
VerificaNumero ==
  <<Corpo("POST", <<"*", "request_code">>, {{"code_method", "locale"}}, RequestCodeDto),
    Corpo("POST", <<"*", "verify_code">>, {{"code"}}, VerifyCodeDto),
    Corpo("POST", <<"*">>, {{"pin"}}, SetTwoStepPinDto)>>
WppRegistrationController ==
  <<Corpo("POST", <<"*", "register">>, {{"messaging_product", "pin"}}, RegisterPhoneDto),
    Simples("POST", <<"*", "deregister">>)>>
WppWabaController ==
  <<Consulta("GET", <<"*", "owned_whatsapp_business_accounts">>),
    Consulta("GET", <<"*", "client_whatsapp_business_accounts">>)>>
WppSubscriptionsController ==
  <<ComAppToken(Corpo("POST", <<"*", "subscribed_apps">>,
                      {{}, {"override_callback_uri", "verify_token"}}, OverrideCallbackDto)),
    ComAppToken(Consulta("GET", <<"*", "subscribed_apps">>)),
    ComAppToken(Simples("DELETE", <<"*", "subscribed_apps">>))>>

EnviaMidia == Acao([Formulario(<<"*", "media">>, {"arquivo", "messaging_product", "type"})
                      EXCEPT !.le = {"corpo", "arquivo"}], "fila")
WppMediaController == <<EnviaMidia, Consulta("GET", <<"*">>), Consulta("DELETE", <<"*">>)>>
CriaSessao == Consulta("POST", <<"app", "uploads">>)
EnviaBinario == Acao(Rota("POST", <<"uploads", "*">>, {{"arquivo", "query"}},
                          {"arquivo", "query"}, SemDto), "fila")
ConsultaSessao == Acao(Simples("GET", <<"uploads", "*">>), "semPrefixo")
WppBusinessProfileController ==
  <<Consulta("GET", <<"*", "whatsapp_business_profile">>),
    Corpo("POST", <<"*", "whatsapp_business_profile">>,
          {{"messaging_product", "about"}}, UpdateBusinessProfileDto)>>

CriaFlow == Formulario(<<"*", "flows">>, {"name", "categories"})
MigraFlows == Formulario(<<"*", "migrate_flows">>, {"source_waba_id", "source_flow_names"})
EditaFlow == Formulario(<<"*">>, {"name", "categories"})
EnviaAssets == Formulario(<<"*", "assets">>, {"arquivo", "name", "asset_type"})
FlowsCria == <<CriaFlow, ComUid(CriaFlow), MigraFlows, ComUid(MigraFlows),
               Simples("GET", <<"*", "flows">>)>>
FlowsCiclo ==
  <<EnviaAssets, Simples("POST", <<"*", "publish">>), Simples("POST", <<"*", "deprecate">>),
    Formulario(<<"*", "whatsapp_business_encryption">>, {"business_public_key"}),
    Corpo("POST", <<"*", "messages">>,
          {{"messaging_product", "to", "type", "interactive"}}, SemDto),
    Corpo("POST", <<"*", "message_templates">>,
          {{"name", "language", "category", "components"}}, SemDto)>>
FlowsEdita == <<EditaFlow, ComUid(EditaFlow)>>
FlowsLe ==
  <<Simples("GET", <<"*", "assets">>), Simples("GET", <<"*", "whatsapp_business_encryption">>),
    Consulta("GET", <<"*">>), Simples("DELETE", <<"*">>)>>
Endpoint == Acao(Corpo("POST", <<"flows", "endpoint", "*">>, {FlowEndpointRequestDto.exige},
                       FlowEndpointRequestDto), "endpoint")

WppQrcodeController ==
  <<Simples("GET", <<"*", "message_qrdls", "*">>), Consulta("GET", <<"*", "message_qrdls">>),
    Corpo("POST", <<"*", "message_qrdls">>,
          {{"prefilled_message", "generate_qr_image"}, {"prefilled_message", "code"}},
          CreateOrUpdateQrCodeDto),
    Simples("DELETE", <<"*", "message_qrdls", "*">>)>>
WppAnalyticsController == <<Consulta("GET", <<"*">>)>>
WppBillingController == <<Consulta("GET", <<"*", "extendedcredits">>)>>
WppCommerceController == <<Simples("GET", <<"*", "whatsapp_commerce_settings">>),
                           Consulta("POST", <<"*", "whatsapp_commerce_settings">>)>>
Bloqueio == {{"messaging_product", "block_users"}}
WppBlockUsersController ==
  <<Consulta("GET", <<"*", "block_users">>),
    Corpo("POST", <<"*", "block_users">>, Bloqueio, BlockUsersDto),
    Corpo("DELETE", <<"*", "block_users">>, Bloqueio, BlockUsersDto)>>
WppComplianceController ==
  <<Simples("GET", <<"*", "business_compliance_info">>),
    Corpo("POST", <<"*", "business_compliance_info">>,
          {{"messaging_product", "entity_name", "entity_type", "is_registered"}},
          BusinessComplianceDto)>>

(* In the order of registration: that of the imports of AppModule, and in  *)
(* a module that of its controllers.                                       *)
Tabela ==
  WppController \o <<EnviaMensagem, MarcaLida>> \o LeTemplates \o CriaTemplates
    \o EditaTemplates \o WppGetStartedController \o LeNumeros \o VerificaNumero
    \o WppRegistrationController \o WppWabaController \o WppSubscriptionsController
    \o WppMediaController \o <<CriaSessao, EnviaBinario, ConsultaSessao>>
    \o WppBusinessProfileController \o FlowsCria \o FlowsCiclo \o FlowsEdita \o FlowsLe
    \o <<Endpoint>> \o WppQrcodeController \o WppAnalyticsController \o WppBillingController
    \o WppCommerceController \o WppBlockUsersController \o WppComplianceController

-----------------------------------------------------------------------------
(* The path of a request for a route is that of the route: no id is one of the words.    *)
Casa(padrao, caminho) ==
  /\ Len(padrao) = Len(caminho)
  /\ \A k \in DOMAIN padrao : padrao[k] \in {"*", caminho[k]}

Candidatas(k) == {j \in DOMAIN Tabela : /\ Tabela[j].metodo = Tabela[k].metodo
                                        /\ Casa(Tabela[j].caminho, Tabela[k].caminho)}

(* Mutant: the last route registered wins, as the media spec has it. *)
UltimaRegistrada ==
  [k \in DOMAIN Tabela |-> CHOOSE j \in Candidatas(k) : \A i \in Candidatas(k) : i <= j]

(* The handler of a request for the route k. *)
Atende ==
  [k \in DOMAIN Tabela |-> CHOOSE j \in Candidatas(k) : \A i \in Candidatas(k) : j <= i]

(* What reaches a handler h of a request for r: without an interceptor a   *)
(* form is not parsed.                                                     *)
Recebe(h, r, c) == IF r.form /\ ~h.form THEN {} ELSE c

(* The pipes, then the checks of sendMessage on the fields of its two      *)
(* kinds of bodies.                                                        *)
Admite(h, c) ==
  LET campos == c \ Partes
  IN /\ h.dto.valida => h.dto.exige \subseteq campos /\ campos \subseteq h.dto.aceita
     /\ h.acao = "mensagem" => IF "status" \in campos THEN "message_id" \in campos
                                                      ELSE {"to", "type"} \subseteq campos

(* The parts and fields a handler passes on. *)
Leva(h, c) ==
  {x \in c : (IF x \in Partes THEN x ELSE "corpo") \in h.le}
     \cup (IF h.acao = "uid" THEN {"endpoint_uri"} ELSE {})

SubPath(h, caminho) == IF h.acao \in {"uid", "semPrefixo"} THEN Tail(caminho) ELSE caminho

(* The call to Meta that h makes for a request of r with this body, and    *)
(* the one the documents promise.                                          *)
Chamada(h, r, c) ==
  [metodo |-> r.metodo, caminho |-> SubPath(h, r.caminho),
   leva |-> Leva(h, Recebe(h, r, c)), app |-> h.app]

Prometida(r, c) ==
  [metodo |-> r.metodo, caminho |-> SubPath(r, r.caminho),
   leva |-> c \cup (IF r.acao = "uid" THEN {"endpoint_uri"} ELSE {}), app |-> r.app]

(* The requests that never reach Meta as documented: the PIN and the       *)
(* metadata of a flow go to the edition of templates; four POSTs to the    *)
(* edition of a flow by uid; the file of an asset is dropped by its own    *)
(* handler; two DTOs admit no body at all.                                 *)
Desviada(r) ==
  \/ r.metodo = "POST" /\ r.caminho = <<"*">> /\ r.dto # EditTemplateDto
  \/ /\ r.metodo = "POST"
     /\ r.caminho \in {<<"*", "message_qrdls">>, <<"*", "whatsapp_commerce_settings">>,
                       <<"*", "block_users">>, <<"*", "business_compliance_info">>}
  \/ r.metodo = "DELETE" /\ r.caminho = <<"*", "block_users">>
  \/ "arquivo" \in UNION r.corpos /\ r.acao # "fila"

(* What the table says of a request for the route k with the body c: one   *)
(* of the deviations is refused, or called otherwise than promised; all    *)
(* others are admitted, called as promised, and have the uid their handler *)
(* looks for.                                                              *)
Confere(k, c) ==
  LET r == Tabela[k]
      h == Tabela[Atende[k]]
      admitida == Admite(h, Recebe(h, r, c))
      comoPrometida == Chamada(h, r, c) = Prometida(r, c)
  IN IF Desviada(r) THEN admitida => h.acao # "fila" /\ ~comoPrometida
     ELSE /\ admitida /\ comoPrometida
          /\ h.acao \in {"uid", "endpoint"} => r.acao \in {"uid", "endpoint"}

TabelaConfere == \A k \in DOMAIN Tabela : \A c \in Tabela[k].corpos : Confere(k, c)
=============================================================================
