--------------------------- MODULE UpstreamRequestProofs ---------------------------
(***************************************************************************)
(* From input schema to request, for parameters, arguments and headers of  *)
(* any number.                                                             *)
(***************************************************************************)
EXTENDS UpstreamRequest, SequenceTheorems, TLAPS

Sent == {params[i] : i \in DOMAIN params}

ToolTyped ==
  /\ declared \in Seq(ParameterType)
  /\ next \in Nat \ {0}
  /\ required \in Seq(Names)
  /\ params \in Seq(DOMAIN declared)
  /\ DOMAIN properties \subseteq Names

(* What is sent is required if it has to be, and no cookie. *)
SentIsSendable ==
  \A p \in Sent : /\ declared[p].location # "cookie"
                  /\ declared[p].location = "path" => declared[p].name \in Required

(* What the schema describes is sent. *)
DescribedIsSent ==
  \A n \in DOMAIN properties :
    \/ properties[n] = 0 /\ n = body /\ has_body
    \/ properties[n] \in Sent /\ properties[n] # 0 /\ declared[properties[n]].name = n

ToolInv == check_header_sources(config) /\ ToolTyped /\ SentIsSendable /\ DescribedIsSent

CallInv == RequiredIsEnough /\ ArgumentsReachTheirPlace /\ ConfiguredHeadersAreSent

-----------------------------------------------------------------------------------

LEMMA RangeAppended ==
  ASSUME NEW S, NEW s \in Seq(S), NEW e \in S
  PROVE  /\ Append(s, e) \in Seq(S)
         /\ {Append(s, e)[i] : i \in DOMAIN Append(s, e)} = {s[i] : i \in DOMAIN s} \cup {e}
<1>1. Append(s, e) \in Seq(S) /\ Len(Append(s, e)) = Len(s) + 1
  OBVIOUS
<1>2. \A n \in 1..Len(s) : Append(s, e)[n] = s[n]
  OBVIOUS
<1>3. Append(s, e)[Len(s) + 1] = e
  OBVIOUS
<1>4. DOMAIN s = 1..Len(s) /\ DOMAIN Append(s, e) = 1..(Len(s) + 1) /\ Len(s) \in Nat
  OBVIOUS
<1> QED
  BY <1>1, <1>2, <1>3, <1>4

LEMMA Initially == Init => ToolInv /\ CallInv
<1> SUFFICES ASSUME Init PROVE ToolInv /\ CallInv
  OBVIOUS
<1>1. check_header_sources(config) /\ phase = "parameters" /\ next = 1
  BY DEF Init
<1>2. required = << >> /\ params = << >> /\ properties = << >> /\ DOMAIN << >> = {}
  BY DEF Init
<1>3. declared \in Seq(ParameterType)
  <2>1. PICK item, operation \in Levels : declared = item \o operation
    BY DEF Init
  <2>2. item \in Seq(ParameterType) /\ operation \in Seq(ParameterType)
    BY <2>1, RequestAssumption
  <2> QED
    BY <2>1, <2>2, ConcatProperties
<1>4. ToolTyped /\ SentIsSendable /\ DescribedIsSent
  BY <1>1, <1>2, <1>3 DEF ToolTyped, SentIsSendable, DescribedIsSent, Sent
<1> QED
  BY <1>1, <1>4
     DEF ToolInv, CallInv, RequiredIsEnough, ArgumentsReachTheirPlace, ConfiguredHeadersAreSent

LEMMA ParameterKeepsTool ==
  ASSUME ToolInv, push_param
  PROVE  ToolInv'
<1> DEFINE p == declared[next]
<1>0. ToolTyped /\ SentIsSendable /\ DescribedIsSent /\ check_header_sources(config)
  BY DEF ToolInv
<1>1. next \in DOMAIN declared /\ p \in ParameterType /\ p.name \in Names
  <2>1. next \in 1..Len(declared) /\ DOMAIN declared = 1..Len(declared)
    BY <1>0 DEF ToolTyped, push_param
  <2>2. p \in ParameterType
    BY <1>0, <2>1 DEF ToolTyped
  <2> QED
    BY <2>1, <2>2 DEF ParameterType
<1>2. UNCHANGED <<config, declared, has_body>> /\ next' = next + 1
  BY DEF push_param
<1>3. params' \in Seq(DOMAIN declared) /\ Sent' = Sent \cup {next}
  <2>1. params \in Seq(DOMAIN declared) /\ params' = Append(params, next)
    BY <1>0 DEF push_param, ToolTyped
  <2> QED
    BY <1>1, <2>1, RangeAppended DEF Sent
<1>4. /\ required' \in Seq(Names)
      /\ Required \subseteq Required'
      /\ p.location = "path" => p.name \in Required'
  <2>1. required \in Seq(Names)
    BY <1>0 DEF ToolTyped
  <2>2. CASE required' = required /\ p.location # "path"
    BY <2>1, <2>2 DEF Required
  <2>3. CASE required' = Append(required, p.name)
    BY <1>1, <2>1, <2>3, RangeAppended DEF Required
  <2> QED
    BY <2>2, <2>3 DEF push_param, Parameter
<1>5. /\ DOMAIN properties' = DOMAIN properties \cup {p.name}
      /\ properties'[p.name] = next
      /\ \A n \in DOMAIN properties \ {p.name} : properties'[n] = properties[n]
  BY DEF push_param, With, Parameter
<1>6. ToolTyped'
  BY <1>0, <1>1, <1>2, <1>3, <1>4, <1>5 DEF ToolTyped
<1>7. SentIsSendable'
  BY <1>0, <1>2, <1>3, <1>4 DEF SentIsSendable, push_param, Parameter
<1>8. DescribedIsSent'
  <2>1. next # 0
    BY <1>0 DEF ToolTyped
  <2> QED
    BY <1>0, <1>2, <1>3, <1>5, <2>1 DEF DescribedIsSent
<1> QED
  BY <1>0, <1>2, <1>6, <1>7, <1>8 DEF ToolInv, check_header_sources

LEMMA BodyKeepsTool ==
  ASSUME ToolInv, add_request_body
  PROVE  ToolInv'
<1>0. ToolTyped /\ SentIsSendable /\ DescribedIsSent /\ check_header_sources(config)
  BY DEF ToolInv
<1>1. UNCHANGED <<config, declared, next, params>> /\ Sent' = Sent
  BY DEF add_request_body, Sent
<1>2. CASE UNCHANGED <<properties, required, has_body>>
  BY <1>0, <1>1, <1>2
     DEF ToolInv, ToolTyped, SentIsSendable, DescribedIsSent, Required, check_header_sources
<1>3. ASSUME NEW is_required \in BOOLEAN,
             properties' = With(properties, body, 0),
             required' = IF is_required THEN Append(required, body) ELSE required,
             has_body' = TRUE
      PROVE  ToolInv'
  <2>1. body \in Names
    BY RequestAssumption
  <2>2. required' \in Seq(Names) /\ Required \subseteq Required'
    BY <1>0, <1>3, <2>1, RangeAppended DEF ToolTyped, Required
  <2>3. /\ DOMAIN properties' = DOMAIN properties \cup {body}
        /\ properties'[body] = 0
        /\ \A n \in DOMAIN properties \ {body} : properties'[n] = properties[n]
    BY <1>3 DEF With
  <2>4. ToolTyped'
    BY <1>0, <1>1, <2>1, <2>2, <2>3 DEF ToolTyped
  <2>5. SentIsSendable'
    BY <1>0, <1>1, <2>2 DEF SentIsSendable
  <2>6. DescribedIsSent'
    BY <1>0, <1>1, <1>3, <2>3 DEF DescribedIsSent
  <2> QED
    BY <1>0, <1>1, <2>4, <2>5, <2>6 DEF ToolInv, check_header_sources
<1> QED
  BY <1>2, <1>3 DEF add_request_body

LEMMA RestKeepsTool ==
  ASSUME ToolInv, UNCHANGED <<config, tool_vars>>, next' \in {next, next + 1}
  PROVE  ToolInv'
  BY DEF ToolInv, ToolTyped, SentIsSendable, DescribedIsSent, Sent, Required,
         check_header_sources, tool_vars

-----------------------------------------------------------------------------------

(* A call is refused over a path parameter, which its tool requires. *)
LEMMA RefusalIsFair ==
  ASSUME ToolInv, NEW given \in SUBSET Names, Refuse(given)
  PROVE  CallInv'
<1>1. PICK p \in At("path") : declared[p].name \notin given
  BY DEF Refuse
<1>2. p \in Sent /\ declared[p].location = "path"
  BY <1>1 DEF At, Sent
<1>3. declared[p].name \in Required
  BY <1>2 DEF ToolInv, SentIsSendable
<1>4. Required' = Required /\ args' = given /\ phase' = "refused"
  BY DEF Refuse, tool_vars, Required
<1> QED
  BY <1>1, <1>3, <1>4
     DEF CallInv, RequiredIsEnough, ArgumentsReachTheirPlace, ConfiguredHeadersAreSent

LEMMA SentArgumentsArrive ==
  ASSUME ToolInv, NEW given \in SUBSET Names, NEW forwarded \in SUBSET config.forward_headers,
         Send(given, forwarded)
  PROVE  ArgumentsReachTheirPlace'
<1> SUFFICES ASSUME NEW n \in DOMAIN properties \cap given, HasPlace(n)
             PROVE  \E part \in request' :
                      /\ part.name = n
                      /\ part.place = IF properties[n] = 0 THEN "body"
                                      ELSE declared[properties[n]].location
  BY DEF ArgumentsReachTheirPlace, HasPlace, Send, tool_vars
<1>1. CASE properties[n] = 0
  <2>1. n = body /\ has_body
    BY <1>1 DEF ToolInv, DescribedIsSent
  <2>2. [place |-> "body", name |-> body, source |-> <<"body", 0>>] \in request'
    BY <2>1 DEF Send, SentBody
  <2> QED
    BY <1>1, <2>1, <2>2
<1>2. CASE properties[n] # 0
  <2> DEFINE k == properties[n]
  <2>1. k \in Sent /\ declared[k].name = n /\ declared[k].location # "cookie"
    BY <1>2 DEF ToolInv, DescribedIsSent, SentIsSendable
  <2>2. declared[k].location \in Locations
    <3>1. Sent \subseteq DOMAIN declared
      BY DEF ToolInv, ToolTyped, Sent
    <3>2. declared[k] \in ParameterType
      BY <2>1, <3>1 DEF ToolInv, ToolTyped
    <3> QED
      BY <3>2 DEF ParameterType
  <2>3. k \in {q \in At(declared[k].location) : declared[q].name \in given}
    BY <2>1 DEF At, Sent
  <2>4. CASE declared[k].location = "path"
    <3>0. n \in path_template
      BY <1>2, <2>4 DEF HasPlace
    <3>1. [place |-> "path", name |-> declared[k].name, source |-> <<"path", 0>>] \in request'
      BY <2>1, <2>3, <2>4, <3>0 DEF Send, SentPath
    <3> QED
      BY <1>2, <2>1, <2>4, <3>1
  <2>5. CASE declared[k].location = "query"
    <3>1. [place |-> "query", name |-> declared[k].name, source |-> <<"parameter", k>>] \in request'
      BY <2>3, <2>5 DEF Send, From
    <3> QED
      BY <1>2, <2>1, <2>5, <3>1
  <2>6. CASE declared[k].location = "header"
    <3>1. CASE n \in config.extra_headers
      <4>1. [place |-> "header", name |-> n, source |-> <<"static", 0>>] \in request'
        BY <3>1 DEF Send, SentHeaders, Headers
      <4> QED
        BY <1>2, <2>6, <4>1
    <3>2. CASE n \notin config.extra_headers
      <4> DEFINE part == [place |-> "header", name |-> declared[k].name,
                          source |-> <<"parameter", k>>]
      <4>1. part \in From("header", given) /\ part.name = n
        BY <2>1, <2>3, <2>6 DEF From
      <4>2. part \in request'
        BY <3>2, <4>1 DEF Send, SentHeaders
      <4> QED
        BY <1>2, <2>6, <4>1, <4>2
    <3> QED
      BY <3>1, <3>2
  <2> QED
    BY <2>1, <2>2, <2>4, <2>5, <2>6 DEF Locations
<1> QED
  BY <1>1, <1>2

LEMMA SentHeadersAreTheConfigured ==
  ASSUME ToolInv, NEW given \in SUBSET Names, NEW forwarded \in SUBSET config.forward_headers,
         Send(given, forwarded)
  PROVE  ConfiguredHeadersAreSent'
<1>0. config' = config /\ check_header_sources(config)
  BY DEF Send, ToolInv
<1>1. {h \in request' : h.place = "header"} = SentHeaders(given, forwarded)
  <2>1. \A h \in SentPath(given) \cup From("query", given) \cup SentBody(given) : h.place # "header"
    BY DEF SentPath, From, SentBody
  <2>2. \A h \in SentHeaders(given, forwarded) : h.place = "header"
    BY DEF SentHeaders, From, Headers
  <2> QED
    BY <2>1, <2>2 DEF Send
<1>2. \A n : SourcesOf(n)' = {h.source[1] : h \in {g \in SentHeaders(given, forwarded) : g.name = n}}
  BY <1>1 DEF SourcesOf
<1>3. ASSUME NEW n \in config.extra_headers
      PROVE  SourcesOf(n)' = {"static"}
  <2>1. {g \in SentHeaders(given, forwarded) : g.name = n}
          = {[place |-> "header", name |-> n, source |-> <<"static", 0>>]}
    BY <1>3 DEF SentHeaders, Headers
  <2>2. SourcesOf(n)' = {h.source[1] : h \in {[place |-> "header", name |-> n,
                                              source |-> <<"static", 0>>]}}
    BY <1>2, <2>1
  <2> QED
    BY <2>2
<1>4. ASSUME config.upstream_oauth
      PROVE  SourcesOf(Authorization)' \ {"parameter"} = {"token"}
  <2> DEFINE token == [place |-> "header", name |-> Authorization, source |-> <<"token", 0>>]
  <2>1. Authorization \notin config.extra_headers /\ Authorization \notin forwarded
    BY <1>0, <1>4 DEF check_header_sources
  <2>2. token \in SentHeaders(given, forwarded) /\ token.name = Authorization
        /\ token.source[1] = "token"
    BY <1>4, <2>1 DEF SentHeaders, Headers
  <2>3. ASSUME NEW h \in SentHeaders(given, forwarded), h.name = Authorization
        PROVE  h.source[1] \in {"parameter", "token"}
    <3>1. h \in From("header", given) \/ h \in Headers("token", {Authorization})
      BY <2>1, <2>3, <1>4 DEF SentHeaders, Headers
    <3> QED
      BY <3>1 DEF From, Headers
  <2> QED
    BY <1>2, <2>2, <2>3
<1> QED
  BY <1>0, <1>3, <1>4 DEF ConfiguredHeadersAreSent

-----------------------------------------------------------------------------------

LEMMA Always == Spec => [](ToolInv /\ CallInv)
<1>1. Init => ToolInv /\ CallInv
  BY Initially
<1>2. ASSUME ToolInv, CallInv, [Next]_vars
      PROVE  ToolInv' /\ CallInv'
  <2> USE <1>2
  <2>1. ASSUME phase' \notin {"refused", "sent"}
        PROVE  CallInv'
    BY <2>1 DEF CallInv, RequiredIsEnough, ArgumentsReachTheirPlace, ConfiguredHeadersAreSent
  <2>2. CASE Ignore \/ ParametersEnd
    <3>1. UNCHANGED <<config, tool_vars>> /\ next' \in {next, next + 1}
          /\ phase' \notin {"refused", "sent"}
      BY <2>2 DEF Ignore, ParametersEnd
    <3> QED
      BY <2>1, <3>1, RestKeepsTool
  <2>3. CASE push_param
    BY <2>1, <2>3, ParameterKeepsTool DEF push_param
  <2>4. CASE add_request_body
    BY <2>1, <2>4, BodyKeepsTool DEF add_request_body
  <2>5. ASSUME NEW given \in SUBSET Names, Refuse(given)
        PROVE  ToolInv' /\ CallInv'
    BY <2>5, RefusalIsFair, RestKeepsTool DEF Refuse
  <2>6. ASSUME NEW given \in SUBSET Names, RefuseValue(given)
        PROVE  ToolInv' /\ CallInv'
    BY <2>1, <2>6, RestKeepsTool DEF RefuseValue
  <2>7. ASSUME NEW given \in SUBSET Names, NEW forwarded \in SUBSET config.forward_headers,
               Send(given, forwarded)
        PROVE  ToolInv' /\ CallInv'
    <3>1. ToolInv'
      BY <2>7, RestKeepsTool DEF Send
    <3>2. RequiredIsEnough'
      BY <2>7 DEF RequiredIsEnough, Send
    <3> QED
      BY <2>7, <3>1, <3>2, SentArgumentsArrive, SentHeadersAreTheConfigured DEF CallInv
  <2>8. CASE UNCHANGED vars
    <3>1. ToolInv'
      BY <2>8, RestKeepsTool DEF vars, tool_vars
    <3>2. UNCHANGED <<config, path_template, declared, properties, required, phase, args, request>>
      BY <2>8 DEF vars, tool_vars
    <3>3. RequiredIsEnough' /\ ArgumentsReachTheirPlace'
      BY <3>2 DEF CallInv, RequiredIsEnough, Required, ArgumentsReachTheirPlace, HasPlace
    <3>4. ConfiguredHeadersAreSent'
      BY <3>2 DEF CallInv, ConfiguredHeadersAreSent, SourcesOf
    <3> QED
      BY <3>1, <3>3, <3>4 DEF CallInv
  <2> QED
    BY <2>2, <2>3, <2>4, <2>5, <2>6, <2>7, <2>8 DEF Next
<1> QED
  BY <1>1, <1>2, PTL DEF Spec

(* Whatever parameters a document declares, twice over and in any place,   *)
(* what the input schema requires is enough for a call (tools.rs:          *)
(* push_param, build_input_schema).                                        *)
THEOREM RequiredArgumentsSuffice == Spec => []RequiredIsEnough
<1>1. CallInv => RequiredIsEnough
  BY DEF CallInv
<1> QED
  BY <1>1, Always, PTL

(* Each argument the schema describes is sent where the parameter it       *)
(* describes belongs, or a static header in its place, where the path has  *)
(* a placeholder (tools.rs: push_param; server.rs: build_request).         *)
THEOREM DescribedArgumentsArrive == Spec => []ArgumentsReachTheirPlace
<1>1. CallInv => ArgumentsReachTheirPlace
  BY DEF CallInv
<1> QED
  BY <1>1, Always, PTL

(* No declared parameter and no forwarded header puts a configured header  *)
(* or the upstream token out of force (main.rs: check_header_sources;      *)
(* server.rs: build_request).                                              *)
THEOREM ConfigurationTakesEffect == Spec => []ConfiguredHeadersAreSent
<1>1. CallInv => ConfiguredHeadersAreSent
  BY DEF CallInv
<1> QED
  BY <1>1, Always, PTL

===================================================================================
