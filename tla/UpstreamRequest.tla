------------------------------ MODULE UpstreamRequest ------------------------------
(***************************************************************************)
(* One operation, from the parameters its path item and itself declare to  *)
(* the request a call of its tool sends: what the tool's input schema      *)
(* asks for, where each argument goes, and the headers that come from      *)
(* elsewhere. Values are left out; only which part of the request comes    *)
(* from which source is kept.                                              *)
(***************************************************************************)
EXTENDS Integers, Sequences

CONSTANTS
  Names,          \* names of parameters, of arguments and of headers
  body,           \* the argument that holds the request body
  Authorization,  \* the header the upstream OAuth token goes in
  Templates,      \* the placeholders of a path, for paths of the document
  Levels,         \* sequences of parameters, as one level of the document declares them
  Configs         \* [extra_headers, forward_headers, upstream_oauth], as given on the
                  \* command line

Locations == {"path", "query", "header", "cookie"}

ParameterType == [name : Names, location : Locations, required : BOOLEAN]

ASSUME RequestAssumption ==
  /\ {body, Authorization} \subseteq Names
  /\ Templates \subseteq SUBSET Names
  /\ Levels \subseteq Seq(ParameterType)
  /\ Configs \subseteq [extra_headers : SUBSET Names, forward_headers : SUBSET Names,
                        upstream_oauth : BOOLEAN]

VARIABLES
  config,       \* the configuration the server started with
  path_template, \* the placeholders of the operation's path
  declared,     \* the parameters of the path item, then those of the operation
  own,          \* how many of them the path item declares
  next,         \* the one looked at next
  properties,   \* name -> the parameter whose schema the input schema shows
  required,     \* the required names, in the order they were added
  params,       \* the parameters the tool sends, as positions in `declared`
  has_body,     \* whether the tool takes a body
  phase,        \* "parameters", "body", "ready", "refused", "unsendable" or "sent"
  args,         \* the arguments of the call
  request       \* the parts of its request: [place, name, source]

tool_vars == <<path_template, declared, own, properties, required, params, has_body>>
vars == <<config, path_template, declared, own, next, properties, required, params, has_body,
          phase, args, request>>

-----------------------------------------------------------------------------------
(* The configuration.                                                      *)

(* A header that has two sources is refused at startup. *)
check_header_sources(c) ==
  /\ c.forward_headers \cap c.extra_headers = {}
  /\ c.upstream_oauth => Authorization \notin c.extra_headers \cup c.forward_headers

Init ==
  /\ config \in {c \in Configs : check_header_sources(c)}
  /\ path_template \in Templates
  /\ \E item, operation \in Levels :
       /\ declared = item \o operation
       /\ own = Len(item)
  /\ next = 1
  /\ properties = <<>>
  /\ required = <<>>
  /\ params = <<>>
  /\ has_body = FALSE
  /\ phase = "parameters"
  /\ args = {}
  /\ request = {}

-----------------------------------------------------------------------------------
(* The tool.                                                               *)

With(f, key, value) == [k \in DOMAIN f \cup {key} |-> IF k = key THEN value ELSE f[k]]

Parameter == declared[next]

(* Cookie parameters are not sent. *)
Ignore ==
  /\ phase = "parameters" /\ next <= Len(declared)
  /\ Parameter.location = "cookie"
  /\ next' = next + 1
  /\ UNCHANGED <<config, tool_vars, phase, args, request>>

(* A mistake: a path parameter is required only when the document says so. *)
PushAsDeclared ==
  /\ phase = "parameters" /\ next <= Len(declared)
  /\ Parameter.location # "cookie"
  /\ properties' = With(properties, Parameter.name, next)
  /\ required' = IF Parameter.required THEN Append(required, Parameter.name) ELSE required
  /\ params' = Append(params, next)
  /\ next' = next + 1
  /\ UNCHANGED <<config, path_template, declared, own, has_body, phase, args, request>>

(* A mistake: a name that is known already is not sent a second time. *)
PushOnce ==
  /\ phase = "parameters" /\ next <= Len(declared)
  /\ Parameter.location # "cookie"
  /\ properties' = With(properties, Parameter.name, next)
  /\ required' =
       IF Parameter.required \/ Parameter.location = "path"
       THEN Append(required, Parameter.name) ELSE required
  /\ params' = IF Parameter.name \in DOMAIN properties THEN params ELSE Append(params, next)
  /\ next' = next + 1
  /\ UNCHANGED <<config, path_template, declared, own, has_body, phase, args, request>>

(* A later parameter takes over the property of an earlier one of its      *)
(* name, and is added to what is required and sent beside it.              *)
push_param ==
  /\ phase = "parameters" /\ next <= Len(declared)
  /\ Parameter.location # "cookie"
  /\ properties' = With(properties, Parameter.name, next)
  /\ required' =
       IF Parameter.required \/ Parameter.location = "path"
       THEN Append(required, Parameter.name) ELSE required
  /\ params' = Append(params, next)
  /\ next' = next + 1
  /\ UNCHANGED <<config, path_template, declared, own, has_body, phase, args, request>>

ParametersEnd ==
  /\ phase = "parameters" /\ next > Len(declared)
  /\ phase' = "body"
  /\ UNCHANGED <<config, tool_vars, next, args, request>>

(* The request body, if there is a JSON one: the property `body`, which    *)
(* takes over a parameter's of that name. The position is none's.          *)
add_request_body ==
  /\ phase = "body"
  /\ \/ UNCHANGED <<properties, required, has_body>>
     \/ \E is_required \in BOOLEAN :
          /\ properties' = With(properties, body, 0)
          /\ required' = IF is_required THEN Append(required, body) ELSE required
          /\ has_body' = TRUE
  /\ phase' = "ready"
  /\ UNCHANGED <<config, path_template, declared, own, next, params, args, request>>

-----------------------------------------------------------------------------------
(* A call.                                                                 *)

At(location) == {p \in {params[i] : i \in DOMAIN params} : declared[p].location = location}

(* The argument each parameter of a location finds, one part a parameter.  *)
From(location, given) ==
  {[place |-> location, name |-> declared[p].name, source |-> <<"parameter", p>>] :
     p \in {q \in At(location) : declared[q].name \in given}}

Headers(source, names) ==
  {[place |-> "header", name |-> n, source |-> <<source, 0>>] : n \in names}

(* A mistake: a static header is added beside the others of its name. *)
AllHeaders(given, forwarded) ==
  From("header", given) \cup Headers("forwarded", forwarded)
  \cup (IF config.upstream_oauth THEN Headers("token", {Authorization}) ELSE {})
  \cup Headers("static", config.extra_headers)

(* Parameters, forwarded headers and the token are added to one another;   *)
(* the static headers replace all of their name.                           *)
SentHeaders(given, forwarded) ==
  LET added == From("header", given) \cup Headers("forwarded", forwarded)
               \cup (IF config.upstream_oauth
                     THEN Headers("token", {Authorization}) ELSE {})
  IN  {h \in added : h.name \notin config.extra_headers}
      \cup Headers("static", config.extra_headers)

(* A placeholder is filled once per name, so a second path parameter of    *)
(* that name finds nothing to fill, like one the path has no placeholder   *)
(* for.                                                                    *)
SentPath(given) ==
  {[place |-> "path", name |-> declared[p].name, source |-> <<"path", 0>>] :
     p \in {q \in At("path") : declared[q].name \in given \cap path_template}}

SentBody(given) ==
  IF has_body /\ body \in given
  THEN {[place |-> "body", name |-> body, source |-> <<"body", 0>>]} ELSE {}

(* No request is sent without every path parameter. *)
Refuse(given) ==
  /\ phase = "ready"
  /\ \E p \in At("path") : declared[p].name \notin given
  /\ phase' = "refused"
  /\ args' = given
  /\ UNCHANGED <<config, tool_vars, next, request>>

(* The value of an argument may not do for a header. *)
RefuseValue(given) ==
  /\ phase = "ready"
  /\ \A p \in At("path") : declared[p].name \in given
  /\ \E p \in At("header") : declared[p].name \in given
  /\ phase' = "unsendable"
  /\ args' = given
  /\ UNCHANGED <<config, tool_vars, next, request>>

Send(given, forwarded) ==
  /\ phase = "ready"
  /\ \A p \in At("path") : declared[p].name \in given
  /\ phase' = "sent"
  /\ args' = given
  /\ request' = SentPath(given) \cup From("query", given) \cup SentHeaders(given, forwarded)
                \cup SentBody(given)
  /\ UNCHANGED <<config, tool_vars, next>>

Next ==
  \/ Ignore \/ push_param \/ ParametersEnd \/ add_request_body
  \/ \E given \in SUBSET Names :
       \/ Refuse(given)
       \/ RefuseValue(given)
       \/ \E forwarded \in SUBSET config.forward_headers : Send(given, forwarded)

Spec == Init /\ [][Next]_vars

-----------------------------------------------------------------------------------
(* Properties.                                                             *)

Required == {required[i] : i \in DOMAIN required}

(* A caller that gives what the input schema requires is not turned down   *)
(* for a missing argument.                                                 *)
RequiredIsEnough == phase = "refused" => ~(Required \subseteq args)

HasPlace(n) ==
  properties[n] # 0 /\ declared[properties[n]].location = "path" => n \in path_template

(* What the schema shows is what is sent: each argument it describes goes  *)
(* where the parameter it describes belongs, unless a static header stands *)
(* in its place, or the path has no placeholder for it.                    *)
ArgumentsReachTheirPlace ==
  phase = "sent" =>
    \A n \in {m \in DOMAIN properties \cap args : HasPlace(m)} :
      \E part \in request :
        /\ part.name = n
        /\ part.place = IF properties[n] = 0 THEN "body" ELSE declared[properties[n]].location

SourcesOf(header) ==
  {part.source[1] : part \in {h \in request : h.place = "header" /\ h.name = header}}

(* What the deployment configures takes effect: a static header is sent    *)
(* and nothing beside it, and the upstream token is sent, beside nothing   *)
(* but a parameter of the document.                                        *)
ConfiguredHeadersAreSent ==
  phase = "sent" =>
    /\ \A n \in config.extra_headers : SourcesOf(n) = {"static"}
    /\ config.upstream_oauth => SourcesOf(Authorization) \ {"parameter"} = {"token"}

(* "Path-item parameters apply to every operation; operation parameters    *)
(* win": one of the path item's is not sent beside the operation's of the  *)
(* same name and location.                                                 *)
OperationParametersWin ==
  phase = "sent" =>
    \A one, other \in request :
      (/\ one.place = other.place /\ one.name = other.name
       /\ one.source[1] = "parameter" /\ one.source[2] <= own
       /\ other.source[1] = "parameter")
      => other.source[2] <= own

===================================================================================
