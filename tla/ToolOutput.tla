--------------------------------- MODULE ToolOutput ---------------------------------
(***************************************************************************)
(* What a tool declares of its result and what it returns: the output      *)
(* schema, inlined from the document's responses, and the MCP result an    *)
(* upstream response is shaped into.                                       *)
(*                                                                         *)
(* A schema is cut down to a reference, a type and properties; a JSON      *)
(* value to its type and members. Both are finite trees.                   *)
(***************************************************************************)
EXTENDS Naturals, Sequences, FiniteSets

CONSTANTS
  Specs,       \* documents with one operation: [components: name -> schema,
               \*  shared: name -> response, responses: code -> response]
  SchemaNames, \* the names components have and references use
  Schemas,     \* the schemas in them: [ref, type, props]
  Values,      \* JSON values: [type, members]
  Depth,       \* how deep each of these nests
  MaxDepth,    \* how deep the parsers let them
  MediaTypes,  \* media types, any that is readable and not JSON being "text"
  MaxRefHops,  \* how many references to a reference are followed
  None         \* no reference, schema, content type or structured content

(* Responses, the operation's and those they refer to. *)
ItemsOf(d) == {d.shared[n] : n \in DOMAIN d.shared} \cup {d.responses[c] : c \in DOMAIN d.responses}

ASSUME SchemasAssumption ==
  /\ IsFiniteSet(SchemaNames) /\ None \notin SchemaNames
  /\ Depth \in [Schemas \cup Values -> 0..MaxDepth]
  /\ \A s \in Schemas :
       /\ s = [ref |-> s.ref, type |-> s.type, props |-> s.props]
       /\ s.ref \in SchemaNames \cup {None}
       /\ \A k \in DOMAIN s.props : s.props[k] \in Schemas /\ Depth[s.props[k]] < Depth[s]
  /\ \A v \in Values : \A k \in DOMAIN v.members :
       v.members[k] \in Values /\ Depth[v.members[k]] < Depth[v]
  /\ MaxDepth \in Nat /\ MaxRefHops \in Nat /\ None \notin Values

ASSUME SpecsAssumption ==
  \A d \in Specs :
    /\ DOMAIN d.components \subseteq SchemaNames
    /\ \A n \in DOMAIN d.components : d.components[n] \in Schemas
    /\ \A r \in ItemsOf(d) :
         /\ r = [ref |-> r.ref, content |-> r.content]
         /\ r.content \in Seq([essence : STRING, schema : Schemas \cup {None}])

VARIABLES
  openapi,        \* the document, and the operation's responses
  output_schema,  \* what the tool declares, None before and when nothing can be
  response,       \* the upstream's response: [status, mime, body]
  result,         \* the tool's result: [is_error, structured, blocks]
  phase           \* "building", "ready", "answered", "shaped"

output_vars == <<openapi, output_schema, response, result, phase>>

-----------------------------------------------------------------------------------
(* References.                                                             *)

Object(props) == [ref |-> None, type |-> "object", props |-> props]
AnyObject == Object(<<>>)

(* Whether a reference is replaced by what it refers to. One that is met   *)
(* again inside its own target is not, nor one into another file.          *)
resolve_schema_ref(spec, name, seen) == name \notin seen /\ name \in DOMAIN spec.components

(* A mistake: where a reference says no type, its target is an object's.   *)
RefinedToObject(target, schema, props) ==
  [ref |-> None,
   type |-> IF schema.type = "any" THEN "object" ELSE schema.type,
   props |-> IF DOMAIN props = {} THEN target.props ELSE props]

(* What a reference resolves to, with the keywords beside it over it. *)
Refined(target, schema, props) ==
  [ref |-> None,
   type |-> IF schema.type = "any" THEN target.type ELSE schema.type,
   props |-> IF DOMAIN props = {} THEN target.props ELSE props]

(* A reference gives way to what it refers to, and to a bare object where  *)
(* that would not end or is not there. A reference is seen while its       *)
(* target is inlined and no longer.                                        *)
InlineRefs(spec) ==
  LET inline_refs[seen \in SUBSET SchemaNames] ==
        LET inline[schema \in Schemas] ==
              LET props  == [k \in DOMAIN schema.props |-> inline[schema.props[k]]]
                  target == IF resolve_schema_ref(spec, schema.ref, seen)
                            THEN inline_refs[seen \cup {schema.ref}][spec.components[schema.ref]]
                            ELSE AnyObject
              IN  IF schema.ref = None THEN [schema EXCEPT !.props = props]
                  ELSE Refined(target, schema, props)
        IN  inline
  IN  inline_refs

inlined(spec, schema) == InlineRefs(spec)[{}][schema]

(* A response that is a reference gives way to what it refers to, if any. *)
Follow(spec, item) ==
  IF item.ref = None THEN {item}
  ELSE IF item.ref \in DOMAIN spec.shared THEN {spec.shared[item.ref]} ELSE {}

resolve_chain(spec, item) ==
  LET hop[n \in 0..(MaxRefHops + 1)] ==
        IF n = 0 THEN {item} ELSE UNION {Follow(spec, r) : r \in hop[n - 1]}
  IN  hop[MaxRefHops + 1]

(* The response itself; a chain that is too long ends in one that says     *)
(* nothing.                                                                *)
resolve(spec, item) ==
  {IF r.ref = None THEN r ELSE [r EXCEPT !.content = <<>>] : r \in resolve_chain(spec, item)}

-----------------------------------------------------------------------------------
(* The output schema.                                                      *)

Positions(content, essence) == {i \in DOMAIN content : content[i].essence = essence}

First(positions) == CHOOSE i \in positions : \A j \in positions : i <= j

(* application/json before any other +json, and the first of its kind. *)
json_media_type(content) ==
  LET exact == Positions(content, "application/json")
      suffixed == Positions(content, "+json")
  IN  IF exact # {} THEN {content[First(exact)]}
      ELSE IF suffixed # {} THEN {content[First(suffixed)]}
      ELSE {}

(* `default` describes errors. *)
is_success(code) == code \in {"200", "201", "204", "2XX"}

SuccessCodes(spec) == {code \in DOMAIN spec.responses : is_success(code)}

(* The schemas a success response has, none or one. *)
SchemasOf(spec, code) ==
  {inlined(spec, m.schema) :
     m \in {n \in UNION {json_media_type(r.content) : r \in resolve(spec, spec.responses[code])} :
              n.schema # None}}

(* A mistake: what the first success response says goes for all. *)
OutputSchemaOfOne(spec) ==
  LET all == UNION {SchemasOf(spec, code) : code \in SuccessCodes(spec)}
  IN  IF /\ \E code \in SuccessCodes(spec) : SchemasOf(spec, code) # {}
         /\ \E s \in all : s.type = "object"
      THEN CHOOSE s \in all : s.type = "object" ELSE None

(* One schema of an object, the same in every success response. *)
OutputSchema(spec) ==
  LET all == UNION {SchemasOf(spec, code) : code \in SuccessCodes(spec)}
  IN  IF /\ SuccessCodes(spec) # {} /\ \A code \in SuccessCodes(spec) : SchemasOf(spec, code) # {}
         /\ \A s, t \in all : s = t
         /\ \A s \in all : s.type = "object"
      THEN CHOOSE s \in all : TRUE ELSE None

-----------------------------------------------------------------------------------
(* Results.                                                                *)

is_failure(status) == status \in 400..599

body_kind(mime) ==
  CASE mime = None -> "unknown"
    [] mime \in {"application/json", "+json", "text"} -> "text"
    [] mime \in {"image", "audio"} -> mime
    [] OTHER -> "blob"

ResultFor(status, blocks, structured) ==
  [is_error |-> is_failure(status), structured |-> structured, blocks |-> blocks]

(* A body is text of a JSON value, other text, or bytes; one that breaks   *)
(* off is taken for an empty one.                                          *)
Received(body) == IF body.form = "broken" THEN [form |-> "empty", value |-> None] ELSE body

(* A JSON value is attached as it is when it is an object, and wrapped     *)
(* otherwise.                                                              *)
shape_response(status, body) ==
  ResultFor(status, <<"text">>,
            IF body.form # "json" THEN None
            ELSE IF body.value.type = "object" THEN body.value
            ELSE [type |-> "object", members |-> [result |-> body.value]])

shape_bytes_response(status, kind, body) ==
  IF body.form = "empty" \/ (kind = "unknown" /\ body.form # "bytes")
  THEN shape_response(status, body)
  ELSE ResultFor(status, <<"text", IF kind \in {"image", "audio"} THEN kind ELSE "blob">>, None)

ResultOf(r) ==
  LET body == Received(r.body)
      kind == body_kind(r.mime)
  IN  IF kind = "text"
      THEN shape_response(r.status,
                          IF body.form = "bytes" THEN [form |-> "text", value |-> None] ELSE body)
      ELSE shape_bytes_response(r.status, kind, body)

(* An error has nothing to do with the schema of a success. *)
fit_output_schema(r) ==
  IF output_schema # None /\ r.is_error THEN [r EXCEPT !.structured = None] ELSE r

-----------------------------------------------------------------------------------

NoResponse == [status |-> 0, mime |-> None, body |-> [form |-> "empty", value |-> None]]
NoResult == [is_error |-> FALSE, structured |-> None, blocks |-> <<>>]

OutputInit ==
  /\ openapi \in Specs
  /\ output_schema = None
  /\ response = NoResponse
  /\ result = NoResult
  /\ phase = "building"

(* Only with --tool-output-schema. *)
BuildTool ==
  /\ phase = "building"
  /\ output_schema' \in {None, OutputSchema(openapi)}
  /\ phase' = "ready"
  /\ UNCHANGED <<openapi, response, result>>

Bodies ==
  [form : {"json"}, value : Values]
  \cup [form : {"text", "bytes", "empty", "broken"}, value : {None}]

Responses ==
  [status : {200, 204, 304, 404, 500}, mime : MediaTypes \cup {None}, body : Bodies]

Answer ==
  /\ phase = "ready"
  /\ response' \in Responses
  /\ phase' = "answered"
  /\ UNCHANGED <<openapi, output_schema, result>>

Failed == [NoResult EXCEPT !.is_error = TRUE, !.blocks = <<"text">>]

(* The request could not be built, or sent. *)
Fail ==
  /\ phase = "ready"
  /\ result' = fit_output_schema(Failed)
  /\ phase' = "shaped"
  /\ UNCHANGED <<openapi, output_schema, response>>

execute ==
  /\ phase = "answered"
  /\ result' = fit_output_schema(ResultOf(response))
  /\ phase' = "shaped"
  /\ UNCHANGED <<openapi, output_schema, response>>

OutputNext == BuildTool \/ Answer \/ Fail \/ execute

OutputSpec == OutputInit /\ [][OutputNext]_output_vars

-----------------------------------------------------------------------------------
(* What it means to honour a document.                                     *)

(* By its type and its members, of which `inside` knows. *)
Fits(value, schema, inside) ==
  /\ schema.type \in {"any", value.type}
  /\ \A k \in DOMAIN schema.props \cap DOMAIN value.members :
       inside[value.members[k]][schema.props[k]]

Inlined(spec) ==
  {InlineRefs(spec)[seen][s] : seen \in SUBSET SchemaNames, s \in Schemas} \cup {AnyObject}

ConformsTo(spec) ==
  LET conforms[value \in Values] == [schema \in Inlined(spec) |-> Fits(value, schema, conforms)]
  IN  conforms

Conforms(spec, value, schema) == Fits(value, schema, ConformsTo(spec))

(* All that `leads` leads to from the names. *)
Closure(names, leads) ==
  {n \in SchemaNames :
     \A C \in SUBSET SchemaNames : names \subseteq C /\ (\A c \in C : leads[c] \subseteq C) => n \in C}

RefOf(schema) == {schema.ref} \ {None}

Leading(spec, refs) ==
  [n \in SchemaNames |-> IF n \in DOMAIN spec.components THEN refs[spec.components[n]] ELSE {}]

LedTo(spec, schema) == Closure(RefOf(schema), Leading(spec, [s \in Schemas |-> RefOf(s)]))

AllOf(spec, schema) == {schema} \cup {spec.components[n] : n \in LedTo(spec, schema)}

(* By the document itself: a reference says what its target says, and the  *)
(* keywords beside it hold as well.                                        *)
HonoursTo(spec) ==
  LET honours[value \in Values] ==
        [schema \in Schemas |->
           /\ LedTo(spec, schema) \subseteq DOMAIN spec.components
           /\ \A t \in AllOf(spec, schema) : Fits(value, t, honours)]
  IN  honours

Honours(spec, value, schema) == HonoursTo(spec)[value][schema]

Mentioned ==
  LET mentioned[s \in Schemas] ==
        RefOf(s) \cup UNION {mentioned[s.props[k]] : k \in DOMAIN s.props}
  IN  mentioned

Reached(spec, schema) == Closure(Mentioned[schema], Leading(spec, Mentioned))

(* Inlining has to stop at references to themselves and at those that lead *)
(* nowhere. What it puts there admits objects only.                        *)
StopsAtObjects(spec, schema) ==
  \A n \in Reached(spec, schema) :
    /\ n \in DOMAIN spec.components
    /\ n \in Reached(spec, spec.components[n]) =>
         /\ spec.components[n].ref = None
         /\ spec.components[n].type = "object"

-----------------------------------------------------------------------------------
(* Properties.                                                             *)

(* The media type the upstream answers with, in the response of a code.    *)
Documented(code) ==
  UNION {{m \in {r.content[i] : i \in DOMAIN r.content} :
            response.mime # None /\ m.essence = response.mime} :
           r \in resolve(openapi, openapi.responses[code])}

(* A code of its own, else its class, else the default. *)
CodeOf(status) ==
  LET codes == DOMAIN openapi.responses
      own   == {code \in codes : \/ status = 200 /\ code = "200"
                                 \/ status = 204 /\ code = "204"}
  IN  IF own # {} THEN own
      ELSE IF status \in 200..299 /\ "2XX" \in codes THEN {"2XX"}
      ELSE codes \cap {"default"}

(* The upstream answers what its document says, in JSON.                   *)
AnswersAsDocumented ==
  /\ response.body.form = "json"
  /\ \E code \in CodeOf(response.status) :
       \E m \in Documented(code) :
         /\ m.schema # None /\ StopsAtObjects(openapi, m.schema)
         /\ is_success(code) => m \in UNION {json_media_type(r.content) :
                                               r \in resolve(openapi, openapi.responses[code])}
         /\ Honours(openapi, response.body.value, m.schema)

(* "A declared schema is a contract": a tool that declares one returns, of *)
(* an upstream that answers as its document says, structured content that  *)
(* conforms to it, and with an error none. Nor is there any, declared or   *)
(* not, of a body that broke off.                                          *)
StructuredContentFits ==
  phase = "shaped" =>
    /\ response.body.form = "broken" => result.structured = None
    /\ output_schema # None =>
         /\ result.is_error => result.structured = None
         /\ AnswersAsDocumented /\ CodeOf(response.status) \cap SuccessCodes(openapi) # {} =>
              result.structured # None /\ Conforms(openapi, result.structured, output_schema)

(* Inlining asks for nothing the document does not ask for: what honours a *)
(* schema of the document conforms to its inlined copy, wherever it refers *)
(* to one schema twice, to itself, or says more beside a reference.        *)
InlinedSchemasAskNoMore ==
  phase = "building" =>
    \A n \in DOMAIN openapi.components :
      StopsAtObjects(openapi, openapi.components[n]) =>
        \A value \in Values :
          Honours(openapi, value, openapi.components[n]) =>
            Conforms(openapi, value, inlined(openapi, openapi.components[n]))

===================================================================================
