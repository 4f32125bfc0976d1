-------------------------------- MODULE ToolCalls ---------------------------------
(***************************************************************************)
(* Tool calls from the HTTP gate to the API: each request is checked by    *)
(* the bearer gate, then by the handler on the snapshot it pins, gets an   *)
(* upstream token and becomes one API request, while the document reloads, *)
(* callers' JWTs expire and clients cancel. A step of a call is one poll   *)
(* of its task. Tokens come from TokenService, which TokenProvider         *)
(* implements.                                                             *)
(***************************************************************************)
EXTENDS Naturals, Sequences, Configuration

CONSTANTS
  Calls,               \* tools/call requests, each made once
  Names,               \* the tool names clients know or guess
  Operations,          \* the operations of the API
  Documents,           \* snapshots, as [tools: name -> operation, base: URL]
  Jwts,                \* the callers' bearer tokens
  NoJwt,               \* a request without one
  Anonymous,           \* Access::Anonymous
  Unrestricted,        \* Access::Unrestricted
  Identified,          \* the JWTs that carry the delegation subject
  Endless,             \* those of them that end beyond the clock's end
  RolesOf,             \* the roles in each JWT
  Rules,               \* role mappings, as [role, operations] records
  PublicOperations,    \* what the `*:` mappings match
  Deployments,         \* the configurations servers are started with
  Client,              \* the identity of this server
  Nobody,              \* a delegating call without an identity
  NoBearer,            \* an API request without a bearer token
  NoDocument           \* no snapshot read yet

ASSUME DocumentsAssumption ==
  /\ \A d \in Documents :
       d.tools \in [DOMAIN d.tools -> Operations] /\ DOMAIN d.tools \subseteq Names
  /\ NoDocument \notin Documents

ASSUME AccessAssumption ==
  /\ {NoJwt, Anonymous, Unrestricted} \cap Jwts = {}
  /\ NoJwt # Anonymous /\ NoJwt # Unrestricted /\ Anonymous # Unrestricted
  /\ Identified \subseteq Jwts /\ Endless \subseteq Identified
  /\ Client \notin Jwts /\ Nobody \notin Jwts \cup {Client}
  /\ NoBearer \notin Jwts \cup {Client}

(* Startup lets no other configuration come to serve.                       *)
ASSUME DeploymentsAssumption == Deployments \subseteq Deployable

VARIABLES
  deployment,  \* the configuration this server was started with
  document,    \* the current snapshot
  rejected,    \* JWTs the verifier does not accept (any more)
  call,        \* per call: its request, what it pinned, what it sent and recorded
  status,      \* TokenService: per call
  issued       \* TokenService: identities with a token

vars == <<deployment, document, rejected, call, status, issued>>

Askers == Jwts \cup {Client}

Tokens == INSTANCE TokenService WITH
  Capable <- Askers, IdentityOf <- [a \in Askers |-> a]

-----------------------------------------------------------------------------------
(* Who may use what.                                                       *)

is_public(op) == op \in PublicOperations

allows(jwt, op) ==
  \/ Rules = {}
  \/ is_public(op)
  \/ \E r \in Rules : r.role \in RolesOf[jwt] /\ op \in r.operations

is_allowed(access, op) ==
  \/ access = Unrestricted
  \/ access = Anonymous /\ is_public(op)
  \/ access \in Jwts /\ allows(access, op)

(* A mistake: discovery shows every tool to everyone. *)
is_listed_to_all(access, op) == deployment.discovery \/ is_allowed(access, op)

is_listed(access, op) ==
  (access = Anonymous /\ deployment.discovery) \/ is_allowed(access, op)

(* A missing, unknown or expired JWT is anonymous. *)
Access(jwt) ==
  IF ~deployment.authorizing THEN Unrestricted
  ELSE IF jwt \in Jwts \ rejected THEN jwt
  ELSE Anonymous

is_public_tool(name) ==
  name \in DOMAIN document.tools /\ is_allowed(Anonymous, document.tools[name])

admits_anonymous == PublicOperations # {} \/ deployment.discovery

-----------------------------------------------------------------------------------
(* The gate.                                                               *)

Unmade ==
  [phase |-> "unmade", name |-> Nobody, jwt |-> NoJwt, access |-> Anonymous,
   document |-> NoDocument, cancelled |-> FALSE, reply |-> "none",
   sent |-> << >>, recorded |-> << >>]

Init ==
  /\ deployment \in Deployments
  /\ document \in Documents
  /\ rejected = {}
  /\ call = [c \in Calls |-> Unmade]
  /\ Tokens!Init

Arrive(c, name, jwt) ==
  /\ call[c].phase = "unmade"
  /\ call' = [call EXCEPT ![c].phase = "arrived", ![c].name = name, ![c].jwt = jwt]
  /\ UNCHANGED <<deployment, document, rejected, status, issued>>

(* A request without a token passes if it calls a public tool of the       *)
(* document current now; one with a token passes if the token is verified. *)
Passes(c) ==
  IF call[c].jwt = NoJwt
  THEN admits_anonymous /\ is_public_tool(call[c].name)
  ELSE call[c].jwt \notin rejected

Challenge(c) ==
  /\ call[c].phase = "arrived"
  /\ deployment.protected
  /\ ~Passes(c)
  /\ call' = [call EXCEPT ![c].phase = "turned away", ![c].reply = "challenge"]
  /\ UNCHANGED <<deployment, document, rejected, status, issued>>

(* Whether a tool is public cannot be read from a body that is too large.  *)
RefuseLarge(c) ==
  /\ call[c].phase = "arrived"
  /\ deployment.protected
  /\ call[c].jwt = NoJwt /\ admits_anonymous
  /\ call' = [call EXCEPT ![c].phase = "turned away", ![c].reply = "too large"]
  /\ UNCHANGED <<deployment, document, rejected, status, issued>>

Admit(c) ==
  /\ call[c].phase = "arrived"
  /\ deployment.protected => Passes(c)
  /\ call' = [call EXCEPT ![c].phase = "admitted"]
  /\ UNCHANGED <<deployment, document, rejected, status, issued>>

-----------------------------------------------------------------------------------
(* call_tool: the snapshot is read once and pinned, the JWT verified again.*)

(* A mistake: what passed the gate is taken to be allowed. *)
MayCallOnceAdmitted(access, name) ==
  /\ name \in DOMAIN document.tools
  /\ (deployment.protected /\ access \in Jwts) \/ is_allowed(access, document.tools[name])

MayCall(access, name) ==
  /\ name \in DOMAIN document.tools
  /\ is_allowed(access, document.tools[name])

(* Working out who calls panics over an end the clock does not have. *)
DieOfExpiry(c) ==
  /\ call[c].phase = "admitted"
  /\ Access(call[c].jwt) \in Endless
  /\ call' = [call EXCEPT ![c].phase = "dead"]
  /\ UNCHANGED <<deployment, document, rejected, status, issued>>

Refuse(c) ==
  /\ call[c].phase = "admitted"
  /\ LET access == Access(call[c].jwt)
         name   == call[c].name
         shown  == name \in DOMAIN document.tools /\ is_listed(access, document.tools[name])
     IN  /\ access \notin Endless
         /\ ~MayCall(access, name)
         /\ call' = [call EXCEPT
              ![c].phase = "refused", ![c].access = access, ![c].document = document,
              ![c].reply = IF shown THEN "needs a bearer token" ELSE "unknown tool"]
  /\ UNCHANGED <<deployment, document, rejected, status, issued>>

Start(c) ==
  /\ call[c].phase = "admitted"
  /\ LET access == Access(call[c].jwt) IN
     /\ access \notin Endless
     /\ MayCall(access, call[c].name)
     /\ call' = [call EXCEPT
          ![c].phase = "started", ![c].access = access, ![c].document = document]
  /\ UNCHANGED <<deployment, document, rejected, status, issued>>

-----------------------------------------------------------------------------------
(* call_until_cancelled: a biased select of the cancellation and the call. *)

(* A mistake: cancellation is only looked for during the API request. *)
AbortableWhileCalling == {"calling"}

Abortable == {"started", "token", "calling"}

(* A mistake: the select takes either arm that is ready. *)
NotCancelledUnbiased(c) == TRUE

(* Polled first, a completed cancellation wins over a call that is ready.  *)
NotCancelled(c) == ~call[c].cancelled

(* The future is dropped, with the token or API request it was waiting for.*)
AbortCancelled(c) ==
  /\ call[c].phase \in Abortable
  /\ call[c].cancelled
  /\ call' = [call EXCEPT
       ![c].phase = "cancelled", ![c].recorded = Append(@, "cancelled")]
  /\ IF status[c] = Tokens!Idle THEN UNCHANGED <<status, issued>> ELSE Tokens!Leave(c)
  /\ UNCHANGED <<deployment, document, rejected>>

(* The result of the call, with its metric. *)
Answer(c, reply, outcome) ==
  call' = [call EXCEPT ![c].phase = "answered", ![c].reply = reply,
                       ![c].recorded = Append(@, outcome)]

(* A mistake: who has an identity is asked for, the others get the client's token. *)
AskerByIdentity(c) == IF call[c].access \in Identified THEN call[c].access ELSE Client

(* In whose name the token is asked for. *)
Asker(c) ==
  CASE deployment.upstream = "client" -> Client
    [] deployment.upstream = "delegated" /\ call[c].access \in Identified -> call[c].access
    [] OTHER -> Nobody

DenyNobody(c) ==
  /\ call[c].phase = "started" /\ NotCancelled(c)
  /\ deployment.upstream # "none"
  /\ Asker(c) = Nobody
  /\ Answer(c, "no identity", "auth_error")
  /\ UNCHANGED <<deployment, document, rejected, status, issued>>

AskToken(c) ==
  /\ call[c].phase = "started" /\ NotCancelled(c)
  /\ deployment.upstream # "none"
  /\ Asker(c) # Nobody
  /\ Tokens!Ask(c, Asker(c))
  /\ call' = [call EXCEPT ![c].phase = "token"]
  /\ UNCHANGED <<deployment, document, rejected>>

(* The provider's own steps: a token or a refusal for a waiting call.      *)
Provide(c) ==
  /\ \E a \in Askers : Tokens!Issue(c, a) \/ Tokens!HandOut(c, a) \/ Tokens!Deny(c, a)
  /\ UNCHANGED <<deployment, document, rejected, call>>

(* The token task panicked, and it is the call's own task: no reply.       *)
Die(c) ==
  /\ call[c].phase = "token"
  /\ \E a \in Askers : Tokens!Lose(c, a)
  /\ call' = [call EXCEPT ![c].phase = "dead"]
  /\ UNCHANGED <<deployment, document, rejected>>

TokenRefused(c) ==
  /\ call[c].phase = "token" /\ NotCancelled(c)
  /\ status[c].state = "denied"
  /\ Tokens!Leave(c)
  /\ Answer(c, "no token", "auth_error")
  /\ UNCHANGED <<deployment, document, rejected>>

(* The API request of a call, from the snapshot it pinned. *)
Request(c, bearer) ==
  [operation |-> call[c].document.tools[call[c].name],
   base |-> call[c].document.base, bearer |-> bearer]

(* execute: the request is sent, or cannot be built from the arguments (a  *)
(* path parameter is missing, a header is not valid).                      *)
Execute(c, bearer) ==
  \/ call' = [call EXCEPT ![c].phase = "calling", ![c].sent = Append(@, Request(c, bearer))]
  \/ Answer(c, "error", "error")

ExecuteBare(c) ==
  /\ call[c].phase = "started" /\ NotCancelled(c)
  /\ deployment.upstream = "none"
  /\ Execute(c, NoBearer)
  /\ UNCHANGED <<deployment, document, rejected, status, issued>>

ExecuteWithToken(c) ==
  /\ call[c].phase = "token" /\ NotCancelled(c)
  /\ status[c].state = "granted"
  /\ Execute(c, status[c].identity)
  /\ Tokens!Leave(c)
  /\ UNCHANGED <<deployment, document, rejected>>

(* A mistake: a failed request is sent once more. *)
RespondOrRetry(c) ==
  /\ call[c].phase = "calling" /\ NotCancelled(c)
  /\ \/ Answer(c, "result", "success")
     \/ call' = [call EXCEPT ![c].sent = IF Len(@) < 2 THEN @ \o @ ELSE @]
  /\ UNCHANGED <<deployment, document, rejected, status, issued>>

(* The API's answer, or the failure to get one, becomes the tool's result. *)
Respond(c) ==
  /\ call[c].phase = "calling" /\ NotCancelled(c)
  /\ Answer(c, "result", "success") \/ Answer(c, "error", "error")
  /\ UNCHANGED <<deployment, document, rejected, status, issued>>

-----------------------------------------------------------------------------------
(* The surroundings.                                                       *)

(* The client gives up: the token of the request's context is cancelled.   *)
CancelRequest(c) ==
  /\ call[c].phase \in {"admitted"} \cup Abortable
  /\ ~call[c].cancelled
  /\ call' = [call EXCEPT ![c].cancelled = TRUE]
  /\ UNCHANGED <<deployment, document, rejected, status, issued>>

Expire(jwt) ==
  /\ jwt \notin rejected \cup Endless
  /\ rejected' = rejected \cup {jwt}
  /\ UNCHANGED <<deployment, document, call, status, issued>>

(* A document that was fetched and built replaces the snapshot as a whole. *)
Reload(d) ==
  /\ document' = d
  /\ UNCHANGED <<deployment, rejected, call, status, issued>>

Poll(c) ==
  \/ DieOfExpiry(c) \/ Refuse(c) \/ Start(c) \/ AbortCancelled(c) \/ DenyNobody(c)
  \/ AskToken(c) \/ TokenRefused(c) \/ ExecuteBare(c) \/ ExecuteWithToken(c)

Next ==
  \/ \E jwt \in Jwts : Expire(jwt)
  \/ \E d \in Documents : Reload(d)
  \/ \E c \in Calls :
       \/ \E name \in Names, jwt \in Jwts \cup {NoJwt} : Arrive(c, name, jwt)
       \/ Challenge(c)
       \/ RefuseLarge(c)
       \/ Admit(c)
       \/ CancelRequest(c)
       \/ Poll(c)
       \/ Provide(c)
       \/ Die(c)
       \/ Respond(c)

Spec == Init /\ [][Next]_vars

(* The runtime polls a task that can go on. Neither the authorization      *)
(* server nor the API has to answer: the HTTP client has no timeout.       *)
FairSpec == Spec /\ \A c \in Calls : WF_vars(Poll(c))

-----------------------------------------------------------------------------------
(* Properties.                                                             *)

Requests ==
  [operation : Operations, base : {d.base : d \in Documents}, bearer : Askers \cup {NoBearer}]

Phases ==
  {"unmade", "arrived", "turned away", "admitted", "refused", "started", "token",
   "calling", "answered", "cancelled", "dead"}

Replies ==
  {"none", "challenge", "too large", "unknown tool", "needs a bearer token", "no identity", "no token",
   "error", "result"}

Outcomes == {"success", "error", "auth_error", "cancelled"}

CallType ==
  [phase : Phases, name : Names \cup {Nobody}, jwt : Jwts \cup {NoJwt},
   access : Jwts \cup {Anonymous, Unrestricted}, document : Documents \cup {NoDocument},
   cancelled : BOOLEAN, reply : Replies, sent : Seq(Requests), recorded : Seq(Outcomes)]

StatusType ==
  {Tokens!Idle, Tokens!Lost}
  \cup {Tokens!Pending(a) : a \in Askers} \cup {Tokens!Denied(a) : a \in Askers}
  \cup {Tokens!Granted(a, i) : a \in Askers, i \in Askers}

(* Every call is at one stage, and a call that runs has pinned a document  *)
(* in which its tool exists.                                               *)
TypeOK ==
  /\ deployment \in Deployments
  /\ document \in Documents
  /\ rejected \subseteq Jwts
  /\ call \in [Calls -> CallType]
  /\ status \in [Calls -> StatusType]
  /\ issued \subseteq Askers
  /\ \A c \in Calls : call[c].phase \in Abortable =>
       call[c].document \in Documents /\ call[c].name \in DOMAIN call[c].document.tools

SentBy(c) == {call[c].sent[i] : i \in DOMAIN call[c].sent}

(* What a caller with these credentials is entitled to, by the mappings.   *)
Entitled(jwt, op) ==
  \/ ~deployment.authorizing
  \/ op \in PublicOperations
  \/ /\ jwt \in Jwts
     /\ Rules = {} \/ \E r \in Rules : r.role \in RolesOf[jwt] /\ op \in r.operations

(* A reload never mixes two documents in one call, and never lets a call   *)
(* through on the permissions of another operation: what reaches the API   *)
(* is the operation and the base URL one document gives the tool's name,   *)
(* and the caller is entitled to that operation.                           *)
ApiRequestsAreAllowed ==
  \A c \in Calls : \A r \in SentBy(c) :
    /\ \E d \in Documents : /\ call[c].name \in DOMAIN d.tools
                            /\ r.operation = d.tools[call[c].name]
                            /\ r.base = d.base
    /\ Entitled(call[c].jwt, r.operation)

(* With a delegating grant the API only ever sees the caller's identity,   *)
(* with a plain one only this server's: no call falls back to another      *)
(* identity or to none.                                                    *)
ApiRequestsSpeakForTheCaller ==
  \A c \in Calls : \A r \in SentBy(c) :
    r.bearer = CASE deployment.upstream = "none"      -> NoBearer
                 [] deployment.upstream = "client"    -> Client
                 [] deployment.upstream = "delegated" -> call[c].jwt

(* The metric, the reply and the API agree on what became of a call: a     *)
(* success is one API request, a failed authorization none, a cancelled    *)
(* call has no reply, and a call that never ran is not counted.            *)
RecordsTellTheTruth ==
  \A c \in Calls :
    LET it == call[c] IN
    /\ Len(it.sent) <= 1
    /\ it.phase = "answered" =>
         \/ it.recorded = <<"success">> /\ it.reply = "result" /\ Len(it.sent) = 1
         \/ it.recorded = <<"error">> /\ it.reply = "error"
         \/ it.recorded = <<"auth_error">> /\ it.sent = << >>
    /\ it.phase = "cancelled" => it.recorded = <<"cancelled">> /\ it.reply = "none"
    /\ it.phase \notin {"answered", "cancelled"} => it.recorded = << >>

(* Once the client has cancelled, its call neither reaches the API nor     *)
(* asks for a token any more, and no result comes of it.                   *)
NothingAfterCancel ==
  [][\A c \in Calls : call[c].cancelled =>
       /\ call'[c].sent = call[c].sent
       /\ status[c].state = "idle" => status'[c].state = "idle"
       /\ call'[c].phase = "answered" => call[c].phase = "answered"]_vars

(* To a caller who may not see a tool, a call to it looks like a call to a *)
(* tool that does not exist.                                               *)
RefusalsTellNothing ==
  \A c, e \in Calls :
    /\ call[c].phase = "refused" /\ call[e].phase = "refused"
    /\ call[c].access = call[e].access
    /\ call[c].name \in DOMAIN call[c].document.tools
    /\ call[c].access = Anonymous => ~deployment.discovery
    /\ call[e].name \notin DOMAIN call[e].document.tools
    => call[c].reply = call[e].reply

Ended == {"refused", "answered", "cancelled", "dead"}

(* A cancelled call ends, even if neither the authorization server nor the *)
(* API ever answers.                                                       *)
CancelledCallsEnd ==
  \A c \in Calls : call[c].cancelled ~> call[c].phase \in Ended
===================================================================================
