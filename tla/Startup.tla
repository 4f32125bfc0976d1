---------------------------------- MODULE Startup ----------------------------------
(***************************************************************************)
(* From the command line to a server: main, step by step. Each step passes *)
(* or ends the program; those that read a file or ask another server may   *)
(* end it whatever the configuration. Once it serves, the document is      *)
(* fetched again and again, and callers are told apart by their tokens.    *)
(***************************************************************************)
EXTENDS CommandLine, InboundTokens

CONSTANTS
  CommandLines,   \* the command lines given
  Documents,      \* what the document's file or URL may hold
  Tokens,         \* the tokens callers present
  Times,          \* when they do
  RequestHosts    \* the hosts their requests name

AuthorizerType ==
  [audiences : SUBSET Audiences, issuers : SUBSET Issuers, clock_skew : Nat,
   roles : SUBSET (Roles \cup {Malformed}), public : BOOLEAN, anonymous_discovery : BOOLEAN]

ProtectedResourceType == [authorization_servers : SUBSET Issuers]

ASSUME StartupAssumption ==
  /\ CommandLines \subseteq {c \in CliType : Consistent(c)}
  /\ Documents \subseteq DocumentType
  /\ Absent \notin Tokens \cup Documents \cup Issuers
  /\ Times \subseteq Nat
  /\ Issuers \subseteq Subjects
  /\ Absent \notin AuthorizerType /\ Absent \notin ProtectedResourceType

VARIABLES
  cli,         \* the command line
  stage,       \* what main does next, or how it ended
  published,   \* the document at its URL
  document,    \* the one loaded last, or Absent
  authorizer,  \* what verifies callers, or Absent
  protected,   \* the protected resource in front of the server, or Absent
  server,      \* what the server was built with, or Absent
  reload_loop, \* "none", "waiting", "fetching", "dead"
  received     \* a request: its token, time and host, and what became of it

vars == <<cli, stage, published, document, authorizer, protected, server, reload_loop, received>>
config_vars == <<cli, authorizer, protected, server>>

NoRequest ==
  [token |-> Absent, at |-> 0, host |-> Absent, answer |-> "none", caller |-> Nobody]

Init ==
  /\ cli \in CommandLines
  /\ stage = "parse"
  /\ published \in Documents
  /\ document = Absent /\ authorizer = Absent /\ protected = Absent /\ server = Absent
  /\ reload_loop = "none"
  /\ received = NoRequest

-----------------------------------------------------------------------------------
(* Stages.                                                                 *)

(* A step of main that passes, or ends the program with an error. *)
Step(from, passes, to) == stage = from /\ stage' = IF passes THEN to ELSE "refused"

(* What a step does that another server, a file or a port lets down. *)
Fallible == {"load", "authorizer", "telemetry", "metrics", "serve"}

LetDown ==
  /\ stage \in Fallible
  /\ stage' = "refused"
  /\ UNCHANGED <<config_vars, published, document, reload_loop, received>>

Parse ==
  /\ Step("parse", parses(cli), IF cli.command = "healthcheck" THEN "probe" ELSE "doc_auth")
  /\ UNCHANGED <<config_vars, published, document, reload_loop, received>>

(* Whether something listens is not this program's to know. *)
Probe ==
  /\ stage = "probe"
  /\ stage' \in {"refused", "stopped"}
  /\ UNCHANGED <<config_vars, published, document, reload_loop, received>>

BuildDocAuth ==
  /\ Step("doc_auth", DocAuthFromCli(cli), "load")
  /\ UNCHANGED <<config_vars, published, document, reload_loop, received>>

(* From the file, if there is one, or else from the URL. *)
Source ==
  IF "openapi-file" \in Given(cli) THEN Documents
  ELSE IF "openapi-url" \in Given(cli) THEN {published}
  ELSE {}

LoadDocument ==
  /\ \/ \E d \in Source :
          /\ Step("load", check_version(d), "authorizer")
          /\ document' = IF check_version(d) THEN d ELSE Absent
     \/ /\ Source = {}
        /\ Step("load", FALSE, "authorizer")
        /\ UNCHANGED document
  /\ UNCHANGED <<config_vars, published, reload_loop, received>>

load_jwks == {"inbound-jwks-url", "inbound-jwks-file"} \cap Given(cli) # {}

(* No authorizer without a JWKS. *)
NewAuthorizer ==
  IF cli.command = "http" /\ load_jwks
  THEN [audiences |-> cli.audiences, issuers |-> cli.issuers, clock_skew |-> cli.clock_skew,
        roles |-> cli.role_mapper \ {PublicRole}, public |-> PublicRole \in cli.role_mapper,
        anonymous_discovery |-> "inbound-anonymous-discovery" \in Given(cli)]
  ELSE Absent

BuildAuthorizer ==
  /\ Step("authorizer", NewAuthorizer # Absent =>
                          /\ "inbound-jwks-url" \in Given(cli) => client(cli)
                          /\ Malformed \notin cli.role_mapper, "delegation")
  /\ authorizer' = IF stage' = "delegation" THEN NewAuthorizer ELSE Absent
  /\ UNCHANGED <<cli, published, document, protected, server, reload_loop, received>>

(* A mistake: any transport will do. *)
check_delegation_anywhere ==
  (/\ upstream_flags.token_url \in Given(cli)
   /\ cli.grant = "jwt-bearer"
   /\ "upstream-oauth-subject" \notin Given(cli))
  => authorizer # Absent

(* A grant that delegates needs callers with a verified token. *)
check_delegation_is_possible ==
  (/\ upstream_flags.token_url \in Given(cli)
   /\ cli.grant # "client-credentials"
   /\ "upstream-oauth-subject" \notin Given(cli))
  => cli.command = "http" /\ authorizer # Absent

CheckDelegation ==
  /\ Step("delegation", check_delegation_is_possible, "resource")
  /\ UNCHANGED <<config_vars, published, document, reload_loop, received>>

(* The issuers that are accepted are the authorization servers advertised. *)
NewProtectedResource ==
  IF "inbound-resource" \in Given(cli) /\ authorizer # Absent
  THEN [authorization_servers |-> cli.issuers]
  ELSE Absent

BuildResource ==
  /\ Step("resource", NewProtectedResource # Absent =>
                        cli.resource = "http" /\ cli.issuers # {}, "telemetry")
  /\ protected' = IF stage' = "telemetry" THEN NewProtectedResource ELSE Absent
  /\ UNCHANGED <<cli, published, document, authorizer, server, reload_loop, received>>

BuildTelemetry ==
  /\ Step("telemetry", TRUE, "server")
  /\ UNCHANGED <<config_vars, published, document, reload_loop, received>>

(* Whether the server tells its clients of changes; it looks at the flags  *)
(* by itself, as main does when it comes to the loop.                      *)
reloads == {"reload-every", "openapi-url"} \subseteq Given(cli)

BuildServer ==
  /\ Step("server", from_spec(cli, document), "metrics")
  /\ server' = IF stage' = "metrics"
               THEN [grant |-> Grant(cli, upstream_flags), list_changed |-> reloads,
                     allowed_hosts |-> resolve_allowed_hosts(cli)]
               ELSE Absent
  /\ UNCHANGED <<cli, published, document, authorizer, protected, reload_loop, received>>

ServeMetrics ==
  /\ Step("metrics", TRUE, "reload")
  /\ UNCHANGED <<config_vars, published, document, reload_loop, received>>

(* A mistake: a loop for a document that came from a file. *)
SpawnForAnySource ==
  /\ Step("reload", TRUE, "serve")
  /\ reload_loop' = IF "reload-every" \in Given(cli) THEN "waiting" ELSE "none"
  /\ UNCHANGED <<config_vars, published, document, received>>

(* Only a URL is read again. A timer of no interval panics, and only the   *)
(* loop's own task with it.                                                *)
SpawnReloadLoop ==
  /\ Step("reload", TRUE, "serve")
  /\ reload_loop' =
       IF "reload-every" \notin Given(cli) THEN "none"
       ELSE IF "openapi-url" \notin Given(cli) THEN "none"
       ELSE IF cli.reload_every = "zero" THEN "dead" ELSE "waiting"
  /\ UNCHANGED <<config_vars, published, document, received>>

Serve ==
  /\ Step("serve", TRUE, "serving")
  /\ UNCHANGED <<config_vars, published, document, reload_loop, received>>

(* The streams of the transport have ended. *)
Stop ==
  /\ stage = "serving"
  /\ stage' = "stopped"
  /\ UNCHANGED <<config_vars, published, document, reload_loop, received>>

-----------------------------------------------------------------------------------
(* Reloading: from when the loop is spawned, until main ends.              *)

Running == stage \in {"serve", "serving"}

(* The document at the URL changes, which only matters to a server that    *)
(* says it reads it again, or does.                                        *)
Publish ==
  /\ Running /\ (server.list_changed \/ reload_loop # "none")
  /\ published' \in Documents
  /\ UNCHANGED <<config_vars, stage, document, reload_loop, received>>

Tick ==
  /\ Running /\ reload_loop = "waiting"
  /\ reload_loop' = "fetching"
  /\ UNCHANGED <<config_vars, stage, published, document, received>>

FetchFails ==
  /\ Running /\ reload_loop = "fetching"
  /\ reload_loop' = "waiting"
  /\ UNCHANGED <<config_vars, stage, published, document, received>>

(* A token with a lifetime beyond the clock's end makes the provider panic *)
(* (see TokenProvider), and the loop is the task that asked for it.        *)
LoopDies ==
  /\ Running /\ reload_loop = "fetching"
  /\ DocumentGrant(cli) # "none"
  /\ reload_loop' = "dead"
  /\ UNCHANGED <<config_vars, stage, published, document, received>>

(* A mistake: a document no server can be built from ends the loop. *)
ReloadOrEnd ==
  /\ Running /\ reload_loop = "fetching"
  /\ IF check_version(published) /\ build_snapshot(cli, published)
     THEN document' = published /\ reload_loop' = "waiting"
     ELSE document' = document /\ reload_loop' = "none"
  /\ UNCHANGED <<config_vars, stage, published, received>>

(* What was fetched takes the place of the document when a server could be *)
(* built from it; otherwise that stays.                                    *)
Reload ==
  /\ Running /\ reload_loop = "fetching"
  /\ document' = IF check_version(published) /\ build_snapshot(cli, published)
                 THEN published ELSE document
  /\ reload_loop' = "waiting"
  /\ UNCHANGED <<config_vars, stage, published, received>>

-----------------------------------------------------------------------------------
(* Requests of the HTTP transport.                                         *)

admits_anonymous == authorizer.public \/ authorizer.anonymous_discovery

(* Whether the gate lets a request pass, if there is one. *)
GateAdmits(token, now) ==
  protected # Absent =>
    IF token = Absent THEN admits_anonymous ELSE verify(authorizer, token, now)

(* rmcp's check of the `Host`: an empty list lets every host pass. *)
HostAdmits(host) == server.allowed_hosts = {} \/ host \in server.allowed_hosts

(* The gate comes first, then rmcp, then the handler, which verifies the   *)
(* token for itself: it may have run out since the gate has seen it.       *)
(* Nothing is kept of a request, so that following one is enough.          *)
Receive(token, seen, now, host) ==
  /\ stage = "serving" /\ cli.command = "http"
  /\ received = NoRequest /\ seen <= now
  /\ received' =
       [token |-> token, at |-> now, host |-> host,
        answer |-> IF ~GateAdmits(token, seen) THEN "challenged"
                   ELSE IF ~HostAdmits(host) THEN "forbidden" ELSE "handled",
        caller |-> IF GateAdmits(token, seen) /\ HostAdmits(host)
                   THEN caller(authorizer, token, now) ELSE Nobody]
  /\ UNCHANGED <<config_vars, stage, published, document, reload_loop>>

Next ==
  \/ LetDown
  \/ Parse \/ Probe \/ BuildDocAuth \/ LoadDocument \/ BuildAuthorizer \/ CheckDelegation
  \/ BuildResource \/ BuildTelemetry \/ BuildServer \/ ServeMetrics \/ SpawnReloadLoop
  \/ Serve \/ Stop
  \/ Publish \/ Tick \/ FetchFails \/ LoopDies \/ Reload
  \/ \E token \in Tokens \cup {Absent}, seen, now \in Times, host \in RequestHosts :
       Receive(token, seen, now, host)

(* The interval passes, and a source that goes on answering is heard. *)
Spec == Init /\ [][Next]_vars /\ WF_vars(Tick) /\ SF_vars(Reload)

-----------------------------------------------------------------------------------
(* Properties.                                                             *)

TypeOK ==
  /\ cli \in CliType /\ Consistent(cli)
  /\ stage \in Fallible \cup {"parse", "probe", "doc_auth", "delegation", "resource", "server",
                              "reload", "serving", "stopped", "refused"}
  /\ published \in Documents
  /\ document \in Documents \cup {Absent}
  /\ authorizer \in AuthorizerType \cup {Absent}
  /\ protected \in ProtectedResourceType \cup {Absent}
  /\ reload_loop \in {"none", "waiting", "fetching", "dead"}

(* Nobody is asked for an identity who cannot have one: a server whose     *)
(* grant acts for its callers has callers with verified tokens, and the    *)
(* document, which is fetched for nobody, needs none.                      *)
DelegationHasCallers ==
  stage = "serving" =>
    /\ needs_caller_identity(server.grant) => cli.command = "http" /\ authorizer # Absent
    /\ ~needs_caller_identity(DocumentGrant(cli))

(* "A shared secret or a signed assertion, never both": also when the two  *)
(* are given on two levels of the command line, which clap does not        *)
(* compare, whatever grant a server has has one credential, and one that   *)
(* can sign what it is to sign.                                            *)
OneCredential ==
  stage \in {"serve", "serving"} =>
    \A f \in {document_flags, upstream_flags} :
      f.token_url \in Given(cli) =>
        /\ (f.client_secret \in Given(cli)) # (f.private_key \in Given(cli))
        /\ f.private_key \in Given(cli) =>
             cli.key_file[f.prefix] = family(cli.signing_alg[f.prefix])

(* Whoever gives a JWKS, or a flag that asks for one, gets callers told    *)
(* apart: nobody's request is handled as if access were not restricted.    *)
(* (What is expected of a token's claims asks for none, and does nothing   *)
(* without.)                                                               *)
(* With --inbound-resource a request without a good token is only handled  *)
(* where the flags let anonymous callers in, or when its token ran out     *)
(* between the gate and the handler.                                       *)
AccessIsGuarded ==
  received.answer = "handled" =>
    /\ InboundFlags \cap Given(cli) # {} => received.caller.access # "unrestricted"
    /\ "inbound-resource" \in Given(cli) =>
         \/ received.caller.access = "authenticated"
         \/ /\ received.token = Absent
            /\ PublicRole \in cli.role_mapper \/ "inbound-anonymous-discovery" \in Given(cli)
         \/ /\ received.token # Absent
            /\ ~(received.at <= received.token.exp + cli.clock_skew)

(* No request is handled for a host other than those listed, or, with none *)
(* listed on a loopback address, other than the loopback names.            *)
HostsAreChecked ==
  received.answer = "handled" /\ AnyHost \notin cli.allowed_hosts =>
    \/ received.host \in cli.allowed_hosts
    \/ /\ cli.allowed_hosts = {}
       /\ cli.bind_addr = "loopback" => received.host \in LoopbackHosts

(* Clients are promised news of the tool list where a loop was started to  *)
(* make some, and nowhere else: the two are decided in two places.         *)
ReloadsAreAnnounced == stage = "serving" => (server.list_changed <=> reload_loop # "none")

(* What the flags of access, hosts and reloading are given for happens to  *)
(* the requests that are handled, and to the clients.                      *)
FlagsTakeEffect == AccessIsGuarded /\ HostsAreChecked /\ ReloadsAreAnnounced

(* A caller is only taken for somebody on a token signed with a key of the *)
(* set, by an algorithm of that key's, that has not run out, is meant for  *)
(* this server and, behind the gate, comes from an authorization server it *)
(* advertises: one that leaves such a claim out is no exception.           *)
AcceptedTokensAreOurs ==
  received.caller.access = "authenticated" =>
    /\ received.token.signed_by \in DOMAIN Jwks
    /\ received.token.alg # "HS256"
    /\ received.at <= received.token.exp + cli.clock_skew
    /\ cli.audiences # {} => received.token.aud \cap cli.audiences # {}
    /\ protected # Absent => received.token.iss \in protected.authorization_servers

Usable(d) == check_version(d) /\ build_snapshot(cli, d)

(* Reloading goes on, whatever failed before: a server that was started to *)
(* reload serves the document its source settles on, if it can at all and  *)
(* its loop has not panicked.                                              *)
ReloadingGoesOn ==
  \A d \in Documents :
    <>[](/\ stage = "serving" /\ server.list_changed /\ reload_loop # "dead"
         /\ published = d /\ Usable(d))
    => <>[](document = d)

===================================================================================
