------------------------------- MODULE CommandLine -------------------------------
(***************************************************************************)
(* The command line: which flags there are, which combinations clap lets   *)
(* through, and what the program makes of those it lets through. A flag is *)
(* a string, and is given before the transport's name, after it, or both   *)
(* (as an environment variable is); the values of flags are kept where the *)
(* program tells them apart.                                               *)
(***************************************************************************)
EXTENDS Naturals, Sequences

CONSTANTS
  Headers,        \* header names
  Authorization,  \* the header the upstream OAuth token goes in
  Hosts,          \* names of hosts
  AnyHost,        \* the `*` of --allowed-host
  Roles,          \* roles, as role mappings name them
  PublicRole,     \* the `*` of --inbound-role-mapper
  Issuers,        \* `iss` claims
  Audiences,      \* `aud` claims
  Malformed       \* a header or a role mapping that does not parse

ASSUME CommandLineAssumption ==
  /\ Authorization \in Headers
  /\ PublicRole \notin Roles
  /\ Malformed \notin Headers \cup Roles \cup {PublicRole}
  /\ AnyHost \notin Hosts

-----------------------------------------------------------------------------------
(* Values.                                                                 *)

UpstreamGrant == {"client-credentials", "jwt-bearer", "jwt-bearer-relay"}

DocumentAuth == {"own", "upstream"}

Commands == {"stdio", "sse", "http", "healthcheck"}

SigningAlg ==
  {"rs256", "rs384", "rs512", "ps256", "ps384", "ps512", "es256", "es384", "eddsa"}

family(alg) ==
  CASE alg \in {"es256", "es384"} -> "ec"
    [] alg = "eddsa" -> "ed"
    [] OTHER -> "rsa"

-----------------------------------------------------------------------------------
(* Flags.                                                                  *)

SourceFlags == {"openapi-file", "openapi-url", "reload-every"}

(* The flags of a grant. The assertion's are those that only say something *)
(* about a signed assertion: its key id, audience and lifetime.            *)
document_flags ==
  [prefix |-> "openapi", token_url |-> "openapi-oauth-token-url",
   client_id |-> "openapi-oauth-client-id", client_secret |-> "openapi-oauth-client-secret",
   private_key |-> "openapi-oauth-private-key", assertion |-> "openapi-oauth-assertion"]

upstream_flags ==
  [prefix |-> "upstream", token_url |-> "upstream-oauth-token-url",
   client_id |-> "upstream-oauth-client-id", client_secret |-> "upstream-oauth-client-secret",
   private_key |-> "upstream-oauth-private-key", assertion |-> "upstream-oauth-assertion"]

FlagsOf(f) == {f.token_url, f.client_id, f.client_secret, f.private_key, f.assertion}

SubjectFlags == {"upstream-oauth-subject", "upstream-oauth-subject-claim"}

(* The flags of `http` alone. *)
InboundFlags ==
  {"inbound-jwks-url", "inbound-jwks-file", "inbound-role-mapper",
   "inbound-anonymous-discovery", "inbound-resource"}

GlobalFlags ==
  SourceFlags \cup FlagsOf(document_flags) \cup FlagsOf(upstream_flags)
  \cup SubjectFlags \cup {"base-url"}

CliType ==
  [above : SUBSET GlobalFlags, below : SUBSET (GlobalFlags \cup InboundFlags),
   command : Commands, openapi_auth : DocumentAuth, grant : UpstreamGrant,
   signing_alg : [{"openapi", "upstream"} -> SigningAlg],
   key_file : [{"openapi", "upstream"} -> {"rsa", "ec", "ed", "unreadable"}],
   headers : SUBSET (Headers \cup {Malformed}),
   openapi_headers : SUBSET (Headers \cup {Malformed}),
   forward_headers : SUBSET (Headers \cup {Malformed}),
   role_mapper : SUBSET (Roles \cup {PublicRole, Malformed}),
   audiences : SUBSET Audiences, issuers : SUBSET Issuers, clock_skew : Nat,
   resource : {"http", "not http", "fragment"},
   bind_addr : {"loopback", "any address", "routable"},
   allowed_hosts : SUBSET (Hosts \cup {AnyHost}),
   ca_certs : {"none", "usable", "empty", "unreadable"}, reload_every : {"zero", "positive"}]

(* A repeatable flag is given when it has a value. *)
Consistent(c) == ("inbound-role-mapper" \in c.below) = (c.role_mapper # {})

(* The flags of both levels are one configuration. *)
Given(c) == c.above \cup c.below

-----------------------------------------------------------------------------------
(* What clap refuses.                                                      *)

Conflicts ==
  {{"openapi-file", "openapi-url"}, {"inbound-jwks-url", "inbound-jwks-file"}, SubjectFlags,
   {document_flags.client_secret, document_flags.private_key},
   {upstream_flags.client_secret, upstream_flags.private_key}}

(* A mistake: nothing asks for a JWKS. *)
RequiresNoJwks ==
  {[flag |-> f.token_url, one_of |-> {f.client_id}] : f \in {document_flags, upstream_flags}}
  \cup {[flag |-> f.assertion, one_of |-> {f.private_key}] :
          f \in {document_flags, upstream_flags}}

Requires ==
  {[flag |-> f.token_url, one_of |-> {f.client_id}] : f \in {document_flags, upstream_flags}}
  \cup {[flag |-> f.assertion, one_of |-> {f.private_key}] :
          f \in {document_flags, upstream_flags}}
  \cup {[flag |-> x, one_of |-> {"inbound-jwks-url", "inbound-jwks-file"}] :
          x \in {"inbound-role-mapper", "inbound-anonymous-discovery", "inbound-resource"}}

(* Each level is checked by itself, and a requirement is excused when a    *)
(* flag that is present conflicts with what is required.                   *)
LevelParses(level) ==
  /\ \A pair \in Conflicts : ~(pair \subseteq level)
  /\ \A r \in Requires :
       r.flag \in level =>
         \/ r.one_of \cap level # {}
         \/ \E pair \in Conflicts : pair \cap level # {} /\ pair \cap r.one_of # {}

(* The inbound flags are known after `http` only. *)
parses(c) ==
  /\ LevelParses(c.above) /\ LevelParses(c.below)
  /\ c.command # "http" => c.below \cap InboundFlags = {}

-----------------------------------------------------------------------------------
(* OAuth grants.                                                           *)

(* The grant its flags ask for. The document's is always the client's own. *)
Grant(c, f) ==
  IF f.token_url \notin Given(c) THEN "none"
  ELSE IF f.prefix = "openapi" \/ c.grant = "client-credentials" THEN "client-credentials"
  ELSE IF c.grant = "jwt-bearer-relay" THEN "relayed token"
  ELSE IF "upstream-oauth-subject" \in Given(c) THEN "fixed subject"
  ELSE "caller's subject"

needs_caller_identity(grant) == grant \in {"relayed token", "caller's subject"}

(* How the client authenticates. *)
ClientAuth(c, f) == IF f.private_key \in Given(c) THEN "private key" ELSE "secret"

(* A mistake: clap is thought to have seen to it that there is one. *)
from_flags_trusting(c, f) ==
  f.token_url \in Given(c) =>
    /\ f.client_id \in Given(c)
    /\ {f.private_key, f.client_secret} \cap Given(c) # {}
    /\ ClientAuth(c, f) = "private key" => c.key_file[f.prefix] = family(c.signing_alg[f.prefix])
    /\ Grant(c, f) = "relayed token" => "upstream-oauth-subject" \notin Given(c)
    /\ Grant(c, f) \in {"fixed subject", "caller's subject"} => ClientAuth(c, f) = "private key"

(* Whether they make a grant: a client with one credential, a key of its   *)
(* algorithm's family, and a key at all when it is to sign the grant.      *)
from_flags(c, f) ==
  f.token_url \in Given(c) =>
    /\ f.client_id \in Given(c)
    /\ (f.private_key \in Given(c)) # (f.client_secret \in Given(c))
    /\ ClientAuth(c, f) = "private key" => c.key_file[f.prefix] = family(c.signing_alg[f.prefix])
    /\ Grant(c, f) = "relayed token" => "upstream-oauth-subject" \notin Given(c)
    /\ Grant(c, f) \in {"fixed subject", "caller's subject"} => ClientAuth(c, f) = "private key"

(* A client for requests of any kind: its extra roots must be certificates. *)
client(c) == c.ca_certs \in {"none", "usable"}

-----------------------------------------------------------------------------------
(* The document.                                                           *)

parse_headers(given) == Malformed \notin given

(* The flags the document fetch authenticates with. *)
DocumentGrant(c) ==
  Grant(c, IF c.openapi_auth = "own" THEN document_flags ELSE upstream_flags)

DocAuthFromCli(c) ==
  /\ client(c)
  /\ \/ c.openapi_auth = "own" /\ parse_headers(c.openapi_headers) /\ from_flags(c, document_flags)
     \/ /\ c.openapi_auth = "upstream"
        /\ c.openapi_headers = {} /\ document_flags.token_url \notin Given(c)
        /\ from_flags(c, upstream_flags)
        /\ ~needs_caller_identity(Grant(c, upstream_flags))
        /\ parse_headers(c.headers)

(* A document: its `openapi` field, up to the first dot, and its servers.  *)
DocumentType == [openapi : {"3", "2", ""}, servers : Seq({"absolute", "relative"})]

check_version(d) == d.openapi = "3"

(* The upstream's base URL: the flag's, or else the first server's that is *)
(* an absolute URL.                                                        *)
resolve_base_url(c, d) ==
  "base-url" \in Given(c) \/ \E i \in DOMAIN d.servers : d.servers[i] = "absolute"

(* Building the tools cannot fail otherwise: a document without usable     *)
(* operations makes an empty set.                                          *)
build_snapshot(c, d) == resolve_base_url(c, d)

-----------------------------------------------------------------------------------
(* The server.                                                             *)

(* A header with two sources is refused. Only HTTP forwards any.           *)
check_header_sources(c) ==
  LET forwarded == IF c.command = "http" THEN c.forward_headers ELSE {}
  IN  /\ forwarded \cap c.headers = {}
      /\ upstream_flags.token_url \in Given(c) => Authorization \notin c.headers \cup forwarded

from_spec(c, d) ==
  /\ parse_headers(c.headers)
  /\ c.command = "http" => parse_headers(c.forward_headers)
  /\ build_snapshot(c, d)
  /\ client(c)
  /\ from_flags(c, upstream_flags)
  /\ check_header_sources(c)

LoopbackHosts == {"localhost", "127.0.0.1", "::1"}

(* A mistake: the list is passed on as it was given. *)
allowed_hosts_as_given(c) == c.allowed_hosts \ {AnyHost}

(* The `Host` values accepted, any if there are none in it. *)
resolve_allowed_hosts(c) ==
  IF AnyHost \in c.allowed_hosts THEN {}
  ELSE IF c.allowed_hosts = {} /\ c.bind_addr = "loopback" THEN LoopbackHosts
  ELSE c.allowed_hosts

===================================================================================
