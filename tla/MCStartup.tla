--------------------------------- MODULE MCStartup ---------------------------------
(* Small instances of Startup. *)
EXTENDS Startup, TLC

CONSTANTS
  tenant,       \* a header
  admin,        \* a role
  realm, other, \* issuers
  us, them,     \* audiences
  alice,        \* a subject
  k_rsa, k_oct, k_unknown

SomeHeaders == {Authorization, tenant}
SomeSubjects == {alice, realm, other}
SomeKeys == k_rsa :> "RSA" @@ k_oct :> "oct"

Both(v) == [p \in {"openapi", "upstream"} |-> v]

(* `oas2mcp http`, with nothing else to say. *)
Plain ==
  [above |-> {}, below |-> {"openapi-url"}, command |-> "http", openapi_auth |-> "own",
   grant |-> "client-credentials", signing_alg |-> Both("rs256"), key_file |-> Both("rsa"),
   headers |-> {}, openapi_headers |-> {}, forward_headers |-> {}, role_mapper |-> {},
   audiences |-> {}, issuers |-> {}, clock_skew |-> 0, resource |-> "http",
   bind_addr |-> "routable", allowed_hosts |-> {}, ca_certs |-> "none",
   reload_every |-> "positive"]

With(r) == r @@ Plain

u == upstream_flags
d == document_flags

(* Upstream grants: credentials and subjects on one level or two. *)
UpstreamLines ==
  {With([above |-> up \cup token, below |-> down \cup token \cup jwks \cup {"openapi-url"},
         command |-> IF down = {} THEN "stdio" ELSE "http", grant |-> grant,
         openapi_auth |-> auth]) :
     up \in SUBSET {u.client_secret, u.private_key, "upstream-oauth-subject"},
     down \in SUBSET ({u.client_secret, u.private_key} \cup SubjectFlags),
     token \in {{}, {u.token_url}, {u.token_url, u.client_id}},
     jwks \in {{}, {"inbound-jwks-file"}},
     grant \in UpstreamGrant, auth \in DocumentAuth}

(* Grants of the document fetch, and keys of every family. *)
DocumentLines ==
  {With([above |-> {d.token_url, d.client_id} \cup up, below |-> down \cup {"openapi-url"},
         openapi_auth |-> auth, openapi_headers |-> headers]) :
     up \in SUBSET {d.client_secret, d.private_key},
     down \in SUBSET {d.client_secret, d.private_key, d.assertion},
     auth \in DocumentAuth, headers \in SUBSET {tenant, Malformed}}
  \cup {With([above |-> {f.token_url, f.client_id, f.private_key}, key_file |-> Both(key),
               signing_alg |-> Both(alg)]) :
          f \in {d, u}, key \in {"rsa", "ec", "ed", "unreadable"}, alg \in SigningAlg}

(* Callers' tokens and the gate. *)
InboundLines ==
  {l \in {With([below |-> inbound \cup {"openapi-url"}, role_mapper |-> mapper,
                resource |-> resource, issuers |-> issuers, audiences |-> audiences,
                clock_skew |-> skew]) :
            inbound \in SUBSET InboundFlags,
            mapper \in {{}, {admin}, {PublicRole}, {admin, Malformed}},
            resource \in {"http", "not http", "fragment"}, issuers \in {{}, {realm}},
            audiences \in {{}, {us}}, skew \in 0..1} :
     Consistent(l)}

(* Headers from everywhere, on every transport. *)
HeaderLines ==
  {With([above |-> token, below |-> token \cup {"openapi-url"}, command |-> command,
         headers |-> headers, forward_headers |-> forwarded]) :
     token \in {{}, {u.token_url, u.client_id, u.client_secret}},
     command \in Commands, headers \in SUBSET {Authorization, tenant, Malformed},
     forwarded \in SUBSET {Authorization, tenant, Malformed}}

(* Where the document comes from, and who may connect. *)
SourceLines ==
  {With([above |-> up, below |-> down, ca_certs |-> ca, reload_every |-> interval]) :
     up \in SUBSET {"openapi-file", "openapi-url"},
     down \in SUBSET (SourceFlags \cup {"base-url"}),
     ca \in {"none", "usable", "empty", "unreadable"}, interval \in {"zero", "positive"}}
  \cup {With([above |-> {d.token_url, d.client_id, d.client_secret},
               below |-> {"openapi-url", "reload-every"}])}
  \cup {With([bind_addr |-> bind, allowed_hosts |-> hosts]) :
          bind \in {"loopback", "any address", "routable"}, hosts \in SUBSET {"mcp", AnyHost}}

SomeCommandLines ==
  UpstreamLines \cup DocumentLines \cup InboundLines \cup HeaderLines \cup SourceLines

SomeDocuments ==
  {[openapi |-> "3", servers |-> <<"relative", "absolute">>],
   [openapi |-> "3", servers |-> <<"relative">>], [openapi |-> "2", servers |-> <<"absolute">>]}

(* A token that is in order, and those that differ from it in one claim.   *)
GoodToken ==
  [kid |-> k_rsa, signed_by |-> k_rsa, alg |-> "PS256", exp |-> 1, aud |-> {us, them},
   iss |-> realm, subject_claim |-> alice,
   role_claim |-> [shape |-> "string", roles |-> {admin}]]

SomeTokens ==
  {GoodToken} \cup
  {[GoodToken EXCEPT !.kid = k_oct, !.signed_by = k_oct, !.alg = "HS256"],
   [GoodToken EXCEPT !.alg = "HS256"], [GoodToken EXCEPT !.signed_by = k_unknown],
   [GoodToken EXCEPT !.kid = Absent], [GoodToken EXCEPT !.exp = Absent],
   [GoodToken EXCEPT !.aud = {}], [GoodToken EXCEPT !.aud = {them}],
   [GoodToken EXCEPT !.iss = Absent], [GoodToken EXCEPT !.iss = other],
   [GoodToken EXCEPT !.subject_claim = NotAString]}

SomeTimes == 1..3
===================================================================================
