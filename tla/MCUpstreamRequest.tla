----------------------------- MODULE MCUpstreamRequest -----------------------------
(* Small instances of UpstreamRequest. *)
EXTENDS UpstreamRequest

CONSTANTS id, tenant

SomeNames == {id, tenant, body, Authorization}

Of(n, l, r) == [name |-> n, location |-> l, required |-> r]

(* Parameters of one name in several places, one that is a header set on   *)
(* the command line, one called like the body.                             *)
SomeParameters ==
  {Of(id, "path", FALSE), Of(id, "query", FALSE), Of(id, "query", TRUE),
   Of(tenant, "header", FALSE), Of(tenant, "cookie", TRUE), Of(body, "query", FALSE),
   Of(Authorization, "header", FALSE)}

(* A path that has a placeholder for the one, and one that has none. *)
SomeTemplates == {{}, {id}}

SomeLevels == {<<>>} \cup {<<p>> : p \in SomeParameters}

TwoOfALevel == SomeLevels \cup {<<Of(id, "path", FALSE), p>> : p \in SomeParameters}

SomeConfigs ==
  [extra_headers : SUBSET {tenant, Authorization},
   forward_headers : SUBSET {tenant, Authorization}, upstream_oauth : BOOLEAN]

NoConfig == [extra_headers : {{}}, forward_headers : {{}}, upstream_oauth : {FALSE}]
===================================================================================
