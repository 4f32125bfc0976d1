------------------------------- MODULE StartupProofs -------------------------------
(***************************************************************************)
(* What main has checked by the time it serves, for every command line,    *)
(* document and token.                                                     *)
(***************************************************************************)
EXTENDS Startup, Configuration, TLAPS

(* The stages main passes through, each with those it has behind it. *)
Serving == {"serve", "serving"}
PastServer == Serving \cup {"metrics", "reload"}
PastResource == PastServer \cup {"telemetry", "server"}
PastDelegation == PastResource \cup {"resource"}
PastAuthorizer == PastDelegation \cup {"delegation"}
PastDocAuth == PastAuthorizer \cup {"load", "authorizer"}
PastParse == PastDocAuth \cup {"doc_auth"}

(* What the server was built with. *)
Built ==
  [grant |-> Grant(cli, upstream_flags), list_changed |-> reloads,
   allowed_hosts |-> resolve_allowed_hosts(cli)]

(* What a stage has found in order stays in order: the command line never  *)
(* changes, and nothing main builds is built twice.                        *)
Checked ==
  /\ stage \in PastParse => parses(cli) /\ cli.command # "healthcheck"
  /\ stage \in PastDocAuth => DocAuthFromCli(cli)
  /\ stage \in PastAuthorizer => authorizer = NewAuthorizer
  /\ stage \in PastDelegation => check_delegation_is_possible
  /\ stage \in PastResource =>
       /\ protected = NewProtectedResource
       /\ protected # Absent => cli.issuers # {}
  /\ stage \in PastServer => from_flags(cli, upstream_flags) /\ server = Built
  /\ stage \in {"parse"} \cup PastParse =>
       stage = "serving" \/ received = NoRequest
  /\ stage \in Serving => (reload_loop # "none" <=> reloads)

(* What is known of the request that was followed. *)
ReceivedFits == AcceptedTokensAreOurs /\ AccessIsGuarded /\ HostsAreChecked

IInv == TypeOK /\ Checked /\ ReceivedFits

(* A flag of `http` is one given after it. *)
LEMMA InboundFlagsAreBelow ==
  ASSUME TypeOK, NEW flag \in InboundFlags, flag \in Given(cli)
  PROVE  flag \in cli.below
<1>1. cli.above \subseteq GlobalFlags
  BY DEF TypeOK, CliType
<1>2. InboundFlags \cap GlobalFlags = {}
  BY DEF InboundFlags, GlobalFlags, SourceFlags, FlagsOf, SubjectFlags, document_flags,
         upstream_flags
<1> QED
  BY <1>1, <1>2 DEF Given

(* The flags that say something about verified callers come with a JWKS:   *)
(* what would excuse the requirement is one of the JWKS flags itself.      *)
LEMMA AccessFlagsComeWithKeys ==
  ASSUME TypeOK, parses(cli),
         NEW flag \in {"inbound-role-mapper", "inbound-anonymous-discovery", "inbound-resource"},
         flag \in Given(cli)
  PROVE  cli.command = "http" /\ load_jwks
<1> DEFINE keys == {"inbound-jwks-url", "inbound-jwks-file"}
           requirement == [flag |-> flag, one_of |-> keys]
<1>1. flag \in cli.below
  BY InboundFlagsAreBelow DEF InboundFlags
<1>2. LevelParses(cli.below)
  BY DEF parses
<1>3. requirement \in Requires
  BY DEF Requires
<1>4. \/ keys \cap cli.below # {}
      \/ \E pair \in Conflicts : pair \cap cli.below # {} /\ pair \cap keys # {}
  BY <1>1, <1>2, <1>3 DEF LevelParses
<1>5. \A pair \in Conflicts : pair \cap keys # {} => pair = keys
  BY DEF Conflicts, SubjectFlags, document_flags, upstream_flags
<1>6. keys \cap cli.below # {}
  BY <1>4, <1>5
<1>7. cli.command = "http"
  BY <1>1, Zenon DEF parses, InboundFlags
<1> QED
  BY <1>6, <1>7 DEF load_jwks, Given

LEMMA AuthorizerIsSomething ==
  ASSUME TypeOK, cli.command = "http", load_jwks
  PROVE  NewAuthorizer \in AuthorizerType /\ NewAuthorizer # Absent
<1>1. /\ cli.audiences \in SUBSET Audiences /\ cli.issuers \in SUBSET Issuers
      /\ cli.clock_skew \in Nat
      /\ cli.role_mapper \in SUBSET (Roles \cup {PublicRole, Malformed})
  BY DEF TypeOK, CliType
<1>2. cli.role_mapper \ {PublicRole} \in SUBSET (Roles \cup {Malformed})
  BY <1>1
<1>3. NewAuthorizer \in AuthorizerType
  BY <1>1, <1>2 DEF NewAuthorizer, AuthorizerType
<1> QED
  BY <1>3, StartupAssumption

LEMMA ResourceIsSomething ==
  ASSUME TypeOK
  PROVE  /\ [authorization_servers |-> cli.issuers] \in ProtectedResourceType
         /\ [authorization_servers |-> cli.issuers] # Absent
<1>1. cli.issuers \in SUBSET Issuers
  BY DEF TypeOK, CliType
<1> QED
  BY <1>1, StartupAssumption DEF ProtectedResourceType

LEMMA Initially == Init => IInv
<1> SUFFICES ASSUME Init PROVE IInv
  OBVIOUS
<1>1. TypeOK
  BY StartupAssumption DEF Init, TypeOK
<1>2. Checked
  BY DEF Init, Checked, PastParse, PastDocAuth, PastAuthorizer, PastDelegation, PastResource,
         PastServer, Serving
<1>3. ReceivedFits
  BY DEF Init, ReceivedFits, AcceptedTokensAreOurs, AccessIsGuarded, HostsAreChecked, NoRequest,
         Nobody
<1> QED
  BY <1>1, <1>2, <1>3 DEF IInv

LEMMA CommandLineStays == [Next]_vars => cli' = cli
  BY DEF Next, vars, config_vars, LetDown, Parse, Probe, BuildDocAuth, LoadDocument,
         BuildAuthorizer, CheckDelegation, BuildResource, BuildTelemetry, BuildServer,
         ServeMetrics, SpawnReloadLoop, Serve, Stop, Publish, Tick, FetchFails, LoopDies,
         Reload, Receive

(* What follows from the command line, and from the authorizer, stays as   *)
(* long as they do.                                                        *)
LEMMA ConsequencesStay ==
  ASSUME cli' = cli
  PROVE  /\ parses(cli)' = parses(cli)
         /\ DocAuthFromCli(cli)' = DocAuthFromCli(cli)
         /\ NewAuthorizer' = NewAuthorizer
         /\ reloads' = reloads
         /\ from_flags(cli, upstream_flags)' = from_flags(cli, upstream_flags)
         /\ Built' = Built
         /\ authorizer' = authorizer =>
              /\ check_delegation_is_possible' = check_delegation_is_possible
              /\ NewProtectedResource' = NewProtectedResource
<1>1. parses(cli)' = parses(cli)
  BY DEF parses
<1>2. DocAuthFromCli(cli)' = DocAuthFromCli(cli)
  BY DEF DocAuthFromCli
<1>3. NewAuthorizer' = NewAuthorizer
  BY DEF NewAuthorizer, load_jwks
<1>4. reloads' = reloads
  BY DEF reloads
<1>5. from_flags(cli, upstream_flags)' = from_flags(cli, upstream_flags)
  BY DEF from_flags
<1>6. Built' = Built
  BY <1>4 DEF Built
<1>7. authorizer' = authorizer =>
        /\ check_delegation_is_possible' = check_delegation_is_possible
        /\ NewProtectedResource' = NewProtectedResource
  BY DEF check_delegation_is_possible, NewProtectedResource
<1> QED
  BY <1>1, <1>2, <1>3, <1>4, <1>5, <1>6, <1>7

LEMMA StepKeepsTypes ==
  ASSUME TypeOK, [Next]_vars
  PROVE  TypeOK'
<1>1. cli' = cli /\ TypeOK
  BY CommandLineStays
<1>2. CASE LetDown \/ Parse \/ Probe \/ BuildDocAuth \/ CheckDelegation
  BY <1>1, <1>2 DEF TypeOK, config_vars, Fallible, LetDown, Parse, Probe, BuildDocAuth,
                    CheckDelegation, Step
<1>3. CASE LoadDocument
  BY <1>1, <1>3 DEF TypeOK, config_vars, Fallible, LoadDocument, Step, Source
<1>4. CASE BuildAuthorizer
  <2>1. authorizer' \in {NewAuthorizer, Absent}
    BY <1>4 DEF BuildAuthorizer
  <2>2. NewAuthorizer \in AuthorizerType \cup {Absent}
    BY <1>1, AuthorizerIsSomething, Zenon DEF NewAuthorizer
  <2> QED
    BY <1>1, <1>4, <2>1, <2>2 DEF TypeOK, Fallible, BuildAuthorizer, Step
<1>5. CASE BuildResource
  <2>1. protected' \in ProtectedResourceType \cup {Absent}
    BY <1>1, <1>5, ResourceIsSomething, Zenon DEF BuildResource, NewProtectedResource
  <2> QED
    BY <1>1, <1>5, <2>1 DEF TypeOK, Fallible, BuildResource, Step
<1>6. CASE BuildTelemetry \/ BuildServer \/ ServeMetrics \/ SpawnReloadLoop \/ Serve \/ Stop
  BY <1>1, <1>6 DEF TypeOK, config_vars, Fallible, BuildTelemetry, BuildServer, ServeMetrics,
                    SpawnReloadLoop, Serve, Stop, Step
<1>7. CASE Publish \/ Tick \/ FetchFails \/ LoopDies \/ Reload
  BY <1>1, <1>7 DEF TypeOK, config_vars, Publish, Tick, FetchFails, LoopDies, Reload
<1>8. CASE \E token \in Tokens \cup {Absent}, seen, now \in Times, host \in RequestHosts :
           Receive(token, seen, now, host)
  BY <1>1, <1>8 DEF TypeOK, config_vars, Receive
<1>9. CASE UNCHANGED vars
  BY <1>1, <1>9 DEF TypeOK, vars
<1> QED
  BY <1>2, <1>3, <1>4, <1>5, <1>6, <1>7, <1>8, <1>9 DEF Next

(* One step per stage: what it checks is what the next stage relies on.    *)
LEMMA StepKeepsChecks ==
  ASSUME TypeOK, Checked, [Next]_vars
  PROVE  Checked'
<1> USE DEF PastParse, PastDocAuth, PastAuthorizer, PastDelegation, PastResource, PastServer,
            Serving, config_vars, Step
<1> DEFINE Fixed ==
             /\ cli' = cli
             /\ parses(cli)' = parses(cli)
             /\ DocAuthFromCli(cli)' = DocAuthFromCli(cli)
             /\ NewAuthorizer' = NewAuthorizer
             /\ reloads' = reloads
             /\ from_flags(cli, upstream_flags)' = from_flags(cli, upstream_flags)
             /\ Built' = Built
             /\ authorizer' = authorizer =>
                  /\ check_delegation_is_possible' = check_delegation_is_possible
                  /\ NewProtectedResource' = NewProtectedResource
<1>0. Fixed
  BY CommandLineStays, ConsequencesStay
<1>1. CASE LetDown \/ Probe
  BY <1>0, <1>1 DEF Checked, LetDown, Probe, Fallible
<1>2. CASE Parse
  BY <1>0, <1>2 DEF Checked, Parse
<1>3. CASE BuildDocAuth
  BY <1>0, <1>3 DEF Checked, BuildDocAuth
<1>4. CASE LoadDocument
  BY <1>0, <1>4 DEF Checked, LoadDocument
<1>5. CASE BuildAuthorizer
  BY <1>0, <1>5 DEF Checked, BuildAuthorizer
<1>6. CASE CheckDelegation
  BY <1>0, <1>6 DEF Checked, CheckDelegation
<1>7. CASE BuildResource
  <2>1. (stage' = "telemetry" /\ protected' # Absent) => cli.issuers # {}
    BY <1>7 DEF BuildResource
  <2> QED
    BY <1>0, <1>7, <2>1 DEF Checked, BuildResource
<1>8. CASE BuildTelemetry
  BY <1>0, <1>8 DEF Checked, BuildTelemetry
<1>9. CASE BuildServer
  <2>1. stage' = "metrics" => from_flags(cli, upstream_flags) /\ server' = Built
    BY <1>9 DEF BuildServer, from_spec, Built
  <2> QED
    BY <1>0, <1>9, <2>1 DEF Checked, BuildServer
<1>10. CASE ServeMetrics \/ Serve \/ Stop
  BY <1>0, <1>10 DEF Checked, ServeMetrics, Serve, Stop
<1>11. CASE SpawnReloadLoop
  <2>1. reload_loop' # "none" <=> reloads
    BY <1>11 DEF SpawnReloadLoop, reloads
  <2> QED
    BY <1>0, <1>11, <2>1 DEF Checked, SpawnReloadLoop
<1>12. CASE Publish \/ Tick \/ FetchFails \/ LoopDies \/ Reload
  BY <1>0, <1>12 DEF Checked, Publish, Tick, FetchFails, LoopDies, Reload, Running
<1>13. CASE \E token \in Tokens \cup {Absent}, seen, now \in Times, host \in RequestHosts :
           Receive(token, seen, now, host)
  BY <1>0, <1>13 DEF Checked, Receive
<1>14. CASE UNCHANGED vars
  BY <1>0, <1>14 DEF Checked, vars
<1> QED
  BY <1>1, <1>2, <1>3, <1>4, <1>5, <1>6, <1>7, <1>8, <1>9, <1>10, <1>11, <1>12, <1>13, <1>14
     DEF Next

(* A token of an algorithm of its key's family is not one of a shared key. *)
LEMMA NoSharedKeys == \A kty : "HS256" \notin algorithms_for(kty)
  BY DEF algorithms_for

LEMMA ReceivedIsOurs ==
  ASSUME TypeOK, Checked, NEW token, NEW seen, NEW now, NEW host, Receive(token, seen, now, host)
  PROVE  AcceptedTokensAreOurs'
<1> SUFFICES ASSUME received'.caller.access = "authenticated"
             PROVE  /\ received'.token.signed_by \in DOMAIN Jwks
                    /\ received'.token.alg # "HS256"
                    /\ received'.at <= received'.token.exp + cli.clock_skew
                    /\ cli.audiences # {} => received'.token.aud \cap cli.audiences # {}
                    /\ protected # Absent =>
                         received'.token.iss \in protected.authorization_servers
  BY DEF AcceptedTokensAreOurs, Receive, config_vars
<1>1. /\ stage = "serving"
      /\ received'.caller = caller(authorizer, token, now)
      /\ received'.token = token /\ received'.at = now
  BY DEF Receive, Nobody
<1>2. /\ authorizer = NewAuthorizer /\ protected = NewProtectedResource
      /\ protected # Absent => cli.issuers # {}
  BY <1>1 DEF Checked, PastResource, PastAuthorizer, PastDelegation, PastServer, Serving
<1>3. authorizer # Absent /\ verify(authorizer, token, now)
  BY <1>1 DEF caller, Nobody
<1>4. /\ authorizer.audiences = cli.audiences /\ authorizer.issuers = cli.issuers
      /\ authorizer.clock_skew = cli.clock_skew
  BY <1>2, <1>3 DEF NewAuthorizer
<1>5. /\ token.kid \in DOMAIN Jwks /\ token.signed_by = token.kid
      /\ token.alg \in algorithms_for(Jwks[token.kid])
      /\ now <= token.exp + cli.clock_skew
      /\ cli.audiences # {} => token.aud \cap cli.audiences # {}
      /\ cli.issuers # {} => token.iss \in cli.issuers
  BY <1>3, <1>4 DEF verify
<1>6. token.alg # "HS256"
  BY <1>5, NoSharedKeys
<1>7. protected # Absent => token.iss \in protected.authorization_servers
  BY <1>2, <1>5 DEF NewProtectedResource
<1> QED
  BY <1>1, <1>5, <1>6, <1>7

LEMMA WhoIsUnrestricted ==
  ASSUME NEW token, NEW now
  PROVE  caller(authorizer, token, now).access = "unrestricted" <=> authorizer = Absent
  BY DEF caller, Nobody

(* A flag that is about callers comes with a JWKS, or is one.              *)
LEMMA InboundFlagsMakeAnAuthorizer ==
  ASSUME TypeOK, parses(cli), NEW flag \in InboundFlags, flag \in Given(cli)
  PROVE  NewAuthorizer \in AuthorizerType /\ NewAuthorizer # Absent
<1>1. CASE flag \in {"inbound-role-mapper", "inbound-anonymous-discovery", "inbound-resource"}
  BY <1>1, AccessFlagsComeWithKeys, AuthorizerIsSomething
<1>2. CASE flag \in {"inbound-jwks-url", "inbound-jwks-file"}
  <2>1. load_jwks
    BY <1>2 DEF load_jwks
  <2>2. flag \in cli.below
    BY InboundFlagsAreBelow
  <2>3. cli.command = "http"
    BY <2>2, Zenon DEF parses
  <2> QED
    BY <2>1, <2>3, AuthorizerIsSomething
<1> QED
  BY <1>1, <1>2 DEF InboundFlags

(* What the gate let pass and the handler did not verify again carries no  *)
(* token, or one that ran out in between.                                  *)
LEMMA PassedTheGate ==
  ASSUME NEW token, NEW seen, NEW now, authorizer # Absent, protected # Absent,
         GateAdmits(token, seen), caller(authorizer, token, now).access # "authenticated"
  PROVE  \/ token = Absent /\ admits_anonymous
         \/ token # Absent /\ ~(now <= token.exp + authorizer.clock_skew)
<1>1. CASE token = Absent
  BY <1>1 DEF GateAdmits
<1>2. CASE token # Absent
  <2>1. verify(authorizer, token, seen)
    BY <1>2 DEF GateAdmits
  <2>2. ~verify(authorizer, token, now)
    BY <1>2 DEF caller
  <2> QED
    BY <1>2, <2>1, <2>2 DEF verify
<1> QED
  BY <1>1, <1>2

LEMMA ReceivedIsGuarded ==
  ASSUME TypeOK, Checked, NEW token, NEW seen, NEW now, NEW host, Receive(token, seen, now, host)
  PROVE  AccessIsGuarded' /\ HostsAreChecked'
<1> SUFFICES ASSUME received'.answer = "handled"
             PROVE  AccessIsGuarded' /\ HostsAreChecked'
  BY DEF AccessIsGuarded, HostsAreChecked
<1>1. /\ received'.caller = caller(authorizer, token, now)
      /\ received'.token = token /\ received'.at = now /\ received'.host = host
      /\ GateAdmits(token, seen) /\ HostAdmits(host) /\ cli' = cli
  BY DEF Receive, config_vars
<1>2. /\ authorizer = NewAuthorizer /\ protected = NewProtectedResource
      /\ server = Built /\ parses(cli)
  BY DEF Receive, Checked, PastParse, PastDocAuth, PastResource, PastAuthorizer, PastDelegation,
         PastServer, Serving
<1>3. HostsAreChecked'
  <2>1. server.allowed_hosts = resolve_allowed_hosts(cli)
    BY <1>2 DEF Built
  <2> QED
    BY <1>1, <2>1 DEF HostsAreChecked, HostAdmits, resolve_allowed_hosts, LoopbackHosts
<1>4. InboundFlags \cap Given(cli) # {} => received'.caller.access # "unrestricted"
  <2>1. InboundFlags \cap Given(cli) # {} => authorizer # Absent
    BY <1>2, InboundFlagsMakeAnAuthorizer
  <2> QED
    BY <1>1, <2>1, WhoIsUnrestricted
<1>5. ASSUME "inbound-resource" \in Given(cli),
             received'.caller.access # "authenticated"
      PROVE  \/ /\ token = Absent
                /\ PublicRole \in cli.role_mapper \/ "inbound-anonymous-discovery" \in Given(cli)
             \/ token # Absent /\ ~(now <= token.exp + cli.clock_skew)
  <2>1. NewAuthorizer \in AuthorizerType /\ authorizer # Absent
    BY <1>2, <1>5, InboundFlagsMakeAnAuthorizer DEF InboundFlags
  <2>2. protected # Absent
    BY <1>2, <1>5, <2>1, ResourceIsSomething DEF NewProtectedResource
  <2>3. /\ authorizer.clock_skew = cli.clock_skew
        /\ authorizer.public = (PublicRole \in cli.role_mapper)
        /\ authorizer.anonymous_discovery = ("inbound-anonymous-discovery" \in Given(cli))
    BY <1>2, <2>1 DEF NewAuthorizer
  <2>4. GateAdmits(token, seen) /\ caller(authorizer, token, now).access # "authenticated"
    BY <1>1, <1>5
  <2>5. \/ token = Absent /\ admits_anonymous
        \/ token # Absent /\ ~(now <= token.exp + authorizer.clock_skew)
    BY <2>1, <2>2, <2>4, PassedTheGate
  <2> QED
    BY <2>3, <2>5, Zenon DEF admits_anonymous
<1> QED
  BY <1>1, <1>3, <1>4, <1>5 DEF AccessIsGuarded, Given

LEMMA StepKeepsAcceptance ==
  ASSUME TypeOK, Checked, ReceivedFits, [Next]_vars
  PROVE  ReceivedFits'
<1> USE DEF ReceivedFits, AcceptedTokensAreOurs, AccessIsGuarded, HostsAreChecked, Given
<1>1. CASE \E token \in Tokens \cup {Absent}, seen, now \in Times, host \in RequestHosts :
             Receive(token, seen, now, host)
  BY <1>1, ReceivedIsOurs, ReceivedIsGuarded DEF ReceivedFits
<1>2. CASE BuildAuthorizer \/ BuildResource
  <2>1. received' = received /\ received = NoRequest
    BY <1>2 DEF Checked, BuildAuthorizer, BuildResource, Step, PastParse, PastDocAuth,
                PastAuthorizer, PastDelegation
  <2> QED
    BY <2>1 DEF NoRequest, Nobody
<1>3. CASE LetDown \/ Parse \/ Probe \/ BuildDocAuth \/ LoadDocument \/ CheckDelegation
  BY <1>3 DEF config_vars, LetDown, Parse, Probe, BuildDocAuth, LoadDocument, CheckDelegation
<1>4. CASE BuildTelemetry \/ BuildServer \/ ServeMetrics \/ SpawnReloadLoop \/ Serve \/ Stop
  BY <1>4 DEF config_vars, BuildTelemetry, BuildServer, ServeMetrics, SpawnReloadLoop, Serve, Stop
<1>5. CASE Publish \/ Tick \/ FetchFails \/ LoopDies \/ Reload
  BY <1>5 DEF config_vars, Publish, Tick, FetchFails, LoopDies, Reload
<1>6. CASE UNCHANGED vars
  BY <1>6 DEF vars
<1> QED
  BY <1>1, <1>2, <1>3, <1>4, <1>5, <1>6 DEF Next

LEMMA Always == Spec => []IInv
<1>1. IInv /\ [Next]_vars => IInv'
  BY StepKeepsTypes, StepKeepsChecks, StepKeepsAcceptance DEF IInv
<1> QED
  BY Initially, <1>1, PTL DEF Spec

-----------------------------------------------------------------------------------

(* The program is at one of its stages, with an authorizer and a protected *)
(* resource only where it builds them.                                     *)
THEOREM StartupTypeCorrect == Spec => []TypeOK
<1>1. IInv => TypeOK
  BY DEF IInv
<1> QED
  BY Always, <1>1, PTL

(* No server is started whose grant needs callers it cannot tell apart,    *)
(* nor one that would fetch its document for one of them.                  *)
THEOREM DelegationIsPossible == Spec => []DelegationHasCallers
<1>1. ASSUME IInv, stage = "serving"
      PROVE  /\ needs_caller_identity(server.grant) => cli.command = "http" /\ authorizer # Absent
             /\ ~needs_caller_identity(DocumentGrant(cli))
  <2>1. /\ DocAuthFromCli(cli) /\ check_delegation_is_possible
        /\ from_flags(cli, upstream_flags) /\ server.grant = Grant(cli, upstream_flags)
    BY <1>1 DEF IInv, Checked, PastDocAuth, PastResource, PastAuthorizer, PastDelegation,
                PastServer, Serving, Built
  <2>2. needs_caller_identity(server.grant) => cli.command = "http" /\ authorizer # Absent
    BY <2>1 DEF needs_caller_identity, Grant, from_flags, check_delegation_is_possible
  <2>3. ~needs_caller_identity(Grant(cli, document_flags))
    BY DEF needs_caller_identity, Grant, document_flags
  <2>4. ~needs_caller_identity(DocumentGrant(cli))
    BY <2>1, <2>3 DEF DocumentGrant, DocAuthFromCli
  <2> QED
    BY <2>2, <2>4
<1>2. IInv => DelegationHasCallers
  BY <1>1 DEF DelegationHasCallers
<1> QED
  BY Always, <1>2, PTL

(* A grant in use has one credential, on whatever levels of the command   *)
(* line it was given, and a key is of its algorithm's family (token/       *)
(* provider.rs: from_flags).                                               *)
THEOREM CredentialsAreSingle == Spec => []OneCredential
<1>1. ASSUME IInv, stage \in Serving, NEW f \in {document_flags, upstream_flags},
             f.token_url \in Given(cli)
      PROVE  /\ (f.client_secret \in Given(cli)) # (f.private_key \in Given(cli))
             /\ f.private_key \in Given(cli) =>
                  cli.key_file[f.prefix] = family(cli.signing_alg[f.prefix])
  <2>1. DocAuthFromCli(cli) /\ from_flags(cli, upstream_flags)
    BY <1>1 DEF IInv, Checked, PastDocAuth, PastResource, PastAuthorizer, PastDelegation,
                PastServer, Serving
  <2>2. from_flags(cli, f)
    BY <1>1, <2>1 DEF DocAuthFromCli
  <2>3. (f.private_key \in Given(cli)) # (f.client_secret \in Given(cli))
    BY <1>1, <2>2, Zenon DEF from_flags
  <2>4. f.private_key \in Given(cli) => cli.key_file[f.prefix] = family(cli.signing_alg[f.prefix])
    BY <1>1, <2>2 DEF from_flags, ClientAuth
  <2> QED
    BY <2>3, <2>4
<1>2. IInv => OneCredential
  BY <1>1 DEF OneCredential, Serving
<1> QED
  BY Always, <1>2, PTL

(* What the flags of access, hosts and reloading are given for happens:    *)
(* with any inbound flag nobody's request is handled as if access were not *)
(* restricted, behind the gate only where a good token or the flags let it *)
(* through, and for no other host; and clients are promised news exactly   *)
(* where a loop was started (main.rs, transport.rs, server.rs: caller).    *)
THEOREM ConfiguredIsInForce == Spec => []FlagsTakeEffect
<1>1. ASSUME IInv, stage = "serving"
      PROVE  server.list_changed <=> reload_loop # "none"
  <2>1. server = Built /\ (reload_loop # "none" <=> reloads)
    BY <1>1 DEF IInv, Checked, PastServer, Serving
  <2> QED
    BY <2>1 DEF Built
<1>2. IInv => FlagsTakeEffect
  BY <1>1 DEF IInv, ReceivedFits, FlagsTakeEffect, ReloadsAreAnnounced
<1> QED
  BY Always, <1>2, PTL

(* Nobody is taken for a caller on a token that is not signed, current and *)
(* meant for this server.                                                  *)
THEOREM CallersAreVerified == Spec => []AcceptedTokensAreOurs
<1>1. IInv => AcceptedTokensAreOurs
  BY DEF IInv, ReceivedFits
<1> QED
  BY Always, <1>1, PTL

-----------------------------------------------------------------------------------
(* What ToolCalls takes for granted.                                       *)

(* The configuration in force, as tool calls meet it. *)
Deployed ==
  [authorizing |-> authorizer # Absent,
   discovery |-> authorizer # Absent /\ authorizer.anonymous_discovery,
   protected |-> protected # Absent,
   upstream |-> IF server.grant = "none" THEN "none"
                ELSE IF needs_caller_identity(server.grant) THEN "delegated" ELSE "client"]

(* Who came of the last request agrees with it as well. *)
AnswersFit ==
  stage = "serving" =>
    /\ received.answer = "challenged" => Deployed.protected
    /\ received.answer = "handled" =>
         (received.caller.access = "unrestricted" <=> ~Deployed.authorizing)

LEMMA AnswersGoOnFitting == IInv /\ AnswersFit /\ [Next]_vars => AnswersFit'
<1> SUFFICES ASSUME IInv, AnswersFit, [Next]_vars, stage' = "serving"
             PROVE  /\ received'.answer = "challenged" => Deployed'.protected
                    /\ received'.answer = "handled" =>
                         (received'.caller.access = "unrestricted" <=> ~Deployed'.authorizing)
  BY DEF AnswersFit
<1>1. CASE \E token \in Tokens \cup {Absent}, seen, now \in Times, host \in RequestHosts :
           Receive(token, seen, now, host)
  <2>1. PICK token \in Tokens \cup {Absent}, seen, now \in Times, host \in RequestHosts :
               Receive(token, seen, now, host)
    BY <1>1
  <2>2. authorizer' = authorizer /\ protected' = protected
    BY <2>1 DEF Receive, config_vars
  <2>3. ASSUME received'.answer = "handled"
        PROVE  received'.caller = caller(authorizer, token, now)
    BY <2>1, <2>3 DEF Receive
  <2>4. received'.answer = "challenged" => protected # Absent
    BY <2>1 DEF Receive, GateAdmits
  <2> QED
    BY <2>2, <2>3, <2>4, WhoIsUnrestricted DEF Deployed
<1>2. CASE Serve
  <2>1. received = NoRequest /\ received' = received
    BY <1>2 DEF IInv, Checked, Serve, Step, Serving, PastServer, PastResource, PastDelegation,
                PastAuthorizer, PastDocAuth, PastParse
  <2> QED
    BY <2>1 DEF NoRequest
<1>3. CASE stage = "serving" /\ UNCHANGED <<received, authorizer, protected>>
  BY <1>3 DEF AnswersFit, Deployed
<1>4. \/ \E token \in Tokens \cup {Absent}, seen, now \in Times, host \in RequestHosts :
           Receive(token, seen, now, host)
      \/ Serve
      \/ stage = "serving" /\ UNCHANGED <<received, authorizer, protected>>
  BY DEF Next, vars, config_vars, Step, Fallible, LetDown, Parse, Probe, BuildDocAuth,
         LoadDocument, BuildAuthorizer, CheckDelegation, BuildResource, BuildTelemetry,
         BuildServer, ServeMetrics, SpawnReloadLoop, Stop, Publish, Tick, FetchFails,
         LoopDies, Reload
<1> QED
  BY <1>1, <1>2, <1>3, <1>4

(* A server that serves is one that ToolCalls speaks of: what it assumes of*)
(* deployments is what main checks, and requests are challenged, or        *)
(* unrestricted, where it says.                                            *)
THEOREM ServesWhatCallsAssume ==
  Spec => [](stage = "serving" => Deployed \in Deployable) /\ []AnswersFit
<1>1. ASSUME IInv, stage = "serving" PROVE Deployed \in Deployable
  <2>1. /\ TypeOK /\ check_delegation_is_possible /\ authorizer = NewAuthorizer
        /\ protected = NewProtectedResource /\ server = Built
        /\ from_flags(cli, upstream_flags)
    BY <1>1 DEF IInv, Checked, PastParse, PastDocAuth, PastResource, PastAuthorizer,
                PastDelegation, PastServer, Serving
  <2>2. protected # Absent => authorizer # Absent
    BY <2>1 DEF NewProtectedResource
  <2>3. needs_caller_identity(server.grant) => authorizer # Absent
    BY <2>1 DEF needs_caller_identity, Grant, from_flags, check_delegation_is_possible, Built
  <2>4. authorizer # Absent => authorizer.anonymous_discovery \in BOOLEAN
    BY <2>1 DEF TypeOK, AuthorizerType
  <2>5. Deployed \in DeploymentType
    BY <2>4 DEF Deployed, DeploymentType
  <2>6. Deployed.protected \/ Deployed.discovery \/ Deployed.upstream = "delegated"
          => Deployed.authorizing
    BY <2>2, <2>3 DEF Deployed
  <2> QED
    BY <2>5, <2>6 DEF Deployable
<1>2. IInv => (stage = "serving" => Deployed \in Deployable)
  BY <1>1
<1>3. Init => AnswersFit
  BY DEF Init, AnswersFit
<1>4. Spec => []AnswersFit
  BY Always, <1>3, AnswersGoOnFitting, PTL DEF Spec
<1> QED
  BY Always, <1>2, <1>4, PTL
===================================================================================
