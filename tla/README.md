# A verification project for oas2mcp

oas2mcp reads an OpenAPI document and serves every operation in it as an MCP
tool. A tool call becomes an HTTP request to the API behind the document. The
server can require a JWT from its callers, obtain OAuth tokens for the API (for
itself or on behalf of the caller), reload the document while it runs, and
speaks MCP over stdio, streamable HTTP or the older SSE transport.

This directory holds TLA+ models of that program, the TLC configurations that
check them on small instances, and proofs checked by TLAPS. `PROJECT.json`
lists every run, mutant, mapped definition, hazard and theorem. Paths below are
relative to the directory that holds `src/` and `tla/`.

## 1. Inventory

| component | source | state it keeps | operations | hard behaviour |
|---|---|---|---|---|
| Token provider | `src/src/oauth/provider.rs` | token cache behind a mutex | `token_for`, `store`, `request_token` | concurrent misses, late responses, eviction, clocks, cancellation |
| Grant configuration | `src/src/oauth/mod.rs`, `assertion.rs`, `key.rs` | none after startup | `from_flags`, `sign` | which combinations are refused |
| Tool calls | `src/src/server.rs` | snapshot pinned per call, metrics | `call_tool`, `call_until_cancelled`, `call`, `execute`, `build_request` | cancellation at any await, reload under a running call, refusals that must not reach the API |
| Snapshot and reload | `src/src/server.rs`, `src/src/main.rs` | current snapshot (ArcSwap) | `reload`, `build_snapshot`, `reload_loop` | readers see one snapshot, failed fetch keeps the old one |
| List-changed notifications | `src/src/server.rs` | generation (watch channel), registered peers | `register`, `notify`, `listen` | lost wake-ups, notifications racing the list they announce |
| Pagination | `src/src/pagination.rs`, `list_page` | nothing (the cursor carries it) | `page`, `fingerprint` | a walk that straddles a reload or a change of role |
| Inbound JWT | `src/src/auth.rs` | rules, public tools, key set | `verify`, `caller`, `allows`, `is_public` | claims that are absent, algorithms of another family, anonymous discovery against public tools |
| HTTP gate | `src/src/transport/protected_resource.rs` | none | `require_bearer`, `admit_anonymous` | decides on one snapshot what the handler decides again on another |
| SSE transport | `src/src/transport/sse.rs` | session table, two channels per session | `open_stream`, `post_message`, `SessionGuard` | bodies that never come, a POST racing the end of its stream, shutdown with open streams |
| Transports and shutdown | `src/src/transport.rs` | cancellation token | `serve`, `shutdown_signal` | draining |
| Tool generation | `src/src/tools.rs`, `rename.rs`, `filter.rs` | none | `build_tools`, `build_tool`, `rename`, `capped`, `keeps`, `inlined` | unique names, parameter merging, schemas that refer to themselves |
| Response shaping | `src/src/server.rs` | the tool's output schema | `execute`, `shape_response`, `shape_bytes_response`, `fit_output_schema` | a declared schema is a promise about every answer |
| Document | `src/src/openapi.rs`, `openapi/spec.rs`, `openapi/prune.rs` | none | `load`, `resolve`, `prune` | `$ref` cycles, reachability |
| Command line and start | `src/src/cli.rs`, `main.rs`, `http.rs`, `healthcheck.rs` | the configuration | clap's checks, `main` | checks spread over clap, `from_flags` and `main`; flags on two levels |
| Telemetry | `telemetry.rs`, `transport/access_log.rs` | metrics | exporters | I/O |

How they interact: a transport hands a request to the MCP library, which runs
the handler of `OpenApiServer` as a task of its own and cancels the task's token
when the client cancels. The handler reads the current snapshot once, decides
from the caller's JWT whether the tool may be called, asks the token provider
for a token when one is configured, sends the request and records one metric.
The reload loop is a separate task: it fetches the document (with its own token
provider), builds a snapshot, swaps it in and notifies peers. The HTTP gate runs
before the library and reads the snapshot on its own.

What makes each of them correct, in a line:

- Token provider: nobody ever gets another identity's token; a token handed out
  of the cache is still good; the cache is bounded and gives up the right entry;
  nobody waits for anybody else's token request.
- Tool calls: what reaches the API was allowed, under one snapshot, in the name
  of the caller; a cancelled call ends, sends nothing more and is recorded once;
  a refusal says nothing about tools the caller must not know of.
- Reload and notifications: no connected client is left with an outdated list
  that nobody will tell it about, and no client can hold up the loop.
- Pagination: a walk that is not refused has seen one listing, whole.
- SSE: a message that was accepted is delivered; the end of a stream cleans up
  its session and nothing else; a shutdown is held up by clients alone: by the streams
  they leave open and the requests they have begun and do not finish.
- Tool generation: every tool has a name of its own; every argument reaches the
  place its parameter names; what the operator configured is sent.
- Document: cut to what a caller may use, without a dangling schema reference
  and without anything that only hidden operations need.
- Responses: what a tool declares of its result holds for every result, provided
  the upstream keeps to its document.
- Start: a server that serves does so with one credential per grant, callers for a
  grant that acts on their behalf, and what its flags say of access, hosts and reloading
  happening to the requests and the clients it has. Once it serves, its
  reloading does not end because of one bad document.
- Inbound tokens: a caller is somebody only on a token meant for this server.

## 2. Modules

| module | models | state | actions |
|---|---|---|---|
| `TokenService` | the abstract promise of the provider: everyone gets their own token or a refusal | per call a status; identities issued for | `Ask`, `Issue`, `HandOut`, `Deny`, `Lose`, `Leave` |
| `TokenProvider` | `provider.rs`, grants of `oauth/mod.rs` | clock, cache slots, per call its place in `token_for`, history of issued identities | `Delegate`/`AskForNobody` (the caller's claims become a `Delegation`), `Hit`, `Miss`, `RefuseNobody`, `Issue`/`Fail` (the authorization server), `Receive` (`request_token` after its await), `Overflow` (the panic of `Instant` addition), `Store` (with eviction), `Cancel`, `Finish`, `Tick` |
| `Configuration` | what of a server's configuration tool calls meet, and which of these `main` lets serve | none: sets of configurations | |
| `ToolCalls` | `call_tool` to the API, `auth.rs`, the gate | deployment, snapshot, expired JWTs, per call its phase, access, pinned snapshot, requests and recorded outcome; the token service's state | `Arrive`, `Challenge`/`RefuseLarge`/`Admit` (the gate), `DieOfExpiry` (the panic of `unix_to_instant`), `Refuse`, `Start`, `DenyNobody`, `AskToken`, `TokenRefused`, `ExecuteBare`, `ExecuteWithToken`, `Respond`, `CancelRequest`, `AbortCancelled`, `Die`, `Expire`, `Reload` |
| `ListChanged` | `reload_loop`, `reload`, `ToolListChanges`, `listen` | snapshot, the loop's place, watch generation, registered peers, spawned tasks, per client its channel and the list it holds | `Fetch`, `Swap`, `KeepQuiet`, `Bump`, `Spawn`, `Register`, `RunTask`, `Subscribe`, `Wake`, `Send`, `Close`; the client: `Ask`, `ListTools`, `Learn` |
| `ToolListing` | `list_page`, `pagination.rs`, the fingerprint of `build_snapshot` | snapshot, per client the pages it has joined and its cursor | `Begin`, `Page`, `Refuse`, `ChangeRole`, `Tamper`, `Reload` |
| `SseTransport` | `transport/sse.rs`, `shutdown_signal` | session table, per session its stream, service, inbox, waiting senders and outbox, per POST its phase, the server | `open_stream`, `Disconnect`, `EndOfStream`, `WriteEvent`, `Arrive`, `Complete` and `Abandon` (a client begins a POST, ends its body, breaks off), `LookUp`, `Deliver`, `Flushed`, `Take`, `Speak` (a notification), `Reply`, `InputClosed`, `Fail`, `Signal`, `Exit` |
| `Prune` | `openapi/prune.rs` | document, references found, schemes named, components reached, result | `Pass`, `TakeUp`, `Finish` |
| `ToolNames` | `build_tools`, `rename.rs`, `filter.rs` | filter, position in the document, candidate name and suffix, names claimed, tools | `Filtered`, `Build`, `Disambiguate`, `Register` |
| `UpstreamRequest` | `build_tool` (`push_param`, `add_request_body`), `build_request`, `check_header_sources` | configuration, the path's placeholders, declared parameters, the tool built, the call's arguments, the request sent | `Ignore`, `push_param`, `ParametersEnd`, `add_request_body`, `Refuse`, `RefuseValue`, `Send` |
| `ToolOutput` | `output_schema`, `inlined` and `InlineRefs` of `tools.rs`, `resolve_chain` of `openapi/spec.rs`, `execute` and the shaping of `server.rs` | document, declared schema, response, result | `BuildTool`, `Answer`, `Fail`, `execute` |
| `CommandLine` | `cli.rs`, `from_flags`, `parse_headers`, `check_header_sources`, `resolve_allowed_hosts` | none: operators on a command line | |
| `InboundTokens` | `verify`, `algorithms_for`, `caller` and the claims of `auth.rs` | none: operators on a token | |
| `Startup` | `main` up to serving, `reload_loop`, the gate and the caller of a request | command line, stage of `main`, document at its URL and loaded, authorizer, protected resource, server, reload loop, a request | one per step of `main`, from `Parse` to `Serve`, `LetDown`, `Stop`; `Publish`, `Tick`, `FetchFails`, `LoopDies`, `Reload`; `Receive` |

`TokenProviderProofs`, `ToolCallsProofs`, `StartupProofs`, `ListChangedProofs`,
`SseTransportProofs`, `UpstreamRequestProofs`, `DiscoveryProofs` (`ToolListing` and `Prune`)
and `ToolGenerationProofs` (`ToolNames` and `ToolOutput`) hold the theorems; `MC*` give the constants small values. Definitions that begin with the comment
"A mistake" are plausible bugs: `PROJECT.json` pairs each property with one of
them, and under it TLC finds the property violated.

How they compose. `ToolCalls` instantiates `TokenService` for the tokens its
calls ask for: it relies on the promise, not on a cache. `TokenProvider`
instantiates the same module through a refinement mapping and is shown to keep
that promise, by TLC (`ImplementsService`) and by TLAPS (`Refinement`); `ToolCalls` is
shown to ask nothing else of it (`CallsUseTheService`). So what
`ToolCalls` says of requests and callers holds with the cached provider in place.
The snapshot appears in three modules because three parts of the code read it
in their own way: a call pins it, the reload loop replaces it, a walk over pages
meets several of them.

`Startup` extends `CommandLine` and `InboundTokens`: the same command line decides
what is verified of a token. It is what the other modules take for granted:
`ToolCalls` assumes configurations of `Configuration`'s `Deployable`, and every server that
serves has one (`ServesWhatCallsAssume`);
`DelegationHasCallers` is why a delegating `TokenProvider` serves calls with callers,
and `check_header_sources`, an initial condition of `UpstreamRequest`, is one of its
steps. `UpstreamRequest` ends where the request is sent; `ToolOutput` goes on
from the answer.

### Choices a reader should know

- **A step is what happens between two awaits** or under one lock. `TokenProvider`
  has a step for the lookup under the mutex, one for the arrival of a response
  and one for the store under the mutex, since other tasks run in between;
  `call_tool` up to its first await is one step of `ToolCalls`.
- **The gate is a step of its own.** `require_bearer` decides on the snapshot and
  the clock of its moment, the handler again on those of a later one. A race
  between them can turn a 401 into a JSON-RPC refusal and no more. What the snapshot
  adds to it is in `ToolCalls`, what the clock adds is in `Startup`: `Receive` has a time
  for each of the two.
- **A POST arrives in two steps.** The extractor of `post_message` awaits the body,
  without a timeout, before the handler runs: `Arrive` begins a request, and nothing
  obliges the client to `Complete` or `Abandon` it.
- **Clock readings.** Verifying a JWT and working out the end of its session read the
  clock twice. `TokenProvider` has one step for both: a JWT that runs out in between has
  no known end, as one accepted within the leeway has, so the time in between counts
  as leeway. An `exp` that is not a whole number is accepted by the verifier and read as
  none (`session_end`).
- **Cancellation wins.** The `select!` in `call_until_cancelled` is `biased`, so a
  call whose token is cancelled makes no further progress (`NotCancelled`).
- **`futures::channel::mpsc`** is external. A fresh clone of a sender always has a
  slot of its own; it is then parked when the queue is above its capacity; a
  `send` whose receiver goes away while it is parked counts as flushed. So a POST
  may answer 202 for a message that a service which has just ended will never
  read; `AcceptedIsNotLost` says "unless the service has ended".
- **`reqwest`**: `header()` appends, `headers()` replaces. `UpstreamRequest` models
  headers as the list of their sources.
- **Paths** are the set of their placeholders. `build_request` asks for every declared
  path parameter and fills what there is to fill: one the path has no placeholder for is
  asked for, and goes nowhere (`SentPath`).
- **Names** are sequences of words and numbers, so that a suffix can meet a name
  spelt like it; `Rules` stands for the rename rules together with the
  sanitiser, `Digest` for the shortening with a hash. Both are arbitrary
  functions: uniqueness may not depend on them. Suffixes below ten.
- **Listings**: in `ToolListing`, `input` stands for title, description and input
  schema (hashed), `output` for output schema and annotations (not hashed).
  Fingerprints are taken as free of collisions.
- **`Prune`** takes up references in any order; the code's `Vec` is one of them.
- **A JWT is accepted or not** in `ToolCalls` and `TokenProvider`, by its expiry and
  leeway. What it takes to be accepted is in `InboundTokens`: key, algorithm, expiry,
  audience, issuer. A signature is the name of the key that made it.
- **clap** is external. It checks conflicts and requirements on each level of the
  command line by itself and merges the levels afterwards; a requirement is excused
  when something present conflicts with what is required. `LevelParses` says so;
  the code's own checks (`from_flags`) then see both levels.
- **JSON schemas** are cut down to type, properties and references, values to type
  and members. `Conforms` and `Honours` are reference definitions, independent of
  the code: what a value owes to an inlined schema, and what it owes to the
  document's. Schemas and values are elements of constant sets, each of which nests
  less deep than `MaxDepth` says (the limit of the parsers), and what the code does by
  recursion is a recursive function on those sets: `InlineRefs` is `inline_refs` and
  `resolve_schema_ref`, one function of the references seen whose values are functions
  of the schema at hand.
- **Bodies** are text, JSON, bytes, empty or broken off; a body that breaks off is
  read as an empty one (`unwrap_or_default`).

## 3. Runs

Each run is a configuration of the same name. Sizes are distinct states.

| run | asks | instance | states |
|---|---|---|---|
| `provider_relay` | Do concurrent calls ever share, lose or outlive a token? Does anybody wait for another's request? Does the provider implement `TokenService`? | relay grant, 2 calls, 2 JWTs with one subject at two issuers and different `exp`, one `exp` not a whole number, 1 slot, lifetimes at the margin, above it, and beyond what the clock holds | 92 183 |
| `provider_session_end` | Is a delegated token unusable once the caller's session has ended? **Violated.** | two issuers, clock to 4 | about 1 000 until found |
| `tool_calls` | What reaches the API, for whom, under which snapshot, and what is said and recorded when a call is refused, cancelled or dies? | 2 calls, 3 JWTs (one with the role, one that ends beyond the clock), 2 documents giving one name to different operations and base URLs, 3 deployments | 612 056 |
| `list_changed` | Can a connected client keep an outdated list? Can a client hold up the loop? | 1 session that may stop reading, 1 subscription that reads, 3 documents (one differs in details only, one not at all), 2 changes | 261 215 |
| `tool_listing` | Does a walk that succeeds miss anything, and does a refusal mean that something changed? | 1 client, 2 roles, 5 documents, page sizes 1, 2 and none, 2 reloads | 3 842 |
| `sse_transport` | Are accepted messages lost, lookups delayed, sessions or shutdown left hanging? | 2 sessions, 2 POSTs, both channels at their smallest | 89 304 |
| `prune` | Does the search end, with everything that is needed and nothing that is not? | 2 operations, 4 components, circles, an alias, a dangling reference | 2 168 |
| `tool_names` | Are names unique, and is a suffix added on collision only? | up to 4 of 7 operations, in every order, with filters on names, on tags, on both and none | 47 515 |
| `upstream_request` | Does each argument reach its place, and each configured header the API? | every pair of a path-item and an operation parameter out of 7, a path with a placeholder and one without, every header configuration | 143 040 |
| `request_override` | Does an operation's parameter replace the path item's? **Violated.** | two parameters of a level, no configured headers | about 4 500 until found |
| `startup` | Which command lines come to serve, and with what in force? Who is taken for a caller? Does reloading go on? | some 2 000 command lines: grants and credentials on both levels, keys of every family, inbound flags, headers, sources, hosts; 3 documents; a token in order and 10 that differ in one claim, at 3 times; 3 hosts | 489 317 |
| `tool_output` | Does a result fit the declared schema? Does inlining ask for more than the document? | every pair of 11 schemas as components, 7 sets of responses, 11 values, 6 media types, 5 statuses, 5 forms of body | 1 363 978 |

### Properties

- Provider: `CacheBounded`, `OwnIdentityOnly`, `NobodyIsRefused` (a delegating grant
  without a caller is refused, and its slot stays empty), `HitsAreValid`,
  `HitsWithinSession`, `ImplementsService`; liveness:
  `NobodyWaitsForAnother`.
- Calls: `ApiRequestsAreAllowed` (at the moment a request was sent its operation was
  the caller's to call in the snapshot it pinned), `ApiRequestsSpeakForTheCaller`,
  `RecordsTellTheTruth` (the one recorded outcome is what happened),
  `RefusalsTellNothing`, `NothingAfterCancel`; liveness: `CancelledCallsEnd`.
- Notifications: `NeverSilentlyStale`, `OpenSessionsAreRegistered`; liveness:
  `ReloadNeverWaits`, `ClientsCatchUp`.
- Listings: `IssuedCursorsAreWellFormed`, `WalksMissNothing`, `StaleMeansChanged`.
- SSE: `AcceptedIsNotLost`; liveness: `DisconnectCleansUp`, `LookUpsNeverWait`,
  `OnlyClientsHoldUpShutdown` (a draining server exits unless a stream stays open or a
  client has begun a POST and neither finishes nor breaks it off).
- Tools and document: `UniqueNames`, `SuffixOnlyOnCollision`, `RequiredIsEnough`,
  `ArgumentsReachTheirPlace`, `ConfiguredHeadersAreSent`, `WalkedFindsWhatItNeeds`,
  `KeepsNothingHidden`; liveness: `Terminates`.
- Responses: `StructuredContentFits` (of an upstream that answers as documented, the
  structured content conforms to the declared schema; with an error or a broken
  body there is none), `InlinedSchemasAskNoMore` (what honours the document's schema
  conforms to its inlined copy; the copy may admit more).
- Start: `DelegationHasCallers`, `OneCredential` (exactly one for each grant in use, with
  a key of its algorithm's family), `AcceptedTokensAreOurs`, and `FlagsTakeEffect`, which
  is about requests and clients, not about fields: no request is handled unrestricted
  that a JWKS or a flag that asks for one was given for, and behind the gate none
  without a good token but where the flags say so (`AccessIsGuarded`); none for a host
  that is not listed (`HostsAreChecked`); and list changes are promised exactly where a
  loop makes them, which `from_spec` and `main` decide each by itself
  (`ReloadsAreAnnounced`). Each of the three has a mutant of its own. Liveness:
  `ReloadingGoesOn`.

A `TypeOK` stands where a proof needs one. Only that of `TokenProvider` is an invariant
of a run, since the others say little that their neighbours do not.

### Bounds and why they are enough

- **Two calls** (`provider_relay`, `tool_calls`). A call meets others only through
  the cache or the snapshot; the second call stands for whatever others do to
  those. Two are enough for a late response to overwrite a newer entry, for two
  stores to race for the last slot, and for a hit on a token someone else asked
  for. For the provider the proofs remove this bound.
- **`MaxCached` 1.** Every store by a second identity is an eviction. Whom to evict
  from a larger cache is proved for every size (`EvictsTheSoonest`).
- **`MaxTime`.** The clock passes the refresh time and the lifetime of what was
  issued at 0 and the end of one of the sessions. With `Margin` 1 lifetimes lie at
  and above it, and one beyond `MaxInstant`, where adding it to the clock panics.
- **`MaxChanges` 2, `MaxReloads` 2.** A change while the previous one is being
  told, and one back to an earlier document. Reloads that change nothing
  advertised are not limited in `ListChanged`.
- **One session, one subscription** (`list_changed`). The loop serves clients with a
  task each; two clients share the list of peers, which `register` filters, and the
  watch channel, whose receivers each keep their own version. The session may
  stop reading for ever and the subscription must still catch up.
- **Two sessions, two POSTs** (`sse_transport`). POSTs go to one session or to two, so
  that one session can be full while the other is asked for. **Buffers of 0** are the
  smallest that the channel allows: a POST's message goes into the slot its sender
  always has, and the POST waits until the service takes it. A larger buffer (the code's
  is 64) lets the first ones answer at once, a branch of `Deliver` this instance does
  not take; `AcceptedMessagesAreKept` is proved for every size.
- **One request** (`startup`): `Receive` happens once. The server keeps nothing of a request,
  so a second one is another first one.
- **Two parameters** (`upstream_request`): precedence is between two declarations.
- **Some 2 000 command lines** (`startup`). Each group of flags that some check
  compares is enumerated in full, on the level above, below and both; flags of
  different groups are not multiplied with each other, as no check but
  `check_delegation_is_possible` relates two groups (and there they are).
- **Eleven schemas of depth two, two components** (`tool_output`). A component may refer
  to itself, to the other, to both, twice to one, and say more beside a reference.
  **`MaxRefHops` 1** (the code's is 16) allows a chain that is just short enough and one
  that is too long.
- **Four operations** (`tool_names`): a collision, its suffix taken, that one's
  suffix taken, and one beside them.

Deadlock is checked except where the model rightly stops: in `sse_transport` (the
server exits), in `startup` (the program ends) and in `prune`, `tool_names`,
`upstream_request`, `request_override` and `tool_output` (an algorithm ends).

### Fairness and why the code justifies it

Weak fairness is put on steps of tasks that are ready to run: Tokio polls every
task that was woken. It is not put on the environment, with one exception. The HTTP client sets no
timeout (`src/src/http.rs`), so neither the authorization server nor the API nor
the document's source is obliged to answer; clients need not read, disconnect,
cancel or send, nor finish what they have begun to send; time need not pass. `Readers` in `ListChanged` are clients that do
read what is sent to them, which only `ClientsCatchUp` is about.

The exception is `Startup`, whose reload loop depends on its source. `WF(Tick)`: the
interval passes. `SF(Reload)`: a source that is asked again and again answers again
and again, though any number of fetches between may fail. Without that
`ReloadingGoesOn` would say nothing: it is about what the *loop* does with failures,
bad documents and its own end. A panic of the loop is excluded by name and a fetch that
never answers by the fairness: either ends reloading without an error anybody sees,
and what is served is the last good document from then on.

## 4. Proofs

TLAPS checks every theorem below to its last leaf, for every value of the
constants that meets the named assumptions of the module.

### `TokenProviderProofs`

Assumptions: the grant is one of the four; JWTs have a subject and a natural
`exp`; margins, lifetimes and leeway are naturals; `NoExpiry`, `NoTtl`, `NoEntry` and
`Nobody` differ from what they stand beside; the cache has at least one slot.
Nothing bounds the number of calls, sessions, issuers or lifetimes.

- `TypeCorrect`. Inductive as it stands, one step per action.
- `TokenIsolation` (`OwnIdentityOnly`) and `NoCallerNoToken` (`NobodyIsRefused`). What
  calls end with says nothing about the cache, through which tokens travel from
  one call to another. So the invariant is `IInv == TypeOK /\ SlotsSound /\ CallsSound`:
  each entry lies under the key of the delegation it was minted for, and each
  token in a call's hands is for that call. The step that matters is `Hit`: entry
  and call share a *key*, and `KeyDeterminesIdentity` shows that delegations with one
  key assert one identity, under every grant. It fails if the issuer is left out of
  the key.
- `CacheIsBounded`. Needs `BoundedInv`, the bound together with the finiteness of the
  occupied keys, since a cardinality means nothing without it; `AddOneKey` is the
  arithmetic of `Survivors`.
- `ValidHits` and `HitsEndWithSession` are action properties: `IInv` says of each entry
  that its refresh time lies before its token's expiry (if the response was prompt)
  and before the known end of its minter's session, and a hit happens before the
  refresh time.
- `UsableOnlyWithinSession`: with `Leeway = 0` and every `exp` a whole number the property that
  `provider_session_end` violates holds. `StrictInv` adds that every delegation in the
  system knows its session's expiry: this is what the leeway breaks.
- `Refinement`: `Spec => Service!Spec`. `IssuedInv` says that what is cached or on its
  way was issued for the identity it names; `Issue` maps to `Issue`, `Hit` and `Store`
  to `HandOut`, `RefuseNobody` and `Fail` to `Deny`, `Overflow` to `Lose`, and the
  lookups, arrivals and ticks to stuttering.
- `EvictsTheSoonest` (`EvictsOnlyTheSoonest`): a store takes a usable token from another
  caller only when every slot holds one, and then the one that expires first. From
  `BoundedInv` and the cardinalities of the live and the cached keys.

### `ToolCallsProofs`

Assumptions: documents map names to operations, the markers for "no JWT", "nobody" and
the like differ from the JWTs and from each other where the code tells them apart, and
configurations are `Deployable`: a gate, anonymous discovery and a grant that acts for the
callers have an authorizer. `StartupProofs` shows that no other comes to serve. Calls, documents, JWTs, roles and the number of
reloads are arbitrary.

What a call must keep depends on its own record, its place with the token service
and the deployment, never on another call. So `IInv` is `Good(call[c], status[c])` for
every call, and each step is checked for the call it moves; `GoodStays` takes care of
the rest. The parts of `Good`: access is anonymous, unrestricted or that of the
call's JWT; a running call has pinned a document in which its tool is allowed
(`PinnedIsAllowed`: this is what survives a reload or an expiry in between); a call
that waits for a token stands in the name its deployment says (`AsksAsItself`); at
most one request, the right one; one recorded outcome, in step with the phase.

- `CallsAreAllowed` (`ApiRequestsAreAllowed`), `CallsSpeakForTheCaller`
  (`ApiRequestsSpeakForTheCaller`), `RecordsAreTrue` (`RecordsTellTheTruth`),
  `HiddenLooksMissing` (`RefusalsTellNothing`), `CallsTypeCorrect`, and the action property
  `CancelledMeansNothingMore` (`NothingAfterCancel`).
- `CallsUseTheService`: `Spec => Tokens!Spec`, every step of a call is one of the token
  service or leaves it alone, and who asks is somebody who may.
- `PlacesAreGivenUp`: only a call that waits for its token, or died of it, has a place with
  the provider; however else it ends, it leaves none behind.

### `StartupProofs`

Assumptions: a role mapping, a host or a header that is malformed is none that is not;
issuers are subjects; markers are no tokens, documents or configurations. `IInv` says
what each stage of `main` may rely on (`Checked`: past parsing clap has agreed, past the
authorizer it is the one the flags make, and so on), which the stages alone do not
say: `main` keeps no record of what it checked.

- `DelegationIsPossible` (`DelegationHasCallers`), `CredentialsAreSingle`
  (`OneCredential`), `ConfiguredIsInForce` (`FlagsTakeEffect`), `CallersAreVerified`
  (`AcceptedTokensAreOurs`), `StartupTypeCorrect`; for every set of command lines,
  documents, keys, tokens, times and hosts. `ConfiguredIsInForce` puts three arguments
  together: clap's requirements hold of what it lets through (so the flags have an
  authorizer, and the resource a gate), a request that is handled passed the gate and the
  host check, and the conditions of `from_spec` and of `main` come to the same.
- `ServesWhatCallsAssume` joins `Startup` to `ToolCalls`: `Deployed` reads off the authorizer,
  the protected resource and the grant in force what `ToolCalls` calls the deployment, and
  it is `Deployable` whenever the server serves. The answers of `Startup`'s gate agree
  with it (`AnswersFit`): challenged only behind a gate, unrestricted only without an
  authorizer.

### `ListChangedProofs`

Assumptions: sessions and subscriptions are different clients, there is a document, and
the markers are none. `IInv` strengthens the two invariants with
`SeenIsPast` (a receiver is never ahead of the watch channel), `SessionsDoNotSend`
and `ListsAfterwards`. `NobodyIsSilentlyStale` (`NeverSilentlyStale`) and
`OpenSessionsStayRegistered` (`OpenSessionsAreRegistered`) hold for any number of
clients that come and leave in any order.

### `SseTransportProofs`

Assumption: buffers and the number of sessions are naturals. `AcceptedMessagesAreKept`
(`AcceptedIsNotLost`) needs `KeptFromTheStart`, the same for a POST that is still parked:
its message is in the inbox *before* it is answered. `NotYetServed` keeps the service
of a session that opens from having ended before. `SseTypeCorrect` includes that the
table holds exactly the sessions with an open stream.

### `UpstreamRequestProofs`

Assumption: declarations and configurations are of their types and `body` and
`Authorization` are names. `ToolInv` relates the three things a tool is built of:
what is sent is required if it is a path parameter (`SentIsSendable`), and what the
schema describes is sent (`DescribedIsSent`), for the declaration that *won*. From it
`RequiredArgumentsSuffice` (`RequiredIsEnough`), `DescribedArgumentsArrive`
(`ArgumentsReachTheirPlace`) and `ConfigurationTakesEffect`
(`ConfiguredHeadersAreSent`), for any number of parameters.

### `DiscoveryProofs`

What a client discovers: the listing of tools (`ToolListing`) and the document resource
(`Prune`).

Listing. Assumptions: a page holds at least one tool, snapshots are sequences of tools,
and the mark for no cursor is none. Walkers, roles, documents,
page sizes and the number of reloads are arbitrary. A cursor holds two things, a
fingerprint and an offset; nothing on the server remembers the walk. What ties them
together is `OnItsWay`: an honest walk has got the first `offset` names of the very
listing its cursor's fingerprint was taken of (`cut`). `WInv` is that, the shape of the
state and `IssuedCursorsAreWellFormed`; the step that matters is `Page`, where an equal
fingerprint stands for an equal list of names (`ThePage`, `PageKeeps`), though perhaps of
another snapshot.

- `IssuedCursorsAreHonoured` (`IssuedCursorsAreWellFormed`), `WalksAreComplete`
  (`WalksMissNothing`, from `LastPage`), `StaleOnlyAfterChange` (`StaleMeansChanged`, from
  `RefusedForAReason`).
- `WalksShowWhatIsVisible`: what a completed walk has got is what its caller may see of
  the document, no less and no more. `ListedSelects` is the induction over the document
  that the filter of `list_page` neither drops, adds nor repeats a tool.
- `EveryToolOnce`: where tools have names of their own, which `ToolNamesAreUnique` says of
  those built, no walk gets one twice.

Pruning. Assumption: documents are finite maps over the given nodes and schemes are
components. `SearchInv == TypeOK /\ FoundOrPending /\ NothingElse /\ Concluded`. What a node
that was taken up refers to is reached or pending (with nothing pending at the
end this is `EveryWalkFindsWhatItNeeds`); and everything reached or pending is in
every set that contains the starting points and is closed under references (which
gives `NothingHiddenIsKept` without speaking of paths or induction over them).
`SearchGetsNearer` is the argument why the search ends: each step takes up a reference
for the first time or leaves one fewer pending, and the last one is followed by none.
That there are only so many of either is the model checker's `Terminates`.

### `ToolGenerationProofs`

Names. Assumption: rename rules and digests map names to names, and digests are within
the cap. `NamesInv == TypeOK /\ ClaimsAreNames /\ UniqueNames`: the set of claimed names is
the set of the tools' names, so the candidate that leaves the loop is new
(`ToolNamesAreUnique`). `SearchingInv` adds what the loop knows: the bare name and every
suffix below the one it tries are taken (`Searching`), and it has tried at most one name
more than there are tools (`TriesAreBounded`). The bound is the pigeonhole principle
(`TakenNamesAreTools`): names with different suffixes differ (`SuffixesDiffer`), so as many
taken names are as many tools.

- `OnlyCollisionsAreSuffixed` (`SuffixOnlyOnCollision`), `DisambiguationEnds`.

Schemas and results. Assumptions: the names of components are finitely many, schemas and
values nest at most `MaxDepth` deep, a document's parts are schemas, and no value is the
marker for none. The schemas, the references between them, the values, the depth, the
responses and the length of chains are arbitrary.

- A recursive function of TLA+ is a CHOOSE, and says nothing until some function meets its
  equation. `RecursionByRank` proves that one does, for every recursion that looks only at
  what ranks lower; with it `ConformsEquation`, `HonoursEquation`, `MentionedEquation` and
  `ChainsStayInside` unfold the model's definitions. Inlining recurs in two directions, down
  a schema and across references with one more of them seen (`UnseenShrinks`), and has two
  such lemmas, `InliningExists` and `InlineRefsExist`; `InliningEquation` unfolds it. This is
  also the proof that `inline_refs` ends on every document, cyclic ones included.
- `InliningAsksNoMore` (`InlinedSchemasAskNoMore`). The statement is about the empty set
  of seen references, its induction about every set: `Admits` says of a schema met inside
  others that what honours it conforms to its copy, provided every reference seen leads to
  it (`WentThrough`). That is what makes the bare object at a cycle harmless: the reference
  leads back to itself, so `StopsAtObjects` speaks of its target, and a value that honours
  it is an object. The induction is by the least counterexample, in the number of names
  unseen and then in depth (`Shallowest`).
- `DeclaredIsReturned` (`StructuredContentFits`). `OutputInv` says that a result is made of the
  response at hand; then the code of success the answer falls under has a schema
  (`MediaTypeRead`), which is the one declared (`DeclaredForAll`), and its inlined copy is what
  `InliningAdmits` speaks of. The copy is an object's, so the value is one and is
  attached as it is (`Shaped`).

Two lemmas do what induction over data would: `LeastNatural` (a non-empty set of naturals has
a least element, from the library's theorem on well-founded relations) applied to the set
of counterexamples, here and in `DiscoveryProofs`.

### What is model-checked only

Liveness under fairness is outside the prover's reach: `NobodyWaitsForAnother`,
`CancelledCallsEnd`, `ReloadNeverWaits`, `ClientsCatchUp`, `DisconnectCleansUp`,
`LookUpsNeverWait`, `OnlyClientsHoldUpShutdown`, `Terminates`, `ReloadingGoesOn`. Every
invariant and action property of the runs is proved.

## 5. What was found

1. **A delegated token outlives a session that ended within the leeway**
   (`provider_session_end`). `src/src/oauth/provider.rs:64` says that a delegated token
   is not cached past the caller's `exp`. A JWT past its `exp` but within
   `--inbound-clock-skew` is accepted; `unix_to_instant` yields no instant for it,
   `request_token` then applies no cap (line 291), and the token stays usable for
   its whole lifetime. `HitsWithinSession` is what holds: the cap works whenever the
   expiry is known.
2. **An operation's parameter does not replace the path item's**
   (`request_override`). `src/src/tools.rs:225` says "operation parameters win". Its
   schema does; the path item's declaration stays in `params` and `required`, so a
   query or header argument is sent once per declaration and a parameter the
   operation makes optional stays required.

Seen on the way, without a run of their own:

- The fingerprint of a listing (`src/src/server.rs:990`) leaves out the output schema
  and the method's annotations, so a walk across a reload that changes only those
  joins entries of two listings, though a cursor is said to be bound to "that exact
  list". What holds: `WalksMissNothing`.
- Graceful shutdown over SSE waits for its clients: for event streams, which only
  they end (`src/src/transport/sse.rs:66`), and for POSTs whose body is not there yet,
  which the extractor awaits without a timeout (`:139`). `OnlyClientsHoldUpShutdown` says
  that nothing else holds it up, a POST parked at a full inbox in particular.
- `--inbound-expected-audience`, `--inbound-expected-issuer` and `--inbound-clock-skew`
  without a JWKS do nothing: the server starts and handles every request unrestricted.
  Their help says "Only used with a JWKS"; clap asks for a JWKS only for a role mapping,
  anonymous discovery and the resource. `FlagsTakeEffect` is about those and the JWKS itself.
- A verified JWT whose `exp` lies beyond the clock's end panics in the handler
  (`src/src/server.rs:884`), so its caller gets no answer (`DieOfExpiry`). One whose `exp`
  has a fraction is accepted and taken to have none (`src/src/auth.rs:173`), so that
  nothing caps its delegated tokens, leeway or not (`session_end`).
- A body that breaks off counts as an empty one and the call as a success
  (`src/src/server.rs:266`, `:270`). What `StructuredContentFits` says of it is that no
  structured content is made up.
- A reload whose fetch never answers, or whose provider panics, ends reloading
  silently (`src/src/main.rs:189`).
- The document resource may keep a security scheme that is an alias of another
  without its target: schemes are added after the search
  (`src/src/openapi/prune.rs:142`). `WalkedFindsWhatItNeeds` is about what is searched.
- A suffix can take a name past `--max-name-len` (`src/src/tools.rs:126`), which
  `src/src/rename.rs:13` calls a hard cap. `SuffixOnlyOnCollision` says that nothing
  else can.
- A document's header parameter is sent beside a forwarded header or the token of the
  same name, and replaced by a static one (`src/src/server.rs:339`, `:346`, `:352`, `:356`):
  the single source per header that the comment at `:343` speaks of is checked among
  the headers of the command line only.
- A client that lists before its session is registered, or before its subscription
  is open, is not told of a change in between. `ListChanged` lets clients list once
  their channel is in place.
- `nbf` is not validated: `verify` configures expiry, audience and issuer only.
- `--openapi-file f http --openapi-url u --reload-every 5m` passes clap, as the two
  conflicting flags stand on different levels. The server starts from the file and
  its loop reloads from the URL (`Source` and `SpawnReloadLoop` in `Startup`).
- `--reload-every 0s` panics in the loop's own task; the server goes on and still
  advertises `listChanged` (`SpawnReloadLoop`). `ReloadingGoesOn` excludes a dead loop.
- A declared output schema is not kept by a 3xx answer or one without a body, nor
  when a success response documents another media type beside JSON and the upstream
  answers that, nor where a reference that is not an object's refers to itself and
  is inlined as `{type: object}`. `AnswersAsDocumented` and `StopsAtObjects` leave these
  out.

## 6. What is not modelled

- Signatures, decoding of JWTs, fetching and refreshing of JWKS, assertion signing:
  cryptography and libraries. Their outcomes are inputs (`signed_by`, `key_file`,
  `LetDown`).
- rmcp, axum, hyper, Tokio, reqwest, clap: external; their behaviour where `src/`
  depends on it is in the actions marked external in `PROJECT.json` or named in
  section 2. So stdio and streamable HTTP have no module: they are rmcp's.
- Parsing of YAML and JSON, formatting of descriptions, URL syntax, serialisation of
  argument values, case of header names, regular expressions (a filter is the set of
  names it matches), the sanitiser and the hash: pure text.
- Schemas beyond type, properties and references (`allOf`, formats, limits): inlining
  copies them as they are.
- Telemetry exporters, the access log, the requests of the health check: I/O.
- Panics other than the overflows of `Instant` and the zero interval; memory; the
  number of connections.

## 7. Plan

Done, in this order: `TokenService` and `TokenProvider` with proofs, `ToolCalls`,
`ListChanged`, `ToolListing`, `SseTransport`, `Prune` with proofs, `ToolNames` with
proofs, `UpstreamRequest`; then `CommandLine`, `InboundTokens` and `Startup` with
proofs, `ToolOutput`, filters in `ToolNames`, and the proofs of `ToolCalls`,
`ListChanged`, `SseTransport` and `UpstreamRequest`; then the proofs of `ToolListing`, of
the suffixes of `ToolNames` and of `ToolOutput`, whose recursion became functions for it,
and of how `Startup`, `ToolCalls` and `TokenService` fit together.

What is left:

1. A larger inbox in `sse_transport` and a second subscription in `list_changed`, which
   the proofs cover for safety and the runs do not for liveness.
2. For the liveness properties, the safety half of their arguments as theorems, as
   `DisambiguationEnds` and `SearchGetsNearer` are: what a step may not undo.
