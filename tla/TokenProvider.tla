------------------------------ MODULE TokenProvider -------------------------------
(***************************************************************************)
(* The OAuth token provider: concurrent calls share one cache of access    *)
(* tokens behind a mutex that is never held across the token request.      *)
(* One tick of the clock is one second; Instant and the wall clock are the *)
(* same clock here. A JWT is verified and its expiry looked at on the same *)
(* tick: the time between the two readings counts as Leeway, as it makes   *)
(* the same difference.                                                    *)
(***************************************************************************)
EXTENDS Naturals, FiniteSets

CONSTANTS
  Calls,       \* tasks that may want a token at once
  Sessions,    \* callers' JWTs: issuer, subject, exp, and whether that is whole
  Nobody,      \* the delegation of a call without a verified caller
  NoIssuer,    \* the issuer of a JWT that has no `iss`
  NoSubject,   \* the empty subject, which no JWT has
  Grant,       \* the configured grant
  Margin,      \* REFRESH_MARGIN
  DefaultTtl,  \* DEFAULT_TTL
  Ttls,        \* the `expires_in` values the authorization server sends
  NoTtl,       \* a response without `expires_in`
  NoExpiry,    \* an unknown expiry
  NoEntry,     \* an empty cache slot
  MaxCached,   \* MAX_CACHED_TOKENS
  Leeway,      \* --inbound-clock-skew
  MaxInstant,  \* the last instant the platform's clock can represent
  MaxTime      \* bound: the clock stops here

Grants == {"client_credentials", "fixed_subject", "caller_subject", "relay"}

ASSUME GrantAssumption == Grant \in Grants

ASSUME SessionsAssumption ==
  \A s \in Sessions :
    /\ s = [issuer |-> s.issuer, subject |-> s.subject, exp |-> s.exp, whole |-> s.whole]
    /\ s.subject # NoSubject
    /\ s.exp \in Nat /\ s.whole \in BOOLEAN

ASSUME TimeAssumption ==
  /\ Margin \in Nat /\ DefaultTtl \in Nat /\ Leeway \in Nat
  /\ MaxInstant \in Nat /\ MaxTime \in Nat
  /\ Ttls \subseteq Nat \cup {NoTtl}
  /\ NoTtl \notin Nat /\ NoExpiry \notin Nat

ASSUME CacheAssumption == MaxCached \in Nat \ {0}

VARIABLES
  now,         \* the clock
  cache,       \* per key: the CachedToken in its slot, or NoEntry
  call,        \* per call: how far token_for has come, with what it holds
  issued       \* history: identities a token was ever issued for

vars == <<now, cache, call, issued>>

-----------------------------------------------------------------------------------
(* Who asks, under which key the token is kept, for whom it is issued.     *)

Delegating == Grant \in {"caller_subject", "relay"}

Delegation(s, e) == [session |-> s, expiry |-> e]

Delegations ==
  {Nobody} \cup UNION {{Delegation(s, s.exp), Delegation(s, NoExpiry)} : s \in Sessions}

(* exp + leeway has not passed. *)
Accepted(s) == now <= s.exp + Leeway

(* An exp already behind the clock has no instant. *)
unix_to_instant(exp) == IF exp >= now THEN exp ELSE NoExpiry

(* The verifier rounds an exp that is not a whole number; here it is none. *)
session_end(s) == IF s.whole THEN unix_to_instant(s.exp) ELSE NoExpiry

ClientKey          == [kind |-> "client"]
DelegatedKey(i, s) == [kind |-> "delegated", issuer |-> i, subject |-> s]
AnonymousKey       == DelegatedKey(NoIssuer, NoSubject)

(* A mistake: a subject is taken to be unique across issuers. *)
cache_key_by_subject(d) ==
  IF ~Delegating THEN ClientKey
  ELSE DelegatedKey(NoIssuer, IF d = Nobody THEN NoSubject ELSE d.session.subject)

cache_key(d) ==
  CASE ~Delegating -> ClientKey
    [] Delegating /\ d = Nobody -> AnonymousKey
    [] OTHER -> DelegatedKey(d.session.issuer, d.session.subject)

Keys == {cache_key(d) : d \in Delegations}

(* Without a caller a delegating grant has nothing to assert. *)
CanAssert(d) == ~Delegating \/ d # Nobody

(* What the token request presents: the client itself, the pinned subject, *)
(* a signed assertion naming the caller's subject, or the caller's own JWT.*)
grant_assertion(d) ==
  CASE Grant = "client_credentials" -> [by |-> "client"]
    [] Grant = "fixed_subject"      -> [by |-> "fixed"]
    [] Grant = "caller_subject"     -> [by |-> "subject", subject |-> d.session.subject]
    [] Grant = "relay" -> [by |-> "jwt", issuer |-> d.session.issuer,
                           subject |-> d.session.subject]

Capable    == {d \in Delegations : CanAssert(d)}
Identities == {grant_assertion(d) : d \in Capable}

Tokens       == [for : Identities, caller : Capable, expires : Nat \cup {NoExpiry}]
CachedTokens == [token : Tokens, refresh_at : Nat, prompt : BOOLEAN]

ASSUME NobodyAssumption ==
  /\ \A s \in Sessions : \A e \in {s.exp, NoExpiry} : Nobody # [session |-> s, expiry |-> e]
  /\ NoEntry \notin CachedTokens

-----------------------------------------------------------------------------------
(* The cache. An entry's `prompt` is history: the response had a lifetime  *)
(* above the margin and took no longer than the margin to arrive.          *)

(* A mistake: the margin is forgotten. *)
trust_window_no_margin(ttl) == IF ttl = NoTtl THEN DefaultTtl ELSE ttl

trust_window(ttl) ==
  LET lifetime == IF ttl = NoTtl THEN DefaultTtl ELSE ttl
  IN  IF lifetime > Margin THEN lifetime - Margin ELSE 1

(* Mistakes: the cap is not applied; an unknown expiry is taken as it comes. *)
Uncapped(a, b)      == a
UnknownFirst(a, b)  == IF b = NoExpiry \/ b < a THEN b ELSE a

Earlier(a, b) == IF b # NoExpiry /\ b < a THEN b ELSE a

CachedKeys == {k \in Keys : cache[k] # NoEntry}
LiveKeys   == {k \in CachedKeys : now < cache[k].refresh_at}

(* `now < refresh_at` under the lock. *)
Cached(k) == cache[k] # NoEntry /\ now < cache[k].refresh_at

Soonest(S) == {k \in S : \A other \in S : cache[k].refresh_at <= cache[other].refresh_at}

(* A mistake: a full cache takes one more. *)
SurvivorsOffByOne(key) ==
  IF Cardinality(CachedKeys) <= MaxCached \/ key \in CachedKeys THEN {CachedKeys}
  ELSE IF Cardinality(LiveKeys) <= MaxCached THEN {LiveKeys}
  ELSE {LiveKeys \ {k} : k \in Soonest(LiveKeys)}

(* The sets of keys that may survive making room for `key`: HashMap order  *)
(* decides which of several equally early entries is evicted.              *)
Survivors(key) ==
  IF Cardinality(CachedKeys) < MaxCached \/ key \in CachedKeys THEN {CachedKeys}
  ELSE IF Cardinality(LiveKeys) < MaxCached THEN {LiveKeys}
  ELSE {LiveKeys \ {k} : k \in Soonest(LiveKeys)}

-----------------------------------------------------------------------------------
(* The stages of one token_for.                                            *)

Idle                == [phase |-> "idle"]
Asked(d)            == [phase |-> "asked", caller |-> d]
Requesting(d)       == [phase |-> "requesting", caller |-> d]
Replied(d, t, ttl)  == [phase |-> "replied", caller |-> d, token |-> t, ttl |-> ttl]
Fresh(d, e)         == [phase |-> "fresh", caller |-> d, entry |-> e]
Answered(d, t)      == [phase |-> "answered", caller |-> d, token |-> t]
Refused(d)          == [phase |-> "refused", caller |-> d]
Panicked            == [phase |-> "panicked"]

Token(d, expires)   == [for |-> grant_assertion(d), caller |-> d, expires |-> expires]

Init ==
  /\ now = 0
  /\ cache = [k \in Keys |-> NoEntry]
  /\ call = [c \in Calls |-> Idle]
  /\ issued = {}

(* The caller's JWT was verified and a delegation built from its claims. A *)
(* call whose JWT ends beyond the clock's end has panicked over that (see  *)
(* ToolCalls).                                                             *)
Delegate(c, s) ==
  /\ call[c] = Idle
  /\ Accepted(s)
  /\ s.whole => s.exp <= MaxInstant
  /\ call' = [call EXCEPT ![c] = Asked(Delegation(s, session_end(s)))]
  /\ UNCHANGED <<now, cache, issued>>

(* access_token: a token for no caller in particular. *)
AskForNobody(c) ==
  /\ call[c] = Idle
  /\ call' = [call EXCEPT ![c] = Asked(Nobody)]
  /\ UNCHANGED <<now, cache, issued>>

Hit(c) ==
  /\ call[c].phase = "asked"
  /\ LET d == call[c].caller IN
     /\ Cached(cache_key(d))
     /\ call' = [call EXCEPT ![c] = Answered(d, cache[cache_key(d)].token)]
  /\ UNCHANGED <<now, cache, issued>>

(* A mistake: one request per key, the others wait for it. *)
MissSingleFlight(c) ==
  /\ call[c].phase = "asked"
  /\ LET d == call[c].caller IN
     /\ ~Cached(cache_key(d))
     /\ CanAssert(d)
     /\ \A o \in Calls : call[o].phase = "requesting"
                        => cache_key(call[o].caller) # cache_key(d)
     /\ call' = [call EXCEPT ![c] = Requesting(d)]
  /\ UNCHANGED <<now, cache, issued>>

(* The lock is released before the request is sent: other calls with the   *)
(* same key miss too and send requests of their own.                       *)
Miss(c) ==
  /\ call[c].phase = "asked"
  /\ LET d == call[c].caller IN
     /\ ~Cached(cache_key(d))
     /\ CanAssert(d)
     /\ call' = [call EXCEPT ![c] = Requesting(d)]
  /\ UNCHANGED <<now, cache, issued>>

(* A mistake: a call without a caller falls back to the client's own token. *)
RefuseNobodyFallsBack(c) ==
  /\ call[c].phase = "asked"
  /\ LET d == call[c].caller IN
     /\ ~Cached(cache_key(d))
     /\ ~CanAssert(d)
     /\ call' = [call EXCEPT ![c] =
          Answered(d, [for |-> [by |-> "client"], caller |-> d, expires |-> NoExpiry])]
  /\ UNCHANGED <<now, cache, issued>>

(* Nothing to assert: the request is refused before it is sent. *)
RefuseNobody(c) ==
  /\ call[c].phase = "asked"
  /\ LET d == call[c].caller IN
     /\ ~Cached(cache_key(d))
     /\ ~CanAssert(d)
     /\ call' = [call EXCEPT ![c] = Refused(d)]
  /\ UNCHANGED <<now, cache, issued>>

(* The authorization server issues a token; the response is on its way.    *)
Issue(c, ttl) ==
  /\ call[c].phase = "requesting"
  /\ LET d == call[c].caller
         expires == IF ttl = NoTtl THEN NoExpiry ELSE now + ttl
     IN  /\ call' = [call EXCEPT ![c] = Replied(d, Token(d, expires), ttl)]
         /\ issued' = issued \cup {grant_assertion(d)}
  /\ UNCHANGED <<now, cache>>

(* Unreachable endpoint, error status, or a body that is not a token.      *)
Fail(c) ==
  /\ call[c].phase \in {"requesting", "replied"}
  /\ call' = [call EXCEPT ![c] = Refused(call[c].caller)]
  /\ UNCHANGED <<now, cache, issued>>

Receive(c) ==
  /\ call[c].phase = "replied"
  /\ LET d      == call[c].caller
         t      == call[c].token
         ttl    == call[c].ttl
         until  == now + trust_window(ttl)
         capped == IF d = Nobody THEN until ELSE Earlier(until, d.expiry)
         prompt == ttl # NoTtl /\ ttl > Margin /\ now + ttl <= t.expires + Margin
     IN  /\ until <= MaxInstant
         /\ call' = [call EXCEPT ![c] =
              Fresh(d, [token |-> t, refresh_at |-> capped, prompt |-> prompt])]
  /\ UNCHANGED <<now, cache, issued>>

(* Instant + Duration past the last instant panics: the task dies before   *)
(* it reaches the cache.                                                   *)
Overflow(c) ==
  /\ call[c].phase = "replied"
  /\ now + trust_window(call[c].ttl) > MaxInstant
  /\ call' = [call EXCEPT ![c] = Panicked]
  /\ UNCHANGED <<now, cache, issued>>

(* Whatever another call put in the slot meanwhile is overwritten. *)
Store(c) ==
  /\ call[c].phase = "fresh"
  /\ LET key == cache_key(call[c].caller) IN
     \E kept \in Survivors(key) :
       cache' = [k \in Keys |-> IF k = key THEN call[c].entry
                                ELSE IF k \in kept THEN cache[k] ELSE NoEntry]
  /\ call' = [call EXCEPT ![c] = Answered(call[c].caller, call[c].entry.token)]
  /\ UNCHANGED <<now, issued>>

(* A cancelled tool call drops the future, which only rests at an await.   *)
Cancel(c) ==
  /\ call[c].phase \in {"asked", "requesting", "replied"}
  /\ call' = [call EXCEPT ![c] = Idle]
  /\ UNCHANGED <<now, cache, issued>>

Finish(c) ==
  /\ call[c].phase \in {"answered", "refused", "panicked"}
  /\ call' = [call EXCEPT ![c] = Idle]
  /\ UNCHANGED <<now, cache, issued>>

Tick ==
  /\ now < MaxTime
  /\ now' = now + 1
  /\ UNCHANGED <<cache, call, issued>>

Next ==
  \/ Tick
  \/ \E c \in Calls :
       \/ \E s \in Sessions : Delegate(c, s)
       \/ AskForNobody(c)
       \/ Hit(c)
       \/ Miss(c)
       \/ RefuseNobody(c)
       \/ \E ttl \in Ttls : Issue(c, ttl)
       \/ Fail(c)
       \/ Receive(c)
       \/ Overflow(c)
       \/ Store(c)
       \/ Cancel(c)
       \/ Finish(c)

Spec == Init /\ [][Next]_vars

(* The runtime polls a task that is ready. Nothing here obliges the        *)
(* authorization server: its client has no timeout.                        *)
Advance(c) ==
  Hit(c) \/ Miss(c) \/ RefuseNobody(c) \/ Receive(c) \/ Overflow(c) \/ Store(c)

FairSpec == Spec /\ \A c \in Calls : WF_vars(Advance(c))

-----------------------------------------------------------------------------------
(* Properties.                                                             *)

Stages ==
  {Idle, Panicked}
  \cup [phase : {"asked", "refused"}, caller : Delegations]
  \cup [phase : {"requesting"}, caller : Capable]
  \cup [phase : {"replied"}, caller : Capable, token : Tokens, ttl : Ttls]
  \cup [phase : {"fresh"}, caller : Capable, entry : CachedTokens]
  \cup [phase : {"answered"}, caller : Delegations, token : Tokens]

(* Every slot holds a token or nothing, every call is at one stage of      *)
(* token_for, and only identities the grant can assert get tokens.         *)
TypeOK ==
  /\ now \in Nat
  /\ cache \in [Keys -> CachedTokens \cup {NoEntry}]
  /\ call \in [Calls -> Stages]
  /\ issued \subseteq Identities

(* The cache never holds more than MAX_CACHED_TOKENS entries, however many *)
(* calls store at once.                                                    *)
CacheBounded == Cardinality(CachedKeys) <= MaxCached

(* Two callers never share a delegated token: whichever task requested it, *)
(* the token a call ends with was issued for the identity that call itself *)
(* would have asserted.                                                    *)
OwnIdentityOnly ==
  \A c \in Calls : call[c].phase = "answered" =>
    call[c].token.for = grant_assertion(call[c].caller)

(* A delegating grant without a caller is refused, not downgraded: it never*)
(* gets a token, and the slot it looks in stays empty.                     *)
NobodyIsRefused ==
  Delegating =>
    /\ \A k \in CachedKeys : k # AnonymousKey
    /\ \A c \in Calls : call[c].phase = "answered" => call[c].caller # Nobody

(* A step that answers a call from the cache. *)
HitStep(c) == call[c].phase = "asked" /\ call'[c].phase = "answered"

ValidHit(c) ==
  LET e == cache[cache_key(call[c].caller)] IN e.prompt => now < e.token.expires

HitInSession(c) ==
  LET minter == call'[c].token.caller
  IN  (minter # Nobody /\ minter.expiry # NoExpiry) => now < minter.expiry

(* A call is never answered from the cache with a token whose lifetime has *)
(* run out, provided the response that brought it was not delayed by more  *)
(* than the refresh margin and announced a lifetime above it.              *)
HitsAreValid == [][\A c \in Calls : HitStep(c) => ValidHit(c)]_vars

(* A call is never answered from the cache with a token minted for a       *)
(* caller whose session has ended, once that session's expiry is known.    *)
HitsWithinSession == [][\A c \in Calls : HitStep(c) => HitInSession(c)]_vars

(* "A delegated token is not cached past" the caller's own exp: a usable   *)
(* entry belongs to a session that is still running.                       *)
UsableWithinSession ==
  Delegating => \A k \in LiveKeys : now < cache[k].token.caller.session.exp

(* Making room costs a token still in use only when every slot holds one,  *)
(* and then exactly one: the first that would have expired anyway.         *)
EvictsOnlyTheSoonest ==
  [][\A k \in LiveKeys : cache'[k] = NoEntry =>
       /\ LiveKeys = CachedKeys
       /\ Cardinality(CachedKeys) = MaxCached
       /\ \A other \in CachedKeys \ {k} :
            cache'[other] # NoEntry /\ cache[k].refresh_at <= cache[other].refresh_at]_vars

(* No call waits for another one's token request: whoever looks for a token*)
(* or has one in hand moves on, even while the authorization server leaves *)
(* every other request unanswered.                                         *)
NobodyWaitsForAnother ==
  \A c \in Calls :
    call[c].phase \in {"asked", "replied", "fresh"}
      ~> call[c].phase \in {"requesting", "answered", "refused", "panicked", "idle"}

(* Without a cache and a clock this is a service that hands everyone their *)
(* own tokens.                                                             *)
StatusOf(x) ==
  CASE x.phase = "idle"     -> [state |-> "idle"]
    [] x.phase = "answered" -> [state |-> "granted", asker |-> x.caller,
                                identity |-> x.token.for]
    [] x.phase = "refused"  -> [state |-> "denied", asker |-> x.caller]
    [] x.phase = "panicked" -> [state |-> "lost"]
    [] OTHER                -> [state |-> "pending", asker |-> x.caller]

Status == [c \in Calls |-> StatusOf(call[c])]

Service == INSTANCE TokenService WITH
  Askers <- Delegations, IdentityOf <- [d \in Capable |-> grant_assertion(d)],
  status <- Status

(* Every behaviour of the cached provider is one of the plain service. *)
ImplementsService == Service!Spec
===================================================================================
