----------------------------- MODULE TokenProviderProofs --------------------------
(***************************************************************************)
(* What TLAPS proves of the token provider, for every set of calls and     *)
(* sessions, every grant, margin, leeway and cache size.                   *)
(***************************************************************************)
EXTENDS TokenProvider, TLAPS, FiniteSetTheorems

-----------------------------------------------------------------------------------
(* What a stage carries, and which stages are well formed.                 *)

LEMMA StageCarries ==
  ASSUME NEW x \in Stages
  PROVE  /\ x.phase \in {"asked", "refused", "answered"} => x.caller \in Delegations
         /\ x.phase \in {"requesting", "replied", "fresh"} => x.caller \in Capable
         /\ x.phase \in {"replied", "answered"} => x.token \in Tokens
         /\ x.phase = "replied" => x.ttl \in Ttls
         /\ x.phase = "fresh" => x.entry \in CachedTokens
BY DEF Stages, Idle, Panicked

LEMMA StagesMade ==
  /\ Idle \in Stages /\ Panicked \in Stages
  /\ \A d \in Delegations : Asked(d) \in Stages /\ Refused(d) \in Stages
  /\ \A d \in Capable : Requesting(d) \in Stages
  /\ \A d \in Capable, t \in Tokens, ttl \in Ttls : Replied(d, t, ttl) \in Stages
  /\ \A d \in Capable, e \in CachedTokens : Fresh(d, e) \in Stages
  /\ \A d \in Delegations, t \in Tokens : Answered(d, t) \in Stages
BY DEF Stages, Idle, Panicked, Asked, Refused, Requesting, Replied, Fresh, Answered

LEMMA CapableAreDelegations == Capable \subseteq Delegations
BY DEF Capable

LEMMA DelegationsMade ==
  \A s \in Sessions : Delegation(s, session_end(s)) \in Delegations
BY DEF Delegations, session_end, unix_to_instant

(* A delegation is nobody's, or carries the expiry of its session or none. *)
LEMMA DelegationShape ==
  ASSUME NEW d \in Delegations, d # Nobody
  PROVE  /\ d.session \in Sessions
         /\ d.expiry \in {d.session.exp, NoExpiry}
         /\ d.expiry # NoExpiry => d.expiry \in Nat
BY SessionsAssumption DEF Delegations, Delegation

LEMMA TrustWindowType == \A ttl \in Ttls : trust_window(ttl) \in Nat \ {0}
BY TimeAssumption DEF trust_window

LEMMA KeysMade == \A d \in Delegations : cache_key(d) \in Keys
BY DEF Keys

LEMMA IdentitiesMade == \A d \in Capable : grant_assertion(d) \in Identities
BY DEF Identities

-----------------------------------------------------------------------------------
(* Type correctness.                                                       *)

LEMMA TypeInit == Init => TypeOK
BY StagesMade DEF Init, TypeOK

(* A received response makes a well-formed cache entry. *)
LEMMA EntryMade ==
  ASSUME NEW t \in Tokens, NEW ttl \in Ttls, NEW d \in Capable, NEW p \in BOOLEAN,
         now \in Nat
  PROVE  LET until == now + trust_window(ttl)
         IN  [token |-> t,
              refresh_at |-> IF d = Nobody THEN until ELSE Earlier(until, d.expiry),
              prompt |-> p] \in CachedTokens
<1>1. now + trust_window(ttl) \in Nat
  BY TrustWindowType
<1>2. d # Nobody => Earlier(now + trust_window(ttl), d.expiry) \in Nat
  BY <1>1, DelegationShape, CapableAreDelegations DEF Earlier
<1> QED
  BY <1>1, <1>2 DEF CachedTokens

LEMMA TypeStep == TypeOK /\ [Next]_vars => TypeOK'
<1> SUFFICES ASSUME TypeOK, [Next]_vars
             PROVE  TypeOK'
  OBVIOUS
<1> USE DEF TypeOK
<1>1. CASE UNCHANGED vars
  BY <1>1 DEF vars
<1>2. CASE Tick
  BY <1>2 DEF Tick
<1>3. ASSUME NEW c \in Calls, NEW s \in Sessions, Delegate(c, s)
      PROVE  TypeOK'
  BY <1>3, StagesMade, DelegationsMade DEF Delegate
<1>4. ASSUME NEW c \in Calls, AskForNobody(c)
      PROVE  TypeOK'
  BY <1>4, StagesMade DEF AskForNobody, Delegations
<1>5. ASSUME NEW c \in Calls, Hit(c)
      PROVE  TypeOK'
  <2> DEFINE d == call[c].caller
  <2>1. d \in Delegations
    BY <1>5, StageCarries DEF Hit
  <2>2. cache[cache_key(d)].token \in Tokens
    BY <1>5, <2>1, KeysMade DEF Hit, Cached, CachedTokens
  <2> QED
    BY <1>5, <2>1, <2>2, StagesMade DEF Hit
<1>6. ASSUME NEW c \in Calls, Miss(c)
      PROVE  TypeOK'
  <2>1. call[c].caller \in Capable
    BY <1>6, StageCarries DEF Miss, Capable
  <2> QED
    BY <1>6, <2>1, StagesMade DEF Miss
<1>7. ASSUME NEW c \in Calls, RefuseNobody(c)
      PROVE  TypeOK'
  BY <1>7, StageCarries, StagesMade DEF RefuseNobody
<1>8. ASSUME NEW c \in Calls, NEW ttl \in Ttls, Issue(c, ttl)
      PROVE  TypeOK'
  <2> DEFINE d == call[c].caller
             expires == IF ttl = NoTtl THEN NoExpiry ELSE now + ttl
  <2>1. d \in Capable
    BY <1>8, StageCarries DEF Issue
  <2>2. expires \in Nat \cup {NoExpiry}
    BY TimeAssumption
  <2>3. Token(d, expires) \in Tokens
    BY <2>1, <2>2, IdentitiesMade DEF Token, Tokens
  <2>4. Replied(d, Token(d, expires), ttl) \in Stages
    BY <2>1, <2>3, StagesMade
  <2>5. issued' \subseteq Identities
    BY <1>8, <2>1, IdentitiesMade DEF Issue
  <2> QED
    BY <1>8, <2>4, <2>5 DEF Issue
<1>9. ASSUME NEW c \in Calls, Fail(c)
      PROVE  TypeOK'
  BY <1>9, StageCarries, StagesMade, CapableAreDelegations DEF Fail
<1>10. ASSUME NEW c \in Calls, Receive(c)
       PROVE  TypeOK'
  <2> DEFINE d == call[c].caller
             t == call[c].token
             ttl == call[c].ttl
             until == now + trust_window(ttl)
             prompt == ttl # NoTtl /\ ttl > Margin /\ now + ttl <= t.expires + Margin
             e == [token |-> t,
                   refresh_at |-> IF d = Nobody THEN until ELSE Earlier(until, d.expiry),
                   prompt |-> prompt]
  <2>1. d \in Capable /\ t \in Tokens /\ ttl \in Ttls
    BY <1>10, StageCarries DEF Receive
  <2>2. prompt \in BOOLEAN
    OBVIOUS
  <2>3. e \in CachedTokens
    BY <2>1, <2>2, EntryMade
  <2>4. call' = [call EXCEPT ![c] = Fresh(d, e)]
    BY <1>10 DEF Receive
  <2> QED
    BY <1>10, <2>1, <2>3, <2>4, StagesMade DEF Receive
<1>11. ASSUME NEW c \in Calls, Overflow(c)
       PROVE  TypeOK'
  BY <1>11, StagesMade DEF Overflow
<1>12. ASSUME NEW c \in Calls, Store(c)
       PROVE  TypeOK'
  <2>1. call[c].caller \in Capable /\ call[c].entry \in CachedTokens
    BY <1>12, StageCarries DEF Store
  <2>2. call[c].entry.token \in Tokens
    BY <2>1 DEF CachedTokens
  <2>3. call' \in [Calls -> Stages]
    BY <1>12, <2>1, <2>2, StagesMade, CapableAreDelegations DEF Store
  <2>4. cache' \in [Keys -> CachedTokens \cup {NoEntry}]
    BY <1>12, <2>1 DEF Store
  <2> QED
    BY <1>12, <2>3, <2>4 DEF Store
<1>13. ASSUME NEW c \in Calls, Cancel(c) \/ Finish(c)
       PROVE  TypeOK'
  BY <1>13, StagesMade DEF Cancel, Finish
<1> QED
  BY <1>1, <1>2, <1>3, <1>4, <1>5, <1>6, <1>7, <1>8, <1>9, <1>10, <1>11, <1>12, <1>13
     DEF Next

THEOREM TypeCorrect == Spec => []TypeOK
BY TypeInit, TypeStep, PTL DEF Spec

-----------------------------------------------------------------------------------
(* The inductive invariant: who a token in flight or in a slot was issued  *)
(* for and in whose name, and how long its entry may be trusted.           *)

EntrySound(e) ==
  /\ e.token.for = grant_assertion(e.token.caller)
  /\ (e.token.caller # Nobody /\ e.token.caller.expiry # NoExpiry)
       => e.refresh_at <= e.token.caller.expiry
  /\ e.prompt => e.token.expires \in Nat /\ e.refresh_at <= e.token.expires

StageSound(x) ==
  /\ x.phase = "replied" =>
       /\ x.token.caller = x.caller
       /\ x.token.for = grant_assertion(x.caller)
       /\ x.ttl # NoTtl => x.token.expires \in Nat
  /\ x.phase = "fresh" => x.entry.token.caller = x.caller /\ EntrySound(x.entry)
  /\ x.phase = "answered" =>
       x.caller \in Capable /\ x.token.for = grant_assertion(x.caller)

SlotsSound ==
  \A k \in CachedKeys : cache_key(cache[k].token.caller) = k /\ EntrySound(cache[k])

CallsSound == \A c \in Calls : StageSound(call[c])

IInv == TypeOK /\ SlotsSound /\ CallsSound

LEMMA KeyTellsItsOwner ==
  ASSUME NEW i, NEW s, NEW j, NEW r, DelegatedKey(i, s) = DelegatedKey(j, r)
  PROVE  i = j /\ s = r
<1>1. DelegatedKey(i, s).issuer = i /\ DelegatedKey(i, s).subject = s
  BY DEF DelegatedKey
<1>2. DelegatedKey(j, r).issuer = j /\ DelegatedKey(j, r).subject = r
  BY DEF DelegatedKey
<1> QED
  BY <1>1, <1>2, Zenon

(* Two delegations with one cache key are asserted as one identity, and if *)
(* the grant can act for one it can act for the other.                     *)
LEMMA KeyDeterminesIdentity ==
  ASSUME NEW d \in Capable, NEW e \in Delegations, cache_key(d) = cache_key(e)
  PROVE  e \in Capable /\ grant_assertion(d) = grant_assertion(e)
<1>1. CASE ~Delegating
  BY <1>1, GrantAssumption DEF Capable, CanAssert, grant_assertion, Delegating, Grants
<1>2. CASE Delegating
  <2>1. d # Nobody /\ d \in Delegations
    BY <1>2 DEF Capable, CanAssert
  <2>2. d.session \in Sessions
    BY <2>1, DelegationShape
  <2>3. cache_key(d) = DelegatedKey(d.session.issuer, d.session.subject)
    BY <1>2, <2>1 DEF cache_key
  <2>4. e # Nobody
    <3>1. SUFFICES ASSUME e = Nobody PROVE FALSE
      OBVIOUS
    <3>2. cache_key(e) = AnonymousKey
      BY <3>1, <1>2 DEF cache_key
    <3>3. DelegatedKey(d.session.issuer, d.session.subject) = DelegatedKey(NoIssuer, NoSubject)
      BY <2>3, <3>2 DEF AnonymousKey
    <3>4. d.session.subject = NoSubject
      BY <3>3, KeyTellsItsOwner, SMT
    <3> QED
      BY <2>2, <3>4, SessionsAssumption
  <2>5. cache_key(e) = DelegatedKey(e.session.issuer, e.session.subject)
    BY <1>2, <2>4 DEF cache_key
  <2>6. d.session.issuer = e.session.issuer /\ d.session.subject = e.session.subject
    <3>1. DelegatedKey(d.session.issuer, d.session.subject)
            = DelegatedKey(e.session.issuer, e.session.subject)
      BY <2>3, <2>5
    <3> QED
      BY <3>1, KeyTellsItsOwner, SMT
  <2> QED
    BY <1>2, <2>4, <2>6 DEF Capable, CanAssert, grant_assertion, Delegating, Grants
<1> QED
  BY <1>1, <1>2

LEMMA InvInit == Init => IInv
<1> SUFFICES ASSUME Init PROVE IInv
  OBVIOUS
<1>1. SlotsSound
  BY DEF Init, SlotsSound, CachedKeys
<1>2. CallsSound
  BY DEF Init, CallsSound, StageSound, Idle
<1> QED
  BY <1>1, <1>2, TypeInit DEF IInv

(* A step that leaves the cache alone and takes one call to a sound stage. *)
LEMMA InvOneCall ==
  ASSUME IInv, TypeOK', UNCHANGED cache,
         NEW c \in Calls, NEW x, call' = [call EXCEPT ![c] = x], StageSound(x)
  PROVE  IInv'
<1>1. SlotsSound'
  BY DEF IInv, SlotsSound, CachedKeys, EntrySound
<1>2. \A o \in Calls : StageSound(call'[o])
  BY DEF IInv, TypeOK, CallsSound
<1>3. CallsSound'
  BY <1>2 DEF CallsSound
<1> QED
  BY <1>1, <1>3 DEF IInv

LEMMA InvHit == ASSUME IInv, TypeOK', NEW c \in Calls, Hit(c) PROVE IInv'
<1> DEFINE d == call[c].caller
           k == cache_key(d)
           t == cache[k].token
<1>1. d \in Delegations /\ k \in CachedKeys /\ cache[k] \in CachedTokens
  BY StageCarries, KeysMade DEF IInv, TypeOK, Hit, Cached, CachedKeys
<1>2. t.for = grant_assertion(t.caller) /\ cache_key(t.caller) = k
  BY <1>1 DEF IInv, SlotsSound, EntrySound
<1>3. t.caller \in Capable
  BY <1>1 DEF CachedTokens, Tokens
<1>4. d \in Capable /\ t.for = grant_assertion(d)
  BY <1>1, <1>2, <1>3, KeyDeterminesIdentity
<1>5. StageSound(Answered(d, t))
  BY <1>4 DEF StageSound, Answered
<1> QED
  BY <1>5, InvOneCall DEF Hit

LEMMA InvIssue ==
  ASSUME IInv, TypeOK', NEW c \in Calls, NEW ttl \in Ttls, Issue(c, ttl) PROVE IInv'
<1> DEFINE d == call[c].caller
           expires == IF ttl = NoTtl THEN NoExpiry ELSE now + ttl
<1>1. ttl # NoTtl => expires \in Nat
  BY TimeAssumption DEF IInv, TypeOK
<1>2. StageSound(Replied(d, Token(d, expires), ttl))
  BY <1>1 DEF StageSound, Replied, Token
<1> QED
  BY <1>2, InvOneCall DEF Issue

LEMMA InvReceive ==
  ASSUME IInv, TypeOK', NEW c \in Calls, Receive(c) PROVE IInv'
<1> DEFINE d == call[c].caller
           t == call[c].token
           ttl == call[c].ttl
           until == now + trust_window(ttl)
           capped == IF d = Nobody THEN until ELSE Earlier(until, d.expiry)
           prompt == ttl # NoTtl /\ ttl > Margin /\ now + ttl <= t.expires + Margin
           e == [token |-> t, refresh_at |-> capped, prompt |-> prompt]
<1>1. d \in Capable /\ t \in Tokens /\ ttl \in Ttls /\ until \in Nat /\ now \in Nat
  BY StageCarries, TrustWindowType DEF IInv, TypeOK, Receive
<1>2. /\ t.caller = d /\ t.for = grant_assertion(d)
      /\ ttl # NoTtl => t.expires \in Nat
  BY DEF IInv, CallsSound, StageSound, Receive
<1>3. d # Nobody /\ d.expiry # NoExpiry => d.expiry \in Nat
  BY <1>1, DelegationShape, CapableAreDelegations
<1>4. capped \in Nat /\ capped <= until
  BY <1>1, <1>3 DEF Earlier
<1>5. d # Nobody /\ d.expiry # NoExpiry => capped <= d.expiry
  BY <1>1, <1>3 DEF Earlier
<1>6. ASSUME prompt PROVE t.expires \in Nat /\ capped <= t.expires
  <2>1. ttl \in Nat /\ Margin \in Nat /\ ttl > Margin /\ t.expires \in Nat
        /\ now + ttl <= t.expires + Margin
    BY <1>1, <1>2, <1>6, TimeAssumption
  <2>2. until = now + (ttl - Margin)
    BY <1>6, <2>1 DEF trust_window
  <2> QED
    BY <1>1, <1>4, <2>1, <2>2
<1>7. EntrySound(e)
  BY <1>2, <1>5, <1>6 DEF EntrySound
<1>8. StageSound(Fresh(d, e))
  BY <1>2, <1>7 DEF StageSound, Fresh
<1> QED
  BY <1>8, InvOneCall DEF Receive

LEMMA InvStore ==
  ASSUME IInv, TypeOK', NEW c \in Calls, Store(c) PROVE IInv'
<1> DEFINE d == call[c].caller
           e == call[c].entry
           key == cache_key(d)
<1>1. d \in Capable /\ e \in CachedTokens
  BY StageCarries DEF IInv, TypeOK, Store
<1>2. e.token.caller = d /\ EntrySound(e)
  BY DEF IInv, CallsSound, StageSound, Store
<1>3. \A k \in Keys : (cache'[k] = e /\ k = key) \/ cache'[k] = cache[k] \/ cache'[k] = NoEntry
  BY DEF Store
<1>4. \A k \in Keys : cache'[k] # NoEntry =>
        cache_key(cache'[k].token.caller) = k /\ EntrySound(cache'[k])
  <2> TAKE k \in Keys
  <2> HAVE cache'[k] # NoEntry
  <2>1. CASE cache'[k] = e /\ k = key
    BY <1>2, <2>1
  <2>2. CASE cache'[k] = cache[k]
    <3>1. k \in CachedKeys
      BY <2>2 DEF CachedKeys
    <3> QED
      BY <2>2, <3>1 DEF IInv, SlotsSound
  <2> QED
    BY <1>3, <2>1, <2>2
<1>5. SlotsSound'
  BY <1>4 DEF SlotsSound, CachedKeys, EntrySound
<1>6. StageSound(Answered(d, e.token))
  BY <1>1, <1>2 DEF StageSound, Answered, EntrySound
<1>7. \A o \in Calls : StageSound(call'[o])
  BY <1>6 DEF IInv, TypeOK, CallsSound, Store
<1>8. CallsSound'
  BY <1>7 DEF CallsSound
<1> QED
  BY <1>5, <1>8 DEF IInv

LEMMA InvStep == IInv /\ [Next]_vars => IInv'
<1> SUFFICES ASSUME IInv, [Next]_vars PROVE IInv'
  OBVIOUS
<1>0. TypeOK'
  BY TypeStep DEF IInv
<1>1. CASE UNCHANGED vars
  BY <1>0, <1>1 DEF IInv, SlotsSound, CallsSound, CachedKeys, vars
<1>2. CASE Tick
  BY <1>0, <1>2 DEF IInv, SlotsSound, CallsSound, CachedKeys, Tick
<1>3. ASSUME NEW c \in Calls, NEW s \in Sessions, Delegate(c, s) PROVE IInv'
  BY <1>0, <1>3, InvOneCall DEF Delegate, StageSound, Asked
<1>4. ASSUME NEW c \in Calls, AskForNobody(c) PROVE IInv'
  BY <1>0, <1>4, InvOneCall DEF AskForNobody, StageSound, Asked
<1>5. ASSUME NEW c \in Calls, Miss(c) PROVE IInv'
  BY <1>0, <1>5, InvOneCall DEF Miss, StageSound, Requesting
<1>6. ASSUME NEW c \in Calls, RefuseNobody(c) PROVE IInv'
  BY <1>0, <1>6, InvOneCall DEF RefuseNobody, StageSound, Refused
<1>7. ASSUME NEW c \in Calls, Fail(c) PROVE IInv'
  BY <1>0, <1>7, InvOneCall DEF Fail, StageSound, Refused
<1>8. ASSUME NEW c \in Calls, Overflow(c) PROVE IInv'
  BY <1>0, <1>8, InvOneCall DEF Overflow, StageSound, Panicked
<1>9. ASSUME NEW c \in Calls, Cancel(c) \/ Finish(c) PROVE IInv'
  BY <1>0, <1>9, InvOneCall DEF Cancel, Finish, StageSound, Idle
<1> QED
  BY <1>0, <1>1, <1>2, <1>3, <1>4, <1>5, <1>6, <1>7, <1>8, <1>9,
     InvHit, InvIssue, InvReceive, InvStore DEF Next

LEMMA Invariant == Spec => []IInv
BY InvInit, InvStep, PTL DEF Spec

(* No call ever ends with a token issued for anybody else.                 *)
THEOREM TokenIsolation == Spec => []OwnIdentityOnly
<1>1. IInv => OwnIdentityOnly
  BY DEF IInv, CallsSound, StageSound, OwnIdentityOnly
<1> QED
  BY <1>1, Invariant, PTL

(* A delegating grant never gives a call without a caller a token.         *)
THEOREM NoCallerNoToken == Spec => []NobodyIsRefused
<1>1. IInv => NobodyIsRefused
  <2> SUFFICES ASSUME IInv, Delegating
               PROVE  /\ \A k \in CachedKeys : k # AnonymousKey
                      /\ \A c \in Calls : call[c].phase = "answered" => call[c].caller # Nobody
    BY DEF NobodyIsRefused
  <2>1. ASSUME NEW k \in CachedKeys PROVE k # AnonymousKey
    <3> DEFINE d == cache[k].token.caller
    <3>1. d \in Capable /\ cache_key(d) = k
      BY DEF IInv, TypeOK, SlotsSound, CachedKeys, CachedTokens, Tokens
    <3>2. d # Nobody /\ d \in Delegations
      BY <3>1 DEF Capable, CanAssert
    <3>3. d.session \in Sessions /\ d.session.subject # NoSubject
      BY <3>2, DelegationShape, SessionsAssumption
    <3> QED
      BY <3>1, <3>2, <3>3 DEF cache_key, AnonymousKey, DelegatedKey
  <2>2. ASSUME NEW c \in Calls, call[c].phase = "answered" PROVE call[c].caller # Nobody
    BY <2>2 DEF IInv, CallsSound, StageSound, Capable, CanAssert
  <2> QED
    BY <2>1, <2>2
<1> QED
  BY <1>1, Invariant, PTL

-----------------------------------------------------------------------------------
(* The bound on the cache.                                                 *)

BoundedInv == IsFiniteSet(CachedKeys) /\ CacheBounded

(* The keys held after a store are those that survive, and the stored one. *)
LEMMA KeysAfterStore ==
  ASSUME TypeOK, NEW c \in Calls, Store(c)
  PROVE  \E kept \in Survivors(cache_key(call[c].caller)) :
           CachedKeys' \subseteq kept \cup {cache_key(call[c].caller)}
BY DEF Store, CachedKeys

LEMMA AddOneKey ==
  ASSUME NEW S, IsFiniteSet(S), Cardinality(S) < MaxCached,
         NEW k, NEW T, T \subseteq S \cup {k}
  PROVE  IsFiniteSet(T) /\ Cardinality(T) <= MaxCached
<1>1. IsFiniteSet(S \cup {k}) /\ Cardinality(S \cup {k}) \in Nat
      /\ Cardinality(S \cup {k}) <= Cardinality(S) + 1
  BY FS_AddElement, FS_CardinalityType
<1>2. IsFiniteSet(T) /\ Cardinality(T) \in Nat /\ Cardinality(T) <= Cardinality(S \cup {k})
  BY <1>1, FS_Subset, FS_CardinalityType
<1> QED
  BY <1>1, <1>2, FS_CardinalityType, CacheAssumption

LEMMA BoundedStore ==
  ASSUME TypeOK, BoundedInv, NEW c \in Calls, Store(c)
  PROVE  BoundedInv'
<1> DEFINE key == cache_key(call[c].caller)
<1>1. IsFiniteSet(CachedKeys) /\ Cardinality(CachedKeys) \in Nat
      /\ Cardinality(CachedKeys) <= MaxCached /\ LiveKeys \subseteq CachedKeys
  BY FS_CardinalityType DEF BoundedInv, CacheBounded, LiveKeys
<1>2. IsFiniteSet(LiveKeys) /\ Cardinality(LiveKeys) \in Nat
      /\ Cardinality(LiveKeys) <= MaxCached
  BY <1>1, FS_Subset, FS_CardinalityType, CacheAssumption
<1>3. PICK kept \in Survivors(key) : CachedKeys' \subseteq kept \cup {key}
  BY KeysAfterStore
<1>4. IsFiniteSet(CachedKeys') /\ Cardinality(CachedKeys') <= MaxCached
  <2>1. CASE Cardinality(CachedKeys) < MaxCached
    <3>1. kept = CachedKeys
      BY <2>1 DEF Survivors
    <3> QED
      BY <1>1, <1>3, <2>1, <3>1, AddOneKey
  <2>2. CASE key \in CachedKeys
    <3>1. CachedKeys' \subseteq CachedKeys
      BY <1>3, <2>2 DEF Survivors
    <3> QED
      BY <1>1, <3>1, FS_Subset, FS_CardinalityType, CacheAssumption
  <2>3. CASE ~(Cardinality(CachedKeys) < MaxCached \/ key \in CachedKeys)
             /\ Cardinality(LiveKeys) < MaxCached
    <3>1. kept = LiveKeys
      BY <2>3 DEF Survivors
    <3> QED
      BY <1>2, <1>3, <2>3, <3>1, AddOneKey
  <2>4. CASE ~(Cardinality(CachedKeys) < MaxCached \/ key \in CachedKeys)
             /\ ~(Cardinality(LiveKeys) < MaxCached)
    <3>1. PICK k \in LiveKeys : kept = LiveKeys \ {k}
      BY <2>4 DEF Survivors, Soonest
    <3>2. IsFiniteSet(kept) /\ Cardinality(kept) = Cardinality(LiveKeys) - 1
      BY <1>2, <3>1, FS_RemoveElement
    <3> QED
      <4>1. Cardinality(kept) < MaxCached
        BY <1>2, <3>2, CacheAssumption
      <4> QED
        BY <1>3, <3>2, <4>1, AddOneKey
  <2> QED
    BY <2>1, <2>2, <2>3, <2>4
<1> QED
  BY <1>4 DEF BoundedInv, CacheBounded

LEMMA Bounded == Spec => []BoundedInv
<1>1. Init => BoundedInv
  <2> SUFFICES ASSUME Init PROVE BoundedInv
    OBVIOUS
  <2>1. CachedKeys = {}
    BY DEF Init, CachedKeys
  <2> QED
    BY <2>1, FS_EmptySet, CacheAssumption DEF BoundedInv, CacheBounded
<1>2. TypeOK /\ BoundedInv /\ [Next]_vars => BoundedInv'
  <2> SUFFICES ASSUME TypeOK, BoundedInv, [Next]_vars PROVE BoundedInv'
    OBVIOUS
  <2>1. ASSUME NEW c \in Calls, Store(c) PROVE BoundedInv'
    BY <2>1, BoundedStore
  <2>2. CASE UNCHANGED cache
    BY <2>2 DEF BoundedInv, CacheBounded, CachedKeys
  <2>3. UNCHANGED cache \/ \E c \in Calls : Store(c)
    BY DEF Next, vars, Tick, Delegate, AskForNobody, Hit, Miss, RefuseNobody, Issue,
           Fail, Receive, Overflow, Cancel, Finish
  <2> QED
    BY <2>1, <2>2, <2>3
<1> QED
  BY <1>1, <1>2, TypeCorrect, PTL DEF Spec

(* However calls interleave, at most MaxCached tokens are held.            *)
THEOREM CacheIsBounded == Spec => []CacheBounded
<1>1. BoundedInv => CacheBounded
  BY DEF BoundedInv
<1> QED
  BY <1>1, Bounded, PTL

(* One step's eviction: the body of EvictsOnlyTheSoonest. *)
EvictionIsFair ==
  \A k \in LiveKeys : cache'[k] = NoEntry =>
    /\ LiveKeys = CachedKeys
    /\ Cardinality(CachedKeys) = MaxCached
    /\ \A other \in CachedKeys \ {k} :
         cache'[other] # NoEntry /\ cache[k].refresh_at <= cache[other].refresh_at

LEMMA FairStore ==
  ASSUME TypeOK, BoundedInv, NEW c \in Calls, Store(c)
  PROVE  EvictionIsFair
<1> DEFINE key == cache_key(call[c].caller)
<1> SUFFICES ASSUME NEW k \in LiveKeys, cache'[k] = NoEntry
             PROVE  /\ LiveKeys = CachedKeys
                    /\ Cardinality(CachedKeys) = MaxCached
                    /\ \A other \in CachedKeys \ {k} :
                         /\ cache'[other] # NoEntry
                         /\ cache[k].refresh_at <= cache[other].refresh_at
  BY DEF EvictionIsFair
<1>1. k \in CachedKeys /\ LiveKeys \subseteq CachedKeys /\ CachedKeys \subseteq Keys
  BY DEF LiveKeys, CachedKeys
<1>2. call[c].phase = "fresh" /\ call[c] \in Stages
  BY DEF TypeOK, Store
<1>3. call[c].entry # NoEntry
  BY <1>2, StageCarries, NobodyAssumption
<1>4. PICK kept \in Survivors(key) :
        \A other \in Keys : cache'[other] = IF other = key THEN call[c].entry
                            ELSE IF other \in kept THEN cache[other] ELSE NoEntry
  BY DEF Store
<1>5. k \notin kept
  BY <1>1, <1>3, <1>4 DEF CachedKeys
<1>6. PICK j \in Soonest(LiveKeys) :
        /\ kept = LiveKeys \ {j}
        /\ ~(Cardinality(CachedKeys) < MaxCached) /\ key \notin CachedKeys
        /\ ~(Cardinality(LiveKeys) < MaxCached)
  BY <1>1, <1>5 DEF Survivors
<1>7. j = k /\ \A other \in LiveKeys : cache[k].refresh_at <= cache[other].refresh_at
  BY <1>5, <1>6 DEF Soonest
<1>8. LiveKeys = CachedKeys /\ Cardinality(CachedKeys) = MaxCached
  <2>1. IsFiniteSet(CachedKeys) /\ Cardinality(CachedKeys) \in Nat
        /\ Cardinality(CachedKeys) <= MaxCached
    BY FS_CardinalityType DEF BoundedInv, CacheBounded
  <2>2. IsFiniteSet(LiveKeys) /\ Cardinality(LiveKeys) <= Cardinality(CachedKeys)
        /\ (Cardinality(CachedKeys) = Cardinality(LiveKeys) => LiveKeys = CachedKeys)
    BY <1>1, <2>1, FS_Subset
  <2>3. Cardinality(LiveKeys) \in Nat
    BY <2>2, FS_CardinalityType
  <2> QED
    BY <1>6, <2>1, <2>2, <2>3, CacheAssumption
<1>9. \A other \in CachedKeys \ {k} : cache'[other] # NoEntry
  BY <1>1, <1>4, <1>6, <1>7, <1>8 DEF CachedKeys
<1> QED
  BY <1>7, <1>8, <1>9

(* A call that makes room takes a token still in use from another only when*)
(* every slot holds one, and then the one that expires first (provider.rs: *)
(* store).                                                                 *)
THEOREM EvictsTheSoonest == Spec => EvictsOnlyTheSoonest
<1>1. TypeOK /\ BoundedInv /\ [Next]_vars => [EvictionIsFair]_vars
  <2> SUFFICES ASSUME TypeOK, BoundedInv, [Next]_vars PROVE [EvictionIsFair]_vars
    OBVIOUS
  <2>1. ASSUME NEW c \in Calls, Store(c) PROVE EvictionIsFair
    BY <2>1, FairStore
  <2>2. CASE UNCHANGED cache
    BY <2>2 DEF EvictionIsFair, LiveKeys, CachedKeys
  <2>3. UNCHANGED cache \/ \E c \in Calls : Store(c)
    BY DEF Next, vars, Tick, Delegate, AskForNobody, Hit, Miss, RefuseNobody, Issue,
           Fail, Receive, Overflow, Cancel, Finish
  <2> QED
    BY <2>1, <2>2, <2>3
<1>2. EvictsOnlyTheSoonest <=> [][EvictionIsFair]_vars
  BY DEF EvictsOnlyTheSoonest, EvictionIsFair
<1> QED
  BY <1>1, <1>2, TypeCorrect, Bounded, PTL DEF Spec

-----------------------------------------------------------------------------------
(* What a cache hit may hand out.                                          *)

(* Only Hit answers a call that asks. *)
LEMMA HitStepIsHit ==
  ASSUME TypeOK, [Next]_vars, NEW c \in Calls, HitStep(c)
  PROVE  Hit(c)
<1> USE DEF TypeOK, HitStep
<1>1. ~UNCHANGED vars /\ ~Tick
  BY DEF vars, Tick
<1>2. ASSUME NEW o \in Calls, NEW s \in Sessions, Delegate(o, s) PROVE FALSE
  BY <1>2 DEF Delegate, Asked
<1>3. ASSUME NEW o \in Calls, AskForNobody(o) PROVE FALSE
  BY <1>3 DEF AskForNobody, Asked
<1>4. ASSUME NEW o \in Calls, Hit(o) PROVE o = c
  BY <1>4 DEF Hit
<1>5. ASSUME NEW o \in Calls, Miss(o) \/ RefuseNobody(o) PROVE FALSE
  BY <1>5 DEF Miss, RefuseNobody, Requesting, Refused
<1>6. ASSUME NEW o \in Calls, NEW ttl \in Ttls, Issue(o, ttl) PROVE FALSE
  BY <1>6 DEF Issue
<1>7. ASSUME NEW o \in Calls, Fail(o) \/ Receive(o) \/ Overflow(o) \/ Store(o) PROVE FALSE
  BY <1>7 DEF Fail, Receive, Overflow, Store
<1>8. ASSUME NEW o \in Calls, Cancel(o) \/ Finish(o) PROVE FALSE
  BY <1>8 DEF Cancel, Finish, Idle
<1> QED
  BY <1>1, <1>2, <1>3, <1>4, <1>5, <1>6, <1>7, <1>8 DEF Next

(* What a hit finds in its slot. *)
LEMMA HitFinds ==
  ASSUME IInv, NEW c \in Calls, Hit(c)
  PROVE  LET e == cache[cache_key(call[c].caller)]
         IN  /\ e \in CachedTokens /\ now < e.refresh_at /\ EntrySound(e)
             /\ call'[c].token = e.token
<1> DEFINE k == cache_key(call[c].caller)
<1>1. call[c].caller \in Delegations
  BY StageCarries DEF IInv, TypeOK, Hit
<1>2. k \in CachedKeys /\ now < cache[k].refresh_at /\ cache[k] \in CachedTokens
  BY <1>1, KeysMade DEF IInv, TypeOK, Hit, Cached, CachedKeys
<1>3. call'[c].token = cache[k].token
  BY DEF IInv, TypeOK, Hit, Answered
<1> QED
  BY <1>2, <1>3 DEF IInv, SlotsSound

(* No hit hands out a token that has run out, unless its response was late *)
(* by more than the margin.                                                *)
THEOREM ValidHits == Spec => HitsAreValid
<1>1. IInv /\ [Next]_vars => [\A c \in Calls : HitStep(c) => ValidHit(c)]_vars
  <2> SUFFICES ASSUME IInv, [Next]_vars, NEW c \in Calls, HitStep(c) PROVE ValidHit(c)
    OBVIOUS
  <2> DEFINE e == cache[cache_key(call[c].caller)]
  <2>1. Hit(c)
    BY HitStepIsHit DEF IInv
  <2>2. e \in CachedTokens /\ now < e.refresh_at /\ EntrySound(e)
    BY <2>1, HitFinds
  <2>3. e.refresh_at \in Nat /\ now \in Nat
    BY <2>2 DEF CachedTokens, IInv, TypeOK
  <2>4. ASSUME e.prompt PROVE now < e.token.expires
    <3>1. e.token.expires \in Nat /\ e.refresh_at <= e.token.expires
      BY <2>2, <2>4 DEF EntrySound
    <3> QED
      BY <2>2, <2>3, <3>1
  <2> QED
    BY <2>4 DEF ValidHit
<1> QED
  BY <1>1, Invariant, PTL DEF Spec, HitsAreValid

(* No hit hands out a token past the known end of the session it was minted*)
(* for.                                                                    *)
THEOREM HitsEndWithSession == Spec => HitsWithinSession
<1>1. IInv /\ [Next]_vars => [\A c \in Calls : HitStep(c) => HitInSession(c)]_vars
  <2> SUFFICES ASSUME IInv, [Next]_vars, NEW c \in Calls, HitStep(c) PROVE HitInSession(c)
    OBVIOUS
  <2> DEFINE e == cache[cache_key(call[c].caller)]
             minter == e.token.caller
  <2>1. Hit(c)
    BY HitStepIsHit DEF IInv
  <2>2. e \in CachedTokens /\ now < e.refresh_at /\ EntrySound(e) /\ call'[c].token = e.token
    BY <2>1, HitFinds
  <2>3. e.refresh_at \in Nat /\ now \in Nat /\ minter \in Capable
    BY <2>2 DEF CachedTokens, Tokens, IInv, TypeOK
  <2>4. ASSUME minter # Nobody, minter.expiry # NoExpiry PROVE now < minter.expiry
    <3>1. minter.expiry \in Nat /\ e.refresh_at <= minter.expiry
      BY <2>2, <2>3, <2>4, DelegationShape, CapableAreDelegations DEF EntrySound
    <3> QED
      BY <2>2, <2>3, <3>1
  <2> QED
    BY <2>2, <2>4 DEF HitInSession
<1> QED
  BY <1>1, Invariant, PTL DEF Spec, HitsWithinSession

-----------------------------------------------------------------------------------
(* Without tolerance for clock skew every accepted JWT has a known expiry, *)
(* and then a usable token always belongs to a session that still runs.    *)

KnownExpiry(d) == d # Nobody => d.expiry = d.session.exp

StrictInv ==
  /\ \A c \in Calls :
       call[c].phase \in {"asked", "requesting", "replied", "fresh"} => KnownExpiry(call[c].caller)
  /\ \A k \in CachedKeys : KnownExpiry(cache[k].token.caller)

LEMMA StrictOneCall ==
  ASSUME TypeOK, StrictInv, UNCHANGED cache, NEW c \in Calls, NEW x,
         call' = [call EXCEPT ![c] = x],
         x.phase \in {"asked", "requesting", "replied", "fresh"} => KnownExpiry(x.caller)
  PROVE  StrictInv'
<1>1. \A k \in CachedKeys' : KnownExpiry(cache'[k].token.caller)
  BY DEF StrictInv, CachedKeys
<1>2. \A o \in Calls :
        call'[o].phase \in {"asked", "requesting", "replied", "fresh"}
          => KnownExpiry(call'[o].caller)
  BY DEF TypeOK, StrictInv
<1> QED
  BY <1>1, <1>2 DEF StrictInv, KnownExpiry

LEMMA StrictStep ==
  (Leeway = 0 /\ \A s \in Sessions : s.whole) /\ IInv /\ StrictInv /\ [Next]_vars => StrictInv'
<1> SUFFICES ASSUME Leeway = 0, \A s \in Sessions : s.whole, IInv, StrictInv, [Next]_vars
             PROVE  StrictInv'
  OBVIOUS
<1>0. TypeOK
  BY DEF IInv
<1>1. CASE UNCHANGED vars \/ Tick
  BY <1>1 DEF StrictInv, KnownExpiry, CachedKeys, vars, Tick
<1>2. ASSUME NEW c \in Calls, NEW s \in Sessions, Delegate(c, s) PROVE StrictInv'
  <2> DEFINE d == Delegation(s, session_end(s))
  <2>1. now <= s.exp + Leeway
    BY <1>2 DEF Delegate, Accepted
  <2>2. session_end(s) = s.exp
    BY <2>1, SessionsAssumption, <1>0 DEF TypeOK, session_end, unix_to_instant
  <2>3. KnownExpiry(d)
    BY <2>2 DEF KnownExpiry, Delegation
  <2>4. KnownExpiry(Asked(d).caller)
    BY <2>3 DEF Asked
  <2> QED
    BY <1>0, <1>2, <2>4, StrictOneCall DEF Delegate
<1>3. ASSUME NEW c \in Calls, AskForNobody(c) PROVE StrictInv'
  BY <1>0, <1>3, StrictOneCall DEF AskForNobody, Asked, KnownExpiry
<1>4. ASSUME NEW c \in Calls, Miss(c) PROVE StrictInv'
  <2>1. KnownExpiry(Requesting(call[c].caller).caller)
    BY <1>4 DEF StrictInv, Miss, Requesting
  <2> QED
    BY <1>0, <1>4, <2>1, StrictOneCall DEF Miss
<1>5. ASSUME NEW c \in Calls, NEW ttl \in Ttls, Issue(c, ttl) PROVE StrictInv'
  <2>1. KnownExpiry(call[c].caller)
    BY <1>5 DEF StrictInv, Issue
  <2>2. \A t : KnownExpiry(Replied(call[c].caller, t, ttl).caller)
    BY <2>1 DEF Replied
  <2> QED
    BY <1>0, <1>5, <2>2, StrictOneCall DEF Issue
<1>6. ASSUME NEW c \in Calls, Receive(c) PROVE StrictInv'
  <2>1. KnownExpiry(call[c].caller)
    BY <1>6 DEF StrictInv, Receive
  <2>2. \A e : KnownExpiry(Fresh(call[c].caller, e).caller)
    BY <2>1 DEF Fresh
  <2> QED
    BY <1>0, <1>6, <2>2, StrictOneCall DEF Receive
<1>7. ASSUME NEW c \in Calls, Store(c) PROVE StrictInv'
  <2>1. KnownExpiry(call[c].caller) /\ call[c].entry.token.caller = call[c].caller
    BY <1>7 DEF StrictInv, IInv, CallsSound, StageSound, Store
  <2>2. \A k \in Keys :
          cache'[k] = call[c].entry \/ cache'[k] = cache[k] \/ cache'[k] = NoEntry
    BY <1>7 DEF Store
  <2>3. \A k \in CachedKeys' : KnownExpiry(cache'[k].token.caller)
    BY <2>1, <2>2 DEF StrictInv, CachedKeys
  <2>4. \A o \in Calls :
          call'[o].phase \in {"asked", "requesting", "replied", "fresh"}
            => KnownExpiry(call'[o].caller)
    BY <1>0, <1>7 DEF TypeOK, StrictInv, Store, Answered
  <2> QED
    BY <2>3, <2>4 DEF StrictInv, KnownExpiry
<1>8. ASSUME NEW c \in Calls, Hit(c) \/ RefuseNobody(c) \/ Fail(c) PROVE StrictInv'
  BY <1>0, <1>8, StrictOneCall DEF Hit, RefuseNobody, Fail, Answered, Refused
<1>9. ASSUME NEW c \in Calls, Overflow(c) \/ Cancel(c) \/ Finish(c) PROVE StrictInv'
  BY <1>0, <1>9, StrictOneCall DEF Overflow, Cancel, Finish, Panicked, Idle
<1> QED
  BY <1>1, <1>2, <1>3, <1>4, <1>5, <1>6, <1>7, <1>8, <1>9 DEF Next

(* What the comments say of a delegated token holds when --inbound-clock-  *)
(* skew is zero, the clock is read but once, and every exp is whole.       *)
THEOREM UsableOnlyWithinSession ==
  ASSUME Leeway = 0, \A s \in Sessions : s.whole
  PROVE  Spec => []UsableWithinSession
<1>1. Init => StrictInv
  BY DEF Init, StrictInv, CachedKeys, Idle
<1>2. IInv /\ StrictInv /\ [Next]_vars => StrictInv'
  BY StrictStep
<1>3. IInv /\ StrictInv => UsableWithinSession
  <2> SUFFICES ASSUME IInv, StrictInv, Delegating, NEW k \in LiveKeys
               PROVE  now < cache[k].token.caller.session.exp
    BY DEF UsableWithinSession
  <2> DEFINE e == cache[k]
             d == e.token.caller
  <2>1. k \in CachedKeys /\ now < e.refresh_at /\ e \in CachedTokens
    BY DEF LiveKeys, CachedKeys, IInv, TypeOK
  <2>2. d \in Capable /\ d # Nobody /\ e.refresh_at \in Nat /\ now \in Nat
    BY <2>1 DEF CachedTokens, Tokens, Capable, CanAssert, IInv, TypeOK
  <2>3. d.expiry = d.session.exp /\ d.session.exp \in Nat
    BY <2>1, <2>2, DelegationShape, SessionsAssumption, CapableAreDelegations
       DEF StrictInv, KnownExpiry
  <2>4. e.refresh_at <= d.expiry
    BY <2>1, <2>2, <2>3, TimeAssumption DEF IInv, SlotsSound, EntrySound
  <2> QED
    BY <2>1, <2>2, <2>3, <2>4
<1> QED
  BY <1>1, <1>2, <1>3, Invariant, PTL DEF Spec

-----------------------------------------------------------------------------------
(* Refinement of the plain token service.                                  *)

(* Every token in flight or in a slot was issued. *)
IssuedInv ==
  /\ \A k \in CachedKeys : cache[k].token.for \in issued
  /\ \A c \in Calls : /\ call[c].phase = "replied" => call[c].token.for \in issued
                      /\ call[c].phase = "fresh" => call[c].entry.token.for \in issued

LEMMA IssuedStep == TypeOK /\ IssuedInv /\ [Next]_vars => IssuedInv'
<1> SUFFICES ASSUME TypeOK, IssuedInv, [Next]_vars PROVE IssuedInv'
  OBVIOUS
<1> USE DEF TypeOK, IssuedInv, CachedKeys
<1>1. CASE UNCHANGED vars \/ Tick
  BY <1>1 DEF vars, Tick
<1>2. ASSUME NEW c \in Calls, NEW s \in Sessions, Delegate(c, s) PROVE IssuedInv'
  BY <1>2 DEF Delegate, Asked
<1>3. ASSUME NEW c \in Calls, AskForNobody(c) \/ Miss(c) PROVE IssuedInv'
  BY <1>3 DEF AskForNobody, Miss, Asked, Requesting
<1>4. ASSUME NEW c \in Calls, Hit(c) \/ RefuseNobody(c) \/ Fail(c) PROVE IssuedInv'
  BY <1>4 DEF Hit, RefuseNobody, Fail, Answered, Refused
<1>5. ASSUME NEW c \in Calls, NEW ttl \in Ttls, Issue(c, ttl) PROVE IssuedInv'
  BY <1>5 DEF Issue, Replied, Token
<1>6. ASSUME NEW c \in Calls, Receive(c) PROVE IssuedInv'
  BY <1>6 DEF Receive, Fresh
<1>7. ASSUME NEW c \in Calls, Overflow(c) \/ Cancel(c) \/ Finish(c) PROVE IssuedInv'
  BY <1>7 DEF Overflow, Cancel, Finish, Panicked, Idle
<1>8. ASSUME NEW c \in Calls, Store(c) PROVE IssuedInv'
  <2>1. call[c].entry.token.for \in issued /\ UNCHANGED issued
    BY <1>8 DEF Store
  <2>2. \A k \in Keys :
          cache'[k] = call[c].entry \/ cache'[k] = cache[k] \/ cache'[k] = NoEntry
    BY <1>8 DEF Store
  <2>3. \A o \in Calls : o # c => call'[o] = call[o]
    BY <1>8 DEF Store
  <2>4. call'[c].phase = "answered"
    BY <1>8 DEF Store, Answered
  <2> QED
    BY <2>1, <2>2, <2>3, <2>4
<1> QED
  BY <1>1, <1>2, <1>3, <1>4, <1>5, <1>6, <1>7, <1>8 DEF Next

LEMMA StatusAt == ASSUME NEW c \in Calls PROVE Status[c] = StatusOf(call[c])
BY DEF Status

LEMMA StatusUpdate ==
  ASSUME TypeOK, NEW c \in Calls, NEW x, call' = [call EXCEPT ![c] = x]
  PROVE  Status' = [Status EXCEPT ![c] = StatusOf(x)]
BY DEF Status, TypeOK

LEMMA PendingStatus ==
  ASSUME NEW x, x.phase \in {"asked", "requesting", "replied", "fresh"}
  PROVE  StatusOf(x) = [state |-> "pending", asker |-> x.caller]
BY DEF StatusOf

LEMMA IdleStatus == StatusOf(Idle) = Service!Idle /\ Service!Idle.state = "idle"
<1>1. Idle.phase = "idle"
  BY DEF Idle
<1> QED
  BY <1>1 DEF StatusOf, Service!Idle

LEMMA ServiceGrant ==
  ASSUME IInv, IssuedInv, NEW c \in Calls, Hit(c) \/ Store(c)
  PROVE  Service!Next
<1> DEFINE d == call[c].caller
           t == IF call[c].phase = "asked" THEN cache[cache_key(d)].token
                ELSE call[c].entry.token
<1>1. d \in Delegations /\ call[c].phase \in {"asked", "fresh"}
  BY StageCarries, CapableAreDelegations DEF IInv, TypeOK, Hit, Store
<1>2. call' = [call EXCEPT ![c] = Answered(d, t)] /\ UNCHANGED issued
  BY DEF Hit, Store
<1>3. d \in Capable /\ t.for = grant_assertion(d) /\ t.for \in issued
  <2>1. CASE Hit(c)
    <3>1. cache_key(d) \in CachedKeys /\ t = cache[cache_key(d)].token
      BY <1>1, <2>1, KeysMade DEF Hit, Cached, CachedKeys, IInv, TypeOK
    <3>2. /\ t.for = grant_assertion(t.caller) /\ cache_key(t.caller) = cache_key(d)
          /\ t.caller \in Capable
      BY <3>1 DEF IInv, TypeOK, SlotsSound, EntrySound, CachedKeys, CachedTokens, Tokens
    <3> QED
      BY <1>1, <3>1, <3>2, KeyDeterminesIdentity DEF IssuedInv
  <2>2. CASE Store(c)
    <3>1. t = call[c].entry.token /\ d \in Capable
      BY <2>2, StageCarries DEF Store, IInv, TypeOK
    <3> QED
      BY <2>2, <3>1 DEF Store, IInv, CallsSound, StageSound, EntrySound, IssuedInv
  <2> QED
    BY <2>1, <2>2
<1>4. Status[c] = Service!Pending(d)
  BY <1>1, StatusAt, PendingStatus DEF Service!Pending
<1>5. StatusOf(Answered(d, t)) = Service!Granted(d, grant_assertion(d))
  BY <1>3 DEF StatusOf, Answered, Service!Granted
<1>6. Status' = [Status EXCEPT ![c] = Service!Granted(d, grant_assertion(d))]
  <2>1. Status' = [Status EXCEPT ![c] = StatusOf(Answered(d, t))]
    BY <1>2, StatusUpdate DEF IInv
  <2> QED
    BY <2>1, <1>5
<1>7. Service!HandOut(c, d)
  BY <1>2, <1>3, <1>4, <1>6 DEF Service!HandOut
<1> QED
  BY <1>1, <1>7 DEF Service!Next

LEMMA ServiceStep ==
  IInv /\ IssuedInv /\ [Next]_vars => [Service!Next]_(Service!vars)
<1> SUFFICES ASSUME IInv, IssuedInv, [Next]_vars
             PROVE  Service!Next \/ UNCHANGED Service!vars
  BY DEF Service!vars
<1>0. TypeOK
  BY DEF IInv
<1>1. CASE UNCHANGED vars \/ Tick
  BY <1>1 DEF vars, Tick, Status, Service!vars
<1>2. ASSUME NEW c \in Calls, NEW d \in Delegations, call[c] = Idle,
             call' = [call EXCEPT ![c] = Asked(d)], UNCHANGED issued
      PROVE  Service!Next
  <2>1. Status[c] = Service!Idle /\ StatusOf(Asked(d)) = Service!Pending(d)
    <3>1. Asked(d).phase = "asked" /\ Asked(d).caller = d
      BY DEF Asked
    <3> QED
      BY <1>2, <3>1, StatusAt, IdleStatus, PendingStatus DEF Service!Pending
  <2>2. Service!Ask(c, d)
    BY <1>0, <1>2, <2>1, StatusUpdate DEF Service!Ask
  <2> QED
    BY <2>2 DEF Service!Next
<1>3. ASSUME NEW c \in Calls, NEW s \in Sessions, Delegate(c, s) PROVE Service!Next
  BY <1>2, <1>3, DelegationsMade DEF Delegate
<1>4. ASSUME NEW c \in Calls, AskForNobody(c) PROVE Service!Next
  BY <1>2, <1>4 DEF AskForNobody, Delegations
<1>5. ASSUME NEW c \in Calls, Hit(c) \/ Store(c) PROVE Service!Next
  BY <1>5, ServiceGrant
<1>6. ASSUME NEW c \in Calls, Miss(c) \/ Receive(c) PROVE UNCHANGED Service!vars
  <2> DEFINE d == call[c].caller
  <2>1. PICK x : /\ call' = [call EXCEPT ![c] = x] /\ UNCHANGED issued
                 /\ x.phase \in {"requesting", "fresh"} /\ x.caller = d
    BY <1>6 DEF Miss, Receive, Requesting, Fresh
  <2>2. StatusOf(x) = StatusOf(call[c])
    BY <1>6, <2>1, PendingStatus DEF Miss, Receive
  <2>3. Status' = Status
    BY <1>0, <2>1, <2>2, StatusUpdate DEF Status
  <2> QED
    BY <2>1, <2>3 DEF Service!vars
<1>7. ASSUME NEW c \in Calls, NEW ttl \in Ttls, Issue(c, ttl) PROVE Service!Next
  <2> DEFINE d == call[c].caller
  <2>1. d \in Capable /\ d \in Delegations
    BY <1>0, <1>7, StageCarries, CapableAreDelegations DEF Issue, TypeOK
  <2> DEFINE x == Replied(d, Token(d, IF ttl = NoTtl THEN NoExpiry ELSE now + ttl), ttl)
  <2>2. call' = [call EXCEPT ![c] = x] /\ x.phase = "replied" /\ x.caller = d
    BY <1>7 DEF Issue, Replied
  <2> HIDE DEF x
  <2>3. Status[c] = Service!Pending(d) /\ StatusOf(x) = StatusOf(call[c])
    BY <1>7, <2>2, StatusAt, PendingStatus DEF Issue, Service!Pending
  <2>4. Status' = Status
    BY <1>0, <2>2, <2>3, StatusUpdate DEF Status
  <2>5. Service!Issue(c, d)
    BY <1>7, <2>1, <2>3, <2>4 DEF Issue, Service!Issue
  <2> QED
    BY <2>1, <2>5 DEF Service!Next
<1>8. ASSUME NEW c \in Calls, RefuseNobody(c) \/ Fail(c) PROVE Service!Next
  <2> DEFINE d == call[c].caller
  <2>1. d \in Delegations /\ call' = [call EXCEPT ![c] = Refused(d)] /\ UNCHANGED issued
    BY <1>0, <1>8, StageCarries, CapableAreDelegations DEF RefuseNobody, Fail, TypeOK
  <2>2. Status[c] = Service!Pending(d) /\ StatusOf(Refused(d)) = Service!Denied(d)
    BY <1>8, StatusAt, PendingStatus
       DEF RefuseNobody, Fail, StatusOf, Refused, Service!Pending, Service!Denied
  <2>3. Service!Deny(c, d)
    BY <1>0, <2>1, <2>2, StatusUpdate DEF Service!Deny
  <2> QED
    BY <2>1, <2>3 DEF Service!Next
<1>9. ASSUME NEW c \in Calls, Overflow(c) PROVE Service!Next
  <2> DEFINE d == call[c].caller
  <2>1. d \in Delegations /\ call' = [call EXCEPT ![c] = Panicked] /\ UNCHANGED issued
    BY <1>0, <1>9, StageCarries, CapableAreDelegations DEF Overflow, TypeOK
  <2>2. Status[c] = Service!Pending(d) /\ StatusOf(Panicked) = Service!Lost
    BY <1>9, StatusAt, PendingStatus
       DEF Overflow, StatusOf, Panicked, Service!Pending, Service!Lost
  <2>3. Service!Lose(c, d)
    BY <1>0, <2>1, <2>2, StatusUpdate DEF Service!Lose
  <2> QED
    BY <2>1, <2>3 DEF Service!Next
<1>10. ASSUME NEW c \in Calls, Cancel(c) \/ Finish(c) PROVE Service!Next
  <2>1. call' = [call EXCEPT ![c] = Idle] /\ UNCHANGED issued
    BY <1>10 DEF Cancel, Finish
  <2>2. call[c].phase \in {"asked", "requesting", "replied", "answered", "refused", "panicked"}
    BY <1>10 DEF Cancel, Finish
  <2>3. StatusOf(call[c]).state # "idle"
    BY <2>2 DEF StatusOf
  <2>4. Status[c] # Service!Idle /\ StatusOf(Idle) = Service!Idle
    BY <2>3, StatusAt, IdleStatus
  <2>5. Service!Leave(c)
    BY <1>0, <2>1, <2>4, StatusUpdate DEF Service!Leave
  <2> QED
    BY <2>5 DEF Service!Next
<1> QED
  BY <1>1, <1>3, <1>4, <1>5, <1>6, <1>7, <1>8, <1>9, <1>10 DEF Next

(* The cached, concurrent provider implements the plain token service.     *)
THEOREM Refinement == Spec => ImplementsService
<1>1. Init => Service!Init
  BY DEF Init, Service!Init, Status, StatusOf, Idle, Service!Idle
<1>2. Init => IssuedInv
  BY DEF Init, IssuedInv, CachedKeys, Idle
<1> QED
  BY <1>1, <1>2, IssuedStep, ServiceStep, Invariant, TypeCorrect, PTL
     DEF Spec, ImplementsService, Service!Spec

===================================================================================
