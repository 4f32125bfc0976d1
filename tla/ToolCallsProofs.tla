------------------------------ MODULE ToolCallsProofs ------------------------------
(***************************************************************************)
(* Who a tool call reaches the API for, with whose identity, and what is   *)
(* recorded and answered, for any calls, documents, role mappings and      *)
(* deployments.                                                            *)
(*                                                                         *)
(* What one call has to keep only depends on its own record, on where it   *)
(* stands with the token service and on the deployment, which never        *)
(* changes. So a step is checked for the call it moves.                    *)
(***************************************************************************)
EXTENDS ToolCalls, TLAPS

(* Whom the API should take this request to come from. *)
Speaker(k) ==
  CASE deployment.upstream = "none" -> NoBearer
    [] deployment.upstream = "client" -> Client
    [] deployment.upstream = "delegated" -> k.jwt

(* A request a call may have sent: some document's, and allowed.           *)
RightRequest(k, r) ==
  /\ r \in Requests
  /\ \E d \in Documents :
       k.name \in DOMAIN d.tools /\ r.operation = d.tools[k.name] /\ r.base = d.base
  /\ Entitled(k.jwt, r.operation)
  /\ r.bearer = Speaker(k)

(* A caller is only ever taken for the one its JWT names. *)
AccessIsItsOwn(k) ==
  /\ k.access \in {Anonymous, Unrestricted, k.jwt}
  /\ k.phase = "unmade" => k.access = Anonymous

(* A call that runs has pinned a document in which its tool is allowed.    *)
PinnedIsAllowed(k) ==
  k.phase \in Abortable =>
    /\ k.document \in Documents
    /\ k.name \in DOMAIN k.document.tools
    /\ Entitled(k.jwt, k.document.tools[k.name])

(* While it waits for a token, a call stands in its speaker's name. *)
AsksAsItself(k, s) ==
  k.phase = "token" =>
    /\ deployment.upstream # "none"
    /\ Speaker(k) \in Askers
    /\ s \in {Tokens!Pending(Speaker(k)), Tokens!Denied(Speaker(k)),
              Tokens!Granted(Speaker(k), Speaker(k))}

Unsent == {"unmade", "arrived", "turned away", "admitted", "refused", "started", "token", "dead"}

Unanswered == {"unmade", "arrived", "admitted", "cancelled"} \cup Abortable

SendsRightly(k) ==
  /\ k.sent = << >> \/ \E r : k.sent = <<r>> /\ RightRequest(k, r)
  /\ k.phase \in Unsent => k.sent = << >>
  /\ k.phase = "calling" => k.sent # << >>

RecordsRightly(k) ==
  /\ k.phase \in Unsent \cup {"calling"} => k.recorded = << >>
  /\ k.phase \in Unanswered => k.reply = "none"
  /\ k.phase = "cancelled" => k.recorded = <<"cancelled">>
  /\ k.phase = "answered" =>
       \/ k.recorded = <<"success">> /\ k.reply = "result" /\ k.sent # << >>
       \/ k.recorded = <<"error">> /\ k.reply = "error"
       \/ k.recorded = <<"auth_error">> /\ k.sent = << >>

RefusesRightly(k) ==
  k.phase = "refused" =>
    /\ k.name \in DOMAIN k.document.tools => ~is_allowed(k.access, k.document.tools[k.name])
    /\ k.reply = IF k.name \in DOMAIN k.document.tools
                    /\ is_listed(k.access, k.document.tools[k.name])
                 THEN "needs a bearer token" ELSE "unknown tool"

Good(k, s) ==
  /\ AccessIsItsOwn(k)
  /\ PinnedIsAllowed(k)
  /\ AsksAsItself(k, s)
  /\ SendsRightly(k)
  /\ RecordsRightly(k)
  /\ RefusesRightly(k)

IInv ==
  /\ deployment \in Deployments
  /\ document \in Documents
  /\ rejected \subseteq Jwts
  /\ issued \subseteq Askers
  /\ call \in [Calls -> CallType]
  /\ status \in [Calls -> StatusType]
  /\ \A c \in Calls : Good(call[c], status[c])

-----------------------------------------------------------------------------------

LEMMA Initially == Init => IInv
<1> SUFFICES ASSUME Init PROVE IInv
  OBVIOUS
<1> USE DEF Init, Tokens!Init
<1>1. Unmade \in CallType /\ Tokens!Idle \in StatusType
  BY DEF Unmade, CallType, Phases, Replies, StatusType
<1>2. Good(Unmade, Tokens!Idle)
  <2>1. AccessIsItsOwn(Unmade)
    BY AccessAssumption DEF AccessIsItsOwn, Unmade
  <2>2. PinnedIsAllowed(Unmade) /\ AsksAsItself(Unmade, Tokens!Idle)
    BY DEF PinnedIsAllowed, AsksAsItself, Unmade, Abortable
  <2>3. SendsRightly(Unmade) /\ RecordsRightly(Unmade) /\ RefusesRightly(Unmade)
    BY DEF SendsRightly, RecordsRightly, RefusesRightly, Unmade, Unanswered, Abortable
  <2> QED
    BY <2>1, <2>2, <2>3 DEF Good
<1> QED
  BY <1>1, <1>2 DEF IInv

-----------------------------------------------------------------------------------
(* Steps.                                                                  *)

(* What is good stays good, as long as the deployment does.                *)
LEMMA GoodStays ==
  ASSUME deployment' = deployment, NEW k, NEW s, Good(k, s)
  PROVE  Good(k, s)'
BY DEF Good, AccessIsItsOwn, PinnedIsAllowed, AsksAsItself, SendsRightly, RecordsRightly,
       RefusesRightly, Speaker, RightRequest, Entitled, is_listed

(* The request of a call follows from its tool and its JWT. *)
LEMMA SameRequest ==
  ASSUME NEW k, NEW l, l.name = k.name, l.jwt = k.jwt
  PROVE  Speaker(l) = Speaker(k) /\ \A r : RightRequest(k, r) => RightRequest(l, r)
BY DEF Speaker, RightRequest

(* Only one call moves.                                                    *)
LEMMA OneCallMoves ==
  ASSUME IInv, NEW c \in Calls, NEW k \in CallType, NEW s \in StatusType, Good(k, s),
         call' = [call EXCEPT ![c] = k], status' = [status EXCEPT ![c] = s],
         deployment' = deployment, document' \in Documents, rejected' \subseteq Jwts,
         issued' \subseteq Askers
  PROVE  IInv'
<1>1. call' \in [Calls -> CallType] /\ status' \in [Calls -> StatusType]
  BY DEF IInv
<1>2. ASSUME NEW e \in Calls PROVE Good(call'[e], status'[e])
  BY <1>2 DEF IInv
<1>3. ASSUME NEW e \in Calls PROVE Good(call[e], status[e])'
  BY <1>2, GoodStays
<1> QED
  BY <1>1, <1>3 DEF IInv

(* Arriving, and being turned away or let in; giving up. *)
LEMMA AtTheGate ==
  ASSUME IInv, NEW c \in Calls,
         \/ \E name \in Names, jwt \in Jwts \cup {NoJwt} : Arrive(c, name, jwt)
         \/ Challenge(c) \/ RefuseLarge(c) \/ Admit(c) \/ CancelRequest(c) \/ DieOfExpiry(c)
  PROVE  IInv'
<1> DEFINE k == call'[c]
           s == status[c]
<1>1. call[c] \in CallType /\ s \in StatusType /\ Good(call[c], s)
  BY DEF IInv
<1>2. /\ call' = [call EXCEPT ![c] = k] /\ status' = [status EXCEPT ![c] = s]
      /\ UNCHANGED <<deployment, document, rejected, issued>>
  BY DEF IInv, Arrive, Challenge, RefuseLarge, Admit, CancelRequest, DieOfExpiry
<1>3. k \in CallType /\ Good(k, s)
  <2>1. CASE \E name \in Names, jwt \in Jwts \cup {NoJwt} : Arrive(c, name, jwt)
    <3>1. PICK name \in Names, jwt \in Jwts \cup {NoJwt} : Arrive(c, name, jwt)
      BY <2>1
    <3>2. /\ call[c].phase = "unmade"
          /\ k = [call[c] EXCEPT !.phase = "arrived", !.name = name, !.jwt = jwt]
      BY <3>1 DEF IInv, Arrive
    <3>3. k \in CallType
      BY <1>1, <3>2 DEF CallType, Phases
    <3> QED
      BY <1>1, <3>2, <3>3 DEF CallType, Good, AccessIsItsOwn, PinnedIsAllowed, AsksAsItself,
         SendsRightly, RecordsRightly, RefusesRightly, Abortable, Unsent, Unanswered
  <2>2. CASE Challenge(c) \/ RefuseLarge(c)
    <3>1. PICK reply \in {"challenge", "too large"} :
            /\ call[c].phase = "arrived"
            /\ k = [call[c] EXCEPT !.phase = "turned away", !.reply = reply]
      BY <2>2 DEF IInv, Challenge, RefuseLarge
    <3>2. k \in CallType
      BY <1>1, <3>1 DEF CallType, Phases, Replies
    <3> QED
      BY <1>1, <3>1, <3>2 DEF CallType, Good, AccessIsItsOwn, PinnedIsAllowed, AsksAsItself,
         SendsRightly, RecordsRightly, RefusesRightly, Abortable, Unsent, Unanswered
  <2>3. CASE Admit(c)
    <3>1. call[c].phase = "arrived" /\ k = [call[c] EXCEPT !.phase = "admitted"]
      BY <2>3 DEF IInv, Admit
    <3>2. k \in CallType
      BY <1>1, <3>1 DEF CallType, Phases
    <3> QED
      BY <1>1, <3>1, <3>2 DEF CallType, Good, AccessIsItsOwn, PinnedIsAllowed, AsksAsItself,
         SendsRightly, RecordsRightly, RefusesRightly, Abortable, Unsent, Unanswered
  <2>4. CASE CancelRequest(c)
    <3>1. k = [call[c] EXCEPT !.cancelled = TRUE]
      BY <2>4 DEF IInv, CancelRequest
    <3>2. k \in CallType
      BY <1>1, <3>1 DEF CallType
    <3> QED
      <4> HIDE DEF k
      <4>1. Speaker(k) = Speaker(call[c]) /\ \A r : RightRequest(call[c], r) => RightRequest(k, r)
        BY <1>1, <3>1, SameRequest DEF CallType
      <4> QED
        BY <1>1, <3>1, <4>1 DEF CallType, Good, AccessIsItsOwn, PinnedIsAllowed, AsksAsItself,
           SendsRightly, RecordsRightly, RefusesRightly
  <2>5. CASE DieOfExpiry(c)
    <3>1. call[c].phase = "admitted" /\ k = [call[c] EXCEPT !.phase = "dead"]
      BY <2>5 DEF IInv, DieOfExpiry
    <3>2. k \in CallType
      BY <1>1, <3>1 DEF CallType, Phases
    <3> QED
      BY <1>1, <3>1, <3>2 DEF CallType, Good, AccessIsItsOwn, PinnedIsAllowed, AsksAsItself,
         SendsRightly, RecordsRightly, RefusesRightly, Abortable, Unsent, Unanswered
  <2> QED
    BY <2>1, <2>2, <2>3, <2>4, <2>5
<1> QED
  BY <1>1, <1>2, <1>3, OneCallMoves DEF IInv

-----------------------------------------------------------------------------------
(* The handler decides.                                                    *)

LEMMA AccessGiven ==
  ASSUME NEW jwt \in Jwts \cup {NoJwt}, NEW op, is_allowed(Access(jwt), op)
  PROVE  Entitled(jwt, op)
BY AccessAssumption DEF Access, is_allowed, allows, is_public, Entitled

LEMMA AccessIsOne ==
  ASSUME NEW jwt \in Jwts \cup {NoJwt}
  PROVE  Access(jwt) \in Jwts \cup {Anonymous, Unrestricted}
         /\ Access(jwt) \in {Anonymous, Unrestricted, jwt}
BY DEF Access

LEMMA Refusing ==
  ASSUME IInv, NEW c \in Calls, Refuse(c)
  PROVE  IInv'
<1> DEFINE k == call'[c]
           s == status[c]
<1>1. call[c] \in CallType /\ s \in StatusType /\ Good(call[c], s) /\ document \in Documents
  BY DEF IInv
<1>2. /\ call' = [call EXCEPT ![c] = k] /\ status' = [status EXCEPT ![c] = s]
      /\ UNCHANGED <<deployment, document, rejected, issued>>
  BY DEF IInv, Refuse
<1>3. PICK reply \in Replies :
        /\ call[c].phase = "admitted"
        /\ ~MayCall(Access(call[c].jwt), call[c].name)
        /\ reply = IF call[c].name \in DOMAIN document.tools
                      /\ is_listed(Access(call[c].jwt), document.tools[call[c].name])
                   THEN "needs a bearer token" ELSE "unknown tool"
        /\ k = [call[c] EXCEPT !.phase = "refused", !.access = Access(call[c].jwt),
                               !.document = document, !.reply = reply]
  BY DEF IInv, Refuse, Replies
<1> HIDE DEF k
<1>4. k \in CallType
  BY <1>1, <1>3, AccessIsOne DEF CallType, Phases
<1>5. AccessIsItsOwn(k) /\ RefusesRightly(k)
  BY <1>1, <1>3, AccessIsOne DEF CallType, AccessIsItsOwn, RefusesRightly, MayCall
<1>6. PinnedIsAllowed(k) /\ AsksAsItself(k, s) /\ SendsRightly(k) /\ RecordsRightly(k)
  BY <1>1, <1>3 DEF CallType, Good, PinnedIsAllowed, AsksAsItself, SendsRightly,
     RecordsRightly, Abortable, Unsent, Unanswered
<1> QED
  BY <1>1, <1>2, <1>4, <1>5, <1>6, OneCallMoves DEF IInv, Good, k

LEMMA Starting ==
  ASSUME IInv, NEW c \in Calls, Start(c)
  PROVE  IInv'
<1> DEFINE k == call'[c]
           s == status[c]
<1>1. call[c] \in CallType /\ s \in StatusType /\ Good(call[c], s) /\ document \in Documents
  BY DEF IInv
<1>2. /\ call' = [call EXCEPT ![c] = k] /\ status' = [status EXCEPT ![c] = s]
      /\ UNCHANGED <<deployment, document, rejected, issued>>
  BY DEF IInv, Start
<1>3. /\ call[c].phase = "admitted" /\ MayCall(Access(call[c].jwt), call[c].name)
      /\ k = [call[c] EXCEPT !.phase = "started", !.access = Access(call[c].jwt),
                             !.document = document]
  BY DEF IInv, Start
<1>4. k \in CallType
  BY <1>1, <1>3, AccessIsOne DEF CallType, Phases
<1>5. AccessIsItsOwn(k)
  BY <1>1, <1>3, AccessIsOne DEF CallType, AccessIsItsOwn
<1>6. PinnedIsAllowed(k)
  BY <1>1, <1>3, AccessGiven DEF CallType, PinnedIsAllowed, MayCall
<1>7. AsksAsItself(k, s) /\ SendsRightly(k) /\ RecordsRightly(k) /\ RefusesRightly(k)
  BY <1>1, <1>3 DEF CallType, Good, AsksAsItself, SendsRightly, RecordsRightly,
     RefusesRightly, Unsent, Unanswered
<1> QED
  BY <1>1, <1>2, <1>4, <1>5, <1>6, <1>7, OneCallMoves DEF IInv, Good

-----------------------------------------------------------------------------------
(* The call runs.                                                          *)

(* The result of a call is recorded with it.                               *)
LEMMA Answering ==
  ASSUME IInv, NEW c \in Calls, NEW reply \in Replies, NEW outcome \in Outcomes,
         Answer(c, reply, outcome), call[c].phase \in Abortable,
         NEW s \in StatusType,
         \/ reply = "result" /\ outcome = "success" /\ call[c].sent # << >>
         \/ reply = "error" /\ outcome = "error"
         \/ outcome = "auth_error" /\ call[c].sent = << >>
  PROVE  /\ call' = [call EXCEPT ![c] = call'[c]]
         /\ call'[c] \in CallType /\ Good(call'[c], s)
<1> DEFINE k == call'[c]
<1>1. call[c] \in CallType /\ Good(call[c], status[c])
  BY DEF IInv
<1>2. /\ call' = [call EXCEPT ![c] = k]
      /\ k = [call[c] EXCEPT !.phase = "answered", !.reply = reply, !.recorded = Append(@, outcome)]
  BY DEF IInv, Answer
<1>3. call[c].recorded = << >>
  BY <1>1 DEF Good, RecordsRightly, Abortable, Unsent
<1>4. Append(call[c].recorded, outcome) = <<outcome>> /\ <<outcome>> \in Seq(Outcomes)
  BY <1>3
<1>5. k = [call[c] EXCEPT !.phase = "answered", !.reply = reply, !.recorded = <<outcome>>]
  BY <1>2, <1>4
<1>6. k \in CallType
  BY <1>1, <1>4, <1>5 DEF CallType, Phases
<1>7. Speaker(k) = Speaker(call[c]) /\ \A r : RightRequest(call[c], r) => RightRequest(k, r)
  BY <1>1, <1>5, SameRequest DEF CallType
<1>8. AccessIsItsOwn(k) /\ PinnedIsAllowed(k) /\ AsksAsItself(k, s) /\ RefusesRightly(k)
  BY <1>1, <1>5 DEF CallType, Good, AccessIsItsOwn, PinnedIsAllowed, AsksAsItself,
     RefusesRightly, Abortable
<1>9. SendsRightly(k)
  BY <1>1, <1>5, <1>7 DEF CallType, Good, SendsRightly, Unsent
<1>10. RecordsRightly(k)
  BY <1>5 DEF RecordsRightly, Unsent, Unanswered, Abortable
<1> QED
  BY <1>2, <1>6, <1>8, <1>9, <1>10 DEF Good

(* A request to the API is sent in the speaker's name.                     *)
LEMMA Sending ==
  ASSUME IInv, NEW c \in Calls, call[c].phase \in {"started", "token"},
         NEW s \in StatusType, Speaker(call[c]) \in Askers \cup {NoBearer},
         call' = [call EXCEPT ![c].phase = "calling",
                              ![c].sent = Append(@, Request(c, Speaker(call[c])))]
  PROVE  /\ call' = [call EXCEPT ![c] = call'[c]]
         /\ call'[c] \in CallType /\ Good(call'[c], s)
<1> DEFINE k == call'[c]
           r == Request(c, Speaker(call[c]))
<1>1. call[c] \in CallType /\ Good(call[c], status[c])
  BY DEF IInv
<1>2. /\ call' = [call EXCEPT ![c] = k]
      /\ k = [call[c] EXCEPT !.phase = "calling", !.sent = Append(@, r)]
  BY DEF IInv
<1>3. call[c].sent = << >>
  BY <1>1 DEF Good, SendsRightly, Unsent
<1>4. RightRequest(call[c], r)
  <2>1. /\ call[c].document \in Documents /\ call[c].name \in DOMAIN call[c].document.tools
        /\ Entitled(call[c].jwt, call[c].document.tools[call[c].name])
    BY <1>1 DEF Good, PinnedIsAllowed, Abortable
  <2>2. call[c].document.tools[call[c].name] \in Operations
    BY <2>1, DocumentsAssumption
  <2>3. r \in Requests
    BY <2>1, <2>2 DEF Request, Requests
  <2> QED
    BY <2>1, <2>3 DEF RightRequest, Request
<1>5. k = [call[c] EXCEPT !.phase = "calling", !.sent = <<r>>] /\ <<r>> \in Seq(Requests)
  BY <1>2, <1>3, <1>4 DEF RightRequest
<1> HIDE DEF k, r
<1>6. k \in CallType
  BY <1>1, <1>5 DEF CallType, Phases
<1>7. /\ k.phase = "calling" /\ k.sent = <<r>> /\ k.recorded = call[c].recorded
      /\ k.reply = call[c].reply /\ k.access = call[c].access /\ k.jwt = call[c].jwt
      /\ k.name = call[c].name /\ k.document = call[c].document
  BY <1>1, <1>5 DEF CallType
<1>8. Speaker(k) = Speaker(call[c]) /\ \A q : RightRequest(call[c], q) => RightRequest(k, q)
  BY <1>7, SameRequest
<1>9. AccessIsItsOwn(k) /\ PinnedIsAllowed(k) /\ AsksAsItself(k, s) /\ RefusesRightly(k)
  BY <1>1, <1>7, <1>8 DEF Good, AccessIsItsOwn, PinnedIsAllowed, AsksAsItself, RefusesRightly,
     Abortable
<1>10. SendsRightly(k)
  BY <1>4, <1>7, <1>8 DEF SendsRightly, Unsent
<1>11. RecordsRightly(k)
  BY <1>1, <1>7 DEF Good, RecordsRightly, Unsent, Unanswered, Abortable
<1> QED
  BY <1>2, <1>6, <1>9, <1>10, <1>11 DEF Good, k

(* A call may leave the token service or stay as it is.                    *)
LEMMA LeavingIsFree ==
  ASSUME IInv, NEW c \in Calls, UNCHANGED <<status, issued>> \/ Tokens!Leave(c)
  PROVE  status' = [status EXCEPT ![c] = status'[c]] /\ status'[c] \in StatusType
         /\ UNCHANGED issued
<1>1. status \in [Calls -> StatusType]
  BY DEF IInv
<1>2. CASE UNCHANGED <<status, issued>>
  BY <1>1, <1>2
<1>3. CASE Tokens!Leave(c)
  BY <1>1, <1>3 DEF Tokens!Leave, StatusType
<1> QED
  BY <1>2, <1>3

(* Cancelled: the record says so, and the token service is left.           *)
LEMMA Aborting ==
  ASSUME IInv, NEW c \in Calls, AbortCancelled(c)
  PROVE  IInv'
<1> DEFINE k == call'[c]
           s == status'[c]
<1>1. call[c] \in CallType /\ Good(call[c], status[c])
  BY DEF IInv
<1>2. /\ call' = [call EXCEPT ![c] = k] /\ status' = [status EXCEPT ![c] = s]
      /\ s \in StatusType
      /\ UNCHANGED <<deployment, document, rejected, issued>>
  <2>1. call' = [call EXCEPT ![c] = k] /\ UNCHANGED <<deployment, document, rejected>>
    BY DEF IInv, AbortCancelled
  <2>2. UNCHANGED <<status, issued>> \/ Tokens!Leave(c)
    BY DEF AbortCancelled
  <2>3. status' = [status EXCEPT ![c] = s] /\ s \in StatusType /\ UNCHANGED issued
    BY <2>2, LeavingIsFree
  <2> QED
    BY <2>1, <2>3
<1>3. call[c].recorded = << >> /\ call[c].phase \in Abortable /\ call[c].reply = "none"
  BY <1>1 DEF Good, RecordsRightly, AbortCancelled, Abortable, Unsent, Unanswered
<1>4. <<"cancelled">> \in Seq(Outcomes)
  BY DEF Outcomes
<1>5. k = [call[c] EXCEPT !.phase = "cancelled", !.recorded = <<"cancelled">>]
  <2>1. k = [call[c] EXCEPT !.phase = "cancelled", !.recorded = Append(@, "cancelled")]
    BY DEF IInv, AbortCancelled
  <2> QED
    BY <1>3, <2>1
<1> HIDE DEF k, s
<1>6. k \in CallType
  BY <1>1, <1>4, <1>5 DEF CallType, Phases
<1>7. /\ k.phase = "cancelled" /\ k.recorded = <<"cancelled">> /\ k.reply = "none"
      /\ k.sent = call[c].sent /\ k.access = call[c].access /\ k.jwt = call[c].jwt
      /\ k.name = call[c].name
  BY <1>1, <1>3, <1>5 DEF CallType
<1>8. Speaker(k) = Speaker(call[c]) /\ \A r : RightRequest(call[c], r) => RightRequest(k, r)
  BY <1>7, SameRequest
<1>9. AccessIsItsOwn(k) /\ PinnedIsAllowed(k) /\ AsksAsItself(k, s) /\ RefusesRightly(k)
  BY <1>1, <1>7 DEF Good, AccessIsItsOwn, PinnedIsAllowed, AsksAsItself, RefusesRightly,
     Abortable
<1>10. SendsRightly(k)
  BY <1>1, <1>7, <1>8 DEF Good, SendsRightly, Unsent
<1>11. RecordsRightly(k)
  BY <1>7 DEF RecordsRightly, Unsent, Unanswered, Abortable
<1> QED
  BY <1>2, <1>6, <1>9, <1>10, <1>11, OneCallMoves DEF IInv, Good, k, s

LEMMA SpeakerIsAsker ==
  ASSUME IInv, NEW c \in Calls, deployment.upstream # "none", Asker(c) # Nobody
  PROVE  Asker(c) = Speaker(call[c]) /\ Asker(c) \in Askers
<1>1. deployment.upstream \in {"client", "delegated"}
  BY DeploymentsAssumption DEF IInv, DeploymentType, Deployable
<1>2. call[c].access \in Identified => call[c].access = call[c].jwt /\ call[c].jwt \in Jwts
  BY AccessAssumption DEF IInv, Good, AccessIsItsOwn
<1> QED
  BY <1>1, <1>2 DEF Asker, Speaker, Askers

LEMMA Asking ==
  ASSUME IInv, NEW c \in Calls, AskToken(c)
  PROVE  IInv'
<1> DEFINE k == call'[c]
           s == status'[c]
<1>1. call[c] \in CallType /\ Good(call[c], status[c])
  BY DEF IInv
<1>2. /\ call' = [call EXCEPT ![c] = k] /\ status' = [status EXCEPT ![c] = s]
      /\ UNCHANGED <<deployment, document, rejected, issued>>
      /\ s = Tokens!Pending(Asker(c))
  BY DEF IInv, AskToken, Tokens!Ask
<1>3. /\ call[c].phase = "started" /\ deployment.upstream # "none"
      /\ Asker(c) = Speaker(call[c]) /\ Asker(c) \in Askers
      /\ k = [call[c] EXCEPT !.phase = "token"]
  BY SpeakerIsAsker DEF IInv, AskToken
<1>4. s \in StatusType
  BY <1>2, <1>3 DEF StatusType
<1> HIDE DEF k, s
<1>5. k \in CallType
  BY <1>1, <1>3 DEF CallType, Phases
<1>6. Speaker(k) = Speaker(call[c]) /\ \A r : RightRequest(call[c], r) => RightRequest(k, r)
  BY <1>1, <1>3, SameRequest DEF CallType
<1>7. AsksAsItself(k, s)
  BY <1>2, <1>3, <1>6 DEF AsksAsItself
<1>8. AccessIsItsOwn(k) /\ PinnedIsAllowed(k) /\ RefusesRightly(k)
  BY <1>1, <1>3 DEF CallType, Good, AccessIsItsOwn, PinnedIsAllowed, RefusesRightly, Abortable
<1>9. SendsRightly(k) /\ RecordsRightly(k)
  BY <1>1, <1>3 DEF CallType, Good, SendsRightly, RecordsRightly, Unsent, Unanswered, Abortable
<1> QED
  BY <1>2, <1>4, <1>5, <1>7, <1>8, <1>9, OneCallMoves DEF IInv, Good, k, s

(* The provider's steps: a token is the asker's own.                       *)
LEMMA Providing ==
  ASSUME IInv, NEW c \in Calls, Provide(c)
  PROVE  IInv'
<1> DEFINE k == call[c]
           s == status'[c]
<1>1. k \in CallType /\ status[c] \in StatusType /\ Good(k, status[c])
  BY DEF IInv
<1>2. PICK a \in Askers : Tokens!Issue(c, a) \/ Tokens!HandOut(c, a) \/ Tokens!Deny(c, a)
  BY DEF Provide
<1>3. UNCHANGED <<deployment, document, rejected, call>>
  BY DEF Provide
<1>4. /\ status[c] = Tokens!Pending(a)
      /\ s \in {Tokens!Pending(a), Tokens!Denied(a), Tokens!Granted(a, a)}
      /\ status' = [status EXCEPT ![c] = s]
      /\ issued' \subseteq Askers
  BY <1>2 DEF IInv, Tokens!Issue, Tokens!HandOut, Tokens!Deny
<1>5. s \in StatusType /\ call' = [call EXCEPT ![c] = k]
  BY <1>3, <1>4 DEF IInv, StatusType
<1>6. AsksAsItself(k, s)
  <2>1. ASSUME k.phase = "token" PROVE a = Speaker(k)
    BY <1>1, <1>4, <2>1 DEF Good, AsksAsItself, Tokens!Pending, Tokens!Denied, Tokens!Granted
  <2> QED
    BY <1>1, <1>4, <2>1 DEF Good, AsksAsItself
<1> QED
  BY <1>1, <1>3, <1>4, <1>5, <1>6, OneCallMoves DEF IInv, Good

LEMMA Dying ==
  ASSUME IInv, NEW c \in Calls, Die(c)
  PROVE  IInv'
<1> DEFINE k == call'[c]
           s == Tokens!Lost
<1>1. call[c] \in CallType /\ Good(call[c], status[c])
  BY DEF IInv
<1>2. /\ call' = [call EXCEPT ![c] = k] /\ status' = [status EXCEPT ![c] = s]
      /\ UNCHANGED <<deployment, document, rejected, issued>>
  BY DEF IInv, Die, Tokens!Lose
<1>3. call[c].phase = "token" /\ k = [call[c] EXCEPT !.phase = "dead"] /\ s \in StatusType
  BY DEF IInv, Die, StatusType
<1> HIDE DEF k, s
<1>4. k \in CallType
  BY <1>1, <1>3 DEF CallType, Phases
<1>5. AccessIsItsOwn(k) /\ PinnedIsAllowed(k) /\ AsksAsItself(k, s) /\ RefusesRightly(k)
  BY <1>1, <1>3 DEF CallType, Good, AccessIsItsOwn, PinnedIsAllowed, AsksAsItself,
     RefusesRightly, Abortable
<1>6. SendsRightly(k) /\ RecordsRightly(k)
  BY <1>1, <1>3 DEF CallType, Good, SendsRightly, RecordsRightly, Unsent, Unanswered, Abortable
<1> QED
  BY <1>2, <1>3, <1>4, <1>5, <1>6, OneCallMoves DEF IInv, Good, k

(* Once it has what it needs, a call is answered or sends its request.     *)
LEMMA Ending ==
  ASSUME IInv, NEW c \in Calls,
         DenyNobody(c) \/ TokenRefused(c) \/ ExecuteBare(c) \/ ExecuteWithToken(c) \/ Respond(c)
  PROVE  IInv'
<1> DEFINE k == call'[c]
           s == status'[c]
<1>1. call[c] \in CallType /\ Good(call[c], status[c])
  BY DEF IInv
<1>2. /\ status' = [status EXCEPT ![c] = s] /\ s \in StatusType
      /\ UNCHANGED <<deployment, document, rejected, issued>>
  <2>1. UNCHANGED <<status, issued>> \/ Tokens!Leave(c)
    BY DEF DenyNobody, TokenRefused, ExecuteBare, ExecuteWithToken, Respond
  <2>2. UNCHANGED <<deployment, document, rejected>>
    BY DEF DenyNobody, TokenRefused, ExecuteBare, ExecuteWithToken, Respond
  <2> QED
    BY <2>1, <2>2, LeavingIsFree
<1>3. call[c].phase \in Unsent => call[c].sent = << >>
  BY <1>1 DEF Good, SendsRightly
<1>4. call[c].phase = "calling" => call[c].sent # << >>
  BY <1>1 DEF Good, SendsRightly
<1> HIDE DEF s
<1>5. ASSUME call' = [call EXCEPT ![c] = k], k \in CallType, Good(k, s)
      PROVE  IInv'
  BY <1>1, <1>2, <1>5, OneCallMoves DEF IInv
<1>6. CASE DenyNobody(c)
  BY <1>2, <1>3, <1>5, <1>6, Answering DEF DenyNobody, Replies, Outcomes, Abortable, Unsent
<1>7. CASE TokenRefused(c)
  BY <1>2, <1>3, <1>5, <1>7, Answering DEF TokenRefused, Replies, Outcomes, Abortable, Unsent
<1>8. CASE Respond(c)
  BY <1>2, <1>4, <1>5, <1>8, Answering DEF Respond, Replies, Outcomes, Abortable
<1>9. CASE ExecuteBare(c)
  <2>1. Speaker(call[c]) = NoBearer /\ call[c].phase = "started"
    BY <1>9 DEF ExecuteBare, Speaker
  <2>2. CASE Answer(c, "error", "error")
    BY <1>2, <1>5, <2>1, <2>2, Answering DEF Replies, Outcomes, Abortable
  <2>3. CASE ~Answer(c, "error", "error")
    BY <1>2, <1>5, <1>9, <2>1, <2>3, Sending DEF ExecuteBare, Execute
  <2> QED
    BY <2>2, <2>3
<1>10. CASE ExecuteWithToken(c)
  <2>1. /\ call[c].phase = "token" /\ status[c].identity = Speaker(call[c])
        /\ Speaker(call[c]) \in Askers
    BY <1>1, <1>10 DEF ExecuteWithToken, Good, AsksAsItself, Tokens!Pending, Tokens!Denied,
       Tokens!Granted
  <2>2. CASE Answer(c, "error", "error")
    BY <1>2, <1>5, <2>1, <2>2, Answering DEF Replies, Outcomes, Abortable
  <2>3. CASE ~Answer(c, "error", "error")
    BY <1>2, <1>5, <1>10, <2>1, <2>3, Sending DEF ExecuteWithToken, Execute
  <2> QED
    BY <2>2, <2>3
<1> QED
  BY <1>6, <1>7, <1>8, <1>9, <1>10

LEMMA Inductive == IInv /\ [Next]_vars => IInv'
<1> SUFFICES ASSUME IInv, [Next]_vars PROVE IInv'
  OBVIOUS
<1>1. ASSUME deployment' = deployment, call' = call, status' = status, issued' = issued,
             document' \in Documents, rejected' \subseteq Jwts
      PROVE  IInv'
  BY <1>1, GoodStays DEF IInv
<1>2. CASE \E jwt \in Jwts : Expire(jwt)
  BY <1>1, <1>2 DEF IInv, Expire
<1>3. CASE \E d \in Documents : Reload(d)
  BY <1>1, <1>3 DEF IInv, Reload
<1>4. ASSUME NEW c \in Calls,
             \/ \E name \in Names, jwt \in Jwts \cup {NoJwt} : Arrive(c, name, jwt)
             \/ Challenge(c) \/ RefuseLarge(c) \/ Admit(c) \/ CancelRequest(c)
             \/ Poll(c) \/ Provide(c) \/ Die(c) \/ Respond(c)
      PROVE  IInv'
  BY <1>4, AtTheGate, Refusing, Starting, Aborting, Asking, Providing, Dying, Ending DEF Poll
<1>5. CASE UNCHANGED vars
  BY <1>1, <1>5 DEF IInv, vars
<1> QED
  BY <1>2, <1>3, <1>4, <1>5 DEF Next

LEMMA Always == Spec => []IInv
<1>1. Init => IInv
  BY Initially
<1>2. IInv /\ [Next]_vars => IInv'
  BY Inductive
<1> QED
  BY <1>1, <1>2, PTL DEF Spec

-----------------------------------------------------------------------------------
(* Theorems.                                                               *)

(* Every call is at one stage, and one that runs has pinned a document in  *)
(* which its tool exists (server.rs: call_tool).                           *)
THEOREM CallsTypeCorrect == Spec => []TypeOK
<1>1. IInv => TypeOK
  BY DEF IInv, TypeOK, Good, PinnedIsAllowed
<1> QED
  BY <1>1, Always, PTL

(* Whatever documents are loaded while a call runs, what reaches the API   *)
(* is what one document gives the name, and the caller is entitled to it.  *)
THEOREM CallsAreAllowed == Spec => []ApiRequestsAreAllowed
<1>1. IInv => ApiRequestsAreAllowed
  BY DEF IInv, ApiRequestsAreAllowed, SentBy, Good, SendsRightly, RightRequest
<1> QED
  BY <1>1, Always, PTL

(* No request is made in another caller's name, nor in none, whatever      *)
(* happens to its JWT on the way (server.rs: call, provider.rs: token_for).*)
THEOREM CallsSpeakForTheCaller == Spec => []ApiRequestsSpeakForTheCaller
<1>1. IInv => ApiRequestsSpeakForTheCaller
  <2> SUFFICES ASSUME IInv, NEW c \in Calls, NEW r \in SentBy(c)
               PROVE  r.bearer = Speaker(call[c])
    BY DEF ApiRequestsSpeakForTheCaller, Speaker
  <2> QED
    BY DEF IInv, SentBy, Good, SendsRightly, RightRequest
<1> QED
  BY <1>1, Always, PTL

(* The outcome recorded is the outcome of the call, and at most one request*)
(* was made for it (server.rs: call_until_cancelled).                      *)
THEOREM RecordsAreTrue == Spec => []RecordsTellTheTruth
<1>1. IInv => RecordsTellTheTruth
  <2> SUFFICES ASSUME IInv, NEW c \in Calls
               PROVE  LET it == call[c] IN
                      /\ Len(it.sent) <= 1
                      /\ it.phase = "answered" =>
                           \/ it.recorded = <<"success">> /\ it.reply = "result" /\ Len(it.sent) = 1
                           \/ it.recorded = <<"error">> /\ it.reply = "error"
                           \/ it.recorded = <<"auth_error">> /\ it.sent = << >>
                      /\ it.phase = "cancelled" =>
                           it.recorded = <<"cancelled">> /\ it.reply = "none"
                      /\ it.phase \notin {"answered", "cancelled"} => it.recorded = << >>
    BY DEF RecordsTellTheTruth
  <2>1. SendsRightly(call[c]) /\ RecordsRightly(call[c]) /\ call[c].phase \in Phases
    BY DEF IInv, Good, CallType
  <2>2. Len(call[c].sent) <= 1 /\ (call[c].sent # << >> => Len(call[c].sent) = 1)
    <3>1. CASE call[c].sent = << >>
      BY <3>1
    <3>2. CASE \E r : call[c].sent = <<r>>
      <4>1. PICK r : call[c].sent = <<r>>
        BY <3>2
      <4>2. Len(call[c].sent) = 1
        BY <4>1
      <4> QED
        BY <4>2
    <3>3. call[c].sent = << >> \/ \E r : call[c].sent = <<r>>
      BY <2>1 DEF SendsRightly
    <3> QED
      BY <3>1, <3>2, <3>3
  <2> QED
    BY <2>1, <2>2 DEF RecordsRightly, Phases, Unsent, Unanswered
<1> QED
  BY <1>1, Always, PTL

(* A refusal does not tell a hidden tool from a missing one (server.rs:    *)
(* refuse_call).                                                           *)
THEOREM HiddenLooksMissing == Spec => []RefusalsTellNothing
<1>1. IInv => RefusalsTellNothing
  BY AccessAssumption
     DEF IInv, RefusalsTellNothing, Good, RefusesRightly, is_listed
<1> QED
  BY <1>1, Always, PTL


(* What a step may do to a call that was cancelled. *)
Untouched(e) ==
  call[e].cancelled =>
    /\ call'[e].sent = call[e].sent
    /\ status[e].state = "idle" => status'[e].state = "idle"
    /\ call'[e].phase = "answered" => call[e].phase = "answered"

NoneIsTouched == \A c \in Calls : Untouched(c)

(* Cancelled is cancelled: no request, no token and no result comes of a   *)
(* call after that (server.rs: call_until_cancelled).                      *)
THEOREM CancelledMeansNothingMore == Spec => NothingAfterCancel
<1>1. IInv /\ [Next]_vars => [NoneIsTouched]_vars
  <2> SUFFICES ASSUME IInv, [Next]_vars, NEW e \in Calls, call[e].cancelled
               PROVE  Untouched(e)
    BY DEF Untouched, NoneIsTouched
  <2>0. call \in [Calls -> CallType] /\ status \in [Calls -> StatusType]
        /\ call[e] \in CallType
    BY DEF IInv
  <2>1. CASE UNCHANGED <<call, status>>
    BY <2>1 DEF Untouched
  <2>3. ASSUME NEW c \in Calls,
               \/ \E name \in Names, jwt \in Jwts \cup {NoJwt} : Arrive(c, name, jwt)
               \/ Challenge(c) \/ RefuseLarge(c) \/ Admit(c) \/ CancelRequest(c) \/ DieOfExpiry(c)
               \/ Refuse(c) \/ Start(c)
        PROVE  Untouched(e)
    <3>1. status' = status
      BY <2>3 DEF Arrive, Challenge, RefuseLarge, Admit, CancelRequest, DieOfExpiry, Refuse, Start
    <3>2. CASE \E name \in Names, jwt \in Jwts \cup {NoJwt} : Arrive(c, name, jwt)
      BY <2>0, <3>1, <3>2 DEF Untouched, Arrive, CallType
    <3>3. ASSUME call'[c].sent = call[c].sent,
                 call'[c].phase = "answered" => call[c].phase = "answered",
                 \A d \in Calls \ {c} : call'[d] = call[d]
          PROVE  Untouched(e)
      BY <3>1, <3>3 DEF Untouched
    <3>4. call[c] \in CallType
      BY <2>0
    <3>5. CASE Challenge(c)
      BY <2>0, <3>3, <3>4, <3>5 DEF Challenge, CallType
    <3>11. CASE RefuseLarge(c)
      BY <2>0, <3>3, <3>4, <3>11 DEF RefuseLarge, CallType
    <3>6. CASE Admit(c)
      BY <2>0, <3>3, <3>4, <3>6 DEF Admit, CallType
    <3>7. CASE CancelRequest(c)
      BY <2>0, <3>3, <3>4, <3>7 DEF CancelRequest, CallType
    <3>8. CASE Refuse(c)
      BY <2>0, <3>3, <3>4, <3>8 DEF Refuse, CallType
    <3>9. CASE Start(c)
      BY <2>0, <3>3, <3>4, <3>9 DEF Start, CallType
    <3>10. CASE DieOfExpiry(c)
      BY <2>0, <3>3, <3>4, <3>10 DEF DieOfExpiry, CallType
    <3> QED
      BY <2>3, <3>2, <3>5, <3>6, <3>7, <3>8, <3>9, <3>10, <3>11
  <2>4. ASSUME NEW c \in Calls, AbortCancelled(c)
        PROVE  Untouched(e)
    BY <2>0, <2>4 DEF Untouched, AbortCancelled, CallType, Tokens!Leave, Tokens!Idle
  <2>5. ASSUME NEW c \in Calls, Provide(c)
        PROVE  Untouched(e)
    BY <2>0, <2>5 DEF Untouched, Provide, Tokens!Issue, Tokens!HandOut, Tokens!Deny,
       Tokens!Pending
  <2>6. ASSUME NEW c \in Calls, Die(c)
        PROVE  Untouched(e)
    BY <2>0, <2>6 DEF Untouched, Die, CallType, Tokens!Lose, Tokens!Pending
  <2>7. ASSUME NEW c \in Calls, DenyNobody(c) \/ ExecuteBare(c) \/ Respond(c)
        PROVE  Untouched(e)
    BY <2>0, <2>7 DEF Untouched, DenyNobody, ExecuteBare, Respond, Execute, Answer, NotCancelled
  <2>8. ASSUME NEW c \in Calls, AskToken(c) \/ TokenRefused(c) \/ ExecuteWithToken(c)
        PROVE  Untouched(e)
    BY <2>0, <2>8 DEF Untouched, AskToken, TokenRefused, ExecuteWithToken, Execute, Answer,
       NotCancelled, Tokens!Ask, Tokens!Leave
  <2> QED
    BY <2>1, <2>3, <2>4, <2>5, <2>6, <2>7, <2>8 DEF Next, Poll, Expire, Reload, vars
<1>2. NothingAfterCancel <=> [][NoneIsTouched]_vars
  BY DEF NothingAfterCancel, NoneIsTouched, Untouched
<1> QED
  BY <1>1, <1>2, Always, PTL DEF Spec

-----------------------------------------------------------------------------------
(* What the calls and the token service are to each other.                 *)

LEMMA CallsStartTheService == Init => Tokens!Init
BY DEF Init

(* What a call asks for is in the name of somebody who may ask. *)
LEMMA AskerIsOne ==
  ASSUME IInv, NEW c \in Calls, Asker(c) # Nobody
  PROVE  Asker(c) \in Askers
BY AccessAssumption DEF Asker, Askers

LEMMA StepUsesTheService ==
  ASSUME IInv, [Next]_vars
  PROVE  [Tokens!Next]_(Tokens!vars)
<1> USE DEF Tokens!vars
<1>1. ASSUME NEW c \in Calls, AskToken(c)
      PROVE  \E a \in Askers : Tokens!Ask(c, a)
  BY <1>1, AskerIsOne DEF AskToken
<1>2. ASSUME NEW c \in Calls, AbortCancelled(c) \/ TokenRefused(c) \/ ExecuteWithToken(c)
      PROVE  Tokens!Leave(c) \/ UNCHANGED <<status, issued>>
  BY <1>2 DEF AbortCancelled, TokenRefused, ExecuteWithToken
<1>3. ASSUME NEW c \in Calls, Provide(c) \/ Die(c)
      PROVE  \E a \in Askers : \/ Tokens!Issue(c, a) \/ Tokens!HandOut(c, a)
                                \/ Tokens!Deny(c, a)  \/ Tokens!Lose(c, a)
  BY <1>3 DEF Provide, Die
<1>4. ASSUME NEW c \in Calls,
             \/ \E name \in Names, jwt \in Jwts \cup {NoJwt} : Arrive(c, name, jwt)
             \/ Challenge(c) \/ RefuseLarge(c) \/ Admit(c) \/ CancelRequest(c) \/ DieOfExpiry(c)
             \/ Refuse(c) \/ Start(c)
             \/ DenyNobody(c) \/ ExecuteBare(c) \/ Respond(c)
      PROVE  UNCHANGED <<status, issued>>
  BY <1>4 DEF Arrive, Challenge, RefuseLarge, Admit, CancelRequest, DieOfExpiry, Refuse, Start,
              DenyNobody, ExecuteBare, Respond
<1>5. CASE (\E jwt \in Jwts : Expire(jwt)) \/ (\E d \in Documents : Reload(d)) \/ UNCHANGED vars
  BY <1>5 DEF Expire, Reload, vars
<1> QED
  BY <1>1, <1>2, <1>3, <1>4, <1>5 DEF Next, Poll, Tokens!Next

(* The calls ask nothing of the token service but what it promises: so the *)
(* provider, which keeps that promise, can take its place (server.rs: call,*)
(* provider.rs: token_for).                                                *)
THEOREM CallsUseTheService == Spec => Tokens!Spec
<1>1. IInv /\ [Next]_vars => [Tokens!Next]_(Tokens!vars)
  BY StepUsesTheService
<1> QED
  BY <1>1, CallsStartTheService, Always, PTL DEF Spec, Tokens!Spec

(* Only a call that waits for its token, or died of it, is on the books.   *)
OnTheBooks(k, s) == k.phase \notin {"token", "dead"} => s = Tokens!Idle

Books == \A c \in Calls : OnTheBooks(call[c], status[c])

LEMMA BooksStayClosed == IInv /\ Books /\ [Next]_vars => Books'
<1> SUFFICES ASSUME IInv, Books, [Next]_vars, NEW e \in Calls
             PROVE  OnTheBooks(call'[e], status'[e])
  BY DEF Books, OnTheBooks
<1>0. /\ call \in [Calls -> CallType] /\ status \in [Calls -> StatusType]
      /\ OnTheBooks(call[e], status[e])
  BY DEF IInv, Books
<1>1. CASE UNCHANGED <<call, status>>
  BY <1>0, <1>1
<1>2. ASSUME NEW c \in Calls,
             \/ \E name \in Names, jwt \in Jwts \cup {NoJwt} : Arrive(c, name, jwt)
             \/ Challenge(c) \/ RefuseLarge(c) \/ Admit(c) \/ CancelRequest(c) \/ DieOfExpiry(c)
             \/ Refuse(c) \/ Start(c)
             \/ DenyNobody(c) \/ ExecuteBare(c) \/ Respond(c)
      PROVE  OnTheBooks(call'[e], status'[e])
  <2>1. status' = status /\ \A d \in Calls \ {c} : call'[d] = call[d]
    BY <1>0, <1>2 DEF Arrive, Challenge, RefuseLarge, Admit, CancelRequest, DieOfExpiry, Refuse,
       Start, DenyNobody, ExecuteBare, Respond, Execute, Answer
  <2>2. call[c].phase \notin {"token", "dead"} \/ call'[c].phase = call[c].phase
    BY <1>0, <1>2 DEF Arrive, Challenge, RefuseLarge, Admit, CancelRequest, DieOfExpiry, Refuse,
       Start, DenyNobody, ExecuteBare, Respond, CallType
  <2> QED
    BY <1>0, <2>1, <2>2 DEF OnTheBooks
<1>3. ASSUME NEW c \in Calls, AbortCancelled(c) \/ TokenRefused(c) \/ ExecuteWithToken(c)
      PROVE  OnTheBooks(call'[e], status'[e])
  <2>1. /\ status'[c] = Tokens!Idle
        /\ \A d \in Calls \ {c} : call'[d] = call[d] /\ status'[d] = status[d]
    BY <1>0, <1>3 DEF AbortCancelled, TokenRefused, ExecuteWithToken, Execute, Answer,
       Tokens!Leave
  <2> QED
    BY <1>0, <2>1 DEF OnTheBooks
<1>4. ASSUME NEW c \in Calls, AskToken(c) \/ Die(c)
      PROVE  OnTheBooks(call'[e], status'[e])
  <2>1. /\ call'[c].phase \in {"token", "dead"}
        /\ \A d \in Calls \ {c} : call'[d] = call[d] /\ status'[d] = status[d]
    BY <1>0, <1>4 DEF AskToken, Die, Tokens!Ask, Tokens!Lose, CallType
  <2> QED
    BY <1>0, <2>1 DEF OnTheBooks
<1>5. ASSUME NEW c \in Calls, Provide(c)
      PROVE  OnTheBooks(call'[e], status'[e])
  <2>1. /\ status[c] # Tokens!Idle /\ call' = call
        /\ \A d \in Calls \ {c} : status'[d] = status[d]
    BY <1>0, <1>5 DEF Provide, Tokens!Issue, Tokens!HandOut, Tokens!Deny, Tokens!Pending,
       Tokens!Idle
  <2> QED
    BY <1>0, <2>1 DEF OnTheBooks
<1> QED
  BY <1>1, <1>2, <1>3, <1>4, <1>5 DEF Next, Poll, Expire, Reload, vars

(* A call that ends in any way gives up its place with the provider: none  *)
(* that was cancelled, refused or answered still waits for a token, or     *)
(* keeps one it could use later (server.rs: call_until_cancelled).         *)
THEOREM PlacesAreGivenUp == Spec => []Books
<1>1. Init => Books
  BY DEF Init, Tokens!Init, Books, OnTheBooks
<1> QED
  BY <1>1, BooksStayClosed, Always, PTL DEF Spec
===================================================================================
