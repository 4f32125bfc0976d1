----------------------------- MODULE ListChangedProofs -----------------------------
(***************************************************************************)
(* Who is told that the tools changed, for any number of clients that come,*)
(* leave, list and read in any order.                                      *)
(***************************************************************************)
EXTENDS ListChanged, TLAPS

(* A subscription's receiver never runs ahead of the channel.              *)
SeenIsPast == \A x \in Subscribers : seen[x] <= generation

(* Sessions are told by tasks of their own, which do not hold the channel. *)
SessionsDoNotSend == \A s \in Sessions : channel[s] # "sending"

(* A client first lists once its channel is in place. *)
ListsAfterwards ==
  \A x \in Clients :
    channel[x] = "none" => client[x].held = NoListing /\ client[x].wait = "nothing"

IInv ==
  /\ TypeOK
  /\ SeenIsPast
  /\ SessionsDoNotSend
  /\ ListsAfterwards
  /\ OpenSessionsAreRegistered
  /\ NeverSilentlyStale

LEMMA Initially == Init => IInv
<1> SUFFICES ASSUME Init PROVE IInv
  OBVIOUS
<1>1. TypeOK
  BY DocumentsAssumption DEF Init, TypeOK, ClientState, Loop, Clients
<1>2. SeenIsPast /\ SessionsDoNotSend /\ ListsAfterwards
  BY DEF Init, SeenIsPast, SessionsDoNotSend, ListsAfterwards, Clients
<1>3. OpenSessionsAreRegistered /\ NeverSilentlyStale
  BY DEF Init, OpenSessionsAreRegistered, NeverSilentlyStale, Up, Clients
<1> QED
  BY <1>1, <1>2, <1>3 DEF IInv

-----------------------------------------------------------------------------------

(* One client's part changes. *)
LEMMA OneClientChanges ==
  ASSUME TypeOK, NEW x \in Clients, NEW c \in ClientState,
         c.wait = "reply" => c.reply \in Listings,
         client' = [client EXCEPT ![x] = c]
  PROVE  /\ client' \in [Clients -> ClientState]
         /\ \A y \in Clients : client'[y].wait = "reply" => client'[y].reply \in Listings
         /\ client'[x] = c /\ \A y \in Clients \ {x} : client'[y] = client[y]
  BY DEF TypeOK

LEMMA Telling ==
  ASSUME TypeOK, NEW x \in Clients, Tell(x)
  PROVE  /\ client' \in [Clients -> ClientState]
         /\ \A y \in Clients : client'[y].wait = "reply" => client'[y].reply \in Listings
         /\ client'[x].told /\ Latest(x)' = Latest(x)
         /\ client'[x].held = client[x].held /\ client'[x].wait = client[x].wait
         /\ \A y \in Clients \ {x} : client'[y] = client[y]
<1> DEFINE c == [client[x] EXCEPT !.told = TRUE]
<1>1. client[x] \in ClientState /\ (client[x].wait = "reply" => client[x].reply \in Listings)
  BY DEF TypeOK
<1>2. c \in ClientState /\ c.told /\ c.wait = client[x].wait /\ c.reply = client[x].reply
      /\ c.held = client[x].held
  BY <1>1 DEF ClientState
<1>3. client' = [client EXCEPT ![x] = c]
  BY DEF Tell
<1> HIDE DEF c
<1> QED
  BY <1>1, <1>2, <1>3, OneClientChanges DEF Latest

LEMMA Asking ==
  ASSUME TypeOK, NEW x \in Clients, Ask(x)
  PROVE  /\ client' \in [Clients -> ClientState]
         /\ \A y \in Clients : client'[y].wait = "reply" => client'[y].reply \in Listings
         /\ client'[x].wait = "request"
         /\ \A y \in Clients \ {x} : client'[y] = client[y]
<1> DEFINE c == [client[x] EXCEPT !.wait = "request", !.told = FALSE]
<1>1. client[x] \in ClientState
  BY DEF TypeOK
<1>2. c \in ClientState /\ c.wait = "request"
  BY <1>1 DEF ClientState
<1>3. client' = [client EXCEPT ![x] = c]
  BY DEF Ask
<1> HIDE DEF c
<1> QED
  BY <1>2, <1>3, OneClientChanges

LEMMA Listed ==
  ASSUME TypeOK, NEW x \in Clients, ListTools(x)
  PROVE  /\ client' \in [Clients -> ClientState]
         /\ \A y \in Clients : client'[y].wait = "reply" => client'[y].reply \in Listings
         /\ Latest(x)' = Listing[document]
         /\ \A y \in Clients \ {x} : client'[y] = client[y]
<1> DEFINE c == [client[x] EXCEPT !.wait = "reply", !.reply = Listing[document]]
<1>1. client[x] \in ClientState /\ Listing[document] \in Listings
  BY DEF TypeOK, Listings
<1>2. c \in ClientState /\ c.wait = "reply" /\ c.reply = Listing[document]
  BY <1>1 DEF ClientState
<1>3. client' = [client EXCEPT ![x] = c]
  BY DEF ListTools
<1> HIDE DEF c
<1> QED
  BY <1>1, <1>2, <1>3, OneClientChanges DEF Latest

LEMMA Learning ==
  ASSUME TypeOK, NEW x \in Clients, Learn(x)
  PROVE  /\ client' \in [Clients -> ClientState]
         /\ \A y \in Clients : client'[y].wait = "reply" => client'[y].reply \in Listings
         /\ Latest(x)' = Latest(x) /\ client'[x].told = client[x].told
         /\ client[x].wait = "reply"
         /\ \A y \in Clients \ {x} : client'[y] = client[y]
<1> DEFINE c == [client[x] EXCEPT !.held = client[x].reply, !.wait = "nothing"]
<1>1. client[x] \in ClientState /\ client[x].wait = "reply"
  BY DEF TypeOK, Learn
<1>2. c \in ClientState /\ c.wait = "nothing" /\ c.held = client[x].reply
      /\ c.told = client[x].told
  BY <1>1 DEF ClientState
<1>3. client' = [client EXCEPT ![x] = c]
  BY DEF Learn
<1> HIDE DEF c
<1> QED
  BY <1>1, <1>2, <1>3, OneClientChanges DEF Latest

LEMMA StepKeepsTypes ==
  ASSUME TypeOK, [Next]_vars
  PROVE  TypeOK'
<1>0. TypeOK
  OBVIOUS
<1> USE DEF Clients
<1>1. CASE \E d \in Documents : Fetch(d)
  BY <1>0, <1>1 DEF TypeOK, Fetch, Loop
<1>2. CASE Swap \/ KeepQuiet \/ Bump
  BY <1>0, <1>2 DEF TypeOK, Swap, KeepQuiet, Bump, Loop
<1>3. CASE Spawn
  BY <1>0, <1>3 DEF TypeOK, Spawn, Loop, Open
<1>4. CASE \E s \in Sessions : Register(s)
  BY <1>0, <1>4 DEF TypeOK, Register, Open
<1>5. ASSUME NEW s \in Sessions, RunTask(s)
      PROVE  TypeOK'
  <2>1. tasks' \in [Sessions -> Nat]
    BY <1>0, <1>5 DEF TypeOK, RunTask
  <2>2. CASE channel[s] = "up"
    BY <1>0, <1>5, <2>1, <2>2, Telling DEF TypeOK, RunTask
  <2>3. CASE channel[s] # "up"
    BY <1>0, <1>5, <2>1, <2>3 DEF TypeOK, RunTask
  <2> QED
    BY <2>2, <2>3
<1>6. CASE \E x \in Subscribers : Subscribe(x) \/ Wake(x)
  BY <1>0, <1>6 DEF TypeOK, Subscribe, Wake
<1>7. CASE \E x \in Subscribers : Send(x)
  BY <1>0, <1>7, Telling DEF TypeOK, Send
<1>8. CASE \E x \in Clients : Close(x)
  BY <1>0, <1>8 DEF TypeOK, Close
<1>9. CASE \E x \in Clients : Ask(x)
  BY <1>0, <1>9, Asking DEF TypeOK, Ask
<1>10. CASE \E x \in Clients : ListTools(x)
  BY <1>0, <1>10, Listed DEF TypeOK, ListTools
<1>11. CASE \E x \in Clients : Learn(x)
  BY <1>0, <1>11, Learning DEF TypeOK, Learn
<1>12. CASE UNCHANGED vars
  BY <1>0, <1>12 DEF TypeOK, vars
<1> QED
  BY <1>1, <1>2, <1>3, <1>4, <1>5, <1>6, <1>7, <1>8, <1>9, <1>10, <1>11, <1>12
     DEF Next, Reload

LEMMA StepKeepsBookkeeping ==
  ASSUME IInv, [Next]_vars
  PROVE  SeenIsPast' /\ SessionsDoNotSend' /\ ListsAfterwards' /\ OpenSessionsAreRegistered'
<1>0. /\ TypeOK /\ SeenIsPast /\ SessionsDoNotSend /\ ListsAfterwards
      /\ OpenSessionsAreRegistered /\ Sessions \cap Subscribers = {}
  BY ClientsAssumption DEF IInv
<1> USE DEF SeenIsPast, SessionsDoNotSend, ListsAfterwards, OpenSessionsAreRegistered
<1>1. CASE (\E d \in Documents : Fetch(d)) \/ Swap \/ KeepQuiet
  BY <1>0, <1>1 DEF Fetch, Swap, KeepQuiet
<1>2. CASE Bump
  BY <1>0, <1>2 DEF TypeOK, Bump
<1>3. CASE Spawn
  BY <1>0, <1>3 DEF TypeOK, Spawn, Open
<1>4. CASE \E s \in Sessions : Register(s)
  BY <1>0, <1>4 DEF TypeOK, Clients, Register, Open
<1>5. CASE \E s \in Sessions : RunTask(s)
  BY <1>0, <1>5, Telling DEF TypeOK, Clients, RunTask
<1>6. CASE \E x \in Subscribers : Subscribe(x) \/ Wake(x)
  BY <1>0, <1>6 DEF TypeOK, Clients, Subscribe, Wake
<1>7. CASE \E x \in Subscribers : Send(x)
  BY <1>0, <1>7, Telling DEF TypeOK, Clients, Send
<1>8. CASE \E x \in Clients : Close(x)
  BY <1>0, <1>8 DEF TypeOK, Clients, Close
<1>9. CASE \E x \in Clients : Ask(x)
  BY <1>0, <1>9, Asking DEF TypeOK, Clients, Ask
<1>10. CASE \E x \in Clients : ListTools(x)
  BY <1>0, <1>10, Listed DEF TypeOK, Clients, ListTools
<1>11. CASE \E x \in Clients : Learn(x)
  BY <1>0, <1>11, Learning DEF TypeOK, Clients, Learn
<1>12. CASE UNCHANGED vars
  BY <1>0, <1>12 DEF vars
<1> QED
  BY <1>1, <1>2, <1>3, <1>4, <1>5, <1>6, <1>7, <1>8, <1>9, <1>10, <1>11, <1>12
     DEF Next, Reload

(* The news a client waits for passes from the loop to its channel and on  *)
(* to the client without a gap.                                            *)
LEMMA StepKeepsNobodyStale ==
  ASSUME IInv, [Next]_vars
  PROVE  NeverSilentlyStale'
<1>0. /\ TypeOK /\ SeenIsPast /\ SessionsDoNotSend /\ ListsAfterwards
      /\ OpenSessionsAreRegistered /\ NeverSilentlyStale /\ Sessions \cap Subscribers = {}
  BY ClientsAssumption DEF IInv
<1> SUFFICES ASSUME NEW x \in Clients, Up(x)', Latest(x)' # NoListing,
                    Latest(x)' # Listing[document]'
             PROVE  \/ client'[x].told \/ client'[x].wait = "request"
                    \/ OnItsWay(x)' \/ LoopWillTell(x)'
  BY DEF NeverSilentlyStale
<1> DEFINE Informed == \/ client[x].told \/ client[x].wait = "request"
                       \/ OnItsWay(x) \/ LoopWillTell(x)
<1>a. Up(x) /\ Latest(x) # NoListing /\ Latest(x) # Listing[document] => Informed
  BY <1>0 DEF NeverSilentlyStale
<1>b. client' = client => Latest(x)' = Latest(x)
  BY DEF Latest
<1>c. channel[x] = "none" => Latest(x) = NoListing
  BY <1>0 DEF ListsAfterwards, Latest
<1> USE DEF Up, OnItsWay, LoopWillTell, Loop
<1>1. CASE (\E d \in Documents : Fetch(d)) \/ KeepQuiet
  BY <1>1, <1>a, <1>b DEF Fetch, KeepQuiet, Changed
<1>2. CASE Swap
  BY <1>2, <1>a, <1>b DEF Swap
<1>3. CASE Bump
  BY <1>0, <1>3, <1>a, <1>b DEF Bump, TypeOK, SeenIsPast, Clients
<1>4. CASE Spawn
  BY <1>0, <1>4, <1>a, <1>b DEF Spawn, TypeOK, Open, SessionsDoNotSend,
                                OpenSessionsAreRegistered
<1>5. CASE \E s \in Sessions : Register(s)
  BY <1>0, <1>5, <1>a, <1>b, <1>c DEF Register, TypeOK, Clients
<1>6. ASSUME NEW s \in Sessions, RunTask(s)
      PROVE  \/ client'[x].told \/ client'[x].wait = "request"
             \/ OnItsWay(x)' \/ LoopWillTell(x)'
  <2>1. tasks' = [tasks EXCEPT ![s] = @ - 1] /\ channel' = channel /\ tasks \in [Sessions -> Nat]
    BY <1>0, <1>6 DEF RunTask, TypeOK
  <2>2. CASE channel[s] = "up" /\ x = s
    BY <1>0, <1>6, <2>2, Telling DEF RunTask
  <2>3. CASE channel[s] = "up" /\ x # s
    <3>1. client'[x] = client[x] /\ Latest(x)' = Latest(x)
      BY <1>0, <1>6, <2>3, Telling DEF RunTask, Clients, Latest
    <3> QED
      BY <1>6, <1>a, <2>1, <2>3, <3>1 DEF RunTask
  <2>4. CASE channel[s] # "up"
    <3>1. x # s
      BY <1>0, <2>1, <2>4 DEF SessionsDoNotSend
    <3> QED
      BY <1>6, <1>a, <1>b, <2>1, <2>4, <3>1 DEF RunTask
  <2> QED
    BY <2>2, <2>3, <2>4
<1>7. CASE \E y \in Subscribers : Subscribe(y) \/ Wake(y)
  BY <1>0, <1>7, <1>a, <1>b, <1>c DEF Subscribe, Wake, TypeOK, Clients
<1>8. ASSUME NEW y \in Subscribers, Send(y)
      PROVE  \/ client'[x].told \/ client'[x].wait = "request"
             \/ OnItsWay(x)' \/ LoopWillTell(x)'
  <2>1. CASE x = y
    BY <1>0, <1>8, <2>1, Telling DEF Send
  <2>2. CASE x # y
    <3>1. client'[x] = client[x] /\ Latest(x)' = Latest(x)
      BY <1>0, <1>8, <2>2, Telling DEF Send, Clients, Latest
    <3> QED
      BY <1>0, <1>8, <1>a, <2>2, <3>1 DEF Send, TypeOK, Clients
  <2> QED
    BY <2>1, <2>2
<1>9. CASE \E y \in Clients : Close(y)
  BY <1>0, <1>9, <1>a, <1>b DEF Close, TypeOK, Clients
<1>10. ASSUME NEW y \in Clients, Ask(y) \/ ListTools(y) \/ Learn(y)
       PROVE  \/ client'[x].told \/ client'[x].wait = "request"
              \/ OnItsWay(x)' \/ LoopWillTell(x)'
  <2>1. UNCHANGED <<document, loop, generation, channel, seen, tasks>>
    BY <1>10 DEF Ask, ListTools, Learn
  <2>2. CASE x # y
    <3>1. client'[x] = client[x] /\ Latest(x)' = Latest(x)
      BY <1>0, <1>10, <2>2, Asking, Listed, Learning DEF Latest
    <3> QED
      BY <1>a, <2>1, <3>1
  <2>3. CASE x = y /\ Ask(y)
    BY <1>0, <2>3, Asking
  <2>4. CASE x = y /\ ListTools(y)
    BY <1>0, <2>1, <2>4, Listed
  <2>5. CASE x = y /\ Learn(y)
    <3>1. client[x].wait # "request" /\ Latest(x)' = Latest(x) /\ client'[x].told = client[x].told
      BY <1>0, <2>5, Learning
    <3> QED
      BY <1>a, <2>1, <3>1
  <2> QED
    BY <1>10, <2>2, <2>3, <2>4, <2>5
<1>11. CASE UNCHANGED vars
  BY <1>11, <1>a, <1>b DEF vars
<1> QED
  BY <1>1, <1>2, <1>3, <1>4, <1>5, <1>6, <1>7, <1>8, <1>9, <1>10, <1>11 DEF Next, Reload

LEMMA Always == Spec => []IInv
<1>1. IInv /\ [Next]_vars => IInv'
  BY StepKeepsTypes, StepKeepsBookkeeping, StepKeepsNobodyStale DEF IInv
<1> QED
  BY Initially, <1>1, PTL DEF Spec

-----------------------------------------------------------------------------------

(* No client that is connected and has listed holds an outdated listing    *)
(* without news on its way to it.                                          *)
THEOREM NobodyIsSilentlyStale == Spec => []NeverSilentlyStale
<1>1. IInv => NeverSilentlyStale
  BY DEF IInv
<1> QED
  BY Always, <1>1, PTL

(* No open session is dropped from those that are told. *)
THEOREM OpenSessionsStayRegistered == Spec => []OpenSessionsAreRegistered
<1>1. IInv => OpenSessionsAreRegistered
  BY DEF IInv
<1> QED
  BY Always, <1>1, PTL
===================================================================================
