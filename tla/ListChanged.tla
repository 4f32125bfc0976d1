------------------------------- MODULE ListChanged --------------------------------
(***************************************************************************)
(* The reload loop swaps the snapshot and tells clients that tools/list    *)
(* changed: sessions through registered peers, one spawned task per peer,  *)
(* and subscriptions through a watch channel they wait on. A client lists  *)
(* once its channel is in place and again whenever it is told. Requests,   *)
(* replies and notifications of one client overtake each other.            *)
(***************************************************************************)
EXTENDS Naturals, FiniteSets

CONSTANTS
  Sessions,      \* clients that opened a session with `initialize`
  Subscribers,   \* clients that hold a subscriptions/listen request
  Readers,       \* the clients that keep reading what is sent to them
  Documents,     \* the documents the source may serve
  Listing,       \* what each advertises, as [names, details] records
  NoListing,     \* a client that never listed
  NoDocument,    \* no document in the loop's hands
  MaxChanges     \* bound: how often the advertised tools may change

Clients == Sessions \cup Subscribers

Listings == {Listing[d] : d \in Documents}

ASSUME ClientsAssumption ==
  Sessions \cap Subscribers = {} /\ Readers \subseteq Clients
ASSUME DocumentsAssumption ==
  /\ Documents # {} /\ NoDocument \notin Documents
  /\ NoListing \notin Listings
  /\ MaxChanges \in Nat

VARIABLES
  document,      \* the current snapshot
  loop,          \* the reload loop: its place and the document it fetched or replaced
  generation,    \* the watch channel's version
  peers,         \* registered sessions
  tasks,         \* per session: spawned notification tasks that have not run
  channel,       \* per client: "none", "up", "sending" (a subscription only), "gone"
  seen,          \* per subscription: the version its receiver has seen
  client         \* per client: the listing it holds, what it waits for, whether it was told

vars == <<document, loop, generation, peers, tasks, channel, seen, client>>

Loop(at, doc) == [at |-> at, document |-> doc]

Init ==
  /\ document \in Documents
  /\ loop = Loop("ticking", NoDocument)
  /\ generation = 0
  /\ peers = {}
  /\ tasks = [s \in Sessions |-> 0]
  /\ channel = [x \in Clients |-> "none"]
  /\ seen = [x \in Subscribers |-> 0]
  /\ client = [x \in Clients |-> [held |-> NoListing, wait |-> "nothing",
                             reply |-> NoListing, told |-> FALSE]]

-----------------------------------------------------------------------------------
(* The reload loop: one tick, one fetch, one swap, one notification.       *)

(* A mistake: only the tools' names are compared. *)
NamesChanged(before, after) == Listing[before].names # Listing[after].names

(* ~advertise_the_same *)
Changed(before, after) == Listing[before] # Listing[after]

(* The fetch may fail or the document be unusable: the current set stays.  *)
Fetch(d) ==
  /\ loop.at = "ticking"
  /\ Listing[d] # Listing[document] => generation < MaxChanges
  /\ loop' = Loop("fetched", d)
  /\ UNCHANGED <<document, generation, peers, tasks, channel, seen, client>>

(* reload: the snapshot is swapped before anybody is told. *)
Swap ==
  /\ loop.at = "fetched"
  /\ document' = loop.document
  /\ loop' = Loop("swapped", document)
  /\ UNCHANGED <<generation, peers, tasks, channel, seen, client>>

KeepQuiet ==
  /\ loop.at = "swapped"
  /\ ~Changed(loop.document, document)
  /\ loop' = Loop("ticking", NoDocument)
  /\ UNCHANGED <<document, generation, peers, tasks, channel, seen, client>>

(* notify, first half: the subscriptions' version moves. *)
Bump ==
  /\ loop.at = "swapped"
  /\ Changed(loop.document, document)
  /\ generation' = generation + 1
  /\ loop' = Loop("bumped", loop.document)
  /\ UNCHANGED <<document, peers, tasks, channel, seen, client>>

(* A mistake: `retain` is given the condition the wrong way round. *)
Closed(S) == {s \in S : channel[s] = "gone"}

Open(S) == {s \in S : channel[s] = "up"}

(* A mistake: the loop delivers the notifications itself. *)
SpawnInTurn ==
  /\ loop.at = "bumped"
  /\ \A s \in Sessions : tasks[s] = 0
  /\ peers' = Open(peers)
  /\ tasks' = [s \in Sessions |-> IF s \in Open(peers) THEN 1 ELSE 0]
  /\ loop' = Loop("ticking", NoDocument)
  /\ UNCHANGED <<document, generation, channel, seen, client>>

(* notify, second half, under the peers lock: closed sessions are forgotten*)
(* and each open one gets a task of its own.                               *)
Spawn ==
  /\ loop.at = "bumped"
  /\ peers' = Open(peers)
  /\ tasks' = [s \in Sessions |-> IF s \in Open(peers) THEN tasks[s] + 1 ELSE tasks[s]]
  /\ loop' = Loop("ticking", NoDocument)
  /\ UNCHANGED <<document, generation, channel, seen, client>>

-----------------------------------------------------------------------------------
(* Channels.                                                               *)

(* on_initialized: closed sessions are forgotten, this one is remembered.  *)
Register(s) ==
  /\ channel[s] = "none"
  /\ channel' = [channel EXCEPT ![s] = "up"]
  /\ peers' = Open(peers) \cup {s}
  /\ UNCHANGED <<document, loop, generation, tasks, seen, client>>

(* listen: the new receiver has seen the version current now. *)
Subscribe(x) ==
  /\ channel[x] = "none"
  /\ channel' = [channel EXCEPT ![x] = "up"]
  /\ seen' = [seen EXCEPT ![x] = generation]
  /\ UNCHANGED <<document, loop, generation, peers, tasks, client>>

(* changed() returns, having marked the version it saw; the notification   *)
(* goes out next.                                                          *)
Wake(x) ==
  /\ channel[x] = "up"
  /\ seen[x] # generation
  /\ seen' = [seen EXCEPT ![x] = generation]
  /\ channel' = [channel EXCEPT ![x] = "sending"]
  /\ UNCHANGED <<document, loop, generation, peers, tasks, client>>

Tell(x) == client' = [client EXCEPT ![x].told = TRUE]

Send(x) ==
  /\ channel[x] = "sending"
  /\ channel' = [channel EXCEPT ![x] = "up"]
  /\ Tell(x)
  /\ UNCHANGED <<document, loop, generation, peers, tasks, seen>>

(* One spawned task: delivered if the transport is still open. *)
RunTask(s) ==
  /\ tasks[s] > 0
  /\ tasks' = [tasks EXCEPT ![s] = @ - 1]
  /\ IF channel[s] = "up" THEN Tell(s) ELSE UNCHANGED client
  /\ UNCHANGED <<document, loop, generation, peers, channel, seen>>

(* The client leaves, or its subscription is cancelled or cannot be written to. *)
Close(x) ==
  /\ channel[x] \in {"up", "sending"}
  /\ channel' = [channel EXCEPT ![x] = "gone"]
  /\ UNCHANGED <<document, loop, generation, peers, tasks, seen, client>>

-----------------------------------------------------------------------------------
(* A client that lists when its channel is in place and whenever it is told.*)

Ask(x) ==
  /\ channel[x] \in {"up", "sending"}
  /\ client[x].wait = "nothing"
  /\ client[x].told \/ client[x].held = NoListing
  /\ client' = [client EXCEPT ![x].wait = "request", ![x].told = FALSE]
  /\ UNCHANGED <<document, loop, generation, peers, tasks, channel, seen>>

(* list_tools reads the current snapshot. *)
ListTools(x) ==
  /\ client[x].wait = "request"
  /\ client' = [client EXCEPT ![x].wait = "reply", ![x].reply = Listing[document]]
  /\ UNCHANGED <<document, loop, generation, peers, tasks, channel, seen>>

Learn(x) ==
  /\ client[x].wait = "reply"
  /\ client' = [client EXCEPT ![x].held = client[x].reply, ![x].wait = "nothing"]
  /\ UNCHANGED <<document, loop, generation, peers, tasks, channel, seen>>

Reload == Swap \/ KeepQuiet \/ Bump \/ Spawn

Next ==
  \/ \E d \in Documents : Fetch(d)
  \/ Reload
  \/ \E s \in Sessions : Register(s) \/ RunTask(s)
  \/ \E x \in Subscribers : Subscribe(x) \/ Wake(x) \/ Send(x)
  \/ \E x \in Clients : Close(x) \/ Ask(x) \/ ListTools(x) \/ Learn(x)

Spec == Init /\ [][Next]_vars

(* Ready tasks are polled; sending to a client ends if it reads, and one   *)
(* that reads acts on what it is told. Nothing obliges the source to serve *)
(* a document again.                                                       *)
FairSpec ==
  /\ Spec
  /\ WF_vars(Reload)
  /\ \A s \in Sessions \cap Readers : WF_vars(RunTask(s))
  /\ \A x \in Subscribers \cap Readers : WF_vars(Wake(x) \/ Send(x))
  /\ \A x \in Readers : WF_vars(Ask(x) \/ ListTools(x) \/ Learn(x))

-----------------------------------------------------------------------------------
(* Properties.                                                             *)

ClientState ==
  [held : Listings \cup {NoListing}, wait : {"nothing", "request", "reply"},
   reply : Listings \cup {NoListing}, told : BOOLEAN]

TypeOK ==
  /\ document \in Documents
  /\ loop \in [at : {"ticking", "fetched", "swapped", "bumped"},
               document : Documents \cup {NoDocument}]
  /\ loop.at # "ticking" => loop.document \in Documents
  /\ generation \in Nat
  /\ peers \subseteq Sessions
  /\ tasks \in [Sessions -> Nat]
  /\ channel \in [Clients -> {"none", "up", "sending", "gone"}]
  /\ seen \in [Subscribers -> Nat]
  /\ client \in [Clients -> ClientState]
  /\ \A x \in Clients : client[x].wait = "reply" => client[x].reply \in Listings

Up(x) == channel[x] \in {"up", "sending"}

(* The listing a client holds once the reply it waits for is in. *)
Latest(x) == IF client[x].wait = "reply" THEN client[x].reply ELSE client[x].held

(* The loop is about to tell of the change it made. *)
LoopWillTell(x) ==
  \/ loop.at = "swapped" /\ Listing[loop.document] # Listing[document]
  \/ loop.at = "bumped" /\ x \in Sessions

OnItsWay(x) ==
  IF x \in Sessions THEN tasks[x] > 0 ELSE channel[x] = "sending" \/ seen[x] # generation

(* "Connected clients are told when the advertised tools differ": a client *)
(* that listed over a live channel and holds an outdated listing has been  *)
(* told, is asking again, or a notification is on its way to it.           *)
NeverSilentlyStale ==
  \A x \in Clients :
    (Up(x) /\ Latest(x) # NoListing /\ Latest(x) # Listing[document])
      => client[x].told \/ client[x].wait = "request" \/ OnItsWay(x) \/ LoopWillTell(x)

(* Clearing closed sessions out of the list of peers, in two places, never *)
(* takes an open one with it, which would be told of nothing any more.     *)
OpenSessionsAreRegistered ==
  \A s \in Sessions : channel[s] = "up" => s \in peers

(* Every client that stays connected and reads ends up with the listing    *)
(* that is current, whatever the others do.                                *)
ClientsCatchUp ==
  \A x \in Readers :
    (Up(x) /\ client[x].held # NoListing)
      ~> (client[x].held = Listing[document] \/ ~Up(x))

(* The loop gets back to its ticker whatever the clients do: a client that *)
(* never reads holds up neither the reload nor the others.                 *)
ReloadNeverWaits == loop.at = "fetched" ~> loop.at = "ticking"
===================================================================================
