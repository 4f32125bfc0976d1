------------------------------- MODULE SseTransport -------------------------------
(***************************************************************************)
(* The legacy SSE transport: GET /sse opens a stream, a session in the     *)
(* table and an MCP service; POST /messages looks the session up and puts  *)
(* its message in the service's bounded inbox; the stream's end takes the  *)
(* session out of the table, which closes the inbox once no POST holds it. *)
(***************************************************************************)
EXTENDS Naturals, Sequences, FiniteSets, Functions

CONSTANTS
  Posts,        \* POST requests, each made once
  InBuffer,     \* capacity of the inbox beyond one slot per sender
  OutBuffer,    \* the same of the outbox, which has one sender
  MaxSessions   \* bound: how many streams are opened

Ids == 1..MaxSessions

ASSUME BoundsAssumption ==
  InBuffer \in Nat /\ OutBuffer \in Nat /\ MaxSessions \in Nat

VARIABLES
  next_id,      \* the id of the next session
  sessions,     \* the table: ids whose sender it holds
  stream,       \* per id: "none", "open", "closed"
  service,      \* per id: "none", "serving", "replying", "ended"
  inbox,        \* per id: messages queued for the service
  parked,       \* per id: posts waiting for room, first come first served
  outbox,       \* per id: messages queued for the client
  taken,        \* history: messages a service took
  post,         \* per post: how far it is and the id it names
  server        \* "running", "draining", "exited"

vars == <<next_id, sessions, stream, service, inbox, parked, outbox, taken, post, server>>

Post(phase, id) == [phase |-> phase, id |-> id]

Init ==
  /\ next_id = 1
  /\ sessions = {}
  /\ stream = [i \in Ids |-> "none"]
  /\ service = [i \in Ids |-> "none"]
  /\ inbox = [i \in Ids |-> << >>]
  /\ parked = [i \in Ids |-> << >>]
  /\ outbox = [i \in Ids |-> 0]
  /\ taken = {}
  /\ post = [p \in Posts |-> Post("unmade", 0)]
  /\ server = "running"

-----------------------------------------------------------------------------------
(* The stream.                                                             *)

open_stream ==
  /\ server = "running"
  /\ next_id <= MaxSessions
  /\ next_id' = next_id + 1
  /\ sessions' = sessions \cup {next_id}
  /\ stream' = [stream EXCEPT ![next_id] = "open"]
  /\ service' = [service EXCEPT ![next_id] = "serving"]
  /\ UNCHANGED <<inbox, parked, outbox, taken, post, server>>

(* A mistake: dropping the stream leaves the session in the table. *)
DropLeaks(i) ==
  /\ stream[i] = "open"
  /\ stream' = [stream EXCEPT ![i] = "closed"]
  /\ outbox' = [outbox EXCEPT ![i] = 0]
  /\ UNCHANGED <<next_id, sessions, service, inbox, parked, taken, post, server>>

(* The stream is dropped, and with it the guard and the outbox's receiver. *)
Drop(i) ==
  /\ stream[i] = "open"
  /\ stream' = [stream EXCEPT ![i] = "closed"]
  /\ outbox' = [outbox EXCEPT ![i] = 0]
  /\ sessions' = sessions \ {i}
  /\ UNCHANGED <<next_id, service, inbox, parked, taken, post, server>>

Disconnect(i) == Drop(i)

(* The service is gone and its last message written: the stream ends.      *)
EndOfStream(i) == service[i] = "ended" /\ outbox[i] = 0 /\ Drop(i)

WriteEvent(i) ==
  /\ stream[i] = "open" /\ outbox[i] > 0
  /\ outbox' = [outbox EXCEPT ![i] = @ - 1]
  /\ UNCHANGED <<next_id, sessions, stream, service, inbox, parked, taken, post, server>>

-----------------------------------------------------------------------------------
(* post_message.                                                           *)

(* A client begins a POST; the extractor waits for its body, which nothing *)
(* makes the client finish.                                                *)
Arrive(p, i) ==
  /\ server = "running"
  /\ post[p].phase = "unmade"
  /\ post' = [post EXCEPT ![p] = Post("sending", i)]
  /\ UNCHANGED <<next_id, sessions, stream, service, inbox, parked, outbox, taken, server>>

Complete(p) ==
  /\ post[p].phase = "sending"
  /\ post' = [post EXCEPT ![p].phase = "arrived"]
  /\ UNCHANGED <<next_id, sessions, stream, service, inbox, parked, outbox, taken, server>>

(* The body is not a message, or the client breaks off: the handler is not *)
(* run, or dropped where it waits. What it queued stays, and its slot too. *)
Abandon(p) ==
  /\ post[p].phase \in {"sending", "parked"}
  /\ post' = [post EXCEPT ![p].phase = "gone"]
  /\ UNCHANGED <<next_id, sessions, stream, service, inbox, parked, outbox, taken, server>>

(* A mistake: the table stays locked until the message is delivered. *)
LookUpUnderLock(p) ==
  /\ post[p].phase = "arrived"
  /\ \A q \in Posts : post[q].phase \notin {"holding", "parked"}
  /\ post' = [post EXCEPT ![p].phase = 
       IF post[p].id \in sessions THEN "holding" ELSE "404"]
  /\ UNCHANGED <<next_id, sessions, stream, service, inbox, parked, outbox, taken, server>>

(* The sender is cloned under the lock, which is released again. *)
LookUp(p) ==
  /\ post[p].phase = "arrived"
  /\ post' = [post EXCEPT ![p].phase =
       IF post[p].id \in sessions THEN "holding" ELSE "404"]
  /\ UNCHANGED <<next_id, sessions, stream, service, inbox, parked, outbox, taken, server>>

(* A mistake: a full inbox drops the message. *)
DeliverOrDrop(p) ==
  LET i == post[p].id IN
  /\ post[p].phase = "holding"
  /\ inbox' = IF service[i] # "ended" /\ Len(inbox[i]) <= InBuffer
              THEN [inbox EXCEPT ![i] = Append(@, p)] ELSE inbox
  /\ post' = [post EXCEPT ![p].phase = IF service[i] = "ended" THEN "410" ELSE "202"]
  /\ UNCHANGED <<next_id, sessions, stream, service, parked, outbox, taken, server>>

(* A fresh sender always has a slot; beyond the buffer it then waits.      *)
Deliver(p) ==
  LET i == post[p].id IN
  /\ post[p].phase = "holding"
  /\ IF service[i] = "ended"
     THEN /\ post' = [post EXCEPT ![p].phase = "410"]
          /\ UNCHANGED <<inbox, parked>>
     ELSE /\ inbox' = [inbox EXCEPT ![i] = Append(@, p)]
          /\ IF Len(inbox[i]) < InBuffer
             THEN post' = [post EXCEPT ![p].phase = "202"] /\ UNCHANGED parked
             ELSE /\ post' = [post EXCEPT ![p].phase = "parked"]
                  /\ parked' = [parked EXCEPT ![i] = Append(@, p)]
  /\ UNCHANGED <<next_id, sessions, stream, service, outbox, taken, server>>

(* Room was made, or the receiver is gone: either counts as sent.          *)
Flushed(p) ==
  LET i == post[p].id IN
  /\ post[p].phase = "parked"
  /\ service[i] = "ended" \/ \A n \in DOMAIN parked[i] : parked[i][n] # p
  /\ post' = [post EXCEPT ![p].phase = "202"]
  /\ UNCHANGED <<next_id, sessions, stream, service, inbox, parked, outbox, taken, server>>

-----------------------------------------------------------------------------------
(* The MCP service.                                                        *)

Take(i) ==
  /\ service[i] = "serving"
  /\ inbox[i] # << >>
  /\ inbox' = [inbox EXCEPT ![i] = Tail(@)]
  /\ parked' = [parked EXCEPT ![i] = IF @ = << >> THEN @ ELSE Tail(@)]
  /\ taken' = taken \cup {Head(inbox[i])}
  /\ \E after \in {"serving", "replying"} : service' = [service EXCEPT ![i] = after]
  /\ UNCHANGED <<next_id, sessions, stream, outbox, post, server>>

(* The service has something to say of its own: the tool list has changed. *)
(* (Said to a stream that is closed it would be dropped.)                  *)
Speak(i) ==
  /\ service[i] = "serving" /\ stream[i] = "open"
  /\ service' = [service EXCEPT ![i] = "replying"]
  /\ UNCHANGED <<next_id, sessions, stream, inbox, parked, outbox, taken, post, server>>

(* A mistake: a reply waits for a client that is gone. *)
ReplyToTheEnd(i) ==
  /\ service[i] = "replying"
  /\ stream[i] = "open" /\ outbox[i] <= OutBuffer
  /\ outbox' = [outbox EXCEPT ![i] = @ + 1]
  /\ service' = [service EXCEPT ![i] = "serving"]
  /\ UNCHANGED <<next_id, sessions, stream, inbox, parked, taken, post, server>>

(* A reply waits for room in the outbox; without a stream it is dropped.   *)
Reply(i) ==
  /\ service[i] = "replying"
  /\ \/ stream[i] = "open" /\ outbox[i] <= OutBuffer
        /\ outbox' = [outbox EXCEPT ![i] = @ + 1]
     \/ stream[i] = "closed" /\ UNCHANGED outbox
  /\ service' = [service EXCEPT ![i] = "serving"]
  /\ UNCHANGED <<next_id, sessions, stream, inbox, parked, taken, post, server>>

End(i) ==
  /\ service' = [service EXCEPT ![i] = "ended"]
  /\ inbox' = [inbox EXCEPT ![i] = << >>]
  /\ UNCHANGED <<next_id, sessions, stream, parked, outbox, taken, post, server>>

(* No sender is left and the inbox is empty. *)
InputClosed(i) ==
  /\ service[i] = "serving" /\ inbox[i] = << >>
  /\ i \notin sessions
  /\ \A p \in Posts : post[p].id = i => post[p].phase \notin {"holding", "parked"}
  /\ End(i)

(* The handshake fails, or the service gives up for reasons of its own.    *)
Fail(i) == service[i] \in {"serving", "replying"} /\ End(i)

-----------------------------------------------------------------------------------
(* Shutdown.                                                               *)

Signal ==
  /\ server = "running"
  /\ server' = "draining"
  /\ UNCHANGED <<next_id, sessions, stream, service, inbox, parked, outbox, taken, post>>

InProgress == {"sending", "arrived", "holding", "parked"}

(* Graceful: every response, an event stream being one, is finished first. *)
Exit ==
  /\ server = "draining"
  /\ \A i \in Ids : stream[i] # "open"
  /\ \A p \in Posts : post[p].phase \notin InProgress
  /\ server' = "exited"
  /\ UNCHANGED <<next_id, sessions, stream, service, inbox, parked, outbox, taken, post>>

Next ==
  \/ open_stream \/ Signal \/ Exit
  \/ \E i \in Ids :
       \/ Disconnect(i) \/ EndOfStream(i) \/ WriteEvent(i)
       \/ Take(i) \/ Speak(i) \/ Reply(i) \/ InputClosed(i) \/ Fail(i)
  \/ \E p \in Posts :
       \/ \E i \in Ids : Arrive(p, i)
       \/ Complete(p) \/ Abandon(p) \/ LookUp(p) \/ Deliver(p) \/ Flushed(p)

Spec == Init /\ [][Next]_vars

(* Every task that can go on is polled; clients need not read, leave or     *)
(* finish what they send.                                                  *)
FairSpec ==
  /\ Spec
  /\ WF_vars(Exit)
  /\ \A i \in Ids : WF_vars(EndOfStream(i)) /\ WF_vars(Take(i) \/ Reply(i) \/ InputClosed(i))
  /\ \A p \in Posts : WF_vars(LookUp(p) \/ Deliver(p) \/ Flushed(p))

-----------------------------------------------------------------------------------
(* Properties.                                                             *)

PostType == [phase : {"unmade", "gone", "202", "404", "410"} \cup InProgress, id : Ids \cup {0}]

(* Sessions are in the table exactly while their stream is open, and a POST*)
(* that was made names a session.                                          *)
TypeOK ==
  /\ next_id \in 1..(MaxSessions + 1)
  /\ sessions = {i \in Ids : stream[i] = "open"}
  /\ stream \in [Ids -> {"none", "open", "closed"}]
  /\ service \in [Ids -> {"none", "serving", "replying", "ended"}]
  /\ inbox \in [Ids -> Seq(Posts)] /\ parked \in [Ids -> Seq(Posts)]
  /\ outbox \in [Ids -> 0..(OutBuffer + 1)]
  /\ post \in [Posts -> PostType]
  /\ \A p \in Posts : post[p].phase # "unmade" => post[p].id \in Ids
  /\ taken \subseteq Posts
  /\ server \in {"running", "draining", "exited"}

(* A message answered with 202 is with the service or on its way to it,    *)
(* unless the service has ended: a full inbox delays, it never loses.      *)
AcceptedIsNotLost ==
  \A p \in Posts : post[p].phase = "202" =>
    \/ p \in taken
    \/ p \in Range(inbox[post[p].id])
    \/ service[post[p].id] = "ended"

(* The end of a stream ends everything of its session: the service stops   *)
(* and no POST waits for it any longer.                                    *)
DisconnectCleansUp ==
  \A i \in Ids :
    stream[i] = "closed" ~>
      /\ service[i] = "ended"
      /\ \A p \in Posts : post[p].id = i => post[p].phase \notin {"holding", "parked"}

(* A client that does not read its stream fills its own inbox and holds up *)
(* its own POSTs; every other POST whose body is there gets its look-up.   *)
LookUpsNeverWait == \A p \in Posts : post[p].phase = "arrived" ~> post[p].phase # "arrived"

(* A server told to stop does so unless a client keeps it: with a stream it*)
(* leaves open or a request it began and neither finishes nor breaks off.  *)
(* No POST that waits for room and no service can hold it up.              *)
OnlyClientsHoldUpShutdown ==
  server = "draining" ~>
    \/ server = "exited"
    \/ \E i \in Ids : stream[i] = "open"
    \/ \E p \in Posts : post[p].phase = "sending"

===================================================================================
