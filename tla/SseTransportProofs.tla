---------------------------- MODULE SseTransportProofs ----------------------------
(***************************************************************************)
(* What becomes of a message the SSE transport accepts, for any number of  *)
(* POSTs and sessions and buffers of any size.                             *)
(***************************************************************************)
EXTENDS SseTransport, SequenceTheorems, TLAPS

(* A session that was not opened has no service to end.                    *)
NotYetServed == \A i \in Ids : i >= next_id => service[i] = "none"

OnItsWay(p) ==
  p \in taken \/ p \in Range(inbox[post[p].id]) \/ service[post[p].id] = "ended"

(* A POST that waits for room has its message in the inbox already.        *)
KeptFromTheStart == \A p \in Posts : post[p].phase \in {"parked", "202"} => OnItsWay(p)

IInv == TypeOK /\ NotYetServed /\ KeptFromTheStart

-----------------------------------------------------------------------------------
(* Queues.                                                                 *)

LEMMA RangeAppended ==
  ASSUME NEW S, NEW s \in Seq(S), NEW e \in S
  PROVE  Append(s, e) \in Seq(S) /\ Range(Append(s, e)) = Range(s) \cup {e}
<1>1. Append(s, e) \in Seq(S) /\ Len(Append(s, e)) = Len(s) + 1
  OBVIOUS
<1>2. \A n \in 1..Len(s) : Append(s, e)[n] = s[n]
  OBVIOUS
<1>3. Append(s, e)[Len(s) + 1] = e
  OBVIOUS
<1>4. DOMAIN s = 1..Len(s) /\ DOMAIN Append(s, e) = 1..(Len(s) + 1) /\ Len(s) \in Nat
  OBVIOUS
<1> QED
  BY <1>1, <1>2, <1>3, <1>4 DEF Range

LEMMA RangeOfTail ==
  ASSUME NEW S, NEW s \in Seq(S), s # << >>
  PROVE  Tail(s) \in Seq(S) /\ Head(s) \in S /\ Range(s) \subseteq {Head(s)} \cup Range(Tail(s))
<1>1. Tail(s) \in Seq(S) /\ Head(s) = s[1] /\ Head(s) \in S
  BY HeadTailProperties, ElementOfSeq
<1>2. Len(Tail(s)) = Len(s) - 1 /\ \A n \in 1..(Len(s) - 1) : Tail(s)[n] = s[n + 1]
  BY HeadTailProperties
<1>3. DOMAIN s = 1..Len(s) /\ DOMAIN Tail(s) = 1..(Len(s) - 1) /\ Len(s) \in Nat
  BY <1>1, <1>2
<1>4. ASSUME NEW n \in 1..Len(s) PROVE s[n] \in {Head(s)} \cup Range(Tail(s))
  <2>1. CASE n = 1
    BY <1>1, <2>1
  <2>2. CASE n # 1
    <3>1. n - 1 \in 1..(Len(s) - 1) /\ s[n] = Tail(s)[n - 1]
      BY <1>2, <1>3, <2>2
    <3> QED
      BY <1>3, <3>1 DEF Range
  <2> QED
    BY <2>1, <2>2
<1> QED
  BY <1>1, <1>3, <1>4 DEF Range

-----------------------------------------------------------------------------------

LEMMA Initially == Init => IInv
  BY BoundsAssumption DEF Init, IInv, TypeOK, NotYetServed, KeptFromTheStart, Ids, Post, PostType

LEMMA StepKeepsTypes ==
  ASSUME TypeOK, [Next]_vars
  PROVE  TypeOK'
<1>0. TypeOK /\ InBuffer \in Nat /\ OutBuffer \in Nat /\ MaxSessions \in Nat
  BY BoundsAssumption
<1>1. CASE open_stream
  BY <1>0, <1>1 DEF TypeOK, open_stream, Ids
<1>2. CASE \E i \in Ids : Drop(i)
  BY <1>0, <1>2 DEF TypeOK, Drop
<1>3. CASE \E i \in Ids : WriteEvent(i)
  BY <1>0, <1>3 DEF TypeOK, WriteEvent
<1>4. ASSUME NEW i \in Ids, Take(i)
      PROVE  TypeOK'
  <2>1. Tail(inbox[i]) \in Seq(Posts) /\ Head(inbox[i]) \in Posts
    BY <1>0, <1>4, RangeOfTail DEF TypeOK, Take
  <2>2. parked[i] # << >> => Tail(parked[i]) \in Seq(Posts)
    BY <1>0, RangeOfTail DEF TypeOK
  <2> QED
    BY <1>0, <1>4, <2>1, <2>2 DEF TypeOK, Take
<1>5. CASE \E i \in Ids : Reply(i)
  <2>1. PICK i \in Ids : Reply(i)
    BY <1>5
  <2>2. outbox' \in [Ids -> 0..(OutBuffer + 1)]
    BY <1>0, <2>1 DEF TypeOK, Reply
  <2> QED
    BY <1>0, <2>1, <2>2 DEF TypeOK, Reply
<1>6. CASE \E i \in Ids : End(i)
  BY <1>0, <1>6 DEF TypeOK, End
<1>7. CASE Signal \/ Exit
  BY <1>0, <1>7 DEF TypeOK, Signal, Exit
<1>8. ASSUME NEW p \in Posts, NEW i \in Ids, Arrive(p, i)
      PROVE  TypeOK'
  BY <1>0, <1>8 DEF TypeOK, Arrive, Post, PostType, InProgress
<1>9. ASSUME NEW p \in Posts, LookUp(p)
      PROVE  TypeOK'
  BY <1>0, <1>9 DEF TypeOK, LookUp, PostType, InProgress
<1>10. ASSUME NEW p \in Posts, Deliver(p)
       PROVE  TypeOK'
  <2>1. post[p].id \in Ids
    BY <1>0, <1>10 DEF TypeOK, Deliver
  <2>2. Append(inbox[post[p].id], p) \in Seq(Posts) /\ Append(parked[post[p].id], p) \in Seq(Posts)
    BY <1>0, <2>1, RangeAppended DEF TypeOK
  <2>3. inbox' \in [Ids -> Seq(Posts)] /\ parked' \in [Ids -> Seq(Posts)]
    <3>1. inbox' = inbox \/ inbox' = [inbox EXCEPT ![post[p].id] = Append(@, p)]
      BY <1>10 DEF Deliver
    <3>2. parked' = parked \/ parked' = [parked EXCEPT ![post[p].id] = Append(@, p)]
      BY <1>10 DEF Deliver
    <3>3. inbox \in [Ids -> Seq(Posts)] /\ parked \in [Ids -> Seq(Posts)]
      BY <1>0 DEF TypeOK
    <3>4. inbox' \in [Ids -> Seq(Posts)]
      BY <2>1, <2>2, <3>1, <3>3
    <3>5. parked' \in [Ids -> Seq(Posts)]
      BY <2>1, <2>2, <3>2, <3>3
    <3> QED
      BY <3>4, <3>5
  <2>4. post' \in [Posts -> PostType] /\ \A q \in Posts : post'[q].id = post[q].id
                                            /\ (post[q].phase = "unmade" => post'[q].phase = "unmade")
    <3>1. PICK phase \in {"410", "202", "parked"} : post' = [post EXCEPT ![p].phase = phase]
      BY <1>10 DEF Deliver
    <3>2. post[p].phase = "holding"
      BY <1>10 DEF Deliver
    <3> QED
      BY <1>0, <3>1, <3>2 DEF TypeOK, PostType, InProgress
  <2> QED
    BY <1>0, <1>10, <2>3, <2>4 DEF TypeOK, Deliver
<1>11. ASSUME NEW p \in Posts, Flushed(p)
       PROVE  TypeOK'
  <2>1. post[p].phase = "parked" /\ post' = [post EXCEPT ![p].phase = "202"]
    BY <1>11 DEF Flushed
  <2>2. post' \in [Posts -> PostType]
    <3>1. post \in [Posts -> PostType] /\ post[p] \in PostType
      BY <1>0 DEF TypeOK
    <3>2. [post[p] EXCEPT !.phase = "202"] \in PostType
      BY <3>1 DEF PostType
    <3>3. post' = [post EXCEPT ![p] = [post[p] EXCEPT !.phase = "202"]]
      BY <2>1, <3>1
    <3> QED
      BY <3>1, <3>2, <3>3
  <2>3. \A q \in Posts : post'[q].id = post[q].id
                         /\ (post[q].phase = "unmade" => post'[q].phase = "unmade")
    BY <1>0, <2>1 DEF TypeOK, PostType, InProgress
  <2> QED
    BY <1>0, <1>11, <2>2, <2>3 DEF TypeOK, Flushed
<1>12. CASE UNCHANGED vars
  BY <1>0, <1>12 DEF TypeOK, vars
<1>13. CASE \E i \in Ids : Speak(i)
  BY <1>0, <1>13 DEF TypeOK, Speak
<1>14. ASSUME NEW p \in Posts, Complete(p) \/ Abandon(p)
       PROVE  TypeOK'
  <2>1. PICK phase \in {"arrived", "gone"} : post' = [post EXCEPT ![p].phase = phase]
    BY <1>14 DEF Complete, Abandon
  <2>2. post[p].phase \in {"sending", "parked"}
    BY <1>14 DEF Complete, Abandon
  <2> QED
    BY <1>0, <1>14, <2>1, <2>2 DEF TypeOK, Complete, Abandon, PostType, InProgress
<1> QED
  BY <1>1, <1>2, <1>3, <1>4, <1>5, <1>6, <1>7, <1>8, <1>9, <1>10, <1>11, <1>12, <1>13, <1>14
     DEF Next, Disconnect, EndOfStream, InputClosed, Fail

LEMMA StepKeepsMessages ==
  ASSUME IInv, [Next]_vars
  PROVE  NotYetServed' /\ KeptFromTheStart'
<1>0. TypeOK /\ NotYetServed /\ KeptFromTheStart /\ MaxSessions \in Nat
  BY BoundsAssumption DEF IInv
<1> USE DEF NotYetServed, KeptFromTheStart, OnItsWay
<1>1. CASE open_stream
  <2>1. next_id \in Ids /\ service[next_id] = "none"
    BY <1>0, <1>1 DEF TypeOK, open_stream, Ids
  <2> QED
    BY <1>0, <1>1, <2>1 DEF TypeOK, open_stream, Ids
<1>2. CASE \E i \in Ids : Drop(i)
  BY <1>0, <1>2 DEF TypeOK, Drop
<1>3. CASE \E i \in Ids : WriteEvent(i)
  BY <1>0, <1>3 DEF TypeOK, WriteEvent
<1>4. ASSUME NEW i \in Ids, Take(i)
      PROVE  NotYetServed' /\ KeptFromTheStart'
  <2>1. NotYetServed'
    BY <1>0, <1>4 DEF TypeOK, Take
  <2>2. Range(inbox[i]) \subseteq {Head(inbox[i])} \cup Range(Tail(inbox[i]))
    BY <1>0, <1>4, RangeOfTail DEF TypeOK, Take
  <2>3. \A j \in Ids : Range(inbox[j]) \subseteq taken' \cup Range(inbox'[j])
    BY <1>0, <1>4, <2>2 DEF TypeOK, Take
  <2>4. taken \subseteq taken' /\ UNCHANGED post
        /\ \A j \in Ids : service[j] = "ended" => service'[j] = "ended"
    BY <1>0, <1>4 DEF TypeOK, Take
  <2> QED
    BY <1>0, <2>1, <2>3, <2>4 DEF TypeOK
<1>5. CASE \E i \in Ids : Reply(i)
  BY <1>0, <1>5 DEF TypeOK, Reply
<1>6. ASSUME NEW i \in Ids, End(i), service[i] # "none"
      PROVE  NotYetServed' /\ KeptFromTheStart'
  <2>1. NotYetServed'
    BY <1>0, <1>6 DEF TypeOK, End
  <2>2. UNCHANGED <<taken, post>> /\ service'[i] = "ended"
        /\ \A j \in Ids \ {i} : service'[j] = service[j] /\ inbox'[j] = inbox[j]
    BY <1>0, <1>6 DEF TypeOK, End
  <2> QED
    BY <1>0, <2>1, <2>2 DEF TypeOK
<1>7. CASE Signal \/ Exit
  BY <1>0, <1>7 DEF TypeOK, Signal, Exit
<1>8. ASSUME NEW p \in Posts, NEW i \in Ids, Arrive(p, i)
      PROVE  NotYetServed' /\ KeptFromTheStart'
  BY <1>0, <1>8 DEF TypeOK, Arrive, Post
<1>9. ASSUME NEW p \in Posts, LookUp(p)
      PROVE  NotYetServed' /\ KeptFromTheStart'
  <2>1. \A q \in Posts : post'[q].phase \in {"parked", "202"} => post'[q] = post[q]
    BY <1>0, <1>9 DEF TypeOK, LookUp, PostType
  <2> QED
    BY <1>0, <1>9, <2>1 DEF TypeOK, LookUp
<1>10. ASSUME NEW p \in Posts, Deliver(p)
       PROVE  NotYetServed' /\ KeptFromTheStart'
  <2> DEFINE i == post[p].id
  <2>1. i \in Ids /\ UNCHANGED <<next_id, service, taken>>
    BY <1>0, <1>10 DEF TypeOK, Deliver
  <2>2. post'[p].id = i /\ \A q \in Posts \ {p} : post'[q] = post[q]
    BY <1>0, <1>10 DEF TypeOK, Deliver, PostType
  <2>3. CASE service[i] = "ended"
    BY <1>0, <1>10, <2>1, <2>2, <2>3 DEF TypeOK, Deliver
  <2>4. CASE service[i] # "ended"
    <3>1. Range(inbox'[i]) = Range(inbox[i]) \cup {p} /\ \A j \in Ids \ {i} : inbox'[j] = inbox[j]
      <4>1. inbox' = [inbox EXCEPT ![i] = Append(@, p)]
        BY <1>10, <2>4 DEF Deliver
      <4>2. inbox \in [Ids -> Seq(Posts)]
        BY <1>0 DEF TypeOK
      <4>3. Range(Append(inbox[i], p)) = Range(inbox[i]) \cup {p}
        BY <2>1, <4>2, RangeAppended
      <4> QED
        BY <2>1, <4>1, <4>2, <4>3
    <3>2. OnItsWay(p)'
      BY <2>2, <3>1
    <3>3. ASSUME NEW q \in Posts \ {p}, OnItsWay(q), post[q].id \in Ids PROVE OnItsWay(q)'
      BY <2>1, <2>2, <3>1, <3>3
    <3>4. ASSUME NEW q \in Posts \ {p}, post'[q].phase \in {"parked", "202"}
          PROVE  OnItsWay(q)'
      <4>1. post[q].phase \in {"parked", "202"} /\ OnItsWay(q)
        BY <1>0, <2>2, <3>4
      <4>2. post[q].id \in Ids
        BY <1>0, <4>1 DEF TypeOK
      <4> QED
        BY <3>3, <4>1, <4>2
    <3>5. KeptFromTheStart'
      BY <3>2, <3>4
    <3> QED
      BY <1>0, <2>1, <3>5
  <2> QED
    BY <2>3, <2>4
<1>11. ASSUME NEW p \in Posts, Flushed(p)
       PROVE  NotYetServed' /\ KeptFromTheStart'
  <2>1. post'[p].id = post[p].id /\ post[p].phase = "parked"
        /\ \A q \in Posts \ {p} : post'[q] = post[q]
    BY <1>0, <1>11 DEF TypeOK, Flushed, PostType
  <2> QED
    BY <1>0, <1>11, <2>1 DEF TypeOK, Flushed
<1>12. CASE UNCHANGED vars
  BY <1>0, <1>12 DEF vars
<1>13. ASSUME NEW i \in Ids, InputClosed(i) \/ Fail(i)
       PROVE  End(i) /\ service[i] # "none"
  BY <1>13 DEF InputClosed, Fail
<1>14. CASE \E i \in Ids : Speak(i)
  BY <1>0, <1>14 DEF TypeOK, Speak
<1>15. ASSUME NEW p \in Posts, Complete(p) \/ Abandon(p)
       PROVE  NotYetServed' /\ KeptFromTheStart'
  <2>1. \A q \in Posts : post'[q].phase \in {"parked", "202"} => post'[q] = post[q]
    BY <1>0, <1>15 DEF TypeOK, Complete, Abandon, PostType
  <2> QED
    BY <1>0, <1>15, <2>1 DEF TypeOK, Complete, Abandon
<1> QED
  BY <1>1, <1>2, <1>3, <1>4, <1>5, <1>6, <1>7, <1>8, <1>9, <1>10, <1>11, <1>12, <1>13,
     <1>14, <1>15 DEF Next, Disconnect, EndOfStream

LEMMA Always == Spec => []IInv
<1>1. Init => IInv
  BY Initially
<1>2. IInv /\ [Next]_vars => IInv'
  BY StepKeepsTypes, StepKeepsMessages DEF IInv
<1> QED
  BY <1>1, <1>2, PTL DEF Spec

-----------------------------------------------------------------------------------

(* The table, the streams and the queues are in order (sse.rs: open_stream,*)
(* SessionGuard, post_message).                                            *)
THEOREM SseTypeCorrect == Spec => []TypeOK
<1>1. IInv => TypeOK
  BY DEF IInv
<1> QED
  BY <1>1, Always, PTL

(* However full the inbox and however many POSTs wait, a message answered  *)
(* with 202 is taken by its service or lies before it (sse.rs:             *)
(* post_message).                                                          *)
THEOREM AcceptedMessagesAreKept == Spec => []AcceptedIsNotLost
<1>1. IInv => AcceptedIsNotLost
  BY DEF IInv, KeptFromTheStart, OnItsWay, AcceptedIsNotLost
<1> QED
  BY <1>1, Always, PTL

===================================================================================
