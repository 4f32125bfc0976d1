------------------------------ MODULE MCSseTransport ------------------------------
(* Small instances of SseTransport. *)
EXTENDS SseTransport

CONSTANTS p1, p2

(* Two POSTs, to one session or to two. With a word of its own in the      *)
(* outbox and another to say, a service takes nothing: its inbox is full   *)
(* after one POST, and both wait for room.                                 *)
TwoPosts == {p1, p2}
===================================================================================
