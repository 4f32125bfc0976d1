----------------------------- MODULE MCTokenProvider ------------------------------
(* Small instances of TokenProvider. *)
EXTENDS TokenProvider

CONSTANTS c1, c2, acme, globex, alice

JWT(i, s, e) == [issuer |-> i, subject |-> s, exp |-> e, whole |-> TRUE]

TwoCalls == {c1, c2}

(* The same subject at two issuers. *)
TwoIssuers == {JWT(acme, alice, 1), JWT(globex, alice, 3)}

(* The same, and one of them writes an exp that is not a whole number.     *)
OneNotWhole == {JWT(acme, alice, 1), [JWT(globex, alice, 3) EXCEPT !.whole = FALSE]}

(* A lifetime within the margin, one above it, one the clock cannot hold. *)
SomeTtls == {1, 2, 40}
===================================================================================
