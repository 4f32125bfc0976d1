------------------------------- MODULE TokenService -------------------------------
(***************************************************************************)
(* What the token provider promises its callers, with no cache and no      *)
(* clock: a call asks in the name of somebody and ends with a token the    *)
(* authorization server issued for that very identity, with a refusal, or  *)
(* with nothing when it is abandoned or its task dies.                     *)
(***************************************************************************)
CONSTANTS
  Calls,          \* the tool calls and document fetches that may run at once
  Askers,         \* in whose name a call may ask
  Capable,        \* those of them the configured grant can act for
  IdentityOf      \* for each of these, the identity its token has to speak for

VARIABLES
  status,         \* per call: where it stands, in whose name, the identity it got
  issued          \* identities the authorization server has issued a token for

vars == <<status, issued>>

Idle          == [state |-> "idle"]
Pending(a)    == [state |-> "pending", asker |-> a]
Granted(a, i) == [state |-> "granted", asker |-> a, identity |-> i]
Denied(a)     == [state |-> "denied", asker |-> a]
Lost          == [state |-> "lost"]

Init ==
  /\ status = [c \in Calls |-> Idle]
  /\ issued = {}

Ask(c, a) ==
  /\ status[c] = Idle
  /\ status' = [status EXCEPT ![c] = Pending(a)]
  /\ UNCHANGED issued

(* The authorization server issues a token, and only for a call that asks. *)
Issue(c, a) ==
  /\ status[c] = Pending(a)
  /\ a \in Capable
  /\ issued' = issued \cup {IdentityOf[a]}
  /\ UNCHANGED status

(* Old or new, the token handed out speaks for the asker. *)
HandOut(c, a) ==
  /\ status[c] = Pending(a)
  /\ a \in Capable
  /\ IdentityOf[a] \in issued
  /\ status' = [status EXCEPT ![c] = Granted(a, IdentityOf[a])]
  /\ UNCHANGED issued

Deny(c, a) ==
  /\ status[c] = Pending(a)
  /\ status' = [status EXCEPT ![c] = Denied(a)]
  /\ UNCHANGED issued

Lose(c, a) ==
  /\ status[c] = Pending(a)
  /\ status' = [status EXCEPT ![c] = Lost]
  /\ UNCHANGED issued

(* An ended call makes room for another; a pending one may be abandoned. *)
Leave(c) ==
  /\ status[c] # Idle
  /\ status' = [status EXCEPT ![c] = Idle]
  /\ UNCHANGED issued

Next ==
  \E c \in Calls :
    \/ Leave(c)
    \/ \E a \in Askers : \/ Ask(c, a)  \/ Issue(c, a)  \/ HandOut(c, a)
                         \/ Deny(c, a) \/ Lose(c, a)

Spec == Init /\ [][Next]_vars
===================================================================================
