------------------------------ MODULE InboundTokens ------------------------------
(***************************************************************************)
(* The JWTs callers present: what the Authorizer verifies of one, and what *)
(* it reads from it. A token is a record of its header and claims, and of  *)
(* the key it was signed with.                                             *)
(***************************************************************************)
EXTENDS Naturals

CONSTANTS
  Jwks,         \* kid -> key type, the key set of the deployment
  Subjects,     \* non-empty strings, as claims
  NotAString,   \* a claim of another shape, or an empty string
  Absent        \* a claim or header that is not there

ASSUME TokensAssumption ==
  /\ Absent \notin DOMAIN Jwks \cup Subjects
  /\ NotAString \notin Subjects

(* The algorithms of a key's family, none for a symmetric or unknown one.  *)
algorithms_for(kty) ==
  CASE kty = "RSA" -> {"RS256", "RS384", "RS512", "PS256", "PS384", "PS512"}
    [] kty = "EC" -> {"ES256", "ES384"}
    [] kty = "OKP" -> {"EdDSA"}
    [] OTHER -> {}

(* A mistake: a claim is checked when it is there. *)
verify_present(authorizer, token, now) ==
  /\ token.kid \in DOMAIN Jwks
  /\ token.alg \in algorithms_for(Jwks[token.kid])
  /\ token.signed_by = token.kid
  /\ token.exp # Absent /\ now <= token.exp + authorizer.clock_skew
  /\ authorizer.audiences # {} => token.aud = {} \/ token.aud \cap authorizer.audiences # {}
  /\ authorizer.issuers # {} => token.iss = Absent \/ token.iss \in authorizer.issuers

(* A token of no kid, or of one the set does not have, has no key. Its     *)
(* audience and issuer are checked, and must be there, when some are       *)
(* expected. `nbf` is not looked at.                                       *)
verify(authorizer, token, now) ==
  /\ token.kid \in DOMAIN Jwks
  /\ token.alg \in algorithms_for(Jwks[token.kid])
  /\ token.signed_by = token.kid
  /\ token.exp # Absent /\ now <= token.exp + authorizer.clock_skew
  /\ authorizer.audiences # {} => token.aud \cap authorizer.audiences # {}
  /\ authorizer.issuers # {} => token.iss \in authorizer.issuers

(* An array or a string lists roles, anything else none. *)
extract_roles(claim) == IF claim.shape \in {"array", "string"} THEN claim.roles ELSE {}

extract_string(claim) == IF claim \in Subjects THEN claim ELSE Absent

(* Past its exp, within the leeway, the end of the caller's session is not *)
(* known. (An exp that is not whole or beyond the clock's end makes its    *)
(* difference in TokenProvider and ToolCalls.)                             *)
unix_to_instant(exp, now) == IF exp >= now THEN exp ELSE Absent

Nobody == [access |-> "anonymous", roles |-> {}, identity |-> Absent]

(* Who sent a request, to the handler. *)
caller(authorizer, token, now) ==
  IF authorizer = Absent THEN [Nobody EXCEPT !.access = "unrestricted"]
  ELSE IF token = Absent \/ ~verify(authorizer, token, now) THEN Nobody
  ELSE [access |-> "authenticated", roles |-> extract_roles(token.role_claim),
        identity |->
          IF extract_string(token.subject_claim) = Absent THEN Absent
          ELSE [subject |-> token.subject_claim, issuer |-> extract_string(token.iss),
                expiry |-> unix_to_instant(token.exp, now)]]

===================================================================================
