------------------------------- MODULE MCToolCalls --------------------------------
(* Small instances of ToolCalls. *)
EXTENDS ToolCalls, TLC

CONSTANTS k1, k2, read, write, getPet, delPet, urlA, urlB, admin, guest, forever, reader

TwoCalls == {k1, k2}

TwoNames      == {read, write}
TwoOperations == {getPet, delPet}

(* One document serves the public operation under `read`; the other gives  *)
(* that name to the operation behind a role, at another base URL, and has  *)
(* no `write`.                                                             *)
DocumentA == [tools |-> read :> getPet @@ write :> delPet, base |-> urlA]
DocumentB == [tools |-> read :> delPet, base |-> urlB]
TwoDocuments == {DocumentA, DocumentB}

(* All carry a subject, admin alone the role, and one ends beyond the      *)
(* clock's end.                                                            *)
SomeJwts == {admin, guest, forever}
TheRoles == admin :> {reader} @@ guest :> {} @@ forever :> {}
OneRule     == {[role |-> reader, operations |-> {delPet}]}
PublicOne   == {getPet}

Deployment(authorizing, discovery, protected, upstream) ==
  [authorizing |-> authorizing, discovery |-> discovery, protected |-> protected,
   upstream |-> upstream]

(* The gate and the callers' identities upstream; no gate, every tool shown *)
(* and the server's identity; nobody checked and no token.                 *)
SomeDeployments ==
  {Deployment(TRUE, FALSE, TRUE, "delegated"), Deployment(TRUE, TRUE, FALSE, "client"),
   Deployment(FALSE, FALSE, FALSE, "none")}
===================================================================================
