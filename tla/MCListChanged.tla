------------------------------ MODULE MCListChanged -------------------------------
(* Small instances of ListChanged. *)
EXTENDS ListChanged, TLC

CONSTANTS s1, l1, docA, docB, docC, petsV1, petsV2, pets

(* The session need not read what is sent to it, the subscriber does. *)
OneSession    == {s1}
OneSubscriber == {l1}

(* B differs from A in a description only, C not at all. *)
ThreeDocuments == {docA, docB, docC}
TheListing ==
  docA :> [names |-> pets, details |-> petsV1]
  @@ docB :> [names |-> pets, details |-> petsV2]
  @@ docC :> [names |-> pets, details |-> petsV1]
===================================================================================
