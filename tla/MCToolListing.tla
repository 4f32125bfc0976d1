------------------------------- MODULE MCToolListing ------------------------------
(* Small instances of ToolListing. *)
EXTENDS ToolListing, TLC

CONSTANTS w1, admin, guest, list, create, delete, audit, plain, changed

OneWalker == {w1}
TwoRoles  == {admin, guest}
WhatTheySee == admin :> {list, create, delete, audit} @@ guest :> {list, delete}

Tool(name, output) ==
  [name |-> name, operation |-> name, input |-> plain, output |-> output]

(* The first two differ in an output schema, the third lacks a tool, the   *)
(* fourth has one only admins see in place of another.                     *)
ThreeTools == <<Tool(list, plain), Tool(create, plain), Tool(delete, plain)>>
NewOutput   == <<Tool(list, changed), Tool(create, plain), Tool(delete, changed)>>
OneLess     == <<Tool(list, plain), Tool(delete, plain)>>
AnotherOne  == <<Tool(audit, plain), Tool(list, plain), Tool(delete, plain)>>
SomeDocuments == {ThreeTools, NewOutput, OneLess, AnotherOne, << >>}

SomeSizes == {1, 2, NoPaging}
===================================================================================
