--------------------------------- MODULE ToolNames ---------------------------------
(***************************************************************************)
(* How the operations of a document get their tool names: the operations   *)
(* are taken in document order, filtered by their raw name, renamed, cut   *)
(* to the length cap, and told apart with a numeric suffix.                *)
(*                                                                         *)
(* A name is a non-empty sequence: a word, then the suffixes added to it.  *)
(* `list_pets_2` is <<list_pets, 2>>, whether it was written so in the   *)
(* document or made here.                                                  *)
(***************************************************************************)
EXTENDS Integers, Sequences

CONSTANTS
  Operations,   \* the operations documents are made of
  Words,        \* what names are built from
  Documents,    \* sequences of operations, in document order
  OperationName,\* operation -> its operationId, or method and path
  OperationTags,\* operation -> its tags, in lower case
  Filters,      \* the filters configured: a regex is the set of names it matches
  Rules,        \* name -> name, the rename rules and the sanitiser
  Digest,       \* name -> name, cut short, with a hash of the whole
  WordLength,   \* word -> length
  MaxLen        \* the length cap

Names == {n \in Seq(Words \cup Nat) : n # <<>>}

(* A suffix below ten takes two characters with its underscore. *)
Length(name) == WordLength[Head(name)] + 2 * (Len(name) - 1)

ASSUME NamesAssumption ==
  /\ Documents \subseteq Seq(Operations)
  /\ OperationName \in [Operations -> Names]
  /\ DOMAIN Rules = {OperationName[o] : o \in Operations}
  /\ \A n \in DOMAIN Rules : Rules[n] \in Names
  /\ \A n \in DOMAIN Digest : Digest[n] \in Names
  /\ {Rules[n] : n \in DOMAIN Rules} \subseteq DOMAIN Digest
  /\ WordLength \in [Words -> Nat]
  /\ MaxLen \in Nat
  /\ \A n \in DOMAIN Digest : Length(Digest[n]) <= MaxLen

VARIABLES
  filter,     \* include_regexes, exclude_regexes, include_tags, exclude_tags
  document,   \* the operations at hand
  current,    \* the position of the one being turned into a tool
  candidate,  \* the name tried for it, <<>> before there is one
  suffix,     \* the suffix to try next
  seen_names, \* the names claimed so far
  tools       \* the tools built: [operation, name]

vars == <<filter, document, current, candidate, suffix, seen_names, tools>>

-----------------------------------------------------------------------------------

(* The digest keeps the name within the cap. *)
capped(name) == IF Length(name) <= MaxLen THEN name ELSE Digest[name]

rename(raw) == capped(Rules[raw])

InDocument == current <= Len(document)

Raw == OperationName[document[current]]

matches_name(regexes, name) == \E re \in regexes : name \in re

has_tag(wanted, tags) == wanted \cap tags # {}

(* A denylist wins; an allowlist, when there is one, has to be matched on   *)
(* one axis. *)
keeps(name, tags) ==
  /\ ~matches_name(filter.exclude_regexes, name)
  /\ ~has_tag(filter.exclude_tags, tags)
  /\ (filter.include_regexes # {} \/ filter.include_tags # {}) =>
       \/ matches_name(filter.include_regexes, name)
       \/ has_tag(filter.include_tags, tags)

Kept == keeps(Raw, OperationTags[document[current]])

Init ==
  /\ filter \in Filters
  /\ document \in Documents
  /\ current = 1
  /\ candidate = <<>>
  /\ suffix = 2
  /\ seen_names = {}
  /\ tools = <<>>

(* An operation the filter drops, on its raw name. *)
Filtered ==
  /\ InDocument
  /\ candidate = <<>>
  /\ ~Kept
  /\ current' = current + 1
  /\ UNCHANGED <<filter, document, candidate, suffix, seen_names, tools>>

Build ==
  /\ InDocument
  /\ candidate = <<>>
  /\ Kept
  /\ candidate' = rename(Raw)
  /\ suffix' = 2
  /\ UNCHANGED <<filter, document, current, seen_names, tools>>

(* A mistake: the suffix goes on the name that was tried last. *)
DisambiguateOn ==
  /\ candidate # <<>>
  /\ candidate \in seen_names
  /\ candidate' = Append(candidate, suffix)
  /\ suffix' = suffix + 1
  /\ UNCHANGED <<filter, document, current, seen_names, tools>>

(* The name is taken: the next suffix is tried, always on the tool's own   *)
(* name. *)
Disambiguate ==
  /\ candidate # <<>>
  /\ candidate \in seen_names
  /\ candidate' = Append(rename(Raw), suffix)
  /\ suffix' = suffix + 1
  /\ UNCHANGED <<filter, document, current, seen_names, tools>>

(* A mistake: one try at another name is thought to be enough. *)
RegisterAtOnce ==
  /\ candidate # <<>>
  /\ candidate \in seen_names => suffix > 2
  /\ seen_names' = seen_names \cup {candidate}
  /\ tools' = Append(tools, [operation |-> document[current], name |-> candidate])
  /\ candidate' = <<>>
  /\ current' = current + 1
  /\ UNCHANGED <<filter, document, suffix>>

Register ==
  /\ candidate # <<>>
  /\ candidate \notin seen_names
  /\ seen_names' = seen_names \cup {candidate}
  /\ tools' = Append(tools, [operation |-> document[current], name |-> candidate])
  /\ candidate' = <<>>
  /\ current' = current + 1
  /\ UNCHANGED <<filter, document, suffix>>

Next == Filtered \/ Build \/ Disambiguate \/ Register

Spec == Init /\ [][Next]_vars

-----------------------------------------------------------------------------------
(* Properties.                                                             *)

TypeOK ==
  /\ document \in Seq(Operations)
  /\ current \in 1..(Len(document) + 1)
  /\ candidate \in Names \cup {<<>>}
  /\ candidate # <<>> => InDocument
  /\ suffix \in Nat
  /\ seen_names \subseteq Names
  /\ tools \in Seq([operation : Operations, name : Names])

(* "MCP tool names must be unique": a call names one tool, even when the   *)
(* document has operations that look like names made here.                 *)
UniqueNames ==
  \A i, j \in DOMAIN tools : tools[i].name = tools[j].name => i = j

(* A tool is not given a suffix unless an earlier one holds its name, and  *)
(* then it is given the first that is free. So a name nobody else claims   *)
(* stays from one document to the next, and only a suffix passes the cap.  *)
SuffixOnlyOnCollision ==
  \A j \in DOMAIN tools :
    LET own     == rename(OperationName[tools[j].operation])
        Earlier == {tools[i].name : i \in 1..(j - 1)}
    IN  /\ Length(own) <= MaxLen
        /\ \/ tools[j].name = own
           \/ /\ own \in Earlier
              /\ \E k \in 2..j :
                   /\ tools[j].name = Append(own, k)
                   /\ \A l \in 2..(k - 1) : Append(own, l) \in Earlier

===================================================================================
