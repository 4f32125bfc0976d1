-------------------------------- MODULE MCToolNames --------------------------------
(* Small instances of ToolNames. *)
EXTENDS ToolNames, TLC

CONSTANTS
  get, get_too, get_two, get_three, get_two_two, long, dropped,  \* operations
  list, list_everything, list_1f, drop                           \* words

SomeOperations == {get, get_too, get_two, get_three, get_two_two, long, dropped}

(* Two operations of one name, three whose names look like names with a    *)
(* suffix, one with a name above the cap, one the filter drops.            *)
SomeNames ==
  get :> <<list>> @@ get_too :> <<list>> @@ get_two :> <<list, 2>>
  @@ get_three :> <<list, 3>> @@ get_two_two :> <<list, 2, 2>>
  @@ long :> <<list_everything>> @@ dropped :> <<drop>>

SomeWords == {list, list_everything, list_1f, drop}
SomeLengths == list :> 4 @@ list_everything :> 15 @@ list_1f :> 4 @@ drop :> 4

AllNames == {SomeNames[o] : o \in SomeOperations}

SomeTags == [o \in SomeOperations |-> IF o \in {get, dropped} THEN {"pets"} ELSE {}]

(* No filter, each list of it, and lists that disagree. *)
NoFilter ==
  [include_regexes |-> {}, exclude_regexes |-> {}, include_tags |-> {}, exclude_tags |-> {}]

SomeFilters ==
  {NoFilter,
   [NoFilter EXCEPT !.exclude_regexes = {{<<drop>>}, {<<list, 3>>}}],
   [NoFilter EXCEPT !.include_regexes = {AllNames \ {<<drop>>}}],
   [NoFilter EXCEPT !.include_tags = {"pets"}],
   [NoFilter EXCEPT !.include_regexes = {{<<list>>, <<list, 2>>}}, !.exclude_tags = {"pets"}],
   [NoFilter EXCEPT !.include_tags = {"pets"}, !.exclude_regexes = {{<<drop>>}}]}

(* One rule rewrites a name into what the digest of another happens to be. *)
SomeRules == [n \in AllNames |-> IF n = <<list, 3>> THEN <<list_1f>> ELSE n]

SomeDigest == [n \in AllNames \cup {<<list_1f>>} |-> <<list_1f>>]

Orders(n) ==
  {d \in [1..n -> SomeOperations] : \A i, j \in 1..n : d[i] = d[j] => i = j}

SomeDocuments == UNION {Orders(n) : n \in 1..4}
===================================================================================
