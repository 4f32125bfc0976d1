---------------------------- MODULE ToolGenerationProofs ----------------------------
(***************************************************************************)
(* Of the tools made of a document, for every document: their names are    *)
(* unique and suffixed where they collide only (ToolNames), and the output *)
(* schemas they declare ask for no more than the document does and hold of *)
(* what a call returns (ToolOutput).                                       *)
(***************************************************************************)
EXTENDS ToolNames, ToolOutput, SequenceTheorems, FunctionTheorems, FiniteSetTheorems,
        WellFoundedInduction, TLAPS

-----------------------------------------------------------------------------------
(* Names.                                                                  *)

(* The claimed names are the tools' own. *)
ClaimsAreNames == seen_names = {tools[i].name : i \in DOMAIN tools}

NamesInv == TypeOK /\ ClaimsAreNames /\ UniqueNames

(* What the rules and the cap make of a raw name is a name. *)
LEMMA RenamedIsAName ==
  ASSUME NEW o \in Operations
  PROVE  rename(OperationName[o]) \in Names
<1>1. OperationName[o] \in DOMAIN Rules
  BY NamesAssumption
<1>2. Rules[OperationName[o]] \in Names /\ Digest[Rules[OperationName[o]]] \in Names
  BY <1>1, NamesAssumption
<1> QED
  BY <1>2 DEF rename, capped

LEMMA SuffixedIsAName ==
  ASSUME NEW n \in Names, NEW k \in Nat
  PROVE  Append(n, k) \in Names
<1> DEFINE Parts == Words \cup Nat
<1>1. n \in Seq(Parts) /\ k \in Parts
  BY DEF Names
<1> HIDE DEF Parts
<1>2. Append(n, k) \in Seq(Parts) /\ Len(Append(n, k)) = Len(n) + 1 /\ Len(n) \in Nat
  BY <1>1
<1>3. Append(n, k) # <<>>
  BY <1>2
<1> QED
  BY <1>2, <1>3 DEF Names, Parts

LEMMA AtAnOperation ==
  ASSUME TypeOK, InDocument
  PROVE  document[current] \in Operations /\ rename(Raw) \in Names
<1>1. document[current] \in Operations
  BY DEF TypeOK, InDocument
<1> QED
  BY <1>1, RenamedIsAName DEF Raw

LEMMA NamesInitially == Init => NamesInv
<1> SUFFICES ASSUME Init PROVE NamesInv
  OBVIOUS
<1>1. document \in Seq(Operations)
  BY NamesAssumption DEF Init
<1>2. TypeOK
  BY <1>1 DEF Init, TypeOK
<1>3. ClaimsAreNames /\ UniqueNames
  BY DEF Init, ClaimsAreNames, UniqueNames
<1> QED
  BY <1>2, <1>3 DEF NamesInv

(* A tool is registered under a name no other tool has. *)
LEMMA Registering ==
  ASSUME NamesInv, Register
  PROVE  NamesInv'
<1> DEFINE tool == [operation |-> document[current], name |-> candidate]
<1>1. TypeOK /\ ClaimsAreNames /\ UniqueNames
  BY DEF NamesInv
<1>2. /\ InDocument
      /\ candidate \in Names
      /\ candidate \notin seen_names
      /\ tools' = Append(tools, tool)
      /\ seen_names' = seen_names \cup {candidate}
      /\ candidate' = <<>>
      /\ current' = current + 1
      /\ UNCHANGED <<document, suffix>>
  BY <1>1 DEF TypeOK, Register
<1>3. tools \in Seq([operation : Operations, name : Names])
  BY <1>1 DEF TypeOK
<1>4. tool \in [operation : Operations, name : Names]
  BY <1>1, <1>2, AtAnOperation
<1> HIDE DEF tool
<1>5. /\ tools' \in Seq([operation : Operations, name : Names])
      /\ DOMAIN tools' = 1..(Len(tools) + 1)
      /\ DOMAIN tools = 1..Len(tools)
      /\ Len(tools) \in Nat
      /\ tools'[Len(tools) + 1] = tool
      /\ \A i \in DOMAIN tools : tools'[i] = tools[i]
  BY <1>2, <1>3, <1>4
<1>6. tool.name = candidate
  BY DEF tool
<1>7. TypeOK'
  <2>1. current' \in 1..(Len(document) + 1)
    BY <1>1, <1>2 DEF TypeOK, InDocument
  <2> QED
    BY <1>1, <1>2, <1>5, <2>1 DEF TypeOK
<1>8. ClaimsAreNames'
  <2>1. {tools'[i].name : i \in DOMAIN tools'}
          = {tools[i].name : i \in DOMAIN tools} \cup {candidate}
    BY <1>5, <1>6
  <2> QED
    BY <1>1, <1>2, <2>1 DEF ClaimsAreNames
<1>9. UniqueNames'
  <2> SUFFICES ASSUME NEW i \in DOMAIN tools', NEW j \in DOMAIN tools',
                      tools'[i].name = tools'[j].name
               PROVE  i = j
    BY DEF UniqueNames
  <2>1. \A k \in DOMAIN tools : tools[k].name # candidate
    BY <1>1, <1>2 DEF ClaimsAreNames
  <2>2. CASE i \in DOMAIN tools /\ j \in DOMAIN tools
    BY <1>1, <1>5, <2>2 DEF UniqueNames
  <2>3. CASE i \in DOMAIN tools /\ j \notin DOMAIN tools
    BY <1>5, <1>6, <2>1, <2>3
  <2>4. CASE i \notin DOMAIN tools /\ j \in DOMAIN tools
    BY <1>5, <1>6, <2>1, <2>4
  <2>5. CASE i \notin DOMAIN tools /\ j \notin DOMAIN tools
    BY <1>5, <2>5
  <2> QED
    BY <2>2, <2>3, <2>4, <2>5
<1> QED
  BY <1>7, <1>8, <1>9 DEF NamesInv

LEMMA NamesInductive == NamesInv /\ [Next]_vars => NamesInv'
<1> SUFFICES ASSUME NamesInv, [Next]_vars PROVE NamesInv'
  OBVIOUS
<1>1. TypeOK /\ ClaimsAreNames /\ UniqueNames
  BY DEF NamesInv
<1>2. CASE Filtered
  <2>1. TypeOK'
    BY <1>1, <1>2 DEF TypeOK, Filtered, InDocument
  <2> QED
    BY <1>1, <1>2, <2>1 DEF Filtered, NamesInv, ClaimsAreNames, UniqueNames
<1>3. CASE Build
  <2>1. rename(Raw) \in Names
    BY <1>1, <1>3, AtAnOperation DEF Build
  <2>2. TypeOK'
    BY <1>1, <1>3, <2>1 DEF TypeOK, Build, InDocument
  <2> QED
    BY <1>1, <1>3, <2>2 DEF Build, NamesInv, ClaimsAreNames, UniqueNames
<1>4. CASE Disambiguate
  <2>1. rename(Raw) \in Names /\ suffix \in Nat /\ InDocument
    BY <1>1, <1>4, AtAnOperation DEF Disambiguate, TypeOK
  <2>2. Append(rename(Raw), suffix) \in Names
    BY <2>1, SuffixedIsAName
  <2>3. TypeOK'
    BY <1>1, <1>4, <2>1, <2>2 DEF TypeOK, Disambiguate, InDocument
  <2> QED
    BY <1>1, <1>4, <2>3 DEF Disambiguate, NamesInv, ClaimsAreNames, UniqueNames
<1>5. CASE Register
  BY <1>5, Registering
<1>6. CASE UNCHANGED vars
  BY <1>6 DEF vars, NamesInv, TypeOK, InDocument, ClaimsAreNames, UniqueNames
<1> QED
  BY <1>2, <1>3, <1>4, <1>5, <1>6 DEF Next

LEMMA NamesAlways == Spec => []NamesInv
  BY NamesInitially, NamesInductive, PTL DEF Spec

-----------------------------------------------------------------------------------

(* Every tool has a name, built from the words of its operation. *)
THEOREM NamesTypeCorrect == Spec => []TypeOK
<1>1. NamesInv => TypeOK
  BY DEF NamesInv
<1> QED
  BY NamesAlways, <1>1, PTL

(* No two tools share a name, whatever the document names its operations,  *)
(* and even where the rules or two digests fall together.                  *)
THEOREM ToolNamesAreUnique == Spec => []UniqueNames
<1>1. NamesInv => UniqueNames
  BY DEF NamesInv
<1> QED
  BY NamesAlways, <1>1, PTL

-----------------------------------------------------------------------------------
(* Suffixes.                                                               *)

(* The search for a free name: the tool's own name is tried first, and     *)
(* everything tried before the candidate is taken.                         *)
Searching ==
  candidate # <<>> =>
    \/ suffix = 2 /\ candidate = rename(Raw)
    \/ /\ suffix > 2
       /\ candidate = Append(rename(Raw), suffix - 1)
       /\ rename(Raw) \in seen_names
       /\ \A l \in 2..(suffix - 2) : Append(rename(Raw), l) \in seen_names

(* No more names are tried than there are tools, and one.                  *)
TriesAreBounded == suffix \in 2..(Len(tools) + 2)

(* What SuffixOnlyOnCollision says of one tool among `ts`.                 *)
FitsAt(ts, j) ==
  LET own     == rename(OperationName[ts[j].operation])
      Earlier == {ts[i].name : i \in 1..(j - 1)}
  IN  /\ Length(own) <= MaxLen
      /\ \/ ts[j].name = own
         \/ /\ own \in Earlier
            /\ \E k \in 2..j :
                 /\ ts[j].name = Append(own, k)
                 /\ \A l \in 2..(k - 1) : Append(own, l) \in Earlier

SearchingInv == NamesInv /\ Searching /\ TriesAreBounded /\ SuffixOnlyOnCollision

(* The cap holds for what the rules and the cap make of any raw name.      *)
LEMMA RenamedFits ==
  ASSUME NEW o \in Operations
  PROVE  Length(rename(OperationName[o])) <= MaxLen
<1> DEFINE renamed == Rules[OperationName[o]]
<1>1. renamed \in DOMAIN Digest
  BY NamesAssumption
<1> HIDE DEF renamed
<1>2. Length(Digest[renamed]) <= MaxLen
  BY <1>1, NamesAssumption
<1>3. Length(capped(renamed)) <= MaxLen
  BY <1>2 DEF capped
<1> QED
  BY <1>3 DEF rename, renamed

(* Names with different suffixes differ, and differ from the bare one.     *)
LEMMA SuffixesDiffer ==
  ASSUME NEW n \in Names, NEW k \in Nat, NEW l \in Nat
  PROVE  /\ Append(n, k) # n
         /\ Append(n, k) = Append(n, l) => k = l
<1> DEFINE Parts == Words \cup Nat
<1>1. n \in Seq(Parts) /\ k \in Parts /\ l \in Parts
  BY DEF Names
<1> HIDE DEF Parts
<1>2. Len(Append(n, k)) = Len(n) + 1 /\ Len(n) \in Nat
  BY <1>1
<1>3. Append(n, k)[Len(n) + 1] = k /\ Append(n, l)[Len(n) + 1] = l
  BY <1>1
<1> QED
  BY <1>2, <1>3

(* When a name and its suffixes up to k are taken, there are k tools.      *)
LEMMA TakenNamesAreTools ==
  ASSUME TypeOK, ClaimsAreNames,
         NEW own \in Names, own \in seen_names,
         NEW k \in Nat, k >= 1,
         \A l \in 2..k : Append(own, l) \in seen_names
  PROVE  k <= Len(tools)
<1> DEFINE try(l)  == IF l = 1 THEN own ELSE Append(own, l)
           At(l)   == CHOOSE i \in DOMAIN tools : tools[i].name = try(l)
           place   == [l \in 1..k |-> At(l)]
<1>1. DOMAIN tools = 1..Len(tools) /\ Len(tools) \in Nat
  BY DEF TypeOK
<1>2. \A l \in 1..k : try(l) \in seen_names
  OBVIOUS
<1>3. \A l, m \in 1..k : try(l) = try(m) => l = m
  <2> SUFFICES ASSUME NEW l \in 1..k, NEW m \in 1..k, try(l) = try(m)
               PROVE  l = m
    OBVIOUS
  <2> QED
    <3>1. l \in Nat /\ m \in Nat
      OBVIOUS
    <3>2. Append(own, l) # own /\ Append(own, m) # own
      BY <3>1, SuffixesDiffer
    <3>3. Append(own, l) = Append(own, m) => l = m
      BY <3>1, SuffixesDiffer
    <3> QED
      BY <3>2, <3>3
<1> HIDE DEF try
<1>4. \A l \in 1..k : At(l) \in DOMAIN tools /\ tools[At(l)].name = try(l)
  BY <1>2 DEF ClaimsAreNames
<1> HIDE DEF At
<1>5. place \in Injection(1..k, 1..Len(tools))
  BY <1>1, <1>3, <1>4 DEF Injection, IsInjective
<1> HIDE DEF place
<1>6. ExistsInjection(1..k, 1..Len(tools))
  BY <1>5 DEF ExistsInjection
<1> QED
  BY <1>1, <1>6, Fun_NatInjLeq

LEMMA FittingTools ==
  /\ SuffixOnlyOnCollision <=> \A j \in DOMAIN tools : FitsAt(tools, j)
  /\ SuffixOnlyOnCollision' <=> \A j \in DOMAIN tools' : FitsAt(tools', j)
<1>1. SuffixOnlyOnCollision <=> \A j \in DOMAIN tools : FitsAt(tools, j)
  BY DEF SuffixOnlyOnCollision, FitsAt
<1>2. (SuffixOnlyOnCollision <=> \A j \in DOMAIN tools : FitsAt(tools, j))'
  BY DEF SuffixOnlyOnCollision, FitsAt
<1> QED
  BY <1>1, <1>2

(* A step that leaves the tools alone.                                     *)
LEMMA SameTools ==
  ASSUME SuffixOnlyOnCollision, UNCHANGED tools
  PROVE  SuffixOnlyOnCollision'
  BY FittingTools

LEMMA SearchStarts == Init => SearchingInv
<1> SUFFICES ASSUME Init PROVE SearchingInv
  OBVIOUS
<1>1. NamesInv
  BY NamesInitially
<1>2. Searching /\ TriesAreBounded /\ SuffixOnlyOnCollision
  BY DEF Init, Searching, TriesAreBounded, SuffixOnlyOnCollision
<1> QED
  BY <1>1, <1>2 DEF SearchingInv

(* The candidate is taken, and the next one tried.                         *)
LEMMA SearchGoesOn ==
  ASSUME SearchingInv, Disambiguate
  PROVE  Searching' /\ TriesAreBounded' /\ SuffixOnlyOnCollision'
<1> DEFINE own == rename(Raw)
<1>1. /\ TypeOK /\ ClaimsAreNames /\ Searching /\ SuffixOnlyOnCollision
      /\ suffix \in 2..(Len(tools) + 2) /\ Len(tools) \in Nat
  BY DEF SearchingInv, NamesInv, TypeOK, TriesAreBounded
<1>2. /\ candidate # <<>> /\ candidate \in seen_names
      /\ candidate' = Append(own, suffix) /\ suffix' = suffix + 1
      /\ UNCHANGED <<filter, document, current, seen_names, tools>>
  BY DEF Disambiguate
<1>3. own \in Names /\ own' = own
  BY <1>1, <1>2, AtAnOperation DEF TypeOK, Raw
<1> HIDE DEF own
<1>4. own \in seen_names /\ \A l \in 2..(suffix - 1) : Append(own, l) \in seen_names
  <2>1. CASE suffix = 2 /\ candidate = own
    BY <1>2, <2>1
  <2>2. CASE /\ suffix > 2 /\ candidate = Append(own, suffix - 1) /\ own \in seen_names
             /\ \A l \in 2..(suffix - 2) : Append(own, l) \in seen_names
    <3> SUFFICES ASSUME NEW l \in 2..(suffix - 1) PROVE Append(own, l) \in seen_names
      BY <2>2
    <3>1. l = suffix - 1 \/ l \in 2..(suffix - 2)
      BY <1>1
    <3> QED
      BY <1>2, <2>2, <3>1
  <2> QED
    BY <1>1, <1>2, <2>1, <2>2 DEF Searching, own
<1>5. suffix - 1 <= Len(tools)
  BY <1>1, <1>3, <1>4, TakenNamesAreTools
<1>6. Searching'
  <2>1. /\ suffix' > 2 /\ suffix' - 1 = suffix /\ suffix' - 2 = suffix - 1
    BY <1>1, <1>2
  <2>2. /\ candidate' = Append(own', suffix' - 1)
        /\ own' \in seen_names'
        /\ \A l \in 2..(suffix' - 2) : Append(own', l) \in seen_names'
    BY <1>2, <1>3, <1>4, <2>1
  <2> QED
    BY <2>1, <2>2 DEF Searching, own
<1>7. TriesAreBounded'
  BY <1>1, <1>2, <1>5 DEF TriesAreBounded
<1>8. SuffixOnlyOnCollision'
  BY <1>1, <1>2, SameTools
<1> QED
  BY <1>6, <1>7, <1>8

(* The candidate is free: the tool gets its own name, or the first suffix  *)
(* that is.                                                                *)
LEMMA SearchEnds ==
  ASSUME SearchingInv, Register
  PROVE  Searching' /\ TriesAreBounded' /\ SuffixOnlyOnCollision'
<1> DEFINE own == rename(Raw)
           new == Len(tools) + 1
<1>1. /\ TypeOK /\ ClaimsAreNames /\ Searching /\ SuffixOnlyOnCollision
      /\ suffix \in 2..(Len(tools) + 2)
      /\ tools \in Seq([operation : Operations, name : Names])
  BY DEF SearchingInv, NamesInv, TypeOK, TriesAreBounded
<1>2. /\ candidate # <<>> /\ candidate' = <<>> /\ UNCHANGED suffix
      /\ tools' = Append(tools, [operation |-> document[current], name |-> candidate])
  BY DEF Register
<1>3. document[current] \in Operations /\ candidate \in Names
  BY <1>1, <1>2, AtAnOperation DEF TypeOK
<1>4. /\ Len(tools) \in Nat /\ Len(tools') = new /\ DOMAIN tools = 1..Len(tools)
      /\ DOMAIN tools' = 1..new
      /\ \A i \in 1..Len(tools) : tools'[i] = tools[i]
      /\ tools'[new] = [operation |-> document[current], name |-> candidate]
  BY <1>1, <1>2, <1>3
<1>5. Searching' /\ TriesAreBounded'
  BY <1>1, <1>2, <1>4 DEF Searching, TriesAreBounded
<1>6. ASSUME NEW j \in 1..Len(tools) PROVE FitsAt(tools', j)
  <2>1. FitsAt(tools, j)
    BY <1>1, <1>4, FittingTools
  <2>2. \A i \in 1..j : tools'[i] = tools[i]
    BY <1>4
  <2>3. {tools'[i].name : i \in 1..(j - 1)} = {tools[i].name : i \in 1..(j - 1)}
    BY <1>4, <2>2
  <2>4. tools'[j] = tools[j]
    BY <1>4
  <2> QED
    BY <2>1, <2>3, <2>4 DEF FitsAt
<1>7. FitsAt(tools', new)
  <2>1. {tools'[i].name : i \in 1..(new - 1)} = seen_names
    <3>1. 1..(new - 1) = DOMAIN tools
      BY <1>4
    <3>2. {tools'[i].name : i \in DOMAIN tools} = {tools[i].name : i \in DOMAIN tools}
      BY <1>4
    <3> QED
      BY <1>1, <3>1, <3>2 DEF ClaimsAreNames
  <2>2. rename(OperationName[tools'[new].operation]) = own /\ tools'[new].name = candidate
    BY <1>4 DEF Raw
  <2>3. Length(own) <= MaxLen
    BY <1>3, RenamedFits DEF Raw
  <2> HIDE DEF own, new
  <2>4. CASE suffix = 2 /\ candidate = own
    BY <2>2, <2>3, <2>4 DEF FitsAt
  <2>5. CASE /\ suffix > 2 /\ candidate = Append(own, suffix - 1) /\ own \in seen_names
             /\ \A l \in 2..(suffix - 2) : Append(own, l) \in seen_names
    <3>1. suffix - 1 \in 2..new /\ (suffix - 1) - 1 = suffix - 2
      BY <1>1, <1>4, <2>5 DEF new
    <3>2. \E k \in 2..new : candidate = Append(own, k)
                             /\ \A l \in 2..(k - 1) : Append(own, l) \in seen_names
      BY <2>5, <3>1
    <3> QED
      BY <2>1, <2>2, <2>3, <2>5, <3>2 DEF FitsAt
  <2> QED
    BY <1>1, <1>2, <2>4, <2>5 DEF Searching, own
<1>8. SuffixOnlyOnCollision'
  <2>1. \A j \in DOMAIN tools' : j \in 1..Len(tools) \/ j = new
    BY <1>4
  <2> QED
    BY <1>6, <1>7, <2>1, FittingTools
<1> QED
  BY <1>5, <1>8

LEMMA SearchInductive == SearchingInv /\ [Next]_vars => SearchingInv'
<1> SUFFICES ASSUME SearchingInv, [Next]_vars PROVE SearchingInv'
  OBVIOUS
<1>1. NamesInv /\ Searching /\ TriesAreBounded /\ SuffixOnlyOnCollision
  BY DEF SearchingInv
<1>2. NamesInv'
  BY <1>1, NamesInductive
<1>3. CASE Filtered
  <2>1. candidate' = <<>> /\ UNCHANGED <<suffix, tools>>
    BY <1>3 DEF Filtered
  <2> QED
    BY <1>1, <1>2, <2>1, SameTools DEF SearchingInv, Searching, TriesAreBounded
<1>4. CASE Build
  <2>1. /\ candidate' = rename(Raw) /\ suffix' = 2
        /\ UNCHANGED <<document, current, tools>> /\ Len(tools) \in Nat
    BY <1>1, <1>4 DEF Build, NamesInv, TypeOK
  <2>2. rename(Raw)' = rename(Raw)
    BY <2>1 DEF Raw
  <2>3. Searching' /\ TriesAreBounded'
    BY <2>1, <2>2 DEF Searching, TriesAreBounded
  <2> QED
    BY <1>1, <1>2, <2>1, <2>3, SameTools DEF SearchingInv
<1>5. CASE Disambiguate
  BY <1>2, <1>5, SearchGoesOn DEF SearchingInv
<1>6. CASE Register
  BY <1>2, <1>6, SearchEnds DEF SearchingInv
<1>7. CASE UNCHANGED vars
  <2>1. UNCHANGED <<document, current, candidate, suffix, seen_names, tools>>
    BY <1>7 DEF vars
  <2>2. rename(Raw)' = rename(Raw)
    BY <2>1 DEF Raw
  <2> QED
    BY <1>1, <1>2, <2>1, <2>2, SameTools DEF SearchingInv, Searching, TriesAreBounded
<1> QED
  BY <1>3, <1>4, <1>5, <1>6, <1>7 DEF Next

LEMMA SearchAlways == Spec => []SearchingInv
  BY SearchStarts, SearchInductive, PTL DEF Spec

(* A tool keeps its own name unless an earlier one holds it, and then gets *)
(* the first suffix that is free, however the document's names look like   *)
(* names made here.                                                        *)
THEOREM OnlyCollisionsAreSuffixed == Spec => []SuffixOnlyOnCollision
<1>1. SearchingInv => SuffixOnlyOnCollision
  BY DEF SearchingInv
<1> QED
  BY SearchAlways, <1>1, PTL

(* The loop that tells names apart ends: it has tried at most one name more*)
(* than there are tools.                                                   *)
THEOREM DisambiguationEnds == Spec => []TriesAreBounded
<1>1. SearchingInv => TriesAreBounded
  BY DEF SearchingInv
<1> QED
  BY SearchAlways, <1>1, PTL

-----------------------------------------------------------------------------------
(* Induction over data.                                                    *)

(* A non-empty set of naturals has a least element: induction over data,   *)
(* for a set of counterexamples.                                           *)
LEMMA LeastNatural ==
  ASSUME NEW T \in SUBSET Nat, T # {}
  PROVE  \E x \in T : \A y \in T : x <= y
<1> DEFINE Less == OpToRel(<, Nat)
<1>1. \A x, y \in Nat : <<y, x>> \in Less <=> y < x
  BY DEF OpToRel
<1>2. IsWellFoundedOn(Less, Nat)
  BY NatLessThanWellFounded
<1> HIDE DEF Less
<1>3. PICK x \in T : \A y \in T : ~ (<<y, x>> \in Less)
  BY <1>2, WFMin
<1>4. ASSUME NEW y \in T PROVE x <= y
  <2>1. x \in Nat /\ y \in Nat /\ ~ (y < x)
    BY <1>1, <1>3
  <2> QED
    BY <2>1
<1> QED
  BY <1>4

(* A recursive definition has a value if it looks at what ranks lower only.*)
LooksLower(D, T, M, rank, step) ==
  /\ M \in Nat /\ rank \in [D -> 0..M] /\ T # {}
  /\ step \in [[D -> T] -> [D -> T]]
  /\ \A f, g \in [D -> T] : \A x \in D :
       (\A y \in D : rank[y] < rank[x] => f[y] = g[y]) => step[f][x] = step[g][x]

HasValue(D, T, step) == \E f \in [D -> T] : f = step[f]

LEMMA RecursionByRank ==
  ASSUME NEW D, NEW T, NEW M, NEW rank, NEW step, LooksLower(D, T, M, rank, step)
  PROVE  HasValue(D, T, step)
<1>0. /\ M \in Nat /\ rank \in [D -> 0..M] /\ T # {}
      /\ step \in [[D -> T] -> [D -> T]]
      /\ \A f, g \in [D -> T] : \A x \in D :
           (\A y \in D : rank[y] < rank[x] => f[y] = g[y]) => step[f][x] = step[g][x]
  BY DEF LooksLower
<1> USE <1>0
<1> PICK start \in T : TRUE
  OBVIOUS
<1> DEFINE Good(k) == \E f \in [D -> T] : \A x \in D : rank[x] < k => f[x] = step[f][x]
           Bad == {k \in Nat : ~Good(k)}
<1>1. Good(0)
  <2>1. [x \in D |-> start] \in [D -> T]
    OBVIOUS
  <2>2. \A x \in D : ~(rank[x] < 0)
    OBVIOUS
  <2> QED
    BY <2>1, <2>2
<1>2. ASSUME NEW k \in Nat, Good(k) PROVE Good(k + 1)
  <2>1. PICK f \in [D -> T] : \A x \in D : rank[x] < k => f[x] = step[f][x]
    BY <1>2
  <2> DEFINE g == step[f]
  <2>2. g \in [D -> T]
    OBVIOUS
  <2>3. ASSUME NEW x \in D, rank[x] < k + 1 PROVE g[x] = step[g][x]
    <3>1. ASSUME NEW y \in D, rank[y] < rank[x] PROVE f[y] = g[y]
      <4>1. rank[y] \in Nat /\ rank[x] \in Nat
        OBVIOUS
      <4>2. rank[y] < k
        BY <2>3, <3>1, <4>1
      <4> QED
        BY <2>1, <4>2
    <3>2. step[f][x] = step[g][x]
      BY <2>2, <3>1
    <3> QED
      BY <3>2
  <2> QED
    BY <2>2, <2>3
<1>3. Good(M + 1)
  <2> HIDE DEF Good
  <2> SUFFICES ASSUME ~Good(M + 1) PROVE FALSE
    OBVIOUS
  <2>1. Bad \in SUBSET Nat /\ Bad # {}
    OBVIOUS
  <2> HIDE DEF Bad
  <2>2. PICK k \in Bad : \A l \in Bad : k <= l
    BY <2>1, LeastNatural
  <2> USE DEF Bad
  <2>3. k \in Nat /\ k # 0 /\ ~Good(k)
    BY <1>1
  <2>4. k - 1 \in Nat /\ ~(k <= k - 1)
    BY <2>3
  <2>5. Good(k - 1)
    BY <2>2, <2>4
  <2>6. Good((k - 1) + 1)
    BY <1>2, <2>4, <2>5
  <2>7. (k - 1) + 1 = k
    BY <2>3
  <2> QED
    BY <2>3, <2>6, <2>7
<1>4. PICK f \in [D -> T] : \A x \in D : rank[x] < M + 1 => f[x] = step[f][x]
  BY <1>3
<1>5. \A x \in D : rank[x] < M + 1
  OBVIOUS
<1>6. f = step[f]
  BY <1>4, <1>5
<1> QED
  BY <1>6 DEF HasValue

-----------------------------------------------------------------------------------
(* Closures.                                                               *)

LEMMA ClosureHolds ==
  ASSUME NEW names \in SUBSET SchemaNames, NEW leads \in [SchemaNames -> SUBSET SchemaNames]
  PROVE  /\ Closure(names, leads) \subseteq SchemaNames
         /\ names \subseteq Closure(names, leads)
         /\ \A c \in Closure(names, leads) : leads[c] \subseteq Closure(names, leads)
         /\ \A C \in SUBSET SchemaNames :
              names \subseteq C /\ (\A c \in C : leads[c] \subseteq C)
                => Closure(names, leads) \subseteq C
  BY DEF Closure

(* What is reached from fewer names is reached from more. *)
LEMMA ClosureWithin ==
  ASSUME NEW names \in SUBSET SchemaNames, NEW more \in SUBSET SchemaNames,
         NEW leads \in [SchemaNames -> SUBSET SchemaNames],
         names \subseteq Closure(more, leads)
  PROVE  Closure(names, leads) \subseteq Closure(more, leads)
  BY ClosureHolds

-----------------------------------------------------------------------------------
(* Inlining. The code's recursion ends: down a schema its parts nest less  *)
(* deep, and where it goes on with another schema there is one name more   *)
(* that it has seen.                                                       *)

(* One schema inlined, given the same of its parts and of what is beyond   *)
(* its references.                                                         *)
InlinedAs(spec, seen, schema, inside, beyond) ==
  LET props  == [k \in DOMAIN schema.props |-> inside[schema.props[k]]]
      target == IF resolve_schema_ref(spec, schema.ref, seen)
                THEN beyond[seen \cup {schema.ref}][spec.components[schema.ref]]
                ELSE AnyObject
  IN  IF schema.ref = None THEN [schema EXCEPT !.props = props]
      ELSE Refined(target, schema, props)

IsInlining(spec, seen, beyond, f) ==
  f = [schema \in Schemas |-> InlinedAs(spec, seen, schema, f, beyond)]

LEMMA SubSchemas ==
  ASSUME NEW s \in Schemas
  PROVE  /\ s.ref \in SchemaNames \cup {None}
         /\ s = [ref |-> s.ref, type |-> s.type, props |-> s.props]
         /\ Depth[s] \in Nat /\ Depth[s] < MaxDepth + 1
         /\ \A k \in DOMAIN s.props :
              /\ s.props[k] \in Schemas
              /\ Depth[s.props[k]] \in Nat /\ Depth[s.props[k]] < Depth[s]
<1>1. \A t \in Schemas : Depth[t] \in 0..MaxDepth
  BY SchemasAssumption
<1>2. MaxDepth \in Nat
  BY SchemasAssumption
<1>3. \A k \in DOMAIN s.props : s.props[k] \in Schemas /\ Depth[s.props[k]] < Depth[s]
  BY SchemasAssumption
<1>4. s.ref \in SchemaNames \cup {None}
      /\ s = [ref |-> s.ref, type |-> s.type, props |-> s.props]
  BY SchemasAssumption
<1> QED
  BY <1>1, <1>2, <1>3, <1>4

(* Of any schemas, one whose parts are none of them: induction down schemas,*)
(* for a set of counterexamples.                                           *)
LEMMA Shallowest ==
  ASSUME NEW B \in SUBSET Schemas, B # {}
  PROVE  \E s \in B : \A k \in DOMAIN s.props : s.props[k] \in Schemas \ B
<1> DEFINE Depths == {Depth[s] : s \in B}
<1>1. Depths \in SUBSET Nat /\ Depths # {}
  BY SubSchemas
<1>2. PICK d \in Depths : \A e \in Depths : d <= e
  BY <1>1, LeastNatural
<1>3. PICK s \in B : Depth[s] = d
  BY <1>2
<1>4. ASSUME NEW k \in DOMAIN s.props PROVE s.props[k] \in Schemas \ B
  <2>1. /\ s.props[k] \in Schemas /\ Depth[s.props[k]] \in Nat /\ Depth[s] \in Nat
        /\ Depth[s.props[k]] < Depth[s]
    BY SubSchemas
  <2>2. ~(d <= Depth[s.props[k]])
    BY <1>3, <2>1
  <2> QED
    BY <1>2, <2>1, <2>2
<1> QED
  BY <1>4

LEMMA InsideOnly ==
  ASSUME NEW spec, NEW seen, NEW s \in Schemas, NEW beyond, NEW f, NEW g,
         \A k \in DOMAIN s.props : f[s.props[k]] = g[s.props[k]]
  PROVE  InlinedAs(spec, seen, s, f, beyond) = InlinedAs(spec, seen, s, g, beyond)
<1>1. [k \in DOMAIN s.props |-> f[s.props[k]]] = [k \in DOMAIN s.props |-> g[s.props[k]]]
  OBVIOUS
<1> QED
  BY <1>1 DEF InlinedAs

LEMMA InliningExists ==
  ASSUME NEW spec, NEW seen, NEW beyond
  PROVE  \E f : IsInlining(spec, seen, beyond, f)
<1> DEFINE As(s, f) == InlinedAs(spec, seen, s, f, beyond)
           Good(k) == \E f : /\ f = [s \in Schemas |-> f[s]]
                             /\ \A s \in Schemas : Depth[s] < k => f[s] = As(s, f)
           Bad == {k \in Nat : ~Good(k)}
<1>1. Good(0)
  <2> DEFINE f == [s \in Schemas |-> AnyObject]
  <2>1. f = [s \in Schemas |-> f[s]]
    OBVIOUS
  <2>2. \A s \in Schemas : ~(Depth[s] < 0)
    BY SubSchemas
  <2> HIDE DEF f
  <2> QED
    BY <2>1, <2>2
<1>2. ASSUME NEW k \in Nat, Good(k) PROVE Good(k + 1)
  <2>1. PICK f : /\ f = [s \in Schemas |-> f[s]]
                 /\ \A s \in Schemas : Depth[s] < k => f[s] = As(s, f)
    BY <1>2
  <2> DEFINE g == [s \in Schemas |-> As(s, f)]
  <2>2. \A s \in Schemas : g[s] = As(s, f)
    OBVIOUS
  <2>3. g = [s \in Schemas |-> g[s]]
    OBVIOUS
  <2> HIDE DEF g
  <2>4. ASSUME NEW s \in Schemas, Depth[s] < k + 1 PROVE g[s] = As(s, g)
    <3>1. ASSUME NEW key \in DOMAIN s.props PROVE f[s.props[key]] = g[s.props[key]]
      <4>1. /\ s.props[key] \in Schemas
            /\ Depth[s.props[key]] \in Nat /\ Depth[s] \in Nat /\ Depth[s.props[key]] < Depth[s]
        BY SubSchemas
      <4>2. Depth[s.props[key]] < k
        BY <2>4, <4>1
      <4> QED
        BY <2>1, <2>2, <4>1, <4>2
    <3>2. As(s, f) = As(s, g)
      BY <3>1, InsideOnly
    <3> QED
      BY <2>2, <3>2
  <2> QED
    BY <2>3, <2>4
<1>3. Good(MaxDepth + 1)
  <2>0. MaxDepth + 1 \in Nat
    BY SchemasAssumption
  <2> HIDE DEF Good
  <2> SUFFICES ASSUME ~Good(MaxDepth + 1) PROVE FALSE
    OBVIOUS
  <2>1. Bad \in SUBSET Nat /\ Bad # {}
    BY <2>0
  <2> HIDE DEF Bad
  <2>2. PICK k \in Bad : \A l \in Bad : k <= l
    BY <2>1, LeastNatural
  <2> USE DEF Bad
  <2>3. k \in Nat /\ k # 0 /\ ~Good(k)
    BY <1>1
  <2>4. k - 1 \in Nat /\ ~(k <= k - 1)
    BY <2>3
  <2>5. Good(k - 1)
    BY <2>2, <2>4
  <2>6. Good((k - 1) + 1)
    BY <1>2, <2>4, <2>5
  <2>7. (k - 1) + 1 = k
    BY <2>3
  <2> QED
    BY <2>3, <2>6, <2>7
<1>4. PICK f : /\ f = [s \in Schemas |-> f[s]]
               /\ \A s \in Schemas : Depth[s] < MaxDepth + 1 => f[s] = As(s, f)
  BY <1>3
<1>5. \A s \in Schemas : f[s] = As(s, f)
  BY <1>4, SubSchemas
<1>6. f = [s \in Schemas |-> As(s, f)]
  BY <1>4, <1>5
<1> QED
  BY <1>6 DEF IsInlining

(* There is one inlining and no other. *)
LEMMA InliningIsOne ==
  ASSUME NEW spec, NEW seen, NEW beyond, NEW f, NEW g,
         IsInlining(spec, seen, beyond, f), IsInlining(spec, seen, beyond, g)
  PROVE  f = g
<1> DEFINE As(s, h) == InlinedAs(spec, seen, s, h, beyond)
           Bad == {d \in Nat : \E s \in Schemas : Depth[s] = d /\ f[s] # g[s]}
<1>1. /\ f = [s \in Schemas |-> As(s, f)] /\ g = [s \in Schemas |-> As(s, g)]
      /\ \A s \in Schemas : f[s] = As(s, f) /\ g[s] = As(s, g)
  <2>1. f = [s \in Schemas |-> As(s, f)] /\ g = [s \in Schemas |-> As(s, g)]
    BY DEF IsInlining
  <2> HIDE DEF As
  <2>2. \A s \in Schemas : [t \in Schemas |-> As(t, f)][s] = As(s, f)
    OBVIOUS
  <2>3. \A s \in Schemas : [t \in Schemas |-> As(t, g)][s] = As(s, g)
    OBVIOUS
  <2> QED
    BY <2>1, <2>2, <2>3
<1>2. CASE Bad = {}
  <2>1. \A s \in Schemas : f[s] = g[s]
    BY <1>2, SubSchemas
  <2>2. f = [s \in Schemas |-> f[s]] /\ g = [s \in Schemas |-> g[s]]
    <3> HIDE DEF As
    <3> QED
      BY <1>1
  <2> QED
    BY <2>1, <2>2
<1>3. CASE Bad # {}
  <2>1. Bad \in SUBSET Nat
    OBVIOUS
  <2> HIDE DEF Bad
  <2>2. PICK d \in Bad : \A e \in Bad : d <= e
    BY <1>3, <2>1, LeastNatural
  <2> USE DEF Bad
  <2>3. PICK s \in Schemas : Depth[s] = d /\ f[s] # g[s]
    OBVIOUS
  <2>4. ASSUME NEW k \in DOMAIN s.props PROVE f[s.props[k]] = g[s.props[k]]
    <3>1. /\ s.props[k] \in Schemas /\ Depth[s.props[k]] \in Nat /\ Depth[s] \in Nat
          /\ Depth[s.props[k]] < Depth[s]
      BY SubSchemas
    <3>2. ~(d <= Depth[s.props[k]])
      BY <2>3, <3>1
    <3>3. Depth[s.props[k]] \notin Bad
      BY <2>2, <3>2
    <3> QED
      BY <3>1, <3>3
  <2>5. As(s, f) = As(s, g)
    BY <2>4, InsideOnly
  <2> QED
    BY <1>1, <2>3, <2>5
<1> QED
  BY <1>2, <1>3

(* The inlining of all schemas, with so many references seen. *)
Within(spec, seen, beyond) == CHOOSE f : IsInlining(spec, seen, beyond, f)

LEMMA WithinInlines ==
  ASSUME NEW spec, NEW seen, NEW beyond
  PROVE  IsInlining(spec, seen, beyond, Within(spec, seen, beyond))
  BY InliningExists DEF Within

(* How many names are yet to be seen. *)
Unseen(seen) == Cardinality(SchemaNames \ seen)

LEMMA UnseenShrinks ==
  ASSUME NEW seen \in SUBSET SchemaNames
  PROVE  /\ Unseen(seen) \in Nat /\ Unseen({}) \in Nat /\ Unseen(seen) < Unseen({}) + 1
         /\ \A n \in SchemaNames \ seen :
              /\ seen \cup {n} \in SUBSET SchemaNames
              /\ Unseen(seen \cup {n}) \in Nat /\ Unseen(seen \cup {n}) < Unseen(seen)
<1>1. IsFiniteSet(SchemaNames)
  BY SchemasAssumption
<1>2. IsFiniteSet(SchemaNames \ seen) /\ Cardinality(SchemaNames \ seen) <= Cardinality(SchemaNames)
  BY <1>1, FS_Subset
<1>3. Cardinality(SchemaNames \ seen) \in Nat /\ Cardinality(SchemaNames) \in Nat
  BY <1>1, <1>2, FS_CardinalityType
<1>4. SchemaNames \ {} = SchemaNames
  OBVIOUS
<1>5. ASSUME NEW n \in SchemaNames \ seen
      PROVE  Unseen(seen \cup {n}) \in Nat /\ Unseen(seen \cup {n}) < Unseen(seen)
  <2>1. SchemaNames \ (seen \cup {n}) = (SchemaNames \ seen) \ {n}
    OBVIOUS
  <2>2. Cardinality((SchemaNames \ seen) \ {n}) = Cardinality(SchemaNames \ seen) - 1
    BY <1>2, FS_RemoveElement
  <2>3. IsFiniteSet((SchemaNames \ seen) \ {n})
    BY <1>2, FS_RemoveElement
  <2>4. Cardinality((SchemaNames \ seen) \ {n}) \in Nat
    BY <2>3, FS_CardinalityType
  <2> QED
    BY <1>3, <2>1, <2>2, <2>4 DEF Unseen
<1> QED
  BY <1>2, <1>3, <1>4, <1>5 DEF Unseen

LEMMA SameBeyond ==
  ASSUME NEW spec \in Specs, NEW seen \in SUBSET SchemaNames, NEW F, NEW G,
         \A n \in SchemaNames \ seen : F[seen \cup {n}] = G[seen \cup {n}]
  PROVE  Within(spec, seen, F) = Within(spec, seen, G)
<1> DEFINE f == Within(spec, seen, F)
<1>1. IsInlining(spec, seen, F, f)
  BY WithinInlines
<1> HIDE DEF f
<1>2. ASSUME NEW s \in Schemas
      PROVE  InlinedAs(spec, seen, s, f, F) = InlinedAs(spec, seen, s, f, G)
  <2>1. resolve_schema_ref(spec, s.ref, seen) => s.ref \in SchemaNames \ seen
    BY SpecsAssumption DEF resolve_schema_ref
  <2> QED
    BY <2>1 DEF InlinedAs
<1>3. [s \in Schemas |-> InlinedAs(spec, seen, s, f, F)]
        = [s \in Schemas |-> InlinedAs(spec, seen, s, f, G)]
  BY <1>2
<1>4. IsInlining(spec, seen, G, f)
  BY <1>1, <1>3 DEF IsInlining
<1>5. IsInlining(spec, seen, G, Within(spec, seen, G))
  BY WithinInlines
<1> QED
  BY <1>4, <1>5, InliningIsOne DEF f

LEMMA InlineRefsExist ==
  ASSUME NEW spec \in Specs
  PROVE  \E F : F = [seen \in SUBSET SchemaNames |-> Within(spec, seen, F)]
<1> DEFINE Good(k) == \E F : /\ F = [seen \in SUBSET SchemaNames |-> F[seen]]
                             /\ \A seen \in SUBSET SchemaNames :
                                  Unseen(seen) < k => F[seen] = Within(spec, seen, F)
           Bad == {k \in Nat : ~Good(k)}
<1>1. Good(0)
  <2> DEFINE F == [seen \in SUBSET SchemaNames |-> AnyObject]
  <2>1. F = [seen \in SUBSET SchemaNames |-> F[seen]]
    OBVIOUS
  <2>2. \A seen \in SUBSET SchemaNames : ~(Unseen(seen) < 0)
    BY UnseenShrinks
  <2> HIDE DEF F
  <2> QED
    BY <2>1, <2>2
<1>2. ASSUME NEW k \in Nat, Good(k) PROVE Good(k + 1)
  <2>1. PICK F : /\ F = [seen \in SUBSET SchemaNames |-> F[seen]]
                 /\ \A seen \in SUBSET SchemaNames :
                      Unseen(seen) < k => F[seen] = Within(spec, seen, F)
    BY <1>2
  <2> DEFINE G == [seen \in SUBSET SchemaNames |-> Within(spec, seen, F)]
  <2>2. \A seen \in SUBSET SchemaNames : G[seen] = Within(spec, seen, F)
    OBVIOUS
  <2>3. G = [seen \in SUBSET SchemaNames |-> G[seen]]
    OBVIOUS
  <2> HIDE DEF G
  <2>4. ASSUME NEW seen \in SUBSET SchemaNames, Unseen(seen) < k + 1
        PROVE  G[seen] = Within(spec, seen, G)
    <3>1. ASSUME NEW n \in SchemaNames \ seen PROVE F[seen \cup {n}] = G[seen \cup {n}]
      <4>1. /\ seen \cup {n} \in SUBSET SchemaNames
            /\ Unseen(seen) \in Nat /\ Unseen(seen \cup {n}) \in Nat
            /\ Unseen(seen \cup {n}) < Unseen(seen)
        BY UnseenShrinks
      <4>2. Unseen(seen \cup {n}) < k
        BY <2>4, <4>1
      <4> QED
        BY <2>1, <2>2, <4>1, <4>2
    <3>2. Within(spec, seen, F) = Within(spec, seen, G)
      BY <3>1, SameBeyond
    <3> QED
      BY <2>2, <3>2
  <2> QED
    BY <2>3, <2>4
<1> DEFINE All == Unseen({}) + 1
<1>3. All \in Nat
  BY UnseenShrinks
<1> HIDE DEF All
<1>4. Good(All)
  <2> HIDE DEF Good
  <2> SUFFICES ASSUME ~Good(All) PROVE FALSE
    OBVIOUS
  <2>1. Bad \in SUBSET Nat /\ Bad # {}
    BY <1>3
  <2> HIDE DEF Bad
  <2>2. PICK k \in Bad : \A l \in Bad : k <= l
    BY <2>1, LeastNatural
  <2> USE DEF Bad
  <2>3. k \in Nat /\ k # 0 /\ ~Good(k)
    BY <1>1
  <2>4. k - 1 \in Nat /\ ~(k <= k - 1)
    BY <2>3
  <2>5. Good(k - 1)
    BY <2>2, <2>4
  <2>6. Good((k - 1) + 1)
    BY <1>2, <2>4, <2>5
  <2>7. (k - 1) + 1 = k
    BY <2>3
  <2> QED
    BY <2>3, <2>6, <2>7
<1>5. PICK F : /\ F = [seen \in SUBSET SchemaNames |-> F[seen]]
               /\ \A seen \in SUBSET SchemaNames :
                    Unseen(seen) < All => F[seen] = Within(spec, seen, F)
  BY <1>4
<1>6. \A seen \in SUBSET SchemaNames : F[seen] = Within(spec, seen, F)
  BY <1>5, UnseenShrinks DEF All
<1>7. F = [seen \in SUBSET SchemaNames |-> Within(spec, seen, F)]
  BY <1>5, <1>6
<1> QED
  BY <1>7

(* What the model's definition of inlining comes to. *)
LEMMA InliningEquation ==
  ASSUME NEW spec \in Specs, NEW seen \in SUBSET SchemaNames, NEW s \in Schemas
  PROVE  InlineRefs(spec)[seen][s]
           = InlinedAs(spec, seen, s, InlineRefs(spec)[seen], InlineRefs(spec))
<1> DEFINE F == CHOOSE F : F = [sn \in SUBSET SchemaNames |-> Within(spec, sn, F)]
<1>1. InlineRefs(spec) = F
  BY DEF InlineRefs, Within, IsInlining, InlinedAs
<1>2. F = [sn \in SUBSET SchemaNames |-> Within(spec, sn, F)]
  BY InlineRefsExist
<1> HIDE DEF F
<1>3. F[seen] = Within(spec, seen, F)
  BY <1>2
<1>4. IsInlining(spec, seen, F, F[seen])
  BY <1>3, WithinInlines
<1> DEFINE f == F[seen]
<1>5. f = [t \in Schemas |-> InlinedAs(spec, seen, t, f, F)]
  BY <1>4 DEF IsInlining
<1> HIDE DEF f
<1>6. f[s] = InlinedAs(spec, seen, s, f, F)
  BY <1>5
<1> QED
  BY <1>1, <1>6 DEF f

(* The type and the parts of an inlined schema. *)
LEMMA InlinedParts ==
  ASSUME NEW spec \in Specs, NEW seen \in SUBSET SchemaNames, NEW s \in Schemas
  PROVE  LET it     == InlineRefs(spec)[seen][s]
             target == IF resolve_schema_ref(spec, s.ref, seen)
                       THEN InlineRefs(spec)[seen \cup {s.ref}][spec.components[s.ref]]
                       ELSE AnyObject
         IN  /\ it.type = IF s.ref = None \/ s.type # "any" THEN s.type ELSE target.type
             /\ s.ref = None \/ DOMAIN s.props # {} =>
                  it.props = [k \in DOMAIN s.props |-> InlineRefs(spec)[seen][s.props[k]]]
             /\ s.ref # None /\ DOMAIN s.props = {} => it.props = target.props
<1> DEFINE props  == [k \in DOMAIN s.props |-> InlineRefs(spec)[seen][s.props[k]]]
           target == IF resolve_schema_ref(spec, s.ref, seen)
                     THEN InlineRefs(spec)[seen \cup {s.ref}][spec.components[s.ref]]
                     ELSE AnyObject
           it     == InlineRefs(spec)[seen][s]
<1>1. it = IF s.ref = None THEN [s EXCEPT !.props = props] ELSE Refined(target, s, props)
  BY InliningEquation DEF InlinedAs
<1>2. DOMAIN props = DOMAIN s.props
  OBVIOUS
<1>3. s = [ref |-> s.ref, type |-> s.type, props |-> s.props]
  BY SubSchemas
<1> HIDE DEF props, target, it
<1>4. CASE s.ref = None
  <2>1. it = [s EXCEPT !.props = props]
    BY <1>1, <1>4
  <2>2. it.type = s.type /\ it.props = props
    BY <1>3, <2>1
  <2> QED
    BY <1>4, <2>2 DEF it, props, target
<1>5. CASE s.ref # None
  <2>1. it = Refined(target, s, props)
    BY <1>1, <1>5
  <2>2. /\ it.type = IF s.type = "any" THEN target.type ELSE s.type
        /\ it.props = IF DOMAIN props = {} THEN target.props ELSE props
    BY <2>1 DEF Refined
  <2> QED
    BY <1>2, <1>5, <2>2 DEF it, props, target
<1> QED
  BY <1>4, <1>5

-----------------------------------------------------------------------------------
(* Conforming and honouring.                                               *)

LEMMA Members ==
  ASSUME NEW v \in Values
  PROVE  /\ Depth[v] \in 0..MaxDepth /\ MaxDepth \in Nat
         /\ \A k \in DOMAIN v.members : v.members[k] \in Values /\ Depth[v.members[k]] < Depth[v]
  BY SchemasAssumption

LEMMA ConformsEquation ==
  ASSUME NEW spec
  PROVE  /\ ConformsTo(spec) \in [Values -> [Inlined(spec) -> BOOLEAN]]
         /\ \A v \in Values : \A t \in Inlined(spec) :
              ConformsTo(spec)[v][t] = Fits(v, t, ConformsTo(spec))
<1> DEFINE T    == [Inlined(spec) -> BOOLEAN]
           Step(f) == [v \in Values |-> [t \in Inlined(spec) |-> Fits(v, t, f)]]
           step == [f \in [Values -> T] |-> Step(f)]
           rank == [v \in Values |-> Depth[v]]
<1>1. ASSUME NEW f PROVE Step(f) \in [Values -> T]
  <2>1. ASSUME NEW v, NEW t PROVE Fits(v, t, f) \in BOOLEAN
    BY DEF Fits
  <2> QED
    BY <2>1
<1>2. step \in [[Values -> T] -> [Values -> T]]
  BY <1>1
<1>3. rank \in [Values -> 0..MaxDepth] /\ MaxDepth \in Nat
  BY SchemasAssumption, Members
<1>4. [t \in Inlined(spec) |-> TRUE] \in T
  OBVIOUS
<1>5. ASSUME NEW f \in [Values -> T], NEW g \in [Values -> T], NEW v \in Values,
             \A w \in Values : rank[w] < rank[v] => f[w] = g[w]
      PROVE  step[f][v] = step[g][v]
  <2>1. \A k \in DOMAIN v.members : f[v.members[k]] = g[v.members[k]]
    BY <1>5, Members
  <2>2. ASSUME NEW t PROVE Fits(v, t, f) = Fits(v, t, g)
    BY <2>1 DEF Fits
  <2>3. [t \in Inlined(spec) |-> Fits(v, t, f)] = [t \in Inlined(spec) |-> Fits(v, t, g)]
    BY <2>2
  <2>4. step[f][v] = [t \in Inlined(spec) |-> Fits(v, t, f)]
    OBVIOUS
  <2>5. step[g][v] = [t \in Inlined(spec) |-> Fits(v, t, g)]
    OBVIOUS
  <2> QED
    BY <2>3, <2>4, <2>5
<1> HIDE DEF T, rank, step, Step
<1>6. HasValue(Values, T, step)
  <2>1. T # {}
    BY <1>4
  <2>2. LooksLower(Values, T, MaxDepth, rank, step)
    BY <1>2, <1>3, <1>5, <2>1 DEF LooksLower
  <2> QED
    BY <2>2, RecursionByRank
<1>7. \E f : f = Step(f)
  BY <1>6 DEF HasValue, step
<1> USE DEF Step
<1> DEFINE C == CHOOSE f : f = Step(f)
<1>8. C = Step(C)
  BY <1>7
<1>9. ConformsTo(spec) = C
  BY DEF ConformsTo
<1> HIDE DEF C
<1>10. C \in [Values -> T]
  BY <1>1, <1>8
<1>11. \A v \in Values : \A t \in Inlined(spec) : C[v][t] = Fits(v, t, C)
  BY <1>8
<1> QED
  BY <1>9, <1>10, <1>11 DEF T

LEMMA Leads ==
  ASSUME NEW spec \in Specs, NEW refs \in [Schemas -> SUBSET SchemaNames]
  PROVE  /\ Leading(spec, refs) \in [SchemaNames -> SUBSET SchemaNames]
         /\ \A n \in DOMAIN spec.components :
              /\ n \in SchemaNames /\ spec.components[n] \in Schemas
              /\ Leading(spec, refs)[n] = refs[spec.components[n]]
  BY SpecsAssumption DEF Leading

LEMMA RefsOfSchemas ==
  /\ [s \in Schemas |-> RefOf(s)] \in [Schemas -> SUBSET SchemaNames]
  /\ \A s \in Schemas : RefOf(s) \in SUBSET SchemaNames
  BY SubSchemas DEF RefOf

(* What a reference leads to is led to by every schema that has it. *)
LEMMA LedOn ==
  ASSUME NEW spec \in Specs, NEW s \in Schemas, s.ref # None,
         s.ref \in DOMAIN spec.components
  PROVE  /\ spec.components[s.ref] \in Schemas
         /\ s.ref \in LedTo(spec, s)
         /\ LedTo(spec, spec.components[s.ref]) \subseteq LedTo(spec, s)
         /\ AllOf(spec, spec.components[s.ref]) \subseteq AllOf(spec, s)
<1> DEFINE refs  == [t \in Schemas |-> RefOf(t)]
           leads == Leading(spec, refs)
           c     == spec.components[s.ref]
<1>1. refs \in [Schemas -> SUBSET SchemaNames] /\ \A t \in Schemas : refs[t] = RefOf(t)
  BY RefsOfSchemas
<1> HIDE DEF refs
<1>2. /\ leads \in [SchemaNames -> SUBSET SchemaNames] /\ s.ref \in SchemaNames
      /\ c \in Schemas /\ leads[s.ref] = refs[c]
  BY <1>1, Leads
<1> HIDE DEF leads
<1>3. RefOf(s) = {s.ref} /\ RefOf(s) \in SUBSET SchemaNames /\ RefOf(c) \in SUBSET SchemaNames
  BY <1>2, RefsOfSchemas DEF RefOf
<1>4. s.ref \in Closure(RefOf(s), leads)
  BY <1>2, <1>3, ClosureHolds
<1>5. leads[s.ref] \subseteq Closure(RefOf(s), leads)
  BY <1>2, <1>3, <1>4, ClosureHolds
<1>6. Closure(RefOf(c), leads) \subseteq Closure(RefOf(s), leads)
  <2>1. leads[s.ref] = RefOf(c)
    BY <1>1, <1>2
  <2>2. RefOf(c) \subseteq Closure(RefOf(s), leads)
    BY <1>5, <2>1
  <2> HIDE DEF c
  <2> QED
    BY <1>2, <1>3, <2>2, ClosureWithin
<1>7. LedTo(spec, s) = Closure(RefOf(s), leads) /\ LedTo(spec, c) = Closure(RefOf(c), leads)
  BY DEF LedTo, leads, refs
<1>8. AllOf(spec, c) \subseteq AllOf(spec, s)
  BY <1>4, <1>6, <1>7 DEF AllOf
<1> QED
  BY <1>2, <1>4, <1>6, <1>7, <1>8

LEMMA HonoursEquation ==
  ASSUME NEW spec, NEW v \in Values, NEW s \in Schemas
  PROVE  Honours(spec, v, s) <=>
           /\ LedTo(spec, s) \subseteq DOMAIN spec.components
           /\ \A t \in AllOf(spec, s) : Fits(v, t, HonoursTo(spec))
<1> DEFINE T    == [Schemas -> BOOLEAN]
           Is(w, t, f) == /\ LedTo(spec, t) \subseteq DOMAIN spec.components
                          /\ \A u \in AllOf(spec, t) : Fits(w, u, f)
           Step(f) == [w \in Values |-> [t \in Schemas |-> Is(w, t, f)]]
           step == [f \in [Values -> T] |-> Step(f)]
           rank == [w \in Values |-> Depth[w]]
<1>1. ASSUME NEW f PROVE Step(f) \in [Values -> T]
  OBVIOUS
<1>2. step \in [[Values -> T] -> [Values -> T]]
  BY <1>1
<1>3. rank \in [Values -> 0..MaxDepth] /\ MaxDepth \in Nat
  BY SchemasAssumption, Members
<1>4. [t \in Schemas |-> TRUE] \in T
  OBVIOUS
<1>5. ASSUME NEW f \in [Values -> T], NEW g \in [Values -> T], NEW w \in Values,
             \A x \in Values : rank[x] < rank[w] => f[x] = g[x]
      PROVE  step[f][w] = step[g][w]
  <2>1. \A k \in DOMAIN w.members : f[w.members[k]] = g[w.members[k]]
    BY <1>5, Members
  <2>2. ASSUME NEW t PROVE Fits(w, t, f) = Fits(w, t, g)
    BY <2>1 DEF Fits
  <2>3. [t \in Schemas |-> Is(w, t, f)] = [t \in Schemas |-> Is(w, t, g)]
    BY <2>2
  <2> HIDE DEF Is
  <2>4. step[f][w] = [t \in Schemas |-> Is(w, t, f)]
    OBVIOUS
  <2>5. step[g][w] = [t \in Schemas |-> Is(w, t, g)]
    OBVIOUS
  <2> QED
    BY <2>3, <2>4, <2>5
<1> HIDE DEF T, rank, step, Step
<1>6. HasValue(Values, T, step)
  <2>1. T # {}
    BY <1>4
  <2>2. LooksLower(Values, T, MaxDepth, rank, step)
    BY <1>2, <1>3, <1>5, <2>1 DEF LooksLower
  <2> QED
    BY <2>2, RecursionByRank
<1>7. \E f : f = Step(f)
  BY <1>6 DEF HasValue, step
<1> USE DEF Step
<1> DEFINE H == CHOOSE f : f = Step(f)
<1>8. H = Step(H)
  BY <1>7
<1>9. HonoursTo(spec) = H
  BY DEF HonoursTo
<1> HIDE DEF H
<1>10. H[v][s] <=> Is(v, s, H)
  <2> HIDE DEF Is
  <2>1. H[v] = [t \in Schemas |-> Is(v, t, H)]
    BY <1>8
  <2>2. H[v][s] = Is(v, s, H)
    BY <2>1
  <2> QED
    BY <2>2
<1> QED
  BY <1>9, <1>10 DEF Honours

-----------------------------------------------------------------------------------
(* What a schema mentions and what is reached from it.                     *)

LEMMA MentionedEquation ==
  /\ Mentioned \in [Schemas -> SUBSET SchemaNames]
  /\ \A s \in Schemas :
       Mentioned[s] = RefOf(s) \cup UNION {Mentioned[s.props[k]] : k \in DOMAIN s.props}
<1> DEFINE T    == SUBSET SchemaNames
           In(s, f) == RefOf(s) \cup UNION {f[s.props[k]] : k \in DOMAIN s.props}
           Step(f) == [s \in Schemas |-> In(s, f)]
           step == [f \in [Schemas -> T] |-> Step(f)]
           rank == [s \in Schemas |-> Depth[s]]
<1>1. ASSUME NEW f \in [Schemas -> T] PROVE Step(f) \in [Schemas -> T]
  <2>1. ASSUME NEW s \in Schemas PROVE In(s, f) \in T
    <3>1. \A k \in DOMAIN s.props : s.props[k] \in Schemas
      BY SubSchemas
    <3>2. \A k \in DOMAIN s.props : f[s.props[k]] \in T
      BY <3>1
    <3>3. UNION {f[s.props[k]] : k \in DOMAIN s.props} \subseteq SchemaNames
      BY <3>2
    <3> QED
      BY <3>3, RefsOfSchemas
  <2> QED
    BY <2>1
<1>2. step \in [[Schemas -> T] -> [Schemas -> T]]
  <2> HIDE DEF Step, T
  <2> QED
    BY <1>1
<1>3. rank \in [Schemas -> 0..MaxDepth] /\ MaxDepth \in Nat
  BY SchemasAssumption
<1>4. T # {}
  OBVIOUS
<1>5. ASSUME NEW f \in [Schemas -> T], NEW g \in [Schemas -> T], NEW s \in Schemas,
             \A x \in Schemas : rank[x] < rank[s] => f[x] = g[x]
      PROVE  step[f][s] = step[g][s]
  <2>1. \A k \in DOMAIN s.props : f[s.props[k]] = g[s.props[k]]
    BY <1>5, SubSchemas
  <2>2. {f[s.props[k]] : k \in DOMAIN s.props} = {g[s.props[k]] : k \in DOMAIN s.props}
    BY <2>1
  <2>3. In(s, f) = In(s, g)
    BY <2>2
  <2> HIDE DEF In
  <2>4. step[f][s] = In(s, f) /\ step[g][s] = In(s, g)
    OBVIOUS
  <2> QED
    BY <2>3, <2>4
<1> HIDE DEF T, rank, step, Step
<1>6. HasValue(Schemas, T, step)
  <2>1. LooksLower(Schemas, T, MaxDepth, rank, step)
    BY <1>2, <1>3, <1>4, <1>5 DEF LooksLower
  <2> QED
    BY <2>1, RecursionByRank
<1>7. \E f : f = Step(f)
  BY <1>6 DEF HasValue, step
<1>8. Mentioned = CHOOSE f : f = Step(f)
  BY DEF Mentioned, Step
<1>9. Mentioned = Step(Mentioned)
  BY <1>7, <1>8
<1>10. \A s \in Schemas : Mentioned[s] = In(s, Mentioned)
  <2> HIDE DEF In
  <2>1. Mentioned = [s \in Schemas |-> In(s, Mentioned)]
    BY <1>9 DEF Step
  <2> QED
    BY <2>1
<1>11. Mentioned = [s \in Schemas |-> Mentioned[s]]
  <2> HIDE DEF In
  <2> QED
    BY <1>9, <1>10 DEF Step
<1>12. \A s \in Schemas : Mentioned[s] \in SUBSET SchemaNames
  <2> DEFINE B == {s \in Schemas : Mentioned[s] \notin SUBSET SchemaNames}
  <2> SUFFICES ASSUME B # {} PROVE FALSE
    OBVIOUS
  <2>1. PICK s \in B : \A k \in DOMAIN s.props : s.props[k] \in Schemas \ B
    BY Shallowest
  <2>2. \A k \in DOMAIN s.props : Mentioned[s.props[k]] \in SUBSET SchemaNames
    BY <2>1
  <2>3. UNION {Mentioned[s.props[k]] : k \in DOMAIN s.props} \subseteq SchemaNames
    BY <2>2
  <2>4. Mentioned[s] \in SUBSET SchemaNames
    BY <1>10, <2>3, RefsOfSchemas
  <2> QED
    BY <2>4
<1>13. Mentioned \in [Schemas -> SUBSET SchemaNames]
  <2>1. [s \in Schemas |-> Mentioned[s]] \in [Schemas -> SUBSET SchemaNames]
    BY <1>12
  <2> QED
    BY <1>11, <2>1
<1> QED
  BY <1>10, <1>13

(* What is reached from the parts of a schema, and from the targets of what *)
(* is reached from it, is reached from it.                                 *)
LEMMA ReachedOn ==
  ASSUME NEW spec \in Specs, NEW s \in Schemas
  PROVE  /\ RefOf(s) \subseteq Reached(spec, s)
         /\ \A k \in DOMAIN s.props : Reached(spec, s.props[k]) \subseteq Reached(spec, s)
         /\ \A n \in Reached(spec, s) \cap DOMAIN spec.components :
              Reached(spec, spec.components[n]) \subseteq Reached(spec, s)
<1> DEFINE leads == Leading(spec, Mentioned)
<1>1. Mentioned \in [Schemas -> SUBSET SchemaNames] /\ Mentioned[s] \in SUBSET SchemaNames
  BY MentionedEquation
<1>2. /\ leads \in [SchemaNames -> SUBSET SchemaNames]
      /\ \A n \in DOMAIN spec.components :
           /\ n \in SchemaNames /\ spec.components[n] \in Schemas
           /\ leads[n] = Mentioned[spec.components[n]]
  BY <1>1, Leads
<1> HIDE DEF leads
<1>3. \A t \in Schemas : Reached(spec, t) = Closure(Mentioned[t], leads)
  BY DEF Reached, leads
<1>4. Mentioned[s] \subseteq Reached(spec, s)
  BY <1>1, <1>2, <1>3, ClosureHolds
<1>5. RefOf(s) \subseteq Reached(spec, s)
  BY <1>4, MentionedEquation
<1>6. ASSUME NEW k \in DOMAIN s.props
      PROVE  Reached(spec, s.props[k]) \subseteq Reached(spec, s)
  <2>1. s.props[k] \in Schemas
    BY SubSchemas
  <2>2. Mentioned[s.props[k]] \subseteq Mentioned[s]
    BY MentionedEquation
  <2>3. Mentioned[s.props[k]] \subseteq Closure(Mentioned[s], leads)
    BY <1>3, <1>4, <2>2
  <2>4. Mentioned[s.props[k]] \in SUBSET SchemaNames
    BY <1>1, <2>1
  <2> QED
    BY <1>1, <1>2, <1>3, <2>1, <2>3, <2>4, ClosureWithin
<1>7. ASSUME NEW n \in Reached(spec, s) \cap DOMAIN spec.components
      PROVE  Reached(spec, spec.components[n]) \subseteq Reached(spec, s)
  <2> DEFINE c == spec.components[n]
  <2>1. c \in Schemas /\ leads[n] = Mentioned[c]
    BY <1>2
  <2>2. Mentioned[c] \in SUBSET SchemaNames
    BY <1>1, <2>1
  <2>3. n \in Closure(Mentioned[s], leads)
    BY <1>3
  <2>4. leads[n] \subseteq Closure(Mentioned[s], leads)
    BY <1>1, <1>2, <2>3, ClosureHolds
  <2>5. Mentioned[c] \subseteq Closure(Mentioned[s], leads)
    BY <2>1, <2>4
  <2> HIDE DEF c
  <2>6. Closure(Mentioned[c], leads) \subseteq Closure(Mentioned[s], leads)
    BY <1>1, <1>2, <2>2, <2>5, ClosureWithin
  <2>7. Reached(spec, c) \subseteq Reached(spec, s)
    BY <1>3, <2>1, <2>6
  <2> QED
    BY <2>7 DEF c
<1> QED
  BY <1>5, <1>6, <1>7

-----------------------------------------------------------------------------------
(* What honours a schema conforms to its inlined copy.                     *)

(* The references seen are those the inlining went through to get here.    *)
WentThrough(spec, seen, s) ==
  \A n \in seen :
    n \in DOMAIN spec.components /\ Reached(spec, s) \subseteq Reached(spec, spec.components[n])

Admits(spec, seen, s) ==
  StopsAtObjects(spec, s) /\ WentThrough(spec, seen, s) =>
    \A v \in Values :
      Honours(spec, v, s) => Conforms(spec, v, InlineRefs(spec)[seen][s])

(* A value whose members honour the parts of a schema conforms to the copy *)
(* when they do.                                                           *)
LEMMA PartsConform ==
  ASSUME NEW spec \in Specs, NEW seen \in SUBSET SchemaNames, NEW s \in Schemas,
         NEW v \in Values, NEW it, Fits(v, s, HonoursTo(spec)),
         StopsAtObjects(spec, s), WentThrough(spec, seen, s),
         \A k \in DOMAIN s.props : Admits(spec, seen, s.props[k]),
         it.type \in {"any", v.type},
         it.props = [k \in DOMAIN s.props |-> InlineRefs(spec)[seen][s.props[k]]]
  PROVE  Conforms(spec, v, it)
<1>1. DOMAIN it.props = DOMAIN s.props
  OBVIOUS
<1>2. ASSUME NEW k \in DOMAIN s.props \cap DOMAIN v.members
      PROVE  ConformsTo(spec)[v.members[k]][it.props[k]]
  <2> DEFINE w == v.members[k]
             t == s.props[k]
             copy == InlineRefs(spec)[seen][t]
  <2>1. w \in Values /\ t \in Schemas /\ it.props[k] = copy
    BY Members, SubSchemas
  <2>2. copy \in Inlined(spec)
    BY <2>1 DEF Inlined
  <2>3. Honours(spec, w, t)
    BY DEF Fits, Honours
  <2>4. StopsAtObjects(spec, t) /\ WentThrough(spec, seen, t)
    BY ReachedOn DEF StopsAtObjects, WentThrough
  <2>5. Conforms(spec, w, copy)
    <3>1. Admits(spec, seen, t)
      OBVIOUS
    <3> HIDE DEF w, t, copy
    <3> QED
      BY <2>1, <2>3, <2>4, <3>1 DEF Admits, copy
  <2> HIDE DEF copy, w
  <2>6. ConformsTo(spec)[w][copy]
    BY <2>1, <2>2, <2>5, ConformsEquation DEF Conforms
  <2> QED
    BY <2>1, <2>6 DEF w
<1> QED
  BY <1>1, <1>2 DEF Conforms, Fits

(* One schema inlined, when all it is inlined from does.                   *)
LEMMA InliningStep ==
  ASSUME NEW spec \in Specs, NEW seen \in SUBSET SchemaNames, NEW s \in Schemas,
         \A k \in DOMAIN s.props : Admits(spec, seen, s.props[k]),
         resolve_schema_ref(spec, s.ref, seen) =>
           Admits(spec, seen \cup {s.ref}, spec.components[s.ref])
  PROVE  Admits(spec, seen, s)
<1> SUFFICES ASSUME StopsAtObjects(spec, s), WentThrough(spec, seen, s),
                    NEW v \in Values, Honours(spec, v, s)
             PROVE  Conforms(spec, v, InlineRefs(spec)[seen][s])
  BY DEF Admits
<1> DEFINE it     == InlineRefs(spec)[seen][s]
           target == IF resolve_schema_ref(spec, s.ref, seen)
                     THEN InlineRefs(spec)[seen \cup {s.ref}][spec.components[s.ref]]
                     ELSE AnyObject
           props  == [k \in DOMAIN s.props |-> InlineRefs(spec)[seen][s.props[k]]]
<1>1. /\ it.type = IF s.ref = None \/ s.type # "any" THEN s.type ELSE target.type
      /\ s.ref = None \/ DOMAIN s.props # {} => it.props = props
      /\ s.ref # None /\ DOMAIN s.props = {} => it.props = target.props
  BY InlinedParts
<1>2. /\ LedTo(spec, s) \subseteq DOMAIN spec.components
      /\ \A t \in AllOf(spec, s) : Fits(v, t, HonoursTo(spec))
  BY HonoursEquation
<1>3. Fits(v, s, HonoursTo(spec))
  BY <1>2 DEF AllOf
<1>4. s.type \in {"any", v.type}
  BY <1>3 DEF Fits
<1>5. \A copy : copy.type \in {"any", v.type} /\ copy.props = props => Conforms(spec, v, copy)
  BY <1>3, PartsConform
<1>6. CASE s.ref = None
  <2>1. it.type \in {"any", v.type} /\ it.props = props
    BY <1>1, <1>4, <1>6
  <2> HIDE DEF it, props
  <2> QED
    BY <1>5, <2>1 DEF it
<1>7. CASE s.ref # None
  <2>1. s.ref \in Reached(spec, s)
    BY <1>7, ReachedOn DEF RefOf
  <2>2. s.ref \in DOMAIN spec.components
    BY <2>1 DEF StopsAtObjects
  <2> DEFINE c == spec.components[s.ref]
  <2>3. /\ c \in Schemas /\ s.ref \in LedTo(spec, s) /\ s.ref \in SchemaNames
        /\ LedTo(spec, c) \subseteq LedTo(spec, s) /\ AllOf(spec, c) \subseteq AllOf(spec, s)
    BY <1>7, <2>2, LedOn, SubSchemas
  <2>4. Conforms(spec, v, target)
    <3>1. CASE resolve_schema_ref(spec, s.ref, seen)
      <4>1. Honours(spec, v, c)
        BY <1>2, <2>3, HonoursEquation
      <4>2. Reached(spec, c) \subseteq Reached(spec, s)
        BY <2>1, <2>2, ReachedOn
      <4>3. StopsAtObjects(spec, c) /\ WentThrough(spec, seen \cup {s.ref}, c)
        BY <2>2, <4>2 DEF StopsAtObjects, WentThrough
      <4>4. Admits(spec, seen \cup {s.ref}, c)
        BY <3>1
      <4>5. Conforms(spec, v, InlineRefs(spec)[seen \cup {s.ref}][c])
        <5> HIDE DEF c
        <5> QED
          BY <4>1, <4>3, <4>4 DEF Admits
      <4> QED
        BY <3>1, <4>5
    <3>2. CASE ~resolve_schema_ref(spec, s.ref, seen)
      <4>1. s.ref \in seen
        BY <2>2, <3>2 DEF resolve_schema_ref
      <4>2. s.ref \in Reached(spec, c)
        BY <2>1, <4>1 DEF WentThrough
      <4>3. c.type = "object"
        BY <2>1, <4>2 DEF StopsAtObjects
      <4>4. c \in AllOf(spec, s)
        BY <2>3 DEF AllOf
      <4>5. v.type = "object"
        <5>1. Fits(v, c, HonoursTo(spec))
          BY <1>2, <4>4
        <5>2. c.type \in {"any", v.type}
          BY <5>1 DEF Fits
        <5> QED
          BY <4>3, <5>2
      <4>6. target = AnyObject
        BY <3>2
      <4>7. AnyObject.type = "object" /\ DOMAIN AnyObject.props = {}
        BY DEF AnyObject, Object
      <4> HIDE DEF target
      <4> QED
        BY <4>5, <4>6, <4>7 DEF Conforms, Fits
    <3> QED
      BY <3>1, <3>2
  <2> HIDE DEF target, c
  <2>5. target.type \in {"any", v.type}
    BY <2>4 DEF Conforms, Fits
  <2>6. it.type \in {"any", v.type}
    BY <1>1, <1>4, <1>7, <2>5
  <2>7. CASE DOMAIN s.props = {}
    <3>1. it.props = target.props
      BY <1>1, <1>7, <2>7
    <3> HIDE DEF it
    <3>2. Conforms(spec, v, it)
      BY <2>4, <2>6, <3>1 DEF Conforms, Fits
    <3> QED
      BY <3>2 DEF it
  <2>8. CASE DOMAIN s.props # {}
    <3>1. it.props = props
      BY <1>1, <2>8
    <3> HIDE DEF it, props
    <3> QED
      BY <1>5, <2>6, <3>1 DEF it
  <2> QED
    BY <2>7, <2>8
<1> QED
  BY <1>6, <1>7

(* However deep, and however many references were seen. *)
LEMMA InliningAdmits ==
  ASSUME NEW spec \in Specs
  PROVE  \A seen \in SUBSET SchemaNames : \A s \in Schemas : Admits(spec, seen, s)
<1> DEFINE Not(seen) == {s \in Schemas : ~Admits(spec, seen, s)}
           Some == {seen \in SUBSET SchemaNames : Not(seen) # {}}
           Counts == {Unseen(seen) : seen \in Some}
<1> SUFFICES ASSUME Some # {} PROVE FALSE
  OBVIOUS
<1>1. Counts \in SUBSET Nat /\ Counts # {}
  BY UnseenShrinks
<1>2. PICK seen \in Some : \A other \in Some : Unseen(seen) <= Unseen(other)
  <2> HIDE DEF Some
  <2>1. PICK n \in Counts : \A m \in Counts : n <= m
    BY <1>1, LeastNatural
  <2>2. PICK seen \in Some : Unseen(seen) = n
    BY <2>1
  <2> QED
    BY <2>1, <2>2
<1>3. Not(seen) \in SUBSET Schemas /\ Not(seen) # {} /\ seen \in SUBSET SchemaNames
  OBVIOUS
<1>4. PICK s \in Not(seen) : \A k \in DOMAIN s.props : s.props[k] \in Schemas \ Not(seen)
  <2> HIDE DEF Not
  <2> QED
    BY <1>3, Shallowest
<1>5. s \in Schemas /\ \A k \in DOMAIN s.props : Admits(spec, seen, s.props[k])
  BY <1>4
<1>6. ASSUME resolve_schema_ref(spec, s.ref, seen)
      PROVE  Admits(spec, seen \cup {s.ref}, spec.components[s.ref])
  <2>1. s.ref \in SchemaNames \ seen /\ spec.components[s.ref] \in Schemas
    BY <1>6, SpecsAssumption DEF resolve_schema_ref
  <2>2. /\ seen \cup {s.ref} \in SUBSET SchemaNames
        /\ Unseen(seen) \in Nat /\ Unseen(seen \cup {s.ref}) \in Nat
        /\ Unseen(seen \cup {s.ref}) < Unseen(seen)
    BY <1>3, <2>1, UnseenShrinks
  <2>3. ~(Unseen(seen) <= Unseen(seen \cup {s.ref}))
    BY <2>2
  <2>4. seen \cup {s.ref} \notin Some
    BY <1>2, <2>3
  <2> QED
    BY <2>1, <2>2, <2>4
<1>7. Admits(spec, seen, s)
  BY <1>3, <1>5, <1>6, InliningStep
<1> QED
  BY <1>4, <1>7

(* What honours a schema of the document conforms to the copy inline_refs  *)
(* makes of it, however its references are shared, nested or cyclic.       *)
THEOREM InliningAsksNoMore == OutputSpec => []InlinedSchemasAskNoMore
<1>1. OutputInit => openapi \in Specs
  BY DEF OutputInit
<1>2. openapi \in Specs /\ [OutputNext]_output_vars => (openapi \in Specs)'
  BY DEF OutputNext, BuildTool, Answer, Fail, execute, output_vars
<1>3. openapi \in Specs => InlinedSchemasAskNoMore
  <2> SUFFICES ASSUME openapi \in Specs, NEW n \in DOMAIN openapi.components,
                      StopsAtObjects(openapi, openapi.components[n]),
                      NEW value \in Values, Honours(openapi, value, openapi.components[n])
               PROVE  Conforms(openapi, value, inlined(openapi, openapi.components[n]))
    BY DEF InlinedSchemasAskNoMore
  <2> DEFINE c == openapi.components[n]
  <2>1. c \in Schemas
    BY SpecsAssumption
  <2>2. Admits(openapi, {}, c) /\ WentThrough(openapi, {}, c)
    BY <2>1, InliningAdmits DEF WentThrough
  <2> HIDE DEF c
  <2>3. StopsAtObjects(openapi, c) /\ Honours(openapi, value, c)
    BY DEF c
  <2>4. Conforms(openapi, value, inlined(openapi, c))
    BY <2>2, <2>3 DEF Admits, inlined
  <2> QED
    BY <2>4 DEF c
<1> QED
  BY <1>1, <1>2, <1>3, PTL DEF OutputSpec

-----------------------------------------------------------------------------------
(* The output schema and the results.                                      *)

LEMMA FirstIsOne ==
  ASSUME NEW positions \in SUBSET Nat, positions # {}
  PROVE  First(positions) \in positions
<1>1. PICK i \in positions : \A j \in positions : i <= j
  BY LeastNatural
<1> QED
  BY <1>1 DEF First

(* Wherever references between responses lead, it is to a response.        *)
LEMMA ChainsStayInside ==
  ASSUME NEW spec, NEW item \in ItemsOf(spec)
  PROVE  resolve_chain(spec, item) \subseteq ItemsOf(spec)
<1> DEFINE N == MaxRefHops + 1
           D == 0..N
           T == SUBSET ItemsOf(spec)
           Hop(n, f) == IF n = 0 THEN {item} ELSE UNION {Follow(spec, r) : r \in f[n - 1]}
           Step(f) == [n \in D |-> Hop(n, f)]
           step == [f \in [D -> T] |-> Step(f)]
           rank == [n \in D |-> n]
<1>1. N \in Nat /\ N \in D /\ \A n \in D : n # 0 => n - 1 \in D /\ n - 1 < n
  BY SchemasAssumption
<1>2. \A r \in ItemsOf(spec) : Follow(spec, r) \subseteq ItemsOf(spec)
  BY DEF Follow, ItemsOf
<1>3. ASSUME NEW n \in D, NEW f, n # 0 => f[n - 1] \in T PROVE Hop(n, f) \in T
  <2>1. CASE n = 0
    BY <2>1
  <2>2. CASE n # 0
    <3>1. \A r \in f[n - 1] : Follow(spec, r) \subseteq ItemsOf(spec)
      BY <1>2, <1>3, <2>2
    <3> QED
      BY <2>2, <3>1
  <2> QED
    BY <2>1, <2>2
<1>4. ASSUME NEW f \in [D -> T] PROVE Step(f) \in [D -> T]
  <2>1. \A n \in D : n # 0 => f[n - 1] \in T
    BY <1>1
  <2>2. \A n \in D : Hop(n, f) \in T
    BY <1>3, <2>1
  <2> HIDE DEF Hop, T, D
  <2> QED
    BY <2>2
<1>5. step \in [[D -> T] -> [D -> T]]
  <2> HIDE DEF Step, T, D
  <2> QED
    BY <1>4
<1>6. ASSUME NEW f \in [D -> T], NEW g \in [D -> T], NEW n \in D,
             \A m \in D : rank[m] < rank[n] => f[m] = g[m]
      PROVE  step[f][n] = step[g][n]
  <2>1. n # 0 => f[n - 1] = g[n - 1]
    BY <1>1, <1>6
  <2>2. Hop(n, f) = Hop(n, g)
    BY <2>1
  <2> HIDE DEF Hop, T, D
  <2>3. step[f][n] = Hop(n, f) /\ step[g][n] = Hop(n, g)
    OBVIOUS
  <2> QED
    BY <2>2, <2>3
<1>7. rank \in [D -> 0..N] /\ T # {}
  OBVIOUS
<1>8. HasValue(D, T, step)
  <2> HIDE DEF T, rank, step, D, N
  <2>1. LooksLower(D, T, N, rank, step)
    BY <1>1, <1>5, <1>6, <1>7 DEF LooksLower
  <2> QED
    BY <2>1, RecursionByRank
<1> HIDE DEF Hop
<1>9. \E f : f = Step(f)
  <2>1. \E f \in [D -> T] : f = step[f]
    <3> HIDE DEF T, step, D
    <3> QED
      BY <1>8 DEF HasValue
  <2> HIDE DEF T, D, Step
  <2> QED
    BY <2>1
<1> DEFINE hop == CHOOSE f : f = Step(f)
<1>10. hop = Step(hop)
  BY <1>9
<1>11. resolve_chain(spec, item) = hop[N]
  BY DEF resolve_chain, Hop
<1> HIDE DEF hop
<1>12. \A n \in D : hop[n] = Hop(n, hop)
  BY <1>10
<1>13. \A n \in D : hop[n] \in T
  <2> DEFINE B == {n \in D : hop[n] \notin T}
  <2> SUFFICES ASSUME B # {} PROVE FALSE
    OBVIOUS
  <2>1. B \in SUBSET Nat
    BY <1>1
  <2> HIDE DEF B
  <2>2. PICK n \in B : \A m \in B : n <= m
    BY <2>1, LeastNatural
  <2> USE DEF B
  <2>3. n # 0 => n - 1 \in D /\ ~(n <= n - 1)
    BY <1>1
  <2>4. n # 0 => hop[n - 1] \in T
    BY <2>2, <2>3
  <2>5. Hop(n, hop) \in T
    BY <1>3, <2>4
  <2> QED
    BY <1>12, <2>5
<1> QED
  BY <1>1, <1>11, <1>13

(* The responses a reference resolves to have content of schemas.          *)
LEMMA ResolvedContent ==
  ASSUME NEW spec \in Specs, NEW item \in ItemsOf(spec), NEW r \in resolve(spec, item)
  PROVE  r.content \in Seq([essence : STRING, schema : Schemas \cup {None}])
<1>1. PICK q \in resolve_chain(spec, item) :
        r = IF q.ref = None THEN q ELSE [q EXCEPT !.content = <<>>]
  BY DEF resolve
<1>2. q \in ItemsOf(spec)
  BY ChainsStayInside
<1>3. /\ q = [ref |-> q.ref, content |-> q.content]
      /\ q.content \in Seq([essence : STRING, schema : Schemas \cup {None}])
  BY <1>2, SpecsAssumption
<1>4. q.ref # None => r.content = <<>>
  <2>1. [q EXCEPT !.content = <<>>].content = <<>>
    BY <1>3
  <2> QED
    BY <1>1, <2>1
<1> QED
  BY <1>1, <1>3, <1>4

LEMMA MediaTypeRead ==
  ASSUME NEW spec \in Specs, NEW item \in ItemsOf(spec), NEW r \in resolve(spec, item),
         NEW m \in json_media_type(r.content)
  PROVE  /\ m.essence \in {"application/json", "+json"}
         /\ m.schema \in Schemas \cup {None}
<1> DEFINE C == r.content
           exact == Positions(C, "application/json")
           suffixed == Positions(C, "+json")
<1>1. C \in Seq([essence : STRING, schema : Schemas \cup {None}])
  BY ResolvedContent
<1>2. exact \in SUBSET Nat /\ suffixed \in SUBSET Nat
  BY <1>1 DEF Positions
<1>3. \/ exact # {} /\ m = C[First(exact)]
      \/ suffixed # {} /\ m = C[First(suffixed)]
  BY DEF json_media_type
<1>4. PICK i \in exact \cup suffixed : m = C[i]
  <2> HIDE DEF exact, suffixed
  <2> QED
    BY <1>2, <1>3, FirstIsOne
<1>5. i \in DOMAIN C /\ C[i].essence \in {"application/json", "+json"}
  BY <1>4 DEF Positions
<1>6. C[i] \in [essence : STRING, schema : Schemas \cup {None}]
  <2> DEFINE Media == [essence : STRING, schema : Schemas \cup {None}]
  <2>1. C \in Seq(Media)
    BY <1>1
  <2> HIDE DEF C, Media
  <2>2. C[i] \in Media
    BY <1>5, <2>1
  <2> QED
    BY <2>2 DEF Media
<1> QED
  BY <1>4, <1>5, <1>6

(* What a tool declares is the inlined schema of every success response.   *)
LEMMA DeclaredForAll ==
  ASSUME NEW spec \in Specs, OutputSchema(spec) # None,
         NEW code \in SuccessCodes(spec), NEW s \in SchemasOf(spec, code)
  PROVE  OutputSchema(spec) = s /\ s.type = "object"
<1> DEFINE all == UNION {SchemasOf(spec, c) : c \in SuccessCodes(spec)}
<1>1. s \in all
  OBVIOUS
<1>2. /\ \A t, u \in all : t = u
      /\ \A t \in all : t.type = "object"
      /\ OutputSchema(spec) = CHOOSE t \in all : TRUE
  BY DEF OutputSchema
<1> HIDE DEF all
<1>3. (CHOOSE t \in all : TRUE) \in all
  BY <1>1
<1> QED
  BY <1>1, <1>2, <1>3

(* Where a call is: what it has of the upstream's response, and what it    *)
(* makes of it.                                                            *)
OutputInv ==
  /\ openapi \in Specs
  /\ output_schema \in {None, OutputSchema(openapi)}
  /\ phase \in {"building", "ready", "answered", "shaped"}
  /\ phase \in {"building", "ready"} => response = NoResponse
  /\ phase = "answered" => response \in Responses
  /\ phase = "shaped" =>
       \/ response = NoResponse /\ result = fit_output_schema(Failed)
       \/ response \in Responses /\ result = fit_output_schema(ResultOf(response))

(* A call only ever holds a result it made of the response it got.         *)
THEOREM OutputInvariant == OutputSpec => []OutputInv
<1>1. OutputInit => OutputInv
  BY DEF OutputInit, OutputInv
<1>2. OutputInv /\ [OutputNext]_output_vars => OutputInv'
  <2> SUFFICES ASSUME OutputInv, [OutputNext]_output_vars PROVE OutputInv'
    OBVIOUS
  <2> USE DEF OutputInv
  <2>1. CASE BuildTool
    BY <2>1 DEF BuildTool
  <2>2. CASE Answer
    BY <2>2 DEF Answer
  <2>3. CASE Fail
    BY <2>3 DEF Fail, fit_output_schema
  <2>4. CASE execute
    BY <2>4 DEF execute, fit_output_schema
  <2>5. CASE UNCHANGED output_vars
    BY <2>5 DEF output_vars, fit_output_schema
  <2> QED
    BY <2>1, <2>2, <2>3, <2>4, <2>5 DEF OutputNext
<1> QED
  BY <1>1, <1>2, PTL DEF OutputSpec

(* A result by the response it is made of. *)
LEMMA Shaped ==
  ASSUME NEW r \in Responses
  PROVE  /\ ResultOf(r).is_error = is_failure(r.status)
         /\ ResultOf(r) = [is_error |-> ResultOf(r).is_error,
                           structured |-> ResultOf(r).structured,
                           blocks |-> ResultOf(r).blocks]
         /\ r.body.form = "broken" => ResultOf(r).structured = None
         /\ r.body.form = "json" /\ r.mime \in {"application/json", "+json"}
              /\ r.body.value.type = "object" => ResultOf(r).structured = r.body.value
  BY DEF Responses, Bodies, ResultOf, Received, body_kind, shape_response,
         shape_bytes_response, ResultFor

(* An answer as the document says, with a code of success, is no error.    *)
LEMMA SuccessIsNoFailure ==
  ASSUME response.status \in {200, 204, 304, 404, 500},
         NEW code \in CodeOf(response.status), is_success(code)
  PROVE  ~is_failure(response.status)
  BY DEF CodeOf, is_success, is_failure

LEMMA OneCode ==
  ASSUME NEW status, NEW code \in CodeOf(status), NEW other \in CodeOf(status)
  PROVE  code = other /\ code \in DOMAIN openapi.responses
  BY DEF CodeOf

(* The schema output_schema declares is the contract it is meant to be of  *)
(* what shape_response and fit_output_schema return, for every document    *)
(* and every answer that is as documented.                                 *)
THEOREM DeclaredIsReturned == OutputSpec => []StructuredContentFits
<1>1. OutputInv => StructuredContentFits
  <2> SUFFICES ASSUME OutputInv, phase = "shaped" PROVE
        /\ response.body.form = "broken" => result.structured = None
        /\ output_schema # None =>
             /\ result.is_error => result.structured = None
             /\ AnswersAsDocumented /\ CodeOf(response.status) \cap SuccessCodes(openapi) # {} =>
                  result.structured # None /\ Conforms(openapi, result.structured, output_schema)
    BY DEF StructuredContentFits
  <2>1. CASE response = NoResponse /\ result = fit_output_schema(Failed)
    <3>1. response.body.form = "empty"
      BY <2>1 DEF NoResponse
    <3>2. result.structured = None
      BY <2>1 DEF fit_output_schema, Failed, NoResult
    <3> QED
      BY <3>1, <3>2 DEF AnswersAsDocumented
  <2>2. CASE response \in Responses /\ result = fit_output_schema(ResultOf(response))
    <3> DEFINE R == ResultOf(response)
    <3>1. /\ R.is_error = is_failure(response.status)
          /\ R = [is_error |-> R.is_error, structured |-> R.structured, blocks |-> R.blocks]
          /\ response.body.form = "broken" => R.structured = None
          /\ response.body.form = "json" /\ response.mime \in {"application/json", "+json"}
               /\ response.body.value.type = "object" => R.structured = response.body.value
      BY <2>2, Shaped
    <3> HIDE DEF R
    <3>2. /\ result.is_error = R.is_error
          /\ result.structured = IF output_schema # None /\ R.is_error THEN None ELSE R.structured
      BY <2>2, <3>1 DEF fit_output_schema, R
    <3>3. ASSUME output_schema # None, AnswersAsDocumented,
                 CodeOf(response.status) \cap SuccessCodes(openapi) # {}
          PROVE  result.structured # None /\ Conforms(openapi, result.structured, output_schema)
      <4>1. PICK code \in CodeOf(response.status) :
              \E m \in Documented(code) :
                /\ m.schema # None /\ StopsAtObjects(openapi, m.schema)
                /\ is_success(code) => m \in UNION {json_media_type(r.content) :
                                                      r \in resolve(openapi, openapi.responses[code])}
                /\ Honours(openapi, response.body.value, m.schema)
        BY <3>3 DEF AnswersAsDocumented
      <4>2. code \in SuccessCodes(openapi) /\ is_success(code)
        BY <3>3, <4>1, OneCode DEF SuccessCodes
      <4> DEFINE item == openapi.responses[code]
      <4>3. item \in ItemsOf(openapi)
        BY <4>2 DEF SuccessCodes, ItemsOf
      <4>4. PICK r \in resolve(openapi, item) :
              \E m \in json_media_type(r.content) :
                /\ m \in Documented(code) /\ m.schema # None
                /\ StopsAtObjects(openapi, m.schema)
                /\ Honours(openapi, response.body.value, m.schema)
        BY <4>1, <4>2
      <4>5. PICK m \in json_media_type(r.content) :
              /\ m \in Documented(code) /\ m.schema # None
              /\ StopsAtObjects(openapi, m.schema)
              /\ Honours(openapi, response.body.value, m.schema)
        BY <4>4
      <4>6. m.essence = response.mime
        BY <4>5 DEF Documented
      <4>7. m.essence \in {"application/json", "+json"} /\ m.schema \in Schemas
        <5>1. openapi \in Specs
          BY DEF OutputInv
        <5> HIDE DEF item
        <5> QED
          BY <4>3, <4>5, <5>1, MediaTypeRead
      <4>8. inlined(openapi, m.schema) \in SchemasOf(openapi, code)
        BY <4>4, <4>5 DEF SchemasOf
      <4>9. openapi \in Specs /\ output_schema = OutputSchema(openapi)
        BY <3>3 DEF OutputInv
      <4>10. output_schema = inlined(openapi, m.schema) /\ output_schema.type = "object"
        BY <3>3, <4>2, <4>8, <4>9, DeclaredForAll
      <4> DEFINE value == response.body.value
      <4>11. value \in Values /\ response.body.form = "json"
        BY <2>2, <3>3 DEF AnswersAsDocumented, Responses, Bodies
      <4>12. Conforms(openapi, value, output_schema)
        <5>1. Admits(openapi, {}, m.schema) /\ WentThrough(openapi, {}, m.schema)
          BY <4>7, <4>9, InliningAdmits DEF WentThrough
        <5> HIDE DEF value
        <5>2. Honours(openapi, value, m.schema)
          BY <4>5 DEF value
        <5> QED
          BY <4>5, <4>10, <4>11, <5>1, <5>2 DEF Admits, inlined
      <4>13. value.type = "object"
        BY <4>10, <4>12 DEF Conforms, Fits
      <4>14. R.structured = value
        BY <3>1, <4>6, <4>7, <4>11, <4>13
      <4>15. ~R.is_error
        BY <2>2, <3>1, <4>1, <4>2, SuccessIsNoFailure DEF Responses
      <4>16. value # None
        BY <4>11, SchemasAssumption
      <4> HIDE DEF value
      <4> QED
        BY <3>2, <4>12, <4>14, <4>15, <4>16
    <3> QED
      BY <3>1, <3>2, <3>3
  <2> QED
    BY <2>1, <2>2 DEF OutputInv
<1> QED
  BY <1>1, OutputInvariant, PTL
===================================================================================
