---------------------------------- MODULE Prune -----------------------------------
(***************************************************************************)
(* Cutting the document resource down to one caller's operations: which    *)
(* components stay. The order in which pending references are taken up is  *)
(* left open.                                                              *)
(***************************************************************************)
CONSTANTS
  Operations,   \* the operations of the document
  Components,   \* the names references may use, of components that exist or not
  Schemes,      \* the names among them of security schemes
  Top,          \* the top-level fields that are kept as they are
  Documents     \* [components, refs, named, kept]: what exists, what each node
                \* refers to with `$ref` or a discriminator, which schemes it names
                \* in a `security` requirement, and the operations the caller lists

Nodes == Operations \cup Components \cup {Top}

ASSUME DocumentsAssumption ==
  /\ Schemes \subseteq Components
  /\ \A d \in Documents :
       /\ d.components \subseteq Components
       /\ d.refs \in [Nodes -> SUBSET Components]
       /\ d.named \in [Nodes -> SUBSET Schemes]
       /\ d.kept \subseteq Operations

VARIABLES
  doc,        \* the document at hand
  pending,    \* references found and not taken up yet
  schemes,    \* security schemes named so far
  reached,    \* references taken up
  over,       \* whether the search has come to its end
  result      \* the components that stay, once it has

prune_vars == <<doc, pending, schemes, reached, over, result>>

-----------------------------------------------------------------------------------

RefsOf(d, nodes)  == UNION {d.refs[n] : n \in nodes}
NamedBy(d, nodes) == UNION {d.named[n] : n \in nodes}

(* A mistake: hidden operations are walked too. *)
WholeDocument(d) == Operations \cup {Top}

(* What is left of the document beside its components. *)
Remainder(d) == d.kept \cup {Top}

PruneInit ==
  /\ doc \in Documents
  /\ pending = RefsOf(doc, Remainder(doc))
  /\ schemes = NamedBy(doc, Remainder(doc))
  /\ reached = {}
  /\ over = FALSE
  /\ result = {}

(* A reference already taken up, or to a component that does not exist.    *)
Pass(next) ==
  /\ next \in pending
  /\ next \in reached \/ next \notin doc.components
  /\ pending' = pending \ {next}
  /\ reached' = reached \cup {next}
  /\ UNCHANGED <<doc, schemes, over, result>>

(* A mistake: components are walked again and again. *)
TakeUpAgain(next) ==
  /\ next \in pending
  /\ next \in doc.components
  /\ pending' = (pending \ {next}) \cup doc.refs[next]
  /\ schemes' = schemes \cup doc.named[next]
  /\ reached' = reached \cup {next}
  /\ UNCHANGED <<doc, over, result>>

(* A mistake: the schemes a component names are not looked for. *)
TakeUpRefsOnly(next) ==
  /\ next \in pending
  /\ next \notin reached /\ next \in doc.components
  /\ pending' = (pending \ {next}) \cup doc.refs[next]
  /\ reached' = reached \cup {next}
  /\ UNCHANGED <<doc, schemes, over, result>>

(* A component reached for the first time is walked for references. *)
TakeUp(next) ==
  /\ next \in pending
  /\ next \notin reached /\ next \in doc.components
  /\ pending' = (pending \ {next}) \cup doc.refs[next]
  /\ schemes' = schemes \cup doc.named[next]
  /\ reached' = reached \cup {next}
  /\ UNCHANGED <<doc, over, result>>

(* The named schemes are added last, and not walked. *)
Finish ==
  /\ pending = {}
  /\ ~over
  /\ over' = TRUE
  /\ result' = doc.components \cap (reached \cup schemes)
  /\ UNCHANGED <<doc, pending, schemes, reached>>

PruneNext == Finish \/ \E next \in Components : Pass(next) \/ TakeUp(next)

PruneSpec == PruneInit /\ [][PruneNext]_prune_vars

(* The loop runs on. *)
FairPruneSpec == PruneSpec /\ WF_prune_vars(PruneNext)

-----------------------------------------------------------------------------------
(* Properties.                                                             *)

TypeOK ==
  /\ doc \in Documents
  /\ pending \subseteq Components
  /\ schemes \subseteq Schemes
  /\ reached \subseteq Components
  /\ over \in BOOLEAN
  /\ result \subseteq doc.components

Walked == Remainder(doc) \cup (reached \cap doc.components)

(* Whatever is walked, the remaining document and the components it        *)
(* reaches, has every component it refers to or names beside it.           *)
WalkedFindsWhatItNeeds ==
  over =>
    (RefsOf(doc, Walked) \cup NamedBy(doc, Walked)) \cap doc.components \subseteq result

(* A set of components closed under everything the caller's operations     *)
(* need. *)
Sufficient(S) ==
  LET nodes == doc.kept \cup {Top} \cup (S \cap doc.components)
  IN  RefsOf(doc, nodes) \cup NamedBy(doc, nodes) \subseteq S

(* "The document resource shows what tools/list shows": a component that   *)
(* only hidden operations lead to does not stay.                           *)
KeepsNothingHidden ==
  over => \A S \in SUBSET Components : Sufficient(S) => result \subseteq S

(* Cyclic schemas do not keep the search going. *)
Terminates == <>over
===================================================================================
