------------------------------- MODULE ToolListing --------------------------------
(***************************************************************************)
(* tools/list in pages: clients walk the list with cursors that carry an   *)
(* offset and the fingerprint of the list they were cut from, while the    *)
(* document reloads and the callers' roles change. The server keeps        *)
(* nothing between two pages; two replicas may page by different sizes.    *)
(* Fingerprints are taken to be free of collisions.                        *)
(***************************************************************************)
EXTENDS Naturals, Sequences

CONSTANTS
  Walkers,      \* clients walking the list
  Snapshots,    \* snapshots, as sequences of tools [name, operation, input, output]
  Roles,        \* what a caller's token may stand for
  Visible,      \* for each, the operations it lists
  PageSizes,    \* --tools-page-size of the replicas
  NoPaging,     \* one of them pages nothing
  NoCursor,     \* the first request of a walk
  MaxReloads    \* bound: how often the document is replaced

ASSUME SizesAssumption ==
  /\ PageSizes \subseteq (Nat \ {0}) \cup {NoPaging} /\ NoPaging \notin Nat
  /\ MaxReloads \in Nat
  /\ \A d \in Snapshots : d \in Seq({d[i] : i \in DOMAIN d})

VARIABLES
  document,     \* the current snapshot's tools
  reloads,      \* how often it was replaced
  walk          \* per client: its roles, its cursor and the tools it got so far

vars == <<document, reloads, walk>>

-----------------------------------------------------------------------------------

Cursor(print, offset) == [fingerprint |-> print, offset |-> offset]

(* The tools a caller lists, in the order of the document. *)
ListedUpTo(tools, role) ==
  LET upTo[n \in 0..Len(tools)] ==
        IF n = 0 THEN << >>
        ELSE IF tools[n].operation \in Visible[role] THEN Append(upTo[n - 1], tools[n])
        ELSE upTo[n - 1]
  IN  upTo

Listed(tools, role) == ListedUpTo(tools, role)[Len(tools)]

Names(tools) == [i \in DOMAIN tools |-> tools[i].name]

(* The part of a snapshot its fingerprint is taken of. *)
Hashed(tools) == [i \in DOMAIN tools |-> <<tools[i].name, tools[i].operation, tools[i].input>>]

(* A mistake: the names this caller lists are left out. *)
fingerprint_of_snapshot(tools, role) == <<Hashed(tools)>>

(* A mistake: the caller's roles are hashed, not what they list. *)
fingerprint_with_roles(tools, role) == <<Hashed(tools), role>>

fingerprint(tools, role) == <<Hashed(tools), Names(Listed(tools, role))>>

(* The cursors the server issues, and what clients make of them. *)
Cursors == [fingerprint : {fingerprint(d, r) : d \in Snapshots, r \in Roles}, offset : Nat]

ASSUME CursorsAssumption == NoCursor \notin Cursors

(* Where a page that starts at `start` ends. *)
End(start, size, length) ==
  IF size = NoPaging \/ start + size > length THEN length ELSE start + size

(* A mistake: the last page gets a cursor too. *)
NextAtEnd(print, end, length) == IF end <= length THEN Cursor(print, end) ELSE NoCursor

Next_cursor(print, end, length) == IF end < length THEN Cursor(print, end) ELSE NoCursor

(* Whether the cursor is refused, and as what. *)
Refusal(cursor, print, length) ==
  CASE cursor = NoCursor                                 -> "none"
    [] cursor # NoCursor /\ cursor.fingerprint # print   -> "stale"
    [] cursor # NoCursor /\ cursor.fingerprint = print
         /\ (cursor.offset = 0 \/ cursor.offset >= length) -> "malformed"
    [] OTHER                                             -> "none"

(* The advertised side of a tool. *)
Advertised(t) == [name |-> t.name, input |-> t.input, output |-> t.output]

-----------------------------------------------------------------------------------

Start(role, phase) ==
  [role |-> role, phase |-> phase, cursor |-> NoCursor, got |-> << >>,
   cut |-> << >>, honest |-> TRUE]

Init ==
  /\ document \in Snapshots
  /\ reloads = 0
  /\ walk \in [Walkers -> {Start(r, "idle") : r \in Roles}]

Begin(w) ==
  /\ walk[w].phase \in {"idle", "done", "stale", "malformed"}
  /\ walk' = [walk EXCEPT ![w] = Start(walk[w].role, "walking")]
  /\ UNCHANGED <<document, reloads>>

(* list_page, on one load of the snapshot. `cut` is history: the tools of  *)
(* that snapshot and of the list the page was cut from.                    *)
Page(w, size) ==
  LET it     == walk[w]
      listed == Listed(document, it.role)
      print  == fingerprint(document, it.role)
      start  == IF it.cursor = NoCursor THEN 0 ELSE it.cursor.offset
      end    == End(start, size, Len(listed))
      next   == Next_cursor(print, end, Len(listed))
      page   == SubSeq(listed, start + 1, end)
  IN  /\ it.phase = "walking"
      /\ Refusal(it.cursor, print, Len(listed)) = "none"
      /\ walk' = [walk EXCEPT
           ![w].phase  = IF next = NoCursor THEN "done" ELSE "walking",
           ![w].cursor = next,
           ![w].got    = @ \o [i \in DOMAIN page |-> Advertised(page[i])],
           ![w].cut    = <<document, Names(listed)>>]
      /\ UNCHANGED <<document, reloads>>

Refuse(w) ==
  LET it     == walk[w]
      listed == Listed(document, it.role)
      why    == Refusal(it.cursor, fingerprint(document, it.role), Len(listed))
  IN  /\ it.phase = "walking"
      /\ why # "none"
      /\ walk' = [walk EXCEPT ![w].phase = why]
      /\ UNCHANGED <<document, reloads>>

(* The client presents another token. *)
ChangeRole(w, role) ==
  /\ role # walk[w].role
  /\ walk' = [walk EXCEPT ![w].role = role]
  /\ UNCHANGED <<document, reloads>>

(* The client makes up an offset for its cursor, once per walk.            *)
Tamper(w, offset) ==
  /\ walk[w].phase = "walking" /\ walk[w].cursor # NoCursor /\ walk[w].honest
  /\ walk' = [walk EXCEPT ![w].cursor.offset = offset, ![w].honest = FALSE]
  /\ UNCHANGED <<document, reloads>>

Reload(tools) ==
  /\ reloads < MaxReloads
  /\ tools # document
  /\ document' = tools
  /\ reloads' = reloads + 1
  /\ UNCHANGED walk

Longest == CHOOSE n \in {Len(d) : d \in Snapshots} : \A d \in Snapshots : Len(d) <= n

Next ==
  \/ \E tools \in Snapshots : Reload(tools)
  \/ \E w \in Walkers :
       \/ Begin(w)
       \/ \E size \in PageSizes : Page(w, size)
       \/ Refuse(w)
       \/ \E role \in Roles : ChangeRole(w, role)
       \/ \E offset \in 0..Longest : Tamper(w, offset)

Spec == Init /\ [][Next]_vars

-----------------------------------------------------------------------------------
(* Properties.                                                             *)

Ends(w) == walk[w].phase = "walking" /\ walk'[w].phase = "done" /\ walk[w].honest

(* Refused "rather than silently skipping or repeating tools": whatever    *)
(* reloads and changes of role its pages straddle, a completed walk has    *)
(* got the tools its caller lists at its end, each of them once.           *)
WalksMissNothing ==
  [][\A w \in Walkers : Ends(w) =>
       Names(walk'[w].got) = Names(Listed(document, walk[w].role))]_vars

(* A cursor is only stale when the tools or the caller's view of them      *)
(* changed: "a reload that yields the same tools keeps every cursor valid".*)
StaleMeansChanged ==
  [][\A w \in Walkers :
       walk[w].phase = "walking" /\ walk'[w].phase = "stale" =>
         walk[w].cut # <<document, Names(Listed(document, walk[w].role))>>]_vars

(* A cursor this server issued is honoured or stale, never invalid.        *)
IssuedCursorsAreWellFormed ==
  \A w \in Walkers : walk[w].phase = "malformed" => ~walk[w].honest

===================================================================================
