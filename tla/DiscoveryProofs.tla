------------------------------ MODULE DiscoveryProofs ------------------------------
(***************************************************************************)
(* What a client discovers, for every list, document and number of pages:  *)
(* tools/list in pages, and the document resource cut down to what the     *)
(* same caller lists.                                                      *)
(***************************************************************************)
EXTENDS ToolListing, Prune, SequenceTheorems, WellFoundedInduction, TLAPS

(* A non-empty set of naturals has a least element: induction over data,   *)
(* for a set of counterexamples.                                           *)
LEMMA LeastNatural ==
  ASSUME NEW T \in SUBSET Nat, T # {}
  PROVE  \E x \in T : \A y \in T : x <= y
<1> DEFINE Less == OpToRel(<, Nat)
<1>1. \A x, y \in Nat : <<y, x>> \in Less <=> y < x
  BY DEF OpToRel
<1>2. IsWellFoundedOn(Less, Nat)
  BY NatLessThanWellFounded
<1> HIDE DEF Less
<1>3. PICK x \in T : \A y \in T : ~ (<<y, x>> \in Less)
  BY <1>2, WFMin
<1>4. ASSUME NEW y \in T PROVE x <= y
  <2>1. x \in Nat /\ y \in Nat /\ ~ (y < x)
    BY <1>1, <1>3
  <2> QED
    BY <2>1
<1> QED
  BY <1>4

-----------------------------------------------------------------------------------
(* What a caller lists.                                                    *)

IsListed(t, role) == t.operation \in Visible[role]

(* One step of the filter. *)
Extended(tools, role, n, sofar) ==
  IF n = 0 THEN << >>
  ELSE IF IsListed(tools[n], role) THEN Append(sofar, tools[n])
  ELSE sofar

IsFilter(f, tools, role, m) == f = [n \in 0..m |-> Extended(tools, role, n, f[n - 1])]

(* The filter up to the first m tools exists, for any m. *)
LEMMA FilterUpTo ==
  ASSUME NEW tools, NEW role, NEW m \in Nat
  PROVE  \E f : IsFilter(f, tools, role, m)
<1> USE DEF IsFilter
<1> DEFINE Good(k) == \E f : f = [n \in 0..k |-> Extended(tools, role, n, f[n - 1])]
           Bad == {k \in Nat : ~Good(k)}
<1> SUFFICES ASSUME Bad # {} PROVE FALSE
  OBVIOUS
<1>1. PICK k \in Bad : \A l \in Bad : k <= l
  <2> HIDE DEF Good
  <2>1. Bad \in SUBSET Nat
    OBVIOUS
  <2> HIDE DEF Bad
  <2> QED
    BY <2>1, LeastNatural
<1>2. CASE k = 0
  <2> DEFINE f == [n \in 0..0 |-> << >>]
  <2>1. f = [n \in 0..0 |-> Extended(tools, role, n, f[n - 1])]
    BY DEF Extended
  <2> QED
    BY <1>2, <2>1
<1>3. CASE k # 0
  <2>1. k - 1 \in Nat /\ k \in Nat /\ ~ (k <= k - 1)
    BY <1>3
  <2>2. Good(k - 1)
    BY <1>1, <2>1
  <2>3. PICK f : f = [n \in 0..(k - 1) |-> Extended(tools, role, n, f[n - 1])]
    BY <2>2
  <2> DEFINE g == [n \in 0..k |-> IF n = k THEN Extended(tools, role, k, f[k - 1]) ELSE f[n]]
  <2>4. ASSUME NEW n \in 0..k PROVE g[n] = Extended(tools, role, n, g[n - 1])
    <3>1. CASE n = k
      <4>1. g[k - 1] = f[k - 1] /\ g[k] = Extended(tools, role, k, f[k - 1])
        BY <2>1
      <4> QED
        BY <3>1, <4>1
    <3>2. CASE n # k
      <4>1. n \in 0..(k - 1) /\ g[n] = f[n] /\ f[n] = Extended(tools, role, n, f[n - 1])
        BY <2>1, <2>3, <3>2
      <4>2. CASE n = 0
        BY <4>1, <4>2 DEF Extended
      <4>3. CASE n # 0
        <5>1. n - 1 \in 0..k /\ n - 1 # k
          BY <2>1, <4>1, <4>3
        <5>2. g[n - 1] = f[n - 1]
          BY <5>1
        <5> QED
          BY <4>1, <5>2
      <4> QED
        BY <4>2, <4>3
    <3> QED
      BY <3>1, <3>2
  <2>5. g = [n \in 0..k |-> Extended(tools, role, n, g[n - 1])]
    <3>1. g = [n \in 0..k |-> g[n]]
      OBVIOUS
    <3> HIDE DEF g
    <3> QED
      BY <2>4, <3>1
  <2> HIDE DEF g
  <2>6. Good(k)
    BY <2>5
  <2> QED
    BY <2>6
<1> QED
  BY <1>2, <1>3

(* The filter satisfies the equation that defines it. *)
LEMMA FilterEquation ==
  ASSUME NEW tools, NEW role, Len(tools) \in Nat
  PROVE  \A n \in 0..Len(tools) :
           ListedUpTo(tools, role)[n] =
             Extended(tools, role, n, ListedUpTo(tools, role)[n - 1])
<1> DEFINE f == ListedUpTo(tools, role)
<1>1. \E g : IsFilter(g, tools, role, Len(tools))
  BY FilterUpTo
<1>2. f = [n \in 0..Len(tools) |-> Extended(tools, role, n, f[n - 1])]
  BY <1>1 DEF IsFilter, ListedUpTo, Extended, IsListed
<1> HIDE DEF f
<1>3. \A n \in 0..Len(tools) : f[n] = Extended(tools, role, n, f[n - 1])
  BY <1>2
<1> QED
  BY <1>3 DEF f

(* `kept` are the first n tools that are listed, in their order: the k-th  *)
(* of them was at place at[k].                                             *)
Selects(kept, tools, role, n) ==
  \E at \in Seq(1..n) :
    /\ Len(at) = Len(kept)
    /\ \A k \in 1..Len(kept) : kept[k] = tools[at[k]] /\ IsListed(tools[at[k]], role)
    /\ \A k, l \in 1..Len(kept) : k < l => at[k] < at[l]
    /\ \A i \in 1..n : IsListed(tools[i], role) => \E k \in 1..Len(kept) : at[k] = i

(* One tool more. *)
LEMMA SelectsOneMore ==
  ASSUME NEW S, NEW tools \in Seq(S), NEW role,
         NEW n \in 1..Len(tools), NEW kept \in Seq(S), Selects(kept, tools, role, n - 1)
  PROVE  /\ Extended(tools, role, n, kept) \in Seq(S)
         /\ Selects(Extended(tools, role, n, kept), tools, role, n)
<1>1. n \in Nat /\ n # 0 /\ tools[n] \in S /\ Len(kept) \in Nat
  OBVIOUS
<1>2. PICK at \in Seq(1..(n - 1)) :
        /\ Len(at) = Len(kept)
        /\ \A k \in 1..Len(kept) : kept[k] = tools[at[k]] /\ IsListed(tools[at[k]], role)
        /\ \A k, l \in 1..Len(kept) : k < l => at[k] < at[l]
        /\ \A i \in 1..(n - 1) :
             IsListed(tools[i], role) => \E k \in 1..Len(kept) : at[k] = i
  BY DEF Selects
<1>3. at \in Seq(1..n) /\ \A k \in 1..Len(kept) : at[k] \in 1..(n - 1)
  <2>1. \A k \in 1..Len(at) : at[k] \in 1..(n - 1)
    BY <1>2
  <2>2. at \in [1..Len(at) -> 1..n] /\ Len(at) \in Nat
    BY <1>1, <1>2, <2>1
  <2> QED
    BY <1>2, <2>1, <2>2
<1>4. CASE ~IsListed(tools[n], role)
  <2>1. Extended(tools, role, n, kept) = kept
    BY <1>1, <1>4 DEF Extended
  <2>2. \A i \in 1..n : IsListed(tools[i], role) => \E k \in 1..Len(kept) : at[k] = i
    <3>1. \A i \in 1..n : i = n \/ i \in 1..(n - 1)
      BY <1>1
    <3> QED
      BY <1>2, <1>4, <3>1
  <2>3. Selects(kept, tools, role, n)
    BY <1>2, <1>3, <2>2 DEF Selects
  <2> QED
    BY <2>1, <2>3
<1>5. CASE IsListed(tools[n], role)
  <2> DEFINE more == Append(kept, tools[n])
             here == Append(at, n)
  <2>1. Extended(tools, role, n, kept) = more
    BY <1>1, <1>5 DEF Extended
  <2>2. /\ more \in Seq(S) /\ Len(more) = Len(kept) + 1
        /\ \A k \in 1..Len(kept) : more[k] = kept[k]
        /\ more[Len(kept) + 1] = tools[n]
    BY <1>1
  <2>3. n \in 1..n
    BY <1>1
  <2>4. /\ here \in Seq(1..n) /\ Len(here) = Len(kept) + 1
        /\ \A k \in 1..Len(kept) : here[k] = at[k]
        /\ here[Len(kept) + 1] = n
    <3>1. /\ here \in Seq(1..n) /\ Len(here) = Len(at) + 1
          /\ \A k \in 1..Len(at) : here[k] = at[k]
          /\ here[Len(at) + 1] = n
      BY <1>3, <2>3, AppendProperties
    <3> QED
      BY <1>2, <3>1
  <2> HIDE DEF more, here
  <2>5. \A k \in 1..Len(more) : k \in 1..Len(kept) \/ k = Len(kept) + 1
    BY <1>1, <2>2
  <2>6. \A k \in 1..Len(more) : more[k] = tools[here[k]] /\ IsListed(tools[here[k]], role)
    BY <1>2, <1>5, <2>2, <2>4, <2>5
  <2>7. ASSUME NEW k \in 1..Len(more), NEW l \in 1..Len(more), k < l
        PROVE  here[k] < here[l]
    <3>1. k \in 1..Len(kept)
      BY <1>1, <2>2, <2>7
    <3>2. CASE l \in 1..Len(kept)
      BY <1>2, <2>4, <2>7, <3>1, <3>2
    <3>3. CASE l = Len(kept) + 1
      <4>1. at[k] < n
        BY <1>1, <1>3, <3>1
      <4> QED
        BY <2>4, <3>1, <3>3, <4>1
    <3> QED
      BY <2>5, <3>2, <3>3
  <2>8. ASSUME NEW i \in 1..n, IsListed(tools[i], role)
        PROVE  \E k \in 1..Len(more) : here[k] = i
    <3>1. CASE i = n
      <4>1. Len(kept) + 1 \in 1..Len(more)
        BY <1>1, <2>2
      <4> QED
        BY <2>4, <3>1, <4>1
    <3>2. CASE i # n
      <4>1. i \in 1..(n - 1)
        BY <1>1, <3>2
      <4>2. PICK k \in 1..Len(kept) : at[k] = i
        BY <1>2, <2>8, <4>1
      <4>3. k \in 1..Len(more) /\ here[k] = i
        BY <1>1, <2>2, <2>4, <4>2
      <4> QED
        BY <4>3
    <3> QED
      BY <3>1, <3>2
  <2>9. Selects(more, tools, role, n)
    BY <2>2, <2>4, <2>6, <2>7, <2>8 DEF Selects
  <2> QED
    BY <2>1, <2>2, <2>9
<1> QED
  BY <1>4, <1>5

(* What a caller lists are the visible tools, all of them and each once,   *)
(* in the order of the document.                                           *)
LEMMA ListedSelects ==
  ASSUME NEW S, NEW tools \in Seq(S), NEW role
  PROVE  /\ Listed(tools, role) \in Seq(S)
         /\ Selects(Listed(tools, role), tools, role, Len(tools))
<1> DEFINE f == ListedUpTo(tools, role)
           Good(n) == f[n] \in Seq(S) /\ Selects(f[n], tools, role, n)
           Bad == {n \in 0..Len(tools) : ~Good(n)}
<1>1. Len(tools) \in Nat
  OBVIOUS
<1>2. \A n \in 0..Len(tools) : f[n] = Extended(tools, role, n, f[n - 1])
  BY <1>1, FilterEquation
<1> HIDE DEF f
<1>3. Bad = {}
  <2> SUFFICES ASSUME Bad # {} PROVE FALSE
    OBVIOUS
  <2>1. Bad \in SUBSET Nat
    BY <1>1
  <2>2. PICK n \in Bad : \A m \in Bad : n <= m
    <3> HIDE DEF Bad
    <3> QED
      BY <2>1, LeastNatural
  <2>3. n \in Nat /\ n <= Len(tools) /\ ~Good(n)
    BY <1>1
  <2>4. CASE n = 0
    <3>1. f[0] = << >>
      BY <1>1, <1>2 DEF Extended
    <3>2. /\ << >> \in Seq(1..0) /\ Len(<< >>) = 0
          /\ \A k \in 1..0 : FALSE
      OBVIOUS
    <3>3. Selects(<< >>, tools, role, 0)
      <4> HIDE DEF Bad, Good
      <4> QED
        BY <3>2 DEF Selects
    <3> QED
      BY <2>3, <2>4, <3>1, <3>3
  <2>5. CASE n # 0
    <3>1. n - 1 \in 0..Len(tools) /\ ~ (n <= n - 1) /\ n \in 1..Len(tools) /\ n \in 0..Len(tools)
      BY <1>1, <2>3, <2>5
    <3>2. Good(n - 1)
      BY <2>2, <3>1
    <3>3. Good(n)
      BY <1>2, <3>1, <3>2, SelectsOneMore
    <3> QED
      BY <2>3, <3>3
  <2> QED
    BY <2>4, <2>5
<1>4. Good(Len(tools))
  <2>1. Len(tools) \in 0..Len(tools)
    BY <1>1
  <2> HIDE DEF Good
  <2> QED
    BY <1>3, <2>1
<1> QED
  BY <1>4 DEF Listed, f

-----------------------------------------------------------------------------------
(* The names of a list, and of its parts.                                  *)

NamesIn(S) == {t.name : t \in S}

LEMMA NamesAre ==
  ASSUME NEW S, NEW ts \in Seq(S)
  PROVE  /\ Names(ts) \in Seq(NamesIn(S))
         /\ Len(Names(ts)) = Len(ts)
         /\ \A i \in 1..Len(ts) : Names(ts)[i] = ts[i].name
<1>1. Len(ts) \in Nat /\ DOMAIN ts = 1..Len(ts) /\ \A i \in 1..Len(ts) : ts[i] \in S
  OBVIOUS
<1>2. Names(ts) = [i \in 1..Len(ts) |-> ts[i].name]
  BY <1>1 DEF Names
<1>3. \A i \in 1..Len(ts) : ts[i].name \in NamesIn(S)
  BY <1>1 DEF NamesIn
<1> HIDE DEF Names
<1> QED
  BY <1>1, <1>2, <1>3, IsASeq

LEMMA NamesOfBoth ==
  ASSUME NEW S, NEW ts \in Seq(S), NEW us \in Seq(S)
  PROVE  Names(ts \o us) = Names(ts) \o Names(us)
<1> DEFINE N == NamesIn(S)
<1>1. /\ Names(ts) \in Seq(N) /\ Len(Names(ts)) = Len(ts)
      /\ \A i \in 1..Len(ts) : Names(ts)[i] = ts[i].name
  BY NamesAre, Zenon
<1>2. /\ Names(us) \in Seq(N) /\ Len(Names(us)) = Len(us)
      /\ \A i \in 1..Len(us) : Names(us)[i] = us[i].name
  BY NamesAre, Zenon
<1>3. ts \o us \in Seq(S)
  OBVIOUS
<1>4. /\ Names(ts \o us) \in Seq(N) /\ Len(Names(ts \o us)) = Len(ts \o us)
      /\ \A i \in 1..Len(ts \o us) : Names(ts \o us)[i] = (ts \o us)[i].name
  BY <1>3, NamesAre, Zenon
<1> HIDE DEF N
<1>5. Len(ts) \in Nat /\ Len(us) \in Nat /\ Len(ts \o us) = Len(ts) + Len(us)
  OBVIOUS
<1>6. Names(ts) \o Names(us) \in Seq(N) /\ Len(Names(ts) \o Names(us)) = Len(ts \o us)
  <2>1. /\ Names(ts) \o Names(us) \in Seq(N)
        /\ Len(Names(ts) \o Names(us)) = Len(Names(ts)) + Len(Names(us))
    BY <1>1, <1>2, ConcatProperties
  <2> QED
    BY <1>1, <1>2, <1>5, <2>1
<1>7. ASSUME NEW i \in 1..Len(ts \o us)
      PROVE  Names(ts \o us)[i] = (Names(ts) \o Names(us))[i]
  <2>1. CASE i <= Len(ts)
    <3>1. i \in 1..Len(ts) /\ (ts \o us)[i] = ts[i]
      BY <1>5, <2>1
    <3>2. (Names(ts) \o Names(us))[i] = Names(ts)[i]
      BY <1>1, <1>2, <1>5, <3>1
    <3> QED
      BY <1>1, <1>4, <3>1, <3>2
  <2>2. CASE ~(i <= Len(ts))
    <3>1. i - Len(ts) \in 1..Len(us) /\ (ts \o us)[i] = us[i - Len(ts)]
      BY <1>5, <2>2
    <3>2. (Names(ts) \o Names(us))[i] = Names(us)[i - Len(ts)]
      BY <1>1, <1>2, <1>5, <2>2, <3>1
    <3> QED
      BY <1>2, <1>4, <3>1, <3>2
  <2> QED
    BY <2>1, <2>2
<1> QED
  BY <1>4, <1>6, <1>7, SeqEqual

LEMMA NamesOfPart ==
  ASSUME NEW S, NEW ts \in Seq(S), NEW m \in Nat, NEW n \in Nat, n <= Len(ts)
  PROVE  Names(SubSeq(ts, m + 1, n)) = SubSeq(Names(ts), m + 1, n)
<1> DEFINE N == NamesIn(S)
           part == SubSeq(ts, m + 1, n)
<1>1. /\ Names(ts) \in Seq(N) /\ Len(Names(ts)) = Len(ts)
      /\ \A i \in 1..Len(ts) : Names(ts)[i] = ts[i].name
  BY NamesAre, Zenon
<1>2. /\ part \in Seq(S) /\ Len(part) = (IF m < n THEN n - m ELSE 0)
      /\ \A i \in 1..Len(part) : m + i \in 1..Len(ts) /\ part[i] = ts[m + i]
  OBVIOUS
<1> HIDE DEF part
<1>3. /\ Names(part) \in Seq(N) /\ Len(Names(part)) = Len(part)
      /\ \A i \in 1..Len(part) : Names(part)[i] = part[i].name
  BY <1>2, NamesAre, Zenon
<1> HIDE DEF N
<1>4. /\ SubSeq(Names(ts), m + 1, n) \in Seq(N)
      /\ Len(SubSeq(Names(ts), m + 1, n)) = (IF m < n THEN n - m ELSE 0)
      /\ \A i \in 1..Len(part) : SubSeq(Names(ts), m + 1, n)[i] = Names(ts)[m + i]
  BY <1>1, <1>2
<1>5. Names(part) = SubSeq(Names(ts), m + 1, n)
  BY <1>1, <1>2, <1>3, <1>4, SeqEqual
<1> QED
  BY <1>5 DEF part

-----------------------------------------------------------------------------------
(* Walks.                                                                  *)

Tools == UNION {{d[i] : i \in DOMAIN d} : d \in Snapshots}
Adverts == {Advertised(t) : t \in Tools}
AllNames == NamesIn(Tools)

Walks ==
  [role : Roles, phase : {"idle", "walking", "done", "stale", "malformed"},
   cursor : Cursors \cup {NoCursor}, got : Seq(Adverts),
   cut : {<< >>} \cup (Snapshots \X Seq(AllNames)), honest : BOOLEAN]

ListingTypeOK ==
  /\ document \in Snapshots
  /\ reloads \in Nat
  /\ walk \in [Walkers -> Walks]

(* A walk that has a cursor is some way into the list the cursor was cut   *)
(* from, which the cursor's fingerprint is of: unless the client made up   *)
(* the offset, it has got the names so far, and there are more.            *)
OnItsWay(it) ==
  it.phase = "walking" =>
    IF it.cursor = NoCursor THEN it.got = << >>
    ELSE /\ it.cut # << >>
         /\ it.cursor.fingerprint = <<Hashed(it.cut[1]), it.cut[2]>>
         /\ it.honest =>
              /\ it.cursor.offset \in 1..(Len(it.cut[2]) - 1)
              /\ Names(it.got) = SubSeq(it.cut[2], 1, it.cursor.offset)

WInv ==
  /\ ListingTypeOK
  /\ \A w \in Walkers : OnItsWay(walk[w])
  /\ IssuedCursorsAreWellFormed

LEMMA ASnapshot ==
  ASSUME NEW d \in Snapshots, NEW role \in Roles
  PROVE  /\ d \in Seq(Tools)
         /\ Listed(d, role) \in Seq(Tools)
         /\ Names(Listed(d, role)) \in Seq(AllNames)
         /\ Len(Names(Listed(d, role))) = Len(Listed(d, role))
         /\ Len(Listed(d, role)) \in Nat
         /\ \A n \in Nat : Cursor(fingerprint(d, role), n) \in Cursors
                            /\ Cursor(fingerprint(d, role), n) # NoCursor
<1>1. d \in Seq(Tools)
  <2>1. d \in Seq({d[i] : i \in DOMAIN d}) /\ {d[i] : i \in DOMAIN d} \subseteq Tools
    BY SizesAssumption DEF Tools
  <2> QED
    BY <2>1
<1>2. Listed(d, role) \in Seq(Tools)
  BY <1>1, ListedSelects
<1>3. Names(Listed(d, role)) \in Seq(AllNames) /\ Len(Names(Listed(d, role))) = Len(Listed(d, role))
  BY <1>2, NamesAre DEF AllNames
<1>4. ASSUME NEW n \in Nat PROVE Cursor(fingerprint(d, role), n) \in Cursors
  BY DEF Cursor, Cursors
<1> QED
  BY <1>1, <1>2, <1>3, <1>4, CursorsAssumption

LEMMA WalksStart == Init => WInv
<1> SUFFICES ASSUME Init PROVE WInv
  OBVIOUS
<1>1. walk \in [Walkers -> {Start(r, "idle") : r \in Roles}]
  BY DEF Init
<1>2. \A r \in Roles : Start(r, "idle") \in Walks
  BY DEF Start, Walks
<1>3. walk \in [Walkers -> Walks]
  BY <1>2 DEF Init
<1>4. ListingTypeOK
  BY <1>3 DEF ListingTypeOK, Init
<1>5. ASSUME NEW w \in Walkers PROVE walk[w].phase = "idle"
  <2>1. walk[w] \in {Start(r, "idle") : r \in Roles}
    BY <1>1
  <2>2. PICK r \in Roles : walk[w] = Start(r, "idle")
    BY <2>1
  <2> QED
    BY <2>2 DEF Start
<1> QED
  BY <1>4, <1>5 DEF WInv, OnItsWay, IssuedCursorsAreWellFormed

(* The other walks stand still while one goes on. *)
LEMMA OneWalkMoves ==
  ASSUME WInv, document' \in Snapshots, reloads' \in Nat,
         NEW w \in Walkers, NEW it \in Walks, walk' = [walk EXCEPT ![w] = it],
         OnItsWay(it), it.phase = "malformed" => ~it.honest
  PROVE  WInv'
<1>1. walk \in [Walkers -> Walks]
  BY DEF WInv, ListingTypeOK
<1>2. walk'[w] = it /\ \A v \in Walkers : v # w => walk'[v] = walk[v]
  BY <1>1
<1>3. ListingTypeOK'
  BY <1>1 DEF ListingTypeOK
<1>4. ASSUME NEW v \in Walkers
      PROVE  OnItsWay(walk'[v]) /\ (walk'[v].phase = "malformed" => ~walk'[v].honest)
  BY <1>2 DEF WInv, IssuedCursorsAreWellFormed
<1>5. (\A v \in Walkers : OnItsWay(walk[v]))'
  BY <1>4
<1>6. IssuedCursorsAreWellFormed'
  BY <1>4 DEF IssuedCursorsAreWellFormed
<1> QED
  BY <1>3, <1>5, <1>6 DEF WInv

(* What a page is cut from, and what it leaves. *)
LEMMA ThePage ==
  ASSUME WInv, NEW w \in Walkers, NEW size \in PageSizes, Page(w, size)
  PROVE  LET listed == Listed(document, walk[w].role)
             print  == fingerprint(document, walk[w].role)
             start  == IF walk[w].cursor = NoCursor THEN 0 ELSE walk[w].cursor.offset
             end    == End(start, size, Len(listed))
         IN  /\ walk'[w] \in Walks
             /\ walk' = [walk EXCEPT ![w] = walk'[w]]
             /\ walk'[w].honest = walk[w].honest
             /\ walk'[w].phase = IF end < Len(listed) THEN "walking" ELSE "done"
             /\ end < Len(listed) => walk'[w].cursor = Cursor(print, end)
                                    /\ walk'[w].cursor # NoCursor
             /\ walk'[w].cut = <<document, Names(listed)>>
             /\ walk[w].honest => /\ end \in 0..Len(listed) /\ (end > 0 \/ end = Len(listed))
                                  /\ Names(walk'[w].got) = SubSeq(Names(listed), 1, end)
<1> DEFINE it     == walk[w]
           listed == Listed(document, it.role)
           print  == fingerprint(document, it.role)
           start  == IF it.cursor = NoCursor THEN 0 ELSE it.cursor.offset
           end    == End(start, size, Len(listed))
           next   == Next_cursor(print, end, Len(listed))
           page   == SubSeq(listed, start + 1, end)
           adverts == [i \in DOMAIN page |-> Advertised(page[i])]
           moved  == [it EXCEPT !.phase = IF next = NoCursor THEN "done" ELSE "walking",
                                !.cursor = next, !.got = it.got \o adverts,
                                !.cut = <<document, Names(listed)>>]
<1>1. /\ it \in Walks /\ document \in Snapshots /\ it.role \in Roles
      /\ walk \in [Walkers -> Walks]
  BY DEF WInv, ListingTypeOK, Walks
<1>2. /\ listed \in Seq(Tools) /\ Names(listed) \in Seq(AllNames)
      /\ Len(Names(listed)) = Len(listed) /\ Len(listed) \in Nat
      /\ \A n \in Nat : Cursor(print, n) \in Cursors /\ Cursor(print, n) # NoCursor
  BY <1>1, ASnapshot
<1>3. it.phase = "walking" /\ Refusal(it.cursor, print, Len(listed)) = "none"
  BY DEF Page
<1>4. walk' = [walk EXCEPT ![w] = moved]
  BY DEF Page
<1>5. start \in Nat
  BY <1>1 DEF Walks, Cursors
<1> HIDE DEF listed, print, start
<1>6. size \in Nat \ {0} \/ size = NoPaging
  BY SizesAssumption
<1>7. end \in Nat /\ end <= Len(listed)
  BY <1>2, <1>5, <1>6 DEF End
<1>8. start <= Len(listed) => start <= end /\ (end > 0 \/ end = Len(listed))
  BY <1>2, <1>5, <1>6 DEF End
<1>9. /\ end < Len(listed) => next = Cursor(print, end)
      /\ ~(end < Len(listed)) => next = NoCursor
      /\ next \in Cursors \cup {NoCursor}
      /\ next = NoCursor <=> ~(end < Len(listed))
  BY <1>2, <1>7 DEF Next_cursor
<1> HIDE DEF end, next
<1>10. page \in Seq(Tools)
  BY <1>2, <1>5, <1>7
<1> HIDE DEF page
<1>11. adverts \in Seq(Adverts) /\ Names(adverts) = Names(page)
  <2>1. DOMAIN page = 1..Len(page) /\ Len(page) \in Nat /\ \A i \in 1..Len(page) : page[i] \in Tools
    BY <1>10
  <2>2. \A i \in 1..Len(page) : adverts[i] = Advertised(page[i]) /\ adverts[i] \in Adverts
    BY <2>1 DEF Adverts
  <2>3. DOMAIN adverts = 1..Len(page) /\ adverts = [i \in 1..Len(page) |-> adverts[i]]
    BY <2>1
  <2> HIDE DEF adverts
  <2>4. adverts \in Seq(Adverts)
    BY <2>1, <2>2, <2>3, IsASeq
  <2>5. Names(adverts) = Names(page)
    BY <2>1, <2>2, <2>3 DEF Advertised, Names
  <2> QED
    BY <2>4, <2>5
<1> HIDE DEF adverts
<1>12. moved \in Walks
  <2>1. it.got \o adverts \in Seq(Adverts)
    BY <1>1, <1>11 DEF Walks
  <2> QED
    BY <1>1, <1>2, <1>9, <2>1 DEF Walks
<1>13. /\ moved.honest = it.honest
       /\ moved.phase = IF next = NoCursor THEN "done" ELSE "walking"
       /\ moved.cursor = next
       /\ moved.got = it.got \o adverts
       /\ moved.cut = <<document, Names(listed)>>
  BY <1>1 DEF Walks
<1> HIDE DEF moved
<1>14. walk'[w] = moved
  BY <1>1, <1>4
<1>15. ASSUME it.honest
       PROVE  start <= Len(listed) /\ Names(it.got) = SubSeq(Names(listed), 1, start)
  <2>1. OnItsWay(it)
    BY DEF WInv
  <2>2. CASE it.cursor = NoCursor
    <3>1. it.got = << >> /\ start = 0
      BY <1>3, <2>1, <2>2 DEF OnItsWay, start
    <3>2. Names(<< >>) = << >>
      BY DEF Names
    <3>3. SubSeq(Names(listed), 1, 0) = << >>
      BY <1>2, SubSeqEmpty
    <3>4. Names(it.got) = SubSeq(Names(listed), 1, start)
      BY <3>1, <3>2, <3>3, Zenon
    <3> QED
      BY <1>2, <3>1, <3>4
  <2>3. CASE it.cursor # NoCursor
    <3>1. it.cursor.fingerprint = print
      BY <1>3, <2>3 DEF Refusal
    <3>2. /\ it.cursor.fingerprint = <<Hashed(it.cut[1]), it.cut[2]>>
          /\ start \in 1..(Len(it.cut[2]) - 1)
          /\ Names(it.got) = SubSeq(it.cut[2], 1, start)
      BY <1>3, <1>15, <2>1, <2>3 DEF OnItsWay, start
    <3>3. it.cut[2] = Names(listed)
      BY <3>1, <3>2 DEF print, listed, fingerprint
    <3>4. Len(it.cut[2]) = Len(listed)
      BY <1>2, <3>3
    <3> QED
      BY <1>2, <1>5, <3>2, <3>3, <3>4
  <2> QED
    BY <2>2, <2>3
<1>16. ASSUME it.honest
       PROVE  /\ end \in 0..Len(listed) /\ (end > 0 \/ end = Len(listed))
              /\ Names(moved.got) = SubSeq(Names(listed), 1, end)
  <2>1. start <= end /\ (end > 0 \/ end = Len(listed))
    BY <1>8, <1>15, <1>16
  <2>2. it.got \in Seq(Adverts)
    BY <1>1 DEF Walks
  <2>3. Names(it.got \o adverts) = SubSeq(Names(listed), 1, end)
    <3>1. Names(it.got) = SubSeq(Names(listed), 1, start)
      BY <1>15, <1>16
    <3>2. Names(adverts) = SubSeq(Names(listed), start + 1, end)
      <4>1. Names(page) = SubSeq(Names(listed), start + 1, end)
        BY <1>2, <1>5, <1>7, NamesOfPart DEF page
      <4> QED
        BY <1>11, <4>1
    <3>3. Names(it.got \o adverts) = Names(it.got) \o Names(adverts)
      BY <1>11, <2>2, NamesOfBoth
    <3>4. SubSeq(Names(listed), 1, start) \o SubSeq(Names(listed), start + 1, end)
            = SubSeq(Names(listed), 1, end)
      BY <1>2, <1>5, <1>7, <2>1, ConcatAdjacentSubSeq
    <3> QED
      BY <3>1, <3>2, <3>3, <3>4, Zenon
  <2> QED
    BY <1>7, <1>2, <1>13, <2>1, <2>3
<1>17. walk' = [walk EXCEPT ![w] = walk'[w]]
  BY <1>4, <1>14
<1> QED
  BY <1>9, <1>12, <1>13, <1>14, <1>16, <1>17 DEF listed, print, start, end

(* A page that is handed out. *)
LEMMA PageKeeps ==
  ASSUME WInv, NEW w \in Walkers, NEW size \in PageSizes, Page(w, size)
  PROVE  WInv'
<1> DEFINE it     == walk[w]
           moved  == walk'[w]
           listed == Listed(document, it.role)
           print  == fingerprint(document, it.role)
           start  == IF it.cursor = NoCursor THEN 0 ELSE it.cursor.offset
           end    == End(start, size, Len(listed))
<1>1. /\ moved \in Walks /\ walk' = [walk EXCEPT ![w] = moved]
      /\ moved.honest = it.honest
      /\ moved.phase = IF end < Len(listed) THEN "walking" ELSE "done"
      /\ end < Len(listed) => moved.cursor = Cursor(print, end) /\ moved.cursor # NoCursor
      /\ moved.cut = <<document, Names(listed)>>
      /\ it.honest => /\ end \in 0..Len(listed) /\ (end > 0 \/ end = Len(listed))
                      /\ Names(moved.got) = SubSeq(Names(listed), 1, end)
  BY ThePage
<1>2. /\ document \in Snapshots /\ reloads \in Nat /\ it.role \in Roles
  BY DEF WInv, ListingTypeOK, Walks
<1>3. UNCHANGED <<document, reloads>>
  BY DEF Page
<1>4. Len(listed) \in Nat /\ Len(Names(listed)) = Len(listed)
  BY <1>2, ASnapshot
<1>5. print = <<Hashed(document), Names(listed)>>
  BY DEF fingerprint
<1> HIDE DEF print, end, listed, moved, it
<1>6. OnItsWay(moved)
  <2> SUFFICES ASSUME moved.phase = "walking", moved.cursor # NoCursor
               PROVE  /\ moved.cut # << >>
                      /\ moved.cursor.fingerprint = <<Hashed(moved.cut[1]), moved.cut[2]>>
                      /\ moved.honest =>
                           /\ moved.cursor.offset \in 1..(Len(moved.cut[2]) - 1)
                           /\ Names(moved.got) = SubSeq(moved.cut[2], 1, moved.cursor.offset)
    <3>1. moved.phase = "walking" => moved.cursor # NoCursor
      <4> SUFFICES ASSUME moved.phase = "walking" PROVE moved.cursor # NoCursor
        OBVIOUS
      <4>1. end < Len(listed)
        BY <1>1
      <4> QED
        BY <1>1, <4>1
    <3> QED
      BY <3>1 DEF OnItsWay
  <2>1. end < Len(listed) /\ moved.cursor = Cursor(print, end)
    BY <1>1
  <2>2. moved.cursor.fingerprint = print /\ moved.cursor.offset = end
    BY <2>1 DEF Cursor
  <2>3. moved.cut[1] = document /\ moved.cut[2] = Names(listed) /\ moved.cut # << >>
    BY <1>1
  <2>4. moved.honest => /\ end \in 1..(Len(Names(listed)) - 1)
                        /\ Names(moved.got) = SubSeq(Names(listed), 1, end)
    BY <1>1, <1>4, <2>1
  <2> QED
    BY <1>5, <2>2, <2>3, <2>4
<1>7. moved.phase = "malformed" => ~moved.honest
  BY <1>1
<1>8. document' \in Snapshots /\ reloads' \in Nat
  BY <1>2, <1>3
<1> QED
  BY <1>1, <1>6, <1>7, <1>8, OneWalkMoves

(* A cursor is only refused as malformed when the client made it up, and   *)
(* as stale when the tools or the caller's view of them changed.           *)
LEMMA RefusedForAReason ==
  ASSUME WInv, NEW w \in Walkers, Refuse(w)
  PROVE  LET it   == walk[w]
             view == <<document, Names(Listed(document, it.role))>>
             why  == walk'[w].phase
         IN  /\ walk' = [walk EXCEPT ![w] = [it EXCEPT !.phase = why]]
             /\ why \in {"stale", "malformed"}
             /\ why = "stale" => it.cut # view
             /\ why = "malformed" => ~it.honest
<1> DEFINE it     == walk[w]
           listed == Listed(document, it.role)
           print  == fingerprint(document, it.role)
           why    == Refusal(it.cursor, print, Len(listed))
<1>1. it \in Walks /\ walk \in [Walkers -> Walks] /\ document \in Snapshots /\ OnItsWay(it)
  BY DEF WInv, ListingTypeOK
<1>2. it.role \in Roles
  BY <1>1 DEF Walks
<1>3. Len(listed) \in Nat /\ Len(Names(listed)) = Len(listed)
  BY <1>1, <1>2, ASnapshot
<1>4. it.phase = "walking" /\ why # "none"
  BY DEF Refuse
<1>5. walk' = [walk EXCEPT ![w] = [it EXCEPT !.phase = why]]
  BY DEF Refuse
<1> HIDE DEF listed, print
<1>6. it.cursor # NoCursor /\ why \in {"stale", "malformed"}
  BY <1>4 DEF Refusal
<1>7. it.cursor.fingerprint = <<Hashed(it.cut[1]), it.cut[2]>>
  BY <1>1, <1>4, <1>6 DEF OnItsWay
<1>8. why = "stale" => it.cursor.fingerprint # print
  BY <1>6 DEF Refusal
<1>9. why = "malformed" => /\ it.cursor.fingerprint = print
                           /\ it.cursor.offset = 0 \/ it.cursor.offset >= Len(listed)
  BY <1>6 DEF Refusal
<1>10. why = "stale" => it.cut # <<document, Names(listed)>>
  BY <1>7, <1>8 DEF print, listed, fingerprint
<1>11. why = "malformed" => ~it.honest
  <2> SUFFICES ASSUME why = "malformed", it.honest PROVE FALSE
    OBVIOUS
  <2>1. it.cursor.offset \in 1..(Len(it.cut[2]) - 1)
    BY <1>1, <1>4, <1>6 DEF OnItsWay
  <2>2. it.cut[2] = Names(listed)
    BY <1>7, <1>9 DEF print, listed, fingerprint
  <2> HIDE DEF it
  <2>3. Len(it.cut[2]) = Len(listed)
    BY <1>3, <2>2
  <2> QED
    BY <1>3, <1>9, <2>1, <2>3
<1> HIDE DEF why
<1>12. walk'[w].phase = why
  BY <1>1, <1>5 DEF Walks
<1> QED
  BY <1>5, <1>6, <1>10, <1>11, <1>12 DEF listed

LEMMA WalksGoOn == WInv /\ [Next]_vars => WInv'
<1> SUFFICES ASSUME WInv, [Next]_vars PROVE WInv'
  OBVIOUS
<1>1. ListingTypeOK /\ IssuedCursorsAreWellFormed /\ \A w \in Walkers : OnItsWay(walk[w])
  BY DEF WInv
<1>2. document \in Snapshots /\ reloads \in Nat /\ walk \in [Walkers -> Walks]
  BY <1>1 DEF ListingTypeOK
<1>3. ASSUME NEW tools \in Snapshots, Reload(tools) PROVE WInv'
  BY <1>1, <1>3 DEF Reload, WInv, ListingTypeOK, IssuedCursorsAreWellFormed, SizesAssumption
<1>4. ASSUME NEW w \in Walkers, Begin(w) PROVE WInv'
  <2> DEFINE it == Start(walk[w].role, "walking")
  <2>1. walk' = [walk EXCEPT ![w] = it] /\ UNCHANGED <<document, reloads>>
    BY <1>4 DEF Begin
  <2>2. it \in Walks
    BY <1>2 DEF Start, Walks
  <2>3. OnItsWay(it) /\ (it.phase = "malformed" => ~it.honest)
    BY DEF Start, OnItsWay
  <2> HIDE DEF it
  <2> QED
    BY <1>2, <2>1, <2>2, <2>3, OneWalkMoves
<1>5. ASSUME NEW w \in Walkers, NEW size \in PageSizes, Page(w, size) PROVE WInv'
  BY <1>5, PageKeeps
<1>6. ASSUME NEW w \in Walkers, Refuse(w) PROVE WInv'
  <2> DEFINE it == [walk[w] EXCEPT !.phase = walk'[w].phase]
  <2>1. /\ walk' = [walk EXCEPT ![w] = it]
        /\ walk'[w].phase \in {"stale", "malformed"}
        /\ walk'[w].phase = "malformed" => ~walk[w].honest
    BY <1>6, RefusedForAReason
  <2>2. UNCHANGED <<document, reloads>>
    BY <1>6 DEF Refuse
  <2>3. it \in Walks /\ it.phase = walk'[w].phase /\ it.honest = walk[w].honest
    BY <1>2, <2>1 DEF Walks
  <2> HIDE DEF it
  <2>4. OnItsWay(it)
    BY <2>1, <2>3 DEF OnItsWay
  <2> QED
    BY <1>2, <2>1, <2>2, <2>3, <2>4, OneWalkMoves
<1>7. ASSUME NEW w \in Walkers, NEW role \in Roles, ChangeRole(w, role) PROVE WInv'
  <2> DEFINE it == [walk[w] EXCEPT !.role = role]
  <2>1. walk' = [walk EXCEPT ![w] = it] /\ UNCHANGED <<document, reloads>>
    BY <1>7 DEF ChangeRole
  <2>2. walk[w] \in Walks /\ OnItsWay(walk[w])
    BY <1>1, <1>2
  <2>3. it \in Walks /\ it = [it EXCEPT !.role = role]
        /\ it.phase = walk[w].phase /\ it.cursor = walk[w].cursor /\ it.got = walk[w].got
        /\ it.cut = walk[w].cut /\ it.honest = walk[w].honest
    BY <2>2 DEF Walks
  <2> HIDE DEF it
  <2>4. OnItsWay(it)
    BY <2>2, <2>3 DEF OnItsWay
  <2>5. it.phase = "malformed" => ~it.honest
    BY <1>1, <2>3 DEF IssuedCursorsAreWellFormed
  <2> QED
    BY <1>2, <2>1, <2>3, <2>4, <2>5, OneWalkMoves
<1>8. ASSUME NEW w \in Walkers, NEW offset \in 0..Longest, Tamper(w, offset) PROVE WInv'
  <2> DEFINE it == [walk[w] EXCEPT !.cursor.offset = offset, !.honest = FALSE]
  <2>1. /\ walk' = [walk EXCEPT ![w] = it] /\ UNCHANGED <<document, reloads>>
        /\ walk[w].phase = "walking" /\ walk[w].cursor # NoCursor
    BY <1>8 DEF Tamper
  <2>2. walk[w] \in Walks /\ OnItsWay(walk[w])
    BY <1>1, <1>2
  <2>3. offset \in Nat
    OBVIOUS
  <2>4. walk[w].cursor \in Cursors
    BY <2>1, <2>2 DEF Walks
  <2>5. /\ [walk[w].cursor EXCEPT !.offset = offset] \in Cursors
        /\ [walk[w].cursor EXCEPT !.offset = offset].fingerprint = walk[w].cursor.fingerprint
    BY <2>3, <2>4 DEF Cursors
  <2>6. /\ it \in Walks /\ it.phase = "walking" /\ it.cut = walk[w].cut /\ it.honest = FALSE
        /\ it.cursor = [walk[w].cursor EXCEPT !.offset = offset]
    BY <2>1, <2>2, <2>5 DEF Walks
  <2> HIDE DEF it
  <2>7. OnItsWay(it)
    BY <2>1, <2>2, <2>5, <2>6, CursorsAssumption DEF OnItsWay
  <2> QED
    BY <1>2, <2>1, <2>6, <2>7, OneWalkMoves
<1>9. CASE UNCHANGED vars
  BY <1>1, <1>9 DEF vars, WInv, ListingTypeOK, IssuedCursorsAreWellFormed
<1> QED
  BY <1>3, <1>4, <1>5, <1>6, <1>7, <1>8, <1>9 DEF Next

LEMMA WalksAlways == Spec => []WInv
  BY WalksStart, WalksGoOn, PTL DEF Spec

(* A walk only stops walking at a page or a refusal of its own. *)
LEMMA WalksStop ==
  ASSUME WInv, [Next]_vars, NEW w \in Walkers,
         walk[w].phase = "walking", walk'[w].phase # "walking"
  PROVE  (\E size \in PageSizes : Page(w, size)) \/ Refuse(w)
<1>1. walk \in [Walkers -> Walks] /\ walk[w] \in Walks
  BY DEF WInv, ListingTypeOK
<1>2. ASSUME NEW v \in Walkers, NEW it, walk' = [walk EXCEPT ![v] = it], it.phase = "walking"
      PROVE  FALSE
  <2>1. v = w => walk'[w] = it
    BY <1>1, <1>2
  <2>2. v # w => walk'[w] = walk[w]
    BY <1>1, <1>2
  <2> QED
    BY <1>2, <2>1, <2>2
<1>3. ASSUME NEW v \in Walkers, Begin(v) PROVE FALSE
  <2>1. Start(walk[v].role, "walking").phase = "walking"
    BY DEF Start
  <2> QED
    BY <1>2, <1>3, <2>1 DEF Begin
<1>4. ASSUME NEW v \in Walkers, NEW role \in Roles, ChangeRole(v, role) PROVE FALSE
  <2>1. [walk[v] EXCEPT !.role = role].phase = walk[v].phase
    BY <1>1 DEF Walks
  <2>2. walk'[w].phase = walk[w].phase
    BY <1>1, <1>4, <2>1 DEF ChangeRole
  <2> QED
    BY <2>2
<1>5. ASSUME NEW v \in Walkers, NEW offset \in 0..Longest, Tamper(v, offset) PROVE FALSE
  <2> DEFINE it == [walk[v] EXCEPT !.cursor.offset = offset, !.honest = FALSE]
  <2>1. it.phase = walk[v].phase
    BY <1>1 DEF Walks
  <2>2. walk' = [walk EXCEPT ![v] = it]
    BY <1>5 DEF Tamper
  <2> HIDE DEF it
  <2>3. walk'[w].phase = walk[w].phase
    BY <1>1, <2>1, <2>2
  <2> QED
    BY <2>3
<1>6. ASSUME NEW v \in Walkers, v # w, NEW it, walk' = [walk EXCEPT ![v] = it]
      PROVE  FALSE
  BY <1>1, <1>6
<1>7. ASSUME NEW v \in Walkers, v # w, NEW size \in PageSizes, Page(v, size) PROVE FALSE
  <2>1. walk' = [walk EXCEPT ![v] = walk'[v]]
    BY <1>7, ThePage
  <2> QED
    BY <1>6, <1>7, <2>1
<1>8. ASSUME NEW v \in Walkers, v # w, Refuse(v) PROVE FALSE
  BY <1>1, <1>8 DEF Refuse
<1>9. UNCHANGED walk => FALSE
  BY <1>1
<1>10. CASE \E tools \in Snapshots : Reload(tools)
  BY <1>9, <1>10 DEF Reload
<1>11. CASE UNCHANGED vars
  BY <1>9, <1>11 DEF vars
<1> QED
  BY <1>3, <1>4, <1>5, <1>7, <1>8, <1>10, <1>11 DEF Next

(* A step changes a walk only when it is that walk's own. *)
LEMMA OwnSteps ==
  ASSUME WInv, [Next]_vars, NEW w \in Walkers
  PROVE  \/ walk'[w] = walk[w]
         \/ Begin(w)
         \/ \E size \in PageSizes : Page(w, size)
         \/ Refuse(w)
         \/ \E role \in Roles : ChangeRole(w, role)
         \/ \E offset \in 0..Longest : Tamper(w, offset)
<1>1. walk \in [Walkers -> Walks]
  BY DEF WInv, ListingTypeOK
<1>2. ASSUME NEW v \in Walkers, v # w, NEW it, walk' = [walk EXCEPT ![v] = it]
      PROVE  walk'[w] = walk[w]
  BY <1>1, <1>2
<1>3. ASSUME NEW v \in Walkers, v # w, Begin(v) PROVE walk'[w] = walk[w]
  BY <1>2, <1>3 DEF Begin
<1>4. ASSUME NEW v \in Walkers, v # w, NEW size \in PageSizes, Page(v, size)
      PROVE  walk'[w] = walk[w]
  <2>1. walk' = [walk EXCEPT ![v] = walk'[v]]
    BY <1>4, ThePage
  <2> QED
    BY <1>2, <1>4, <2>1
<1>5. ASSUME NEW v \in Walkers, v # w, Refuse(v) PROVE walk'[w] = walk[w]
  BY <1>1, <1>5 DEF Refuse
<1>6. ASSUME NEW v \in Walkers, v # w, NEW role \in Roles, ChangeRole(v, role)
      PROVE  walk'[w] = walk[w]
  BY <1>1, <1>6 DEF ChangeRole
<1>7. ASSUME NEW v \in Walkers, v # w, NEW offset \in 0..Longest, Tamper(v, offset)
      PROVE  walk'[w] = walk[w]
  BY <1>1, <1>7 DEF Tamper
<1>8. CASE \E tools \in Snapshots : Reload(tools)
  BY <1>8 DEF Reload
<1>9. CASE UNCHANGED vars
  BY <1>9 DEF vars
<1> QED
  BY <1>3, <1>4, <1>5, <1>6, <1>7, <1>8, <1>9 DEF Next

(* The page that ends an honest walk completes the list it was cut from. *)
LEMMA LastPage ==
  ASSUME WInv, [Next]_vars, NEW w \in Walkers, Ends(w)
  PROVE  /\ walk[w].role \in Roles /\ document \in Snapshots
         /\ Names(walk'[w].got) = Names(Listed(document, walk[w].role))
<1> DEFINE listed == Listed(document, walk[w].role)
           print  == fingerprint(document, walk[w].role)
           start  == IF walk[w].cursor = NoCursor THEN 0 ELSE walk[w].cursor.offset
           end(size) == End(start, size, Len(listed))
<1>1. walk[w].phase = "walking" /\ walk'[w].phase = "done" /\ walk[w].honest
  BY DEF Ends
<1>2. ~Refuse(w)
  BY <1>1, RefusedForAReason
<1>3. PICK size \in PageSizes : Page(w, size)
  BY <1>1, <1>2, WalksStop
<1>4. /\ walk'[w].phase = IF end(size) < Len(listed) THEN "walking" ELSE "done"
      /\ end(size) \in 0..Len(listed)
      /\ Names(walk'[w].got) = SubSeq(Names(listed), 1, end(size))
  BY <1>1, <1>3, ThePage
<1>5. walk[w].role \in Roles /\ document \in Snapshots
  BY DEF WInv, ListingTypeOK, Walks
<1>6. /\ Names(listed) \in Seq(AllNames) /\ Len(Names(listed)) = Len(listed)
      /\ Len(listed) \in Nat
  BY <1>5, ASnapshot
<1> HIDE DEF listed, end
<1>7. end(size) = Len(Names(listed))
  BY <1>1, <1>4, <1>6
<1>8. SubSeq(Names(listed), 1, Len(Names(listed))) = Names(listed)
  BY <1>6, SubSeqFull
<1>9. Names(walk'[w].got) = Names(listed)
  BY <1>4, <1>7, <1>8
<1> QED
  BY <1>5, <1>9 DEF listed

(* What a completed walk has got is what the caller may see, no less and   *)
(* no more.                                                                *)
ShowsTheVisible(w) ==
  {walk'[w].got[i].name : i \in DOMAIN walk'[w].got}
    = {document[i].name : i \in {j \in DOMAIN document : IsListed(document[j], walk[w].role)}}

WalksShowTheVisible == [][\A w \in Walkers : Ends(w) => ShowsTheVisible(w)]_vars

(* An honest walk gets no tool twice, finished or not. *)
NothingTwice(got) == \A i, j \in DOMAIN got : got[i].name = got[j].name => i = j

NoToolTwice == \A w \in Walkers : walk[w].honest => NothingTwice(walk[w].got)

LEMMA NamedAlike ==
  ASSUME NEW ts, NEW us, Names(ts) = Names(us)
  PROVE  DOMAIN ts = DOMAIN us /\ \A i \in DOMAIN ts : ts[i].name = us[i].name
<1>1. DOMAIN Names(ts) = DOMAIN ts /\ DOMAIN Names(us) = DOMAIN us
  BY DEF Names
<1>2. \A i \in DOMAIN ts : Names(ts)[i] = ts[i].name
  BY DEF Names
<1>3. \A i \in DOMAIN us : Names(us)[i] = us[i].name
  BY DEF Names
<1> QED
  BY <1>1, <1>2, <1>3

-----------------------------------------------------------------------------------

(* The snapshot and every walk keep their shape: a cursor is one the server*)
(* issued, with its own offset or one the client made up.                  *)
THEOREM ListingTypeCorrect == Spec => []ListingTypeOK
<1>1. WInv => ListingTypeOK
  BY DEF WInv
<1> QED
  BY WalksAlways, <1>1, PTL

(* A cursor the server issued is never refused as malformed, whatever      *)
(* reloads and changes of role come between its pages.                     *)
THEOREM IssuedCursorsAreHonoured == Spec => []IssuedCursorsAreWellFormed
<1>1. WInv => IssuedCursorsAreWellFormed
  BY DEF WInv
<1> QED
  BY WalksAlways, <1>1, PTL

(* A completed walk has the names its caller lists at its end, in order,   *)
(* for every document, page size and number of reloads.                    *)
THEOREM WalksAreComplete == Spec => WalksMissNothing
<1>1. WInv /\ [Next]_vars =>
        [\A w \in Walkers : Ends(w) =>
           Names(walk'[w].got) = Names(Listed(document, walk[w].role))]_vars
  BY LastPage
<1> QED
  BY WalksAlways, <1>1, PTL DEF Spec, WalksMissNothing

(* A cursor goes stale only when the snapshot or the caller's view of it is*)
(* no longer the one its page was cut from.                                *)
THEOREM StaleOnlyAfterChange == Spec => StaleMeansChanged
<1>1. WInv /\ [Next]_vars =>
        [\A w \in Walkers :
           walk[w].phase = "walking" /\ walk'[w].phase = "stale" =>
             walk[w].cut # <<document, Names(Listed(document, walk[w].role))>>]_vars
  <2> SUFFICES ASSUME WInv, [Next]_vars, NEW w \in Walkers,
                      walk[w].phase = "walking", walk'[w].phase = "stale"
               PROVE  walk[w].cut # <<document, Names(Listed(document, walk[w].role))>>
    OBVIOUS
  <2>1. ASSUME NEW size \in PageSizes, Page(w, size) PROVE FALSE
    <3>1. walk'[w].phase \in {"walking", "done"}
      BY <2>1, ThePage
    <3> QED
      BY <3>1
  <2>2. Refuse(w)
    BY <2>1, WalksStop
  <2> QED
    BY <2>2, RefusedForAReason
<1> QED
  BY WalksAlways, <1>1, PTL DEF Spec, StaleMeansChanged

(* Paging neither hides a tool the caller may use nor shows another.       *)
THEOREM WalksShowWhatIsVisible == Spec => WalksShowTheVisible
<1>1. WInv /\ [Next]_vars => [\A w \in Walkers : Ends(w) => ShowsTheVisible(w)]_vars
  <2> SUFFICES ASSUME WInv, [Next]_vars, NEW w \in Walkers, Ends(w)
               PROVE  ShowsTheVisible(w)
    OBVIOUS
  <2> DEFINE role   == walk[w].role
             listed == Listed(document, role)
             got    == walk'[w].got
  <2>1. role \in Roles /\ document \in Snapshots /\ Names(got) = Names(listed)
    BY LastPage
  <2>2. document \in Seq(Tools)
    BY <2>1, ASnapshot
  <2>3. listed \in Seq(Tools) /\ Selects(listed, document, role, Len(document))
    BY <2>2, ListedSelects
  <2>4. DOMAIN got = DOMAIN listed /\ \A i \in DOMAIN got : got[i].name = listed[i].name
    BY <2>1, NamedAlike
  <2> HIDE DEF listed, got, role
  <2>5. PICK at \in Seq(1..Len(document)) :
          /\ Len(at) = Len(listed)
          /\ \A k \in 1..Len(listed) : /\ listed[k] = document[at[k]]
                                       /\ IsListed(document[at[k]], role)
          /\ \A k, l \in 1..Len(listed) : k < l => at[k] < at[l]
          /\ \A i \in 1..Len(document) :
               IsListed(document[i], role) => \E k \in 1..Len(listed) : at[k] = i
    BY <2>3 DEF Selects
  <2>6. DOMAIN listed = 1..Len(listed) /\ DOMAIN document = 1..Len(document)
    BY <2>2, <2>3
  <2>7. \A k \in 1..Len(listed) : at[k] \in DOMAIN document
    BY <2>5, <2>6
  <2> DEFINE Shown == {j \in DOMAIN document : IsListed(document[j], role)}
  <2>8. ASSUME NEW i \in DOMAIN got PROVE \E j \in Shown : got[i].name = document[j].name
    <3>1. i \in 1..Len(listed) /\ got[i].name = listed[i].name
      BY <2>4, <2>6
    <3>2. at[i] \in Shown /\ listed[i] = document[at[i]]
      BY <2>5, <2>7, <3>1
    <3> QED
      BY <3>1, <3>2
  <2>9. ASSUME NEW j \in Shown PROVE \E i \in DOMAIN got : got[i].name = document[j].name
    <3>1. PICK i \in 1..Len(listed) : at[i] = j
      BY <2>5, <2>6
    <3>2. i \in DOMAIN got /\ got[i].name = document[j].name
      BY <2>4, <2>5, <2>6, <3>1
    <3> QED
      BY <3>2
  <2> HIDE DEF Shown
  <2>10. {got[i].name : i \in DOMAIN got} = {document[j].name : j \in Shown}
    BY <2>8, <2>9
  <2> QED
    BY <2>10 DEF ShowsTheVisible, Shown, got, role
<1> QED
  BY WalksAlways, <1>1, PTL DEF Spec, WalksShowTheVisible

(* When no two tools of a document share a name, which ToolNamesAreUnique  *)
(* says of the tools built from one, no walk gets a tool twice, also not   *)
(* one that straddles reloads or is refused in the middle.                 *)
THEOREM EveryToolOnce ==
  ASSUME \A d \in Snapshots : \A i, j \in DOMAIN d : d[i].name = d[j].name => i = j
  PROVE  Spec => []NoToolTwice
<1>1. Init => NoToolTwice
  <2> SUFFICES ASSUME Init, NEW w \in Walkers PROVE walk[w].got = << >>
    BY DEF NoToolTwice, NothingTwice
  <2>1. walk[w] \in {Start(r, "idle") : r \in Roles}
    BY DEF Init
  <2>2. PICK r \in Roles : walk[w] = Start(r, "idle")
    BY <2>1
  <2> QED
    BY <2>2 DEF Start
<1>2. NoToolTwice /\ WInv /\ [Next]_vars => NoToolTwice'
  <2> SUFFICES ASSUME NoToolTwice, WInv, [Next]_vars, NEW w \in Walkers, walk'[w].honest
               PROVE  NothingTwice(walk'[w].got)
    BY DEF NoToolTwice, NothingTwice
  <2>1. walk \in [Walkers -> Walks] /\ walk[w] \in Walks
    BY DEF WInv, ListingTypeOK
  <2>2. CASE walk'[w].got = walk[w].got /\ walk[w].honest
    BY <2>2 DEF NoToolTwice, NothingTwice
  <2>3. CASE walk'[w].got = << >>
    BY <2>3 DEF NothingTwice
  <2>4. ASSUME NEW size \in PageSizes, Page(w, size) PROVE NothingTwice(walk'[w].got)
    <3> DEFINE role   == walk[w].role
               listed == Listed(document, role)
               got    == walk'[w].got
    <3>1. role \in Roles /\ document \in Snapshots
      BY <2>1 DEF WInv, ListingTypeOK, Walks
    <3>2. \E end \in 0..Len(listed) : Names(got) = SubSeq(Names(listed), 1, end)
      BY <2>4, ThePage
    <3>3. document \in Seq(Tools)
      BY <3>1, ASnapshot
    <3>4. /\ listed \in Seq(Tools) /\ Selects(listed, document, role, Len(document))
          /\ Names(listed) \in Seq(AllNames) /\ Len(Names(listed)) = Len(listed)
      BY <3>1, <3>3, ListedSelects, ASnapshot
    <3> HIDE DEF got, listed, role
    <3>5. PICK end \in 0..Len(listed) : Names(got) = SubSeq(Names(listed), 1, end)
      BY <3>2
    <3>6. PICK at \in Seq(1..Len(document)) :
            /\ Len(at) = Len(listed)
            /\ \A k \in 1..Len(listed) : listed[k] = document[at[k]]
            /\ \A k, l \in 1..Len(listed) : k < l => at[k] < at[l]
      BY <3>4 DEF Selects
    <3>7. /\ Len(listed) \in Nat /\ DOMAIN listed = 1..Len(listed)
          /\ DOMAIN document = 1..Len(document) /\ Len(document) \in Nat
          /\ \A k \in 1..Len(listed) : at[k] \in DOMAIN document
      BY <3>3, <3>4, <3>6
    <3>8. ASSUME NEW k \in 1..Len(listed), NEW l \in 1..Len(listed),
                 listed[k].name = listed[l].name
          PROVE  k = l
      <4>1. at[k] = at[l]
        BY <3>1, <3>6, <3>7, <3>8
      <4>2. at[k] \in Int /\ at[l] \in Int
        BY <3>7
      <4>3. (k < l => at[k] < at[l]) /\ (l < k => at[l] < at[k])
        BY <3>6
      <4>4. ~(k < l) /\ ~(l < k)
        BY <4>1, <4>2, <4>3
      <4> QED
        BY <4>4
    <3>9. DOMAIN got = 1..end /\ \A i \in 1..end : got[i].name = listed[i].name
      <4>1. /\ DOMAIN SubSeq(Names(listed), 1, end) = 1..end
            /\ \A i \in 1..end : SubSeq(Names(listed), 1, end)[i] = Names(listed)[i]
        BY <3>4, <3>5, <3>7
      <4>2. DOMAIN Names(got) = DOMAIN got /\ \A i \in DOMAIN got : Names(got)[i] = got[i].name
        BY DEF Names
      <4>3. \A i \in 1..Len(listed) : Names(listed)[i] = listed[i].name
        BY <3>7 DEF Names
      <4>4. DOMAIN got = 1..end
        BY <3>5, <4>1, <4>2
      <4>5. ASSUME NEW i \in 1..end PROVE got[i].name = listed[i].name
        <5>1. i \in 1..Len(listed)
          BY <3>7
        <5>2. Names(got)[i] = got[i].name
          BY <4>2, <4>4
        <5>3. SubSeq(Names(listed), 1, end)[i] = Names(listed)[i]
          BY <4>1
        <5>4. Names(listed)[i] = listed[i].name
          BY <4>3, <5>1
        <5> QED
          BY <3>5, <5>2, <5>3, <5>4, Zenon
      <4> QED
        BY <4>4, <4>5
    <3>10. NothingTwice(got)
      BY <3>7, <3>8, <3>9 DEF NothingTwice
    <3> QED
      BY <3>10 DEF got
  <2>5. CASE walk'[w] = walk[w]
    BY <2>2, <2>5
  <2>6. CASE Begin(w)
    <3>1. walk'[w] = Start(walk[w].role, "walking")
      BY <2>1, <2>6 DEF Begin
    <3> QED
      BY <2>3, <3>1 DEF Start
  <2>7. CASE Refuse(w)
    <3>1. walk' = [walk EXCEPT ![w] = [walk[w] EXCEPT !.phase = walk'[w].phase]]
      BY <2>7, RefusedForAReason
    <3>2. walk'[w] = [walk[w] EXCEPT !.phase = walk'[w].phase]
      BY <2>1, <3>1
    <3>3. walk'[w].got = walk[w].got /\ walk'[w].honest = walk[w].honest
      BY <2>1, <3>2 DEF Walks
    <3> QED
      BY <2>2, <3>3
  <2>8. ASSUME NEW role \in Roles, ChangeRole(w, role) PROVE NothingTwice(walk'[w].got)
    <3>1. walk'[w] = [walk[w] EXCEPT !.role = role]
      BY <2>1, <2>8 DEF ChangeRole
    <3>2. walk'[w].got = walk[w].got /\ walk'[w].honest = walk[w].honest
      BY <2>1, <3>1 DEF Walks
    <3> QED
      BY <2>2, <3>2
  <2>9. ASSUME NEW offset \in 0..Longest, Tamper(w, offset) PROVE FALSE
    <3>1. walk'[w].honest = FALSE
      BY <2>1, <2>9 DEF Tamper, Walks
    <3> QED
      BY <3>1
  <2> QED
    BY <2>4, <2>5, <2>6, <2>7, <2>8, <2>9, OwnSteps
<1> QED
  BY <1>1, <1>2, WalksAlways, PTL DEF Spec

-----------------------------------------------------------------------------------
(* The document resource.                                                  *)

(* What the caller's operations need has all been found or is pending.     *)
FoundOrPending ==
  /\ RefsOf(doc, Walked) \subseteq reached \cup pending
  /\ NamedBy(doc, Walked) \subseteq schemes

(* Nothing else has been found, or will be.                                *)
NothingElse ==
  \A S \in SUBSET Components : Sufficient(S) => reached \cup pending \cup schemes \subseteq S

(* The result is taken when the search is over, and stands.                *)
Concluded ==
  over => pending = {} /\ result = doc.components \cap (reached \cup schemes)

SearchInv == TypeOK /\ FoundOrPending /\ NothingElse /\ Concluded

(* Where references lead, from any part of a document. *)
LEMMA WhereReferencesLead ==
  ASSUME NEW d \in Documents, NEW nodes \in SUBSET Nodes
  PROVE  /\ d.components \subseteq Components
         /\ d.kept \subseteq Operations
         /\ RefsOf(d, nodes) \subseteq Components
         /\ NamedBy(d, nodes) \subseteq Schemes
  BY DocumentsAssumption DEF RefsOf, NamedBy

(* More nodes lead to what each of them leads to. *)
LEMMA OneMore ==
  ASSUME NEW d, NEW nodes, NEW n
  PROVE  /\ RefsOf(d, nodes \cup {n}) = RefsOf(d, nodes) \cup d.refs[n]
         /\ NamedBy(d, nodes \cup {n}) = NamedBy(d, nodes) \cup d.named[n]
  BY DEF RefsOf, NamedBy

LEMMA SearchBegins == PruneInit => SearchInv
<1> SUFFICES ASSUME PruneInit PROVE SearchInv
  OBVIOUS
<1>1. Walked = Remainder(doc)
  BY DEF PruneInit, Walked
<1>2. Remainder(doc) \in SUBSET Nodes
  BY DocumentsAssumption DEF PruneInit, Remainder, Nodes
<1>3. TypeOK
  BY <1>2, WhereReferencesLead DEF PruneInit, TypeOK
<1>4. FoundOrPending
  BY <1>1 DEF PruneInit, FoundOrPending
<1>5. NothingElse
  BY DEF PruneInit, NothingElse, Sufficient, Remainder, RefsOf, NamedBy
<1>6. Concluded
  BY DEF PruneInit, Concluded
<1> QED
  BY <1>3, <1>4, <1>5, <1>6 DEF SearchInv

(* A reference that leads nowhere new. *)
LEMMA Passing ==
  ASSUME SearchInv, NEW next \in Components, Pass(next)
  PROVE  SearchInv'
<1>1. TypeOK'
  BY DEF SearchInv, TypeOK, Pass
<1>2. Walked' = Walked
  BY DEF Pass, Walked, Remainder
<1>3. FoundOrPending'
  BY <1>2 DEF SearchInv, FoundOrPending, Pass, RefsOf, NamedBy
<1>4. NothingElse'
  BY DEF SearchInv, NothingElse, Pass, Sufficient, RefsOf, NamedBy
<1>5. Concluded'
  BY DEF SearchInv, Concluded, Pass
<1> QED
  BY <1>1, <1>3, <1>4, <1>5 DEF SearchInv

(* A component met for the first time. *)
LEMMA TakingUp ==
  ASSUME SearchInv, NEW next \in Components, TakeUp(next)
  PROVE  SearchInv'
<1>1. doc \in Documents /\ doc' = doc
  BY DEF SearchInv, TypeOK, TakeUp
<1>2. doc.refs[next] \subseteq Components /\ doc.named[next] \subseteq Schemes
  BY <1>1, DocumentsAssumption DEF Nodes
<1>3. TypeOK'
  BY <1>1, <1>2 DEF SearchInv, TypeOK, TakeUp
<1>4. FoundOrPending'
  <2>1. Walked' = Walked \cup {next}
    BY DEF TakeUp, Walked, Remainder
  <2>2. /\ RefsOf(doc, Walked \cup {next}) = RefsOf(doc, Walked) \cup doc.refs[next]
        /\ NamedBy(doc, Walked \cup {next}) = NamedBy(doc, Walked) \cup doc.named[next]
    BY OneMore
  <2>3. /\ RefsOf(doc, Walked) \subseteq reached \cup pending
        /\ NamedBy(doc, Walked) \subseteq schemes
    BY DEF SearchInv, FoundOrPending
  <2>4. /\ RefsOf(doc, Walked) \cup doc.refs[next] \subseteq reached' \cup pending'
        /\ NamedBy(doc, Walked) \cup doc.named[next] \subseteq schemes'
    BY <2>3 DEF TakeUp
  <2> QED
    BY <1>1, <2>1, <2>2, <2>4 DEF FoundOrPending
<1>5. NothingElse'
  <2> SUFFICES ASSUME NEW S \in SUBSET Components, Sufficient(S)'
               PROVE  (reached \cup pending \cup schemes \subseteq S)'
    BY DEF NothingElse
  <2>1. Sufficient(S)
    BY <1>1 DEF Sufficient, RefsOf, NamedBy
  <2>2. reached \cup pending \cup schemes \subseteq S
    BY <2>1 DEF SearchInv, NothingElse
  <2>3. next \in S \cap doc.components
    BY <2>2 DEF TakeUp
  <2>4. doc.refs[next] \subseteq S /\ doc.named[next] \subseteq S
    BY <2>1, <2>3 DEF Sufficient, RefsOf, NamedBy
  <2> QED
    BY <2>2, <2>3, <2>4 DEF TakeUp
<1>6. Concluded'
  BY DEF SearchInv, Concluded, TakeUp
<1> QED
  BY <1>3, <1>4, <1>5, <1>6 DEF SearchInv

LEMMA Finishing ==
  ASSUME SearchInv, Finish
  PROVE  SearchInv'
<1>1. TypeOK'
  BY DEF SearchInv, TypeOK, Finish
<1>2. FoundOrPending'
  BY DEF SearchInv, FoundOrPending, Finish, Walked, Remainder, RefsOf, NamedBy
<1>3. NothingElse'
  BY DEF SearchInv, NothingElse, Finish, Sufficient, RefsOf, NamedBy
<1>4. Concluded'
  BY DEF SearchInv, Concluded, Finish
<1> QED
  BY <1>1, <1>2, <1>3, <1>4 DEF SearchInv

LEMMA SearchContinues == SearchInv /\ [PruneNext]_prune_vars => SearchInv'
<1> SUFFICES ASSUME SearchInv, [PruneNext]_prune_vars PROVE SearchInv'
  OBVIOUS
<1>1. CASE Finish
  BY <1>1, Finishing
<1>2. ASSUME NEW next \in Components, Pass(next) PROVE SearchInv'
  BY <1>2, Passing
<1>3. ASSUME NEW next \in Components, TakeUp(next) PROVE SearchInv'
  BY <1>3, TakingUp
<1>4. CASE UNCHANGED prune_vars
  BY <1>4 DEF prune_vars, SearchInv, TypeOK, FoundOrPending, NothingElse, Concluded, Walked,
     Remainder, Sufficient, RefsOf, NamedBy
<1> QED
  BY <1>1, <1>2, <1>3, <1>4 DEF PruneNext

LEMMA SearchAlways == PruneSpec => []SearchInv
  BY SearchBegins, SearchContinues, PTL DEF PruneSpec

-----------------------------------------------------------------------------------

(* The search stays within the names the document may use. *)
THEOREM PruneTypeCorrect == PruneSpec => []TypeOK
<1>1. SearchInv => TypeOK
  BY DEF SearchInv
<1> QED
  BY SearchAlways, <1>1, PTL

(* What is walked, of any document, has all it refers to beside it. *)
THEOREM EveryWalkFindsWhatItNeeds == PruneSpec => []WalkedFindsWhatItNeeds
<1>1. SearchInv => WalkedFindsWhatItNeeds
  BY DEF SearchInv, FoundOrPending, Concluded, WalkedFindsWhatItNeeds
<1> QED
  BY SearchAlways, <1>1, PTL

(* No document lets a component stay that only hidden operations need. *)
THEOREM NothingHiddenIsKept == PruneSpec => []KeepsNothingHidden
<1>1. SearchInv => KeepsNothingHidden
  BY DEF SearchInv, NothingElse, Concluded, KeepsNothingHidden
<1> QED
  BY SearchAlways, <1>1, PTL

(* A step nearer the end: a reference taken up for the first time, or one  *)
(* fewer that was taken up before. There are only so many of either, so    *)
(* cyclic schemas cannot keep the search going.                            *)
Nearer ==
  /\ ~over
  /\ \/ over'
     \/ reached \subseteq reached' /\ reached # reached'
     \/ reached' = reached /\ pending' \subseteq pending /\ pending' # pending

(* Every step of the search is a step nearer its end, and the last one is  *)
(* the last.                                                               *)
THEOREM SearchGetsNearer == PruneSpec => [][Nearer]_prune_vars
<1>1. SearchInv /\ [PruneNext]_prune_vars => [Nearer]_prune_vars
  <2> SUFFICES ASSUME SearchInv, PruneNext PROVE Nearer
    OBVIOUS
  <2>1. over => pending = {}
    BY DEF SearchInv, Concluded
  <2>2. CASE Finish
    BY <2>2 DEF Finish, Nearer
  <2>3. ASSUME NEW next \in Components, Pass(next) PROVE Nearer
    BY <2>1, <2>3 DEF Pass, Nearer
  <2>4. ASSUME NEW next \in Components, TakeUp(next) PROVE Nearer
    BY <2>1, <2>4 DEF TakeUp, Nearer
  <2> QED
    BY <2>2, <2>3, <2>4 DEF PruneNext
<1> QED
  BY SearchAlways, <1>1, PTL DEF PruneSpec
===================================================================================
