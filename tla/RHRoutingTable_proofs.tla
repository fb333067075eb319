------------------------- MODULE RHRoutingTable_proofs -------------------------
(***************************************************************************)
(* Proofs about RHRoutingTable: for any addresses and size of the table,   *)
(* and any sequence of its operations.                                     *)
(***************************************************************************)
EXTENDS RHRoutingTable, FiniteSetTheorems, TLAPS

Table == [Slot -> Entry]

\* OnlyFirstIsLive, of a table t.
Unique(t) ==
    \A i, j \in Slot : i < j /\ t[i].dest = t[j].dest => t[j].state = "Invalid"

\* What getRouteTo() returns for an entry.
RouteIn(e) == [next_hop |-> e.next_hop, state |-> e.state]

\* k is the first entry of its destination.
IsFirst(t, k) == \A j \in Slot : t[j].dest = t[k].dest => k <= j

\* An entry e may be written to slot k; u is the table when it was.
MayWrite(t, k, e) ==
    /\ t[k].state # "Invalid" => t[k].dest = e.dest
    /\ \A j \in Slot : j # k /\ t[j].dest = e.dest => k < j /\ t[j].state = "Invalid"

Written(t, k, e, u) == u = [t EXCEPT ![k] = e]

TableInv == routes \in Table /\ OnlyFirstIsLive

(***************************************************************************)
(* While no entry was made Invalid where it stands, the routes are in      *)
(* front, in the order in which they were made, and the entries behind     *)
(* them are copies of one.                                                 *)
(***************************************************************************)
Packed(t) ==
    \A i, j \in Slot : i < j /\ t[i].state = "Invalid" =>
                           t[j].state = "Invalid" /\ t[j].dest = t[i].dest

InAge(t) ==
    \A i, j \in Slot : i < j /\ t[j].state # "Invalid" =>
                           <<t[i].dest, t[j].dest>> \in older

AgeInv == TypeOK /\ (~gaps => Packed(routes) /\ InAge(routes))

(* What is known of the slots, for arithmetic.                              *)
LEMMA SlotFacts ==
    /\ TableSize \in Nat \ {0} /\ 0 \in Slot /\ TableSize - 1 \in Slot
    /\ \A i \in Slot : i \in Nat /\ i <= TableSize - 1
    /\ \A i \in Slot : i # TableSize - 1 => i + 1 \in Slot
    /\ \A i \in Slot : i # 0 => i - 1 \in Slot
  BY TableAssumption DEF Slot

(* A search from the front finds the entry with the least index.            *)
LEMMA FirstOf ==
    ASSUME NEW S \in SUBSET Slot, S # {}
    PROVE  First(S) \in S /\ \A j \in S : First(S) <= j
  <1>1. S \subseteq Nat
    BY SlotFacts
  <1>2. PICK i \in S : \A j \in S : <<j, i>> \notin OpToRel(<, Nat)
    BY <1>1, NatLessThanWellFounded, WFMin
  <1>3. \A j \in S : ~(j < i)
    BY <1>1, <1>2 DEF OpToRel
  <1>4. \E k \in S : \A j \in S : k <= j
    BY <1>1, <1>3
  <1> QED
    BY <1>4 DEF First

-----------------------------------------------------------------------------
(* getRouteTo().                                                            *)

(* No entry, no route.                                                      *)
LEMMA NotFound ==
    ASSUME NEW t \in Table, NEW d \in Address
    PROVE  /\ LiveSlots(t, d) = {} <=> GetRouteTo(t, d) = NoRoute
           /\ HasRoute(t, d) <=> LiveSlots(t, d) # {}
  <1>1. ASSUME LiveSlots(t, d) # {}
        PROVE  GetRouteTo(t, d) # NoRoute
    <2>1. First(LiveSlots(t, d)) \in Slot
      BY <1>1, FirstOf DEF LiveSlots, SlotsOf
    <2>2. t[First(LiveSlots(t, d))] \in Entry
      BY <2>1 DEF Table
    <2> QED
      BY <1>1, <2>2, NoRouteAssumption DEF GetRouteTo, Entry
  <1> QED
    BY <1>1 DEF GetRouteTo, HasRoute

(* A destination has one live entry at most, and that is the route.         *)
LEMMA Found ==
    ASSUME NEW t \in Table, Unique(t), NEW d \in Address, NEW i \in LiveSlots(t, d)
    PROVE  LiveSlots(t, d) = {i} /\ GetRouteTo(t, d) = RouteIn(t[i])
  <1>1. \A j \in LiveSlots(t, d) : j = i
    BY SlotFacts DEF Unique, LiveSlots, SlotsOf, InvalidSlots
  <1>2. First(LiveSlots(t, d)) = i
    BY <1>1, FirstOf DEF LiveSlots, SlotsOf
  <1> QED
    BY <1>1, <1>2 DEF GetRouteTo, RouteIn

(* Two tables answer alike if they have the same live entry.                *)
LEMMA SameRoute ==
    ASSUME NEW t \in Table, Unique(t), NEW u \in Table, Unique(u), NEW d \in Address,
           \A i \in LiveSlots(t, d) : \E j \in LiveSlots(u, d) : u[j] = t[i],
           LiveSlots(t, d) = {} => LiveSlots(u, d) = {}
    PROVE  GetRouteTo(u, d) = GetRouteTo(t, d)
  <1>1. CASE LiveSlots(t, d) = {}
    BY <1>1, NotFound
  <1>2. CASE LiveSlots(t, d) # {}
    <2>1. PICK i \in LiveSlots(t, d) : TRUE
      BY <1>2
    <2>2. PICK j \in LiveSlots(u, d) : u[j] = t[i]
      BY <2>1
    <2> QED
      BY <2>1, <2>2, Found
  <1> QED
    BY <1>1, <1>2

-----------------------------------------------------------------------------
(* The operations.                                                          *)

(***************************************************************************)
(* Deleting the first entry of a destination takes away its route, and no  *)
(* other one.                                                              *)
(***************************************************************************)
LEMMA DeleteRouteStep ==
    ASSUME NEW t \in Table, Unique(t), NEW k \in Slot,
           IsFirst(t, k),
           NEW u, u = DeleteRoute(t, k)
    PROVE  /\ u \in Table /\ Unique(u)
           /\ LiveSlots(u, t[k].dest) = {}
           /\ \A d \in Address : d # t[k].dest => GetRouteTo(u, d) = GetRouteTo(t, d)
  <1>1. /\ DOMAIN u = Slot
        /\ u[TableSize - 1] = [t[TableSize - 1] EXCEPT !.state = "Invalid"]
        /\ \A i \in Slot : i # TableSize - 1 =>
              u[i] = IF k <= i THEN t[i + 1] ELSE t[i]
    BY SlotFacts DEF DeleteRoute
  <1>2. /\ u[TableSize - 1] \in Entry /\ u[TableSize - 1].state = "Invalid"
        /\ u[TableSize - 1].dest = t[TableSize - 1].dest
    <2>1. t[TableSize - 1] \in Entry
      BY SlotFacts DEF Table
    <2> QED
      BY <1>1, <2>1 DEF Entry, RouteState
  <1>3. u \in Table
    <2>1. \A i \in Slot : u[i] \in Entry
      BY <1>1, <1>2, SlotFacts DEF Table
    <2>2. u = [i \in Slot |-> u[i]]
      BY DEF DeleteRoute
    <2> QED
      BY <2>1, <2>2 DEF Table
  <1>4. Unique(u)
    <2> SUFFICES ASSUME NEW i \in Slot, NEW j \in Slot, i < j, u[i].dest = u[j].dest,
                        j # TableSize - 1
                 PROVE  u[j].state = "Invalid"
      BY <1>2 DEF Unique
    <2>1. i # TableSize - 1
      BY SlotFacts
    <2>2. PICK a \in Slot, b \in Slot : a < b /\ u[i] = t[a] /\ u[j] = t[b]
      <3>1. CASE k <= i
        BY <1>1, <2>1, <3>1, SlotFacts
      <3>2. CASE i < k /\ k <= j
        BY <1>1, <2>1, <3>2, SlotFacts
      <3>3. CASE j < k
        BY <1>1, <2>1, <3>3, SlotFacts
      <3> QED
        BY <3>1, <3>2, <3>3, SlotFacts
    <2> QED
      BY <2>2 DEF Unique
  <1>5. \A d \in Address : \A i \in LiveSlots(u, d) :
            \E j \in LiveSlots(t, d) : j # k /\ t[j] = u[i]
    <2> TAKE d \in Address
    <2> TAKE i \in LiveSlots(u, d)
    <2>1. i \in Slot /\ i # TableSize - 1 /\ u[i].dest = d /\ u[i].state # "Invalid"
      BY <1>2 DEF LiveSlots, SlotsOf, InvalidSlots
    <2>2. PICK j \in Slot : j # k /\ u[i] = t[j]
      <3>1. CASE k <= i
        BY <1>1, <2>1, <3>1, SlotFacts
      <3>2. CASE i < k
        BY <1>1, <2>1, <3>2, SlotFacts
      <3> QED
        BY <2>1, <3>1, <3>2, SlotFacts
    <2> QED
      BY <2>1, <2>2 DEF LiveSlots, SlotsOf, InvalidSlots
  <1>6. \A d \in Address : \A j \in LiveSlots(t, d) :
            j # k => \E i \in LiveSlots(u, d) : u[i] = t[j]
    <2> SUFFICES ASSUME NEW d \in Address, NEW j \in LiveSlots(t, d), j # k
                 PROVE  \E i \in LiveSlots(u, d) : u[i] = t[j]
      OBVIOUS
    <2>1. j \in Slot /\ t[j].dest = d /\ t[j].state # "Invalid"
      BY DEF LiveSlots, SlotsOf, InvalidSlots
    <2>2. PICK i \in Slot : u[i] = t[j]
      <3>1. CASE j < k
        BY <1>1, <2>1, <3>1, SlotFacts
      <3>2. CASE k < j
        <4>1. j - 1 \in Slot /\ j - 1 # TableSize - 1 /\ k <= j - 1 /\ (j - 1) + 1 = j
          BY <2>1, <3>2, SlotFacts
        <4> QED
          BY <1>1, <4>1
      <3> QED
        BY <2>1, <3>1, <3>2, SlotFacts
    <2> QED
      BY <2>1, <2>2 DEF LiveSlots, SlotsOf, InvalidSlots
  <1>7. LiveSlots(t, t[k].dest) \subseteq {k}
    BY SlotFacts DEF IsFirst, Unique, LiveSlots, SlotsOf, InvalidSlots
  <1>8. t[k].dest \in Address
    BY DEF Table, Entry
  <1>9. LiveSlots(u, t[k].dest) = {}
    BY <1>5, <1>7, <1>8
  <1>10. ASSUME NEW d \in Address, d # t[k].dest
         PROVE  GetRouteTo(u, d) = GetRouteTo(t, d)
    <2>1. k \notin LiveSlots(t, d)
      BY <1>10 DEF LiveSlots, SlotsOf
    <2>2. \A j \in LiveSlots(t, d) : \E i \in LiveSlots(u, d) : u[i] = t[j]
      BY <1>6, <2>1
    <2>3. LiveSlots(t, d) = {} => LiveSlots(u, d) = {}
      BY <1>5
    <2> QED
      BY <1>3, <1>4, <2>2, <2>3, SameRoute
  <1> QED
    BY <1>3, <1>4, <1>9, <1>10

(***************************************************************************)
(* An entry may be written over one that is Invalid or has the same        *)
(* destination, if no entry in front of it and no live one has that: then  *)
(* only the route to its destination changes.                              *)
(***************************************************************************)
LEMMA WriteStep ==
    ASSUME NEW t \in Table, Unique(t), NEW k \in Slot, NEW e \in Entry,
           MayWrite(t, k, e), NEW u, Written(t, k, e, u)
    PROVE  /\ u \in Table /\ Unique(u)
           /\ GetRouteTo(u, e.dest) = IF e.state = "Invalid" THEN NoRoute ELSE RouteIn(e)
           /\ \A d \in Address : d # e.dest => GetRouteTo(u, d) = GetRouteTo(t, d)
  <1>1. u \in Table /\ u[k] = e /\ \A i \in Slot \ {k} : u[i] = t[i]
    BY DEF Written, Table
  <1>2. Unique(u)
    <2> SUFFICES ASSUME NEW i \in Slot, NEW j \in Slot, i < j, u[i].dest = u[j].dest
                 PROVE  u[j].state = "Invalid"
      BY DEF Unique
    <2>1. i \in Nat /\ j \in Nat /\ k \in Nat
      BY SlotFacts
    <2>2. CASE j = k
      BY <1>1, <2>1, <2>2 DEF MayWrite
    <2>3. CASE i = k
      BY <1>1, <2>1, <2>3 DEF MayWrite
    <2>4. CASE i # k /\ j # k
      BY <1>1, <2>4 DEF Unique
    <2> QED
      BY <2>2, <2>3, <2>4
  <1>3. e.dest \in Address
    BY DEF Entry
  <1>4. \A i \in LiveSlots(u, e.dest) : i = k
    BY <1>1 DEF MayWrite, LiveSlots, SlotsOf, InvalidSlots
  <1>5. GetRouteTo(u, e.dest) = IF e.state = "Invalid" THEN NoRoute ELSE RouteIn(e)
    <2>1. CASE e.state = "Invalid"
      <3>1. LiveSlots(u, e.dest) = {}
        BY <1>1, <1>4, <2>1 DEF LiveSlots, SlotsOf, InvalidSlots
      <3> QED
        BY <1>1, <1>3, <2>1, <3>1, NotFound
    <2>2. CASE e.state # "Invalid"
      <3>1. k \in LiveSlots(u, e.dest)
        BY <1>1, <2>2 DEF LiveSlots, SlotsOf, InvalidSlots
      <3>2. GetRouteTo(u, e.dest) = RouteIn(u[k])
        BY <1>1, <1>2, <1>3, <3>1, Found
      <3> QED
        BY <1>1, <2>2, <3>2
    <2> QED
      BY <2>1, <2>2
  <1>6. ASSUME NEW d \in Address, d # e.dest
        PROVE  GetRouteTo(u, d) = GetRouteTo(t, d)
    <2>1. \A i \in Slot : i \in LiveSlots(u, d) <=> i \in LiveSlots(t, d) /\ i # k
      BY <1>1, <1>6 DEF LiveSlots, SlotsOf, InvalidSlots
    <2>2. k \notin LiveSlots(t, d)
      BY <1>6 DEF MayWrite, LiveSlots, SlotsOf, InvalidSlots
    <2>3. LiveSlots(u, d) = LiveSlots(t, d)
      BY <2>1, <2>2 DEF LiveSlots, SlotsOf
    <2>4. \A i \in LiveSlots(t, d) : i \in LiveSlots(u, d) /\ u[i] = t[i]
      BY <1>1, <2>2, <2>3 DEF LiveSlots, SlotsOf
    <2> QED
      BY <1>1, <1>2, <2>3, <2>4, SameRoute
  <1> QED
    BY <1>1, <1>2, <1>5, <1>6

(* The table has room for a route exactly when an entry is Invalid.         *)
LEMMA Room ==
    ASSUME NEW t \in Table, Unique(t)
    PROVE  LET R == {d \in Address : HasRoute(t, d)}
           IN  /\ InvalidSlots(t) # {} => Cardinality(R) < TableSize
               /\ InvalidSlots(t) = {} => Cardinality(R) = TableSize
  <1> PICK R : R = {d \in Address : HasRoute(t, d)}
    OBVIOUS
  <1> PICK f : f = [d \in R |-> CHOOSE i \in LiveSlots(t, d) : TRUE]
    OBVIOUS
  <1>1. \A d \in R : f[d] \in LiveSlots(t, d) /\ f[d] \in Slot /\ t[f[d]].dest = d
    BY NotFound DEF LiveSlots, SlotsOf
  <1>2. f \in [R -> Slot]
    BY <1>1
  <1>3. f \in Injection(R, Slot)
    <2>1. \A c, d \in R : f[c] = f[d] => c = d
      BY <1>1
    <2> QED
      BY <1>2, <2>1 DEF Injection, IsInjective
  <1>4. IsFiniteSet(Slot) /\ Cardinality(Slot) = TableSize
    <2>1. 0 \in Int /\ TableSize - 1 \in Int
      BY SlotFacts
    <2>2. /\ IsFiniteSet(Slot)
          /\ Cardinality(Slot) = IF 0 > TableSize - 1 THEN 0 ELSE (TableSize - 1) - 0 + 1
      BY <2>1, FS_Interval DEF Slot
    <2> QED
      BY <2>2, SlotFacts
  <1>5. /\ IsFiniteSet(R) /\ Cardinality(R) <= TableSize
        /\ Cardinality(R) = TableSize <=> f \in Surjection(R, Slot)
    BY <1>3, <1>4, FS_Injection
  <1>6. Cardinality(R) \in Nat
    BY <1>5, FS_CardinalityType
  <1>7. ASSUME NEW i \in InvalidSlots(t)
        PROVE  Cardinality(R) < TableSize
    <2>1. i \in Slot /\ \A d \in R : f[d] # i
      BY <1>1 DEF InvalidSlots, LiveSlots
    <2>2. f \notin Surjection(R, Slot)
      BY <2>1 DEF Surjection
    <2> QED
      BY <1>5, <1>6, <2>2, SlotFacts
  <1>8. ASSUME InvalidSlots(t) = {}
        PROVE  Cardinality(R) = TableSize
    <2>1. ASSUME NEW i \in Slot
          PROVE  \E d \in R : f[d] = i
      <3> PICK d : d = t[i].dest
        OBVIOUS
      <3>1. d \in Address /\ i \in LiveSlots(t, d)
        BY <1>8 DEF LiveSlots, SlotsOf, Table, Entry
      <3>2. d \in R /\ LiveSlots(t, d) = {i}
        BY <3>1, NotFound, Found
      <3> QED
        BY <1>1, <3>2
    <2>2. f \in Surjection(R, Slot)
      BY <1>2, <2>1 DEF Surjection
    <2> QED
      BY <1>5, <2>2
  <1> QED
    BY <1>7, <1>8

-----------------------------------------------------------------------------
(* The map.                                                                 *)

(* A change of the table, as a change of the map.                           *)
LEMMA LookupIs ==
    /\ Lookup = [d \in Address |-> GetRouteTo(routes, d)]
    /\ Lookup' = [d \in Address |-> GetRouteTo(routes', d)]
    /\ Map!Reachable = {d \in Address : HasRoute(routes, d)}
  BY DEF Lookup, Map!Reachable, HasRoute

LEMMA MapCardinality == \A S : Map!Cardinality(S) = Cardinality(S)
  BY DEF Map!Cardinality, Cardinality

(* addRouteTo() sets one route, and takes away one only if the map is full. *)
LEMMA AddStep ==
    ASSUME TableInv, NEW d \in Address, NEW h \in NextHop, NEW s \in RouteState,
           routes' = AddRouteTo(routes, d, h, s)
    PROVE  TableInv' /\ Map!Add(d, h, s)
  <1> PICK t, entry, u : /\ t = routes /\ u = routes'
                         /\ entry = [dest |-> d, next_hop |-> h, state |-> s]
    OBVIOUS
  <1>1. /\ t \in Table /\ Unique(t)
        /\ entry \in Entry /\ entry.dest = d /\ entry.state = s
        /\ Map!NewRoute(h, s) = IF s = "Invalid" THEN NoRoute ELSE RouteIn(entry)
    BY DEF TableInv, OnlyFirstIsLive, Unique, Entry, RouteIn, Map!NewRoute
  <1>2. /\ d \in Map!Reachable <=> LiveSlots(t, d) # {}
        /\ InvalidSlots(t) # {} => Cardinality(Map!Reachable) < TableSize
        /\ InvalidSlots(t) = {} => Cardinality(Map!Reachable) = TableSize
    BY <1>1, LookupIs, NotFound, Room
  <1>3. ASSUME NEW k \in Slot, Written(t, k, entry, u), MayWrite(t, k, entry)
        PROVE  TableInv' /\ Map!Add(d, h, s)
    <2>1. /\ u \in Table /\ Unique(u)
          /\ GetRouteTo(u, d) = Map!NewRoute(h, s)
          /\ \A c \in Address : c # d => GetRouteTo(u, c) = GetRouteTo(t, c)
      <3>1. /\ u \in Table /\ Unique(u)
            /\ GetRouteTo(u, entry.dest) =
                  IF entry.state = "Invalid" THEN NoRoute ELSE RouteIn(entry)
            /\ \A c \in Address : c # entry.dest => GetRouteTo(u, c) = GetRouteTo(t, c)
        BY <1>1, <1>3, WriteStep
      <3> QED
        BY <1>1, <3>1
    <2>2. d \in Map!Reachable \/ Cardinality(Map!Reachable) < TableSize
      <3>1. CASE t[k].state = "Invalid"
        BY <1>2, <3>1 DEF InvalidSlots
      <3>2. CASE t[k].state # "Invalid"
        <4>1. k \in LiveSlots(t, d)
          BY <1>1, <1>3, <3>2 DEF MayWrite, LiveSlots, SlotsOf, InvalidSlots
        <4> QED
          BY <1>2, <4>1
      <3> QED
        BY <3>1, <3>2
    <2>3. Lookup' = [Lookup EXCEPT ![d] = Map!NewRoute(h, s)]
      BY <2>1, LookupIs
    <2> QED
      BY <2>1, <2>2, <2>3, MapCardinality DEF Map!Add, TableInv, OnlyFirstIsLive, Unique
  <1>4. CASE SlotsOf(t, d) # {}
    <2> PICK k : k = First(SlotsOf(t, d))
      OBVIOUS
    <2>1. Written(t, k, entry, u)
      BY <1>4 DEF AddRouteTo, Written
    <2>2. k \in Slot /\ t[k].dest = d /\ \A j \in SlotsOf(t, d) : k <= j
      BY <1>4, FirstOf DEF SlotsOf
    <2>3. MayWrite(t, k, entry)
      <3> SUFFICES ASSUME NEW j \in Slot, j # k, t[j].dest = d
                   PROVE  k < j /\ t[j].state = "Invalid"
        BY <1>1, <2>2 DEF MayWrite
      <3>1. k < j
        <4>1. j \in SlotsOf(t, d) /\ j \in Nat /\ k \in Nat
          BY <2>2, SlotFacts DEF SlotsOf
        <4> QED
          BY <2>2, <4>1
      <3> QED
        BY <1>1, <2>2, <3>1 DEF Unique
    <2> QED
      BY <1>3, <2>1, <2>2, <2>3
  <1>5. CASE SlotsOf(t, d) = {} /\ InvalidSlots(t) # {}
    <2> PICK k : k = First(InvalidSlots(t))
      OBVIOUS
    <2>1. Written(t, k, entry, u)
      BY <1>5 DEF AddRouteTo, Written
    <2>2. k \in Slot /\ t[k].state = "Invalid"
      BY <1>5, FirstOf DEF InvalidSlots
    <2>3. MayWrite(t, k, entry)
      BY <1>1, <1>5, <2>2 DEF MayWrite, SlotsOf
    <2> QED
      BY <1>3, <2>1, <2>2, <2>3
  <1>6. CASE SlotsOf(t, d) = {} /\ InvalidSlots(t) = {}
    <2> PICK last, e, retired : /\ last = TableSize - 1 /\ e = t[0].dest
                                /\ retired = RetireOldestRoute(t)
      OBVIOUS
    <2>1. last \in Slot /\ 0 \in Slot
      BY SlotFacts
    <2>2. e \in Address /\ e # d /\ e \in Map!Reachable
      <3>1. e \in Address /\ e # d
        BY <1>1, <1>6, <2>1 DEF SlotsOf, Table, Entry
      <3>2. 0 \in LiveSlots(t, e)
        BY <1>6, <2>1 DEF LiveSlots, SlotsOf
      <3> QED
        BY <1>1, <3>1, <3>2, LookupIs, NotFound
    <2>3. /\ retired \in Table /\ Unique(retired) /\ LiveSlots(retired, e) = {}
          /\ \A c \in Address : c # e => GetRouteTo(retired, c) = GetRouteTo(t, c)
      <3>1. IsFirst(t, 0) /\ retired = DeleteRoute(t, 0)
        BY SlotFacts DEF IsFirst, RetireOldestRoute
      <3> QED
        BY <1>1, <2>1, <3>1, DeleteRouteStep
    <2>4. GetRouteTo(retired, e) = NoRoute
      BY <2>2, <2>3, NotFound
    <2>5. /\ retired[last] = [t[last] EXCEPT !.state = "Invalid"]
          /\ \A i \in Slot : i # last => retired[i] = t[i + 1] /\ i + 1 \in Slot
      BY <2>1, SlotFacts DEF RetireOldestRoute, DeleteRoute
    <2>6. InvalidSlots(retired) = {last}
      <3>1. retired[last].state = "Invalid"
        BY <1>1, <2>1, <2>5 DEF Table, Entry
      <3>2. \A i \in Slot : i # last => retired[i].state # "Invalid"
        BY <1>6, <2>5 DEF InvalidSlots
      <3> QED
        BY <2>1, <3>1, <3>2 DEF InvalidSlots
    <2>7. Written(retired, last, entry, u)
      <3>1. u = [i \in Slot |-> IF i \in InvalidSlots(retired) THEN entry ELSE retired[i]]
        BY <1>6 DEF AddRouteTo
      <3> QED
        BY <2>3, <2>6, <3>1 DEF Written, Table
    <2>8. /\ u \in Table /\ Unique(u)
          /\ GetRouteTo(u, d) = Map!NewRoute(h, s)
          /\ \A c \in Address : c # d => GetRouteTo(u, c) = GetRouteTo(retired, c)
      <3>1. \A j \in Slot : j # last => retired[j].dest # d
        BY <1>6, <2>5 DEF SlotsOf
      <3>2. retired[last].state = "Invalid"
        BY <2>1, <2>6 DEF InvalidSlots
      <3>3. MayWrite(retired, last, entry)
        BY <1>1, <3>1, <3>2 DEF MayWrite
      <3>4. /\ u \in Table /\ Unique(u)
            /\ GetRouteTo(u, entry.dest) =
                  IF entry.state = "Invalid" THEN NoRoute ELSE RouteIn(entry)
            /\ \A c \in Address : c # entry.dest => GetRouteTo(u, c) = GetRouteTo(retired, c)
        BY <1>1, <2>1, <2>3, <2>7, <3>3, WriteStep
      <3> QED
        BY <1>1, <3>4
    <2>9. d \notin Map!Reachable /\ Cardinality(Map!Reachable) = TableSize
      BY <1>2, <1>6 DEF LiveSlots
    <2>10. Lookup' = [Lookup EXCEPT ![e] = NoRoute, ![d] = Map!NewRoute(h, s)]
      BY <2>2, <2>3, <2>4, <2>8, LookupIs
    <2> QED
      BY <2>2, <2>8, <2>9, <2>10, MapCardinality DEF Map!Add, TableInv, OnlyFirstIsLive, Unique
  <1> QED
    BY <1>4, <1>5, <1>6

(* deleteRouteTo() takes away one route, and says true if there was one.    *)
LEMMA DeleteStep ==
    ASSUME TableInv, NEW d \in Address, routes' = DeleteRouteTo(routes, d)
    PROVE  TableInv' /\ Map!Delete(d) /\ (HasRoute(routes, d) => SlotsOf(routes, d) # {})
  <1> PICK t, u : t = routes /\ u = routes'
    OBVIOUS
  <1>1. t \in Table /\ Unique(t)
    BY DEF TableInv, OnlyFirstIsLive, Unique
  <1>2. HasRoute(t, d) => SlotsOf(t, d) # {}
    BY <1>1, NotFound DEF LiveSlots
  <1>3. CASE SlotsOf(t, d) = {}
    <2>1. u = t /\ GetRouteTo(t, d) = NoRoute
      BY <1>2, <1>3 DEF DeleteRouteTo, HasRoute
    <2>2. Lookup' = [Lookup EXCEPT ![d] = NoRoute]
      BY <2>1, LookupIs
    <2> QED
      BY <1>2, <2>1, <2>2 DEF Map!Delete, TableInv, OnlyFirstIsLive
  <1>4. CASE SlotsOf(t, d) # {}
    <2> PICK k : k = First(SlotsOf(t, d))
      OBVIOUS
    <2>1. u = DeleteRoute(t, k)
      BY <1>4 DEF DeleteRouteTo
    <2>2. k \in Slot /\ t[k].dest = d /\ IsFirst(t, k)
      BY <1>4, FirstOf DEF SlotsOf, IsFirst
    <2>3. /\ u \in Table /\ Unique(u) /\ LiveSlots(u, d) = {}
          /\ \A c \in Address : c # d => GetRouteTo(u, c) = GetRouteTo(t, c)
      BY <1>1, <2>1, <2>2, DeleteRouteStep
    <2>4. GetRouteTo(u, d) = NoRoute
      BY <2>3, NotFound
    <2>5. Lookup' = [Lookup EXCEPT ![d] = NoRoute]
      BY <2>3, <2>4, LookupIs
    <2> QED
      BY <1>2, <2>3, <2>5 DEF Map!Delete, TableInv, OnlyFirstIsLive, Unique
  <1> QED
    BY <1>3, <1>4

(* retireOldestRoute() takes away one route, or none.                       *)
LEMMA RetireStep ==
    ASSUME TableInv, routes' = RetireOldestRoute(routes)
    PROVE  TableInv' /\ (Map!Retire \/ UNCHANGED Lookup)
  <1> PICK t, u, e : t = routes /\ u = routes' /\ e = t[0].dest
    OBVIOUS
  <1>1. t \in Table /\ Unique(t) /\ 0 \in Slot /\ IsFirst(t, 0)
    BY SlotFacts DEF TableInv, OnlyFirstIsLive, Unique, IsFirst
  <1>2. e \in Address
    BY <1>1 DEF Table, Entry
  <1>3. /\ u \in Table /\ Unique(u) /\ LiveSlots(u, e) = {}
        /\ \A c \in Address : c # e => GetRouteTo(u, c) = GetRouteTo(t, c)
    BY <1>1, DeleteRouteStep DEF RetireOldestRoute
  <1>4. GetRouteTo(u, e) = NoRoute
    BY <1>2, <1>3, NotFound
  <1>5. Lookup' = [Lookup EXCEPT ![e] = NoRoute]
    BY <1>3, <1>4, LookupIs
  <1>6. e \in Map!Reachable \/ Lookup' = Lookup
    BY <1>2, <1>5, LookupIs DEF Map!Reachable
  <1> QED
    BY <1>3, <1>5, <1>6 DEF Map!Retire, Map!Delete, TableInv, OnlyFirstIsLive, Unique

(* clearRoutingTable() takes away all.                                      *)
LEMMA ClearStep ==
    ASSUME TableInv, routes' = ClearRoutingTable(routes)
    PROVE  TableInv' /\ Map!Clear
  <1> PICK u : u = routes'
    OBVIOUS
  <1>1. u \in Table /\ \A i \in Slot : u[i].state = "Invalid"
    BY DEF TableInv, Table, ClearRoutingTable, Entry, RouteState
  <1>2. \A d \in Address : LiveSlots(u, d) = {}
    BY <1>1 DEF LiveSlots, SlotsOf, InvalidSlots
  <1>3. \A d \in Address : GetRouteTo(u, d) = NoRoute
    BY <1>1, <1>2, NotFound
  <1> QED
    BY <1>1, <1>3, LookupIs DEF Map!Clear, TableInv, OnlyFirstIsLive

-----------------------------------------------------------------------------
(* The order of age.                                                        *)

\* Two routes of u are those of two entries of t, or the second of them is new.
FollowsAge(t, u) ==
    \A i, j \in Slot : i < j /\ u[j].state # "Invalid" =>
        \/ \E a, b \in Slot : /\ a < b /\ t[b].state # "Invalid"
                              /\ t[a].dest = u[i].dest /\ t[b].dest = u[j].dest
        \/ HasRoute(t, u[i].dest) /\ ~HasRoute(t, u[j].dest)

\* A live entry is a route.
LEMMA LiveHasRoute ==
    ASSUME NEW t \in Table
    PROVE  /\ \A i \in Slot : t[i].dest \in Address
           /\ \A i \in Slot : t[i].state # "Invalid" => HasRoute(t, t[i].dest)
           /\ \A d \in Address : HasRoute(t, d) =>
                 \E i \in Slot : t[i].dest = d /\ t[i].state # "Invalid"
  <1>1. \A i \in Slot : t[i].dest \in Address
    BY DEF Table, Entry
  <1>2. \A i \in Slot : t[i].state # "Invalid" => i \in LiveSlots(t, t[i].dest)
    BY DEF LiveSlots, SlotsOf, InvalidSlots
  <1>3. \A d \in Address : LiveSlots(t, d) # {} =>
            \E i \in Slot : t[i].dest = d /\ t[i].state # "Invalid"
    BY DEF LiveSlots, SlotsOf, InvalidSlots
  <1> QED
    BY <1>1, <1>2, <1>3, NotFound

\* In a packed table all entries before a live one are live.
LEMMA LiveBefore ==
    ASSUME NEW t \in Table, Packed(t), NEW i \in Slot, NEW j \in Slot,
           i < j, t[j].state # "Invalid"
    PROVE  t[i].state # "Invalid"
  BY DEF Packed

\* The history follows a table that keeps the order of age.
LEMMA AgeFollows ==
    ASSUME routes \in Table, InAge(routes), NEW t \in Table, Packed(t),
           FollowsAge(routes, t), Become(t)
    PROVE  Packed(routes') /\ InAge(routes)'
  <1> DEFINE has == {d \in Address : HasRoute(t, d)}
             had == {d \in Address : HasRoute(routes, d)}
  <1>1. /\ routes' = t
        /\ older' = (older \cap (has \X has)) \cup ((has \cap had) \X (has \ had))
    BY DEF Become
  <1> SUFFICES ASSUME NEW i \in Slot, NEW j \in Slot, i < j, t[j].state # "Invalid"
               PROVE  <<t[i].dest, t[j].dest>> \in older'
    BY <1>1 DEF InAge
  <1>2. t[i].dest \in has /\ t[j].dest \in has
    BY LiveBefore, LiveHasRoute
  <1>3. ASSUME NEW a \in Slot, NEW b \in Slot, a < b, routes[b].state # "Invalid",
               routes[a].dest = t[i].dest, routes[b].dest = t[j].dest
        PROVE  <<t[i].dest, t[j].dest>> \in older
    BY <1>3 DEF InAge
  <1>4. \/ <<t[i].dest, t[j].dest>> \in older
        \/ HasRoute(routes, t[i].dest) /\ ~HasRoute(routes, t[j].dest)
    BY <1>3 DEF FollowsAge
  <1>5. \/ <<t[i].dest, t[j].dest>> \in older
        \/ t[i].dest \in had /\ t[j].dest \notin had
    BY <1>2, <1>4
  <1> HIDE DEF has, had
  <1> QED
    BY <1>1, <1>2, <1>5

\* Deleting an entry keeps the order of the others.
LEMMA DeleteAge ==
    ASSUME NEW t \in Table, Packed(t), NEW k \in Slot
    PROVE  LET u == DeleteRoute(t, k) IN Packed(u) /\ FollowsAge(t, u)
  <1> PICK u : u = DeleteRoute(t, k)
    OBVIOUS
  <1> PICK last : last = TableSize - 1
    OBVIOUS
  <1>1. last \in Slot /\ \A i \in Slot : i \in Nat /\ i <= last /\ (i # last => i + 1 \in Slot)
    BY SlotFacts
  <1>2. \A i \in Slot : i # last => u[i] = IF k <= i THEN t[i + 1] ELSE t[i]
    BY DEF DeleteRoute
  <1>3. u[last].state = "Invalid" /\ u[last].dest = t[last].dest
    <2>1. u[last] = [t[last] EXCEPT !.state = "Invalid"] /\ t[last] \in Entry
      BY <1>1 DEF DeleteRoute, Table
    <2> QED
      BY <2>1 DEF Entry
  <1>4. \A i \in Slot : i # last => \E a \in Slot : i <= a /\ a <= i + 1 /\ u[i] = t[a]
                                        /\ (k <= i => a = i + 1) /\ (i < k => a = i)
    <2> SUFFICES ASSUME NEW i \in Slot, i # last
                 PROVE  \E a \in Slot : i <= a /\ a <= i + 1 /\ u[i] = t[a]
                                        /\ (k <= i => a = i + 1) /\ (i < k => a = i)
      OBVIOUS
    <2>1. CASE k <= i
      BY <1>1, <1>2, <2>1
    <2>2. CASE i < k
      BY <1>1, <1>2, <2>2
    <2> QED
      BY <1>1, <2>1, <2>2
  <1>5. ASSUME NEW i \in Slot, NEW j \in Slot, i < j, j # last
        PROVE  \E a, b \in Slot : a < b /\ u[i] = t[a] /\ u[j] = t[b]
    <2>1. i # last
      BY <1>1, <1>5
    <2>2. PICK a \in Slot : /\ i <= a /\ a <= i + 1 /\ u[i] = t[a]
                            /\ (k <= i => a = i + 1) /\ (i < k => a = i)
      BY <1>4, <2>1
    <2>3. PICK b \in Slot : /\ j <= b /\ b <= j + 1 /\ u[j] = t[b]
                            /\ (k <= j => b = j + 1) /\ (j < k => b = j)
      BY <1>4, <1>5
    <2>4. a < b
      BY <1>1, <1>5, <2>2, <2>3
    <2> QED
      BY <2>2, <2>3, <2>4
  <1>6. Packed(u)
    <2> SUFFICES ASSUME NEW i \in Slot, NEW j \in Slot, i < j, u[i].state = "Invalid"
                 PROVE  u[j].state = "Invalid" /\ u[j].dest = u[i].dest
      BY DEF Packed
    <2>1. CASE j # last
      BY <1>5, <2>1 DEF Packed
    <2>2. CASE j = last
      <3>1. i # last
        <4>1. i \in Nat /\ j \in Nat
          BY <1>1
        <4> QED
          BY <2>2, <4>1
      <3>2. PICK a \in Slot : u[i] = t[a]
        BY <1>4, <3>1
      <3>3. a = last \/ a < last
        BY <1>1
      <3>4. t[last].dest = t[a].dest
        BY <1>1, <3>2, <3>3 DEF Packed
      <3> QED
        BY <1>3, <2>2, <3>2, <3>4
    <2> QED
      BY <2>1, <2>2
  <1>7. FollowsAge(t, u)
    <2> SUFFICES ASSUME NEW i \in Slot, NEW j \in Slot, i < j, u[j].state # "Invalid"
                 PROVE  \E a, b \in Slot : /\ a < b /\ t[b].state # "Invalid"
                              /\ t[a].dest = u[i].dest /\ t[b].dest = u[j].dest
      BY DEF FollowsAge
    <2>1. j # last
      BY <1>3
    <2>2. PICK a \in Slot, b \in Slot : a < b /\ u[i] = t[a] /\ u[j] = t[b]
      BY <1>5, <2>1
    <2> QED
      BY <2>2
  <1> QED
    BY <1>6, <1>7

\* Writing a route over itself, or behind the last one, keeps it too.
LEMMA WriteAge ==
    ASSUME NEW t \in Table, Packed(t), NEW k \in Slot, NEW e \in Entry,
           e.state # "Invalid", MayWrite(t, k, e), NEW u, Written(t, k, e, u),
           \A i \in Slot : i < k => t[i].state # "Invalid"
    PROVE  Packed(u) /\ FollowsAge(t, u)
  <1>1. u[k] = e /\ \A i \in Slot \ {k} : u[i] = t[i]
    BY DEF Written, Table
  <1>2. \A i \in Slot : i \in Nat
    BY SlotFacts
  <1>3. Packed(u)
    <2> SUFFICES ASSUME NEW i \in Slot, NEW j \in Slot, i < j, u[i].state = "Invalid"
                 PROVE  u[j].state = "Invalid" /\ u[j].dest = u[i].dest
      BY DEF Packed
    <2>1. i # k /\ t[i].state = "Invalid"
      BY <1>1
    <2>2. j # k
      BY <2>1
    <2> QED
      BY <1>1, <2>1, <2>2 DEF Packed
  <1>4. FollowsAge(t, u)
    <2> SUFFICES ASSUME NEW i \in Slot, NEW j \in Slot, i < j, u[j].state # "Invalid"
                 PROVE  \/ \E a, b \in Slot : /\ a < b /\ t[b].state # "Invalid"
                              /\ t[a].dest = u[i].dest /\ t[b].dest = u[j].dest
                        \/ HasRoute(t, u[i].dest) /\ ~HasRoute(t, u[j].dest)
      BY DEF FollowsAge
    <2>1. CASE t[k].state # "Invalid"
      <3>1. t[k].dest = u[k].dest
        BY <1>1, <2>1 DEF MayWrite
      <3>2. t[i].dest = u[i].dest /\ t[j].dest = u[j].dest /\ t[j].state # "Invalid"
        BY <1>1, <2>1, <3>1
      <3> QED
        BY <3>2
    <2>2. CASE t[k].state = "Invalid" /\ j # k
      <3>1. t[j].state # "Invalid" /\ u[j] = t[j]
        BY <1>1, <2>2
      <3>2. i # k
        BY <2>2, <3>1 DEF Packed
      <3> QED
        BY <1>1, <3>1, <3>2
    <2>3. CASE t[k].state = "Invalid" /\ j = k
      <3>1. u[i] = t[i] /\ t[i].state # "Invalid" /\ u[j] = e
        BY <1>1, <1>2, <2>3
      <3>2. \A a \in Slot : t[a].dest = e.dest => t[a].state = "Invalid"
        BY <2>3 DEF MayWrite
      <3>3. e.dest \in Address
        BY DEF Entry
      <3> QED
        BY <3>1, <3>2, <3>3, LiveHasRoute
    <2> QED
      BY <2>1, <2>2, <2>3
  <1> QED
    BY <1>3, <1>4

\* In a packed table the oldest route is the first entry.
LEMMA FirstIsOldest ==
    ASSUME routes \in Table, Packed(routes), InAge(routes), NEW d \in Address,
           HasRoute(routes, d), routes[0].dest = d
    PROVE  Oldest(d)
  <1> SUFFICES ASSUME NEW e \in Address, HasRoute(routes, e), e # d
               PROVE  <<d, e>> \in older
    BY DEF Oldest
  <1>1. PICK j \in Slot : routes[j].dest = e /\ routes[j].state # "Invalid"
    BY LiveHasRoute
  <1>2. 0 \in Slot /\ 0 < j
    BY <1>1, SlotFacts
  <1> QED
    BY <1>1, <1>2 DEF InAge

(***************************************************************************)
(* addRouteTo() writes the entry the destination has, or the first free    *)
(* one, or retires the first entry and writes the last.                    *)
(***************************************************************************)
LEMMA AddAge ==
    ASSUME TableInv, Packed(routes), InAge(routes),
           NEW d \in Address, NEW h \in NextHop, NEW s \in RouteState, s # "Invalid",
           Become(AddRouteTo(routes, d, h, s))
    PROVE  /\ Packed(routes') /\ InAge(routes)'
           /\ Lost \subseteq {d} \/ \E e \in Address : Lost = {e} /\ Oldest(e)
  <1> PICK t, u, entry : /\ t = routes /\ u = routes'
                         /\ entry = [dest |-> d, next_hop |-> h, state |-> s]
    OBVIOUS
  <1>1. /\ t \in Table /\ Unique(t) /\ Packed(t)
        /\ entry \in Entry /\ entry.dest = d /\ entry.state = s
    BY DEF TableInv, OnlyFirstIsLive, Unique, Entry
  <1>2. u = AddRouteTo(t, d, h, s) /\ Become(u)
    BY DEF Become
  <1>3. ASSUME u \in Table, Packed(u), FollowsAge(t, u)
        PROVE  Packed(routes') /\ InAge(routes)'
    BY <1>1, <1>2, <1>3, AgeFollows
  <1>4. ASSUME NEW k \in Slot, Written(t, k, entry, u), MayWrite(t, k, entry),
               \A i \in Slot : i < k => t[i].state # "Invalid"
        PROVE  Packed(routes') /\ InAge(routes)' /\ Lost \subseteq {d}
    <2>1. u \in Table /\ \A c \in Address : c # d => GetRouteTo(u, c) = GetRouteTo(t, c)
      <3>1. u \in Table /\ \A c \in Address :
                c # entry.dest => GetRouteTo(u, c) = GetRouteTo(t, c)
        BY <1>1, <1>4, WriteStep
      <3> QED
        BY <1>1, <3>1
    <2>2. Packed(u) /\ FollowsAge(t, u)
      BY <1>1, <1>4, WriteAge
    <2>3. Lost \subseteq {d}
      BY <2>1 DEF Lost, HasRoute
    <2> QED
      BY <1>3, <2>1, <2>2, <2>3
  <1>5. CASE SlotsOf(t, d) # {}
    <2> PICK k : k = First(SlotsOf(t, d))
      OBVIOUS
    <2>1. Written(t, k, entry, u)
      BY <1>2, <1>5 DEF AddRouteTo, Written
    <2>2. k \in Slot /\ t[k].dest = d /\ \A j \in SlotsOf(t, d) : k <= j
      BY <1>5, FirstOf DEF SlotsOf
    <2>3. \A j \in Slot : t[j].dest = d /\ j # k => k < j
      <3>1. \A j \in Slot : t[j].dest = d => j \in SlotsOf(t, d)
        BY DEF SlotsOf
      <3>2. \A j \in Slot : j \in Nat
        BY SlotFacts
      <3> QED
        BY <2>2, <3>1, <3>2
    <2>4. MayWrite(t, k, entry)
      BY <1>1, <2>2, <2>3 DEF MayWrite, Unique
    <2>5. ASSUME NEW i \in Slot, i < k
          PROVE  t[i].state # "Invalid"
      <3>1. SUFFICES ASSUME t[i].state = "Invalid" PROVE FALSE
        OBVIOUS
      <3>2. t[i].dest = d
        BY <1>1, <2>2, <2>5, <3>1 DEF Packed
      <3> QED
        BY <2>2, <2>3, <2>5, <3>2, SlotFacts
    <2> QED
      BY <1>4, <2>1, <2>2, <2>4, <2>5
  <1>6. CASE SlotsOf(t, d) = {} /\ InvalidSlots(t) # {}
    <2> PICK k : k = First(InvalidSlots(t))
      OBVIOUS
    <2>1. Written(t, k, entry, u)
      BY <1>2, <1>6 DEF AddRouteTo, Written
    <2>2. k \in Slot /\ t[k].state = "Invalid" /\ \A j \in InvalidSlots(t) : k <= j
      BY <1>6, FirstOf DEF InvalidSlots
    <2>3. MayWrite(t, k, entry)
      BY <1>1, <1>6, <2>2 DEF MayWrite, SlotsOf
    <2>4. \A i \in Slot : i < k => t[i].state # "Invalid"
      <3>1. \A i \in Slot : t[i].state = "Invalid" => i \in InvalidSlots(t)
        BY DEF InvalidSlots
      <3>2. \A i \in Slot : i \in Nat
        BY SlotFacts
      <3> QED
        BY <2>2, <3>1, <3>2
    <2> QED
      BY <1>4, <2>1, <2>2, <2>3, <2>4
  <1>7. CASE SlotsOf(t, d) = {} /\ InvalidSlots(t) = {}
    <2> PICK last, e, retired : /\ last = TableSize - 1 /\ e = t[0].dest
                                /\ retired = RetireOldestRoute(t)
      OBVIOUS
    <2>1. /\ last \in Slot /\ 0 \in Slot
          /\ \A i \in Slot : i \in Nat /\ i <= last /\ (i # last => i + 1 \in Slot)
      BY SlotFacts
    <2>2. \A i \in Slot : t[i].state # "Invalid" /\ t[i].dest # d
      BY <1>7 DEF SlotsOf, InvalidSlots
    <2>3. /\ DOMAIN retired = Slot
          /\ retired[last] = [t[last] EXCEPT !.state = "Invalid"]
          /\ \A i \in Slot : i # last => retired[i] = t[i + 1]
      BY <2>1 DEF RetireOldestRoute, DeleteRoute
    <2>4. InvalidSlots(retired) = {last}
      <3>1. retired[last].state = "Invalid"
        BY <1>1, <2>1, <2>3 DEF Table, Entry
      <3>2. \A i \in Slot : i # last => retired[i].state # "Invalid"
        BY <2>1, <2>2, <2>3
      <3> QED
        BY <2>1, <3>1, <3>2 DEF InvalidSlots
    <2>5. u = [i \in Slot |-> IF i \in InvalidSlots(retired) THEN entry ELSE retired[i]]
      BY <1>2, <1>7 DEF AddRouteTo
    <2>6. /\ u[last] = entry /\ \A i \in Slot : i # last => u[i] = t[i + 1]
          /\ u \in Table
      <3>1. u[last] = entry /\ \A i \in Slot : i # last => u[i] = t[i + 1]
        BY <2>1, <2>3, <2>4, <2>5
      <3>2. \A i \in Slot : u[i] \in Entry
        BY <1>1, <2>1, <3>1 DEF Table
      <3>3. u = [i \in Slot |-> u[i]]
        BY <2>5
      <3> QED
        BY <3>1, <3>2, <3>3 DEF Table
    <2>7. \A i \in Slot : u[i].state # "Invalid"
      BY <1>1, <2>1, <2>2, <2>6
    <2>8. Packed(u)
      BY <2>7 DEF Packed
    <2>9. ~HasRoute(t, d)
      BY <1>1, <2>2, LiveHasRoute
    <2>10. FollowsAge(t, u)
      <3> SUFFICES ASSUME NEW i \in Slot, NEW j \in Slot, i < j
                   PROVE  \/ \E a, b \in Slot : /\ a < b /\ t[b].state # "Invalid"
                                /\ t[a].dest = u[i].dest /\ t[b].dest = u[j].dest
                          \/ HasRoute(t, u[i].dest) /\ ~HasRoute(t, u[j].dest)
        BY DEF FollowsAge
      <3>1. i # last /\ i + 1 \in Slot /\ u[i] = t[i + 1]
        BY <2>1, <2>6
      <3>2. CASE j = last
        <4>1. HasRoute(t, u[i].dest)
          BY <1>1, <2>2, <3>1, LiveHasRoute
        <4> QED
          BY <1>1, <2>6, <2>9, <3>2, <4>1
      <3>3. CASE j # last
        <4>1. j + 1 \in Slot /\ u[j] = t[j + 1] /\ i + 1 < j + 1
          BY <2>1, <2>6, <3>3
        <4> QED
          BY <2>2, <3>1, <4>1
      <3> QED
        BY <3>2, <3>3
    <2>11. e \in Address /\ HasRoute(t, e) /\ e # d
      BY <1>1, <2>1, <2>2, LiveHasRoute
    <2>12. Lost = {e}
      <3>1. ASSUME NEW c \in Address, HasRoute(t, c), ~HasRoute(u, c)
            PROVE  c = e
        <4>1. PICK j \in Slot : t[j].dest = c
          BY <1>1, <3>1, LiveHasRoute
        <4>2. ASSUME j # 0 PROVE FALSE
          <5>1. j - 1 \in Slot /\ j - 1 # last /\ (j - 1) + 1 = j
            BY <2>1, <4>2, SlotFacts
          <5>2. u[j - 1].dest = c /\ u[j - 1].state # "Invalid"
            BY <2>6, <2>7, <4>1, <5>1
          <5> QED
            BY <2>6, <3>1, <5>1, <5>2, LiveHasRoute
        <4> QED
          BY <4>1, <4>2
      <3>2. ~HasRoute(u, e)
        <4>1. SUFFICES ASSUME HasRoute(u, e) PROVE FALSE
          OBVIOUS
        <4>2. PICK i \in Slot : u[i].dest = e
          BY <2>6, <2>11, <4>1, LiveHasRoute
        <4>3. i # last
          BY <1>1, <2>6, <2>11, <4>2
        <4>4. i + 1 \in Slot /\ 0 < i + 1 /\ t[i + 1].dest = t[0].dest
          BY <2>1, <2>6, <4>2, <4>3
        <4> QED
          BY <1>1, <2>1, <2>2, <4>4 DEF Unique
      <3>3. Lost = {c \in Address : HasRoute(t, c) /\ ~HasRoute(u, c)}
        BY DEF Lost
      <3> QED
        BY <2>11, <3>1, <3>2, <3>3
    <2>13. Oldest(e)
      BY <1>1, <2>11, FirstIsOldest
    <2> QED
      BY <1>3, <2>6, <2>8, <2>10, <2>11, <2>12, <2>13
  <1> QED
    BY <1>4, <1>5, <1>6, <1>7

\* deleteRouteTo() keeps the order of the other routes.
LEMMA DeleteRouteToAge ==
    ASSUME TableInv, Packed(routes), InAge(routes), NEW d \in Address,
           Become(DeleteRouteTo(routes, d))
    PROVE  Packed(routes') /\ InAge(routes)'
  <1> PICK u : u = routes'
    OBVIOUS
  <1>1. Become(u) /\ u = DeleteRouteTo(routes, d)
    BY DEF Become
  <1>2. u \in Table
    BY <1>1, DeleteStep DEF TableInv
  <1>3. CASE SlotsOf(routes, d) = {}
    <2>1. u = routes
      BY <1>1, <1>3 DEF DeleteRouteTo
    <2>2. Packed(u) /\ FollowsAge(routes, u)
      BY <2>1 DEF FollowsAge
    <2> QED
      BY <1>1, <1>2, <2>2, AgeFollows DEF TableInv
  <1>4. CASE SlotsOf(routes, d) # {}
    <2>1. PICK k \in Slot : u = DeleteRoute(routes, k)
      BY <1>1, <1>4, FirstOf DEF DeleteRouteTo, SlotsOf
    <2>2. Packed(u) /\ FollowsAge(routes, u)
      BY <2>1, DeleteAge DEF TableInv
    <2> QED
      BY <1>1, <1>2, <2>2, AgeFollows DEF TableInv
  <1> QED
    BY <1>3, <1>4

\* retireOldestRoute() takes the oldest, if there is one.
LEMMA RetireAge ==
    ASSUME TableInv, Packed(routes), InAge(routes),
           Become(RetireOldestRoute(routes))
    PROVE  /\ Packed(routes') /\ InAge(routes)'
           /\ Lost # {} => \E e \in Address : Lost = {e} /\ Oldest(e)
  <1> PICK u, e : u = routes' /\ e = routes[0].dest
    OBVIOUS
  <1>1. Become(u) /\ u = DeleteRoute(routes, 0) /\ 0 \in Slot
    BY SlotFacts DEF Become, RetireOldestRoute
  <1>2. /\ routes \in Table /\ Unique(routes) /\ IsFirst(routes, 0) /\ e \in Address
    BY <1>1, SlotFacts DEF TableInv, OnlyFirstIsLive, Unique, IsFirst, Table, Entry
  <1>3. /\ u \in Table
        /\ \A c \in Address : c # e => GetRouteTo(u, c) = GetRouteTo(routes, c)
    BY <1>1, <1>2, DeleteRouteStep
  <1>4. Packed(u) /\ FollowsAge(routes, u)
    BY <1>1, <1>2, DeleteAge
  <1>5. Packed(routes') /\ InAge(routes)'
    BY <1>1, <1>2, <1>3, <1>4, AgeFollows
  <1>6. \A c \in Lost : c = e /\ HasRoute(routes, e)
    BY <1>3 DEF Lost, HasRoute
  <1>7. Lost # {} => Lost = {e} /\ Oldest(e)
    BY <1>2, <1>6, FirstIsOldest
  <1> QED
    BY <1>2, <1>5, <1>7

-----------------------------------------------------------------------------
(* The theorems.                                                            *)

LEMMA TableInit == Init => TableInv /\ Map!Init
  <1> SUFFICES ASSUME Init PROVE TableInv /\ Map!Init
    OBVIOUS
  <1>1. routes \in Table /\ \A i \in Slot : routes[i].state = "Invalid"
    BY TableAssumption DEF Init, Table, Entry, RouteState
  <1>2. \A d \in Address : LiveSlots(routes, d) = {}
    BY <1>1 DEF LiveSlots, SlotsOf, InvalidSlots
  <1>3. \A d \in Address : GetRouteTo(routes, d) = NoRoute
    BY <1>1, <1>2, NotFound
  <1> QED
    BY <1>1, <1>3 DEF TableInv, OnlyFirstIsLive, Lookup, Map!Init

\* What the operations do to the map.
OperationIsMapped ==
    /\ \A d \in Address, h \in NextHop, s \in AddedStates : Add(d, h, s) => Map!Add(d, h, s)
    /\ \A d \in Address : Delete(d) => Map!Delete(d) /\ (HasRoute(routes, d) => found')
    /\ Retire => Map!Retire \/ UNCHANGED Lookup
    /\ Clear => Map!Clear

LEMMA TableStep ==
    ASSUME TableInv, [Next]_vars
    PROVE  TableInv' /\ [Map!Next]_Lookup /\ OperationIsMapped
  <1>1. ASSUME NEW d \in Address, NEW h \in NextHop, NEW s \in AddedStates, Add(d, h, s)
        PROVE  TableInv' /\ Map!Add(d, h, s) /\ s \in RouteState
    <2>1. s \in RouteState /\ routes' = AddRouteTo(routes, d, h, s)
      BY <1>1, TableAssumption DEF Add, Become
    <2> QED
      BY <2>1, AddStep
  <1>2. ASSUME NEW d \in Address, Delete(d)
        PROVE  TableInv' /\ Map!Delete(d) /\ (HasRoute(routes, d) => found')
    BY <1>2, DeleteStep DEF Delete, Become
  <1>3. ASSUME Retire
        PROVE  TableInv' /\ (Map!Retire \/ UNCHANGED Lookup)
    BY <1>3, RetireStep DEF Retire, Become
  <1>4. ASSUME Clear
        PROVE  TableInv' /\ Map!Clear
    BY <1>4, ClearStep DEF Clear, Become
  <1>5. ASSUME UNCHANGED vars
        PROVE  TableInv' /\ UNCHANGED Lookup
    BY <1>5, LookupIs DEF vars, TableInv, OnlyFirstIsLive, Lookup
  <1>6. OperationIsMapped
    BY <1>1, <1>2, <1>3, <1>4 DEF OperationIsMapped
  <1> QED
    BY <1>1, <1>2, <1>3, <1>4, <1>5, <1>6 DEF Next, Map!Next

\* What a step takes away is the oldest, as OldestRetired says.
OldestMakesRoom ==
    \/ \E d \in Address : Delete(d)
    \/ \E d \in Address, h \in NextHop, s \in AddedStates : Add(d, h, s) /\ Lost \subseteq {d}
    \/ ~gaps' /\ Lost # {} => \E d \in Address : Lost = {d} /\ Oldest(d)

LEMMA AgeInit == Init => AgeInv
  <1> SUFFICES ASSUME Init PROVE AgeInv
    OBVIOUS
  <1>1. routes \in [Slot -> Entry]
    BY TableInit DEF TableInv, Table
  <1>2. \A i \in Slot : routes[i].state = "Invalid" /\ routes[i].dest = ZeroAddress
    BY DEF Init
  <1> QED
    BY <1>1, <1>2 DEF Init, AgeInv, TypeOK, Packed, InAge

LEMMA AgeStep ==
    ASSUME TableInv, AgeInv, [Next]_vars
    PROVE  AgeInv' /\ [OldestMakesRoom]_vars
  <1>1. TableInv'
    BY TableStep
  <1>2. ASSUME NEW t, Become(t)
        PROVE  older' \subseteq Address \X Address
    <2>1. \A has, had : has \subseteq Address =>
              (older \cap (has \X has)) \cup ((has \cap had) \X (has \ had))
                  \subseteq Address \X Address
      OBVIOUS
    <2> DEFINE has == {d \in Address : HasRoute(t, d)}
               had == {d \in Address : HasRoute(routes, d)}
    <2>2. older' = (older \cap (has \X has)) \cup ((has \cap had) \X (has \ had))
      BY <1>2 DEF Become
    <2>3. has \subseteq Address
      OBVIOUS
    <2> HIDE DEF has, had
    <2> QED
      BY <2>1, <2>2, <2>3
  <1>3. ASSUME NEW d \in Address, NEW h \in NextHop, NEW s \in AddedStates, Add(d, h, s)
        PROVE  AgeInv' /\ OldestMakesRoom
    <2>1. /\ Become(AddRouteTo(routes, d, h, s)) /\ s \in RouteState
          /\ gaps' = (gaps \/ s = "Invalid") /\ found' = found
      BY <1>3, TableAssumption DEF Add
    <2>2. TypeOK'
      BY <1>1, <1>2, <2>1 DEF AgeInv, TypeOK, TableInv, Table
    <2>3. ~gaps' => /\ Packed(routes') /\ InAge(routes)'
                    /\ Lost \subseteq {d} \/ \E e \in Address : Lost = {e} /\ Oldest(e)
      BY <2>1, AddAge DEF AgeInv
    <2> QED
      BY <1>3, <2>2, <2>3 DEF AgeInv, OldestMakesRoom
  <1>4. ASSUME NEW d \in Address, Delete(d)
        PROVE  AgeInv' /\ OldestMakesRoom
    <2>1. /\ Become(DeleteRouteTo(routes, d))
          /\ gaps' = gaps /\ found' \in BOOLEAN
      BY <1>4 DEF Delete
    <2>2. TypeOK'
      BY <1>1, <1>2, <2>1 DEF AgeInv, TypeOK, TableInv, Table
    <2>3. ~gaps' => Packed(routes') /\ InAge(routes)'
      BY <2>1, DeleteRouteToAge DEF AgeInv
    <2> QED
      BY <1>4, <2>2, <2>3 DEF AgeInv, OldestMakesRoom
  <1>5. ASSUME Retire
        PROVE  AgeInv' /\ OldestMakesRoom
    <2>1. Become(RetireOldestRoute(routes)) /\ gaps' = gaps /\ found' = found
      BY <1>5 DEF Retire
    <2>2. TypeOK'
      BY <1>1, <1>2, <2>1 DEF AgeInv, TypeOK, TableInv, Table
    <2>3. ~gaps' => /\ Packed(routes') /\ InAge(routes)'
                    /\ Lost # {} => \E e \in Address : Lost = {e} /\ Oldest(e)
      BY <2>1, RetireAge DEF AgeInv
    <2> QED
      BY <2>2, <2>3 DEF AgeInv, OldestMakesRoom
  <1>6. ASSUME Clear
        PROVE  AgeInv' /\ OldestMakesRoom
    <2>1. Become(ClearRoutingTable(routes)) /\ gaps' = TRUE /\ found' = found
      BY <1>6 DEF Clear
    <2> QED
      BY <1>1, <1>2, <2>1 DEF AgeInv, TypeOK, TableInv, Table, OldestMakesRoom
  <1>7. ASSUME UNCHANGED vars
        PROVE  AgeInv'
    BY <1>7 DEF vars, AgeInv, TypeOK, Packed, InAge
  <1> QED
    BY <1>3, <1>4, <1>5, <1>6, <1>7 DEF Next

LEMMA TableInvariant == Spec => []TableInv
  BY TableInit, TableStep, PTL DEF Spec

LEMMA AgeInvariant == Spec => []AgeInv
  BY AgeInit, AgeStep, TableInvariant, PTL DEF Spec

\* Every variable keeps its type: the entries are entries, whatever was shifted.
THEOREM TableTypeCorrect == Spec => []TypeOK
  <1>1. AgeInv => TypeOK
    BY DEF AgeInv
  <1> QED
    BY <1>1, AgeInvariant, PTL

(***************************************************************************)
(* Until a sketch clears the table or adds a route as Invalid, the route   *)
(* that makes room for another one, or is retired, is the one made first.  *)
(***************************************************************************)
THEOREM OldestMakesRoomFirst == Spec => OldestRetired
  <1>1. TableInv /\ AgeInv /\ [Next]_vars => [OldestMakesRoom]_vars
    BY AgeStep
  <1>2. [][OldestMakesRoom]_vars => OldestRetired
    BY PTL DEF OldestRetired, OldestMakesRoom
  <1> QED
    BY <1>1, <1>2, TableInvariant, AgeInvariant, PTL DEF Spec

(***************************************************************************)
(* The three searches of the table agree: only the first entry of a        *)
(* destination is ever a route.                                            *)
(***************************************************************************)
THEOREM OnlyFirstEntryIsLive == Spec => []OnlyFirstIsLive
  <1>1. TableInv => OnlyFirstIsLive
    BY DEF TableInv
  <1> QED
    BY <1>1, TableInvariant, PTL

(***************************************************************************)
(* However routes were added, deleted, retired and cleared, the array      *)
(* answers getRouteTo() like a map of TableSize routes.                    *)
(***************************************************************************)
THEOREM TableImplementsMap == Spec => MapSpec
  BY TableInit, TableStep, TableInvariant, PTL DEF Spec, MapSpec, Map!Spec

(***************************************************************************)
(* Each operation changes the map in the way it is meant to, and           *)
(* deleteRouteTo() returns true when there was a route.                    *)
(***************************************************************************)
THEOREM OperationsAreThoseOfMap == Spec => OperationsOfMap
  <1>1. TableInv /\ [Next]_vars => [OperationIsMapped]_vars
    BY TableStep
  <1>2. [][OperationIsMapped]_vars => OperationsOfMap
    BY PTL DEF OperationsOfMap, OperationIsMapped
  <1> QED
    BY <1>1, <1>2, TableInvariant, PTL DEF Spec
=============================================================================
