-------------------------- MODULE AuditTrailProofs --------------------------
(* Theorems of AuditTrail, for any events, users, tenants and page sizes.   *)
EXTENDS AuditTrail, FiniteSetTheorems, TLAPS

-----------------------------------------------------------------------------
(* Types *)

LEMMA InitTypes == Init => TypeOK
BY EventAssumption
DEF Init, TypeOK, LogOK, ListingOK, ExportOK, NoListing, NoExport, Matching, Committed

\* What a step on the log leaves as it was: what has committed, and its times.
LogStep == (\E e \in Events : Handler(e)) \/ Tick

LEMMA LogTypes == ASSUME LogOK, [Next]_vars PROVE LogOK'
<1>1. CASE UNCHANGED vars
  BY <1>1 DEF LogOK, vars
<1>2. CASE LogStep
  BY <1>2 DEF LogStep, Handler, Write, Stamp, Commit, Rollback, Tick, LogOK
<1>3. CASE UNCHANGED <<clock, stage, ts>>
  BY <1>3 DEF LogOK
<1> QED
  BY <1>1, <1>2, <1>3 DEF Next, LogStep, OpenList, Count, Select, Close, Export

LEMMA LogGrows ==
  ASSUME LogOK, LogStep
  PROVE  /\ UNCHANGED <<listing, export>>
         /\ Committed \subseteq Committed'
         /\ \A e \in Committed : ts'[e] = ts[e]
BY DEF LogStep, Handler, Write, Commit, Rollback, Tick, LogOK, Committed

LEMMA MatchingGrows ==
  ASSUME LogOK, LogStep
  PROVE  /\ Matching \subseteq Matching'
         /\ \A e \in Matching : ts'[e] = ts[e]
BY LogGrows DEF Matching, In

\* A page is taken from the events that match.
LEMMA PageSubset ==
  ASSUME NEW n, NEW S, NEW P \in Page(n, S) PROVE P \subseteq S
BY DEF Page

LEMMA ListingTypes == ASSUME TypeOK, [Next]_vars PROVE ListingOK'
<1> USE DEF TypeOK
<1>1. CASE UNCHANGED vars
  BY <1>1 DEF ListingOK, vars, Matching, Committed, In
<1>2. CASE LogStep
  BY <1>2, LogGrows, MatchingGrows DEF ListingOK
<1>3. ASSUME NEW filter \in Filters, NEW window \in Windows, NEW size \in PageSizes,
             OpenList(filter, window, size)
      PROVE  ListingOK'
  <2>1. filter \in SUBSET Events /\ window \in Nat \X Nat /\ size \in Nat \ {0}
    BY ReadAssumption
  <2>2. listing' = [pc |-> "count", page |-> 1, size |-> size, filter |-> filter,
                    window |-> window, known |-> {}, counted |-> {}, got |-> {},
                    late |-> FALSE]
    BY <1>3 DEF OpenList, NoListing
  <2> QED
    BY <2>1, <2>2 DEF ListingOK
<1>4. CASE Count
  <2>1. Matching' = Matching /\ Matching \subseteq Events
    BY <1>4 DEF Count, Matching, Committed, In, ListingOK
  <2> QED
    BY <1>4, <2>1 DEF Count, ListingOK
<1>5. CASE Select
  <2>1. PICK P \in Page(listing.page, Matching) :
          listing' = [listing EXCEPT
                        !.pc = IF HasMore THEN "count" ELSE "done",
                        !.page = IF HasMore THEN @ + 1 ELSE @,
                        !.got = @ \cup P,
                        !.late = Matching # listing.counted]
    BY <1>5 DEF Select
  <2>2. P \subseteq Matching
    BY PageSubset
  <2>3. Matching' = Matching /\ Matching \subseteq Events
    BY <1>5, <2>1 DEF Select, Matching, Committed, In, ListingOK
  <2>4. /\ (Matching # listing.counted) \in BOOLEAN
        /\ (IF HasMore THEN listing.page + 1 ELSE listing.page) \in Nat \ {0}
        /\ (IF HasMore THEN "count" ELSE "done") \in {"idle", "count", "select", "done"}
    BY DEF ListingOK
  <2> QED
    BY <2>1, <2>2, <2>3, <2>4 DEF ListingOK
<1>6. CASE Close
  BY <1>6 DEF Close, NoListing, ListingOK, Matching
<1>7. CASE \E tenant \in Tenants, window \in Windows : Export(tenant, window)
  BY <1>7 DEF Export, ListingOK, Matching, Committed, In
<1> QED
  BY <1>1, <1>2, <1>3, <1>4, <1>5, <1>6, <1>7 DEF Next, LogStep

LEMMA ExportTypes == ASSUME TypeOK, [Next]_vars PROVE ExportOK'
<1> USE DEF TypeOK
<1>1. CASE UNCHANGED vars
  BY <1>1 DEF ExportOK, vars, Committed
<1>2. CASE LogStep
  BY <1>2, LogGrows DEF ExportOK
<1>3. CASE UNCHANGED <<stage, export>>
  BY <1>3 DEF ExportOK, Committed
<1>4. CASE Close
  BY <1>4 DEF Close, NoExport, ExportOK
<1>5. ASSUME NEW tenant \in Tenants, NEW window \in Windows, Export(tenant, window)
      PROVE  ExportOK'
  <2>1. window \in Nat \X Nat
    BY ReadAssumption
  <2> QED
    BY <1>5, <2>1 DEF Export, ExportOK, Committed, LogOK
<1> QED
  BY <1>1, <1>2, <1>3, <1>4, <1>5 DEF Next, LogStep, OpenList, Count, Select

\* The log, listings and exports keep their types, and a reading has only what
\* is committed, however many events are written and read at once.
THEOREM TypeCorrect == Spec => []TypeOK
<1>1. TypeOK /\ [Next]_vars => TypeOK'
  BY LogTypes, ListingTypes, ExportTypes DEF TypeOK
<1> QED
  BY InitTypes, <1>1, PTL DEF Spec

-----------------------------------------------------------------------------
(* Verification *)

\* Every committed event verifies, for any users, tenants and actions.
THEOREM AllVerify == Spec => []EventsVerify
<1>1. ASSUME NEW e \in Events PROVE Verified(e)
  BY EventAssumption
  DEF Verified, Row, RowTenant, RowUser, Payload, PayloadTenant
<1>2. EventsVerify
  BY <1>1 DEF EventsVerify, Committed
<1> QED
  BY <1>2, PTL

-----------------------------------------------------------------------------
(* Exports *)

\* An export is of the past, and an event that had not been written when it
\* was made is stamped later.
ExportInv ==
    /\ TypeOK
    /\ export.made =>
         /\ export.at <= clock
         /\ \A e \in Events : stage[e] # "none" =>
              \/ e \in export.open
              \/ export.at <= ts[e]
              \/ e \in Committed /\ (RowTenant(e) = export.tenant /\ In(export.window, e)
                                       => e \in export.rows)
              \/ stage[e] = "undone"

LEMMA ExportStep == ASSUME ExportInv, [Next]_vars PROVE ExportInv'
<1> USE DEF ExportInv
<1>0. TypeOK'
  BY LogTypes, ListingTypes, ExportTypes DEF TypeOK
<1>1. CASE UNCHANGED <<clock, stage, ts, export>>
  BY <1>0, <1>1 DEF Committed, In
<1>2. ASSUME NEW e \in Events, Write(e) PROVE ExportInv'
  BY <1>0, <1>2 DEF Write, Stamp, TypeOK, LogOK, ExportOK, Committed, In
<1>3. ASSUME NEW e \in Events, Commit(e) PROVE ExportInv'
  BY <1>0, <1>3 DEF Commit, TypeOK, LogOK, Committed, In
<1>4. ASSUME NEW e \in Events, Rollback(e) PROVE ExportInv'
  BY <1>0, <1>4 DEF Rollback, TypeOK, LogOK, Committed, In
<1>5. CASE Tick
  BY <1>0, <1>5 DEF Tick, TypeOK, LogOK, ExportOK, Committed, In
<1>6. CASE Close
  BY <1>0, <1>6 DEF Close, NoExport
<1>7. ASSUME NEW tenant \in Tenants, NEW window \in Windows, Export(tenant, window)
      PROVE  ExportInv'
  <2>1. export'.at <= clock'
    BY <1>7 DEF Export, TypeOK, LogOK
  <2>2. ASSUME NEW e \in Events, stage'[e] # "none"
        PROVE  \/ e \in export'.open
               \/ e \in Committed' /\ ((RowTenant(e) = export'.tenant
                     /\ In(export.window, e)') => e \in export'.rows)
               \/ stage'[e] = "undone"
    BY <1>7, <2>2 DEF Export, TypeOK, LogOK, Committed, In
  <2> QED
    BY <1>0, <2>1, <2>2
<1> QED
  BY <1>1, <1>2, <1>3, <1>4, <1>5, <1>6, <1>7
  DEF Next, Handler, OpenList, Count, Select, vars

\* An export of a range that is over misses only events whose transactions
\* were open when it was made.
THEOREM ExportsMissOnlyOpen == Spec => []ExportMisses
<1>1. Init => ExportInv
  BY InitTypes DEF Init, NoExport, ExportInv
<1>2. ExportInv /\ [Next]_vars => ExportInv'
  BY ExportStep
<1>3. ExportInv => ExportMisses
  <2> SUFFICES ASSUME ExportInv, export.made, export.window[2] < export.at,
                      NEW e \in Committed, RowTenant(e) = export.tenant,
                      In(export.window, e)
               PROVE  e \in export.rows \cup export.open
    BY DEF ExportMisses
  <2>1. e \in Events /\ stage[e] = "committed" /\ ts[e] \in Nat
    BY DEF Committed, ExportInv, TypeOK, LogOK
  <2>2. export.at \in Nat /\ export.window[2] \in Nat /\ ts[e] <= export.window[2]
    BY DEF In, ExportInv, TypeOK, ExportOK
  <2>3. ~(export.at <= ts[e])
    BY <2>1, <2>2
  <2> QED
    BY <2>1, <2>3 DEF ExportInv
<1> QED
  BY <1>1, <1>2, <1>3, PTL DEF Spec

-----------------------------------------------------------------------------
(* Pages *)

LEMMA MatchingFinite ==
  ASSUME TypeOK
  PROVE  /\ Matching \subseteq Events
         /\ \A S \in SUBSET Events : IsFiniteSet(S) /\ Cardinality(S) \in Nat
<1>1. Matching \subseteq Events
  BY DEF Matching, Committed
<1>2. ASSUME NEW S \in SUBSET Events PROVE IsFiniteSet(S) /\ Cardinality(S) \in Nat
  BY EventAssumption, FS_Subset, FS_CardinalityType
<1> QED
  BY <1>1, <1>2

LEMMA SmallerCardinality ==
  ASSUME TypeOK, NEW S \in SUBSET Events, NEW T \in SUBSET S
  PROVE  Cardinality(T) <= Cardinality(S) /\ (T # S => Cardinality(T) < Cardinality(S))
<1>1. IsFiniteSet(S) /\ Cardinality(S) \in Nat /\ Cardinality(T) \in Nat
  BY MatchingFinite
<1>2. Cardinality(T) <= Cardinality(S) /\ (Cardinality(S) = Cardinality(T) => S = T)
  BY <1>1, FS_Subset
<1> QED
  BY <1>1, <1>2

\* The events that match and are newer than e: they come before it.
Newer(e) == {f \in Matching : ts[e] < ts[f]}

Tied(e) == \E f \in listing.got : ts[f] = ts[e]
Oldest(e) == \A f \in listing.got : ts[e] < ts[f]

\* A client that has read n places of the list and not e has read one of e's
\* time, or e is behind all it has read, and those places hold newer events.
Ahead(n, e) == Tied(e) \/ (Oldest(e) /\ n <= Cardinality(Newer(e)))

Places == (listing.page - 1) * listing.size

PagingInv ==
    /\ TypeOK
    /\ listing.known \subseteq Matching
    /\ listing.pc \in {"count", "select"} =>
         /\ \A e \in listing.known \ listing.got : Ahead(Places, e)
         /\ listing.page = 1 => listing.got = {}
    /\ PagingMisses

LEMMA PlacesNat == ASSUME TypeOK PROVE Places \in Nat
<1>1. listing.page \in Nat \ {0} /\ listing.size \in Nat \ {0}
  BY DEF TypeOK, ListingOK
<1>2. \A m, n \in Nat : m * n \in Nat
  OBVIOUS
<1>3. listing.page - 1 \in Nat
  BY <1>1
<1> QED
  BY <1>1, <1>2, <1>3 DEF Places

\* Reading the page that comes after n places.  An event that is left out is
\* not among the places before: those would hold it and all the newer ones.
LEMMA PageRead ==
  ASSUME TypeOK, NEW n \in Nat, NEW s \in Nat \ {0},
         NEW B \in Newest(n, Matching), NEW P \in SUBSET Matching, P \cap B = {},
         B \cup P \in Newest(n + s, Matching),
         NEW e \in Matching \ P, n <= Cardinality(Newer(e)),
         \A f \in P : ts[f] # ts[e]
  PROVE  /\ \A f \in P : ts[e] < ts[f]
         /\ n + s <= Cardinality(Newer(e))
<1> DEFINE S == Matching
           T == B \cup P
<1>1. /\ B \in SUBSET S /\ T \in SUBSET S /\ Newer(e) \in SUBSET S /\ S \in SUBSET Events
      /\ \A X \in SUBSET Events : IsFiniteSet(X) /\ Cardinality(X) \in Nat
  BY MatchingFinite DEF Newest, Newer
<1>2. \A f \in S : ts[f] \in Nat
  BY <1>1 DEF TypeOK, LogOK
<1>3. /\ Cardinality(B) = (IF n < Cardinality(S) THEN n ELSE Cardinality(S))
      /\ \A x \in B, y \in S \ B : ts[y] <= ts[x]
  BY DEF Newest
<1>4. /\ Cardinality(T) = (IF n + s < Cardinality(S) THEN n + s ELSE Cardinality(S))
      /\ \A x \in T, y \in S \ T : ts[y] <= ts[x]
  BY DEF Newest
<1> HIDE DEF S, T
<1>5. e \notin B
  <2> SUFFICES ASSUME e \in B PROVE FALSE
    OBVIOUS
  <2>1. Newer(e) \subseteq B
    BY <1>1, <1>2, <1>3 DEF Newer, S
  <2>2. Newer(e) # B
    BY <1>2 DEF Newer, S
  <2>3. Cardinality(Newer(e)) < Cardinality(B)
    BY <1>1, <2>1, <2>2, SmallerCardinality
  <2>4. /\ Cardinality(B) <= n
        /\ Cardinality(B) \in Nat /\ Cardinality(Newer(e)) \in Nat
    BY <1>1, <1>3
  <2> QED
    BY <2>3, <2>4
<1>6. e \in S \ T
  BY <1>5 DEF S, T
<1>7. \A f \in P : ts[e] < ts[f]
  <2> SUFFICES ASSUME NEW f \in P PROVE ts[e] < ts[f]
    OBVIOUS
  <2>1. f \in T /\ f \in S
    BY DEF T, S
  <2>2. ts[e] <= ts[f] /\ ts[f] # ts[e] /\ ts[e] \in Nat /\ ts[f] \in Nat
    BY <1>2, <1>4, <1>6, <2>1
  <2> QED
    BY <2>2
<1>8. Cardinality(T) < Cardinality(S)
  BY <1>1, <1>6, SmallerCardinality
<1>9. Cardinality(T) = n + s
  BY <1>1, <1>4, <1>8
<1>10. T \subseteq Newer(e)
  <2> SUFFICES ASSUME NEW f \in T PROVE ts[e] < ts[f]
    BY <1>1 DEF Newer, S
  <2>1. CASE f \in P
    BY <2>1, <1>7
  <2>2. CASE f \in B
    <3>1. PICK g \in P : TRUE
      <4>1. B # T
        <5>1. Cardinality(B) <= n /\ Cardinality(B) \in Nat
          BY <1>1, <1>3
        <5> QED
          BY <5>1, <1>9
      <4> QED
        BY <4>1 DEF T
    <3>2. ts[e] < ts[g] /\ g \in S /\ g \notin B
      BY <1>7 DEF S
    <3>3. ts[g] <= ts[f] /\ f \in S
      BY <1>1, <1>3, <2>2, <3>2
    <3> QED
      BY <1>2, <1>6, <3>2, <3>3
  <2> QED
    BY <2>1, <2>2 DEF T
<1>11. Cardinality(T) <= Cardinality(Newer(e))
  BY <1>1, <1>10, SmallerCardinality
<1> QED
  BY <1>7, <1>9, <1>11

\* A step of the log only adds newer or older events and keeps the times.
LEMMA AheadGrows ==
  ASSUME TypeOK, TypeOK', LogStep, NEW n \in Nat, NEW e \in Matching, Ahead(n, e)
  PROVE  Ahead(n, e)'
<1>1. /\ listing' = listing /\ listing.got \subseteq Matching
      /\ Matching \subseteq Matching' /\ Matching' \in SUBSET Events
      /\ \A f \in Matching : ts'[f] = ts[f]
  <2>1. Matching' \in SUBSET Events
    BY DEF Matching, Committed
  <2> QED
    BY <2>1, LogGrows, MatchingGrows DEF TypeOK, ListingOK
<1>2. CASE Tied(e)
  BY <1>1, <1>2 DEF Tied, Ahead
<1>3. CASE Oldest(e) /\ n <= Cardinality(Newer(e))
  <2>1. Oldest(e)'
    BY <1>1, <1>3 DEF Oldest
  <2>2. Newer(e) \in SUBSET Newer(e)' /\ Newer(e)' \in SUBSET Events
    BY <1>1 DEF Newer
  <2>3. Cardinality(Newer(e)) <= Cardinality(Newer(e)')
    BY <2>2, SmallerCardinality
  <2>4. Cardinality(Newer(e)) \in Nat /\ Cardinality(Newer(e)') \in Nat
    BY <2>2, MatchingFinite
  <2>5. n <= Cardinality(Newer(e)')
    BY <1>3, <2>3, <2>4
  <2> QED
    BY <2>1, <2>5 DEF Ahead
<1> QED
  BY <1>2, <1>3 DEF Ahead

LEMMA PagingLogStep == ASSUME PagingInv, TypeOK', LogStep PROVE PagingInv'
<1> USE DEF PagingInv
<1>1. /\ listing' = listing /\ listing.got \subseteq Matching
      /\ Matching \subseteq Matching'
      /\ \A f \in Matching : ts'[f] = ts[f]
  BY LogGrows, MatchingGrows DEF TypeOK, ListingOK
<1>2. listing.pc \in {"count", "select"} =>
        \A e \in listing.known \ listing.got : Ahead(Places, e)'
  <2> SUFFICES ASSUME listing.pc \in {"count", "select"},
                      NEW e \in listing.known \ listing.got
               PROVE  Ahead(Places, e)'
    OBVIOUS
  <2>1. Ahead(Places, e) /\ e \in Matching /\ Places \in Nat
    BY PlacesNat
  <2>2. Places' = Places
    BY <1>1 DEF Places
  <2> DEFINE n == Places
  <2>3. Ahead(n, e) /\ n \in Nat
    BY <2>1
  <2> QED
    BY <2>1, <2>2, AheadGrows DEF Ahead
<1>3. PagingMisses'
  BY <1>1 DEF PagingMisses
<1> QED
  BY <1>1, <1>2, <1>3

\* Count: what the client knows of is what matches, and it has read nothing.
LEMMA PagingCount == ASSUME PagingInv, TypeOK', Count PROVE PagingInv'
<1> USE DEF PagingInv
<1>1. /\ listing.pc = "count" /\ listing'.pc = "select"
      /\ listing'.got = listing.got /\ listing'.page = listing.page
      /\ listing'.size = listing.size
      /\ listing'.known = IF listing.page = 1 THEN Matching ELSE listing.known
      /\ ts' = ts /\ Matching' = Matching
  <2>1. /\ listing'.filter = listing.filter /\ listing'.window = listing.window
        /\ stage' = stage /\ ts' = ts
    BY DEF Count, TypeOK, ListingOK
  <2>2. Matching' = Matching
    BY <2>1 DEF Matching, Committed, In
  <2> QED
    BY <2>1, <2>2 DEF Count, TypeOK, ListingOK
<1>2. listing'.known \subseteq Matching'
  BY <1>1
<1>3. ASSUME NEW e \in listing'.known \ listing'.got PROVE Ahead(Places, e)'
  <2>1. Places' = Places /\ Newer(e)' = Newer(e)
    BY <1>1 DEF Places, Newer
  <2>2. CASE listing.page = 1
    <3>1. listing.got = {}
      BY <1>1, <2>2
    <3>2. Oldest(e)'
      BY <1>1, <3>1 DEF Oldest
    <3>3. listing.size \in Nat /\ Places = 0
      BY <2>2 DEF Places, TypeOK, ListingOK
    <3>4. Cardinality(Newer(e)) \in Nat
      BY MatchingFinite DEF Newer
    <3> QED
      BY <2>1, <3>2, <3>3, <3>4 DEF Ahead
  <2>3. CASE listing.page # 1
    <3>1. Ahead(Places, e)
      BY <1>1, <1>3, <2>3
    <3> QED
      BY <1>1, <2>1, <3>1 DEF Ahead, Tied, Oldest
  <2> QED
    BY <2>2, <2>3
<1>4. PagingMisses'
  BY <1>1 DEF PagingMisses
<1> QED
  BY <1>1, <1>2, <1>3, <1>4

LEMMA PlacesAfter == Places' = (listing'.page - 1) * listing'.size
BY Zenon DEF Places

LEMMA PlacesNext ==
  ASSUME TypeOK
  PROVE  listing.page * listing.size = Places + listing.size
<1>1. \A m \in Nat \ {0}, n \in Nat : m * n = (m - 1) * n + n
  OBVIOUS
<1> QED
  BY <1>1 DEF Places, TypeOK, ListingOK

\* Select: an event that is not on the page is behind it, and behind the whole
\* list only if the list has grown since the count.
LEMMA PagingSelect == ASSUME PagingInv, TypeOK', Select PROVE PagingInv'
<1> USE DEF PagingInv
<1> DEFINE n == Places
           s == listing.size
<1>1. n \in Nat /\ s \in Nat \ {0} /\ listing.page \in Nat \ {0}
  BY PlacesNat DEF TypeOK, ListingOK
<1>2. PICK P \in Page(listing.page, Matching) :
        listing' = [listing EXCEPT
                      !.pc = IF HasMore THEN "count" ELSE "done",
                      !.page = IF HasMore THEN @ + 1 ELSE @,
                      !.got = @ \cup P,
                      !.late = Matching # listing.counted]
  BY DEF Select
<1>3. /\ listing.pc = "select"
      /\ listing'.pc = IF HasMore THEN "count" ELSE "done"
      /\ listing'.page = IF HasMore THEN listing.page + 1 ELSE listing.page
      /\ listing'.got = listing.got \cup P
      /\ listing'.late = (Matching # listing.counted)
      /\ listing'.known = listing.known /\ listing'.size = s
      /\ ts' = ts /\ Matching' = Matching
  <2>1. /\ listing'.filter = listing.filter /\ listing'.window = listing.window
        /\ stage' = stage /\ ts' = ts
    BY <1>2 DEF Select, TypeOK, ListingOK
  <2>2. Matching' = Matching
    BY <2>1 DEF Matching, Committed, In
  <2> QED
    BY <1>2, <2>1, <2>2 DEF Select, TypeOK, ListingOK
<1>4. listing.page * s = n + s
  BY PlacesNext
<1>5. PICK B \in Newest(n, Matching) :
        P \in SUBSET Matching /\ P \cap B = {} /\ B \cup P \in Newest(n + s, Matching)
  BY <1>4 DEF Page, Places
<1>6. ASSUME NEW e \in listing'.known \ listing'.got
      PROVE  Tied(e)' \/ (Oldest(e)' /\ n + s <= Cardinality(Newer(e)))
  <2>1. e \in Matching \ P /\ e \in listing.known \ listing.got
    BY <1>3, <1>6
  <2>2. Ahead(n, e)
    BY <1>3, <2>1
  <2>3. CASE Tied(e) \/ \E f \in P : ts[f] = ts[e]
    BY <1>3, <2>3 DEF Tied
  <2>4. CASE ~Tied(e) /\ \A f \in P : ts[f] # ts[e]
    <3>1. Oldest(e) /\ n <= Cardinality(Newer(e))
      BY <2>2, <2>4 DEF Ahead
    <3> HIDE DEF n, s
    <3>2. (\A f \in P : ts[e] < ts[f]) /\ n + s <= Cardinality(Newer(e))
      BY <1>1, <1>5, <2>1, <2>4, <3>1, PageRead
    <3> QED
      BY <1>3, <3>1, <3>2 DEF Oldest
  <2> QED
    BY <2>3, <2>4
<1>7. CASE HasMore
  <2>1. listing'.pc = "count" /\ listing'.page = listing.page + 1
    BY <1>3, <1>7
  <2>2. Places' = n + s
    <3>1. Places' = (listing.page + 1 - 1) * s
      <4> HIDE DEF n, s
      <4>1. Places' = (listing'.page - 1) * listing'.size
        BY PlacesAfter
      <4>2. listing'.size = s
        BY <1>3 DEF s
      <4>3. listing'.page - 1 = listing.page + 1 - 1
        BY <1>1, <2>1
      <4> QED
        BY <4>1, <4>2, <4>3
    <3>2. listing.page + 1 - 1 = listing.page
      BY <1>1
    <3> QED
      BY <1>4, <3>1, <3>2
  <2>3. ASSUME NEW e \in listing'.known \ listing'.got PROVE Ahead(Places, e)'
    <3>1. Newer(e)' = Newer(e)
      BY <1>3 DEF Newer
    <3> QED
      BY <1>6, <2>2, <2>3, <3>1 DEF Ahead
  <2>4. listing'.page # 1
    BY <1>1, <2>1
  <2> QED
    BY <1>3, <2>1, <2>3, <2>4 DEF PagingMisses
<1>8. CASE ~HasMore
  <2>1. listing'.pc = "done"
    BY <1>3, <1>8
  <2>2. ASSUME NEW e \in listing'.known \ listing'.got, ~Tied(e)'
        PROVE  Matching # listing.counted
    <3>1. n + s <= Cardinality(Newer(e))
      BY <1>6, <2>2
    <3>2. e \in Matching /\ Newer(e) \in SUBSET Matching /\ Matching \in SUBSET Events
      BY <1>3, <2>2, MatchingFinite DEF Newer
    <3>3. ts[e] \in Nat
      BY <3>2 DEF TypeOK, LogOK
    <3>4. Newer(e) # Matching
      BY <3>2, <3>3 DEF Newer
    <3>5. Cardinality(Newer(e)) < Cardinality(Matching)
      BY <3>2, <3>4, SmallerCardinality
    <3>6. ~(n + s < Cardinality(listing.counted))
      BY <1>4, <1>8 DEF HasMore
    <3>7. Cardinality(Newer(e)) \in Nat /\ Cardinality(Matching) \in Nat
      BY <3>2, MatchingFinite
    <3> HIDE DEF n, s
    <3> QED
      BY <1>1, <3>1, <3>5, <3>6, <3>7
  <2>3. PagingMisses'
    <3> SUFFICES ASSUME NEW e \in listing'.known \ listing'.got
                 PROVE  \/ \E f \in listing'.got : ts'[f] = ts'[e]
                        \/ listing'.late /\ \A f \in listing'.got : ts'[e] < ts'[f]
      BY DEF PagingMisses
    <3>1. CASE Tied(e)'
      BY <3>1 DEF Tied
    <3>2. CASE ~Tied(e)'
      <4>1. Oldest(e)' /\ Matching # listing.counted
        BY <1>6, <2>2, <3>2
      <4> QED
        BY <1>3, <4>1 DEF Oldest
    <3> QED
      BY <3>1, <3>2
  <2> QED
    BY <1>3, <2>1, <2>3
<1> QED
  BY <1>7, <1>8

\* However writers and readers interleave, a client that reads the list to its
\* end misses only what shares its timestamp with something it has read, or is
\* the oldest and was pushed off the last page after the count.
THEOREM PagingMissesLittle == Spec => []PagingMisses
<1>1. Init => PagingInv
  BY InitTypes DEF Init, NoListing, PagingInv, PagingMisses, Matching
<1>2. ASSUME PagingInv, [Next]_vars PROVE PagingInv'
  <2>1. TypeOK /\ TypeOK'
    BY <1>2, LogTypes, ListingTypes, ExportTypes DEF TypeOK, PagingInv
  <2>2. CASE UNCHANGED <<stage, ts, listing>>
    <3>1. Matching' = Matching /\ Places' = Places
      BY <2>2 DEF Matching, Committed, In, Places
    <3>2. \A e : Newer(e)' = Newer(e)
      BY <2>2, <3>1 DEF Newer
    <3> QED
      BY <1>2, <2>1, <2>2, <3>1, <3>2
      DEF PagingInv, PagingMisses, Ahead, Tied, Oldest
  <2>3. CASE LogStep
    BY <1>2, <2>1, <2>3, PagingLogStep
  <2>4. CASE listing'.pc = "idle" /\ listing'.known = {}
    BY <2>1, <2>4 DEF PagingInv, PagingMisses
  <2>5. CASE \E filter \in Filters, window \in Windows, size \in PageSizes :
               OpenList(filter, window, size)
    <3>1. listing'.pc = "count" /\ listing'.known = {} /\ listing'.got = {}
      BY <2>5 DEF OpenList, NoListing
    <3> QED
      BY <2>1, <3>1 DEF PagingInv, PagingMisses
  <2>6. CASE Count
    BY <1>2, <2>1, <2>6, PagingCount
  <2>7. CASE Select
    BY <1>2, <2>1, <2>7, PagingSelect
  <2> QED
    BY <1>2, <2>2, <2>3, <2>4, <2>5, <2>6, <2>7
    DEF Next, LogStep, Close, NoListing, Export, vars
<1>3. PagingInv => PagingMisses
  BY DEF PagingInv
<1> QED
  BY <1>1, <1>2, <1>3, PTL DEF Spec
=============================================================================
