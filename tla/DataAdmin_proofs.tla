-------------------------- MODULE DataAdmin_proofs --------------------------
(***************************************************************************)
(* Proofs about DataAdmin, for any numbers of tasks, fieldmen, positions,  *)
(* requests, readers and worker processes.                                   *)
(***************************************************************************)
EXTENDS DataAdmin, FiniteSetTheorems, SequenceTheorems, TLAPS

USE DataAssumption, NoneIsNoValue DEF Entities, Exists, Address

-----------------------------------------------------------------------------
(* Type correctness *)

WritingStages == {"area", "label", "geocode", "update"}

Handlers ==
  [at : Stages \cup {"idle"}, e : Entities \cup {None}, p : Positions \cup {None},
   a : Addresses \cup {None}, items : SUBSET Item]

\* A handler that will write an address knows whose and where, and the address it
\* has found is that of its place.
HandlerOK(q) ==
  /\ q \in Handlers
  /\ q.at \in WritingStages => q.e \in used /\ q.p \in Positions
  /\ q.at = "update" => q.a \in Addresses /\ q.a.of = q.p
  /\ q.at \in {"area", "row"} => q.e \in Fieldmen
  /\ q.at = "areas" => \A i \in q.items : i.e \in Fieldmen
  /\ q.at \in {"collect", "send"} => \A i \in q.items : i.e \in used

RequestsTyped == /\ req \in [Requests -> Handlers]
                 /\ \A r \in Requests : HandlerOK(req[r])

RowsTyped ==
  /\ pos \in [Entities -> Positions \cup {None}]
  /\ addr \in [Entities -> Addresses \cup {None}]
  /\ \A e \in Entities : (addr[e] = None) = (pos[e] = None)
  /\ areas \subseteq {f \in Fieldmen : Exists(f)}
  /\ used \subseteq Entities
  /\ \A e \in Entities : Exists(e) => e \in used

\* A cached address is that of the place it is cached for.
Cache == [Positions -> Addresses \cup {None}]
AtTheirPlace(cache) == \A p \in Positions : cache[p] # None => cache[p].of = p

CachesTyped ==
  /\ street \in Cache /\ AtTheirPlace(street)
  /\ known \in Cache /\ AtTheirPlace(known)

\* The items of a message are those of rows there have been.
BulkItem == {i \in Item : i.e \in used}

BulkTask ==
  [at : {"idle", "between", "batch", "grid"}, rest : SUBSET BulkItem, todo : SUBSET BulkItem,
   held : SUBSET [item : BulkItem, a : Addresses], raised : Nat, strikes : Nat, refused : Nat]

\* A bulk task holds addresses of its items' places, within its permits, and none
\* between two batches.
TaskOK(b) ==
  /\ b \in BulkTask
  /\ \A h \in b.held : h.a.of = h.item.p
  /\ IsFiniteSet(b.held) /\ Cardinality(b.held) =< Permits
  /\ b.at # "batch" => b.held = {}

BulkTyped == /\ bulk \in [Processes -> BulkTask]
             /\ \A w \in Processes : TaskOK(bulk[w])
             /\ queue \in Seq(SUBSET BulkItem)

Typed == RowsTyped /\ CachesTyped /\ RequestsTyped /\ BulkTyped

\* The entity that is followed has a priority when it is a task with a row.
PrioTyped ==
  /\ seen \in Entities
  /\ prio \in IF seen \in Tasks /\ Exists(seen) THEN Priorities ELSE {None}

\* Together they are the type invariant, and more.
LEMMA TypedIsTyped == Typed /\ PrioTyped => DataTypeOK
BY DEF Typed, RowsTyped, CachesTyped, RequestsTyped, BulkTyped, TaskOK, PrioTyped, DataTypeOK,
       Handlers, Cache

\* An address that is made up is an address.
LEMMA AddressIsTyped ==
  ASSUME NEW k \in Kinds, NEW p \in Positions
  PROVE  Address(k, p) \in Addresses /\ Address(k, p).of = p /\ Address(k, p).kind = k
BY DEF Addresses

\* What Nominatim answers is an address of the place it was asked about.
LEMMA FormattedIsTyped ==
  ASSUME NEW answer \in Answers, NEW p \in Positions
  PROVE  /\ Formatted(answer, p) \in Addresses /\ Formatted(answer, p).of = p
         /\ answer = "ok" => Formatted(answer, p).kind # "fallback"
BY DEF Formatted, Addresses, Kinds, Answers

\* reverse_geocode returns an address of the place, cached before or not, and
\* leaves its cache in order.
LEMMA CachedGeocodeIsTyped ==
  ASSUME CachesTyped, NEW p \in Positions, NEW a, CachedGeocode(p, a, street')
  PROVE  /\ a \in Addresses /\ a.of = p
         /\ street' \in Cache /\ AtTheirPlace(street)'
<1>1. CASE street[p] # None
  BY <1>1 DEF CachesTyped, Cache, AtTheirPlace, CachedGeocode
<1>2. CASE street[p] = None
  <2>1. PICK answer \in Answers :
          /\ a = Formatted(answer, p)
          /\ street' = IF answer = "ok" THEN [street EXCEPT ![p] = Formatted(answer, p)]
                       ELSE street
    BY <1>2 DEF CachedGeocode
  <2> QED BY <2>1, FormattedIsTyped DEF CachesTyped, Cache, AtTheirPlace
<1> QED BY <1>1, <1>2

\* Everybody is idle at first.
LEMMA IdleIsOK == HandlerOK(Idle) /\ HandlerOK(Finished)
BY DEF HandlerOK, Handlers, Idle, Finished, Stages, WritingStages

\* The rows there may be at first are in order, and nothing is under way.
LEMMA InitTyped == Init => Typed /\ PrioTyped
<1> SUFFICES ASSUME Init PROVE Typed /\ PrioTyped
  OBVIOUS
<1>1. RowsTyped
  BY DEF Init, RowsTyped, Addresses, Kinds
<1>2. CachesTyped
  BY DEF Init, CachesTyped, Cache, AtTheirPlace
<1>3. RequestsTyped
  BY IdleIsOK DEF Init, RequestsTyped, HandlerOK
<1>4. BulkTyped
  <2>1. Cardinality({}) = 0 /\ IsFiniteSet({})
    BY FS_EmptySet
  <2>2. <<>> \in Seq(SUBSET BulkItem)
    OBVIOUS
  <2>3. TaskOK(Resting)
    BY <2>1 DEF TaskOK, BulkTask, Resting
  <2> QED BY <2>2, <2>3 DEF Init, BulkTyped, TaskOK
<1>5. PrioTyped
  BY DEF Init, PrioTyped
<1> QED BY <1>1, <1>2, <1>3, <1>4, <1>5 DEF Typed

\* Ids are only ever added to `used`.
LEMMA BulkStaysTyped ==
  ASSUME BulkTyped, UNCHANGED <<bulk, queue>>, used \subseteq used' PROVE BulkTyped'
<1>1. BulkItem \subseteq BulkItem' /\ BulkTask \subseteq BulkTask'
  BY DEF BulkItem, BulkTask
<1>2. queue \in Seq(SUBSET BulkItem')
  BY <1>1 DEF BulkTyped
<1> QED BY <1>1, <1>2 DEF BulkTyped, TaskOK

\* A handler goes on to a state that is in order.
LEMMA HandlerMoves ==
  ASSUME RequestsTyped, NEW r \in Requests, NEW q, req' = [req EXCEPT ![r] = q],
         used \subseteq used', HandlerOK(q)'
  PROVE  RequestsTyped'
BY DEF RequestsTyped, HandlerOK, Handlers

\* A request that begins is in order if its id has been inserted.
LEMMA BegunIsOK ==
  ASSUME RequestsTyped, NEW r \in Requests, NEW at \in Stages, NEW e \in Entities \cup {None},
         NEW p \in Positions \cup {None}, Begin(r, at, e, p), used \subseteq used',
         at \in WritingStages => e \in used' /\ p \in Positions,
         at \in {"area", "row"} => e \in Fieldmen, at # "update"
  PROVE  RequestsTyped'
<1>1. CASE at = "done"
  BY <1>1, IdleIsOK, HandlerMoves DEF Begin, HandlerOK
<1>2. CASE at # "done"
  <2>1. HandlerOK([Idle EXCEPT !.at = at, !.e = e, !.p = p])'
    BY DEF HandlerOK, Handlers, Idle, WritingStages
  <2> QED BY <1>2, <2>1, HandlerMoves DEF Begin
<1> QED BY <1>1, <1>2

\* So is one that goes on with what it has.
LEMMA GoneOnIsOK ==
  ASSUME RequestsTyped, NEW r \in Requests, NEW at \in Stages, Goto(r, at), used \subseteq used',
         at \in WritingStages => req[r].at \in WritingStages,
         at \notin {"area", "row", "areas", "collect", "send", "update"}
  PROVE  RequestsTyped'
<1>0. HandlerOK(req[r])
  BY DEF RequestsTyped
<1>1. CASE at = "done"
  BY <1>1, IdleIsOK, HandlerMoves DEF Goto, Reached, HandlerOK
<1>2. CASE at # "done"
  <2> DEFINE q == [req[r] EXCEPT !.at = at]
  <2>1. q \in Handlers /\ q.at = at /\ q.e = req[r].e /\ q.p = req[r].p
    BY <1>0 DEF HandlerOK, Handlers
  <2>2. PICK q0 : q0 = q
    OBVIOUS
  <2>3. HandlerOK(q0)'
    BY <1>0, <2>1, <2>2 DEF HandlerOK, WritingStages
  <2>4. req' = [req EXCEPT ![r] = q0]
    BY <1>2, <2>2 DEF Goto, Reached
  <2> QED BY <2>3, <2>4, HandlerMoves
<1> QED BY <1>1, <1>2

\* New rows are those of the ids that are new, each with the label of its place.
LEMMA InsertedRows ==
  ASSUME RowsTyped, NEW es \in SUBSET (Entities \ used), NEW where \in [es -> Positions],
         InsertAll(where)
  PROVE  /\ \A e \in es : pos'[e] = where[e] /\ addr'[e] = Address("label", where[e]) /\ Exists(e)'
         /\ \A e \in Entities \ es : pos'[e] = pos[e] /\ addr'[e] = addr[e]
         /\ used' = used \cup es
         /\ UNCHANGED areas => RowsTyped'
<1>1. /\ pos' = [e \in Entities |-> IF e \in es THEN where[e] ELSE pos[e]]
      /\ addr' = [e \in Entities |-> IF e \in es THEN Address("label", where[e]) ELSE addr[e]]
      /\ used' = used \cup es
  BY DEF InsertAll
<1>2. \A e \in es : where[e] \in Positions /\ Address("label", where[e]) \in Addresses
  BY AddressIsTyped DEF Kinds
<1> HIDE DEF Address
<1>3. /\ \A e \in es : pos'[e] = where[e] /\ addr'[e] = Address("label", where[e]) /\ Exists(e)'
      /\ \A e \in Entities \ es : pos'[e] = pos[e] /\ addr'[e] = addr[e]
  BY <1>1, <1>2
<1>4. UNCHANGED areas => RowsTyped'
  BY <1>1, <1>2 DEF RowsTyped
<1> QED BY <1>1, <1>3, <1>4

\* The same of one new row.
LEMMA InsertedRow ==
  ASSUME RowsTyped, NEW e0 \in Entities \ used, NEW p \in Positions, Insert(e0, p)
  PROVE  /\ pos'[e0] = p /\ addr'[e0] = Address("label", p) /\ Exists(e0)'
         /\ \A e \in Entities \ {e0} : pos'[e] = pos[e] /\ addr'[e] = addr[e]
         /\ used' = used \cup {e0}
         /\ UNCHANGED areas => RowsTyped'
<1> DEFINE where == [x \in {e0} |-> p]
<1>1. where \in [{e0} -> Positions] /\ where[e0] = p /\ {e0} \in SUBSET (Entities \ used)
  OBVIOUS
<1>2. InsertAll(where)
  BY DEF Insert
<1> HIDE DEF where, Address
<1> QED BY <1>1, <1>2, InsertedRows

\* No request leaves the domains: none resurrects a row, or gives an area to a
\* fieldman that is gone.
LEMMA RequestKeepsTyped == ASSUME Typed, NEW r \in Requests, Request(r) PROVE Typed'
<1>0. /\ RowsTyped /\ CachesTyped /\ RequestsTyped /\ BulkTyped
      /\ HandlerOK(req[r])
  BY DEF Typed, RequestsTyped
<1> USE <1>0
<1> DEFINE Same == UNCHANGED <<street, known, bulk, queue>>
           Rows == <<pos, addr, areas, used>>
<1>1. ASSUME RowsTyped', RequestsTyped', Same, used \subseteq used' PROVE Typed'
  BY <1>1, BulkStaysTyped DEF Typed, CachesTyped, Cache, AtTheirPlace
<1>2. ASSUME UNCHANGED Rows PROVE RowsTyped'
  BY <1>2 DEF RowsTyped
<1>3. ASSUME NEW e \in Entities \ used, NEW p \in Positions, Insert(e, p), UNCHANGED areas
      PROVE  RowsTyped' /\ used \subseteq used' /\ e \in used'
  <2>1. used' = used \cup {e} /\ (UNCHANGED areas => RowsTyped')
    BY <1>3, InsertedRow
  <2> QED BY <1>3, <2>1
<1>4. CASE CreateTask(r)
  <2>1. PICK e \in Tasks \ used, p \in Positions :
          Begin(r, "geocode", e, p) /\ Insert(e, p) /\ UNCHANGED areas /\ Same
    BY <1>4 DEF CreateTask, caches
  <2>2. RequestsTyped'
    BY <1>3, <2>1, BegunIsOK DEF Stages
  <2> QED BY <1>1, <1>3, <2>1, <2>2
<1>5. CASE CreateFieldman(r)
  <2>1. PICK e \in Fieldmen \ used, p \in Positions :
          Begin(r, "area", e, p) /\ Insert(e, p) /\ UNCHANGED areas /\ Same
    BY <1>5 DEF CreateFieldman, caches
  <2>2. RequestsTyped'
    BY <1>3, <2>1, BegunIsOK DEF Stages
  <2> QED BY <1>1, <1>3, <2>1, <2>2
<1>6. CASE AssignArea(r)
  <2>1. RowsTyped' /\ Same /\ used' = used
    BY <1>6 DEF AssignArea, At, caches, RowsTyped, HandlerOK
  <2>2. RequestsTyped'
    BY <1>6, <2>1, GoneOnIsOK DEF AssignArea, At, Stages, WritingStages
  <2> QED BY <1>1, <2>1, <2>2
<1>7. CASE Move(r)
  <2>1. PICK e \in Fieldmen \cap used, p \in Positions :
          /\ Begin(r, IF Exists(e) THEN "label" ELSE "done", e, p)
          /\ pos' = IF Exists(e) THEN [pos EXCEPT ![e] = p] ELSE pos
          /\ Same /\ UNCHANGED <<addr, areas, used>>
    BY <1>7 DEF Move, caches
  <2>2. RowsTyped'
    BY <2>1 DEF RowsTyped
  <2>3. RequestsTyped'
    BY <2>1, BegunIsOK DEF Stages, WritingStages
  <2> QED BY <1>1, <2>1, <2>2, <2>3
<1>8. CASE LabelMoved(r)
  <2>1. Address("label", req[r].p) \in Addresses
    BY <1>8, AddressIsTyped DEF LabelMoved, At, HandlerOK, WritingStages, Kinds
  <2>2. RowsTyped' /\ Same /\ used' = used
    BY <1>8, <2>1 DEF LabelMoved, SetAddress, caches, RowsTyped
  <2>3. RequestsTyped'
    BY <1>8, <2>2, GoneOnIsOK DEF LabelMoved, At, Stages, WritingStages
  <2> QED BY <1>1, <2>2, <2>3
<1>9. CASE Geocode(r)
  <2>1. PICK a \in Addresses :
          /\ CachedGeocode(req[r].p, a, street')
          /\ req' = [req EXCEPT ![r] = [req[r] EXCEPT !.a = a,
                       !.at = IF StartsWithDigit(a) THEN "invalidate" ELSE "update"]]
    BY <1>9 DEF Geocode
  <2>2. /\ req[r].at = "geocode" /\ req[r].p \in Positions
        /\ UNCHANGED Rows /\ UNCHANGED <<known, bulk, queue>>
    BY <1>9 DEF Geocode, At, HandlerOK, WritingStages, rows
  <2>3. CachesTyped' /\ a.of = req[r].p
    BY <2>1, <2>2, CachedGeocodeIsTyped DEF CachesTyped, AtTheirPlace
  <2> DEFINE at == IF StartsWithDigit(a) THEN "invalidate" ELSE "update"
  <2>4. PICK q : q = [req[r] EXCEPT !.a = a, !.at = at]
    OBVIOUS
  <2>5. q \in Handlers /\ q.at \in {"invalidate", "update"} /\ q.a = a
        /\ q.p = req[r].p /\ q.e = req[r].e
    BY <2>1, <2>4 DEF HandlerOK, Handlers, Stages
  <2>6. HandlerOK(q)'
    BY <2>1, <2>2, <2>3, <2>5 DEF HandlerOK, WritingStages
  <2>7. RequestsTyped'
    BY <2>1, <2>2, <2>4, <2>6, HandlerMoves
  <2> QED BY <1>2, <2>2, <2>3, <2>7, BulkStaysTyped DEF Typed
<1>10. CASE UpdateAddress(r)
  <2>1. req[r].a \in Addresses
    BY <1>10 DEF UpdateAddress, At, HandlerOK
  <2>2. RowsTyped' /\ Same /\ used' = used
    BY <1>10, <2>1 DEF UpdateAddress, SetAddress, caches, RowsTyped
  <2>3. RequestsTyped'
    BY <1>10, <2>2, GoneOnIsOK DEF UpdateAddress, At, Stages, WritingStages
  <2> QED BY <1>1, <2>2, <2>3
<1>11. CASE Delete(r)
  <2>1. PICK e \in used :
          /\ Begin(r, IF e \in Fieldmen THEN "row"
                      ELSE IF Exists(e) THEN "invalidate" ELSE "done", e, None)
          /\ areas' = areas \ {e}
          /\ IF e \in Tasks THEN Remove({e}) ELSE UNCHANGED <<pos, addr, prio>>
          /\ Same /\ UNCHANGED used
    BY <1>11 DEF Delete, caches
  <2>2. e \in Entities
    BY DEF RowsTyped
  <2>3. RowsTyped'
    BY <2>1, <2>2 DEF RowsTyped, Remove
  <2>4. RequestsTyped'
    BY <2>1, <2>2, BegunIsOK DEF Stages, WritingStages
  <2> QED BY <1>1, <2>1, <2>3, <2>4
<1>12. CASE DeleteRow(r)
  <2>1. RowsTyped' /\ Same /\ used' = used
    BY <1>12 DEF DeleteRow, Remove, caches, RowsTyped
  <2>2. RequestsTyped'
    BY <1>12, <2>1, GoneOnIsOK DEF DeleteRow, At, Stages, WritingStages
  <2> QED BY <1>1, <2>1, <2>2
<1>13. CASE SetPriority(r)
  <2>1. PICK e \in Tasks \cap used :
          Begin(r, IF Exists(e) THEN "invalidate" ELSE "done", e, None)
    BY <1>13 DEF SetPriority
  <2>2. UNCHANGED Rows /\ Same
    BY <1>13 DEF SetPriority, caches
  <2>3. RequestsTyped'
    BY <2>1, <2>2, BegunIsOK DEF Stages, WritingStages
  <2> QED BY <1>1, <1>2, <2>2, <2>3
<1>14. CASE Reset(r)
  <2>1. RowsTyped' /\ Same /\ used' = used
    BY <1>14 DEF Reset, Remove, caches, RowsTyped
  <2>2. RequestsTyped'
    BY <1>14, <2>1, BegunIsOK DEF Reset, Stages, WritingStages
  <2> QED BY <1>1, <2>1, <2>2
<1>15. CASE ClearCaches(r)
  <2>1. UNCHANGED Rows /\ UNCHANGED <<street, bulk, queue>>
    BY <1>15 DEF ClearCaches, rows
  <2>2. CachesTyped'
    BY <1>15 DEF ClearCaches, CachesTyped, Cache, AtTheirPlace
  <2>3. RequestsTyped'
    BY <1>15, <2>1, GoneOnIsOK DEF ClearCaches, Stages, WritingStages
  <2> QED BY <1>2, <2>1, <2>2, <2>3, BulkStaysTyped DEF Typed
<1>16. ASSUME NEW es \in SUBSET Entities, NEW where \in [es \ used -> Positions],
              InsertAll(where), UNCHANGED areas
       PROVE  RowsTyped' /\ used \subseteq used'
  <2> DEFINE new == es \ used
  <2>1. new \in SUBSET (Entities \ used) /\ where \in [new -> Positions] /\ RowsTyped
    BY <1>0, <1>16
  <2> HIDE DEF new
  <2>2. used' = used \cup new /\ (UNCHANGED areas => RowsTyped')
    BY <2>1, <1>16, InsertedRows
  <2> QED BY <2>2, <1>16
<1>17. CASE Randomize(r)
  <2>1. PICK where \in [Tasks \ used -> Positions] :
          Begin(r, "fieldmen", None, None) /\ InsertAll(where) /\ UNCHANGED areas /\ Same
    BY <1>17 DEF Randomize, caches
  <2>2. RowsTyped' /\ used \subseteq used'
    BY <1>16, <2>1
  <2>3. RequestsTyped'
    BY <2>1, <2>2, BegunIsOK DEF Stages, WritingStages
  <2> QED BY <1>1, <2>1, <2>2, <2>3
<1>18. CASE RandomFieldmen(r)
  <2>1. PICK where \in [Fieldmen \ used -> Positions] :
          /\ InsertAll(where) /\ UNCHANGED areas /\ Same
          /\ req' = [req EXCEPT ![r] = [req[r] EXCEPT !.at = "areas",
                       !.items = {[e |-> f, p |-> where[f]] : f \in DOMAIN where}]]
    BY <1>18 DEF RandomFieldmen, caches
  <2>2. RowsTyped' /\ used \subseteq used'
    BY <1>16, <2>1
  <2> DEFINE new == {[e |-> f, p |-> where[f]] : f \in DOMAIN where}
  <2>3. new \in SUBSET Item /\ \A i \in new : i.e \in Fieldmen
    BY <2>1 DEF Item
  <2>4. PICK q : q = [req[r] EXCEPT !.at = "areas", !.items = new]
    OBVIOUS
  <2> HIDE DEF new
  <2>5. q \in Handlers /\ q.at = "areas" /\ q.items = new
    BY <2>3, <2>4 DEF HandlerOK, Handlers, Stages
  <2>6. HandlerOK(q)'
    BY <2>3, <2>5 DEF HandlerOK, WritingStages
  <2>7. req' = [req EXCEPT ![r] = q]
    BY <2>1, <2>4 DEF new
  <2> QED BY <1>1, <2>1, <2>2, <2>6, <2>7, HandlerMoves
<1>19. CASE RandomAreas(r)
  <2>1. RowsTyped' /\ Same /\ used' = used
    BY <1>19 DEF RandomAreas, At, caches, RowsTyped, HandlerOK
  <2>2. RequestsTyped'
    BY <1>19, <2>1, GoneOnIsOK DEF RandomAreas, Stages, WritingStages
  <2> QED BY <1>1, <2>1, <2>2
<1>20. CASE Invalidate(r) \/ InvalidateGrid(r)
  <2>1. UNCHANGED Rows /\ Same
    BY <1>20 DEF Invalidate, InvalidateGrid, rows
  <2>2. RequestsTyped'
    BY <1>20, <2>1, GoneOnIsOK DEF Invalidate, InvalidateGrid, Stages, WritingStages
  <2> QED BY <1>1, <1>2, <2>1, <2>2
<1>21. ASSUME NEW es \in SUBSET Entities
       PROVE  Items({e \in es : Exists(e)}) \subseteq BulkItem
  BY DEF Items, Item, BulkItem, RowsTyped
<1>22. CASE CollectTasks(r)
  <2>1. UNCHANGED Rows /\ Same
    BY <1>22 DEF CollectTasks, rows, caches
  <2> DEFINE all == Items({t \in Tasks : Exists(t)})
  <2>2. all \subseteq BulkItem
    BY <1>21
  <2>3. PICK q : q = [Idle EXCEPT !.at = "collect", !.items = all]
    OBVIOUS
  <2>4. req' = [req EXCEPT ![r] = q]
    BY <1>22, <2>3 DEF CollectTasks
  <2> HIDE DEF all
  <2>5. q \in Handlers /\ q.at = "collect" /\ q.items = all
    BY <2>2, <2>3 DEF Idle, Handlers, Stages, BulkItem
  <2>6. HandlerOK(q)'
    BY <2>1, <2>2, <2>5 DEF HandlerOK, WritingStages, BulkItem
  <2> QED BY <1>1, <1>2, <2>1, <2>4, <2>6, HandlerMoves
<1>23. CASE CollectFieldmen(r)
  <2>1. UNCHANGED Rows /\ Same /\ req[r].at = "collect"
    BY <1>23 DEF CollectFieldmen, At, rows, caches
  <2>2. PICK route :
          req' = [req EXCEPT ![r] = [req[r] EXCEPT !.at = "send",
                                                   !.items = @ \cup Items(Fetched(route))]]
    BY <1>23 DEF CollectFieldmen
  <2> DEFINE all == req[r].items \cup Items(Fetched(route))
  <2>3. Items(Fetched(route)) \subseteq BulkItem
    BY DEF Fetched, OnLand, Items, Item, BulkItem, RowsTyped
  <2>4. req[r].items \subseteq BulkItem
    BY <2>1 DEF HandlerOK, Handlers, BulkItem
  <2>5. all \subseteq BulkItem
    BY <2>3, <2>4
  <2>6. PICK q : q = [req[r] EXCEPT !.at = "send", !.items = all]
    OBVIOUS
  <2>7. req' = [req EXCEPT ![r] = q]
    BY <2>2, <2>6
  <2> HIDE DEF all
  <2>8. q \in Handlers /\ q.at = "send" /\ q.items = all
    BY <2>5, <2>6 DEF HandlerOK, Handlers, Stages, BulkItem
  <2>9. HandlerOK(q)'
    BY <2>1, <2>5, <2>8 DEF HandlerOK, WritingStages, BulkItem
  <2> QED BY <1>1, <1>2, <2>1, <2>7, <2>9, HandlerMoves
<1>24. CASE Dispatch(r)
  <2>1. /\ UNCHANGED Rows /\ UNCHANGED <<street, known, bulk>>
        /\ req' = [req EXCEPT ![r] = Finished] /\ req[r].at = "send"
    BY <1>24 DEF Dispatch, At, Goto, Reached, rows, caches
  <2>2. req[r].items \in SUBSET BulkItem
    BY <2>1 DEF HandlerOK, Handlers, BulkItem
  <2>3. queue' \in {queue, Append(queue, req[r].items)}
    BY <1>24 DEF Dispatch
  <2>4. queue' \in Seq(SUBSET BulkItem)
    BY <2>2, <2>3 DEF BulkTyped
  <2>5. BulkItem' = BulkItem
    BY <2>1 DEF BulkItem
  <2>6. BulkTyped'
    BY <2>1, <2>4, <2>5 DEF BulkTyped, TaskOK, BulkTask
  <2>7. RequestsTyped'
    BY <2>1, IdleIsOK, HandlerMoves DEF HandlerOK
  <2> QED BY <1>2, <2>1, <2>6, <2>7 DEF Typed, CachesTyped, Cache, AtTheirPlace
<1>25. CASE Rescale(r)
  <2>1. UNCHANGED Rows /\ Same /\ Begin(r, "done", None, None)
    BY <1>25 DEF Rescale
  <2>2. RequestsTyped'
    BY <2>1, BegunIsOK DEF Stages, WritingStages
  <2> QED BY <1>1, <1>2, <2>1, <2>2
<1> QED BY <1>4, <1>5, <1>6, <1>7, <1>8, <1>9, <1>10, <1>11, <1>12, <1>13, <1>14, <1>15,
           <1>17, <1>18, <1>19, <1>20, <1>22, <1>23, <1>24, <1>25 DEF Request

\* A permit taken when one is free, or given back, keeps within the permits.
LEMMA WithinPermits ==
  ASSUME NEW S, IsFiniteSet(S), NEW n \in Nat, Cardinality(S) =< n, NEW x
  PROVE  /\ IsFiniteSet(S \cup {x}) /\ IsFiniteSet(S \ {x})
         /\ Cardinality(S) < n => Cardinality(S \cup {x}) =< n
         /\ Cardinality(S \ {x}) =< n
<1>1. Cardinality(S) \in Nat
  BY FS_CardinalityType
<1>2. /\ IsFiniteSet(S \cup {x})
      /\ Cardinality(S \cup {x}) \in {Cardinality(S), Cardinality(S) + 1}
  BY FS_AddElement
<1>3. /\ IsFiniteSet(S \ {x})
      /\ Cardinality(S \ {x}) \in {Cardinality(S), Cardinality(S) - 1}
  BY FS_RemoveElement
<1> QED BY <1>1, <1>2, <1>3

\* A bulk task goes on to a state that is in order.
LEMMA BulkMoves ==
  ASSUME BulkTyped, UNCHANGED used, NEW w \in Processes, NEW b, TaskOK(b),
         bulk' = [bulk EXCEPT ![w] = b], queue' \in Seq(SUBSET BulkItem)
  PROVE  BulkTyped'
<1>1. BulkItem' = BulkItem
  BY DEF BulkItem
<1>2. b \in BulkTask /\ BulkTask' = BulkTask
  BY <1>1 DEF TaskOK, BulkTask
<1> HIDE DEF BulkTask, BulkItem
<1>3. \A v \in Processes : TaskOK(bulk'[v])
  BY DEF BulkTyped
<1>4. \A v \in Processes : TaskOK(bulk[v])'
  BY <1>2, <1>3 DEF TaskOK
<1> QED BY <1>1, <1>2, <1>4 DEF BulkTyped

\* At the end of a batch the task goes on with what is left, or with nothing.
LEMMA BatchMoves ==
  ASSUME BulkTyped, NEW w \in Processes, BatchDone(w)
  PROVE  \E strikes \in Nat, rest \in {bulk[w].rest, {}} :
           bulk' = [bulk EXCEPT ![w] = [bulk[w] EXCEPT !.at = "between", !.strikes = strikes,
                                                       !.rest = rest]]
<1> DEFINE strikes == IF bulk[w].raised > 0 THEN bulk[w].strikes + bulk[w].raised ELSE 0
           rest == IF strikes >= MaxConsecutive429 THEN {} ELSE bulk[w].rest
<1>1. strikes \in Nat /\ rest \in {bulk[w].rest, {}}
  BY DEF BulkTyped, BulkTask
<1>2. bulk' = [bulk EXCEPT ![w] = [bulk[w] EXCEPT !.at = "between", !.strikes = strikes,
                                                  !.rest = rest]]
  BY DEF BatchDone
<1> QED BY <1>1, <1>2

\* When an item is processed the task holds its address, and the workers' cache
\* has it too if it has changed.
LEMMA ProcessMoves ==
  ASSUME Typed, NEW w \in Processes, NEW item \in bulk[w].todo, Process(w, item)
  PROVE  \E a \in Addresses, n \in Nat :
           /\ a.of = item.p
           /\ bulk' = [bulk EXCEPT ![w] =
                [bulk[w] EXCEPT !.refused = n, !.todo = @ \ {item},
                                !.held = @ \cup {[item |-> item, a |-> a]}]]
           /\ known' \in {known, [known EXCEPT ![item.p] = a]}
<1>0. bulk[w] \in BulkTask /\ item.p \in Positions /\ known \in Cache /\ AtTheirPlace(known)
  BY DEF Typed, BulkTyped, BulkTask, BulkItem, Item, CachesTyped
<1>1. CASE known[item.p] # None
  <2> DEFINE a == known[item.p]
  <2>1. bulk' = [bulk EXCEPT ![w] = [bulk[w] EXCEPT !.todo = @ \ {item},
                                       !.held = @ \cup {[item |-> item, a |-> a]}]]
        /\ known' = known
    BY <1>1 DEF Process, Holding
  <2>2. a \in Addresses /\ a.of = item.p /\ bulk[w].refused \in Nat
    BY <1>0, <1>1 DEF Cache, AtTheirPlace, BulkTask
  <2>3. [bulk[w] EXCEPT !.todo = @ \ {item}, !.held = @ \cup {[item |-> item, a |-> a]}]
        = [bulk[w] EXCEPT !.refused = bulk[w].refused, !.todo = @ \ {item},
                          !.held = @ \cup {[item |-> item, a |-> a]}]
    BY <1>0 DEF BulkTask
  <2> QED BY <2>1, <2>2, <2>3
<1>2. CASE known[item.p] = None
  <2> DEFINE refused(answer) == IF answer # "limited" THEN 0
                                ELSE Least(bulk[w].refused + 1, MaxConsecutive429)
  <2>1. PICK answer \in Answers :
          /\ bulk' = [bulk EXCEPT ![w] = Holding([bulk[w] EXCEPT !.refused = refused(answer)],
                                                 item, Formatted(answer, item.p))]
          /\ known' = [known EXCEPT ![item.p] = Formatted(answer, item.p)]
    BY <1>2 DEF Process, Escapes
  <2>2. refused(answer) \in Nat
    BY <1>0 DEF BulkTask, Least
  <2>3. Formatted(answer, item.p) \in Addresses /\ Formatted(answer, item.p).of = item.p
    BY <1>0, FormattedIsTyped
  <2> DEFINE n == refused(answer)
             a == Formatted(answer, item.p)
  <2>4. bulk' = [bulk EXCEPT ![w] = [bulk[w] EXCEPT !.refused = n, !.todo = @ \ {item},
                                       !.held = @ \cup {[item |-> item, a |-> a]}]]
    BY <1>0, <2>1 DEF Holding, BulkTask
  <2> QED BY <2>1, <2>2, <2>3, <2>4
<1> QED BY <1>1, <1>2

\* The bulk tasks write within their permits, and only to rows that are there.
LEMMA BulkKeepsTyped == ASSUME Typed, NEW w \in Processes, Bulk(w) PROVE Typed'
<1>0. RowsTyped /\ CachesTyped /\ RequestsTyped /\ BulkTyped
  BY DEF Typed
<1> USE <1>0
<1>1. UNCHANGED req /\ UNCHANGED <<pos, areas, used, street>>
  BY DEF Bulk, Take, NextBatch, Process, WriteAddress, BatchDone, BulkInvalidate, BulkGrid,
         Kill, rows, caches
<1>2. ASSUME BulkTyped', RowsTyped', CachesTyped' PROVE Typed'
  BY <1>1, <1>2 DEF Typed, RequestsTyped, HandlerOK
<1>3. ASSUME UNCHANGED addr PROVE RowsTyped'
  BY <1>1, <1>3 DEF RowsTyped
<1>4. ASSUME UNCHANGED known PROVE CachesTyped'
  BY <1>1, <1>4 DEF CachesTyped, AtTheirPlace
<1>5. Cardinality({}) = 0 /\ IsFiniteSet({}) /\ 0 =< Permits
  BY FS_EmptySet
<1>12. TaskOK(bulk[w]) /\ bulk[w] \in BulkTask /\ queue \in Seq(SUBSET BulkItem)
  BY DEF BulkTyped
<1>13. IsFiniteSet(bulk[w].held) /\ Cardinality(bulk[w].held) \in Nat /\ Permits \in Nat
       /\ Cardinality(bulk[w].held) =< Permits
  BY <1>12, FS_CardinalityType DEF TaskOK
<1>14. ASSUME NEW b, TaskOK(b), bulk' = [bulk EXCEPT ![w] = b], queue' \in Seq(SUBSET BulkItem)
       PROVE  BulkTyped'
  BY <1>1, <1>14, BulkMoves
<1>15. ASSUME NEW at \in {"idle", "between", "grid"}, NEW rest \in SUBSET BulkItem
       PROVE  /\ TaskOK([Resting EXCEPT !.at = at, !.rest = rest])
              /\ TaskOK([Resting EXCEPT !.at = at])
              /\ TaskOK(Resting)
  BY <1>5 DEF TaskOK, BulkTask, Resting
<1>6. CASE Take(w)
  <2>1. Head(queue) \in SUBSET BulkItem /\ Tail(queue) \in Seq(SUBSET BulkItem)
    BY <1>6, <1>12 DEF Take
  <2>2. BulkTyped'
    BY <1>6, <1>14, <1>15, <2>1 DEF Take
  <2> QED BY <1>2, <1>3, <1>4, <1>6, <2>2 DEF Take, rows, caches
<1>7. CASE NextBatch(w)
  <2>1. PICK batch \in SUBSET bulk[w].rest :
          bulk' = [bulk EXCEPT ![w] = [bulk[w] EXCEPT !.at = "batch", !.todo = batch,
                                                      !.rest = @ \ batch, !.raised = 0]]
    BY <1>7 DEF NextBatch
  <2>2. PICK b : b = [bulk[w] EXCEPT !.at = "batch", !.todo = batch, !.rest = @ \ batch,
                                     !.raised = 0]
    OBVIOUS
  <2>3. b \in BulkTask /\ b.held = bulk[w].held /\ b.at = "batch"
    BY <1>12, <2>2 DEF BulkTask
  <2>4. TaskOK(b)
    BY <1>12, <2>3 DEF TaskOK
  <2>5. queue' = queue
    BY <1>7 DEF NextBatch
  <2>6. BulkTyped'
    BY <1>12, <1>14, <2>1, <2>2, <2>4, <2>5
  <2> QED BY <1>2, <1>3, <1>4, <1>7, <2>6 DEF NextBatch, rows, caches
<1>8. ASSUME NEW item \in bulk[w].todo, Process(w, item) PROVE Typed'
  <2>1. PICK a \in Addresses, n \in Nat :
          /\ a.of = item.p
          /\ bulk' = [bulk EXCEPT ![w] =
               [bulk[w] EXCEPT !.refused = n, !.todo = @ \ {item},
                               !.held = @ \cup {[item |-> item, a |-> a]}]]
          /\ known' \in {known, [known EXCEPT ![item.p] = a]}
    BY <1>8, ProcessMoves
  <2>2. item \in BulkItem /\ item.p \in Positions
    BY <1>12 DEF BulkTask, BulkItem, Item
  <2>3. CachesTyped'
    BY <1>1, <2>1, <2>2 DEF CachesTyped, Cache, AtTheirPlace
  <2>4. UNCHANGED <<queue, addr>> /\ Cardinality(bulk[w].held) < Permits /\ bulk[w].at = "batch"
    BY <1>8 DEF Process, rows
  <2> DEFINE held == bulk[w].held \cup {[item |-> item, a |-> a]}
  <2>5. IsFiniteSet(held) /\ Cardinality(held) =< Permits
    BY <1>13, <2>4, WithinPermits
  <2>6. held \in SUBSET [item : BulkItem, a : Addresses] /\ \A h \in held : h.a.of = h.item.p
    BY <1>12, <2>1, <2>2 DEF TaskOK, BulkTask
  <2>7. PICK b : b = [bulk[w] EXCEPT !.refused = n, !.todo = @ \ {item}, !.held = held]
    OBVIOUS
  <2>8. bulk' = [bulk EXCEPT ![w] = b]
    BY <2>1, <2>7
  <2> HIDE DEF held
  <2>9. b \in BulkTask /\ b.held = held /\ b.at = "batch"
    BY <1>12, <2>4, <2>6, <2>7 DEF BulkTask
  <2>10. TaskOK(b)
    BY <2>5, <2>6, <2>9 DEF TaskOK
  <2>11. BulkTyped'
    BY <1>12, <1>14, <2>4, <2>8, <2>10
  <2> QED BY <1>2, <1>3, <2>3, <2>4, <2>11
<1>9. CASE WriteAddress(w)
  <2>1. PICK h \in bulk[w].held :
          /\ SetAddress(h.item.e, h.a)
          /\ bulk' = [bulk EXCEPT ![w] = [bulk[w] EXCEPT !.held = @ \ {h}]]
    BY <1>9 DEF WriteAddress
  <2>2. h.a \in Addresses
    BY <1>12 DEF BulkTask
  <2>3. UNCHANGED <<queue, known>> /\ bulk[w].held # {}
    BY <1>9 DEF WriteAddress, caches
  <2>4. RowsTyped'
    BY <1>1, <2>1, <2>2 DEF RowsTyped, SetAddress
  <2>5. IsFiniteSet(bulk[w].held \ {h}) /\ Cardinality(bulk[w].held \ {h}) =< Permits
    BY <1>13, WithinPermits
  <2>6. PICK b : b = [bulk[w] EXCEPT !.held = @ \ {h}]
    OBVIOUS
  <2>7. b \in BulkTask /\ b.held = bulk[w].held \ {h} /\ b.at = bulk[w].at
    BY <1>12, <2>6 DEF BulkTask
  <2>8. TaskOK(b)
    BY <1>12, <2>3, <2>5, <2>7 DEF TaskOK
  <2>9. BulkTyped'
    BY <1>12, <1>14, <2>1, <2>3, <2>6, <2>8
  <2> QED BY <1>2, <1>4, <2>3, <2>4, <2>9
<1>10. CASE BatchDone(w)
  <2>1. PICK strikes \in Nat, rest \in {bulk[w].rest, {}} :
          bulk' = [bulk EXCEPT ![w] = [bulk[w] EXCEPT !.at = "between", !.strikes = strikes,
                                                      !.rest = rest]]
    BY <1>10, BatchMoves
  <2>2. PICK b : b = [bulk[w] EXCEPT !.at = "between", !.strikes = strikes, !.rest = rest]
    OBVIOUS
  <2>3. queue' = queue /\ bulk[w].held = {}
    BY <1>10 DEF BatchDone
  <2>4. b \in BulkTask /\ b.held = {} /\ b.at = "between"
    BY <1>12, <2>2, <2>3 DEF BulkTask
  <2>5. TaskOK(b)
    BY <1>5, <2>4 DEF TaskOK
  <2>6. BulkTyped'
    BY <1>12, <1>14, <2>1, <2>2, <2>3, <2>5
  <2> QED BY <1>2, <1>3, <1>4, <1>10, <2>6 DEF BatchDone, rows, caches
<1>11. CASE BulkInvalidate(w) \/ BulkGrid(w) \/ Kill(w)
  <2>1. PICK b : b \in {Resting, [Resting EXCEPT !.at = "grid"]} /\ bulk' = [bulk EXCEPT ![w] = b]
    BY <1>11 DEF BulkInvalidate, BulkGrid, Kill
  <2>2. UNCHANGED <<addr, known, queue>>
    BY <1>11 DEF BulkInvalidate, BulkGrid, Kill, rows, caches
  <2>3. TaskOK(b)
    <3>1. {} \in SUBSET BulkItem
      OBVIOUS
    <3> QED BY <1>15, <2>1, <3>1
  <2>4. BulkTyped'
    BY <1>12, <1>14, <2>1, <2>2, <2>3
  <2> QED BY <1>2, <1>3, <1>4, <2>2, <2>4
<1> QED BY <1>6, <1>7, <1>8, <1>9, <1>10, <1>11 DEF Bulk

\* Typed is inductive.
LEMMA NextKeepsTyped == Typed /\ [Next]_vars => Typed'
<1> SUFFICES ASSUME Typed, [Next]_vars PROVE Typed'
  OBVIOUS
<1>1. ASSUME UNCHANGED <<rows, street, known, req, queue, bulk>> PROVE Typed'
  BY <1>1 DEF rows, Typed, RowsTyped, CachesTyped, Cache, AtTheirPlace, RequestsTyped, HandlerOK,
              BulkTyped, BulkItem, TaskOK, BulkTask
<1>2. CASE \E v \in Viewers : ReadRows(v) \/ FillView(v)
  BY <1>1, <1>2 DEF ReadRows, FillView, caches
<1>3. CASE \E k \in ViewNames : ExpireView(k)
  BY <1>1, <1>3 DEF ExpireView
<1>4. CASE UNCHANGED vars
  BY <1>1, <1>4 DEF vars, caches
<1> QED BY <1>2, <1>3, <1>4, RequestKeepsTyped, BulkKeepsTyped DEF Next

\* A priority comes and goes with the row of the task that is followed, and only
\* update_task_priority and the legacy rescaling change it.
LEMMA NextKeepsPrioTyped == Typed /\ PrioTyped /\ [Next]_vars => PrioTyped'
<1> SUFFICES ASSUME Typed, PrioTyped, [Next]_vars PROVE PrioTyped'
  OBVIOUS
<1>0. RowsTyped
  BY DEF Typed
<1>1. UNCHANGED seen
  BY DEF vars, Next, Request, Bulk, CreateTask, CreateFieldman, AssignArea, Move, LabelMoved,
         Geocode, UpdateAddress, Delete, DeleteRow, SetPriority, Rescale, Reset, ClearCaches,
         Randomize, RandomFieldmen, RandomAreas, Invalidate, InvalidateGrid, CollectTasks,
         CollectFieldmen, Dispatch, ReadRows, FillView, Take, NextBatch, Process, WriteAddress,
         BatchDone, BulkInvalidate, BulkGrid, Kill, ExpireView
<1>2. ASSUME UNCHANGED <<pos, prio>> PROVE PrioTyped'
  BY <1>1, <1>2 DEF PrioTyped
<1>3. ASSUME NEW es \in SUBSET (Entities \ used), NEW where \in [es -> Positions],
             InsertAll(where)
      PROVE  PrioTyped'
  <2>0. /\ \A e \in es : Exists(e)'
        /\ \A e \in Entities \ es : pos'[e] = pos[e]
    BY <1>0, <1>3, InsertedRows
  <2>1. /\ seen \in es => Exists(seen)'
        /\ seen \notin es => pos'[seen] = pos[seen]
    BY <1>1, <2>0 DEF PrioTyped
  <2>2. IF seen \in Tasks \cap es THEN prio' \in Priorities ELSE prio' = prio
    BY <1>3 DEF InsertAll
  <2>3. seen \in es => pos[seen] = None
    BY <1>0 DEF RowsTyped
  <2> QED BY <1>1, <2>1, <2>2, <2>3 DEF PrioTyped
<1>4. ASSUME NEW es, Remove(es) PROVE PrioTyped'
  <2>1. pos'[seen] = IF seen \in es THEN None ELSE pos[seen]
    BY <1>4 DEF Remove, PrioTyped
  <2>2. prio' = IF seen \in es THEN None ELSE prio
    BY <1>4 DEF Remove
  <2> QED BY <1>1, <2>1, <2>2 DEF PrioTyped
<1>5. ASSUME NEW r \in Requests, Request(r) PROVE PrioTyped'
  <2>1. CASE CreateTask(r) \/ CreateFieldman(r)
    <3>1. PICK e \in Entities \ used, p \in Positions : Insert(e, p)
      BY <2>1 DEF CreateTask, CreateFieldman
    <3> DEFINE where == [x \in {e} |-> p]
    <3>2. where \in [{e} -> Positions] /\ InsertAll(where) /\ {e} \in SUBSET (Entities \ used)
      BY <3>1 DEF Insert
    <3> HIDE DEF where
    <3> QED BY <1>3, <3>2
  <2>2. CASE Move(r)
    <3>1. PICK e \in Fieldmen, p \in Positions :
            /\ pos' = IF Exists(e) THEN [pos EXCEPT ![e] = p] ELSE pos
            /\ prio' = prio
      BY <2>2 DEF Move
    <3>2. pos'[seen] # None <=> Exists(seen)
      BY <1>0, <3>1 DEF RowsTyped, PrioTyped
    <3> QED BY <1>1, <3>1, <3>2 DEF PrioTyped
  <2>3. CASE Delete(r)
    BY <1>2, <1>4, <2>3 DEF Delete
  <2>4. CASE DeleteRow(r) \/ Reset(r)
    BY <1>4, <2>4 DEF DeleteRow, Reset
  <2>5. CASE SetPriority(r)
    BY <1>1, <2>5 DEF SetPriority, PrioTyped
  <2>6. CASE Rescale(r)
    BY <1>1, <2>6 DEF Rescale, PrioTyped
  <2>7. CASE Randomize(r)
    <3>1. PICK where \in [Tasks \ used -> Positions] : InsertAll(where)
      BY <2>7 DEF Randomize
    <3> QED BY <1>3, <3>1
  <2>8. CASE RandomFieldmen(r)
    <3>1. PICK where \in [Fieldmen \ used -> Positions] : InsertAll(where)
      BY <2>8 DEF RandomFieldmen
    <3> QED BY <1>3, <3>1
  <2>9. CASE AssignArea(r) \/ LabelMoved(r) \/ Geocode(r) \/ UpdateAddress(r)
               \/ ClearCaches(r) \/ RandomAreas(r) \/ Invalidate(r) \/ InvalidateGrid(r)
               \/ CollectTasks(r) \/ CollectFieldmen(r) \/ Dispatch(r)
    BY <1>2, <2>9 DEF AssignArea, LabelMoved, Geocode, UpdateAddress, ClearCaches, RandomAreas,
                      Invalidate, InvalidateGrid, CollectTasks, CollectFieldmen, Dispatch, rows
  <2> QED BY <1>5, <2>1, <2>2, <2>3, <2>4, <2>5, <2>6, <2>7, <2>8, <2>9 DEF Request
<1>6. ASSUME NEW w \in Processes, Bulk(w) PROVE PrioTyped'
  BY <1>2, <1>6 DEF Bulk, Take, NextBatch, Process, WriteAddress, BatchDone, BulkInvalidate,
                    BulkGrid, Kill, rows
<1>7. CASE \/ \E v \in Viewers : ReadRows(v) \/ FillView(v)
           \/ \E k \in ViewNames : ExpireView(k)
           \/ UNCHANGED vars
  BY <1>2, <1>7 DEF ReadRows, FillView, ExpireView, vars, rows
<1> QED BY <1>5, <1>6, <1>7 DEF Next

\* A position and an address come and go together, an area belongs to a fieldman
\* that is there, whoever deletes it first, and every message, answer and cached
\* view is of the kind its reader expects.
\* (services/data_service.py 637-1039, workers/background_tasks.py 118-224)
THEOREM DataTypeCorrect == Spec => []DataTypeOK
BY TypedIsTyped, InitTyped, NextKeepsTyped, NextKeepsPrioTyped, PTL DEF Spec
-----------------------------------------------------------------------------
(* The cache of reverse_geocode *)

\* Only a request asks reverse_geocode with its cache, and only at "geocode".
LEMMA OnlyGeocodeFills ==
  ASSUME Next, ~ \E r \in Requests : Geocode(r) PROVE UNCHANGED street
BY DEF Next, Request, Bulk, caches,
       CreateTask, CreateFieldman, AssignArea, Move, LabelMoved, UpdateAddress, Delete,
       DeleteRow, SetPriority, Rescale, Reset, ClearCaches, Randomize, RandomFieldmen,
       RandomAreas, Invalidate, InvalidateGrid, CollectTasks, CollectFieldmen, Dispatch,
       ReadRows, FillView, Take, NextBatch, Process,
       WriteAddress, BatchDone, BulkInvalidate, BulkGrid, Kill, ExpireView

\* What enters the cache is what Nominatim said, never what stands in for it.
LEMMA NextKeepsFallbackOut ==
  Typed /\ FallbackIsNotCached /\ [Next]_vars => FallbackIsNotCached'
<1> SUFFICES ASSUME Typed, FallbackIsNotCached, [Next]_vars PROVE FallbackIsNotCached'
  OBVIOUS
<1>1. ASSUME NEW r \in Requests, Geocode(r) PROVE FallbackIsNotCached'
  <2>1. req[r].p \in Positions /\ street \in Cache
    BY <1>1 DEF Geocode, At, Typed, RequestsTyped, HandlerOK, WritingStages, CachesTyped
  <2>2. PICK p \in Positions, answer \in Answers :
          street' \in {street, IF answer = "ok"
                                 THEN [street EXCEPT ![p] = Formatted(answer, p)] ELSE street}
    BY <1>1, <2>1 DEF Geocode, CachedGeocode, Answers
  <2> QED BY <2>1, <2>2, FormattedIsTyped DEF FallbackIsNotCached, Cache
<1>2. CASE UNCHANGED street
  BY <1>2 DEF FallbackIsNotCached
<1> QED BY <1>1, <1>2, OnlyGeocodeFills DEF vars, caches

\* A failed reverse geocode leaves the cache as it was, so the next request at
\* that place asks again; only what Nominatim answered, were it the coordinates,
\* is kept for a day.  (services/geocode_service.py 29-75 and 117-124)
THEOREM FallbackNeverCached == Spec => []FallbackIsNotCached
<1>1. Init => FallbackIsNotCached
  BY DEF Init, FallbackIsNotCached
<1> QED BY <1>1, InitTyped, NextKeepsTyped, NextKeepsFallbackOut, PTL DEF Spec

-----------------------------------------------------------------------------
(* Addresses follow positions *)

\* Of a row that has not been moved under a pending geocode, everything on the
\* way was resolved from where the row is.
HandlersAligned ==
  \A e \in Entities \ raced : Exists(e) =>
    \A s \in Requests : req[s].e = e /\ req[s].at \in WritingStages => req[s].p = pos[e]
ItemsAligned ==
  \A e \in Entities \ raced : Exists(e) => \A i \in PendingItems : i.e = e => i.p = pos[e]
AddressesAligned ==
  \A e \in Entities \ raced : Exists(e) =>
    addr[e].of = pos[e] \/ \E s \in Requests : req[s].e = e /\ req[s].at = "label"

Aligned == HandlersAligned /\ ItemsAligned /\ AddressesAligned

\* When nothing is pending on a row, no handler is between its two statements.
LEMMA AlignedIsFollowed == Typed /\ Aligned => AddressFollowsPosition
BY DEF Typed, RowsTyped, Aligned, AddressesAligned, AddressFollowsPosition, Pending

\* An item is in a message, with a bulk task, or with a request about to send.
Held(i) ==
  \/ \E n \in DOMAIN queue : i \in queue[n]
  \/ \E w \in Processes : \/ i \in bulk[w].rest \/ i \in bulk[w].todo
                         \/ \E h \in bulk[w].held : i = h.item
  \/ \E s \in Requests : req[s].at \in {"collect", "send"} /\ i \in req[s].items

LEMMA WhereItemsAre ==
  ASSUME NEW i PROVE (i \in PendingItems <=> Held(i)) /\ (i \in PendingItems' <=> Held(i)')
BY DEF PendingItems, Held

\* An item is one of a row there has been.
LEMMA ItemsAreOfUsed == ASSUME Typed, NEW i \in PendingItems PROVE i \in BulkItem
<1>1. CASE \E n \in DOMAIN queue : i \in queue[n]
  BY <1>1 DEF Typed, BulkTyped
<1>2. ASSUME NEW w \in Processes,
             i \in bulk[w].rest \/ i \in bulk[w].todo \/ \E h \in bulk[w].held : i = h.item
      PROVE  i \in BulkItem
  BY <1>2 DEF Typed, BulkTyped, BulkTask
<1>3. CASE \E s \in Requests : req[s].at \in {"collect", "send"} /\ i \in req[s].items
  BY <1>3 DEF Typed, RequestsTyped, HandlerOK, Handlers, BulkItem
<1> QED BY <1>1, <1>2, <1>3, WhereItemsAre DEF Held

\* What a request holds that is no item to be written.
Elsewhere(q) == q.at \notin {"collect", "send"}

\* A request steps alone, and only to collect and to send are items its business.
LEMMA RequestSteps ==
  ASSUME Typed, NEW r \in Requests, Request(r), ~ CollectTasks(r), ~ CollectFieldmen(r),
         ~ Dispatch(r)
  PROVE  /\ UNCHANGED <<queue, bulk>>
         /\ \E q : Elsewhere(q) /\ req' = [req EXCEPT ![r] = q]
<1>1. UNCHANGED <<queue, bulk>>
  BY DEF Request, CreateTask, CreateFieldman, AssignArea, Move, LabelMoved, Geocode,
         UpdateAddress, Delete, DeleteRow, SetPriority, Rescale, Reset, ClearCaches, Randomize,
         RandomFieldmen, RandomAreas, Invalidate, InvalidateGrid
<1> SUFFICES \E q : Elsewhere(q) /\ req' = [req EXCEPT ![r] = q]
  BY <1>1
<1>2. req[r] \in Handlers
  BY DEF Typed, RequestsTyped
<1>3. ASSUME NEW at \in Stages \ {"collect", "send"}, Goto(r, at)
      PROVE  \E q : Elsewhere(q) /\ req' = [req EXCEPT ![r] = q]
  <2>1. Elsewhere(Reached(r, at))
    BY <1>2 DEF Elsewhere, Reached, Finished, Idle, Handlers
  <2> QED BY <1>3, <2>1 DEF Goto
<1>4. ASSUME NEW at \in Stages \ {"collect", "send"}, NEW e, NEW p, Begin(r, at, e, p)
      PROVE  \E q : Elsewhere(q) /\ req' = [req EXCEPT ![r] = q]
  <2> DEFINE q == IF at = "done" THEN Finished ELSE [Idle EXCEPT !.at = at, !.e = e, !.p = p]
  <2>1. Elsewhere(q)
    BY DEF Elsewhere, Finished, Idle
  <2> QED BY <1>4, <2>1 DEF Begin
<1>5. CASE CreateTask(r) \/ CreateFieldman(r) \/ Move(r) \/ Delete(r) \/ SetPriority(r)
             \/ Rescale(r) \/ Reset(r) \/ Randomize(r)
  BY <1>4, <1>5 DEF CreateTask, CreateFieldman, Move, Delete, SetPriority, Rescale, Reset,
                    Randomize, Stages
<1>6. CASE AssignArea(r) \/ LabelMoved(r) \/ UpdateAddress(r) \/ DeleteRow(r)
             \/ ClearCaches(r) \/ RandomAreas(r) \/ Invalidate(r) \/ InvalidateGrid(r)
  BY <1>3, <1>6 DEF AssignArea, LabelMoved, UpdateAddress, DeleteRow, ClearCaches, RandomAreas,
                    Invalidate, InvalidateGrid, Stages
<1>7. CASE Geocode(r)
  <2>1. PICK a : req' = [req EXCEPT ![r] = [req[r] EXCEPT !.a = a,
                   !.at = IF StartsWithDigit(a) THEN "invalidate" ELSE "update"]]
    BY <1>7 DEF Geocode
  <2>2. PICK q : q = [req[r] EXCEPT !.a = a,
                        !.at = IF StartsWithDigit(a) THEN "invalidate" ELSE "update"]
    OBVIOUS
  <2>3. Elsewhere(q)
    BY <1>2, <2>2 DEF Elsewhere, Handlers
  <2> QED BY <2>1, <2>2, <2>3
<1>8. CASE RandomFieldmen(r)
  <2>1. PICK items : req' = [req EXCEPT ![r] = [req[r] EXCEPT !.at = "areas", !.items = items]]
    BY <1>8 DEF RandomFieldmen
  <2>2. PICK q : q = [req[r] EXCEPT !.at = "areas", !.items = items]
    OBVIOUS
  <2>3. Elsewhere(q)
    BY <1>2, <2>2 DEF Elsewhere, Handlers
  <2> QED BY <2>1, <2>2, <2>3
<1> QED BY <1>5, <1>6, <1>7, <1>8 DEF Request

\* A request adds no item but for a row as it is: only to collect are items made,
\* and that moves nothing.
LEMMA RequestAddsItems ==
  ASSUME Typed, NEW r \in Requests, Request(r), NEW i \in PendingItems'
  PROVE  i \in PendingItems \/ (UNCHANGED pos /\ i.p = pos[i.e])
<1>0. req \in [Requests -> Handlers]
  BY DEF Typed, RequestsTyped
<1>1. Held(i)'
  BY WhereItemsAre
<1>2. ASSUME NEW es \in SUBSET Entities, i \in Items(es) PROVE i.p = pos[i.e]
  BY <1>2 DEF Items
<1>3. ASSUME UNCHANGED <<queue, bulk>>, NEW q, req' = [req EXCEPT ![r] = q], Elsewhere(q)
      PROVE  i \in PendingItems
  BY <1>0, <1>1, <1>3, WhereItemsAre DEF Held, Elsewhere
<1>4. CASE CollectTasks(r)
  <2> DEFINE all == Items({t \in Tasks : Exists(t)})
  <2>1. PICK q : q = [Idle EXCEPT !.at = "collect", !.items = all]
    OBVIOUS
  <2>2. req' = [req EXCEPT ![r] = q] /\ UNCHANGED <<queue, bulk, pos>> /\ q.items = all
    BY <1>4, <2>1 DEF CollectTasks, Idle, rows
  <2>3. i \in all => i.p = pos[i.e]
    BY <1>2
  <2> HIDE DEF all
  <2> QED BY <1>0, <1>1, <2>2, <2>3, WhereItemsAre DEF Held
<1>5. CASE CollectFieldmen(r)
  <2>1. PICK route :
          req' = [req EXCEPT ![r] = [req[r] EXCEPT !.at = "send",
                                                   !.items = @ \cup Items(Fetched(route))]]
    BY <1>5 DEF CollectFieldmen
  <2>2. i \in Items(Fetched(route)) => i.p = pos[i.e]
    BY <1>2 DEF Fetched
  <2>3. UNCHANGED <<queue, bulk, pos>> /\ req[r].at = "collect"
    BY <1>5 DEF CollectFieldmen, At, rows
  <2> DEFINE all == req[r].items \cup Items(Fetched(route))
  <2>4. PICK q : q = [req[r] EXCEPT !.at = "send", !.items = all]
    OBVIOUS
  <2>5. req' = [req EXCEPT ![r] = q]
    BY <2>1, <2>4
  <2>6. q.items = all
    BY <1>0, <2>4 DEF Handlers
  <2>7. i \in all => i \in req[r].items \/ i.p = pos[i.e]
    BY <2>2
  <2> HIDE DEF all
  <2> QED BY <1>0, <1>1, <2>3, <2>5, <2>6, <2>7, WhereItemsAre DEF Held
<1>6. CASE Dispatch(r)
  <2>1. /\ req[r].at = "send" /\ UNCHANGED bulk /\ queue \in Seq(SUBSET BulkItem)
        /\ req' = [req EXCEPT ![r] = Finished]
        /\ queue' \in {queue, Append(queue, req[r].items)}
    BY <1>6 DEF Dispatch, At, Goto, Reached, Typed, BulkTyped
  <2>2. ASSUME NEW n \in DOMAIN queue', i \in queue'[n]
        PROVE  (n \in DOMAIN queue /\ i \in queue[n]) \/ i \in req[r].items
    <3>1. CASE queue' = queue
      BY <2>2, <3>1
    <3>2. CASE queue' = Append(queue, req[r].items)
      BY <2>1, <2>2, <3>2
    <3> QED BY <2>1, <3>1, <3>2
  <2>3. Elsewhere(Finished)
    BY DEF Elsewhere, Finished, Idle
  <2> QED BY <1>0, <1>1, <2>1, <2>2, <2>3, WhereItemsAre DEF Held, Elsewhere
<1>7. CASE ~ CollectTasks(r) /\ ~ CollectFieldmen(r) /\ ~ Dispatch(r)
  <2>1. /\ UNCHANGED <<queue, bulk>>
        /\ \E q : Elsewhere(q) /\ req' = [req EXCEPT ![r] = q]
    BY <1>7, RequestSteps
  <2> QED BY <1>3, <2>1
<1> QED BY <1>4, <1>5, <1>6, <1>7

\* A bulk task adds none: it takes them from the queue and gives them back to
\* nobody.
LEMMA BulkAddsNoItem ==
  ASSUME Typed, NEW w \in Processes, Bulk(w), NEW i \in PendingItems' PROVE i \in PendingItems
<1>1. Held(i)' /\ UNCHANGED req
  BY WhereItemsAre DEF Bulk, Take, NextBatch, Process, WriteAddress, BatchDone,
                       BulkInvalidate, BulkGrid, Kill
<1>2. bulk \in [Processes -> BulkTask] /\ queue \in Seq(SUBSET BulkItem)
  BY DEF Typed, BulkTyped
<1>9. ASSUME NEW b, bulk' = [bulk EXCEPT ![w] = b], queue' = queue,
             b.rest \subseteq bulk[w].rest, b.todo \subseteq bulk[w].rest \cup bulk[w].todo,
             \A h \in b.held : h \in bulk[w].held \/ h.item \in bulk[w].todo
      PROVE  i \in PendingItems
  BY <1>1, <1>2, <1>9, WhereItemsAre DEF Held
<1>3. CASE Take(w)
  <2>1. PICK b : /\ b = [Resting EXCEPT !.at = "between", !.rest = Head(queue)]
                 /\ bulk' = [bulk EXCEPT ![w] = b]
    BY <1>3 DEF Take
  <2>2. b.rest = queue[1] /\ b.todo = {} /\ b.held = {} /\ 1 \in DOMAIN queue
    BY <1>2, <1>3, <2>1 DEF Take, Resting
  <2>3. \A n \in DOMAIN queue' : n + 1 \in DOMAIN queue /\ queue'[n] = queue[n + 1]
    BY <1>2, <1>3 DEF Take
  <2> QED BY <1>1, <1>2, <2>1, <2>2, <2>3, WhereItemsAre DEF Held
<1>4. CASE NextBatch(w)
  <2>1. PICK batch \in SUBSET bulk[w].rest :
          bulk' = [bulk EXCEPT ![w] = [bulk[w] EXCEPT !.at = "batch", !.todo = batch,
                                                      !.rest = @ \ batch, !.raised = 0]]
    BY <1>4 DEF NextBatch
  <2>2. PICK b : b = [bulk[w] EXCEPT !.at = "batch", !.todo = batch, !.rest = @ \ batch,
                                     !.raised = 0]
    OBVIOUS
  <2>3. b.rest \subseteq bulk[w].rest /\ b.todo \subseteq bulk[w].rest /\ b.held = bulk[w].held
    BY <1>2, <2>2 DEF BulkTask
  <2>4. queue' = queue
    BY <1>4 DEF NextBatch
  <2> QED BY <1>9, <2>1, <2>2, <2>3, <2>4
<1>5. ASSUME NEW item \in bulk[w].todo, Process(w, item) PROVE i \in PendingItems
  <2>1. PICK a, n : bulk' = [bulk EXCEPT ![w] =
                      [bulk[w] EXCEPT !.refused = n, !.todo = @ \ {item},
                                      !.held = @ \cup {[item |-> item, a |-> a]}]]
    <3>1. PICK a \in Addresses, n \in Nat :
            /\ a.of = item.p
            /\ bulk' = [bulk EXCEPT ![w] =
                 [bulk[w] EXCEPT !.refused = n, !.todo = @ \ {item},
                                 !.held = @ \cup {[item |-> item, a |-> a]}]]
            /\ known' \in {known, [known EXCEPT ![item.p] = a]}
      BY <1>5, ProcessMoves
    <3> QED BY <3>1
  <2>2. PICK b : b = [bulk[w] EXCEPT !.refused = n, !.todo = @ \ {item},
                                     !.held = @ \cup {[item |-> item, a |-> a]}]
    OBVIOUS
  <2>3. b.rest = bulk[w].rest /\ b.todo \subseteq bulk[w].todo
        /\ \A h \in b.held : h \in bulk[w].held \/ h.item \in bulk[w].todo
    BY <1>2, <2>2 DEF BulkTask
  <2>4. queue' = queue
    BY <1>5 DEF Process
  <2> QED BY <1>9, <2>1, <2>2, <2>3, <2>4
<1>6. CASE WriteAddress(w)
  <2>1. PICK h \in bulk[w].held : bulk' = [bulk EXCEPT ![w] = [bulk[w] EXCEPT !.held = @ \ {h}]]
    BY <1>6 DEF WriteAddress
  <2>2. PICK b : b = [bulk[w] EXCEPT !.held = @ \ {h}]
    OBVIOUS
  <2>3. b.rest = bulk[w].rest /\ b.todo = bulk[w].todo /\ b.held \subseteq bulk[w].held
    BY <1>2, <2>2 DEF BulkTask
  <2>4. queue' = queue
    BY <1>6 DEF WriteAddress
  <2> QED BY <1>9, <2>1, <2>2, <2>3, <2>4
<1>7. CASE BatchDone(w)
  <2>1. PICK strikes, rest :
          /\ bulk' = [bulk EXCEPT ![w] = [bulk[w] EXCEPT !.at = "between", !.strikes = strikes,
                                                         !.rest = rest]]
          /\ rest \in {{}, bulk[w].rest}
    BY <1>7, BatchMoves DEF Typed
  <2>2. PICK b : b = [bulk[w] EXCEPT !.at = "between", !.strikes = strikes, !.rest = rest]
    OBVIOUS
  <2>3. b.rest \subseteq bulk[w].rest /\ b.todo = bulk[w].todo /\ b.held = bulk[w].held
    BY <1>2, <2>1, <2>2 DEF BulkTask
  <2>4. queue' = queue
    BY <1>7 DEF BatchDone
  <2> QED BY <1>9, <2>1, <2>2, <2>3, <2>4
<1>8. CASE BulkInvalidate(w) \/ BulkGrid(w) \/ Kill(w)
  <2>1. PICK b : /\ b \in {Resting, [Resting EXCEPT !.at = "grid"]}
                 /\ bulk' = [bulk EXCEPT ![w] = b] /\ queue' = queue
    BY <1>8 DEF BulkInvalidate, BulkGrid, Kill
  <2>2. b.rest = {} /\ b.todo = {} /\ b.held = {}
    BY <2>1 DEF Resting
  <2> QED BY <1>9, <2>1, <2>2
<1> QED BY <1>3, <1>4, <1>5, <1>6, <1>7, <1>8 DEF Bulk

\* Nothing is on its way to a row.
Free(e) ==
  /\ \A i \in PendingItems : i.e # e
  /\ \A s \in Requests : req[s].at \in WritingStages => req[s].e # e

\* Nothing is on its way to a row there never was.
LEMMA UnusedIsFree == ASSUME Typed, NEW e \in Entities \ used PROVE Free(e)
<1>1. \A i \in PendingItems : i.e # e
  BY ItemsAreOfUsed DEF BulkItem
<1>2. \A s \in Requests : req[s].at \in WritingStages => req[s].e # e
  BY DEF Typed, RequestsTyped, HandlerOK
<1> QED BY <1>1, <1>2 DEF Free

\* What a request may do and leave the rows aligned: where it moves a row nothing
\* is on its way to it, and the row's address is that of the place or is about to
\* be.
LEMMA AlignedStays ==
  ASSUME Typed, Aligned, NEW r \in Requests, NEW q, req' = [req EXCEPT ![r] = q],
         raced \subseteq raced',
         \A i \in PendingItems' : i \in PendingItems \/ (UNCHANGED pos /\ i.p = pos[i.e]),
         q.at \in WritingStages =>
           \/ req[r].at \in WritingStages /\ q.e = req[r].e /\ q.p = req[r].p
           \/ q.p = pos'[q.e],
         \A e \in Entities \ raced' : Exists(e)' =>
           /\ pos'[e] = pos[e] \/ Free(e)
           /\ \/ addr'[e].of = pos'[e]
              \/ q.e = e /\ q.at = "label"
              \/ /\ pos'[e] = pos[e] /\ addr'[e] = addr[e]
                 /\ ~ (req[r].e = e /\ req[r].at = "label")
  PROVE  Aligned'
<1>0. req \in [Requests -> Handlers]
  BY DEF Typed, RequestsTyped
<1> SUFFICES ASSUME NEW e \in Entities \ raced', Exists(e)'
             PROVE  /\ \A s \in Requests :
                         req'[s].e = e /\ req'[s].at \in WritingStages => req'[s].p = pos'[e]
                    /\ \A i \in PendingItems' : i.e = e => i.p = pos'[e]
                    /\ \/ addr'[e].of = pos'[e]
                       \/ \E s \in Requests : req'[s].e = e /\ req'[s].at = "label"
  BY DEF Aligned, HandlersAligned, ItemsAligned, AddressesAligned
<1>1. ASSUME NEW s \in Requests, req'[s].e = e, req'[s].at \in WritingStages
      PROVE  req'[s].p = pos'[e]
  BY <1>0, <1>1 DEF Aligned, HandlersAligned, Free
<1>2. ASSUME NEW i \in PendingItems', i.e = e PROVE i.p = pos'[e]
  BY <1>2 DEF Aligned, ItemsAligned, Free
<1>3. addr'[e].of = pos'[e] \/ \E s \in Requests : req'[s].e = e /\ req'[s].at = "label"
  <2>1. CASE q.e = e /\ q.at = "label"
    BY <1>0, <2>1
  <2>2. CASE /\ pos'[e] = pos[e] /\ addr'[e] = addr[e]
             /\ ~ (req[r].e = e /\ req[r].at = "label")
    BY <1>0, <2>2 DEF Aligned, AddressesAligned
  <2> QED BY <2>1, <2>2
<1> QED BY <1>1, <1>2, <1>3

\* No request leaves a row with the address of another place, unless it moves the
\* row while something is on its way there.
LEMMA RequestKeepsAligned ==
  ASSUME Typed, Aligned, NEW r \in Requests, Request(r) PROVE Aligned'
<1>0. RowsTyped /\ HandlerOK(req[r]) /\ req[r] \in Handlers
  BY DEF Typed, RequestsTyped, HandlerOK
<1>1. \A i \in PendingItems' : i \in PendingItems \/ (UNCHANGED pos /\ i.p = pos[i.e])
  BY RequestAddsItems
<1>2. raced \subseteq raced'
  BY DEF Request, CreateTask, CreateFieldman, AssignArea, Move, LabelMoved, Geocode,
         UpdateAddress, Delete, DeleteRow, SetPriority, Rescale, Reset, ClearCaches, Randomize,
         RandomFieldmen, RandomAreas, Invalidate, InvalidateGrid, CollectTasks, CollectFieldmen,
         Dispatch
<1> DEFINE Kept(e) == pos'[e] = pos[e] /\ addr'[e] = addr[e]
           New(e)  == e \notin used /\ addr'[e].of = pos'[e]
<1>3. ASSUME NEW q, req' = [req EXCEPT ![r] = q], q.at \notin WritingStages,
             req[r].at # "label", \A e \in Entities : Exists(e)' => Kept(e) \/ New(e)
      PROVE  Aligned'
  BY <1>1, <1>2, <1>3, UnusedIsFree, AlignedStays
<1>4. ASSUME NEW at \in Stages \ WritingStages, Goto(r, at), req[r].at # "label",
             \A e \in Entities : Exists(e)' => Kept(e)
      PROVE  Aligned'
  <2>1. Reached(r, at).at \notin WritingStages
    BY <1>0, <1>4 DEF Reached, Finished, Idle, Handlers, WritingStages
  <2>2. PICK q : q = Reached(r, at)
    OBVIOUS
  <2> HIDE DEF Kept
  <2> QED BY <1>3, <1>4, <2>1, <2>2 DEF Goto
<1>5. ASSUME NEW at \in Stages \ WritingStages, NEW e0, NEW p, Begin(r, at, e0, p),
             \A e \in Entities : Exists(e)' => Kept(e) \/ New(e)
      PROVE  Aligned'
  <2>1. PICK q : q = IF at = "done" THEN Finished
                     ELSE [Idle EXCEPT !.at = at, !.e = e0, !.p = p]
    OBVIOUS
  <2>2. q.at \notin WritingStages
    BY <1>5, <2>1 DEF Finished, Idle, WritingStages
  <2> HIDE DEF Kept, New
  <2> QED BY <1>3, <1>5, <2>1, <2>2 DEF Begin
<1>6. ASSUME NEW e0 \in Entities \ used, NEW p \in Positions, NEW at \in {"geocode", "area"},
             Begin(r, at, e0, p), Insert(e0, p)
      PROVE  Aligned'
  <2>1. PICK q : q = [Idle EXCEPT !.at = at, !.e = e0, !.p = p]
    OBVIOUS
  <2>2. q.e = e0 /\ q.p = p /\ q.at = at
    BY <2>1 DEF Idle
  <2>3. req' = [req EXCEPT ![r] = q] /\ req[r].at = "idle"
    BY <1>6, <2>1 DEF Begin
  <2>4. /\ pos'[e0] = p /\ addr'[e0] = Address("label", p)
        /\ \A e \in Entities \ {e0} : pos'[e] = pos[e] /\ addr'[e] = addr[e]
    BY <1>0, <1>6, InsertedRow
  <2>5. addr'[e0].of = p
    BY <2>4
  <2> HIDE DEF Address
  <2> QED BY <1>1, <1>2, <2>2, <2>3, <2>4, <2>5, UnusedIsFree, AlignedStays
<1>7. CASE CreateTask(r) \/ CreateFieldman(r)
  BY <1>6, <1>7 DEF CreateTask, CreateFieldman
<1>8. CASE AssignArea(r)
  <2>1. UNCHANGED <<pos, addr>> /\ req[r].at = "area"
    BY <1>8 DEF AssignArea, At
  <2>2. CASE Exists(req[r].e)
    <3>1. PICK q : q = [req[r] EXCEPT !.at = "geocode"]
      OBVIOUS
    <3>2. q.e = req[r].e /\ q.p = req[r].p /\ q.at = "geocode"
      BY <1>0, <3>1 DEF Handlers
    <3>3. req' = [req EXCEPT ![r] = q]
      BY <1>8, <2>2, <3>1 DEF AssignArea, Goto, Reached
    <3> QED BY <1>1, <1>2, <2>1, <3>2, <3>3, AlignedStays DEF WritingStages
  <2>3. CASE ~ Exists(req[r].e)
    BY <1>4, <1>8, <2>1, <2>3 DEF AssignArea, Stages, WritingStages
  <2> QED BY <2>2, <2>3
<1>9. CASE Move(r)
  <2>1. PICK e0 \in Fieldmen \cap used, p \in Positions :
          /\ Begin(r, IF Exists(e0) THEN "label" ELSE "done", e0, p)
          /\ pos' = IF Exists(e0) THEN [pos EXCEPT ![e0] = p] ELSE pos
          /\ raced' = IF Exists(e0) /\ Pending(e0, r) THEN raced \cup {e0} ELSE raced
          /\ UNCHANGED addr
    BY <1>9 DEF Move
  <2>2. CASE ~ Exists(e0)
    BY <1>5, <2>1, <2>2 DEF Stages, WritingStages
  <2>3. CASE Exists(e0)
    <3>1. PICK q : q = [Idle EXCEPT !.at = "label", !.e = e0, !.p = p]
      OBVIOUS
    <3>2. q.e = e0 /\ q.p = p /\ q.at = "label"
      BY <3>1 DEF Idle
    <3>3. req' = [req EXCEPT ![r] = q] /\ req[r].at = "idle"
      BY <2>1, <2>3, <3>1 DEF Begin
    <3>4. e0 \notin raced' => Free(e0)
      BY <2>1, <2>3, <3>3 DEF Pending, Free, WritingStages
    <3>5. /\ pos'[e0] = p
          /\ \A e \in Entities \ {e0} : Kept(e)
      BY <1>0, <2>1, <2>3 DEF RowsTyped
    <3> QED BY <1>1, <1>2, <3>2, <3>3, <3>4, <3>5, AlignedStays
  <2> QED BY <2>2, <2>3
<1>10. ASSUME NEW a, a.of = req[r].p, SetAddress(req[r].e, a), UNCHANGED pos,
              NEW at \in {"geocode", "invalidate"}, Goto(r, at), req[r].at \in WritingStages
       PROVE  Aligned'
  <2>1. PICK q : q = [req[r] EXCEPT !.at = at]
    OBVIOUS
  <2>2. q.e = req[r].e /\ q.p = req[r].p
    BY <1>0, <2>1 DEF Handlers
  <2>3. req' = [req EXCEPT ![r] = q]
    BY <1>10, <2>1 DEF Goto, Reached
  <2>4. /\ \A e \in Entities : e # req[r].e => addr'[e] = addr[e]
        /\ Exists(req[r].e) /\ req[r].e \in Entities => addr'[req[r].e].of = req[r].p
    BY <1>0, <1>10 DEF SetAddress, RowsTyped
  <2>5. \A e \in Entities \ raced : Exists(e) /\ req[r].e = e => req[r].p = pos[e]
    BY <1>10 DEF Aligned, HandlersAligned
  <2> QED BY <1>1, <1>2, <1>10, <2>2, <2>3, <2>4, <2>5, AlignedStays
<1>11. CASE LabelMoved(r)
  BY <1>10, <1>11 DEF LabelMoved, At, WritingStages
<1>12. CASE Geocode(r)
  <2>1. PICK a, at : /\ req' = [req EXCEPT ![r] = [req[r] EXCEPT !.a = a, !.at = at]]
                     /\ at \in {"invalidate", "update"}
    BY <1>12 DEF Geocode
  <2>2. PICK q : q = [req[r] EXCEPT !.a = a, !.at = at]
    OBVIOUS
  <2>3. q.e = req[r].e /\ q.p = req[r].p /\ q.at = at
    BY <1>0, <2>2 DEF Handlers
  <2>4. UNCHANGED <<pos, addr>> /\ req[r].at = "geocode"
    BY <1>12 DEF Geocode, At, rows
  <2> QED BY <1>1, <1>2, <2>1, <2>2, <2>3, <2>4, AlignedStays DEF WritingStages
<1>13. CASE UpdateAddress(r)
  BY <1>0, <1>10, <1>13 DEF UpdateAddress, At, HandlerOK, WritingStages
<1>14. CASE Delete(r)
  <2>1. PICK e0 \in used :
          /\ Begin(r, IF e0 \in Fieldmen THEN "row"
                      ELSE IF Exists(e0) THEN "invalidate" ELSE "done", e0, None)
          /\ IF e0 \in Tasks THEN Remove({e0}) ELSE UNCHANGED <<pos, addr, prio>>
    BY <1>14 DEF Delete
  <2>2. \A e \in Entities : Exists(e)' => Kept(e)
    BY <2>1 DEF Remove
  <2> QED BY <1>5, <2>1, <2>2 DEF Stages, WritingStages
<1>15. CASE DeleteRow(r)
  <2>1. \A e \in Entities : Exists(e)' => Kept(e)
    BY <1>15 DEF DeleteRow, Remove
  <2> QED BY <1>4, <1>15, <2>1 DEF DeleteRow, At, Stages, WritingStages
<1>16. CASE SetPriority(r) \/ Rescale(r) \/ Reset(r)
  <2>1. PICK at \in Stages \ WritingStages, e0 \in Tasks \cup {None} : Begin(r, at, e0, None)
    BY <1>16 DEF SetPriority, Rescale, Reset, Stages, WritingStages
  <2>2. \A e \in Entities : Exists(e)' => Kept(e)
    BY <1>16 DEF SetPriority, Rescale, Reset, Remove
  <2> QED BY <1>5, <2>1, <2>2
<1>17. ASSUME NEW es \in SUBSET Entities, NEW where \in [es \ used -> Positions], InsertAll(where)
       PROVE  \A e \in Entities : Kept(e) \/ New(e)
  <2>1. PICK new \in SUBSET (Entities \ used) : new = es \ used
    OBVIOUS
  <2> HIDE DEF Address
  <2>2. /\ \A e \in new : pos'[e] = where[e] /\ addr'[e] = Address("label", where[e])
        /\ \A e \in Entities \ new : pos'[e] = pos[e] /\ addr'[e] = addr[e]
    BY <1>0, <1>17, <2>1, InsertedRows
  <2>3. ASSUME NEW e \in new PROVE New(e)
    <3>1. where[e] \in Positions /\ "label" \in Kinds
      BY <2>1, <2>3 DEF Kinds
    <3>2. Address("label", where[e]).of = where[e]
      BY <3>1, AddressIsTyped
    <3> QED BY <2>2, <2>3, <3>2
  <2> QED BY <2>2, <2>3
<1>18. CASE Randomize(r)
  <2>1. PICK where \in [Tasks \ used -> Positions] :
          Begin(r, "fieldmen", None, None) /\ InsertAll(where)
    BY <1>18 DEF Randomize
  <2>2. \A e \in Entities : Kept(e) \/ New(e)
    BY <1>17, <2>1
  <2> HIDE DEF Kept, New
  <2> QED BY <1>5, <2>1, <2>2 DEF Stages, WritingStages
<1>19. CASE RandomFieldmen(r)
  <2>1. PICK where \in [Fieldmen \ used -> Positions] :
          /\ InsertAll(where)
          /\ req' = [req EXCEPT ![r] = [req[r] EXCEPT !.at = "areas",
                       !.items = {[e |-> f, p |-> where[f]] : f \in DOMAIN where}]]
    BY <1>19 DEF RandomFieldmen
  <2>2. \A e \in Entities : Kept(e) \/ New(e)
    BY <1>17, <2>1
  <2>3. PICK q : q = [req[r] EXCEPT !.at = "areas",
                        !.items = {[e |-> f, p |-> where[f]] : f \in DOMAIN where}]
    OBVIOUS
  <2>4. q.at = "areas" /\ req[r].at = "fieldmen"
    BY <1>0, <1>19, <2>3 DEF Handlers, RandomFieldmen, At
  <2>5. req' = [req EXCEPT ![r] = q]
    BY <2>1, <2>3
  <2> HIDE DEF Kept, New
  <2> QED BY <1>3, <2>2, <2>4, <2>5 DEF WritingStages
<1>20. CASE ClearCaches(r) \/ RandomAreas(r) \/ Invalidate(r) \/ InvalidateGrid(r)
  <2>1. PICK at \in Stages \ WritingStages : Goto(r, at) /\ req[r].at # "label"
    BY <1>20 DEF ClearCaches, RandomAreas, Invalidate, InvalidateGrid, At, Stages, WritingStages
  <2>2. \A e \in Entities : Kept(e)
    BY <1>20 DEF ClearCaches, RandomAreas, Invalidate, InvalidateGrid, rows
  <2> QED BY <1>4, <2>1, <2>2
<1>21. CASE CollectTasks(r)
  <2>1. PICK q : q = [Idle EXCEPT !.at = "collect", !.items = Items({t \in Tasks : Exists(t)})]
    OBVIOUS
  <2>2. req' = [req EXCEPT ![r] = q] /\ q.at = "collect" /\ req[r].at = "idle"
    BY <1>21, <2>1 DEF CollectTasks, At, Idle
  <2>3. \A e \in Entities : Kept(e)
    BY <1>21 DEF CollectTasks, rows
  <2> QED BY <1>3, <2>2, <2>3 DEF WritingStages
<1>22. CASE CollectFieldmen(r)
  <2>1. PICK items : req' = [req EXCEPT ![r] = [req[r] EXCEPT !.at = "send", !.items = items]]
    BY <1>22 DEF CollectFieldmen
  <2>2. PICK q : q = [req[r] EXCEPT !.at = "send", !.items = items]
    OBVIOUS
  <2>3. q.at = "send" /\ req[r].at = "collect"
    BY <1>0, <1>22, <2>2 DEF Handlers, CollectFieldmen, At
  <2>4. \A e \in Entities : Kept(e)
    BY <1>22 DEF CollectFieldmen, rows
  <2>5. req' = [req EXCEPT ![r] = q]
    BY <2>1, <2>2
  <2> QED BY <1>3, <2>3, <2>4, <2>5 DEF WritingStages
<1>23. CASE Dispatch(r)
  <2>1. Goto(r, "done") /\ req[r].at = "send"
    BY <1>23 DEF Dispatch, At
  <2>2. \A e \in Entities : Kept(e)
    BY <1>23 DEF Dispatch, rows
  <2> QED BY <1>4, <2>1, <2>2 DEF Stages, WritingStages
<1> QED BY <1>7, <1>8, <1>9, <1>11, <1>12, <1>13, <1>14, <1>15, <1>16, <1>18, <1>19, <1>20,
           <1>21, <1>22, <1>23 DEF Request

\* Nor does a bulk task: it writes what an item was resolved from.
LEMMA BulkKeepsAligned ==
  ASSUME Typed, Aligned, NEW w \in Processes, Bulk(w) PROVE Aligned'
<1>1. PendingItems' \subseteq PendingItems
  BY BulkAddsNoItem
<1>2. UNCHANGED <<pos, req, raced>>
  BY DEF Bulk, Take, NextBatch, Process, WriteAddress, BatchDone, BulkInvalidate, BulkGrid,
         Kill, rows
<1>3. HandlersAligned' /\ ItemsAligned'
  BY <1>1, <1>2 DEF Aligned, HandlersAligned, ItemsAligned
<1>4. CASE WriteAddress(w)
  <2>1. PICK h \in bulk[w].held : SetAddress(h.item.e, h.a)
    BY <1>4 DEF WriteAddress
  <2>2. h.a.of = h.item.p /\ h.item \in PendingItems
    BY WhereItemsAre DEF Typed, BulkTyped, TaskOK, Held
  <2> QED BY <1>2, <1>3, <2>1, <2>2
          DEF Aligned, ItemsAligned, AddressesAligned, SetAddress, Typed, RowsTyped
<1>5. CASE UNCHANGED addr
  BY <1>2, <1>3, <1>5 DEF Aligned, AddressesAligned
<1> QED BY <1>4, <1>5 DEF Bulk, Take, NextBatch, Process, BatchDone, BulkInvalidate, BulkGrid,
                          Kill, rows

\* Aligned is inductive, given Typed.
LEMMA NextKeepsAligned == Typed /\ Aligned /\ [Next]_vars => Aligned'
<1> SUFFICES ASSUME Typed, Aligned, [Next]_vars PROVE Aligned'
  OBVIOUS
<1>1. ASSUME UNCHANGED <<rows, req, queue, bulk, raced>> PROVE Aligned'
  BY <1>1 DEF rows, Aligned, HandlersAligned, ItemsAligned, AddressesAligned, PendingItems
<1>2. CASE \E v \in Viewers : ReadRows(v) \/ FillView(v)
  BY <1>1, <1>2 DEF ReadRows, FillView
<1>3. CASE \E k \in ViewNames : ExpireView(k)
  BY <1>1, <1>3 DEF ExpireView
<1>4. CASE UNCHANGED vars
  BY <1>1, <1>4 DEF vars
<1> QED BY <1>2, <1>3, <1>4, RequestKeepsAligned, BulkKeepsAligned DEF Next

\* Once nothing is pending on a row, its address was resolved from where the row
\* is: creates, moves, deletes, geocodes and bulk tasks in any order, with as many
\* messages queued, can only spoil that by moving a row under a pending geocode.
\* (services/data_service.py 815-1039, workers/background_tasks.py 118-224)
THEOREM AddressesFollow == Spec => []AddressFollowsPosition
<1>1. Init => Aligned
  <2> SUFFICES ASSUME Init PROVE Aligned
    OBVIOUS
  <2>1. \A s \in Requests : req[s].at = "idle"
    BY DEF Init, Idle
  <2>2. \A i : i \notin PendingItems
    BY <2>1, WhereItemsAre DEF Init, Held, Resting
  <2>3. \A e \in Entities : Exists(e) => addr[e].of = pos[e]
    BY DEF Init
  <2> QED BY <2>1, <2>2, <2>3
          DEF Aligned, HandlersAligned, ItemsAligned, AddressesAligned, WritingStages
<1> QED BY <1>1, InitTyped, NextKeepsTyped, NextKeepsAligned, AlignedIsFollowed, PTL DEF Spec

-----------------------------------------------------------------------------
(* Cached views *)

\* An entry of view k whose history is off shows what the rows say, but for a part
\* that its history excuses.
Passes(k, by, val, off) ==
  \/ "raced" \in off
  \/ val = EntryOf(k, by)
  \/ Lags(k, [by |-> by, val |-> val, off |-> off], EntryOf(k, by))

Fresh(k) == views[k] # None => Passes(k, views[k].by, views[k].val, views[k].off)

\* It would be fresh if the bulk task that is writing addresses were killed.
AlmostFresh ==
  views["overview"] # None =>
    Passes("overview", views["overview"].by, views["overview"].val,
           views["overview"].off \cup {"killed"})

\* A handler that will still invalidate both views.  One about to give areas does
\* so only while the foreign key lets it; what took the fieldman away does then.
Promises(r) ==
  \/ req[r].at \in {"label", "geocode", "update", "fieldmen", "invalidate"}
  \/ req[r].at = "area" /\ Exists(req[r].e)
  \/ req[r].at = "areas" /\ \A i \in req[r].items : Exists(i.e)

\* A handler that will set view k right: a reset leaves the grid to lag, and does
\* so for an entity that is gone.
Covers(k, r) ==
  \/ Promises(r)
  \/ req[r].at = "clear" /\ (k = "grid" => ~ Exists(seen))
  \/ k = "grid" /\ req[r].at = "grid"

Writing(w) == bulk[w].at \in {"between", "batch"}

\* A view that is stale is about to be set right.
OverviewCovered == \/ Fresh("overview")
                   \/ AlmostFresh /\ \E w \in Processes : Writing(w)
                   \/ \E r \in Requests : Covers("overview", r)
GridCovered == Fresh("grid") \/ \E r \in Requests : Covers("grid", r)
ViewsFormed ==
  /\ views = [k \in ViewNames |-> views[k]]
  /\ \A k \in ViewNames : views[k] # None =>
       views[k] = [by |-> views[k].by, val |-> views[k].val, off |-> views[k].off]
Covered == ViewsFormed /\ OverviewCovered /\ GridCovered

\* With no handler running nobody is left to promise: a covered view is fresh.
LEMMA CoveredIsFresh == Covered => StaleOnlyWhenRaced
<1> SUFFICES ASSUME Covered, Quiet PROVE \A k \in ViewNames : Fresh(k)
  BY DEF StaleOnlyWhenRaced, Fresh, Passes, Lags
<1>1. \A k : \A r \in Requests : ~ Covers(k, r)
  BY DEF Quiet, Covers, Promises
<1>2. \A w \in Processes : ~ Writing(w)
  BY DEF Quiet, Writing
<1> QED BY <1>1, <1>2 DEF Covered, OverviewCovered, GridCovered, ViewNames

\* What is shown of an entity that is there is something.
LEMMA ShownIsSomething ==
  ASSUME NEW p \in Positions, NEW a \in Addresses, NEW n \in Priorities \cup {None}
  PROVE  [pos |-> p, addr |-> a, prio |-> n] # None
<1>1. [pos |-> p, addr |-> a, prio |-> n] \in Shown
  BY DEF Shown
<1> QED BY <1>1

\* While rows stay where they are an entry goes on passing, if its history names
\* the parts that change.
LEMMA PassesOn ==
  ASSUME Typed, PrioTyped, Typed', PrioTyped', UNCHANGED <<pos, seen>>, NEW k \in ViewNames,
         NEW by, NEW val, NEW off, NEW more, off \subseteq more, Passes(k, by, val, off),
         k = "overview" => /\ UNCHANGED addr \/ "killed" \in more
                           /\ UNCHANGED prio \/ "rescaled" \in more
  PROVE  Passes(k, by, val, more)'
<1>1. CASE "raced" \in off
  BY <1>1 DEF Passes
<1>2. CASE k = "grid" /\ "raced" \notin off
  <2>1. Grid' = Grid
    BY DEF Grid, OnLand
  <2> QED BY <1>2, <2>1 DEF Passes, EntryOf, Lags
<1>3. CASE k = "overview" /\ "raced" \notin off
  <2> DEFINE there == IF by = "v1" THEN OnLand(seen) ELSE Exists(seen)
             now == [pos |-> pos[seen], addr |-> addr[seen], prio |-> prio]
  <2>1. there' = there /\ (there => Exists(seen))
    BY DEF OnLand
  <2>2. /\ EntryOf(k, by) = IF there THEN now ELSE None
        /\ EntryOf(k, by)' = IF there THEN now' ELSE None
    BY <1>3, <2>1 DEF EntryOf, Overview
  <2>3. there => now # None /\ now' # None
    <3>1. there => /\ pos[seen] \in Positions /\ addr[seen] \in Addresses
                   /\ prio \in Priorities \cup {None}
      BY <2>1 DEF Typed, RowsTyped, PrioTyped
    <3>2. there' => /\ pos'[seen'] \in Positions /\ addr'[seen'] \in Addresses
                    /\ prio' \in Priorities \cup {None}
      BY <2>1 DEF Typed, RowsTyped, PrioTyped
    <3> HIDE DEF there
    <3> QED BY <2>1, <3>1, <3>2, ShownIsSomething
  <2>4. /\ now'.pos = now.pos
        /\ now'.addr = now.addr \/ "killed" \in more
        /\ now'.prio = now.prio \/ "rescaled" \in more
    BY <1>3
  <2> HIDE DEF there, now
  <2>5. val = EntryOf(k, by) \/ Lags(k, [by |-> by, val |-> val, off |-> off], EntryOf(k, by))
    BY <1>3 DEF Passes
  <2>6. CASE ~ there
    BY <1>3, <2>2, <2>5, <2>6 DEF Passes, Lags
  <2>7. CASE there
    <3>1. /\ val # None /\ val.pos = now.pos
          /\ val.addr = now.addr \/ "killed" \in off
          /\ val.prio = now.prio \/ "rescaled" \in off
      BY <1>3, <2>2, <2>3, <2>5, <2>7 DEF Lags
    <3>2. /\ val # None /\ val.pos = now'.pos
          /\ val.addr = now'.addr \/ "killed" \in more
          /\ val.prio = now'.prio \/ "rescaled" \in more
      BY <2>4, <3>1
    <3>3. Lags(k, [by |-> by, val |-> val, off |-> more], EntryOf(k, by)')
      BY <1>3, <2>2, <2>3, <2>7, <3>2 DEF Lags
    <3>4. Lags(k, [by |-> by, val |-> val, off |-> more], EntryOf(k, by))'
      BY <3>3 DEF Lags
    <3> QED BY <3>4 DEF Passes
  <2> QED BY <2>6, <2>7
<1> QED BY <1>1, <1>2, <1>3 DEF ViewNames

\* A mark adds a reason to the history of an entry, and nothing else.
LEMMA MarkAddsReason ==
  ASSUME ViewsFormed, NEW k \in ViewNames, NEW reason, Mark(k, reason)
  PROVE  /\ ViewsFormed'
         /\ \A j \in ViewNames \ {k} : views'[j] = views[j]
         /\ views[k] = None => views'[k] = None
         /\ views[k] # None => /\ views'[k].by = views[k].by /\ views'[k].val = views[k].val
                               /\ views'[k].off = views[k].off \cup {reason}
<1>1. CASE views[k] = None
  BY <1>1 DEF Mark, ViewsFormed
<1>2. CASE views[k] # None
  <2>1. PICK by, val, off : views[k] = [by |-> by, val |-> val, off |-> off]
    BY <1>2 DEF ViewsFormed
  <2>2. PICK entry : entry = [by |-> by, val |-> val, off |-> off \cup {reason}]
    OBVIOUS
  <2>3. [views[k] EXCEPT !.off = views[k].off \cup {reason}] = entry
    BY <2>1, <2>2
  <2>4. views' = [views EXCEPT ![k] = entry]
    BY <1>2, <2>3 DEF Mark
  <2>5. /\ views' = [j \in ViewNames |-> views'[j]]
        /\ views'[k] = entry /\ \A j \in ViewNames \ {k} : views'[j] = views[j]
    BY <2>4 DEF ViewsFormed
  <2>6. /\ entry.by = views[k].by /\ entry.val = views[k].val
        /\ entry.off = views[k].off \cup {reason}
        /\ entry = [by |-> entry.by, val |-> entry.val, off |-> entry.off]
    BY <2>1, <2>2
  <2>7. ViewsFormed'
    BY <2>5, <2>6 DEF ViewsFormed
  <2> QED BY <1>2, <2>5, <2>6, <2>7
<1> QED BY <1>1, <1>2

\* A handler that takes rows away or changes them will invalidate the views; a
\* reset, that takes away all, the overview alone.
LEMMA ChangesArePromised ==
  ASSUME Typed, PrioTyped, NEW r \in Requests, Request(r), ~ Invalidate(r), ~ InvalidateGrid(r),
         ~ ClearCaches(r), ~ Rescale(r)
  PROVE  /\ UNCHANGED <<views, bulk, seen>>
         /\ \E q : req' = [req EXCEPT ![r] = q]
         /\ \/ Promises(r)'
            \/ req'[r].at = "clear" /\ ~ Exists(seen)'
            \/ /\ UNCHANGED <<pos, addr, prio>>
               /\ ~ Promises(r) /\ req[r].at \notin {"grid", "clear"}
<1>0. RowsTyped /\ HandlerOK(req[r]) /\ req \in [Requests -> Handlers]
  BY DEF Typed, RequestsTyped
<1>1. UNCHANGED <<views, bulk, seen>>
  BY DEF Request, CreateTask, CreateFieldman, AssignArea, Move, LabelMoved, Geocode,
         UpdateAddress, Delete, DeleteRow, SetPriority, Reset, Randomize, RandomFieldmen,
         RandomAreas, CollectTasks, CollectFieldmen, Dispatch, caches
<1>2. \E q : req' = [req EXCEPT ![r] = q]
  <2>1. CASE CollectTasks(r) \/ CollectFieldmen(r) \/ Dispatch(r)
    BY <2>1 DEF CollectTasks, CollectFieldmen, Dispatch, Goto
  <2>2. CASE ~ CollectTasks(r) /\ ~ CollectFieldmen(r) /\ ~ Dispatch(r)
    BY <2>2, RequestSteps
  <2> QED BY <2>1, <2>2
<1> DEFINE Still == /\ UNCHANGED <<pos, addr, prio>>
                    /\ ~ Promises(r) /\ req[r].at \notin {"grid", "clear"}
<1> SUFFICES Promises(r)' \/ (req'[r].at = "clear" /\ ~ Exists(seen)') \/ Still
  BY <1>1, <1>2
<1>3. ASSUME NEW at \in Stages, Goto(r, at), at # "done"
      PROVE  req'[r].at = at /\ req'[r].e = req[r].e
  BY <1>0, <1>3 DEF Goto, Reached, Handlers
<1>4. ASSUME NEW at \in Stages, NEW e, NEW p, Begin(r, at, e, p)
      PROVE  /\ ~ Promises(r) /\ req[r].at \notin {"grid", "clear"}
             /\ at # "done" => req'[r].at = at /\ req'[r].e = e
  BY <1>0, <1>4 DEF Begin, Promises, Idle
<1>5. CASE CreateTask(r) \/ CreateFieldman(r)
  <2>1. PICK at \in {"geocode", "area"}, e \in Entities \ used, p \in Positions :
          Begin(r, at, e, p) /\ Insert(e, p)
    BY <1>5 DEF CreateTask, CreateFieldman
  <2>2. Exists(e)'
    BY <1>0, <2>1, InsertedRow
  <2>3. req'[r].at = at /\ req'[r].e = e
    BY <1>4, <2>1 DEF Stages
  <2> QED BY <2>2, <2>3 DEF Promises
<1>6. CASE AssignArea(r)
  <2>1. UNCHANGED <<pos, addr, prio>> /\ req[r].at = "area"
    BY <1>6 DEF AssignArea, At
  <2> QED BY <1>3, <1>6, <2>1 DEF AssignArea, Promises, Stages
<1>7. CASE Move(r)
  BY <1>4, <1>7 DEF Move, Promises, Stages
<1>8. CASE LabelMoved(r) \/ UpdateAddress(r)
  BY <1>3, <1>8 DEF LabelMoved, UpdateAddress, Promises, Stages
<1>9. CASE Geocode(r)
  <2>1. req'[r].at \in {"invalidate", "update"}
    BY <1>0, <1>9 DEF Geocode, Handlers
  <2> QED BY <2>1 DEF Promises
<1>10. CASE Delete(r)
  <2>1. PICK e \in used :
          /\ Begin(r, IF e \in Fieldmen THEN "row"
                      ELSE IF Exists(e) THEN "invalidate" ELSE "done", e, None)
          /\ IF e \in Tasks THEN Remove({e}) ELSE UNCHANGED <<pos, addr, prio>>
    BY <1>10 DEF Delete
  <2>2. CASE e \in Tasks /\ Exists(e)
    BY <1>4, <2>1, <2>2 DEF Promises, Stages
  <2>3. CASE e \in Tasks /\ ~ Exists(e)
    <3>1. UNCHANGED <<pos, addr>>
      BY <1>0, <2>1, <2>3 DEF Remove, RowsTyped
    <3>2. UNCHANGED prio
      BY <2>1, <2>3 DEF Remove, PrioTyped
    <3> QED BY <1>4, <2>1, <2>3, <3>1, <3>2 DEF Stages
  <2>4. CASE e \notin Tasks
    BY <1>4, <2>1, <2>4 DEF Stages
  <2> QED BY <2>2, <2>3, <2>4
<1>11. CASE DeleteRow(r)
  <2>1. CASE Exists(req[r].e)
    BY <1>3, <1>11, <2>1 DEF DeleteRow, Promises, Stages
  <2>2. CASE ~ Exists(req[r].e)
    <3>1. UNCHANGED <<pos, addr>>
      BY <1>0, <1>11, <2>2 DEF DeleteRow, Remove, RowsTyped
    <3>2. UNCHANGED prio
      BY <1>11, <2>2 DEF DeleteRow, Remove, PrioTyped
    <3> QED BY <1>11, <3>1, <3>2 DEF DeleteRow, At, Promises
  <2> QED BY <2>1, <2>2
<1>12. CASE SetPriority(r)
  <2>1. PICK e : /\ Begin(r, IF Exists(e) THEN "invalidate" ELSE "done", e, None)
                 /\ UNCHANGED <<pos, addr>> /\ (~ Exists(e) => UNCHANGED prio)
    BY <1>12 DEF SetPriority
  <2> QED BY <1>4, <2>1 DEF Promises, Stages
<1>13. CASE Reset(r)
  <2>1. ~ Exists(seen)'
    BY <1>1, <1>13 DEF Reset, Remove, PrioTyped
  <2> QED BY <1>4, <1>13, <2>1 DEF Reset, Stages
<1>14. CASE Randomize(r)
  BY <1>4, <1>14 DEF Randomize, Promises, Stages
<1>15. CASE RandomFieldmen(r)
  <2>1. PICK where \in [Fieldmen \ used -> Positions] :
          /\ InsertAll(where)
          /\ req' = [req EXCEPT ![r] = [req[r] EXCEPT !.at = "areas",
                       !.items = {[e |-> f, p |-> where[f]] : f \in DOMAIN where}]]
    BY <1>15 DEF RandomFieldmen
  <2>2. \A f \in Fieldmen \ used : Exists(f)'
    BY <1>0, <2>1, InsertedRows, Fieldmen \ used \in SUBSET (Entities \ used)
  <2> DEFINE new == {[e |-> f, p |-> where[f]] : f \in DOMAIN where}
  <2>3. \A i \in new : i.e \in Fieldmen \ used
    BY <2>1
  <2>4. req' = [req EXCEPT ![r] = [req[r] EXCEPT !.at = "areas", !.items = new]]
    BY <2>1
  <2> HIDE DEF new
  <2>5. req'[r].at = "areas" /\ req'[r].items = new
    BY <1>0, <2>4 DEF Handlers
  <2> QED BY <2>2, <2>3, <2>5 DEF Promises
<1>16. CASE RandomAreas(r)
  <2>1. UNCHANGED <<pos, addr, prio>> /\ req[r].at = "areas"
    BY <1>16 DEF RandomAreas, At
  <2> DEFINE new == {i.e : i \in req[r].items}
  <2>2. (\A f \in new : Exists(f)) <=> \A i \in req[r].items : Exists(i.e)
    OBVIOUS
  <2>3. Goto(r, IF \A f \in new : Exists(f) THEN "invalidate" ELSE "done")
    BY <1>16 DEF RandomAreas
  <2> HIDE DEF new
  <2> QED BY <1>3, <2>1, <2>2, <2>3 DEF Promises, Stages
<1>17. CASE CollectTasks(r) \/ CollectFieldmen(r) \/ Dispatch(r)
  BY <1>17 DEF CollectTasks, CollectFieldmen, Dispatch, At, Promises, rows
<1> QED BY <1>5, <1>6, <1>7, <1>8, <1>9, <1>10, <1>11, <1>12, <1>13, <1>14, <1>15, <1>16,
           <1>17 DEF Request

\* A fresh view stays fresh while the rows and the view stay, and so does what
\* covers it.
LEMMA FreshStays ==
  ASSUME Typed, PrioTyped, Typed', PrioTyped', UNCHANGED <<pos, seen>>, NEW k \in ViewNames,
         views'[k] = views[k], k = "overview" => UNCHANGED <<addr, prio>>
  PROVE  /\ Fresh(k) => Fresh(k)'
         /\ k = "overview" /\ AlmostFresh => AlmostFresh'
BY PassesOn DEF Fresh, AlmostFresh

\* A request that is not at work on a view leaves it covered.
LEMMA OthersCover ==
  ASSUME RequestsTyped, NEW r \in Requests, NEW q, req' = [req EXCEPT ![r] = q],
         UNCHANGED <<pos, seen>>, NEW k, NEW s \in Requests \ {r}, Covers(k, s)
  PROVE  Covers(k, s)'
<1>1. req'[s] = req[s]
  BY DEF RequestsTyped
<1> QED BY <1>1 DEF Covers, Promises

\* Requests keep the views covered.
LEMMA RequestKeepsCovered ==
  ASSUME Typed, PrioTyped, Typed', PrioTyped', Covered, NEW r \in Requests, Request(r)
  PROVE  Covered'
<1>0. RequestsTyped /\ req \in [Requests -> Handlers] /\ ViewsFormed
  BY DEF Typed, RequestsTyped, Covered
<1>1. CASE ~ Invalidate(r) /\ ~ InvalidateGrid(r) /\ ~ ClearCaches(r) /\ ~ Rescale(r)
  <2>1. UNCHANGED <<views, bulk, seen>>
    BY <1>1, ChangesArePromised
  <2>2. PICK q : req' = [req EXCEPT ![r] = q]
    BY <1>1, ChangesArePromised
  <2>3. ViewsFormed'
    BY <1>0, <2>1 DEF ViewsFormed
  <2>4. CASE Promises(r)' \/ (req'[r].at = "clear" /\ ~ Exists(seen)')
    BY <2>3, <2>4 DEF Covered, OverviewCovered, GridCovered, Covers
  <2>5. CASE UNCHANGED <<pos, addr, prio>> /\ ~ Promises(r) /\ req[r].at \notin {"grid", "clear"}
    <3>1. /\ \A k \in ViewNames : Fresh(k) => Fresh(k)'
          /\ AlmostFresh => AlmostFresh'
      BY <2>1, <2>5, FreshStays DEF ViewNames
    <3>2. ASSUME NEW k, NEW s \in Requests, Covers(k, s) PROVE Covers(k, s)'
      <4>1. s # r
        BY <2>5, <3>2 DEF Covers
      <4> QED BY <1>0, <2>1, <2>2, <2>5, <3>2, <4>1, OthersCover
    <3> QED BY <2>1, <2>3, <3>1, <3>2 DEF Covered, OverviewCovered, GridCovered, Writing, ViewNames
  <2> QED BY <1>1, <2>4, <2>5, ChangesArePromised
<1>2. ASSUME NEW at \in {"grid", "done"}, Goto(r, at)
      PROVE  req'[r].at = at /\ \E q : req' = [req EXCEPT ![r] = q]
  BY <1>0, <1>2 DEF Goto, Reached, Finished, Idle, Handlers
<1>3. CASE Invalidate(r)
  <2>1. /\ views' = [views EXCEPT !["overview"] = None]
        /\ req'[r].at = "grid"
    BY <1>2, <1>3 DEF Invalidate
  <2>2. ViewsFormed' /\ views'["overview"] = None
    BY <1>0, <2>1 DEF ViewsFormed, ViewNames
  <2> QED BY <2>1, <2>2 DEF Covered, OverviewCovered, GridCovered, Fresh, Covers
<1>4. CASE InvalidateGrid(r)
  <2>1. /\ views' = [views EXCEPT !["grid"] = None]
        /\ UNCHANGED <<pos, addr, prio, seen, bulk>> /\ req[r].at = "grid"
    BY <1>4 DEF InvalidateGrid, At, rows
  <2>2. ViewsFormed' /\ views'["grid"] = None /\ views'["overview"] = views["overview"]
    BY <1>0, <2>1 DEF ViewsFormed, ViewNames
  <2>3. /\ Fresh("overview") => Fresh("overview")'
        /\ AlmostFresh => AlmostFresh'
    BY <2>1, <2>2, FreshStays DEF ViewNames
  <2>4. PICK q : req' = [req EXCEPT ![r] = q]
    BY <1>2, <1>4 DEF InvalidateGrid
  <2>5. ASSUME NEW s \in Requests, Covers("overview", s) PROVE Covers("overview", s)'
    <3>1. s # r
      BY <2>1, <2>5 DEF Covers, Promises
    <3> QED BY <1>0, <2>1, <2>4, <2>5, <3>1, OthersCover
  <2> QED BY <2>1, <2>2, <2>3, <2>5
          DEF Covered, OverviewCovered, GridCovered, Fresh, Writing
<1>5. CASE ClearCaches(r)
  <2>1. /\ views' = [k \in ViewNames |->
                      IF k = "overview" \/ views[k] = None THEN None
                      ELSE [views[k] EXCEPT !.off = views[k].off \cup {"reset"}]]
        /\ UNCHANGED <<pos, addr, prio, seen, bulk>> /\ req[r].at = "clear"
    BY <1>5 DEF ClearCaches, At, rows
  <2>2. views'["overview"] = None
    BY <2>1 DEF ViewNames
  <2>3. PICK q : req' = [req EXCEPT ![r] = q]
    BY <1>2, <1>5 DEF ClearCaches
  <2>4. CASE views["grid"] = None
    <3>1. views'["grid"] = None
      BY <2>1, <2>4 DEF ViewNames
    <3> QED BY <2>1, <2>2, <3>1
            DEF Covered, OverviewCovered, GridCovered, Fresh, ViewsFormed, ViewNames
  <2>5. CASE views["grid"] # None
    <3>1. PICK by, val, off : views["grid"] = [by |-> by, val |-> val, off |-> off]
      BY <1>0, <2>5 DEF ViewsFormed, ViewNames
    <3>2. views'["grid"] = [by |-> by, val |-> val, off |-> off \cup {"reset"}]
      BY <2>1, <2>5, <3>1 DEF ViewNames
    <3>3. ViewsFormed'
      <4>1. views'["grid"] = [by |-> views'["grid"].by, val |-> views'["grid"].val,
                              off |-> views'["grid"].off]
        BY <3>2
      <4> QED BY <2>1, <2>2, <4>1 DEF ViewsFormed, ViewNames
    <3>4. CASE Fresh("grid")
      <4>1. Passes("grid", by, val, off)
        BY <2>5, <3>1, <3>4 DEF Fresh
      <4>2. Passes("grid", by, val, off \cup {"reset"})'
        BY <2>1, <4>1, PassesOn DEF ViewNames
      <4>3. Fresh("grid")'
        BY <3>2, <4>2 DEF Fresh
      <4> QED BY <2>2, <3>3, <4>3 DEF Covered, OverviewCovered, GridCovered, Fresh
    <3>5. ASSUME NEW s \in Requests \ {r}, Covers("grid", s) PROVE Covered'
      <4>1. Covers("grid", s)'
        BY <1>0, <2>1, <2>3, <3>5, OthersCover
      <4> QED BY <2>2, <3>3, <4>1 DEF Covered, OverviewCovered, GridCovered, Fresh
    <3>6. CASE Covers("grid", r)
      <4>1. ~ Exists(seen)
        BY <2>1, <3>6 DEF Covers, Promises
      <4>2. EntryOf("grid", by)' = None
        BY <2>1, <4>1 DEF EntryOf, Grid, OnLand
      <4>3. Passes("grid", by, val, off \cup {"reset"})'
        BY <4>2 DEF Passes, Lags
      <4>4. Fresh("grid")'
        BY <3>2, <4>3 DEF Fresh
      <4> QED BY <2>2, <3>3, <4>4 DEF Covered, OverviewCovered, GridCovered, Fresh
    <3> QED BY <3>4, <3>5, <3>6 DEF Covered, GridCovered
  <2> QED BY <2>4, <2>5
<1>6. CASE Rescale(r)
  <2>1. /\ UNCHANGED <<pos, addr, seen, bulk>> /\ req[r].at = "idle"
        /\ Mark("overview", "rescaled")
    BY <1>6 DEF Rescale, Begin
  <2>2. PICK q : req' = [req EXCEPT ![r] = q]
    BY <1>6 DEF Rescale, Begin
  <2>3. ASSUME NEW k, NEW s \in Requests, Covers(k, s) PROVE Covers(k, s)'
    <3>1. s # r
      BY <2>1, <2>3 DEF Covers, Promises
    <3> QED BY <1>0, <2>1, <2>2, <2>3, <3>1, OthersCover
  <2>4. /\ ViewsFormed' /\ views'["grid"] = views["grid"]
        /\ views["overview"] = None => views'["overview"] = None
        /\ views["overview"] # None =>
             /\ views'["overview"].by = views["overview"].by
             /\ views'["overview"].val = views["overview"].val
             /\ views'["overview"].off = views["overview"].off \cup {"rescaled"}
    BY <1>0, <2>1, MarkAddsReason DEF ViewNames
  <2>5. Fresh("grid") => Fresh("grid")'
    BY <2>1, <2>4, FreshStays DEF ViewNames
  <2>6. ASSUME NEW by, NEW val, NEW off, Passes("overview", by, val, off)
        PROVE  Passes("overview", by, val, off \cup {"rescaled"})'
    BY <2>1, <2>6, PassesOn DEF ViewNames
  <2>7. Fresh("overview") => Fresh("overview")'
    BY <2>4, <2>6 DEF Fresh
  <2>8. AlmostFresh => AlmostFresh'
    <3> SUFFICES ASSUME AlmostFresh, views["overview"] # None PROVE AlmostFresh'
      BY <2>4 DEF AlmostFresh
    <3>1. PICK by, val, off : /\ by = views["overview"].by /\ val = views["overview"].val
                              /\ off = views["overview"].off
      OBVIOUS
    <3>2. Passes("overview", by, val, off \cup {"killed"})
      BY <3>1 DEF AlmostFresh
    <3>3. (off \cup {"killed"}) \cup {"rescaled"} = (off \cup {"rescaled"}) \cup {"killed"}
      OBVIOUS
    <3>4. Passes("overview", by, val, (off \cup {"rescaled"}) \cup {"killed"})'
      BY <2>6, <3>2, <3>3
    <3> QED BY <2>4, <3>1, <3>4 DEF AlmostFresh
  <2> QED BY <2>1, <2>3, <2>4, <2>5, <2>7, <2>8
          DEF Covered, OverviewCovered, GridCovered, Writing
<1> QED BY <1>1, <1>3, <1>4, <1>5, <1>6

\* So do the bulk tasks: one invalidates the overview at its end, or its end is in
\* the history of the entry; and the grid shows no address.
LEMMA BulkKeepsCovered ==
  ASSUME Typed, PrioTyped, Typed', PrioTyped', Covered, NEW w \in Processes, Bulk(w)
  PROVE  Covered'
<1>0. ViewsFormed /\ bulk \in [Processes -> BulkTask] /\ TaskOK(bulk[w])
  BY DEF Covered, Typed, BulkTyped
<1>1. UNCHANGED <<pos, prio, seen, req>>
  BY DEF Bulk, Take, NextBatch, Process, WriteAddress, BatchDone, BulkInvalidate, BulkGrid,
         Kill, rows
<1>2. \A k : \A r \in Requests : Covers(k, r) => Covers(k, r)'
  BY <1>1 DEF Covers, Promises
<1>3. ASSUME views'["grid"] = views["grid"] \/ views'["grid"] = None, ViewsFormed',
             OverviewCovered'
      PROVE  Covered'
  BY <1>1, <1>2, <1>3, FreshStays DEF Covered, GridCovered, Fresh, ViewNames
<1>4. \E b : bulk' = [bulk EXCEPT ![w] = b]
  BY DEF Bulk, Take, NextBatch, Process, WriteAddress, BatchDone, BulkInvalidate, BulkGrid, Kill
<1>5. ASSUME NEW by, NEW val, NEW off, Passes("overview", by, val, off),
             NEW more, off \subseteq more, UNCHANGED addr \/ "killed" \in more
      PROVE  Passes("overview", by, val, more)'
  BY <1>1, <1>5, PassesOn DEF ViewNames
<1>6. ASSUME ViewsFormed', views'["overview"] = views["overview"],
             Fresh("overview") \/ AlmostFresh
      PROVE  AlmostFresh'
  <2>1. CASE views["overview"] = None
    BY <1>6, <2>1 DEF AlmostFresh
  <2>2. CASE views["overview"] # None
    <3>1. PICK by, val, off, more :
            /\ by = views["overview"].by /\ val = views["overview"].val
            /\ more = views["overview"].off \cup {"killed"}
            /\ off \subseteq more /\ Passes("overview", by, val, off)
      BY <1>6, <2>2 DEF Fresh, AlmostFresh
    <3>2. Passes("overview", by, val, more)'
      BY <1>5, <3>1
    <3> QED BY <1>6, <3>1, <3>2 DEF AlmostFresh
  <2> QED BY <2>1, <2>2
<1>7. CASE \/ Take(w) \/ NextBatch(w) \/ \E item \in bulk[w].todo : Process(w, item)
           \/ WriteAddress(w) \/ BatchDone(w)
  <2>1. UNCHANGED views
    BY <1>7 DEF Take, NextBatch, Process, WriteAddress, BatchDone, caches
  <2>2. ViewsFormed'
    BY <1>0, <2>1 DEF ViewsFormed
  <2>3. Writing(w)'
    <3>1. CASE Take(w)
      BY <1>0, <3>1 DEF Take, Resting, Writing
    <3>2. CASE NextBatch(w)
      BY <1>0, <3>2 DEF NextBatch, Writing, BulkTask
    <3>3. ASSUME NEW item \in bulk[w].todo, Process(w, item) PROVE Writing(w)'
      <4>1. PICK a \in Addresses, n \in Nat :
              /\ a.of = item.p
              /\ bulk' = [bulk EXCEPT ![w] =
                   [bulk[w] EXCEPT !.refused = n, !.todo = @ \ {item},
                                   !.held = @ \cup {[item |-> item, a |-> a]}]]
              /\ known' \in {known, [known EXCEPT ![item.p] = a]}
        BY <3>3, ProcessMoves
      <4>2. bulk[w].at = "batch"
        BY <3>3 DEF Process
      <4>3. PICK b : b = [bulk[w] EXCEPT !.refused = n, !.todo = @ \ {item},
                                         !.held = @ \cup {[item |-> item, a |-> a]}]
        OBVIOUS
      <4>4. b.at = "batch" /\ bulk'[w] = b
        BY <1>0, <4>1, <4>2, <4>3 DEF BulkTask
      <4> QED BY <4>4 DEF Writing
    <3>4. CASE WriteAddress(w)
      BY <1>0, <3>4 DEF WriteAddress, Writing, BulkTask, TaskOK
    <3>5. CASE BatchDone(w)
      BY <1>0, <3>5 DEF BatchDone, Writing, BulkTask
    <3> QED BY <1>7, <3>1, <3>2, <3>3, <3>4, <3>5
  <2>4. Fresh("overview") \/ AlmostFresh => AlmostFresh'
    BY <1>6, <2>1, <2>2
  <2>5. OverviewCovered'
    BY <1>1, <1>2, <2>3, <2>4 DEF Covered, OverviewCovered
  <2> QED BY <1>3, <2>1, <2>2, <2>5
<1>8. CASE BulkInvalidate(w)
  <2>1. views' = [views EXCEPT !["overview"] = None]
    BY <1>8 DEF BulkInvalidate
  <2>2. /\ ViewsFormed' /\ views'["overview"] = None /\ views'["grid"] = views["grid"]
    BY <1>0, <2>1 DEF ViewsFormed, ViewNames
  <2> QED BY <1>3, <2>2 DEF OverviewCovered, Fresh
<1>9. ASSUME ViewsFormed', views'["overview"] = views["overview"], UNCHANGED addr,
             ~ Writing(w)
      PROVE  OverviewCovered'
  <2>1. Fresh("overview") => Fresh("overview")'
    BY <1>1, <1>9, FreshStays DEF ViewNames
  <2>2. AlmostFresh => AlmostFresh'
    BY <1>6, <1>9
  <2>3. \A v \in Processes : Writing(v) => Writing(v)'
    BY <1>0, <1>4, <1>9 DEF Writing
  <2> QED BY <1>1, <1>2, <2>1, <2>2, <2>3 DEF Covered, OverviewCovered
<1>10. CASE BulkGrid(w)
  <2>1. views' = [views EXCEPT !["grid"] = None] /\ UNCHANGED addr /\ ~ Writing(w)
    BY <1>10 DEF BulkGrid, rows, Writing
  <2>2. ViewsFormed' /\ views'["overview"] = views["overview"] /\ views'["grid"] = None
    BY <1>0, <2>1 DEF ViewsFormed, ViewNames
  <2> QED BY <1>3, <1>9, <2>1, <2>2
<1>11. CASE Kill(w)
  <2>1. CASE bulk[w].at = "grid"
    <3>1. UNCHANGED <<views, addr>> /\ ~ Writing(w)
      BY <1>11, <2>1 DEF Kill, rows, Writing
    <3>2. ViewsFormed'
      BY <1>0, <3>1 DEF ViewsFormed
    <3> QED BY <1>3, <1>9, <3>1, <3>2
  <2>2. CASE bulk[w].at # "grid"
    <3> DEFINE old == views["overview"]
               new == views'["overview"]
    <3>1. Mark("overview", "killed") /\ UNCHANGED addr
      BY <1>11, <2>2 DEF Kill, rows
    <3>2. /\ ViewsFormed' /\ views'["grid"] = views["grid"]
          /\ old = None => new = None
          /\ old # None => new.by = old.by /\ new.val = old.val
                           /\ new.off = old.off \cup {"killed"}
      BY <1>0, <3>1, MarkAddsReason DEF ViewNames
    <3>3. ASSUME Fresh("overview") \/ AlmostFresh PROVE Fresh("overview")'
      <4>1. CASE old = None
        BY <3>2, <4>1 DEF Fresh
      <4>2. CASE old # None
        <5>1. PICK by, val, off, more :
                /\ by = old.by /\ val = old.val /\ more = old.off \cup {"killed"}
                /\ off \subseteq more /\ Passes("overview", by, val, off)
          BY <3>3, <4>2 DEF Fresh, AlmostFresh
        <5>2. Passes("overview", by, val, more)'
          BY <1>5, <5>1
        <5> QED BY <3>2, <4>2, <5>1, <5>2 DEF Fresh
      <4> QED BY <4>1, <4>2
    <3>4. OverviewCovered'
      BY <1>1, <1>2, <3>3 DEF Covered, OverviewCovered
    <3> QED BY <1>3, <3>2, <3>4
  <2> QED BY <2>1, <2>2
<1> QED BY <1>7, <1>8, <1>10, <1>11 DEF Bulk

\* Covered is inductive, given the types.  A reader that fills a view with rows that
\* have changed since marks it so.
LEMMA NextKeepsCovered ==
  Typed /\ PrioTyped /\ Typed' /\ PrioTyped' /\ Covered /\ [Next]_vars => Covered'
<1> SUFFICES ASSUME Typed, PrioTyped, Typed', PrioTyped', Covered, [Next]_vars PROVE Covered'
  OBVIOUS
<1>0. ViewsFormed
  BY DEF Covered
<1>1. ASSUME UNCHANGED <<pos, addr, prio, seen, req, bulk>>, ViewsFormed',
             \A k \in ViewNames : views'[k] = views[k] \/ Fresh(k)'
      PROVE  Covered'
  <2>1. /\ \A k \in ViewNames : Fresh(k) => Fresh(k)'
        /\ AlmostFresh => AlmostFresh' \/ Fresh("overview")'
    BY <1>1, FreshStays DEF ViewNames
  <2>2. \A k : \A r \in Requests : Covers(k, r) => Covers(k, r)'
    BY <1>1 DEF Covers, Promises
  <2> QED BY <1>1, <2>1, <2>2 DEF Covered, OverviewCovered, GridCovered, Writing, ViewNames
<1>2. ASSUME NEW v \in Viewers, FillView(v) PROVE Covered'
  <2> DEFINE read == viewer[v]
             why == IF read.val = EntryOf(read.k, read.by) THEN {} ELSE {"raced"}
  <2>1. PICK entry : entry = [by |-> read.by, val |-> read.val, off |-> why]
    OBVIOUS
  <2>2. views' = [views EXCEPT ![read.k] = entry] /\ UNCHANGED <<pos, addr, prio, seen, req, bulk>>
    BY <1>2, <2>1 DEF FillView, rows
  <2>3. views' = [k \in ViewNames |-> views'[k]]
        /\ \A k \in ViewNames : views'[k] = IF k = read.k THEN entry ELSE views[k]
    BY <1>0, <2>2 DEF ViewsFormed
  <2>4. ViewsFormed'
    <3>1. entry = [by |-> entry.by, val |-> entry.val, off |-> entry.off]
      BY <2>1
    <3> QED BY <1>0, <2>3, <3>1 DEF ViewsFormed
  <2>5. ASSUME NEW k \in ViewNames PROVE views'[k] = views[k] \/ Fresh(k)'
    <3>1. CASE k = read.k
      <4>1. EntryOf(k, entry.by)' = EntryOf(k, entry.by)
        BY <2>2 DEF EntryOf, Overview, Grid, OnLand
      <4>2. "raced" \in entry.off \/ entry.val = EntryOf(k, entry.by)'
        BY <2>1, <3>1, <4>1
      <4>3. Passes(k, entry.by, entry.val, entry.off)'
        BY <4>2 DEF Passes
      <4> QED BY <2>3, <3>1, <4>3 DEF Fresh
    <3> QED BY <2>3, <3>1
  <2> QED BY <1>1, <2>2, <2>4, <2>5
<1>3. CASE \E v \in Viewers : ReadRows(v)
  BY <1>0, <1>1, <1>3 DEF ReadRows, ViewsFormed, rows, caches
<1>4. ASSUME NEW k \in ViewNames, ExpireView(k) PROVE Covered'
  <2>1. views' = [views EXCEPT ![k] = None] /\ UNCHANGED <<pos, addr, prio, seen, req, bulk>>
    BY <1>4 DEF ExpireView, rows
  <2>2. ViewsFormed' /\ \A j \in ViewNames : views'[j] = IF j = k THEN None ELSE views[j]
    BY <1>0, <2>1 DEF ViewsFormed
  <2> QED BY <1>1, <2>1, <2>2 DEF Fresh
<1>5. CASE UNCHANGED vars
  BY <1>0, <1>1, <1>5 DEF vars, rows, caches, ViewsFormed
<1> QED BY <1>2, <1>3, <1>4, <1>5, RequestKeepsCovered, BulkKeepsCovered DEF Next

\* When no handler is running, a cached overview or grid shows the rows as they
\* are, but for the four causes StaleOnlyWhenRaced names, each in its own part:
\* whatever requests and bulk tasks ran, the last one to change a row invalidated
\* both views after it, or left in their history why it did not.
\* (services/data_service.py 637-995, services/cache_service.py 171-186 and
\* 247-274, workers/background_tasks.py 118-224, backend/api/vrp_routes.py 1074-1108)
THEOREM ViewsFollowTheRows == Spec => []StaleOnlyWhenRaced
<1>1. Init => Covered
  BY DEF Init, Covered, ViewsFormed, OverviewCovered, GridCovered, Fresh, ViewNames
<1>2. Typed /\ PrioTyped /\ [Next]_vars => Typed' /\ PrioTyped'
  BY NextKeepsTyped, NextKeepsPrioTyped
<1> QED BY <1>1, <1>2, InitTyped, NextKeepsCovered, CoveredIsFresh, PTL DEF Spec
=============================================================================
