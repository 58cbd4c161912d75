----------------------------- MODULE DataAdmin -----------------------------
(***************************************************************************)
(* Reference data: the tasks and fieldmen the planner works on, the        *)
(* addresses reverse geocoding gives them, and the two cached views of     *)
(* them (the overview and the H3 grid).  Requests (services/data_service)  *)
(* and the bulk geocoding task (workers/background_tasks) write the same   *)
(* rows in statements that nothing joins in a transaction.                 *)
(*                                                                         *)
(* An address is what it was resolved from and how it reads: a label the   *)
(* code makes up, what _format_address makes of a successful answer (a     *)
(* street, a text with its house number first, the coordinates Nominatim   *)
(* returned, or "?, ?"), or the coordinates reverse_geocode falls back to  *)
(* when it fails.                                                          *)
(***************************************************************************)
EXTENDS Naturals, FiniteSets, Sequences

CONSTANTS
  Tasks, Fieldmen,   \* entity ids; an id is inserted at most once
  Positions,
  Land,              \* the positions _is_stable_land accepts
  South,             \* the positions whose latitude is printed with a minus
  Knows,             \* how a successful answer about a position reads
  Priorities,        \* a task's stored and manual priority, together
  Requests, Viewers,
  Processes,         \* the worker processes that may run a bulk task
  BatchSize,         \* 10 in the code
  Permits,           \* BATCH_SIZE, 3: items of a batch in flight at once
  MaxConsecutive429, \* MAX_CONSECUTIVE_429, 5
  None

Entities == Tasks \cup Fieldmen

ASSUME DataAssumption ==
  /\ Tasks \cap Fieldmen = {}
  /\ Land \subseteq Positions /\ South \subseteq Positions
  /\ Knows \in [Positions -> {"street", "house", "coords", "unknown"}]
  /\ Priorities # {}
  /\ {BatchSize, Permits, MaxConsecutive429} \subseteq Nat \ {0}

VARIABLES
  pos, addr, areas,       \* the rows: position and address or None, and the
                          \* fieldmen with an area
  used,                   \* ids ever inserted
  seen,                   \* the one entity whose part of the views is followed
  prio,                   \* its priorities while it is a task with a row
  street,                 \* reverse_geocode's own cache, geocode:<lat>:<lon>
  known,                  \* the workers' cache, vrp:cache:geocode:<lat>:<lon>
  views,                  \* the cached overview and grid, with history: why an
                          \* entry may be off from now on
  req, viewer,            \* the handlers in flight
  queue, bulk,            \* bulk geocoding messages and the tasks that run them
  raced                   \* history: moved while an older geocode was pending

rows   == <<pos, addr, areas, used, prio>>
caches == <<street, known, views>>
vars   == <<rows, caches, req, viewer, queue, bulk, raced, seen>>

Address(k, p) == [kind |-> k, of |-> p]
Kinds == {"label", "street", "house", "coords", "unknown", "fallback"}
Addresses == [kind : Kinds, of : Positions]
Item == [e : Entities, p : Positions]

\* What a view shows of an entity that is there.
Shown == [pos : Positions, addr : Addresses, prio : Priorities \cup {None}]
           \cup [pos : Positions]

\* None is SQL's NULL, a miss of a cache, no request or nothing to show.
ASSUME NoneIsNoValue ==
  None \notin Entities \cup Positions \cup Addresses \cup Requests \cup Priorities \cup Shown

\* The task summary is deleted with the overview and is not followed on its own.
ViewNames == {"overview", "grid"}
Routes == {"v1", "legacy"}

Exists(e) == pos[e] # None

(***************************************************************************)
(* Reverse geocoding.                                                      *)
(***************************************************************************)
\* resolved[0].isdigit(): a house number, or a latitude north of the equator.
StartsWithDigit(a) ==
  a.kind = "house" \/ (a.kind \in {"coords", "fallback"} /\ a.of \notin South)

\* Nominatim: what it knows of the place, a 429, or any other failure.
Answers == {"ok", "limited", "error"}

\* The bare except of reverse_geocode: no failure leaves the function.
Escapes(answer) == FALSE

Formatted(answer, p) == Address(IF answer = "ok" THEN Knows[p] ELSE "fallback", p)

\* Mutant: whatever was answered is cached.
CachedGeocode_KeepFallback(p, result, cache) ==
  \E answer \in Answers :
    /\ result = IF street[p] # None THEN street[p] ELSE Formatted(answer, p)
    /\ cache = [street EXCEPT ![p] = result]

\* reverse_geocode with a cache: the address it returns and the cache it leaves.
CachedGeocode(p, result, cache) ==
  IF street[p] # None
    THEN result = street[p] /\ cache = street
    ELSE \E answer \in Answers :
           /\ result = Formatted(answer, p)
           /\ cache = IF answer = "ok"
                        THEN [street EXCEPT ![p] = Formatted(answer, p)]
                        ELSE street

(***************************************************************************)
(* Requests.                                                               *)
(***************************************************************************)
Stages == {"area", "label", "geocode", "update", "row", "fieldmen", "areas",
           "collect", "send", "invalidate", "grid", "clear", "done"}
Idle == [at |-> "idle", e |-> None, p |-> None, a |-> None, items |-> {}]
Finished == [Idle EXCEPT !.at = "done"]

Reached(r, at) == IF at = "done" THEN Finished ELSE [req[r] EXCEPT !.at = at]
Goto(r, at) == req' = [req EXCEPT ![r] = Reached(r, at)]
Begin(r, at, e, p) ==
  /\ req[r].at = "idle"
  /\ req' = [req EXCEPT ![r] = IF at = "done" THEN Finished
                               ELSE [Idle EXCEPT !.at = at, !.e = e, !.p = p]]
At(r, at) == req[r].at = at

\* A request or an item that will still write an address of e.
PendingItems ==
  (UNION {queue[i] : i \in DOMAIN queue})
    \cup (UNION {bulk[w].rest \cup bulk[w].todo \cup {h.item : h \in bulk[w].held} :
                   w \in Processes})
    \cup (UNION {req[r].items : r \in {s \in Requests : req[s].at \in {"collect", "send"}}})
Pending(e, r) ==
  \/ \E s \in Requests \ {r} :
       req[s].e = e /\ req[s].at \in {"area", "label", "geocode", "update"}
  \/ \E i \in PendingItems : i.e = e

InsertAll(where) ==
  /\ pos' = [e \in Entities |-> IF e \in DOMAIN where THEN where[e] ELSE pos[e]]
  /\ addr' = [e \in Entities |-> IF e \in DOMAIN where
                                   THEN Address("label", where[e]) ELSE addr[e]]
  /\ used' = used \cup DOMAIN where
  /\ IF seen \in Tasks \cap DOMAIN where THEN prio' \in Priorities ELSE prio' = prio

Insert(e, p) == InsertAll([x \in {e} |-> p])

Remove(es) ==
  /\ pos' = [e \in Entities |-> IF e \in es THEN None ELSE pos[e]]
  /\ addr' = [e \in Entities |-> IF e \in es THEN None ELSE addr[e]]
  /\ prio' = IF seen \in es THEN None ELSE prio

\* History: the entry of view k, if there is one, is off from here on for this
\* reason.
Mark(k, reason) ==
  views' = IF views[k] = None THEN views
           ELSE [views EXCEPT ![k].off = @ \cup {reason}]

\* picker_create_task: the row with a placeholder address.
CreateTask(r) ==
  \E e \in Tasks \ used, p \in Positions :
    /\ Begin(r, "geocode", e, p)
    /\ Insert(e, p)
    /\ UNCHANGED <<areas, caches, viewer, queue, bulk, raced, seen>>

\* picker_create_fieldman: the row, then the area, two statements.
CreateFieldman(r) ==
  \E e \in Fieldmen \ used, p \in Positions :
    /\ Begin(r, "area", e, p)
    /\ Insert(e, p)
    /\ UNCHANGED <<areas, caches, viewer, queue, bulk, raced, seen>>

\* The foreign key refuses an area for a fieldman deleted in between: the
\* request fails there, and invalidates nothing.
AssignArea(r) ==
  /\ At(r, "area")
  /\ IF Exists(req[r].e)
       THEN areas' = areas \cup {req[r].e} /\ Goto(r, "geocode")
       ELSE Goto(r, "done") /\ UNCHANGED areas
  /\ UNCHANGED <<pos, addr, used, prio, caches, viewer, queue, bulk, raced, seen>>

\* update_fieldman_location: the position first, then a placeholder.
Move(r) ==
  \E e \in Fieldmen \cap used, p \in Positions :
    /\ Begin(r, IF Exists(e) THEN "label" ELSE "done", e, p)
    /\ pos' = IF Exists(e) THEN [pos EXCEPT ![e] = p] ELSE pos
    /\ raced' = IF Exists(e) /\ Pending(e, r) THEN raced \cup {e} ELSE raced
    /\ UNCHANGED <<addr, areas, used, prio, caches, viewer, queue, bulk, seen>>

\* Mutant: an upsert: a row deleted since gets an address.
SetAddress_Upsert(e, a) == addr' = [addr EXCEPT ![e] = a]

SetAddress(e, a) == addr' = IF Exists(e) THEN [addr EXCEPT ![e] = a] ELSE addr

\* Mutant: a moved fieldman keeps its address until the geocode succeeds.
LabelMoved_Skip(r) ==
  /\ At(r, "label")
  /\ Goto(r, "geocode")
  /\ UNCHANGED <<rows, caches, viewer, queue, bulk, raced, seen>>

LabelMoved(r) ==
  /\ At(r, "label")
  /\ SetAddress(req[r].e, Address("label", req[r].p))
  /\ Goto(r, "geocode")
  /\ UNCHANGED <<pos, areas, used, prio, caches, viewer, queue, bulk, raced, seen>>

\* "Try geocode immediately": an address that starts with a digit is not used.
Geocode(r) ==
  /\ At(r, "geocode")
  /\ \E a \in Addresses :
       /\ CachedGeocode(req[r].p, a, street')
       /\ req' = [req EXCEPT ![r] = [req[r] EXCEPT !.a = a,
                    !.at = IF StartsWithDigit(a) THEN "invalidate" ELSE "update"]]
  /\ UNCHANGED <<rows, known, views, viewer, queue, bulk, raced, seen>>

UpdateAddress(r) ==
  /\ At(r, "update")
  /\ SetAddress(req[r].e, req[r].a)
  /\ Goto(r, "invalidate")
  /\ UNCHANGED <<pos, areas, used, prio, caches, viewer, queue, bulk, raced, seen>>

\* The rest of the pickers: two statements for a fieldman, one for a task, and a
\* 404 that leaves every cache alone when no row was there.
Delete(r) ==
  \E e \in used :
    /\ Begin(r, IF e \in Fieldmen THEN "row"
                         ELSE IF Exists(e) THEN "invalidate" ELSE "done", e, None)
    /\ areas' = areas \ {e}
    /\ IF e \in Tasks THEN Remove({e}) ELSE UNCHANGED <<pos, addr, prio>>
    /\ UNCHANGED <<used, caches, viewer, queue, bulk, raced, seen>>

DeleteRow(r) ==
  /\ At(r, "row")
  /\ Goto(r, IF Exists(req[r].e) THEN "invalidate" ELSE "done")
  /\ Remove({req[r].e})
  /\ areas' = areas \ {req[r].e}    \* ON DELETE CASCADE
  /\ UNCHANGED <<used, caches, viewer, queue, bulk, raced, seen>>

\* update_task_priority.
SetPriority(r) ==
  \E e \in Tasks \cap used :
    /\ Begin(r, IF Exists(e) THEN "invalidate" ELSE "done", e, None)
    /\ IF e = seen /\ Exists(e) THEN prio' \in Priorities ELSE prio' = prio
    /\ UNCHANGED <<pos, addr, areas, used, caches, viewer, queue, bulk, raced, seen>>

\* The UPDATE of the legacy optimize with a priority range, of the priorities of
\* every task it had selected before: no cache is told.
Rescale(r) ==
  /\ Begin(r, "done", None, None)
  /\ prio' \in IF prio = None THEN {None} ELSE Priorities
  /\ Mark("overview", "rescaled")
  /\ UNCHANGED <<pos, addr, areas, used, street, known, viewer, queue, bulk, raced, seen>>

\* reset_all_data: TRUNCATE, then invalidate_all.
Reset(r) ==
  /\ Begin(r, "clear", None, None)
  /\ Remove(Entities) /\ areas' = {}
  /\ UNCHANGED <<used, caches, viewer, queue, bulk, raced, seen>>

\* invalidate_all deletes vrp:cache:*: neither the grid nor reverse_geocode's
\* own entries are in that namespace.
ClearCaches(r) ==
  /\ At(r, "clear") /\ Goto(r, "done")
  /\ known' = [p \in Positions |-> None]
  /\ views' = [k \in ViewNames |->
                 IF k = "overview" \/ views[k] = None THEN None
                 ELSE [views[k] EXCEPT !.off = @ \cup {"reset"}]]
  /\ UNCHANGED <<rows, street, viewer, queue, bulk, raced, seen>>

\* randomize: a COPY of the tasks, the fieldmen, their areas, each on its own.
Randomize(r) ==
  \E where \in [Tasks \ used -> Positions] :
    /\ Begin(r, "fieldmen", None, None)
    /\ InsertAll(where)
    /\ UNCHANGED <<areas, caches, viewer, queue, bulk, raced, seen>>

RandomFieldmen(r) ==
  /\ At(r, "fieldmen")
  /\ \E where \in [Fieldmen \ used -> Positions] :
       /\ InsertAll(where)
       /\ req' = [req EXCEPT ![r] = [req[r] EXCEPT !.at = "areas",
                    !.items = {[e |-> f, p |-> where[f]] : f \in DOMAIN where}]]
  /\ UNCHANGED <<areas, caches, viewer, queue, bulk, raced, seen>>

RandomAreas(r) ==
  /\ At(r, "areas")
  /\ LET new == {i.e : i \in req[r].items}
     IN  IF \A f \in new : Exists(f)
           THEN areas' = areas \cup new /\ Goto(r, "invalidate")
           ELSE Goto(r, "done") /\ UNCHANGED areas
  /\ UNCHANGED <<pos, addr, used, prio, caches, viewer, queue, bulk, raced, seen>>

\* invalidate_overview: the overview and the task summary, then the grid.
Invalidate(r) ==
  /\ At(r, "invalidate") /\ Goto(r, "grid")
  /\ views' = [views EXCEPT !["overview"] = None]
  /\ UNCHANGED <<rows, street, known, viewer, queue, bulk, raced, seen>>

InvalidateGrid(r) ==
  /\ At(r, "grid") /\ Goto(r, "done")
  /\ views' = [views EXCEPT !["grid"] = None]
  /\ UNCHANGED <<rows, street, known, viewer, queue, bulk, raced, seen>>

(***************************************************************************)
(* Reading the views: a miss reads the rows, then fills the cache.         *)
(***************************************************************************)
\* What a reader is shown of the entity.  The v1 repositories leave out rows that
\* are not on stable land; the legacy overview, the counts and the tasks of the
\* grid do not.
OnLand(e) == Exists(e) /\ pos[e] \in Land
Overview(route) ==
  IF IF route = "v1" THEN OnLand(seen) ELSE Exists(seen)
    THEN [pos |-> pos[seen], addr |-> addr[seen], prio |-> prio] ELSE None
Grid == IF IF seen \in Fieldmen THEN OnLand(seen) ELSE Exists(seen)
          THEN [pos |-> pos[seen]] ELSE None
EntryOf(k, route) == IF k = "overview" THEN Overview(route) ELSE Grid

Away == [k |-> None, by |-> None, val |-> None]

ReadRows(v) ==
  /\ viewer[v] = Away
  /\ \E k \in ViewNames, route \in Routes :
       /\ views[k] = None
       /\ viewer' = [viewer EXCEPT ![v] = [k |-> k, by |-> route, val |-> EntryOf(k, route)]]
  /\ UNCHANGED <<rows, caches, req, queue, bulk, raced, seen>>

FillView(v) ==
  /\ viewer[v] # Away
  /\ LET read == viewer[v]
     IN  views' = [views EXCEPT ![read.k] =
                     [by |-> read.by, val |-> read.val,
                      off |-> IF read.val = EntryOf(read.k, read.by) THEN {} ELSE {"raced"}]]
  /\ viewer' = [viewer EXCEPT ![v] = Away]
  /\ UNCHANGED <<rows, street, known, req, queue, bulk, raced, seen>>

(***************************************************************************)
(* Bulk geocoding.                                                         *)
(***************************************************************************)
Items(es) == {[e |-> e, p |-> pos[e]] : e \in es}

\* geocode_addresses_async: the coordinates of the tasks, then of the fieldmen,
\* then one message with both.  v1 leaves out the fieldmen not on land.
CollectTasks(r) ==
  /\ At(r, "idle")
  /\ req' = [req EXCEPT ![r] = [Idle EXCEPT !.at = "collect",
                                           !.items = Items({t \in Tasks : Exists(t)})]]
  /\ UNCHANGED <<rows, caches, viewer, queue, bulk, raced, seen>>

Fetched(route) == {f \in Fieldmen : IF route = "v1" THEN OnLand(f) ELSE Exists(f)}

CollectFieldmen(r) ==
  /\ At(r, "collect")
  /\ \E route \in Routes :
       req' = [req EXCEPT ![r] = [req[r] EXCEPT !.at = "send",
                                                !.items = @ \cup Items(Fetched(route))]]
  /\ UNCHANGED <<rows, caches, viewer, queue, bulk, raced, seen>>

Dispatch(r) ==
  /\ At(r, "send") /\ Goto(r, "done")
  /\ queue' = IF req[r].items = {} THEN queue ELSE Append(queue, req[r].items)
  /\ UNCHANGED <<rows, caches, viewer, bulk, raced, seen>>

\* refused is history: the 429 answers in a row, as far as the breaker's limit.
Resting == [at |-> "idle", rest |-> {}, todo |-> {}, held |-> {}, raised |-> 0,
            strikes |-> 0, refused |-> 0]

\* background_bulk_geocode takes a message; it is acknowledged as it is taken.
Take(w) ==
  /\ bulk[w].at = "idle" /\ queue # <<>>
  /\ bulk' = [bulk EXCEPT ![w] = [Resting EXCEPT !.at = "between", !.rest = Head(queue)]]
  /\ queue' = Tail(queue)
  /\ UNCHANGED <<rows, caches, req, viewer, raced, seen>>

Least(a, b) == IF a < b THEN a ELSE b

NextBatch(w) ==
  /\ bulk[w].at = "between" /\ bulk[w].rest # {}
  /\ \E batch \in SUBSET bulk[w].rest :
       /\ Cardinality(batch) = Least(BatchSize, Cardinality(bulk[w].rest))
       /\ bulk' = [bulk EXCEPT ![w] = [bulk[w] EXCEPT !.at = "batch", !.todo = batch,
                                                      !.rest = @ \ batch, !.raised = 0]]
  /\ UNCHANGED <<rows, caches, req, viewer, queue, raced, seen>>

\* The item is done with the answer, and waits for its UPDATE with address a.
Holding(b, item, a) ==
  [b EXCEPT !.todo = @ \ {item}, !.held = @ \cup {[item |-> item, a |-> a]}]

\* process_item under the semaphore: the workers' cache, or reverse_geocode
\* without a cache and its result, whatever it is, kept for a day.
Process(w, item) ==
  /\ bulk[w].at = "batch" /\ item \in bulk[w].todo /\ Cardinality(bulk[w].held) < Permits
  /\ IF known[item.p] # None
       THEN bulk' = [bulk EXCEPT ![w] = Holding(@, item, known[item.p])] /\ UNCHANGED known
       ELSE \E answer \in Answers :
              LET a == Formatted(answer, item.p)
                  refused == IF answer # "limited" THEN 0
                             ELSE Least(bulk[w].refused + 1, MaxConsecutive429)
                  b == [bulk[w] EXCEPT !.refused = refused]
              IN  IF Escapes(answer)
                    THEN /\ bulk' = [bulk EXCEPT ![w] = [b EXCEPT !.todo = @ \ {item},
                                                                 !.raised = @ + 1]]
                         /\ UNCHANGED known
                    ELSE /\ bulk' = [bulk EXCEPT ![w] = Holding(b, item, a)]
                         /\ known' = [known EXCEPT ![item.p] = a]
  /\ UNCHANGED <<rows, street, views, req, viewer, queue, raced, seen>>

\* UPDATE tasks/fm_home_locations SET address, by id alone.
WriteAddress(w) ==
  \E h \in bulk[w].held :
    /\ SetAddress(h.item.e, h.a)
    /\ bulk' = [bulk EXCEPT ![w].held = @ \ {h}]
    /\ UNCHANGED <<pos, areas, used, prio, caches, req, viewer, queue, raced, seen>>

\* The 429s of the batch that process_item raised; enough of them in a row
\* break the loop.
BatchDone(w) ==
  /\ bulk[w].at = "batch" /\ bulk[w].todo = {} /\ bulk[w].held = {}
  /\ LET strikes == IF bulk[w].raised > 0 THEN bulk[w].strikes + bulk[w].raised ELSE 0
     IN  bulk' = [bulk EXCEPT ![w] =
                    [bulk[w] EXCEPT !.at = "between", !.strikes = strikes,
                                    !.rest = IF strikes >= MaxConsecutive429 THEN {} ELSE @]]
  /\ UNCHANGED <<rows, caches, req, viewer, queue, raced, seen>>

\* Mutant: the addresses are written and the overview is left.
BulkInvalidate_Missing(w) ==
  /\ bulk[w].at = "between" /\ bulk[w].rest = {}
  /\ bulk' = [bulk EXCEPT ![w] = [Resting EXCEPT !.at = "grid"]]
  /\ UNCHANGED <<rows, caches, req, viewer, queue, raced, seen>>

\* "Invalidate overview cache after all geocoding done".
BulkInvalidate(w) ==
  /\ bulk[w].at = "between" /\ bulk[w].rest = {}
  /\ bulk' = [bulk EXCEPT ![w] = [Resting EXCEPT !.at = "grid"]]
  /\ views' = [views EXCEPT !["overview"] = None]
  /\ UNCHANGED <<rows, street, known, req, viewer, queue, raced, seen>>

BulkGrid(w) ==
  /\ bulk[w].at = "grid"
  /\ bulk' = [bulk EXCEPT ![w] = Resting]
  /\ views' = [views EXCEPT !["grid"] = None]
  /\ UNCHANGED <<rows, street, known, req, viewer, queue, raced, seen>>

\* The soft or the hard time limit, or the end of the process: the finally
\* clause closes the connections and invalidates nothing.
Kill(w) ==
  /\ bulk[w].at # "idle"
  /\ bulk' = [bulk EXCEPT ![w] = Resting]
  /\ IF bulk[w].at = "grid" THEN UNCHANGED views ELSE Mark("overview", "killed")
  /\ UNCHANGED <<rows, street, known, req, viewer, queue, raced, seen>>

\* Redis drops a view at the end of its time.
ExpireView(k) ==
  /\ views[k] # None
  /\ views' = [views EXCEPT ![k] = None]
  /\ UNCHANGED <<rows, street, known, req, viewer, queue, bulk, raced, seen>>

\* Any rows may be there already, their labels their addresses.
Init ==
  /\ pos \in [Entities -> Land \cup {None}]
  /\ addr = [e \in Entities |-> IF Exists(e) THEN Address("label", pos[e]) ELSE None]
  /\ used = {e \in Entities : Exists(e)} /\ areas = Fieldmen \cap used
  /\ seen \in Entities
  /\ prio \in IF seen \in Tasks /\ Exists(seen) THEN Priorities ELSE {None}
  /\ street = [p \in Positions |-> None] /\ known = [p \in Positions |-> None]
  /\ views = [k \in ViewNames |-> None]
  /\ req = [r \in Requests |-> Idle] /\ viewer = [v \in Viewers |-> Away]
  /\ queue = <<>> /\ bulk = [w \in Processes |-> Resting]
  /\ raced = {}

Request(r) ==
  \/ CreateTask(r) \/ CreateFieldman(r) \/ AssignArea(r)
  \/ Move(r) \/ LabelMoved(r) \/ Geocode(r) \/ UpdateAddress(r)
  \/ Delete(r) \/ DeleteRow(r) \/ SetPriority(r) \/ Rescale(r)
  \/ Reset(r) \/ ClearCaches(r)
  \/ Randomize(r) \/ RandomFieldmen(r) \/ RandomAreas(r)
  \/ Invalidate(r) \/ InvalidateGrid(r)
  \/ CollectTasks(r) \/ CollectFieldmen(r) \/ Dispatch(r)

Bulk(w) ==
  \/ Take(w) \/ NextBatch(w) \/ (\E item \in bulk[w].todo : Process(w, item))
  \/ WriteAddress(w) \/ BatchDone(w) \/ BulkInvalidate(w) \/ BulkGrid(w) \/ Kill(w)

Next ==
  \/ \E r \in Requests : Request(r)
  \/ \E v \in Viewers : ReadRows(v) \/ FillView(v)
  \/ \E w \in Processes : Bulk(w)
  \/ \E k \in ViewNames : ExpireView(k)

Spec == Init /\ [][Next]_vars

(***************************************************************************)
(* Properties.                                                             *)
(***************************************************************************)
Quiet == /\ \A r \in Requests : req[r].at \in {"idle", "done"}
         /\ \A w \in Processes : bulk[w].at = "idle"

\* The rows and the handlers have their types: a position and an address come
\* and go together, an area belongs to a fieldman that exists (the foreign key
\* against AssignArea racing a delete), a bulk item never exceeds its permits.
DataTypeOK ==
  /\ pos \in [Entities -> Positions \cup {None}]
  /\ addr \in [Entities -> Addresses \cup {None}]
  /\ \A e \in Entities : (addr[e] = None) = (pos[e] = None)
  /\ areas \subseteq {f \in Fieldmen : Exists(f)}
  /\ \A e \in Entities : Exists(e) => e \in used
  /\ seen \in Entities
  /\ prio \in IF seen \in Tasks /\ Exists(seen) THEN Priorities ELSE {None}
  /\ street \in [Positions -> Addresses \cup {None}]
  /\ known \in [Positions -> Addresses \cup {None}]
  /\ \A r \in Requests : req[r].at \in Stages \cup {"idle"}
  /\ \A w \in Processes : Cardinality(bulk[w].held) =< Permits

\* Once nothing is pending on a row, its address is the address of its own
\* position, unless it was moved while an older geocode was still to write.
AddressFollowsPosition ==
  \A e \in Entities \ raced :
    Exists(e) /\ ~Pending(e, None) => addr[e].of = pos[e]

\* A failed reverse geocode is retried by the next request at that place: its
\* fallback never enters the cache of reverse_geocode.  (Coordinates or "?, ?"
\* that Nominatim answered with do, for a day.)
FallbackIsNotCached ==
  \A p \in Positions : street[p] # None => street[p].kind # "fallback"

\* What an entry may show beside what the rows say now, if it was not filled with
\* rows that had changed: an older address when a bulk task was killed before it
\* invalidated, an older priority since a rescaling, and, in the grid, rows that
\* a reset deleted.
Lags(k, entry, now) ==
  /\ entry.val # None
  /\ IF now = None THEN "reset" \in entry.off
     ELSE /\ entry.val.pos = now.pos
          /\ k = "overview" =>
               /\ entry.val.addr = now.addr \/ "killed" \in entry.off
               /\ entry.val.prio = now.prio \/ "rescaled" \in entry.off

\* When no handler is running, what a cached view shows is what the rows say, but
\* for four causes: a reader filled it with rows that had changed under it, or
\* one of the three of Lags, and then it is off in that part alone.
StaleOnlyWhenRaced ==
  Quiet => \A k \in ViewNames :
    LET entry == views[k]
    IN entry # None =>
         \/ "raced" \in entry.off
         \/ entry.val = EntryOf(k, entry.by)
         \/ Lags(k, entry, EntryOf(k, entry.by))

\* "Stop after 5 consecutive 429 errors": no batch starts after that many
\* refusals in a row.
BreakerStops ==
  [][\A w \in Processes : bulk[w].at = "between" /\ bulk'[w].at = "batch" =>
       bulk[w].refused < MaxConsecutive429]_vars
=============================================================================
