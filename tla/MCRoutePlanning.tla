-------------------------- MODULE MCRoutePlanning ---------------------------
(* A small instance of RoutePlanning for TLC.                              *)
EXTENDS RoutePlanning

\* Cell widths in hundreds of metres, near twice the edge lengths of H3.
MCCellSize == [res \in 0..15 |->
  CASE res > 9 -> 1 [] res = 9 -> 4 [] res = 8 -> 11 [] res = 7 -> 28 [] res = 6 -> 74
    [] res = 5 -> 197 [] OTHER -> 521]

NoAreas == [t \in {} |-> 0]

Base == [via |-> "jobs", ids |-> {}, range |-> NoRange, limit |-> None, offset |-> None,
         land |-> 1..4, areas |-> <<>>,
         tasks |-> <<>>, fieldmen |-> <<1, 2>>, strategy |-> "h3",
         auto |-> TRUE, resolution |-> 7, dense |-> FALSE, areaIds |-> {},
         areaMap |-> NoAreas, fmAreas |-> <<{}, {}>>,
         taskAt |-> <<0, 0, 0>>, fmAt |-> <<0, 0>>,
         priority |-> <<1, 1, 1>>, manual |-> <<None, None, None>>]

\* Strategy h3: where everybody is, and which tasks have a raised priority.
ByCells ==
  {[Base EXCEPT !.taskAt = t, !.fmAt = f, !.priority = p, !.auto = a, !.dense = a] :
     t \in [1..3 -> {0, 3, 5, 60}], f \in [1..2 -> {0, 5, 60}],
     p \in {<<1, 1, 1>>, <<1, 2, 1>>, <<2, 1, 3>>}, a \in BOOLEAN}

\* Overridden priorities, an area filter, and the requests that are refused.
Special ==
  {[Base EXCEPT !.taskAt = t, !.fmAt = <<3, 5>>, !.manual = <<None, 3, 0>>,
                !.areaIds = ids, !.areaMap = m] :
     t \in [1..3 -> {0, 3, 5}], ids \in {{}, {1}, {3}},
     m \in {NoAreas, <<1, 2, 1>>, <<1, 1, 1>>, <<1, 1, 1, 1>>}}
  \cup {[Base EXCEPT !.taskAt = <<>>, !.priority = <<>>, !.manual = <<>>], [Base EXCEPT !.fieldmen = <<>>],
         [Base EXCEPT !.strategy = "km", !.areaIds = {3}, !.areaMap = <<1, 1, 1>>]}

\* Strategies manual_area and km: four tasks are a large problem.
ByRegions ==
  {[Base EXCEPT !.taskAt = t, !.fmAt = f,
                !.strategy = s, !.areaMap = m, !.fmAreas = a,
                !.priority = <<1, 1, 2, 1>>, !.manual = <<None, None, None, None>>] :
     t \in {<<0, 3, 200, 900>>, <<0, 200, 3, 200>>, <<900, 0, 3, 5>>, <<900, 450, 200, 0>>},
     f \in {<<0, 900>>, <<900, 900>>, <<200, 3>>}, s \in {"manual_area", "km"},
     m \in {<<1, 2, 1, 2>>, 1 :> 2 @@ 3 :> 1},
     a \in {<<{1}, {2}>>, <<{1, 2}, {2}>>, <<{3}, {1}>>}}

\* What the endpoints and the loading of the rows make of ids, ranges, limits
\* and areas: 5 is near the center of area 2, 900 of area 3, 450 of none.  A bound
\* of 26 is between two tenths, 37 is above 26.
Asked ==
  {[Base EXCEPT !.via = v, !.taskAt = <<5, 450, 900>>, !.fmAt = <<3, 5>>,
                !.ids = i, !.range = [min |-> lo, max |-> hi], !.limit = l,
                !.offset = o, !.land = w, !.areas = a, !.priority = <<8, 28, 16>>] :
     v \in {"jobs", "optimize", "legacy"}, i \in {{}, {2, 3}}, lo \in {None, 16, 26, 37},
     hi \in {None, 26}, l \in {None, 1}, o \in {None, 1}, w \in {1..3, {1, 3}},
     a \in {<<>>, <<3>>, <<2, 3>>, <<7>>}}

MCRequests == ByCells \cup Special \cup ByRegions \cup Asked
MCAreaConfigs == <<<<1, 300>>, <<2, 10>>, <<3, 890>>>>
MCIsland == {60, 900}
=============================================================================
