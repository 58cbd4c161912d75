---------------------------- MODULE VroomRequest ----------------------------
(***************************************************************************)
(* services/vroom_service.py: the jobs and vehicles sent to the VROOM      *)
(* solver, the renumbering of their skills and ids, and the reading of its *)
(* answer.  VROOM itself may leave any job out and may serve a job with    *)
(* any vehicle that has all of its skills.                                 *)
(***************************************************************************)
EXTENDS H3Assignment

\* VROOM is given a job's skills as a set of area numbers.  The skills of strategy
\* h3 are for cells, but the worker builds its h3 partitions as route_only.
JobSkills(r, strategy, t) ==
  IF strategy = "manual_area" /\ t \in DOMAIN r.areaMap
  THEN {r.areaMap[t]} ELSE {}

VehicleSkills(r, strategy, f) ==
  IF strategy = "manual_area" THEN r.fmAreas[f] ELSE {}

\* `index` is location_index_map: a position's place in the matrix.
JobPayloads(r, strategy, tasks, index) ==
  LET sorted == SpatialSort(r, tasks)
  IN [i \in DOMAIN sorted |->
       [id |-> sorted[i], skills |-> JobSkills(r, strategy, sorted[i]),
        location |-> index[r.taskAt[sorted[i]]]]]

VehiclePayloads(r, strategy, fieldmen, index) ==
  [i \in DOMAIN fieldmen |->
    [id |-> fieldmen[i], skills |-> VehicleSkills(r, strategy, fieldmen[i]),
     location |-> index[r.fmAt[fieldmen[i]]]]]

SkillsOf(payloads) == UNION {payloads[i].skills : i \in DOMAIN payloads}

Renumber(payloads, skills) ==
  LET order == Ascending(skills)
  IN [i \in DOMAIN payloads |-> [payloads[i] EXCEPT !.skills =
       {n \in DOMAIN order : order[n] \in @}]]

\* Mutant: the skills of jobs and of vehicles are numbered separately.
NormalizeSkills_Apart(jobs, vehicles) ==
  [jobs |-> Renumber(jobs, SkillsOf(jobs)),
   vehicles |-> Renumber(vehicles, SkillsOf(vehicles))]

\* Skills become numbers, the same number for the same skill on both sides.
NormalizeSkills(jobs, vehicles) ==
  LET skills == SkillsOf(jobs) \cup SkillsOf(vehicles)
  IN [jobs |-> Renumber(jobs, skills), vehicles |-> Renumber(vehicles, skills)]

\* job_id_map: string ids become 1..n; the reverse map is the list of the ids.
Numbered(payloads) ==
  [i \in DOMAIN payloads |-> [id |-> i, skills |-> payloads[i].skills,
                              location |-> payloads[i].location]]
Ids(payloads) == [i \in DOMAIN payloads |-> payloads[i].id]

\* The solver: a vehicle for some of the jobs.
Solutions(jobs, vehicles) ==
  LET Able(j) == {v \in DOMAIN vehicles : jobs[j].skills \subseteq vehicles[v].skills}
  IN {s \in [DOMAIN jobs -> 0..Len(vehicles)] :
        \A j \in DOMAIN jobs : s[j] = 0 \/ s[j] \in Able(j)}

\* One route per vehicle that was used, with the tasks' own ids.
ParseSolution(solution, jobIds, vehicleIds) ==
  LET used == Ascending({solution[j] : j \in DOMAIN solution} \ {0})
  IN [i \in DOMAIN used |->
       [fieldman |-> vehicleIds[used[i]],
        tasks |-> {jobIds[j] : j \in {k \in DOMAIN solution : solution[k] = used[i]}}]]
=============================================================================
