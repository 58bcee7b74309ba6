---------------------------- MODULE SweepObjects ----------------------------
(***************************************************************************)
(* What else a sweep keeps in step with the claims: the Service and the    *)
(* Ingress of each session (sweeper/exposure.go, k8s/exposure.go), and the *)
(* report of what the claims and the connector's instances differ in       *)
(* (reconcile/reconcile.go).  Both work from lists: the claims may end, and*)
(* their names be used again, while the sweep is under way; the instance   *)
(* list may be one that another goroutine had fetched.  The objects belong *)
(* to a claim by its uid: to the one that has the name now (Own), or to an *)
(* earlier one (Old), which Kubernetes then collects.                      *)
(***************************************************************************)
EXTENDS Integers

CONSTANTS
  Sessions,    \* number of session ids; a list has them in their order
  Dashboard,   \* ids of the form s-dc-<snowflake>, if there is a domain
  Flagged,     \* ids whose claims carry the connector annotation
  Every,       \* reconcileEvery: sweeps between two reports
  MaxFaults,   \* bound on the number of failed calls and crashes
  Absent       \* a nil map, or no object

Ids == 1 .. Sessions
Own == "own"
Old == "old"
Bare == "bare"   \* in a list: Own, with no sandbox yet

ASSUME IdsAssumption == Sessions \in Nat \ {0} /\ Dashboard \subseteq Ids /\ Flagged \subseteq Ids
ASSUME BoundsAssumption == Every \in Nat \ {0} /\ MaxFaults \in Nat
ASSUME AbsentAssumption == Absent \notin {Own, Old, Bare}

VARIABLES
  claimed,     \* ids that have a claim
  bound,       \* ids whose claim has a sandbox with a selector
  service,     \* id: whose Service has the name
  ingress,     \* id: whose Ingress has the name
  rows,        \* connector: ids of its instances
  cache,       \* manager: the instance list it keeps, or Absent
  faults,      \* number of failed calls so far
  pc,          \* sweep: its next call
  cycle,       \* sweep: counts to the next report
  next,        \* sweep: the id whose turn is next
  list,        \* sweep: whose claim it listed under the name
  view,        \* sweep: the instances it works with; Absent = no list
  report,      \* reconcile: the last report
  stale,       \* history: ids that changed since the view, or the cache, or the list
  missed       \* history: ids whose turn failed, or met objects of an earlier session

objects == <<service, ingress>>
sweep   == <<pc, cycle, next, list, view, missed>>
vars    == <<claimed, bound, objects, rows, cache, faults, sweep, report, stale>>

Report == [claimsWithoutInstances : SUBSET Ids, instancesWithoutClaims : SUBSET Ids]

TypeOK ==
  /\ bound \subseteq claimed /\ claimed \subseteq Ids /\ rows \subseteq Ids
  /\ service \in [Ids -> {Own, Old, Absent}] /\ ingress \in [Ids -> {Own, Old, Absent}]
  /\ \A i \in Ids \ claimed : {service[i], ingress[i], list[i]} \subseteq {Old, Absent}
  /\ cache = Absent \/ cache \subseteq Ids
  /\ view = Absent \/ view \subseteq Ids
  /\ faults \in 0 .. MaxFaults
  /\ pc \in {"rest", "fetch", "service", "ingress", "report"}
  /\ cycle \in 0 .. Every - 1
  /\ next \in 1 .. Sessions + 1 /\ (pc \in {"service", "ingress"} => next \in Ids)
  /\ list \in [Ids -> {Own, Old, Bare, Absent}]
  /\ pc = "ingress" => list[next] # Absent
  /\ report = Absent \/ report \in Report
  /\ stale \in [{"sweep", "cache"} -> SUBSET Ids]
  /\ missed \subseteq Ids

Init ==
  /\ claimed = {} /\ bound = {} /\ rows = {}
  /\ service = [i \in Ids |-> Absent] /\ ingress = [i \in Ids |-> Absent]
  /\ cache = Absent
  /\ faults = 0
  /\ pc = "rest" /\ cycle = 0 /\ next = 1
  /\ list = [i \in Ids |-> Absent]
  /\ view = Absent
  /\ report = Absent
  /\ stale = [k \in {"sweep", "cache"} |-> {}]
  /\ missed = {}

-----------------------------------------------------------------------------
(* Requests, pods and Kubernetes                                           *)

Change(i) == stale' = [k \in {"sweep", "cache"} |-> stale[k] \cup {i}]

CreateClaim(i) ==
  /\ i \notin claimed
  /\ claimed' = claimed \cup {i}
  /\ Change(i)
  /\ UNCHANGED <<bound, objects, rows, cache, faults, sweep, report>>

Bind(i) ==
  /\ i \in claimed \ bound
  /\ bound' = bound \cup {i}
  /\ UNCHANGED <<claimed, objects, rows, cache, faults, sweep, report, stale>>

(* By a request, or by sweepTTL in the same pass.                          *)
Orphaned(of, i) == [of EXCEPT ![i] = IF @ \in {Own, Bare} THEN Old ELSE @]

DeleteClaim(i) ==
  /\ i \in claimed
  /\ claimed' = claimed \ {i}
  /\ bound' = bound \ {i}
  /\ service' = Orphaned(service, i) /\ ingress' = Orphaned(ingress, i)
  /\ list' = Orphaned(list, i)
  /\ Change(i)
  /\ UNCHANGED <<rows, cache, faults, pc, cycle, next, view, missed, report>>

(* The manager's own writes drop the cache, a pod's registration does not. *)
RowChanges(i) ==
  /\ rows' \in {rows \cup {i}, rows \ {i}} \ {rows}
  /\ cache' \in {cache, Absent}
  /\ Change(i)
  /\ UNCHANGED <<claimed, bound, objects, faults, sweep, report>>

ReadByOther ==
  /\ cache = Absent
  /\ cache' = rows
  /\ stale' = [stale EXCEPT !["cache"] = {}]
  /\ UNCHANGED <<claimed, bound, objects, rows, faults, sweep, report>>

CacheExpires ==
  /\ cache # Absent
  /\ cache' = Absent
  /\ UNCHANGED <<claimed, bound, objects, rows, faults, sweep, report, stale>>

Collect(i) ==
  /\ \/ service[i] = Old /\ service' = [service EXCEPT ![i] = Absent] /\ UNCHANGED ingress
     \/ ingress[i] = Old /\ ingress' = [ingress EXCEPT ![i] = Absent] /\ UNCHANGED service
  /\ UNCHANGED <<claimed, bound, rows, cache, faults, sweep, report, stale>>

-----------------------------------------------------------------------------
(* The sweep                                                               *)

Fails == faults < MaxFaults /\ faults' = faults + 1
Works == UNCHANGED faults

(* ListClaims: the uid and the sandbox of each claim.                      *)
Listing == [i \in Ids |-> IF i \in bound THEN Own ELSE IF i \in claimed THEN Bare ELSE Absent]

SweepList ==
  /\ pc = "rest"
  /\ \/ /\ Works
        /\ pc' = "fetch"
        /\ list' = Listing
        /\ stale' = [stale EXCEPT !["sweep"] = {}]
        /\ UNCHANGED cycle
     \/ /\ Fails
        /\ cycle' = (cycle + 1) % Every
        /\ UNCHANGED <<pc, list, stale>>
  /\ UNCHANGED <<claimed, bound, objects, rows, cache, next, view, missed, report>>

(* Instances.                                                              *)
SweepFetch ==
  /\ pc = "fetch"
  /\ pc' = "service"
  /\ next' = 1
  /\ \/ /\ Works
        /\ cache # Absent
        /\ view' = cache
        /\ stale' = [stale EXCEPT !["sweep"] = @ \cup stale["cache"]]
        /\ UNCHANGED cache
     \/ /\ Works
        /\ cache = Absent
        /\ view' = rows /\ cache' = rows
        /\ stale' = [stale EXCEPT !["cache"] = {}]
     \/ /\ Fails
        /\ cache = Absent
        /\ view' = Absent
        /\ UNCHANGED <<cache, stale>>
  /\ UNCHANGED <<claimed, bound, objects, rows, cycle, list, missed, report>>

(* The loop goes on with the next claim, or ends.                          *)
Proceed == /\ next' = next + 1
           /\ pc' = IF next < Sessions THEN "service" ELSE "report"

Miss == missed' = missed \cup {next}

(* sweepExposure.  The sandbox is read anew: a claim that had none may have*)
(* got one by then, under its own name or another, and that of a claim that*)
(* is gone may still be there, or be that of its successor.                *)
Exposable == list[next] \in {Own, Old} \/ (list[next] = Bare /\ next \in bound)

(* EnsureExposure.                                                         *)
(* Mutant: the owner is whoever has the name now.                          *)
OwnerByName == Own

Owner == IF list[next] = Old THEN Old ELSE Own

(* Mutant: a Service that exists ends the call, with or without its Ingress.*)
ExposeServiceOnce ==
  /\ pc = "service"
  /\ \/ /\ list[next] # Own
        /\ Works /\ Proceed /\ UNCHANGED <<service, missed>>
     \/ /\ Exposable
        /\ Works
        /\ service' = [service EXCEPT ![next] = IF @ = Absent THEN Owner ELSE @]
        /\ IF service[next] = Old THEN Miss ELSE UNCHANGED missed
        /\ IF next \in Dashboard /\ service[next] = Absent
           THEN pc' = "ingress" /\ UNCHANGED next
           ELSE Proceed
     \/ Fails /\ Miss /\ Proceed /\ UNCHANGED service
  /\ UNCHANGED <<claimed, bound, ingress, rows, cache, cycle, list, view, report, stale>>

ExposeService ==
  /\ pc = "service"
  /\ \/ /\ list[next] # Own
        /\ Works /\ Proceed /\ UNCHANGED <<service, missed>>
     \/ /\ Exposable
        /\ Works
        /\ service' = [service EXCEPT ![next] = IF @ = Absent THEN Owner ELSE @]
        /\ IF service[next] = Old THEN Miss ELSE UNCHANGED missed
        /\ IF next \in Dashboard THEN pc' = "ingress" /\ UNCHANGED next ELSE Proceed
     \/ Fails /\ Miss /\ Proceed /\ UNCHANGED service
  /\ UNCHANGED <<claimed, bound, ingress, rows, cache, cycle, list, view, report, stale>>

ExposeIngress ==
  /\ pc = "ingress"
  /\ \/ /\ Works
        /\ ingress' = [ingress EXCEPT ![next] = IF @ = Absent THEN Owner ELSE @]
        /\ IF ingress[next] = Old THEN Miss ELSE UNCHANGED missed
     \/ Fails /\ Miss /\ UNCHANGED ingress
  /\ Proceed
  /\ UNCHANGED <<claimed, bound, service, rows, cache, cycle, list, view, report, stale>>

(* Store.Update of every reconcileEvery-th sweep; without instances none.  *)
Differences(instances) ==
  LET listed == {i \in Ids : list[i] # Absent}
  IN [claimsWithoutInstances |-> (listed \cap Flagged) \ instances,
      instancesWithoutClaims |-> instances \ listed]

(* Mutant: no list is taken for an empty one.                            *)
SweepEndNil ==
  /\ pc = "report"
  /\ report' = IF cycle = 0 THEN Differences(IF view = Absent THEN {} ELSE view) ELSE report
  /\ pc' = "rest"
  /\ cycle' = (cycle + 1) % Every
  /\ next' = 1
  /\ list' = [i \in Ids |-> Absent]
  /\ view' = Absent /\ missed' = {}
  /\ UNCHANGED <<claimed, bound, objects, rows, cache, faults, stale>>

(* Mutant: only the first report is made.                                *)
SweepEndOnce ==
  /\ pc = "report"
  /\ report' = IF report = Absent /\ view # Absent THEN Differences(view) ELSE report
  /\ pc' = "rest"
  /\ cycle' = (cycle + 1) % Every
  /\ next' = 1
  /\ list' = [i \in Ids |-> Absent]
  /\ view' = Absent /\ missed' = {}
  /\ UNCHANGED <<claimed, bound, objects, rows, cache, faults, stale>>

SweepEnd ==
  /\ pc = "report"
  /\ report' = IF cycle = 0 /\ view # Absent THEN Differences(view) ELSE report
  /\ pc' = "rest"
  /\ cycle' = (cycle + 1) % Every
  /\ next' = 1
  /\ list' = [i \in Ids |-> Absent]
  /\ view' = Absent /\ missed' = {}
  /\ UNCHANGED <<claimed, bound, objects, rows, cache, faults, stale>>

(* The manager is started again, and sweeps at once.                       *)
Crash ==
  /\ Fails
  /\ cache' = Absent /\ report' = Absent
  /\ pc' = "rest" /\ cycle' = 0 /\ next' = 1
  /\ list' = [i \in Ids |-> Absent]
  /\ view' = Absent /\ missed' = {}
  /\ UNCHANGED <<claimed, bound, objects, rows, stale>>

-----------------------------------------------------------------------------
Sweep == SweepList \/ SweepFetch \/ ExposeService \/ ExposeIngress \/ SweepEnd

Next == \/ \E i \in Ids : \/ CreateClaim(i) \/ Bind(i) \/ DeleteClaim(i)
                          \/ RowChanges(i) \/ Collect(i)
        \/ ReadByOther \/ CacheExpires
        \/ Sweep \/ Crash

Spec == Init /\ [][Next]_vars

(* The sweep comes round, Kubernetes collects what has lost its owner, and *)
(* the cache expires.                                                      *)
Fairness == /\ WF_vars(Sweep) /\ WF_vars(CacheExpires)
            /\ \A i \in Ids : WF_vars(Collect(i))

FairSpec == Spec /\ Fairness
-----------------------------------------------------------------------------
(* Properties                                                              *)

Exposed(i) == service[i] = Own /\ (i \in Dashboard => ingress[i] = Own)

(* "Each sweep ensures every bound session has its Service and ... its     *)
(* Ingress" (exposure.go:4): a bound session gets objects of its own, or   *)
(* ends, also where one of two creations failed, or objects of an earlier  *)
(* session of the name are in the way.                                     *)
ExposureFollows == \A i \in Ids : i \in bound ~> Exposed(i) \/ i \notin bound

(* "Each sweep ensures every bound session has its Service ... and ... its *)
(* Ingress": at the end of a sweep each session it listed as bound, and    *)
(* that is still there, has both, unless a call of its turn failed or an   *)
(* object of an earlier session of the name was in the way.                *)
SweepExposes ==
  pc = "report" => \A i \in Ids \ missed : list[i] = Own => Exposed(i)

(* The report is about what is: a session that has not changed, on either  *)
(* side, since the older of the two lists was taken is reported if and only*)
(* if the sides differ; no list is no report ("skips the update rather than*)
(* reporting garbage", reconcile.go:34).                                   *)
Made == pc = "report" /\ pc' = "rest" /\ report' # Absent
        /\ (report' # report \/ (cycle = 0 /\ view # Absent))

ReportIsExact ==
  [][Made => \A i \in Ids \ stale["sweep"] :
       /\ i \in report'.claimsWithoutInstances <=> i \in (claimed \cap Flagged) \ rows
       /\ i \in report'.instancesWithoutClaims <=> i \in rows \ claimed]_vars

(* Drift that stays, in either direction, is reported in the end, and    *)
(* stays reported.                                                         *)
DriftReported ==
  \A i \in Ids :
    /\ <>[](i \in rows \ claimed)
         => <>[](report # Absent /\ i \in report.instancesWithoutClaims)
    /\ <>[](i \in (claimed \cap Flagged) \ rows)
         => <>[](report # Absent /\ i \in report.claimsWithoutInstances)
=============================================================================
