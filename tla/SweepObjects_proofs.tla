------------------------ MODULE SweepObjects_proofs ------------------------
(***************************************************************************)
(* Proofs about SweepObjects, for every number of sessions, of sweeps      *)
(* between two reports and of faults: the type invariant, which says that  *)
(* nobody holds an object of a claim that is not there, and that a report  *)
(* errs only in what changed since its lists were taken.                   *)
(***************************************************************************)
EXTENDS SweepObjects, TLAPS

-----------------------------------------------------------------------------
(* The inductive invariant behind ReportIsExact: a list, the one the cache *)
(* keeps included, differs from what there is only in what is stale.       *)
ListInv ==
  /\ pc # "rest" => \A i \in Ids \ stale["sweep"] : list[i] # Absent <=> i \in claimed
  /\ pc \notin {"rest", "fetch"} /\ view # Absent
       => \A i \in Ids \ stale["sweep"] : i \in view <=> i \in rows
  /\ cache # Absent => \A i \in Ids \ stale["cache"] : i \in cache <=> i \in rows

(* ... and behind SweepExposes: what had its turn, or the first half of it,*)
(* keeps the objects it got for as long as the session is the one listed.  *)
Served(i) == i < next \/ pc = "report"

ExposedInv ==
  pc \in {"service", "ingress", "report"} =>
    \A i \in Ids \ missed : list[i] = Own =>
       /\ Served(i) => Exposed(i)
       /\ pc = "ingress" /\ i = next => service[i] = Own

-----------------------------------------------------------------------------
(* Every step keeps the variables in their types.                          *)
LEMMA NextTypeOK == TypeOK /\ [Next]_vars => TypeOK'
<1> SUFFICES ASSUME TypeOK, [Next]_vars PROVE TypeOK'
  OBVIOUS
<1> USE IdsAssumption, BoundsAssumption, AbsentAssumption
    DEF TypeOK, Ids, Own, Old, Bare, objects, sweep
<1>a. /\ Fails => faults' \in 0 .. MaxFaults
      /\ Works => faults' \in 0 .. MaxFaults
  BY DEF Fails, Works
<1>b. (cycle + 1) % Every \in 0 .. Every - 1
  OBVIOUS
<1>1. ASSUME NEW i \in Ids, CreateClaim(i) PROVE TypeOK'
  BY <1>1 DEF CreateClaim, Change
<1>2. ASSUME NEW i \in Ids, Bind(i) PROVE TypeOK'
  BY <1>2 DEF Bind
<1>3. ASSUME NEW i \in Ids, DeleteClaim(i) PROVE TypeOK'
  BY <1>3 DEF DeleteClaim, Orphaned, Change
<1>4. ASSUME NEW i \in Ids, RowChanges(i) PROVE TypeOK'
  BY <1>4 DEF RowChanges, Change
<1>5. ASSUME NEW i \in Ids, Collect(i) PROVE TypeOK'
  BY <1>5 DEF Collect
<1>6. ASSUME ReadByOther PROVE TypeOK'
  BY <1>6 DEF ReadByOther
<1>7. ASSUME CacheExpires PROVE TypeOK'
  BY <1>7 DEF CacheExpires
<1>8. ASSUME SweepList PROVE TypeOK'
  BY <1>8, <1>a, <1>b DEF SweepList, Listing
<1>9. ASSUME SweepFetch PROVE TypeOK'
  <2>1. /\ faults' \in 0 .. MaxFaults
        /\ view' = Absent \/ view' \subseteq Ids
        /\ cache' = Absent \/ cache' \subseteq Ids
    BY <1>9, <1>a DEF SweepFetch
  <2>2. stale' \in [{"sweep", "cache"} -> SUBSET Ids]
    BY <1>9 DEF SweepFetch
  <2> QED
    BY <1>9, <2>1, <2>2 DEF SweepFetch
<1>10. ASSUME ExposeService PROVE TypeOK'
  <2>1. /\ faults' \in 0 .. MaxFaults
        /\ missed' \subseteq Ids
    BY <1>10, <1>a DEF ExposeService, Miss
  <2>2. /\ next' \in 1 .. Sessions + 1 /\ (pc' \in {"service", "ingress"} => next' \in Ids)
        /\ pc' \in {"service", "ingress", "report"}
        /\ pc' = "ingress" => list[next'] # Absent
    BY <1>10 DEF ExposeService, Exposable, Proceed
  <2>3. /\ service' \in [Ids -> {Own, Old, Absent}]
        /\ \A i \in Ids \ claimed : service'[i] \in {Old, Absent}
    BY <1>10 DEF ExposeService, Exposable, Owner
  <2> QED
    BY <1>10, <2>1, <2>2, <2>3 DEF ExposeService
<1>11. ASSUME ExposeIngress PROVE TypeOK'
  <2>1. /\ faults' \in 0 .. MaxFaults
        /\ next' \in 1 .. Sessions + 1 /\ (pc' = "service" => next' \in Ids)
        /\ pc' \in {"service", "report"}
    BY <1>11, <1>a DEF ExposeIngress, Proceed
  <2>3. missed' \subseteq Ids
    BY <1>11 DEF ExposeIngress, Miss
  <2>2. /\ ingress' \in [Ids -> {Own, Old, Absent}]
        /\ \A i \in Ids \ claimed : ingress'[i] \in {Old, Absent}
    BY <1>11 DEF ExposeIngress, Owner
  <2> QED
    BY <1>11, <2>1, <2>2, <2>3 DEF ExposeIngress
<1>12. ASSUME SweepEnd PROVE TypeOK'
  BY <1>12, <1>b DEF SweepEnd, Differences, Report
<1>13. ASSUME Crash PROVE TypeOK'
  BY <1>13, <1>a DEF Crash
<1>14. ASSUME UNCHANGED vars PROVE TypeOK'
  BY <1>14 DEF vars
<1> QED
  BY <1>1, <1>2, <1>3, <1>4, <1>5, <1>6, <1>7, <1>8, <1>9, <1>10, <1>11, <1>12,
     <1>13, <1>14 DEF Next, Sweep

(* The objects and the report of a sweep keep their types: an object, and  *)
(* a list, hold the uid of a claim only while it is there.                 *)
THEOREM TypeCorrect == Spec => []TypeOK
<1>1. Init => TypeOK
  BY IdsAssumption, BoundsAssumption, AbsentAssumption DEF Init, TypeOK, Ids
<1> QED
  BY <1>1, NextTypeOK, PTL DEF Spec

-----------------------------------------------------------------------------
(* Every step keeps the lists true of what is not stale.                   *)
LEMMA NextList == TypeOK /\ ListInv /\ [Next]_vars => ListInv'
<1> SUFFICES ASSUME TypeOK, ListInv, [Next]_vars PROVE ListInv'
  OBVIOUS
<1> USE AbsentAssumption DEF ListInv, objects, sweep
<1>a. /\ stale \in [{"sweep", "cache"} -> SUBSET Ids]
      /\ list \in [Ids -> {Own, Old, Bare, Absent}]
      /\ bound \subseteq claimed
  BY DEF TypeOK
<1>1. ASSUME NEW i \in Ids, CreateClaim(i) PROVE ListInv'
  BY <1>1, <1>a DEF CreateClaim, Change
<1>2. ASSUME NEW i \in Ids, Bind(i) PROVE ListInv'
  BY <1>2 DEF Bind
<1>3. ASSUME NEW i \in Ids, DeleteClaim(i) PROVE ListInv'
  BY <1>3, <1>a DEF DeleteClaim, Orphaned, Change
<1>4. ASSUME NEW i \in Ids, RowChanges(i) PROVE ListInv'
  BY <1>4, <1>a DEF RowChanges, Change
<1>5. ASSUME NEW i \in Ids, Collect(i) PROVE ListInv'
  BY <1>5 DEF Collect
<1>6. ASSUME ReadByOther PROVE ListInv'
  BY <1>6, <1>a DEF ReadByOther
<1>7. ASSUME CacheExpires PROVE ListInv'
  BY <1>7 DEF CacheExpires
<1>8. ASSUME SweepList PROVE ListInv'
  BY <1>8, <1>a DEF SweepList, Listing, Own, Bare
<1>9. ASSUME SweepFetch PROVE ListInv'
  BY <1>9, <1>a DEF SweepFetch
<1>10. ASSUME ExposeService PROVE ListInv'
  BY <1>10 DEF ExposeService, Proceed
<1>11. ASSUME ExposeIngress PROVE ListInv'
  BY <1>11 DEF ExposeIngress, Proceed
<1>12. ASSUME SweepEnd PROVE ListInv'
  BY <1>12 DEF SweepEnd
<1>13. ASSUME Crash PROVE ListInv'
  BY <1>13 DEF Crash
<1>14. ASSUME UNCHANGED vars PROVE ListInv'
  BY <1>14 DEF vars
<1> QED
  BY <1>1, <1>2, <1>3, <1>4, <1>5, <1>6, <1>7, <1>8, <1>9, <1>10, <1>11, <1>12,
     <1>13, <1>14 DEF Next, Sweep

(* The report comes from a list of instances, and is made at the end only. *)
LEMMA MadeBySweepEnd ==
  ASSUME Next, Made
  PROVE  SweepEnd /\ cycle = 0 /\ view # Absent
<1>1. ASSUME NEW i \in Ids,
             CreateClaim(i) \/ Bind(i) \/ DeleteClaim(i) \/ RowChanges(i) \/ Collect(i)
      PROVE  FALSE
  BY <1>1 DEF CreateClaim, Bind, DeleteClaim, RowChanges, Collect, Made, sweep
<1>2. ~(ReadByOther \/ CacheExpires)
  BY DEF ReadByOther, CacheExpires, Made, sweep
<1>3. ~(SweepList \/ SweepFetch \/ ExposeService \/ ExposeIngress)
  BY DEF SweepList, SweepFetch, ExposeService, ExposeIngress, Made
<1>4. ~Crash
  BY DEF Crash, Made
<1>5. SweepEnd
  BY <1>1, <1>2, <1>3, <1>4 DEF Next, Sweep
<1> QED
  BY <1>5 DEF SweepEnd, Made

(* A session that has not changed, on either side, since the older of the  *)
(* two lists was taken is in the report if and only if the sides differ    *)
(* (reconcile.go:35).                                                      *)
THEOREM ReportsExact == Spec => ReportIsExact
<1>1. Init => ListInv
  BY DEF Init, ListInv
<1>2. TypeOK /\ ListInv /\ [Next]_vars
        => [Made => \A i \in Ids \ stale["sweep"] :
              /\ i \in report'.claimsWithoutInstances <=> i \in (claimed \cap Flagged) \ rows
              /\ i \in report'.instancesWithoutClaims <=> i \in rows \ claimed]_vars
  <2> SUFFICES ASSUME TypeOK, ListInv, Next, Made, NEW i \in Ids \ stale["sweep"]
               PROVE  /\ i \in report'.claimsWithoutInstances <=> i \in (claimed \cap Flagged) \ rows
                      /\ i \in report'.instancesWithoutClaims <=> i \in rows \ claimed
    OBVIOUS
  <2>1. SweepEnd /\ cycle = 0 /\ view # Absent
    BY MadeBySweepEnd
  <2>2. report' = Differences(view)
    BY <2>1 DEF SweepEnd
  <2>3. /\ list[i] # Absent <=> i \in claimed
        /\ i \in view <=> i \in rows
    BY <2>1 DEF SweepEnd, ListInv
  <2> QED
    BY <2>2, <2>3 DEF Differences
<1> QED
  BY <1>1, <1>2, NextList, TypeCorrect, PTL DEF Spec, ReportIsExact

(* With the loop's next claim one more has had its turn, with the last all.*)
LEMMA ProceedServes ==
  ASSUME Proceed, next \in Ids, pc \in {"service", "ingress"}
  PROVE  /\ pc' \in {"service", "report"}
         /\ \A i \in Ids : Served(i)' => Served(i) \/ i = next
BY IdsAssumption DEF Proceed, Served, Ids

(* Every step keeps the objects of the sessions that had their turn.       *)
LEMMA NextExposed == TypeOK /\ ExposedInv /\ [Next]_vars => ExposedInv'
<1> SUFFICES ASSUME TypeOK, ExposedInv, [Next]_vars PROVE ExposedInv'
  OBVIOUS
<1> USE DEF ExposedInv, Exposed, Served, objects, sweep
<1>a. /\ list \in [Ids -> {Own, Old, Bare, Absent}]
      /\ service \in [Ids -> {Own, Old, Absent}]
      /\ ingress \in [Ids -> {Own, Old, Absent}]
      /\ Own # Old /\ Bare # Own /\ Absent \notin {Own, Old, Bare}
      /\ Ids \subseteq Int /\ next \in Int
      /\ pc \in {"rest", "fetch", "service", "ingress", "report"}
  BY AbsentAssumption DEF TypeOK, Own, Old, Bare, Ids
<1>b. pc \in {"service", "ingress"} => next \in Ids
  BY DEF TypeOK
<1>1. ASSUME NEW i \in Ids, CreateClaim(i) PROVE ExposedInv'
  BY <1>1 DEF CreateClaim
<1>2. ASSUME NEW i \in Ids, Bind(i) PROVE ExposedInv'
  BY <1>2 DEF Bind
<1>3. ASSUME NEW i \in Ids, DeleteClaim(i) PROVE ExposedInv'
  <2>1. /\ list'[i] # Own
        /\ \A j \in Ids : j # i => /\ list'[j] = list[j]
                                   /\ service'[j] = service[j] /\ ingress'[j] = ingress[j]
    BY <1>3, <1>a DEF DeleteClaim, Orphaned
  <2> QED
    BY <1>3, <2>1 DEF DeleteClaim
<1>4. ASSUME NEW i \in Ids, RowChanges(i) PROVE ExposedInv'
  BY <1>4 DEF RowChanges
<1>5. ASSUME NEW i \in Ids, Collect(i) PROVE ExposedInv'
  <2>1. \A j \in Ids : /\ service[j] = Own => service'[j] = Own
                       /\ ingress[j] = Own => ingress'[j] = Own
    BY <1>5, <1>a DEF Collect
  <2> QED
    BY <1>5, <2>1 DEF Collect
<1>6. ASSUME ReadByOther PROVE ExposedInv'
  BY <1>6 DEF ReadByOther
<1>7. ASSUME CacheExpires PROVE ExposedInv'
  BY <1>7 DEF CacheExpires
<1>8. ASSUME SweepList PROVE ExposedInv'
  BY <1>8 DEF SweepList
<1>9. ASSUME SweepFetch PROVE ExposedInv'
  BY <1>9 DEF SweepFetch, Ids
<1>10. ASSUME ExposeService PROVE ExposedInv'
  <2>1. /\ list' = list /\ ingress' = ingress /\ pc = "service" /\ next \in Ids
        /\ missed \subseteq missed'
    BY <1>10, <1>b DEF ExposeService, Miss
  <2>2. \A i \in Ids \ {next} : service'[i] = service[i]
    BY <1>10, <1>a DEF ExposeService
  <2>3. ASSUME list[next] = Own, next \notin missed'
        PROVE  /\ service'[next] = Own
               /\ next \notin Dashboard \/ (pc' = "ingress" /\ next' = next)
    BY <1>10, <1>a, <2>1, <2>3 DEF ExposeService, Miss, Owner
  <2>4. \/ pc' = "ingress" /\ next' = next
        \/ Proceed
    BY <1>10 DEF ExposeService
  <2> QED
    BY <2>1, <2>2, <2>3, <2>4, ProceedServes
<1>11. ASSUME ExposeIngress PROVE ExposedInv'
  <2>1. /\ list' = list /\ service' = service /\ pc = "ingress" /\ next \in Ids
        /\ missed \subseteq missed' /\ Proceed
    BY <1>11, <1>b DEF ExposeIngress, Miss
  <2>2. \A i \in Ids \ {next} : ingress'[i] = ingress[i]
    BY <1>11, <1>a DEF ExposeIngress
  <2>3. ASSUME list[next] = Own, next \notin missed'
        PROVE  service'[next] = Own /\ ingress'[next] = Own
    BY <1>11, <1>a, <2>1, <2>3 DEF ExposeIngress, Miss, Owner
  <2> QED
    BY <2>1, <2>2, <2>3, ProceedServes
<1>12. ASSUME SweepEnd PROVE ExposedInv'
  BY <1>12 DEF SweepEnd
<1>13. ASSUME Crash PROVE ExposedInv'
  BY <1>13 DEF Crash
<1>14. ASSUME UNCHANGED vars PROVE ExposedInv'
  BY <1>14 DEF vars
<1> QED
  BY <1>1, <1>2, <1>3, <1>4, <1>5, <1>6, <1>7, <1>8, <1>9, <1>10, <1>11, <1>12,
     <1>13, <1>14 DEF Next, Sweep

(* A sweep that failed at none of a session's calls, and met no object of  *)
(* an earlier session of its name, leaves it with a Service and an Ingress *)
(* of its own, however claims come and go meanwhile (exposure.go:4).       *)
THEOREM Exposes == Spec => []SweepExposes
<1>1. Init => ExposedInv
  BY DEF Init, ExposedInv
<1>2. TypeOK /\ ExposedInv /\ [Next]_vars => ExposedInv'
  BY NextExposed
<1>3. ExposedInv => SweepExposes
  BY DEF ExposedInv, Served, SweepExposes
<1> QED
  BY <1>1, <1>2, <1>3, TypeCorrect, PTL DEF Spec
=============================================================================
