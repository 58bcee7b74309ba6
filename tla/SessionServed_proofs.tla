------------------------ MODULE SessionServed_proofs ------------------------
(***************************************************************************)
(* What a 201 promised stays true: SessionLifecycle's AckedSessionServed,  *)
(* for clients that do not use an id again.  It is ServedInv, relative to  *)
(* the invariants BaseInv and OnceInv of SessionLifecycle_proofs.          *)
(***************************************************************************)
EXTENDS SessionLifecycle_proofs

-----------------------------------------------------------------------------
(* The inductive invariant behind AckedSessionServed                       *)

(* Why a claim is terminating: somebody wants it gone, or a rollback.       *)
TermInv ==
  \A id \in Ids : claims[id].term =>
     \/ claims[id].uid \in Doomed
     \/ /\ claims[id].uid \notin created
        /\ \A h \in Handlers : Opening(h) => inc[h] # claims[id].uid

(* A session being opened is not announced yet.                            *)
UnannouncedInv == \A h \in Handlers : Opening(h) => inc[h] \notin created

(* The loop over the chats starts from none and ends with all.             *)
BoundInv ==
  \A h \in Handlers :
     /\ pc[h] \in {"idle", "provision"} => bound[h] = {}
     /\ pc[h] = "get" => bound[h] = chats[h]

GatewayInv ==
  \A h \in Handlers :
     /\ pc[h] \in {"route", "get"}
     /\ claims[cur[h]].conn
     /\ inc[h] \notin Doomed
     => instances[cur[h]] = "wake" /\ bound[h] \subseteq routes[cur[h]]

(* The session a 201 is about has its claim, and no other create's uid.    *)
AnnouncedInv ==
  \A h \in Handlers : pc[h] = "created" =>
     /\ inc[h] < nextUid
     /\ \A g \in Handlers : Opening(g) => inc[g] # inc[h]
     /\ inc[h] \in created \ Doomed => cur[h] \in Ids /\ claims[cur[h]].uid = inc[h]

ServedInv == /\ TermInv /\ UnannouncedInv /\ BoundInv /\ GatewayInv /\ AnnouncedInv
             /\ AckedSessionServed

-----------------------------------------------------------------------------
(* The steps, as far as a promise is concerned.                            *)

(* A session is announced by the handler that opened it.                   *)
LEMMA CreatedStep ==
  ASSUME TypeOK, [Next]_vars
  PROVE  \/ created' = created
         \/ \E h \in Handlers :
              /\ pc[h] = "get" /\ pc'[h] = "created"
              /\ claims[cur[h]].uid # 0 /\ claims[cur[h]].conn /\ inc[h] \notin Doomed
              /\ created' = created \cup {inc[h]}
              /\ \A g \in Handlers : g # h => pc'[g] = pc[g]
              /\ UNCHANGED <<store, elapsed, asked, purged, cur, inc, chats, bound>>
<1> DEFINE Goal ==
         \/ created' = created
         \/ \E h \in Handlers :
              /\ pc[h] = "get" /\ pc'[h] = "created"
              /\ claims[cur[h]].uid # 0 /\ claims[cur[h]].conn /\ inc[h] \notin Doomed
              /\ created' = created \cup {inc[h]}
              /\ \A g \in Handlers : g # h => pc'[g] = pc[g]
              /\ UNCHANGED <<store, elapsed, asked, purged, cur, inc, chats, bound>>
<1> SUFFICES Goal
  OBVIOUS
<1> USE DEF TypeOK, LocalType, Procs, Goto
<1>1. ASSUME NEW h \in Handlers, NEW id \in Ids,
             HandleDelete(h, id)
      PROVE  Goal
  BY <1>1 DEF HandleDelete, Read, history, store, local, client
<1>2. ASSUME NEW h \in Handlers, NEW id \in Ids, NEW conn \in BOOLEAN, NEW mortal \in BOOLEAN,
             NEW bind \in SUBSET Chats,
             HandleCreate(h, id, conn, mortal, bind)
      PROVE  Goal
  BY <1>2 DEF HandleCreate, history, store, local, client
<1>3. ASSUME NEW h \in Handlers,
             Provision(h)
      PROVE  Goal
  BY <1>3 DEF Provision, Provisioned, history, store, local, client
<1>4. ASSUME NEW h \in Handlers,
             SetRoute(h)
      PROVE  Goal
  BY <1>4 DEF SetRoute, history, store, local, client
<1>5. ASSUME NEW h \in Handlers,
             RollbackInstance(h)
      PROVE  Goal
  BY <1>5 DEF RollbackInstance, Purged, history, store, local, client
<1>6. ASSUME NEW h \in Handlers,
             RollbackClaim(h)
      PROVE  Goal
  BY <1>6 DEF RollbackClaim, history, store, local, client
<1>7. ASSUME NEW h \in Handlers,
             GetCreated(h)
      PROVE  Goal
  BY <1>7 DEF GetCreated, history, store, local, client
<1>8. ASSUME NEW p \in Procs,
             PurgeInstance(p)
      PROVE  Goal
  BY <1>8 DEF PurgeInstance, Purged, Return, history, store, local, client
<1>9. ASSUME NEW p \in Procs,
             DeleteClaim(p)
      PROVE  Goal
  BY <1>9 DEF DeleteClaim, Return, history, store, local, client
<1>10. ASSUME NEW h \in Handlers,
             Answer(h)
      PROVE  Goal
  BY <1>10 DEF Answer, history, store, local, client
<1>11. ASSUME NEW s \in Sweepers,
             SweepList(s)
      PROVE  Goal
  BY <1>11 DEF SweepList, history, store, local, client
<1>12. ASSUME NEW s \in Sweepers,
             SweepFetch(s)
      PROVE  Goal
  BY <1>12 DEF SweepFetch, history, store, local, client
<1>13. ASSUME NEW s \in Sweepers, NEW id \in Ids,
             SweepTTL(s, id)
      PROVE  Goal
  BY <1>13 DEF SweepTTL, Read, history, store, local, client
<1>14. ASSUME NEW s \in Sweepers,
             SweepEnd(s)
      PROVE  Goal
  BY <1>14 DEF SweepEnd, history, store, local, client
<1>15. ASSUME WindowEnds PROVE Goal
  BY <1>15 DEF WindowEnds, history, store, local, client
<1>16. ASSUME NEW id \in Ids,
             TTLElapses(id)
      PROVE  Goal
  BY <1>16 DEF TTLElapses, history, store, local, client
<1>17. ASSUME NEW id \in Ids,
             ClaimGone(id)
      PROVE  Goal
  BY <1>17 DEF ClaimGone, history, store, local, client
<1>18. ASSUME NEW id \in Ids,
             PodBoot(id)
      PROVE  Goal
  BY <1>18 DEF PodBoot, history, store, local, client
<1>19. ASSUME Crash PROVE Goal
  BY <1>19 DEF Crash, history, store, local, client
<1>20. ASSUME UNCHANGED vars PROVE Goal
  BY <1>20 DEF vars, history, store, local, client
<1> QED
  BY <1>1, <1>2, <1>3, <1>4, <1>5, <1>6, <1>7, <1>8, <1>9, <1>10, <1>11, <1>12,
     <1>13, <1>14, <1>15, <1>16, <1>17, <1>18, <1>19, <1>20
     DEF Next, Serve, Sweep, World

(* Only a rollback or a purge takes a gateway or a chat away.              *)
LEMMA RelayStep ==
  ASSUME TypeOK, [Next]_vars, NEW i \in Ids
  PROVE  \/ /\ instances[i] = "wake" => instances'[i] = "wake"
            /\ routes[i] \subseteq routes'[i]
         \/ /\ UNCHANGED <<claims, used, nextUid, elapsed, asked, created>>
            /\ \E h \in Handlers : /\ pc[h] = "rbInst" /\ cur[h] = i
                                   /\ pc'[h] = "rbClaim"
                                   /\ UNCHANGED <<cur, inc, chats, bound>>
         \/ /\ UNCHANGED <<claims, used, nextUid, elapsed, asked, created>>
            /\ \E p \in Procs : Deleting(p) /\ cur[p] = i
<1> DEFINE Goal ==
         \/ /\ instances[i] = "wake" => instances'[i] = "wake"
            /\ routes[i] \subseteq routes'[i]
         \/ /\ UNCHANGED <<claims, used, nextUid, elapsed, asked, created>>
            /\ \E h \in Handlers : /\ pc[h] = "rbInst" /\ cur[h] = i
                                   /\ pc'[h] = "rbClaim"
                                   /\ UNCHANGED <<cur, inc, chats, bound>>
         \/ /\ UNCHANGED <<claims, used, nextUid, elapsed, asked, created>>
            /\ \E p \in Procs : Deleting(p) /\ cur[p] = i
<1> SUFFICES Goal
  OBVIOUS
<1> USE DEF TypeOK, StoreType, LocalType, Procs, Goto, Deleting
<1>1. ASSUME NEW h \in Handlers, NEW id \in Ids,
             HandleDelete(h, id)
      PROVE  Goal
  BY <1>1 DEF HandleDelete, Read, history, store, local, client
<1>2. ASSUME NEW h \in Handlers, NEW id \in Ids, NEW conn \in BOOLEAN, NEW mortal \in BOOLEAN,
             NEW bind \in SUBSET Chats,
             HandleCreate(h, id, conn, mortal, bind)
      PROVE  Goal
  BY <1>2 DEF HandleCreate, history, store, local, client
<1>3. ASSUME NEW h \in Handlers,
             Provision(h)
      PROVE  Goal
  BY <1>3 DEF Provision, Provisioned, history, store, local, client
<1>4. ASSUME NEW h \in Handlers,
             SetRoute(h)
      PROVE  Goal
  BY <1>4 DEF SetRoute, history, store, local, client
<1>5. ASSUME NEW h \in Handlers,
             RollbackInstance(h)
      PROVE  Goal
  BY <1>5 DEF RollbackInstance, Purged, history, store, local, client
<1>6. ASSUME NEW h \in Handlers,
             RollbackClaim(h)
      PROVE  Goal
  BY <1>6 DEF RollbackClaim, history, store, local, client
<1>7. ASSUME NEW h \in Handlers,
             GetCreated(h)
      PROVE  Goal
  BY <1>7 DEF GetCreated, history, store, local, client
<1>8. ASSUME NEW p \in Procs,
             PurgeInstance(p)
      PROVE  Goal
  BY <1>8 DEF PurgeInstance, Purged, Return, history, store, local, client
<1>9. ASSUME NEW p \in Procs,
             DeleteClaim(p)
      PROVE  Goal
  BY <1>9 DEF DeleteClaim, Return, history, store, local, client
<1>10. ASSUME NEW h \in Handlers,
             Answer(h)
      PROVE  Goal
  BY <1>10 DEF Answer, history, store, local, client
<1>11. ASSUME NEW s \in Sweepers,
             SweepList(s)
      PROVE  Goal
  BY <1>11 DEF SweepList, history, store, local, client
<1>12. ASSUME NEW s \in Sweepers,
             SweepFetch(s)
      PROVE  Goal
  BY <1>12 DEF SweepFetch, history, store, local, client
<1>13. ASSUME NEW s \in Sweepers, NEW id \in Ids,
             SweepTTL(s, id)
      PROVE  Goal
  BY <1>13 DEF SweepTTL, Read, history, store, local, client
<1>14. ASSUME NEW s \in Sweepers,
             SweepEnd(s)
      PROVE  Goal
  BY <1>14 DEF SweepEnd, history, store, local, client
<1>15. ASSUME WindowEnds PROVE Goal
  BY <1>15 DEF WindowEnds, history, store, local, client
<1>16. ASSUME NEW id \in Ids,
             TTLElapses(id)
      PROVE  Goal
  BY <1>16 DEF TTLElapses, history, store, local, client
<1>17. ASSUME NEW id \in Ids,
             ClaimGone(id)
      PROVE  Goal
  BY <1>17 DEF ClaimGone, history, store, local, client
<1>18. ASSUME NEW id \in Ids,
             PodBoot(id)
      PROVE  Goal
  BY <1>18 DEF PodBoot, history, store, local, client
<1>19. ASSUME Crash PROVE Goal
  BY <1>19 DEF Crash, history, store, local, client
<1>20. ASSUME UNCHANGED vars PROVE Goal
  BY <1>20 DEF vars, history, store, local, client
<1> QED
  BY <1>1, <1>2, <1>3, <1>4, <1>5, <1>6, <1>7, <1>8, <1>9, <1>10, <1>11, <1>12,
     <1>13, <1>14, <1>15, <1>16, <1>17, <1>18, <1>19, <1>20
     DEF Next, Serve, Sweep, World

(* How a create comes to its route loop and to its Get.                    *)
LEMMA GatewayStep ==
  ASSUME TypeOK, [Next]_vars, \A h \in Handlers : Opening(h) => cur[h] \in Ids,
         NEW q \in Handlers, pc'[q] \in {"route", "get"}
  PROVE  \/ /\ pc[q] \in {"route", "get"}
            /\ cur'[q] = cur[q] /\ inc'[q] = inc[q]
            /\ bound'[q] \subseteq bound[q] \cup routes'[cur[q]]
         \/ /\ pc[q] = "provision"
            /\ cur'[q] = cur[q] /\ inc'[q] = inc[q] /\ bound'[q] = bound[q]
            /\ instances'[cur[q]] = "wake"
         \/ ~claims'[cur'[q]].conn
<1> DEFINE Goal ==
         \/ /\ pc[q] \in {"route", "get"}
            /\ cur'[q] = cur[q] /\ inc'[q] = inc[q]
            /\ bound'[q] \subseteq bound[q] \cup routes'[cur[q]]
         \/ /\ pc[q] = "provision"
            /\ cur'[q] = cur[q] /\ inc'[q] = inc[q] /\ bound'[q] = bound[q]
            /\ instances'[cur[q]] = "wake"
         \/ ~claims'[cur'[q]].conn
<1> SUFFICES Goal
  OBVIOUS
<1> USE DEF TypeOK, StoreType, LocalType, Procs, Goto, Replies
<1>1. ASSUME NEW h \in Handlers, NEW id \in Ids,
             HandleDelete(h, id)
      PROVE  Goal
  BY <1>1 DEF HandleDelete, Read, Opening, history, store, local, client
<1>2. ASSUME NEW h \in Handlers, NEW id \in Ids, NEW conn \in BOOLEAN, NEW mortal \in BOOLEAN,
             NEW bind \in SUBSET Chats,
             HandleCreate(h, id, conn, mortal, bind)
      PROVE  Goal
  <2>1. claims[id].uid = 0 /\ NewClaim(id, conn, mortal) => claims'[id].conn = conn
    BY NewClaimFacts
  <2> QED
    BY <1>2, <2>1 DEF HandleCreate, store, local, client
<1>3. ASSUME NEW h \in Handlers,
             Provision(h)
      PROVE  Goal
  BY <1>3 DEF Provision, Provisioned, Opening, history, store, local, client
<1>4. ASSUME NEW h \in Handlers,
             SetRoute(h)
      PROVE  Goal
  BY <1>4 DEF SetRoute, Opening, history, store, local, client
<1>5. ASSUME NEW h \in Handlers,
             RollbackInstance(h)
      PROVE  Goal
  BY <1>5 DEF RollbackInstance, Purged, Opening, history, store, local, client
<1>6. ASSUME NEW h \in Handlers,
             RollbackClaim(h)
      PROVE  Goal
  BY <1>6 DEF RollbackClaim, Opening, history, store, local, client
<1>7. ASSUME NEW h \in Handlers,
             GetCreated(h)
      PROVE  Goal
  BY <1>7 DEF GetCreated, Opening, history, store, local, client
<1>8. ASSUME NEW p \in Procs,
             PurgeInstance(p)
      PROVE  Goal
  BY <1>8 DEF PurgeInstance, Purged, Return, Opening, history, store, local, client
<1>9. ASSUME NEW p \in Procs,
             DeleteClaim(p)
      PROVE  Goal
  BY <1>9 DEF DeleteClaim, Return, Opening, history, store, local, client
<1>10. ASSUME NEW h \in Handlers,
             Answer(h)
      PROVE  Goal
  BY <1>10 DEF Answer, Opening, history, store, local, client
<1>11. ASSUME NEW s \in Sweepers,
             SweepList(s)
      PROVE  Goal
  BY <1>11 DEF SweepList, Opening, history, store, local, client
<1>12. ASSUME NEW s \in Sweepers,
             SweepFetch(s)
      PROVE  Goal
  BY <1>12 DEF SweepFetch, Opening, history, store, local, client
<1>13. ASSUME NEW s \in Sweepers, NEW id \in Ids,
             SweepTTL(s, id)
      PROVE  Goal
  BY <1>13 DEF SweepTTL, Read, Opening, history, store, local, client
<1>14. ASSUME NEW s \in Sweepers,
             SweepEnd(s)
      PROVE  Goal
  BY <1>14 DEF SweepEnd, Opening, history, store, local, client
<1>15. ASSUME WindowEnds PROVE Goal
  BY <1>15 DEF WindowEnds, Opening, history, store, local, client
<1>16. ASSUME NEW id \in Ids,
             TTLElapses(id)
      PROVE  Goal
  BY <1>16 DEF TTLElapses, Opening, history, store, local, client
<1>17. ASSUME NEW id \in Ids,
             ClaimGone(id)
      PROVE  Goal
  BY <1>17 DEF ClaimGone, Opening, history, store, local, client
<1>18. ASSUME NEW id \in Ids,
             PodBoot(id)
      PROVE  Goal
  BY <1>18 DEF PodBoot, Opening, history, store, local, client
<1>19. ASSUME Crash PROVE Goal
  BY <1>19 DEF Crash, Opening, history, store, local, client
<1>20. ASSUME UNCHANGED vars PROVE Goal
  BY <1>20 DEF vars, Opening, history, store, local, client
<1> QED
  BY <1>1, <1>2, <1>3, <1>4, <1>5, <1>6, <1>7, <1>8, <1>9, <1>10, <1>11, <1>12,
     <1>13, <1>14, <1>15, <1>16, <1>17, <1>18, <1>19, <1>20
     DEF Next, Serve, Sweep, World

(* How a create comes to its answer 201.                                   *)
LEMMA ReplyStep ==
  ASSUME TypeOK, [Next]_vars, NEW q \in Handlers, pc'[q] = "created"
  PROVE  \/ /\ pc[q] = "created"
            /\ cur'[q] = cur[q] /\ inc'[q] = inc[q] /\ chats'[q] = chats[q]
         \/ /\ pc[q] = "get" /\ claims[cur[q]].uid # 0
            /\ created' = IF claims[cur[q]].conn /\ inc[q] \notin Doomed
                          THEN created \cup {inc[q]} ELSE created
            /\ \A g \in Handlers : g # q => pc'[g] = pc[g]
            /\ UNCHANGED <<store, elapsed, asked, cur, inc, chats, bound>>
<1> DEFINE Goal ==
         \/ /\ pc[q] = "created"
            /\ cur'[q] = cur[q] /\ inc'[q] = inc[q] /\ chats'[q] = chats[q]
         \/ /\ pc[q] = "get" /\ claims[cur[q]].uid # 0
            /\ created' = IF claims[cur[q]].conn /\ inc[q] \notin Doomed
                          THEN created \cup {inc[q]} ELSE created
            /\ \A g \in Handlers : g # q => pc'[g] = pc[g]
            /\ UNCHANGED <<store, elapsed, asked, cur, inc, chats, bound>>
<1> SUFFICES Goal
  OBVIOUS
<1> USE DEF TypeOK, LocalType, Procs, Goto, Replies
<1>1. ASSUME NEW h \in Handlers, NEW id \in Ids,
             HandleDelete(h, id)
      PROVE  Goal
  BY <1>1 DEF HandleDelete, Read, history, store, local, client
<1>2. ASSUME NEW h \in Handlers, NEW id \in Ids, NEW conn \in BOOLEAN, NEW mortal \in BOOLEAN,
             NEW bind \in SUBSET Chats,
             HandleCreate(h, id, conn, mortal, bind)
      PROVE  Goal
  BY <1>2 DEF HandleCreate, history, store, local, client
<1>3. ASSUME NEW h \in Handlers,
             Provision(h)
      PROVE  Goal
  BY <1>3 DEF Provision, Provisioned, history, store, local, client
<1>4. ASSUME NEW h \in Handlers,
             SetRoute(h)
      PROVE  Goal
  BY <1>4 DEF SetRoute, history, store, local, client
<1>5. ASSUME NEW h \in Handlers,
             RollbackInstance(h)
      PROVE  Goal
  BY <1>5 DEF RollbackInstance, Purged, history, store, local, client
<1>6. ASSUME NEW h \in Handlers,
             RollbackClaim(h)
      PROVE  Goal
  BY <1>6 DEF RollbackClaim, history, store, local, client
<1>7. ASSUME NEW h \in Handlers,
             GetCreated(h)
      PROVE  Goal
  BY <1>7 DEF GetCreated, history, store, local, client
<1>8. ASSUME NEW p \in Procs,
             PurgeInstance(p)
      PROVE  Goal
  BY <1>8 DEF PurgeInstance, Purged, Return, history, store, local, client
<1>9. ASSUME NEW p \in Procs,
             DeleteClaim(p)
      PROVE  Goal
  BY <1>9 DEF DeleteClaim, Return, history, store, local, client
<1>10. ASSUME NEW h \in Handlers,
             Answer(h)
      PROVE  Goal
  BY <1>10 DEF Answer, history, store, local, client
<1>11. ASSUME NEW s \in Sweepers,
             SweepList(s)
      PROVE  Goal
  BY <1>11 DEF SweepList, history, store, local, client
<1>12. ASSUME NEW s \in Sweepers,
             SweepFetch(s)
      PROVE  Goal
  BY <1>12 DEF SweepFetch, history, store, local, client
<1>13. ASSUME NEW s \in Sweepers, NEW id \in Ids,
             SweepTTL(s, id)
      PROVE  Goal
  BY <1>13 DEF SweepTTL, Read, history, store, local, client
<1>14. ASSUME NEW s \in Sweepers,
             SweepEnd(s)
      PROVE  Goal
  BY <1>14 DEF SweepEnd, history, store, local, client
<1>15. ASSUME WindowEnds PROVE Goal
  BY <1>15 DEF WindowEnds, history, store, local, client
<1>16. ASSUME NEW id \in Ids,
             TTLElapses(id)
      PROVE  Goal
  BY <1>16 DEF TTLElapses, history, store, local, client
<1>17. ASSUME NEW id \in Ids,
             ClaimGone(id)
      PROVE  Goal
  BY <1>17 DEF ClaimGone, history, store, local, client
<1>18. ASSUME NEW id \in Ids,
             PodBoot(id)
      PROVE  Goal
  BY <1>18 DEF PodBoot, history, store, local, client
<1>19. ASSUME Crash PROVE Goal
  BY <1>19 DEF Crash, history, store, local, client
<1>20. ASSUME UNCHANGED vars PROVE Goal
  BY <1>20 DEF vars, history, store, local, client
<1> QED
  BY <1>1, <1>2, <1>3, <1>4, <1>5, <1>6, <1>7, <1>8, <1>9, <1>10, <1>11, <1>12,
     <1>13, <1>14, <1>15, <1>16, <1>17, <1>18, <1>19, <1>20
     DEF Next, Serve, Sweep, World

(* The loop over the chats of a request starts from none and ends with all.*)
LEMMA NextBoundInv == TypeOK /\ BoundInv /\ [Next]_vars => BoundInv'
<1> SUFFICES ASSUME TypeOK, BoundInv, [Next]_vars PROVE BoundInv'
  OBVIOUS
<1> USE DEF BoundInv, TypeOK, LocalType, Procs, Goto, Replies
<1>1. ASSUME NEW h \in Handlers, NEW id \in Ids,
             HandleDelete(h, id)
      PROVE  BoundInv'
  BY <1>1, ProcsAssumption DEF HandleDelete, Read, store, local, client
<1>2. ASSUME NEW h \in Handlers, NEW id \in Ids, NEW conn \in BOOLEAN, NEW mortal \in BOOLEAN,
             NEW bind \in SUBSET Chats,
             HandleCreate(h, id, conn, mortal, bind)
      PROVE  BoundInv'
  BY <1>2, ProcsAssumption DEF HandleCreate, store, local, client
<1>3. ASSUME NEW h \in Handlers,
             Provision(h)
      PROVE  BoundInv'
  BY <1>3, ProcsAssumption DEF Provision, Provisioned, store, local, client
<1>4. ASSUME NEW h \in Handlers,
             SetRoute(h)
      PROVE  BoundInv'
  BY <1>4, ProcsAssumption DEF SetRoute, store, local, client
<1>5. ASSUME NEW h \in Handlers,
             RollbackInstance(h)
      PROVE  BoundInv'
  BY <1>5, ProcsAssumption DEF RollbackInstance, Purged, store, local, client
<1>6. ASSUME NEW h \in Handlers,
             RollbackClaim(h)
      PROVE  BoundInv'
  BY <1>6, ProcsAssumption DEF RollbackClaim, store, local, client
<1>7. ASSUME NEW h \in Handlers,
             GetCreated(h)
      PROVE  BoundInv'
  BY <1>7, ProcsAssumption DEF GetCreated, store, local, client
<1>8. ASSUME NEW p \in Procs,
             PurgeInstance(p)
      PROVE  BoundInv'
  BY <1>8, ProcsAssumption DEF PurgeInstance, Purged, Return, store, local, client
<1>9. ASSUME NEW p \in Procs,
             DeleteClaim(p)
      PROVE  BoundInv'
  BY <1>9, ProcsAssumption DEF DeleteClaim, Return, store, local, client
<1>10. ASSUME NEW h \in Handlers,
             Answer(h)
      PROVE  BoundInv'
  BY <1>10, ProcsAssumption DEF Answer, store, local, client
<1>11. ASSUME NEW s \in Sweepers,
             SweepList(s)
      PROVE  BoundInv'
  BY <1>11, ProcsAssumption DEF SweepList, store, local, client
<1>12. ASSUME NEW s \in Sweepers,
             SweepFetch(s)
      PROVE  BoundInv'
  BY <1>12, ProcsAssumption DEF SweepFetch, store, local, client
<1>13. ASSUME NEW s \in Sweepers, NEW id \in Ids,
             SweepTTL(s, id)
      PROVE  BoundInv'
  BY <1>13, ProcsAssumption DEF SweepTTL, Read, store, local, client
<1>14. ASSUME NEW s \in Sweepers,
             SweepEnd(s)
      PROVE  BoundInv'
  BY <1>14, ProcsAssumption DEF SweepEnd, store, local, client
<1>15. ASSUME WindowEnds PROVE BoundInv'
  BY <1>15, ProcsAssumption DEF WindowEnds, store, local, client
<1>16. ASSUME NEW id \in Ids,
             TTLElapses(id)
      PROVE  BoundInv'
  BY <1>16, ProcsAssumption DEF TTLElapses, store, local, client
<1>17. ASSUME NEW id \in Ids,
             ClaimGone(id)
      PROVE  BoundInv'
  BY <1>17, ProcsAssumption DEF ClaimGone, store, local, client
<1>18. ASSUME NEW id \in Ids,
             PodBoot(id)
      PROVE  BoundInv'
  BY <1>18, ProcsAssumption DEF PodBoot, store, local, client
<1>19. ASSUME Crash PROVE BoundInv'
  BY <1>19, ProcsAssumption DEF Crash, store, local, client
<1>20. ASSUME UNCHANGED vars PROVE BoundInv'
  BY <1>20, ProcsAssumption DEF vars, store, local, client
<1> QED
  BY <1>1, <1>2, <1>3, <1>4, <1>5, <1>6, <1>7, <1>8, <1>9, <1>10, <1>11, <1>12,
     <1>13, <1>14, <1>15, <1>16, <1>17, <1>18, <1>19, <1>20
     DEF Next, Serve, Sweep, World

-----------------------------------------------------------------------------
(* What is marked for deletion was before, or its goroutine marks it now;  *)
(* and only what is marked goes.                                           *)
LEMMA TermStep ==
  ASSUME BaseInv, [Next]_vars, NEW id \in Ids
  PROVE  /\ claims'[id].term =>
              \/ claims[id].term /\ claims'[id].uid = claims[id].uid
              \/ /\ claims'[id].uid = claims[id].uid /\ claims[id].uid # 0
                 /\ \/ \E h \in Handlers : RollbackClaim(h) /\ cur[h] = id
                    \/ \E p \in Procs : DeleteClaim(p) /\ cur[p] = id
         /\ claims[id].uid # 0 /\ claims'[id].uid = 0 => claims[id].term
<1> DEFINE Goal ==
         /\ claims'[id].term =>
              \/ claims[id].term /\ claims'[id].uid = claims[id].uid
              \/ /\ claims'[id].uid = claims[id].uid /\ claims[id].uid # 0
                 /\ \/ \E h \in Handlers : RollbackClaim(h) /\ cur[h] = id
                    \/ \E p \in Procs : DeleteClaim(p) /\ cur[p] = id
         /\ claims[id].uid # 0 /\ claims'[id].uid = 0 => claims[id].term
<1>1. TypeOK /\ claims \in [Ids -> Claim]
  BY DEF BaseInv, TypeOK, StoreType
<1>2. CASE UNCHANGED <<claims, used, nextUid>>
  BY <1>2
<1>3. ASSUME NEW h \in Handlers, NEW i \in Ids, NEW conn \in BOOLEAN, NEW mortal \in BOOLEAN,
             claims[i].uid = 0, NewClaim(i, conn, mortal)
      PROVE  Goal
  <2>1. CASE i = id
    BY <1>1, <1>3, <2>1, NewClaimFacts
  <2>2. CASE i # id
    <3>1. claims'[id] = claims[id]
      BY <1>1, <1>3, <2>2, NewClaimFacts
    <3> QED
      BY <3>1
  <2> QED
    BY <2>1, <2>2
<1>4. ASSUME NEW i, Terminated(i)
      PROVE  /\ claims'[id].uid = claims[id].uid
             /\ i # id \/ claims[id].uid = 0 => claims'[id] = claims[id]
  BY <1>1, <1>4, TerminatedClaims
<1>5. ASSUME NEW h \in Handlers, RollbackClaim(h), Terminated(cur[h]) PROVE Goal
  BY <1>4, <1>5
<1>6. ASSUME NEW p \in Procs, DeleteClaim(p), Terminated(cur[p]) PROVE Goal
  BY <1>4, <1>6
<1>7. ASSUME NEW i \in Ids, ClaimGone(i) PROVE Goal
  <2>1. claims[i].term /\ claims' = [claims EXCEPT ![i] = NoClaim]
    BY <1>7 DEF ClaimGone
  <2>2. CASE i = id
    BY <1>1, <2>1, <2>2 DEF NoClaim
  <2>3. CASE i # id
    <3>1. claims'[id] = claims[id]
      BY <1>1, <2>1, <2>3
    <3> QED
      BY <3>1
  <2> QED
    BY <2>2, <2>3
<1> QED
  BY <1>2, <1>3, <1>5, <1>6, <1>7, ClaimStep

(* A goroutine at work means the claim it finds at its id.                 *)
LEMMA SameClaim ==
  ASSUME BaseInv, OnceInv, NEW p \in Procs, Working(p)
  PROVE  /\ cur[p] \in used /\ cur[p] \in Ids
         /\ inc[p] \in 1 .. nextUid - 1
         /\ claims[cur[p]].uid # 0 => claims[cur[p]].uid = inc[p]
  BY DEF BaseInv, OnceInv, TypeOK, StoreType, LocalInv, SameClaimInv

-----------------------------------------------------------------------------
(* A claim is marked by a rollback, whose session was never announced, or  *)
(* because somebody wants it gone.                                         *)
LEMMA NextTermInv ==
  BaseInv /\ OnceInv /\ TermInv /\ UnannouncedInv /\ [Next]_vars => TermInv'
<1> SUFFICES ASSUME BaseInv, OnceInv, TermInv, UnannouncedInv, [Next]_vars,
                    NEW id \in Ids, claims'[id].term
             PROVE  \/ claims'[id].uid \in Doomed'
                    \/ /\ claims'[id].uid \notin created'
                       /\ \A h \in Handlers : Opening(h)' => inc'[h] # claims'[id].uid
  BY DEF TermInv
<1> DEFINE u == claims[id].uid
<1>1. TypeOK /\ OpeningInv /\ nextUid \in Nat /\ u \in Nat /\ u < nextUid /\ ClaimInv
  BY UidStep DEF BaseInv, ClaimInv
<1>2. claims'[id].uid = u
  BY TermStep
<1>3. Doomed \subseteq Doomed'
  BY HistoryGrows DEF Doomed
<1>4. ASSUME u \notin created, \A h \in Handlers : Opening(h) => inc[h] # u
      PROVE  u \notin created' /\ \A h \in Handlers : Opening(h)' => inc'[h] # u
  <2>1. u \notin created'
    BY <1>1, <1>4, CreatedStep DEF Opening
  <2>2. ASSUME NEW h \in Handlers, Opening(h)' PROVE inc'[h] # u
    BY <1>1, <1>4, <2>2, WorkingStep DEF Working, Deleting, Opening, Procs
  <2> QED
    BY <2>1, <2>2
<1>5. CASE claims[id].term
  BY <1>2, <1>3, <1>4, <1>5 DEF TermInv
<1>6. ASSUME NEW h \in Handlers, RollbackClaim(h), cur[h] = id, u # 0
      PROVE  u \notin created' /\ \A g \in Handlers : Opening(g)' => inc'[g] # u
  <2>1. Opening(h) /\ Working(h) /\ h \in Procs
    BY <1>6 DEF RollbackClaim, Working, Opening, Procs
  <2>2. inc[h] = u /\ u \notin created
    BY <1>6, <2>1, SameClaim DEF UnannouncedInv
  <2>3. created' = created /\ inc' = inc /\ pc' = [pc EXCEPT ![h] = "failed"]
    BY <1>6 DEF RollbackClaim, Goto, history
  <2>4. ASSUME NEW g \in Handlers, Opening(g)' PROVE g # h /\ Opening(g)
    BY <1>1, <2>3, <2>4 DEF Opening, TypeOK, LocalType, Procs
  <2> QED
    BY <1>1, <2>1, <2>2, <2>3, <2>4 DEF OpeningInv
<1>7. ASSUME NEW p \in Procs, DeleteClaim(p), cur[p] = id, u # 0
      PROVE  u \in Doomed
  <2>1. Deleting(p) /\ Working(p)
    BY <1>7 DEF DeleteClaim, Working, Deleting
  <2> QED
    BY <1>7, <2>1, SameClaim DEF OnceInv, DoomedInv
<1> QED
  BY <1>2, <1>3, <1>5, <1>6, <1>7, TermStep

(* What is still being opened is not announced.                            *)
LEMMA NextUnannouncedInv == BaseInv /\ UnannouncedInv /\ [Next]_vars => UnannouncedInv'
<1> SUFFICES ASSUME BaseInv, UnannouncedInv, [Next]_vars, NEW q \in Handlers, Opening(q)'
             PROVE  inc'[q] \notin created'
  BY DEF UnannouncedInv
<1>1. TypeOK /\ OpeningInv /\ HistoryInv /\ nextUid \in Nat
  BY UidStep DEF BaseInv
<1>2. CASE Opening(q) /\ inc'[q] = inc[q]
  <2>1. inc[q] \notin created
    BY <1>2 DEF UnannouncedInv
  <2>2. ASSUME NEW h \in Handlers, pc[h] = "get", pc'[h] = "created" PROVE inc[q] # inc[h]
    BY <1>1, <1>2, <2>2 DEF OpeningInv, Opening
  <2> QED
    BY <1>1, <1>2, <2>1, <2>2, CreatedStep
<1>3. CASE inc'[q] = nextUid /\ UNCHANGED history
  BY <1>1, <1>3 DEF HistoryInv, history
<1> QED
  BY <1>1, <1>2, <1>3, WorkingStep DEF Working, Deleting, Opening, Procs, history

(* The gateway of a create in progress stays, with the chats bound so far. *)
LEMMA NextGatewayInv ==
  ~ReuseIds /\ BaseInv /\ OnceInv /\ BoundInv /\ GatewayInv /\ [Next]_vars => GatewayInv'
<1> SUFFICES ASSUME ~ReuseIds, BaseInv, OnceInv, BoundInv, GatewayInv, [Next]_vars,
                    NEW q \in Handlers, pc'[q] \in {"route", "get"},
                    claims'[cur'[q]].conn, inc'[q] \notin Doomed'
             PROVE  instances'[cur'[q]] = "wake" /\ bound'[q] \subseteq routes'[cur'[q]]
  BY DEF GatewayInv
<1>1. TypeOK /\ ClaimInv /\ OpeningInv
  BY DEF BaseInv
<1>2. \A h \in Handlers : Opening(h) => cur[h] \in Ids
  BY SameClaim DEF Working, Procs
<1>3. CASE /\ pc[q] \in {"route", "get"}
           /\ cur'[q] = cur[q] /\ inc'[q] = inc[q]
           /\ bound'[q] \subseteq bound[q] \cup routes'[cur[q]]
  <2> DEFINE i == cur[q]
  <2>1. Opening(q) /\ Working(q) /\ q \in Procs
    BY <1>3 DEF Opening, Working, Procs
  <2>2. i \in used /\ i \in Ids
    BY <2>1, SameClaim
  <2>3. claims[i].conn
    BY <1>3, <2>2, NoReuseStep
  <2>4. claims[i].uid # 0 /\ claims[i].uid = inc[q]
    BY <1>1, <2>1, <2>2, <2>3, SameClaim DEF ClaimInv, NoClaim
  <2>5. inc[q] \notin Doomed
    BY <1>3, HistoryGrows DEF Doomed
  <2>6. instances[i] = "wake" /\ bound[q] \subseteq routes[i]
    BY <1>3, <2>3, <2>5 DEF GatewayInv
  <2>7. ASSUME NEW h \in Handlers, pc[h] = "rbInst", cur[h] = i, pc'[h] = "rbClaim" PROVE FALSE
    <3>1. Opening(h) /\ Working(h) /\ h \in Procs
      BY <2>7 DEF Opening, Working, Procs
    <3>2. inc[h] = inc[q]
      BY <2>4, <2>7, <3>1, SameClaim
    <3> QED
      BY <1>1, <2>1, <2>7, <3>1, <3>2 DEF OpeningInv
  <2>8. ASSUME NEW p \in Procs, Deleting(p), cur[p] = i PROVE FALSE
    <3>1. inc[p] = inc[q]
      BY <2>4, <2>8, SameClaim DEF Working
    <3> QED
      BY <2>5, <2>8, <3>1 DEF OnceInv, DoomedInv
  <2>9. instances'[i] = "wake" /\ routes[i] \subseteq routes'[i]
    BY <1>1, <2>2, <2>6, <2>7, <2>8, RelayStep
  <2> QED
    BY <1>3, <2>6, <2>9
<1>4. CASE /\ pc[q] = "provision"
           /\ cur'[q] = cur[q] /\ bound'[q] = bound[q]
           /\ instances'[cur[q]] = "wake"
  BY <1>4 DEF BoundInv
<1> QED
  BY <1>1, <1>2, <1>3, <1>4, GatewayStep

(* A session that was announced, and nobody wants gone, has its claim.     *)
LEMMA NextAnnouncedInv ==
  BaseInv /\ OnceInv /\ TermInv /\ AnnouncedInv /\ [Next]_vars => AnnouncedInv'
<1> SUFFICES ASSUME BaseInv, OnceInv, TermInv, AnnouncedInv, [Next]_vars,
                    NEW q \in Handlers, pc'[q] = "created"
             PROVE  /\ inc'[q] < nextUid'
                    /\ \A g \in Handlers : Opening(g)' => inc'[g] # inc'[q]
                    /\ inc'[q] \in created' \ Doomed' =>
                          cur'[q] \in Ids /\ claims'[cur'[q]].uid = inc'[q]
  BY DEF AnnouncedInv
<1>1. /\ TypeOK /\ OpeningInv /\ HistoryInv
      /\ nextUid \in Nat /\ nextUid' \in {nextUid, nextUid + 1} /\ inc[q] \in Nat
  BY UidStep DEF BaseInv, TypeOK, LocalType, Procs
<1>2. CASE pc[q] = "created" /\ cur'[q] = cur[q] /\ inc'[q] = inc[q]
  <2>1. inc[q] < nextUid /\ \A g \in Handlers : Opening(g) => inc[g] # inc[q]
    BY <1>2 DEF AnnouncedInv
  <2>2. inc[q] < nextUid'
    BY <1>1, <2>1
  <2>3. ASSUME NEW g \in Handlers, Opening(g)' PROVE inc'[g] # inc[q]
    BY <1>1, <2>1, <2>3, WorkingStep DEF Working, Deleting, Opening, Procs
  <2>4. ASSUME inc[q] \in created' \ Doomed' PROVE cur[q] \in Ids /\ claims'[cur[q]].uid = inc[q]
    <3>1. inc[q] \in created \ Doomed
      BY <1>1, <2>1, <2>4, CreatedStep, HistoryGrows DEF Opening, Doomed
    <3>2. cur[q] \in Ids /\ claims[cur[q]].uid = inc[q]
      BY <1>2, <3>1 DEF AnnouncedInv
    <3>3. inc[q] # 0
      BY <1>1, <3>1 DEF HistoryInv
    <3>4. ~claims[cur[q]].term
      BY <3>1, <3>2 DEF TermInv
    <3> QED
      BY <3>2, <3>3, <3>4, TermStep, UidStep
  <2> QED
    BY <1>2, <2>2, <2>3, <2>4
<1>3. CASE /\ pc[q] = "get" /\ claims[cur[q]].uid # 0
           /\ \A g \in Handlers : g # q => pc'[g] = pc[g]
           /\ UNCHANGED <<store, elapsed, asked, cur, inc, chats, bound>>
  <2>1. Opening(q) /\ Working(q) /\ q \in Procs
    BY <1>3 DEF Opening, Working, Procs
  <2>2. /\ cur[q] \in Ids /\ claims[cur[q]].uid = inc[q] /\ inc[q] < nextUid
        /\ claims' = claims /\ nextUid' = nextUid
    BY <1>1, <1>3, <2>1, SameClaim DEF store
  <2>3. ASSUME NEW g \in Handlers, Opening(g)' PROVE g # q /\ Opening(g)
    BY <1>3, <2>3 DEF Opening
  <2> QED
    BY <1>1, <1>3, <2>1, <2>2, <2>3 DEF OpeningInv
<1> QED
  BY <1>1, <1>2, <1>3, ReplyStep

(* No step breaks a promise: not a rollback, whose own session was never   *)
(* promised, and not a purge, which only takes what somebody wants gone.   *)
LEMMA NextAckedSessionServed ==
  BaseInv /\ OnceInv /\ ServedInv /\ [Next]_vars => AckedSessionServed'
<1> SUFFICES ASSUME BaseInv, OnceInv, ServedInv, [Next]_vars PROVE AckedSessionServed'
  OBVIOUS
<1>1. /\ TypeOK /\ ClaimInv /\ LocalInv /\ OpeningInv /\ HistoryInv /\ DoomedInv
      /\ UnannouncedInv /\ BoundInv /\ GatewayInv /\ AnnouncedInv /\ AckedSessionServed
  BY DEF BaseInv, OnceInv, ServedInv
<1>2. Doomed \subseteq Doomed'
  BY HistoryGrows DEF Doomed
<1>3. ASSUME NEW id \in Ids, NEW h \in Handlers, pc[h] = "rbInst", cur[h] = id, claims[id].uid # 0
      PROVE  Opening(h) /\ inc[h] = claims[id].uid
  BY <1>3, SameClaim DEF Opening, Working, Procs
<1>4. ASSUME NEW id \in Ids, NEW p \in Procs, Deleting(p), cur[p] = id, claims[id].uid # 0
      PROVE  claims[id].uid \in Doomed
  BY <1>1, <1>4, SameClaim DEF Working, DoomedInv
<1>5. ASSUME NEW id \in Ids, claims'[id].uid \in created' \ Doomed'
      PROVE  instances'[id] = "wake"
  <2> DEFINE u == claims'[id].uid
  <2>1. u \notin Doomed /\ nextUid \in Nat
    BY <1>2, <1>5, UidStep
  <2>2. CASE u \in created
    <3>1. u \in 1 .. nextUid - 1
      BY <1>1, <2>2 DEF HistoryInv
    <3>2. u # 0 /\ u = claims[id].uid
      BY <2>1, <3>1, UidStep
    <3>3. instances[id] = "wake"
      BY <2>1, <2>2, <3>2, <1>1 DEF AckedSessionServed
    <3>4. ~\E h \in Handlers : pc[h] = "rbInst" /\ cur[h] = id
      BY <1>1, <1>3, <2>2, <3>2 DEF UnannouncedInv
    <3>5. ~\E p \in Procs : Deleting(p) /\ cur[p] = id
      BY <1>4, <2>1, <3>2
    <3> QED
      BY <1>1, <3>3, <3>4, <3>5, RelayStep
  <2>3. ASSUME NEW h \in Handlers, pc[h] = "get", claims[cur[h]].conn, u = inc[h], UNCHANGED store
        PROVE  instances'[id] = "wake"
    <3>1. Opening(h) /\ Working(h) /\ h \in Procs
      BY <2>3 DEF Opening, Working, Procs
    <3>2. claims[id].uid = inc[h]
      BY <2>3 DEF store
    <3>3. id = cur[h]
      BY <1>1, <3>1, <3>2 DEF LocalInv
    <3>4. instances[cur[h]] = "wake"
      BY <1>1, <2>1, <2>3 DEF GatewayInv
    <3> QED
      BY <2>3, <3>3, <3>4 DEF store
  <2> QED
    BY <1>1, <1>5, <2>2, <2>3, CreatedStep
<1>6. ASSUME NEW q \in Handlers, pc'[q] = "created", inc'[q] \in created' \ Doomed'
      PROVE  chats'[q] \subseteq routes'[cur'[q]]
  <2>1. CASE pc[q] = "created" /\ cur'[q] = cur[q] /\ inc'[q] = inc[q] /\ chats'[q] = chats[q]
    <3>1. /\ inc[q] < nextUid /\ \A g \in Handlers : Opening(g) => inc[g] # inc[q]
      BY <1>1, <2>1 DEF AnnouncedInv
    <3>2. inc[q] \in created \ Doomed
      BY <1>1, <1>2, <1>6, <2>1, <3>1, CreatedStep DEF Opening
    <3>3. cur[q] \in Ids /\ claims[cur[q]].uid = inc[q] /\ inc[q] # 0
      BY <1>1, <2>1, <3>2 DEF AnnouncedInv, HistoryInv
    <3>4. chats[q] \subseteq routes[cur[q]]
      BY <1>1, <2>1, <3>2 DEF AckedSessionServed
    <3>5. ~\E h \in Handlers : pc[h] = "rbInst" /\ cur[h] = cur[q]
      BY <1>3, <3>1, <3>3
    <3>6. ~\E p \in Procs : Deleting(p) /\ cur[p] = cur[q]
      BY <1>4, <3>2, <3>3
    <3>7. routes[cur[q]] \subseteq routes'[cur[q]]
      BY <1>1, <3>3, <3>5, <3>6, RelayStep
    <3> QED
      BY <2>1, <3>4, <3>7
  <2>2. CASE /\ pc[q] = "get"
             /\ created' = IF claims[cur[q]].conn /\ inc[q] \notin Doomed
                          THEN created \cup {inc[q]} ELSE created
             /\ UNCHANGED <<store, elapsed, asked, cur, inc, chats, bound>>
    <3>1. inc[q] \notin created
      BY <1>1, <2>2 DEF UnannouncedInv, Opening
    <3>2. claims[cur[q]].conn /\ inc[q] \notin Doomed
      BY <1>2, <1>6, <2>2, <3>1
    <3>3. bound[q] \subseteq routes[cur[q]] /\ bound[q] = chats[q]
      BY <1>1, <2>2, <3>2 DEF GatewayInv, BoundInv
    <3> QED
      BY <2>2, <3>3 DEF store
  <2> QED
    BY <1>1, <1>6, <2>1, <2>2, ReplyStep
<1> QED
  BY <1>5, <1>6 DEF AckedSessionServed

(* The start, where nothing is promised.                                   *)
LEMMA InitServedInv == Init => ServedInv
<1> SUFFICES ASSUME Init PROVE ServedInv
  OBVIOUS
<1>1. \A h \in Handlers : pc[h] = "idle" /\ bound[h] = {}
  BY DEF Init, Procs
<1>2. TermInv
  BY DEF Init, TermInv, NoClaim
<1>3. UnannouncedInv /\ BoundInv /\ GatewayInv /\ AnnouncedInv
  BY <1>1 DEF UnannouncedInv, BoundInv, GatewayInv, AnnouncedInv, Opening
<1>4. AckedSessionServed
  BY <1>1 DEF Init, AckedSessionServed
<1> QED
  BY <1>2, <1>3, <1>4 DEF ServedInv

(* The invariant behind the promise.                                       *)
LEMMA ServedInvariant == ASSUME ~ReuseIds PROVE Spec => []ServedInv
<1>1. BaseInv /\ OnceInv /\ ServedInv /\ [Next]_vars => ServedInv'
  <2> SUFFICES ASSUME BaseInv, OnceInv, ServedInv, [Next]_vars PROVE ServedInv'
    OBVIOUS
  <2>1. TypeOK /\ TermInv /\ UnannouncedInv /\ BoundInv /\ GatewayInv /\ AnnouncedInv
    BY DEF BaseInv, ServedInv
  <2> QED
    BY <2>1, NextTermInv, NextUnannouncedInv, NextBoundInv, NextGatewayInv, NextAnnouncedInv,
       NextAckedSessionServed DEF ServedInv
<1>2. Spec => [](BaseInv /\ OnceInv) /\ Init /\ [][Next]_vars
  BY OnceInvariant, PTL DEF Spec
<1> QED
  BY <1>1, <1>2, InitServedInv, PTL

(* What a 201 promised stays true until a DELETE reads the session or its  *)
(* TTL runs out: no other request, sweep, pod boot, failure or restart     *)
(* takes away its gateway, the gateway's wakeUrl or, up to the answer, a   *)
(* chat; for clients that do not use an id again.                          *)
THEOREM SessionServed == ASSUME ~ReuseIds PROVE Spec => []AckedSessionServed
<1>1. ServedInv => AckedSessionServed
  BY DEF ServedInv
<1> QED
  BY <1>1, ServedInvariant, PTL
=============================================================================
