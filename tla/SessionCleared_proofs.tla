----------------------- MODULE SessionCleared_proofs -----------------------
(***************************************************************************)
(* What a DELETE answered 200 leaves in the connector: SessionLifecycle's  *)
(* AckedDeleteLeavesNothing, for clients that do not use an id again.  It  *)
(* is ClearedInv, relative to the invariants BaseInv, OnceInv and ServedInv*)
(* of the other two proof modules.                                         *)
(***************************************************************************)
EXTENDS SessionServed_proofs

Rest    == {"idle", "fetch", "loop"}
Forward == {"provision", "route", "get"}

(* A goroutine and another, or a claim, mean the same session by the same  *)
(* name, also after the claim is gone.                                     *)
NameInv ==
  /\ \A p \in Procs : pc[p] \in Rest => inc[p] = 0
  /\ \A p \in Procs : inc[p] # 0 =>
        /\ cur[p] \in used /\ inc[p] < nextUid
        /\ \A i \in Ids : claims[i].uid # 0 => (claims[i].uid = inc[p] <=> i = cur[p])
  /\ \A p, q \in Procs : inc[p] # 0 /\ inc[q] # 0 => (inc[p] = inc[q] <=> cur[p] = cur[q])

(* An announced session is purged before its claim is deleted, ...         *)
MarkInv ==
  /\ \A id \in Ids : claims[id].uid \in created => claims[id].conn
  /\ \A p \in Procs : Deleting(p) \/ pc[p] = "deleted" => inc[p] \in Doomed
  /\ \A p \in Procs : pc[p] \in {"dClaim", "deleted"} /\ enabled /\ inc[p] \in created =>
                          inc[p] \in purged
  /\ \A h \in Handlers : pc[h] \in Forward /\ inc[h] \in purged => inc[h] \in Doomed

(* ... and what is purged stays so: nobody registers an announced session. *)
CleanInv ==
  /\ \A id \in Ids : claims[id].uid \in created \cap purged => Emptied(id)
  /\ \A p \in Procs : inc[p] \in created \cap purged => Emptied(cur[p])

ClearedInv == NameInv /\ MarkInv /\ CleanInv

-----------------------------------------------------------------------------
(* The steps, as far as the session of a goroutine, a purge, and what is   *)
(* registered or bound under a name are concerned.                         *)

(* A goroutine keeps its session, lets it go, makes one or reads one.      *)
LEMMA HeldStep ==
  ASSUME ~ReuseIds, TypeOK, [Next]_vars, NEW q \in Procs
  PROVE  \/ /\ cur'[q] = cur[q] /\ inc'[q] = inc[q]
            /\ pc'[q] \in Rest => pc[q] \in Rest
            /\ pc'[q] \in Forward => pc[q] \in Forward
            /\ pc'[q] = "deleted" => pc[q] \in {"dClaim", "deleted"} /\ enabled' = enabled
         \/ /\ pc'[q] \in Rest \cup {"rejected", "kept", "failed"}
            /\ inc'[q] = 0 \/ (pc[q] \in Rest /\ inc'[q] = inc[q])
         \/ /\ pc'[q] \in Forward \cup {"failed"} /\ cur'[q] \in Ids \ used /\ inc'[q] = nextUid
            /\ \E conn, mortal \in BOOLEAN : NewClaim(cur'[q], conn, mortal)
            /\ UNCHANGED history
            /\ \A p \in Procs : p # q => cur'[p] = cur[p] /\ inc'[p] = inc[p]
         \/ /\ Deleting(q)' /\ cur'[q] \in Ids /\ inc'[q] = claims[cur'[q]].uid /\ inc'[q] # 0
            /\ UNCHANGED store
<1> DEFINE Goal ==
         \/ /\ cur'[q] = cur[q] /\ inc'[q] = inc[q]
            /\ pc'[q] \in Rest => pc[q] \in Rest
            /\ pc'[q] \in Forward => pc[q] \in Forward
            /\ pc'[q] = "deleted" => pc[q] \in {"dClaim", "deleted"} /\ enabled' = enabled
         \/ /\ pc'[q] \in Rest \cup {"rejected", "kept", "failed"}
            /\ inc'[q] = 0 \/ (pc[q] \in Rest /\ inc'[q] = inc[q])
         \/ /\ pc'[q] \in Forward \cup {"failed"} /\ cur'[q] \in Ids \ used /\ inc'[q] = nextUid
            /\ \E conn, mortal \in BOOLEAN : NewClaim(cur'[q], conn, mortal)
            /\ UNCHANGED history
            /\ \A p \in Procs : p # q => cur'[p] = cur[p] /\ inc'[p] = inc[p]
         \/ /\ Deleting(q)' /\ cur'[q] \in Ids /\ inc'[q] = claims[cur'[q]].uid /\ inc'[q] # 0
            /\ UNCHANGED store
<1> SUFFICES Goal
  OBVIOUS
<1> USE DEF TypeOK, LocalType, Procs, Deleting, Rest, Forward, Goto, Replies
<1>0. /\ Refused \/ Errored \/ AnswerLost \/ Answered \/ K8sFails \/ K8sLost \/ K8sOk
         => enabled' = enabled
      /\ ListInstances => enabled' = enabled
  BY DEF ListInstances, Refused, Errored, AnswerLost, Answered, K8sFails, K8sLost, K8sOk, client
<1>1. ASSUME NEW h \in Handlers, NEW id \in Ids,
             HandleDelete(h, id)
      PROVE  Goal
  BY <1>1, <1>0 DEF HandleDelete, Read, store, local, client, history
<1>2. ASSUME NEW h \in Handlers, NEW id \in Ids, NEW conn \in BOOLEAN, NEW mortal \in BOOLEAN,
             NEW bind \in SUBSET Chats,
             HandleCreate(h, id, conn, mortal, bind)
      PROVE  Goal
  BY <1>2, <1>0 DEF HandleCreate, store, local, client, history
<1>3. ASSUME NEW h \in Handlers,
             Provision(h)
      PROVE  Goal
  BY <1>3, <1>0 DEF Provision, Provisioned, store, local, client, history
<1>4. ASSUME NEW h \in Handlers,
             SetRoute(h)
      PROVE  Goal
  BY <1>4, <1>0 DEF SetRoute, store, local, client, history
<1>5. ASSUME NEW h \in Handlers,
             RollbackInstance(h)
      PROVE  Goal
  BY <1>5, <1>0 DEF RollbackInstance, Purged, store, local, client, history
<1>6. ASSUME NEW h \in Handlers,
             RollbackClaim(h)
      PROVE  Goal
  BY <1>6, <1>0 DEF RollbackClaim, store, local, client, history
<1>7. ASSUME NEW h \in Handlers,
             GetCreated(h)
      PROVE  Goal
  BY <1>7, <1>0 DEF GetCreated, store, local, client, history
<1>8. ASSUME NEW p \in Procs,
             PurgeInstance(p)
      PROVE  Goal
  BY <1>8, <1>0 DEF PurgeInstance, Purged, Return, store, local, client, history
<1>9. ASSUME NEW p \in Procs,
             DeleteClaim(p)
      PROVE  Goal
  BY <1>9, <1>0 DEF DeleteClaim, Return, store, local, client, history
<1>10. ASSUME NEW h \in Handlers,
             Answer(h)
      PROVE  Goal
  BY <1>10, <1>0 DEF Answer, store, local, client, history
<1>11. ASSUME NEW s \in Sweepers,
             SweepList(s)
      PROVE  Goal
  BY <1>11, <1>0 DEF SweepList, store, local, client, history
<1>12. ASSUME NEW s \in Sweepers,
             SweepFetch(s)
      PROVE  Goal
  BY <1>12, <1>0 DEF SweepFetch, store, local, client, history
<1>13. ASSUME NEW s \in Sweepers, NEW id \in Ids,
             SweepTTL(s, id)
      PROVE  Goal
  BY <1>13, <1>0 DEF SweepTTL, Read, store, local, client, history
<1>14. ASSUME NEW s \in Sweepers,
             SweepEnd(s)
      PROVE  Goal
  BY <1>14, <1>0 DEF SweepEnd, store, local, client, history
<1>15. ASSUME WindowEnds PROVE Goal
  BY <1>15, <1>0 DEF WindowEnds, store, local, client, history
<1>16. ASSUME NEW id \in Ids,
             TTLElapses(id)
      PROVE  Goal
  BY <1>16, <1>0 DEF TTLElapses, store, local, client, history
<1>17. ASSUME NEW id \in Ids,
             ClaimGone(id)
      PROVE  Goal
  BY <1>17, <1>0 DEF ClaimGone, store, local, client, history
<1>18. ASSUME NEW id \in Ids,
             PodBoot(id)
      PROVE  Goal
  BY <1>18, <1>0 DEF PodBoot, store, local, client, history
<1>19. ASSUME Crash PROVE Goal
  BY <1>19, <1>0 DEF Crash, store, local, client, history
<1>20. ASSUME UNCHANGED vars PROVE Goal
  BY <1>20, <1>0 DEF vars, store, local, client, history
<1> QED
  BY <1>1, <1>2, <1>3, <1>4, <1>5, <1>6, <1>7, <1>8, <1>9, <1>10, <1>11, <1>12,
     <1>13, <1>14, <1>15, <1>16, <1>17, <1>18, <1>19, <1>20
     DEF Next, Serve, Sweep, World

(* A purge confirmed has taken what was there.                             *)
LEMMA PurgedStep ==
  ASSUME TypeOK, [Next]_vars
  PROVE  \/ purged' = purged
         \/ \E p \in Procs :
              /\ Deleting(p) \/ (p \in Handlers /\ pc[p] = "rbInst")
              /\ \A i \in Ids : i = cur[p] => Emptied(i)'
              /\ purged' = purged \cup {inc[p]}
<1> DEFINE Goal ==
         \/ purged' = purged
         \/ \E p \in Procs :
              /\ Deleting(p) \/ (p \in Handlers /\ pc[p] = "rbInst")
              /\ \A i \in Ids : i = cur[p] => Emptied(i)'
              /\ purged' = purged \cup {inc[p]}
<1> SUFFICES Goal
  OBVIOUS
<1> USE DEF TypeOK, StoreType, LocalType, Procs, Deleting, Emptied
<1>1. ASSUME NEW h \in Handlers, NEW id \in Ids,
             HandleDelete(h, id)
      PROVE  Goal
  BY <1>1 DEF HandleDelete, Read, store, local, history
<1>2. ASSUME NEW h \in Handlers, NEW id \in Ids, NEW conn \in BOOLEAN, NEW mortal \in BOOLEAN,
             NEW bind \in SUBSET Chats,
             HandleCreate(h, id, conn, mortal, bind)
      PROVE  Goal
  BY <1>2 DEF HandleCreate, store, local, history
<1>3. ASSUME NEW h \in Handlers,
             Provision(h)
      PROVE  Goal
  BY <1>3 DEF Provision, Provisioned, store, local, history
<1>4. ASSUME NEW h \in Handlers,
             SetRoute(h)
      PROVE  Goal
  BY <1>4 DEF SetRoute, store, local, history
<1>5. ASSUME NEW h \in Handlers,
             RollbackInstance(h)
      PROVE  Goal
  BY <1>5 DEF RollbackInstance, Purged, store, local, history
<1>6. ASSUME NEW h \in Handlers,
             RollbackClaim(h)
      PROVE  Goal
  BY <1>6 DEF RollbackClaim, store, local, history
<1>7. ASSUME NEW h \in Handlers,
             GetCreated(h)
      PROVE  Goal
  BY <1>7 DEF GetCreated, store, local, history
<1>8. ASSUME NEW p \in Procs,
             PurgeInstance(p)
      PROVE  Goal
  BY <1>8 DEF PurgeInstance, Purged, Return, store, local, history
<1>9. ASSUME NEW p \in Procs,
             DeleteClaim(p)
      PROVE  Goal
  BY <1>9 DEF DeleteClaim, Return, store, local, history
<1>10. ASSUME NEW h \in Handlers,
             Answer(h)
      PROVE  Goal
  BY <1>10 DEF Answer, store, local, history
<1>11. ASSUME NEW s \in Sweepers,
             SweepList(s)
      PROVE  Goal
  BY <1>11 DEF SweepList, store, local, history
<1>12. ASSUME NEW s \in Sweepers,
             SweepFetch(s)
      PROVE  Goal
  BY <1>12 DEF SweepFetch, store, local, history
<1>13. ASSUME NEW s \in Sweepers, NEW id \in Ids,
             SweepTTL(s, id)
      PROVE  Goal
  BY <1>13 DEF SweepTTL, Read, store, local, history
<1>14. ASSUME NEW s \in Sweepers,
             SweepEnd(s)
      PROVE  Goal
  BY <1>14 DEF SweepEnd, store, local, history
<1>15. ASSUME WindowEnds PROVE Goal
  BY <1>15 DEF WindowEnds, store, local, history
<1>16. ASSUME NEW id \in Ids,
             TTLElapses(id)
      PROVE  Goal
  BY <1>16 DEF TTLElapses, store, local, history
<1>17. ASSUME NEW id \in Ids,
             ClaimGone(id)
      PROVE  Goal
  BY <1>17 DEF ClaimGone, store, local, history
<1>18. ASSUME NEW id \in Ids,
             PodBoot(id)
      PROVE  Goal
  BY <1>18 DEF PodBoot, store, local, history
<1>19. ASSUME Crash PROVE Goal
  BY <1>19 DEF Crash, store, local, history
<1>20. ASSUME UNCHANGED vars PROVE Goal
  BY <1>20 DEF vars, store, local, history
<1> QED
  BY <1>1, <1>2, <1>3, <1>4, <1>5, <1>6, <1>7, <1>8, <1>9, <1>10, <1>11, <1>12,
     <1>13, <1>14, <1>15, <1>16, <1>17, <1>18, <1>19, <1>20
     DEF Next, Serve, Sweep, World

(* Only a create registers a gateway with a wakeUrl, or binds a chat.      *)
LEMMA EmptiedStep ==
  ASSUME TypeOK, [Next]_vars, NEW i \in Ids, Emptied(i)
  PROVE  \/ Emptied(i)'
         \/ \E h \in Handlers : Opening(h) /\ cur[h] = i /\ UNCHANGED <<claims, cur, inc, created>>
<1> DEFINE Goal ==
         \/ Emptied(i)'
         \/ \E h \in Handlers : Opening(h) /\ cur[h] = i /\ UNCHANGED <<claims, cur, inc, created>>
<1> SUFFICES Goal
  OBVIOUS
<1> USE DEF TypeOK, StoreType, LocalType, Procs, Opening, Emptied
<1>1. ASSUME NEW h \in Handlers, NEW id \in Ids,
             HandleDelete(h, id)
      PROVE  Goal
  BY <1>1 DEF HandleDelete, Read, store, local, history
<1>2. ASSUME NEW h \in Handlers, NEW id \in Ids, NEW conn \in BOOLEAN, NEW mortal \in BOOLEAN,
             NEW bind \in SUBSET Chats,
             HandleCreate(h, id, conn, mortal, bind)
      PROVE  Goal
  BY <1>2 DEF HandleCreate, store, local, history
<1>3. ASSUME NEW h \in Handlers,
             Provision(h)
      PROVE  Goal
  BY <1>3 DEF Provision, Provisioned, store, local, history
<1>4. ASSUME NEW h \in Handlers,
             SetRoute(h)
      PROVE  Goal
  BY <1>4 DEF SetRoute, store, local, history
<1>5. ASSUME NEW h \in Handlers,
             RollbackInstance(h)
      PROVE  Goal
  BY <1>5 DEF RollbackInstance, Purged, store, local, history
<1>6. ASSUME NEW h \in Handlers,
             RollbackClaim(h)
      PROVE  Goal
  BY <1>6 DEF RollbackClaim, store, local, history
<1>7. ASSUME NEW h \in Handlers,
             GetCreated(h)
      PROVE  Goal
  BY <1>7 DEF GetCreated, store, local, history
<1>8. ASSUME NEW p \in Procs,
             PurgeInstance(p)
      PROVE  Goal
  BY <1>8 DEF PurgeInstance, Purged, Return, store, local, history
<1>9. ASSUME NEW p \in Procs,
             DeleteClaim(p)
      PROVE  Goal
  BY <1>9 DEF DeleteClaim, Return, store, local, history
<1>10. ASSUME NEW h \in Handlers,
             Answer(h)
      PROVE  Goal
  BY <1>10 DEF Answer, store, local, history
<1>11. ASSUME NEW s \in Sweepers,
             SweepList(s)
      PROVE  Goal
  BY <1>11 DEF SweepList, store, local, history
<1>12. ASSUME NEW s \in Sweepers,
             SweepFetch(s)
      PROVE  Goal
  BY <1>12 DEF SweepFetch, store, local, history
<1>13. ASSUME NEW s \in Sweepers, NEW id \in Ids,
             SweepTTL(s, id)
      PROVE  Goal
  BY <1>13 DEF SweepTTL, Read, store, local, history
<1>14. ASSUME NEW s \in Sweepers,
             SweepEnd(s)
      PROVE  Goal
  BY <1>14 DEF SweepEnd, store, local, history
<1>15. ASSUME WindowEnds PROVE Goal
  BY <1>15 DEF WindowEnds, store, local, history
<1>16. ASSUME NEW id \in Ids,
             TTLElapses(id)
      PROVE  Goal
  BY <1>16 DEF TTLElapses, store, local, history
<1>17. ASSUME NEW id \in Ids,
             ClaimGone(id)
      PROVE  Goal
  BY <1>17 DEF ClaimGone, store, local, history
<1>18. ASSUME NEW id \in Ids,
             PodBoot(id)
      PROVE  Goal
  BY <1>18 DEF PodBoot, store, local, history
<1>19. ASSUME Crash PROVE Goal
  BY <1>19 DEF Crash, store, local, history
<1>20. ASSUME UNCHANGED vars PROVE Goal
  BY <1>20 DEF vars, store, local, history
<1> QED
  BY <1>1, <1>2, <1>3, <1>4, <1>5, <1>6, <1>7, <1>8, <1>9, <1>10, <1>11, <1>12,
     <1>13, <1>14, <1>15, <1>16, <1>17, <1>18, <1>19, <1>20
     DEF Next, Serve, Sweep, World

-----------------------------------------------------------------------------
(* What a step announces: a session that has its claim, and that nobody    *)
(* wanted gone or has purged by then.                                      *)
LEMMA Announced ==
  ASSUME BaseInv, OnceInv, MarkInv, [Next]_vars, NEW u \in created', u \notin created
  PROVE  /\ purged' = purged /\ u \notin purged /\ u \notin Doomed
         /\ \A id \in Ids : claims'[id].uid = u => claims'[id].conn
<1>1. TypeOK /\ LocalInv
  BY DEF BaseInv
<1>2. PICK h \in Handlers : /\ pc[h] = "get" /\ claims[cur[h]].conn /\ inc[h] \notin Doomed
                            /\ u = inc[h]
                            /\ UNCHANGED <<store, purged>>
  BY <1>1, CreatedStep
<1>3. Working(h) /\ h \in Procs
  BY <1>2 DEF Working, Opening, Procs
<1>4. ASSUME NEW id \in Ids, claims'[id].uid = u PROVE claims'[id].conn
  BY <1>1, <1>2, <1>3, <1>4 DEF LocalInv, store
<1> QED
  BY <1>2, <1>4 DEF MarkInv, Forward

(* A goroutine and another, or a claim, keep meaning the same session.     *)
LEMMA NextNameInv == ~ReuseIds /\ BaseInv /\ NameInv /\ [Next]_vars => NameInv'
<1> SUFFICES ASSUME ~ReuseIds, BaseInv, NameInv, [Next]_vars PROVE NameInv'
  OBVIOUS
<1>1. /\ TypeOK /\ ClaimInv /\ used \subseteq Ids /\ nextUid \in Nat \ {0}
      /\ \A p \in Procs : inc[p] \in Nat
  BY DEF BaseInv, TypeOK, StoreType, LocalType
<1>2. nextUid' \in {nextUid, nextUid + 1} /\ used \subseteq used'
  BY UidStep
<1> DEFINE Same(p) == cur'[p] = cur[p] /\ inc'[p] = inc[p]
           Made(p) == /\ cur'[p] \in Ids \ used /\ inc'[p] = nextUid
                      /\ \E conn, mortal \in BOOLEAN : NewClaim(cur'[p], conn, mortal)
                      /\ \A q \in Procs : q # p => cur'[q] = cur[q] /\ inc'[q] = inc[q]
           Was(p)  == /\ cur'[p] \in Ids /\ inc'[p] = claims[cur'[p]].uid /\ inc'[p] # 0
                      /\ UNCHANGED store
<1>3. ASSUME NEW p \in Procs, inc'[p] # 0 PROVE Same(p) \/ Made(p) \/ Was(p)
  BY <1>1, <1>3, HeldStep DEF NameInv
<1>4. ASSUME NEW p \in Procs, pc'[p] \in Rest PROVE inc'[p] = 0
  BY <1>1, <1>4, HeldStep DEF NameInv, Rest, Forward, Deleting
<1>5. ASSUME NEW p \in Procs, Made(p)
      PROVE  /\ claims'[cur'[p]].uid = nextUid /\ cur'[p] \in used' /\ nextUid' = nextUid + 1
             /\ \A i \in Ids : i # cur'[p] => claims'[i] = claims[i]
  BY <1>1, <1>5, NewClaimFacts
<1>6. ASSUME NEW p \in Procs, inc'[p] # 0
      PROVE  /\ cur'[p] \in used' /\ inc'[p] < nextUid'
             /\ \A i \in Ids : claims'[i].uid # 0 => (claims'[i].uid = inc'[p] <=> i = cur'[p])
  <2>1. CASE Same(p)
    <3>1. /\ cur[p] \in used /\ inc[p] < nextUid
          /\ \A i \in Ids : claims[i].uid # 0 => (claims[i].uid = inc[p] <=> i = cur[p])
      BY <1>6, <2>1 DEF NameInv
    <3>2. inc'[p] < nextUid' /\ inc[p] # nextUid
      BY <1>1, <1>2, <2>1, <3>1
    <3>3. claims'[cur[p]].uid # 0 => claims[cur[p]].uid # 0
      BY <1>1, <3>1, NoReuseStep
    <3>4. ASSUME NEW i \in Ids, claims'[i].uid # 0
          PROVE  claims'[i].uid = inc'[p] <=> i = cur'[p]
      BY <2>1, <3>1, <3>2, <3>3, <3>4, UidStep
    <3> QED
      BY <1>2, <2>1, <3>1, <3>2, <3>4
  <2>2. CASE Made(p)
    <3>1. inc'[p] < nextUid'
      BY <1>1, <1>5, <2>2
    <3>2. \A i \in Ids : claims[i].uid # nextUid
      BY <1>1, UidStep DEF ClaimInv
    <3> QED
      BY <1>5, <2>2, <3>1, <3>2
  <2>3. CASE Was(p)
    BY <1>1, <1>2, <2>3 DEF ClaimInv, store
  <2> QED
    BY <1>3, <1>6, <2>1, <2>2, <2>3
<1>7. ASSUME NEW p \in Procs, NEW q \in Procs, inc'[p] # 0, inc'[q] # 0, p # q, Same(p)
      PROVE  inc'[p] = inc'[q] <=> cur'[p] = cur'[q]
  <2>1. /\ cur[p] \in used /\ inc[p] < nextUid
        /\ \A i \in Ids : claims[i].uid # 0 => (claims[i].uid = inc[p] <=> i = cur[p])
    BY <1>7 DEF NameInv
  <2>2. CASE Same(q)
    BY <1>7, <2>2 DEF NameInv
  <2>3. CASE Made(q)
    BY <1>1, <1>7, <2>1, <2>3
  <2>4. CASE Was(q)
    BY <1>7, <2>1, <2>4
  <2> QED
    BY <1>3, <1>7, <2>2, <2>3, <2>4
<1>8. ASSUME NEW p \in Procs, NEW q \in Procs, inc'[p] # 0, inc'[q] # 0
      PROVE  inc'[p] = inc'[q] <=> cur'[p] = cur'[q]
  <2>1. CASE p = q
    BY <2>1
  <2>2. CASE p # q /\ (Same(p) \/ Made(q))
    BY <1>7, <1>8, <2>2
  <2>3. CASE p # q /\ (Same(q) \/ Made(p))
    BY <1>7, <1>8, <2>3
  <2>4. CASE Was(p) /\ Was(q)
    BY <1>1, <2>4 DEF ClaimInv
  <2> QED
    BY <1>3, <1>8, <2>1, <2>2, <2>3, <2>4
<1> QED
  BY <1>4, <1>6, <1>8 DEF NameInv

(* An announced session is still purged before its claim is deleted.       *)
LEMMA NextMarkInv ==
  ~ReuseIds /\ BaseInv /\ OnceInv /\ NameInv /\ MarkInv /\ [Next]_vars => MarkInv'
<1> SUFFICES ASSUME ~ReuseIds, BaseInv, OnceInv, NameInv, MarkInv, [Next]_vars PROVE MarkInv'
  OBVIOUS
<1>1. /\ TypeOK /\ ClaimInv /\ HistoryInv /\ LocalInv /\ OpeningInv /\ DoomedInv
      /\ nextUid \in Nat \ {0}
  BY DEF BaseInv, OnceInv, TypeOK, StoreType
<1>2. Doomed \subseteq Doomed' /\ purged \subseteq purged'
  BY HistoryGrows DEF Doomed
<1>3. ASSUME NEW id \in Ids, claims'[id].uid \in created' PROVE claims'[id].conn
  <2>1. CASE claims'[id].uid \in created
    <3>1. claims'[id].uid \in 1 .. nextUid - 1
      BY <1>1, <2>1 DEF HistoryInv
    <3>2. claims'[id].uid = claims[id].uid /\ claims[id].uid # 0
      BY <1>1, <3>1, UidStep
    <3> QED
      BY <2>1, <3>2, UidStep DEF MarkInv
  <2> QED
    BY <1>3, <2>1, Announced
<1>4. ASSUME NEW q \in Procs, pc'[q] = "deleted"
      PROVE  /\ cur'[q] = cur[q] /\ inc'[q] = inc[q] /\ enabled' = enabled
             /\ pc[q] \in {"dClaim", "deleted"} /\ inc[q] \in Doomed
  BY <1>1, <1>4, HeldStep DEF Rest, Forward, Deleting, MarkInv
<1>5. ASSUME NEW q \in Procs, Deleting(q)' \/ pc'[q] = "deleted" PROVE inc'[q] \in Doomed'
  BY <1>2, <1>4, <1>5, NextDoomedInv DEF DoomedInv
<1>6. ASSUME NEW q \in Procs, pc'[q] \in {"dClaim", "deleted"}, enabled', inc'[q] \in created'
      PROVE  inc'[q] \in purged'
  <2>1. CASE /\ Deleting(q) \/ pc[q] = "deleted"
             /\ inc'[q] = inc[q] /\ enabled' = enabled
             /\ pc[q] \in {"dClaim", "deleted"} \/ inc[q] \in purged'
    <3>1. inc[q] \in created
      BY <1>6, <2>1, Announced DEF MarkInv
    <3> QED
      BY <1>2, <1>6, <2>1, <3>1 DEF MarkInv
  <2>2. CASE /\ cur'[q] \in Ids /\ inc'[q] = claims[cur'[q]].uid
             /\ pc'[q] = "dClaim" => ~(claims[cur'[q]].conn /\ enabled)
             /\ UNCHANGED <<store, elapsed, enabled>>
             /\ pc'[q] = "dClaim"
    BY <1>3, <1>6, <2>2 DEF store
  <2> QED
    BY <1>1, <1>4, <1>6, <2>1, <2>2, DeletingStep DEF Deleting
<1>7. ASSUME NEW h \in Handlers, pc'[h] \in Forward, inc'[h] \in purged' PROVE inc'[h] \in Doomed'
  <2>1. CASE inc'[h] = inc[h] /\ pc[h] \in Forward
    <3>1. CASE inc[h] \in purged
      BY <1>2, <2>1, <3>1 DEF MarkInv
    <3>2. ASSUME NEW p \in Procs, Deleting(p), inc[p] = inc[h] PROVE inc[h] \in Doomed
      BY <1>1, <3>2 DEF DoomedInv
    <3>3. ASSUME NEW p \in Handlers, pc[p] = "rbInst", inc[p] = inc[h] PROVE FALSE
      BY <1>1, <2>1, <3>3 DEF OpeningInv, Opening, Forward
    <3> QED
      BY <1>1, <1>2, <1>7, <2>1, <3>1, <3>2, <3>3, PurgedStep
  <2>2. CASE inc'[h] = nextUid /\ UNCHANGED history
    BY <1>1, <1>7, <2>2 DEF HistoryInv, history
  <2> QED
    BY <1>1, <1>7, <2>1, <2>2, HeldStep DEF Rest, Forward, Deleting, Procs
<1> QED
  BY <1>3, <1>5, <1>6, <1>7 DEF MarkInv

(* What was purged of an announced session stays away: its name is in no   *)
(* create's hands any more.                                                *)
LEMMA NextCleanInv ==
  /\ ~ReuseIds /\ BaseInv /\ OnceInv /\ UnannouncedInv /\ NameInv /\ MarkInv /\ CleanInv
  /\ [Next]_vars
  => CleanInv'
<1> SUFFICES ASSUME ~ReuseIds, BaseInv, OnceInv, UnannouncedInv, NameInv, MarkInv, CleanInv,
                    [Next]_vars
             PROVE  CleanInv'
  OBVIOUS
<1>1. /\ TypeOK /\ HistoryInv /\ LocalInv /\ used \subseteq Ids /\ nextUid \in Nat \ {0}
      /\ 0 \notin created' \cap purged'
  <2>1. HistoryInv'
    BY NextHistoryInv
  <2> QED
    BY <2>1 DEF BaseInv, TypeOK, StoreType, HistoryInv
<1>2. ASSUME NEW u \in created' \cap purged'
      PROVE  /\ u \in created /\ u \in 1 .. nextUid - 1
             /\ \/ u \in purged
                \/ \E p \in Procs : /\ Working(p) /\ inc[p] = u
                                    /\ \A i \in Ids : i = cur[p] => Emptied(i)'
  <2>1. u \in created
    BY <1>2, Announced
  <2> QED
    BY <1>1, <2>1, PurgedStep DEF HistoryInv, Working, Opening
<1>3. ASSUME NEW i \in Ids, Emptied(i), ~Emptied(i)'
      PROVE  \E h \in Procs : /\ Working(h) /\ cur[h] = i
                              /\ inc[h] \notin created /\ inc[h] # 0
  <2>1. PICK h \in Handlers : Opening(h) /\ cur[h] = i
    BY <1>1, <1>3, EmptiedStep
  <2>2. Working(h) /\ h \in Procs
    BY <2>1 DEF Working, Procs
  <2> QED
    BY <1>1, <2>1, <2>2 DEF UnannouncedInv, LocalInv
<1>4. ASSUME NEW id \in Ids, claims'[id].uid \in created' \cap purged' PROVE Emptied(id)'
  <2>1. claims'[id].uid \in created /\ claims'[id].uid \in 1 .. nextUid - 1
    BY <1>2, <1>4
  <2>2. claims[id].uid = claims'[id].uid /\ claims[id].uid # 0
    BY <1>1, <2>1, UidStep
  <2>3. CASE claims[id].uid \in purged
    <3>1. Emptied(id)
      BY <2>1, <2>2, <2>3 DEF CleanInv
    <3>2. ASSUME NEW h \in Procs, Working(h), cur[h] = id PROVE inc[h] \in created
      BY <2>1, <2>2, <3>2, SameClaim
    <3> QED
      BY <1>3, <3>1, <3>2
  <2>4. ASSUME NEW p \in Procs, Working(p), inc[p] = claims[id].uid,
               \A i \in Ids : i = cur[p] => Emptied(i)'
        PROVE  Emptied(id)'
    BY <1>1, <2>4 DEF LocalInv
  <2> QED
    BY <1>2, <1>4, <2>2, <2>3, <2>4
<1>5. ASSUME NEW q \in Procs, inc'[q] \in created' \cap purged', NEW id \in Ids, cur'[q] = id
      PROVE  Emptied(id)'
  <2>1. inc'[q] \in created /\ inc'[q] \in 1 .. nextUid - 1 /\ inc'[q] # 0
    BY <1>1, <1>2, <1>5
  <2>2. CASE cur'[q] = cur[q] /\ inc'[q] = inc[q]
    <3>1. CASE inc[q] \in purged
      <4>1. Emptied(id)
        BY <1>5, <2>1, <2>2, <3>1 DEF CleanInv
      <4>2. ASSUME NEW h \in Procs, cur[h] = id, inc[h] # 0 PROVE inc[h] \in created
        BY <1>5, <2>1, <2>2, <4>2 DEF NameInv
      <4> QED
        BY <1>3, <4>1, <4>2
    <3>2. ASSUME NEW p \in Procs, inc[p] = inc[q], \A i \in Ids : i = cur[p] => Emptied(i)'
          PROVE  Emptied(id)'
      <4>1. cur[p] = id
        BY <1>5, <2>1, <2>2, <3>2 DEF NameInv
      <4> QED
        BY <3>2, <4>1
    <3> QED
      BY <1>2, <1>5, <2>2, <3>1, <3>2
  <2>3. CASE inc'[q] = claims[cur'[q]].uid /\ UNCHANGED store
    BY <1>4, <1>5, <2>3 DEF store
  <2>4. CASE inc'[q] = nextUid
    BY <1>1, <2>1, <2>4
  <2>5. CASE pc[q] \in Rest /\ inc'[q] = inc[q]
    BY <2>1, <2>5 DEF NameInv
  <2> QED
    BY <1>1, <2>1, <2>2, <2>3, <2>4, <2>5, HeldStep
<1>6. ASSUME NEW q \in Procs, inc'[q] \in created' \cap purged' PROVE Emptied(cur[q])'
  <2>1. cur'[q] \in Ids
    BY <1>1, <1>6, NextNameInv, NextTypeOK DEF NameInv, TypeOK, StoreType
  <2> DEFINE id == cur'[q]
  <2>2. /\ instances'[id] # "wake" /\ routes'[id] = {}
    BY <1>5, <1>6, <2>1 DEF Emptied
  <2> QED
    BY <2>2 DEF Emptied
<1> QED
  BY <1>4, <1>6 DEF CleanInv

(* A DELETE answered 200 leaves neither a chat nor a gateway with a wakeUrl*)
(* of the session, if it had its 201 before anybody wanted it gone: the    *)
(* purge came before the claim was deleted, and nobody registers the name  *)
(* again, also when requests and sweeps that decommission it overlap, fail *)
(* and are retried; for clients that do not use an id again.               *)
THEOREM DeleteLeavesNothing == ASSUME ~ReuseIds PROVE Spec => []AckedDeleteLeavesNothing
<1>1. Init => ClearedInv
  BY DEF Init, ClearedInv, NameInv, MarkInv, CleanInv, Deleting, Forward
<1>2. BaseInv /\ OnceInv /\ ServedInv /\ ClearedInv /\ [Next]_vars => ClearedInv'
  BY NextNameInv, NextMarkInv, NextCleanInv DEF ClearedInv, ServedInv
<1>3. Spec => [](BaseInv /\ OnceInv) /\ []ServedInv /\ Init /\ [][Next]_vars
  BY OnceInvariant, ServedInvariant, PTL DEF Spec
<1>4. ClearedInv => AckedDeleteLeavesNothing
  BY DEF ClearedInv, MarkInv, CleanInv, AckedDeleteLeavesNothing, Procs
<1> QED
  BY <1>1, <1>2, <1>3, <1>4, PTL
=============================================================================
