----------------------- MODULE SessionLifecycle_proofs -----------------------
(***************************************************************************)
(* Proofs about SessionLifecycle, for every number of ids, chats, requests *)
(* in flight, sweep loops, faults and claims.                              *)
(***************************************************************************)
EXTENDS SessionLifecycle, TLAPS

-----------------------------------------------------------------------------
(* The inductive invariant behind the properties                           *)

Deleting(p) == pc[p] \in {"dInst", "dClaim"}

Working(p) == Deleting(p) \/ Opening(p)

(* A uid names one claim, of one id, and is below nextUid.                 *)
ClaimInv ==
  /\ \A id \in Ids : claims[id].uid < nextUid
  /\ \A id \in Ids : claims[id].uid = 0 => claims[id] = NoClaim
  /\ \A id \in Ids : claims[id].uid # 0 => id \in used
  /\ \A i, j \in Ids : claims[i].uid # 0 /\ claims[i].uid = claims[j].uid => i = j

HistoryInv == asked \cup elapsed \cup purged \cup created \cup deleted \subseteq 1 .. nextUid - 1

(* The claim a goroutine created or read is to be found at its id only.    *)
LocalInv ==
  \A p \in Procs : Working(p) =>
     /\ cur[p] \in used
     /\ inc[p] \in 1 .. nextUid - 1
     /\ \A i \in Ids : claims[i].uid = inc[p] => i = cur[p]

OpeningInv ==
  \A g, h \in Handlers : Opening(g) /\ Opening(h) /\ inc[g] = inc[h] => g = h

BaseInv == TypeOK /\ ClaimInv /\ HistoryInv /\ LocalInv /\ OpeningInv /\ AckedDeleteIsFinal

(* While ids are not used again, a goroutine works on the claim it thinks. *)
SameClaimInv ==
  /\ \A p \in Procs : Working(p) => claims[cur[p]].uid \in {0, inc[p]}
  /\ \A s \in Sweepers, id \in Ids : listed[s][id].mortal =>
        id \in used /\ claims[id].uid \in {0, listed[s][id].uid}
  /\ \A s \in Sweepers : \A id \in due[s] : id \in used /\ claims[id].uid \in {0} \cup elapsed

DoomedInv == \A p \in Procs : Deleting(p) => inc[p] \in Doomed

PurgedInv ==
  \A p \in Procs : pc[p] = "dClaim" /\ enabled /\ claims[cur[p]].conn => inc[p] \in purged

OnceInv == SameClaimInv /\ DoomedInv /\ PurgedInv


-----------------------------------------------------------------------------
(* The program starts with every variable in its type.                     *)
LEMMA InitTypeOK == Init => TypeOK
<1> SUFFICES ASSUME Init PROVE TypeOK
  OBVIOUS
<1>1. StoreType
  BY DEF Init, StoreType, NoClaim, Claim
<1>2. ClientType
  BY SwitchAssumption DEF Init, ClientType
<1>3. LocalType
  BY DEF Init, LocalType
<1>4. SweepType
  BY DEF Init, SweepType, NoClaim, Claim
<1>5. HistoryType
  BY DEF Init, HistoryType
<1> QED
  BY <1>1, <1>2, <1>3, <1>4, <1>5 DEF TypeOK

(* Deleting a claim changes nothing but its term mark. *)
LEMMA TerminatedClaims ==
  ASSUME claims \in [Ids -> Claim], NEW id, Terminated(id)
  PROVE  /\ claims' \in [Ids -> Claim]
         /\ \A i \in Ids : /\ claims'[i].uid = claims[i].uid
                           /\ claims'[i].conn = claims[i].conn
                           /\ claims'[i].mortal = claims[i].mortal
                           /\ i # id => claims'[i] = claims[i]
                           /\ i = id /\ claims[i].uid # 0 => claims'[i].term
                           /\ claims[i].uid = 0 => claims'[i] = claims[i]
<1>1. CASE claims[id].uid = 0
  BY <1>1 DEF Terminated
<1>2. CASE claims[id].uid # 0 /\ id \in Ids
  <2> DEFINE c == [uid |-> claims[id].uid, conn |-> claims[id].conn,
                   mortal |-> claims[id].mortal, term |-> TRUE]
  <2>1. c \in Claim
    BY <1>2 DEF Claim
  <2>2. claims' = [claims EXCEPT ![id] = c]
    BY <1>2 DEF Terminated
  <2> QED
    BY <1>2, <2>1, <2>2
<1>3. CASE claims[id].uid # 0 /\ id \notin Ids
  <2>1. claims' = claims
    BY <1>3 DEF Terminated
  <2> QED
    BY <1>3, <2>1
<1> QED
  BY <1>1, <1>2, <1>3

(* No outcome of a call takes the client state out of its types.           *)
LEMMA CallClientType ==
  ASSUME ClientType,
         Refused \/ Errored \/ AnswerLost \/ Answered \/ K8sFails \/ K8sLost \/ K8sOk
  PROVE  ClientType'
<1>1. ASSUME NEW kind, Fault(kind) PROVE faults' \in Nat
  BY <1>1 DEF Fault, ClientType
<1>2. UNCHANGED client => ClientType'
  BY DEF client, ClientType
<1>3. CASE Refused
  BY <1>1, <1>2, <1>3 DEF Refused, ClientType
<1>4. CASE Errored \/ AnswerLost \/ K8sFails \/ K8sLost
  BY <1>1, <1>4 DEF Errored, AnswerLost, K8sFails, K8sLost, ClientType
<1> QED
  BY <1>2, <1>3, <1>4 DEF Answered, K8sOk

(* Every step keeps every variable in its type.                            *)
LEMMA NextTypeOK == TypeOK /\ [Next]_vars => TypeOK'
<1> SUFFICES ASSUME TypeOK, [Next]_vars PROVE TypeOK'
  OBVIOUS
<1> USE DEF TypeOK, Procs, store, client, local, history, Goto
<1>0. Refused \/ Errored \/ AnswerLost \/ Answered \/ K8sFails \/ K8sLost \/ K8sOk => ClientType'
  BY CallClientType
<1>1. ASSUME NEW h \in Handlers, NEW id \in Ids, HandleDelete(h, id)
      PROVE  TypeOK'
  <2>1. StoreType'
    BY <1>1 DEF StoreType, Claim, HandleDelete, Read
  <2>2. ClientType'
    BY <1>0, <1>1 DEF HandleDelete
  <2>3. LocalType'
    <3>1. claims[id].uid \in Nat
      BY DEF StoreType, Claim
    <3> QED
      BY <1>1, <3>1 DEF LocalType, Calls, Replies, HandleDelete, Read
  <2>4. SweepType'
    BY <1>1 DEF SweepType, Claim, HandleDelete, Read, StoreType
  <2>5. HistoryType'
    BY <1>1 DEF HistoryType, HandleDelete, Read, LocalType, StoreType, Claim
  <2> QED
    BY <2>1, <2>2, <2>3, <2>4, <2>5
<1>2. ASSUME NEW h \in Handlers, NEW id \in Ids, NEW conn \in BOOLEAN, NEW mortal \in BOOLEAN,
             NEW bind \in SUBSET Chats, HandleCreate(h, id, conn, mortal, bind)
      PROVE  TypeOK'
  <2>1. StoreType'
    <3>1. CASE NewClaim(id, conn, mortal) /\ UNCHANGED <<instances, routes>>
      BY <3>1 DEF StoreType, Claim, NewClaim
    <3>2. CASE UNCHANGED store
      BY <3>2 DEF StoreType
    <3> QED
      BY <1>2, <3>1, <3>2 DEF HandleCreate
  <2>2. ClientType'
    <3>1. CASE UNCHANGED client
      BY <1>0, <3>1 DEF K8sOk
    <3> QED
      BY <1>0, <1>2, <3>1 DEF HandleCreate
  <2>3. LocalType'
    BY <1>2 DEF LocalType, Calls, Replies, HandleCreate, NewClaim, StoreType, Claim
  <2>4. SweepType'
    BY <1>2 DEF SweepType, Claim, HandleCreate, NewClaim, StoreType
  <2>5. HistoryType'
    BY <1>2 DEF HistoryType, HandleCreate, NewClaim, LocalType, StoreType, Claim
  <2> QED
    BY <2>1, <2>2, <2>3, <2>4, <2>5
<1>3. ASSUME NEW h \in Handlers, Provision(h)
      PROVE  TypeOK'
  <2>1. StoreType'
    BY <1>3 DEF StoreType, Claim, Provision, Provisioned
  <2>2. ClientType'
    BY <1>0, <1>3 DEF Provision
  <2>3. LocalType'
    BY <1>3 DEF LocalType, Calls, Replies, Provision, Provisioned, StoreType, Claim
  <2>4. SweepType'
    BY <1>3 DEF SweepType, Claim, Provision, Provisioned, StoreType
  <2>5. HistoryType'
    BY <1>3 DEF HistoryType, Provision, Provisioned, LocalType, StoreType, Claim
  <2> QED
    BY <2>1, <2>2, <2>3, <2>4, <2>5
<1>4. ASSUME NEW h \in Handlers, SetRoute(h)
      PROVE  TypeOK'
  <2>1. StoreType'
    <3>1. PICK chat \in chats[h] : \/ routes' = [routes EXCEPT ![cur[h]] = @ \cup {chat}]
                                   \/ UNCHANGED routes
      BY <1>4 DEF SetRoute
    <3>2. chat \in Chats
      BY <3>1 DEF LocalType
    <3>3. routes' \in [Ids -> SUBSET Chats]
      BY <3>1, <3>2 DEF StoreType
    <3> QED
      BY <1>4, <3>3 DEF SetRoute, StoreType
  <2>2. ClientType'
    BY <1>0, <1>4 DEF SetRoute
  <2>3. LocalType'
    BY <1>4 DEF LocalType, Calls, Replies, SetRoute, StoreType, Claim
  <2>4. SweepType'
    BY <1>4 DEF SweepType, Claim, SetRoute, StoreType
  <2>5. HistoryType'
    BY <1>4 DEF HistoryType, SetRoute, LocalType, StoreType, Claim
  <2> QED
    BY <2>1, <2>2, <2>3, <2>4, <2>5
<1>5. ASSUME NEW h \in Handlers, RollbackInstance(h)
      PROVE  TypeOK'
  <2>1. StoreType'
    BY <1>5 DEF StoreType, Claim, RollbackInstance, Purged
  <2>2. ClientType'
    BY <1>0, <1>5 DEF RollbackInstance
  <2>3. LocalType'
    BY <1>5 DEF LocalType, Calls, Replies, RollbackInstance, Purged, StoreType, Claim
  <2>4. SweepType'
    BY <1>5 DEF SweepType, Claim, RollbackInstance, Purged, StoreType
  <2>5. HistoryType'
    BY <1>5 DEF HistoryType, RollbackInstance, Purged, LocalType, StoreType, Claim
  <2> QED
    BY <2>1, <2>2, <2>3, <2>4, <2>5
<1>6. ASSUME NEW h \in Handlers, RollbackClaim(h)
      PROVE  TypeOK'
  <2>1. StoreType'
    BY <1>6, TerminatedClaims DEF StoreType, RollbackClaim
  <2>2. ClientType'
    BY <1>0, <1>6 DEF RollbackClaim
  <2>3. LocalType'
    BY <1>6 DEF LocalType, Calls, Replies, RollbackClaim, Terminated, StoreType, Claim
  <2>4. SweepType'
    BY <1>6 DEF SweepType, Claim, RollbackClaim, Terminated, StoreType
  <2>5. HistoryType'
    BY <1>6 DEF HistoryType, RollbackClaim, Terminated, LocalType, StoreType, Claim
  <2> QED
    BY <2>1, <2>2, <2>3, <2>4, <2>5
<1>7. ASSUME NEW h \in Handlers, GetCreated(h)
      PROVE  TypeOK'
  <2>1. StoreType'
    BY <1>7 DEF StoreType, Claim, GetCreated, ListInstances
  <2>2. ClientType'
    BY <1>0, <1>7 DEF GetCreated, ListInstances
  <2>3. LocalType'
    BY <1>7 DEF LocalType, Calls, Replies, GetCreated, ListInstances, StoreType, Claim
  <2>4. SweepType'
    BY <1>7 DEF SweepType, Claim, GetCreated, ListInstances, StoreType
  <2>5. HistoryType'
    BY <1>7 DEF HistoryType, GetCreated, ListInstances, LocalType, StoreType, Claim
  <2> QED
    BY <2>1, <2>2, <2>3, <2>4, <2>5
<1>8. ASSUME NEW p \in Procs, PurgeInstance(p)
      PROVE  TypeOK'
  <2>1. StoreType'
    BY <1>8 DEF StoreType, Claim, PurgeInstance, Return, Purged
  <2>2. ClientType'
    BY <1>0, <1>8 DEF PurgeInstance
  <2>3. LocalType'
    BY <1>8 DEF LocalType, Calls, Replies, PurgeInstance, Return, Purged, StoreType, Claim
  <2>4. SweepType'
    BY <1>8 DEF SweepType, Claim, PurgeInstance, Return, Purged, StoreType
  <2>5. HistoryType'
    BY <1>8 DEF HistoryType, PurgeInstance, Return, Purged, LocalType, StoreType, Claim
  <2> QED
    BY <2>1, <2>2, <2>3, <2>4, <2>5
<1>9. ASSUME NEW p \in Procs, DeleteClaim(p)
      PROVE  TypeOK'
  <2>1. StoreType'
    BY <1>9, TerminatedClaims DEF StoreType, DeleteClaim
  <2>2. ClientType'
    BY <1>0, <1>9 DEF DeleteClaim
  <2>3. LocalType'
    BY <1>9 DEF LocalType, Calls, Replies, DeleteClaim, Return, Terminated, StoreType, Claim
  <2>4. SweepType'
    BY <1>9 DEF SweepType, Claim, DeleteClaim, Return, Terminated, StoreType
  <2>5. HistoryType'
    BY <1>9 DEF HistoryType, DeleteClaim, Return, Terminated, LocalType, StoreType, Claim
  <2> QED
    BY <2>1, <2>2, <2>3, <2>4, <2>5
<1>10. ASSUME NEW h \in Handlers, Answer(h)
      PROVE  TypeOK'
  <2>1. StoreType'
    BY <1>10 DEF StoreType, Claim, Answer
  <2>2. ClientType'
    BY <1>0, <1>10 DEF ClientType, Answer
  <2>3. LocalType'
    BY <1>10 DEF LocalType, Calls, Replies, Answer, StoreType, Claim
  <2>4. SweepType'
    BY <1>10 DEF SweepType, Claim, Answer, StoreType
  <2>5. HistoryType'
    BY <1>10 DEF HistoryType, Answer, LocalType, StoreType, Claim
  <2> QED
    BY <2>1, <2>2, <2>3, <2>4, <2>5
<1>11. ASSUME NEW s \in Sweepers, SweepList(s)
      PROVE  TypeOK'
  <2>1. StoreType'
    BY <1>11 DEF StoreType, Claim, SweepList
  <2>2. ClientType'
    BY <1>0, <1>11 DEF SweepList
  <2>3. LocalType'
    BY <1>11 DEF LocalType, Calls, Replies, SweepList, StoreType, Claim
  <2>4. SweepType'
    BY <1>11 DEF SweepType, Claim, SweepList, StoreType
  <2>5. HistoryType'
    BY <1>11 DEF HistoryType, SweepList, LocalType, StoreType, Claim
  <2> QED
    BY <2>1, <2>2, <2>3, <2>4, <2>5
<1>12. ASSUME NEW s \in Sweepers, SweepFetch(s)
      PROVE  TypeOK'
  <2>1. StoreType'
    BY <1>12 DEF StoreType, Claim, SweepFetch, ListInstances, NoClaim
  <2>2. ClientType'
    BY <1>0, <1>12 DEF ClientType, SweepFetch, ListInstances
  <2>3. LocalType'
    BY <1>12 DEF LocalType, Calls, Replies, SweepFetch, ListInstances, NoClaim, StoreType, Claim
  <2>4. SweepType'
    BY <1>12 DEF SweepType, Claim, SweepFetch, ListInstances, NoClaim, StoreType
  <2>5. HistoryType'
    BY <1>12 DEF HistoryType, SweepFetch, ListInstances, NoClaim, LocalType, StoreType, Claim
  <2> QED
    BY <2>1, <2>2, <2>3, <2>4, <2>5
<1>13. ASSUME NEW s \in Sweepers, NEW id \in Ids, SweepTTL(s, id)
      PROVE  TypeOK'
  <2>1. StoreType'
    BY <1>13 DEF StoreType, Claim, SweepTTL, Read
  <2>2. ClientType'
    BY <1>0, <1>13 DEF SweepTTL
  <2>3. LocalType'
    BY <1>13 DEF LocalType, Calls, Replies, SweepTTL, Read, StoreType, Claim
  <2>4. SweepType'
    BY <1>13 DEF SweepType, Claim, SweepTTL, Read, StoreType
  <2>5. HistoryType'
    BY <1>13 DEF HistoryType, SweepTTL, Read, LocalType, StoreType, Claim
  <2> QED
    BY <2>1, <2>2, <2>3, <2>4, <2>5
<1>14. ASSUME NEW s \in Sweepers, SweepEnd(s)
      PROVE  TypeOK'
  <2>1. StoreType'
    BY <1>14 DEF StoreType, Claim, SweepEnd
  <2>2. ClientType'
    BY <1>0, <1>14 DEF ClientType, SweepEnd
  <2>3. LocalType'
    BY <1>14 DEF LocalType, Calls, Replies, SweepEnd, StoreType, Claim
  <2>4. SweepType'
    BY <1>14 DEF SweepType, Claim, SweepEnd, StoreType
  <2>5. HistoryType'
    BY <1>14 DEF HistoryType, SweepEnd, LocalType, StoreType, Claim
  <2> QED
    BY <2>1, <2>2, <2>3, <2>4, <2>5
<1>15. ASSUME WindowEnds PROVE TypeOK'
  <2>1. StoreType'
    BY <1>15 DEF StoreType, Claim, WindowEnds
  <2>2. ClientType'
    BY <1>0, <1>15 DEF ClientType, WindowEnds
  <2>3. LocalType'
    BY <1>15 DEF LocalType, Calls, Replies, WindowEnds, StoreType, Claim
  <2>4. SweepType'
    BY <1>15 DEF SweepType, Claim, WindowEnds, StoreType
  <2>5. HistoryType'
    BY <1>15 DEF HistoryType, WindowEnds, LocalType, StoreType, Claim
  <2> QED
    BY <2>1, <2>2, <2>3, <2>4, <2>5
<1>16. ASSUME NEW id \in Ids, TTLElapses(id)
      PROVE  TypeOK'
  <2>1. StoreType'
    BY <1>16 DEF StoreType, Claim, TTLElapses
  <2>2. ClientType'
    BY <1>0, <1>16 DEF ClientType, TTLElapses
  <2>3. LocalType'
    BY <1>16 DEF LocalType, Calls, Replies, TTLElapses, StoreType, Claim
  <2>4. SweepType'
    BY <1>16 DEF SweepType, Claim, TTLElapses, StoreType
  <2>5. HistoryType'
    BY <1>16 DEF HistoryType, TTLElapses, LocalType, StoreType, Claim
  <2> QED
    BY <2>1, <2>2, <2>3, <2>4, <2>5
<1>17. ASSUME NEW id \in Ids, ClaimGone(id)
      PROVE  TypeOK'
  <2>1. StoreType'
    BY <1>17 DEF StoreType, Claim, ClaimGone, NoClaim
  <2>2. ClientType'
    BY <1>0, <1>17 DEF ClientType, ClaimGone
  <2>3. LocalType'
    BY <1>17 DEF LocalType, Calls, Replies, ClaimGone, NoClaim, StoreType, Claim
  <2>4. SweepType'
    BY <1>17 DEF SweepType, Claim, ClaimGone, NoClaim, StoreType
  <2>5. HistoryType'
    BY <1>17 DEF HistoryType, ClaimGone, NoClaim, LocalType, StoreType, Claim
  <2> QED
    BY <2>1, <2>2, <2>3, <2>4, <2>5
<1>18. ASSUME NEW id \in Ids, PodBoot(id)
      PROVE  TypeOK'
  <2>1. StoreType'
    BY <1>18 DEF StoreType, Claim, PodBoot
  <2>2. ClientType'
    BY <1>0, <1>18 DEF ClientType, PodBoot
  <2>3. LocalType'
    BY <1>18 DEF LocalType, Calls, Replies, PodBoot, StoreType, Claim
  <2>4. SweepType'
    BY <1>18 DEF SweepType, Claim, PodBoot, StoreType
  <2>5. HistoryType'
    BY <1>18 DEF HistoryType, PodBoot, LocalType, StoreType, Claim
  <2> QED
    BY <2>1, <2>2, <2>3, <2>4, <2>5
<1>19. ASSUME Crash PROVE TypeOK'
  <2>1. StoreType'
    BY <1>19 DEF StoreType, Claim, Crash, NoClaim
  <2>2. ClientType'
    <3>1. faults' \in Nat
      BY <1>19 DEF Crash, Fault, ClientType
    <3> QED
      BY <3>1, <1>19, SwitchAssumption DEF Crash, ClientType
  <2>3. LocalType'
    BY <1>19 DEF LocalType, Calls, Replies, Crash, NoClaim, StoreType, Claim
  <2>4. SweepType'
    BY <1>19 DEF SweepType, Claim, Crash, NoClaim, StoreType
  <2>5. HistoryType'
    BY <1>19 DEF HistoryType, Crash, NoClaim, LocalType, StoreType, Claim
  <2> QED
    BY <2>1, <2>2, <2>3, <2>4, <2>5
<1>20. ASSUME UNCHANGED vars PROVE TypeOK'
  <2>1. StoreType'
    BY <1>20 DEF StoreType, Claim, vars
  <2>2. ClientType'
    BY <1>0, <1>20 DEF ClientType, vars
  <2>3. LocalType'
    BY <1>20 DEF LocalType, Calls, Replies, vars, StoreType, Claim
  <2>4. SweepType'
    BY <1>20 DEF SweepType, Claim, vars, StoreType
  <2>5. HistoryType'
    BY <1>20 DEF HistoryType, vars, LocalType, StoreType, Claim
  <2> QED
    BY <2>1, <2>2, <2>3, <2>4, <2>5
<1> QED
  BY <1>1, <1>2, <1>3, <1>4, <1>5, <1>6, <1>7, <1>8, <1>9, <1>10, <1>11, <1>12,
     <1>13, <1>14, <1>15, <1>16, <1>17, <1>18, <1>19, <1>20
     DEF Next, Serve, Sweep, World

(* Every variable keeps its type: the states the properties speak of are   *)
(* the only ones the handlers and sweeps of the lifecycle-manager reach.   *)
THEOREM TypeCorrect == Spec => []TypeOK
  BY InitTypeOK, NextTypeOK, PTL DEF Spec

-----------------------------------------------------------------------------
(* Two facts about the steps: how a goroutine comes to work on a session,  *)
(* and who changes claims.                                                 *)

(* How a goroutine comes to work on a claim: it did before, it has just    *)
(* created it, or it has just read it.                                     *)
LEMMA WorkingStep ==
  ASSUME TypeOK, [Next]_vars, NEW q \in Procs, Working(q)'
  PROVE  \/ /\ Working(q) /\ cur'[q] = cur[q] /\ inc'[q] = inc[q]
            /\ Opening(q)' => Opening(q)
         \/ /\ q \in Handlers /\ Opening(q)' /\ ~Opening(q)
            /\ cur'[q] \in Ids /\ inc'[q] = nextUid /\ claims[cur'[q]].uid = 0
            /\ \E conn, mortal \in BOOLEAN : NewClaim(cur'[q], conn, mortal)
            /\ UNCHANGED <<elapsed, history, enabled>>
            /\ \A p \in Procs : p # q => pc'[p] = pc[p] /\ cur'[p] = cur[p] /\ inc'[p] = inc[p]
         \/ /\ Deleting(q)' /\ cur'[q] \in Ids /\ inc'[q] = claims[cur'[q]].uid /\ inc'[q] # 0
            /\ UNCHANGED <<claims, used, nextUid>>
<1> DEFINE Goal ==
         \/ /\ Working(q) /\ cur'[q] = cur[q] /\ inc'[q] = inc[q]
            /\ Opening(q)' => Opening(q)
         \/ /\ q \in Handlers /\ Opening(q)' /\ ~Opening(q)
            /\ cur'[q] \in Ids /\ inc'[q] = nextUid /\ claims[cur'[q]].uid = 0
            /\ \E conn, mortal \in BOOLEAN : NewClaim(cur'[q], conn, mortal)
            /\ UNCHANGED <<elapsed, history, enabled>>
            /\ \A p \in Procs : p # q => pc'[p] = pc[p] /\ cur'[p] = cur[p] /\ inc'[p] = inc[p]
         \/ /\ Deleting(q)' /\ cur'[q] \in Ids /\ inc'[q] = claims[cur'[q]].uid /\ inc'[q] # 0
            /\ UNCHANGED <<claims, used, nextUid>>
<1> SUFFICES Goal
  OBVIOUS
<1> USE DEF TypeOK, LocalType, Procs, Working, Deleting, Opening, Goto, Replies
<1>1. ASSUME NEW h \in Handlers, NEW id \in Ids,
             HandleDelete(h, id)
      PROVE  Goal
  BY <1>1 DEF HandleDelete, Read, store, local
<1>2. ASSUME NEW h \in Handlers, NEW id \in Ids, NEW conn \in BOOLEAN, NEW mortal \in BOOLEAN,
             NEW bind \in SUBSET Chats,
             HandleCreate(h, id, conn, mortal, bind)
      PROVE  Goal
  <2>1. CASE q # h
    BY <1>2, <2>1 DEF HandleCreate
  <2>2. CASE q = h
    <3>1. pc'[h] \in {"provision", "get"}
      BY <1>2, <2>2 DEF HandleCreate
    <3>2. /\ claims[id].uid = 0
          /\ NewClaim(id, conn, mortal)
          /\ inc' = [inc EXCEPT ![h] = nextUid]
          /\ UNCHANGED enabled
      BY <1>2, <3>1 DEF HandleCreate, K8sOk, K8sLost, client
    <3>3. pc[h] = "idle" /\ cur' = [cur EXCEPT ![h] = id] /\ UNCHANGED <<elapsed, history>>
      BY <1>2 DEF HandleCreate
    <3>4. \A p \in Procs : p # h => pc'[p] = pc[p]
      BY <1>2 DEF HandleCreate
    <3> QED
      BY <2>2, <3>1, <3>2, <3>3, <3>4
  <2> QED
    BY <2>1, <2>2
<1>3. ASSUME NEW h \in Handlers,
             Provision(h)
      PROVE  Goal
  BY <1>3 DEF Provision, store, local
<1>4. ASSUME NEW h \in Handlers,
             SetRoute(h)
      PROVE  Goal
  BY <1>4 DEF SetRoute, store, local
<1>5. ASSUME NEW h \in Handlers,
             RollbackInstance(h)
      PROVE  Goal
  BY <1>5 DEF RollbackInstance, store, local
<1>6. ASSUME NEW h \in Handlers,
             RollbackClaim(h)
      PROVE  Goal
  BY <1>6 DEF RollbackClaim, store, local
<1>7. ASSUME NEW h \in Handlers,
             GetCreated(h)
      PROVE  Goal
  BY <1>7 DEF GetCreated, store, local
<1>8. ASSUME NEW p \in Procs,
             PurgeInstance(p)
      PROVE  Goal
  BY <1>8 DEF PurgeInstance, Return, store, local
<1>9. ASSUME NEW p \in Procs,
             DeleteClaim(p)
      PROVE  Goal
  BY <1>9 DEF DeleteClaim, Return, store, local
<1>10. ASSUME NEW h \in Handlers,
             Answer(h)
      PROVE  Goal
  BY <1>10 DEF Answer, store, local
<1>11. ASSUME NEW s \in Sweepers,
             SweepList(s)
      PROVE  Goal
  BY <1>11 DEF SweepList, store, local
<1>12. ASSUME NEW s \in Sweepers,
             SweepFetch(s)
      PROVE  Goal
  BY <1>12 DEF SweepFetch, store, local
<1>13. ASSUME NEW s \in Sweepers, NEW id \in Ids,
             SweepTTL(s, id)
      PROVE  Goal
  BY <1>13 DEF SweepTTL, Read, store, local
<1>14. ASSUME NEW s \in Sweepers,
             SweepEnd(s)
      PROVE  Goal
  BY <1>14 DEF SweepEnd, store, local
<1>15. ASSUME WindowEnds PROVE Goal
  BY <1>15 DEF WindowEnds, store, local
<1>16. ASSUME NEW id \in Ids,
             TTLElapses(id)
      PROVE  Goal
  BY <1>16 DEF TTLElapses, store, local
<1>17. ASSUME NEW id \in Ids,
             ClaimGone(id)
      PROVE  Goal
  BY <1>17 DEF ClaimGone, store, local
<1>18. ASSUME NEW id \in Ids,
             PodBoot(id)
      PROVE  Goal
  BY <1>18 DEF PodBoot, store, local
<1>19. ASSUME Crash PROVE Goal
  BY <1>19 DEF Crash, store, local
<1>20. ASSUME UNCHANGED vars PROVE Goal
  BY <1>20 DEF vars, store, local
<1> QED
  BY <1>1, <1>2, <1>3, <1>4, <1>5, <1>6, <1>7, <1>8, <1>9, <1>10, <1>11, <1>12,
     <1>13, <1>14, <1>15, <1>16, <1>17, <1>18, <1>19, <1>20
     DEF Next, Serve, Sweep, World

(* What a step does to the claims: nothing, create one, mark one for       *)
(* deletion (a rollback, a decommission), or collect one.                  *)
LEMMA ClaimStep ==
  ASSUME [Next]_vars
  PROVE  \/ UNCHANGED <<claims, used, nextUid>>
         \/ \E h \in Handlers, id \in Ids, conn, mortal \in BOOLEAN, bind \in SUBSET Chats :
              /\ HandleCreate(h, id, conn, mortal, bind)
              /\ claims[id].uid = 0
              /\ NewClaim(id, conn, mortal)
         \/ \E h \in Handlers : RollbackClaim(h) /\ Terminated(cur[h]) /\ UNCHANGED <<used, nextUid>>
         \/ \E p \in Procs : DeleteClaim(p) /\ Terminated(cur[p]) /\ UNCHANGED <<used, nextUid>>
         \/ \E id \in Ids : ClaimGone(id) /\ UNCHANGED <<used, nextUid>>
<1> DEFINE Goal ==
         \/ UNCHANGED <<claims, used, nextUid>>
         \/ \E h \in Handlers, id \in Ids, conn, mortal \in BOOLEAN, bind \in SUBSET Chats :
              /\ HandleCreate(h, id, conn, mortal, bind)
              /\ claims[id].uid = 0
              /\ NewClaim(id, conn, mortal)
         \/ \E h \in Handlers : RollbackClaim(h) /\ Terminated(cur[h]) /\ UNCHANGED <<used, nextUid>>
         \/ \E p \in Procs : DeleteClaim(p) /\ Terminated(cur[p]) /\ UNCHANGED <<used, nextUid>>
         \/ \E id \in Ids : ClaimGone(id) /\ UNCHANGED <<used, nextUid>>
<1> SUFFICES Goal
  OBVIOUS
<1>1. ASSUME NEW h \in Handlers, NEW id \in Ids,
             HandleDelete(h, id)
      PROVE  Goal
  BY <1>1 DEF HandleDelete, Read, store
<1>2. ASSUME NEW h \in Handlers, NEW id \in Ids, NEW conn \in BOOLEAN, NEW mortal \in BOOLEAN,
             NEW bind \in SUBSET Chats,
             HandleCreate(h, id, conn, mortal, bind)
      PROVE  Goal
  <2>1. CASE UNCHANGED store
    BY <2>1 DEF store
  <2>2. CASE claims[id].uid = 0 /\ NewClaim(id, conn, mortal)
    BY <1>2, <2>2
  <2> QED
    BY <1>2, <2>1, <2>2 DEF HandleCreate
<1>3. ASSUME NEW h \in Handlers,
             Provision(h)
      PROVE  Goal
  BY <1>3 DEF Provision, store
<1>4. ASSUME NEW h \in Handlers,
             SetRoute(h)
      PROVE  Goal
  BY <1>4 DEF SetRoute, store
<1>5. ASSUME NEW h \in Handlers,
             RollbackInstance(h)
      PROVE  Goal
  BY <1>5 DEF RollbackInstance, store
<1>6. ASSUME NEW h \in Handlers,
             RollbackClaim(h)
      PROVE  Goal
  BY <1>6 DEF RollbackClaim
<1>7. ASSUME NEW h \in Handlers,
             GetCreated(h)
      PROVE  Goal
  BY <1>7 DEF GetCreated, store
<1>8. ASSUME NEW p \in Procs,
             PurgeInstance(p)
      PROVE  Goal
  BY <1>8 DEF PurgeInstance, Return, store
<1>9. ASSUME NEW p \in Procs,
             DeleteClaim(p)
      PROVE  Goal
  BY <1>9 DEF DeleteClaim
<1>10. ASSUME NEW h \in Handlers,
             Answer(h)
      PROVE  Goal
  BY <1>10 DEF Answer, store
<1>11. ASSUME NEW s \in Sweepers,
             SweepList(s)
      PROVE  Goal
  BY <1>11 DEF SweepList, store
<1>12. ASSUME NEW s \in Sweepers,
             SweepFetch(s)
      PROVE  Goal
  BY <1>12 DEF SweepFetch, store
<1>13. ASSUME NEW s \in Sweepers, NEW id \in Ids,
             SweepTTL(s, id)
      PROVE  Goal
  BY <1>13 DEF SweepTTL, Read, store
<1>14. ASSUME NEW s \in Sweepers,
             SweepEnd(s)
      PROVE  Goal
  BY <1>14 DEF SweepEnd, store
<1>15. ASSUME WindowEnds PROVE Goal
  BY <1>15 DEF WindowEnds, store
<1>16. ASSUME NEW id \in Ids,
             TTLElapses(id)
      PROVE  Goal
  BY <1>16 DEF TTLElapses, store
<1>17. ASSUME NEW id \in Ids,
             ClaimGone(id)
      PROVE  Goal
  BY <1>17 DEF ClaimGone, store
<1>18. ASSUME NEW id \in Ids,
             PodBoot(id)
      PROVE  Goal
  BY <1>18 DEF PodBoot, store
<1>19. ASSUME Crash PROVE Goal
  BY <1>19 DEF Crash, store
<1>20. ASSUME UNCHANGED vars PROVE Goal
  BY <1>20 DEF vars, store
<1> QED
  BY <1>1, <1>2, <1>3, <1>4, <1>5, <1>6, <1>7, <1>8, <1>9, <1>10, <1>11, <1>12,
     <1>13, <1>14, <1>15, <1>16, <1>17, <1>18, <1>19, <1>20
     DEF Procs, Next, Serve, Sweep, World

(* What a new claim changes, at its id and elsewhere. *)
LEMMA NewClaimFacts ==
  ASSUME TypeOK, NEW id \in Ids, NEW conn \in BOOLEAN, NEW mortal \in BOOLEAN,
         NewClaim(id, conn, mortal)
  PROVE  /\ claims'[id].uid = nextUid /\ claims'[id].conn = conn
         /\ claims'[id].mortal = mortal /\ claims'[id].term = FALSE
         /\ \A i \in Ids : i # id => claims'[i] = claims[i]
         /\ nextUid' = nextUid + 1 /\ nextUid \in Nat \ {0}
         /\ used' = used \cup {id}
  BY DEF NewClaim, TypeOK, StoreType

(* A uid keeps naming one claim of one id.                                 *)
LEMMA NextClaimInv == BaseInv /\ [Next]_vars => ClaimInv'
<1> SUFFICES ASSUME BaseInv, [Next]_vars PROVE ClaimInv'
  OBVIOUS
<1>1. TypeOK /\ ClaimInv
  BY DEF BaseInv
<1>2. claims \in [Ids -> Claim] /\ nextUid \in Nat /\ \A i \in Ids : claims[i].uid \in Nat
  BY <1>1 DEF TypeOK, StoreType, Claim
<1>3. CASE UNCHANGED <<claims, used, nextUid>>
  BY <1>1, <1>3 DEF ClaimInv
<1>4. ASSUME NEW id \in Ids, NEW conn \in BOOLEAN, NEW mortal \in BOOLEAN,
             claims[id].uid = 0, NewClaim(id, conn, mortal)
      PROVE  ClaimInv'
  <2>1. /\ claims'[id].uid = nextUid /\ nextUid # 0
        /\ \A i \in Ids : i # id => claims'[i] = claims[i]
        /\ nextUid' = nextUid + 1
        /\ used' = used \cup {id}
    BY <1>1, <1>4, NewClaimFacts
  <2>2. \A i \in Ids : claims'[i].uid < nextUid'
    BY <1>1, <1>2, <2>1 DEF ClaimInv
  <2>3. \A i \in Ids : claims'[i].uid = 0 => claims'[i] = NoClaim
    BY <1>1, <2>1 DEF ClaimInv
  <2>4. \A i \in Ids : claims'[i].uid # 0 => i \in used'
    BY <1>1, <2>1 DEF ClaimInv
  <2>5. \A i \in Ids : i # id => claims'[i].uid # nextUid
    BY <1>1, <1>2, <2>1 DEF ClaimInv
  <2>6. \A i, j \in Ids : claims'[i].uid # 0 /\ claims'[i].uid = claims'[j].uid => i = j
    BY <1>1, <2>1, <2>5 DEF ClaimInv
  <2> QED
    BY <2>2, <2>3, <2>4, <2>6 DEF ClaimInv
<1>5. ASSUME NEW id, Terminated(id), UNCHANGED <<used, nextUid>> PROVE ClaimInv'
  BY <1>1, <1>2, <1>5, TerminatedClaims DEF ClaimInv
<1>6. ASSUME NEW id \in Ids, ClaimGone(id), UNCHANGED <<used, nextUid>> PROVE ClaimInv'
  <2>1. /\ claims'[id] = NoClaim
        /\ \A i \in Ids : i # id => claims'[i] = claims[i]
    BY <1>2, <1>6 DEF ClaimGone
  <2>2. NoClaim.uid = 0
    BY DEF NoClaim
  <2>3. used' = used /\ nextUid' = nextUid
    BY <1>6
  <2>4. \A i \in Ids : claims'[i].uid < nextUid'
    BY <1>1, <1>2, <2>1, <2>2, <2>3 DEF ClaimInv
  <2>5. \A i \in Ids : claims'[i].uid = 0 => claims'[i] = NoClaim
    BY <1>1, <2>1 DEF ClaimInv
  <2>6. \A i \in Ids : claims'[i].uid # 0 => i \in used'
    BY <1>1, <2>1, <2>2, <2>3 DEF ClaimInv
  <2>7. \A i, j \in Ids : claims'[i].uid # 0 /\ claims'[i].uid = claims'[j].uid => i = j
    BY <1>1, <2>1, <2>2 DEF ClaimInv
  <2> QED
    BY <2>4, <2>5, <2>6, <2>7 DEF ClaimInv
<1> QED
  BY <1>3, <1>4, <1>5, <1>6, ClaimStep

(* A claim keeps its uid and its term mark until it goes, and uids grow. *)
LEMMA UidStep ==
  ASSUME BaseInv, [Next]_vars
  PROVE  /\ nextUid' \in {nextUid, nextUid + 1} /\ nextUid \in Nat
         /\ used \subseteq used'
         /\ \A i \in Ids : /\ claims[i].uid \in Nat
                           /\ claims'[i].uid \in {claims[i].uid, 0, nextUid}
                           /\ claims[i].uid # 0 => claims'[i].uid \in {claims[i].uid, 0}
                           /\ claims'[i].uid = claims[i].uid /\ claims[i].uid # 0 =>
                                 /\ claims'[i].conn = claims[i].conn
                                 /\ claims'[i].mortal = claims[i].mortal
                                 /\ claims[i].term => claims'[i].term
<1> DEFINE Goal ==
         /\ nextUid' \in {nextUid, nextUid + 1}
         /\ used \subseteq used'
         /\ \A i \in Ids : /\ claims'[i].uid \in {claims[i].uid, 0, nextUid}
                           /\ claims[i].uid # 0 => claims'[i].uid \in {claims[i].uid, 0}
                           /\ claims'[i].uid = claims[i].uid /\ claims[i].uid # 0 =>
                                 /\ claims'[i].conn = claims[i].conn
                                 /\ claims'[i].mortal = claims[i].mortal
                                 /\ claims[i].term => claims'[i].term
<1>1. TypeOK /\ claims \in [Ids -> Claim] /\ nextUid \in Nat
  BY DEF BaseInv, TypeOK, StoreType
<1>2. \A i \in Ids : claims[i].uid \in Nat /\ claims[i].term \in BOOLEAN
  BY <1>1 DEF Claim
<1>3. ASSUME UNCHANGED <<claims, used, nextUid>> PROVE Goal
  BY <1>3
<1>4. ASSUME NEW id \in Ids, NEW conn \in BOOLEAN, NEW mortal \in BOOLEAN,
             claims[id].uid = 0, NewClaim(id, conn, mortal)
      PROVE  Goal
  <2>1. /\ claims'[id].uid = nextUid
        /\ \A i \in Ids : i # id => claims'[i] = claims[i]
        /\ nextUid' = nextUid + 1
        /\ used' = used \cup {id}
    BY <1>1, <1>4, NewClaimFacts
  <2> QED
    BY <1>2, <1>4, <2>1
<1>5. ASSUME NEW id, Terminated(id), UNCHANGED <<used, nextUid>> PROVE Goal
  <2>1. \A i \in Ids : /\ claims'[i].uid = claims[i].uid
                      /\ claims'[i].conn = claims[i].conn
                      /\ claims'[i].mortal = claims[i].mortal
    BY <1>1, <1>5, TerminatedClaims
  <2>2. \A i \in Ids : claims[i].uid # 0 /\ claims[i].term => claims'[i].term
    BY <1>1, <1>5, TerminatedClaims
  <2> QED
    BY <1>5, <2>1, <2>2
<1>6. ASSUME NEW id \in Ids, ClaimGone(id), UNCHANGED <<used, nextUid>> PROVE Goal
  <2>1. /\ claims'[id] = NoClaim
        /\ \A i \in Ids : i # id => claims'[i] = claims[i]
    BY <1>1, <1>6 DEF ClaimGone
  <2>2. NoClaim.uid = 0
    BY DEF NoClaim
  <2> QED
    BY <1>6, <2>1, <2>2
<1>7. Goal
  <2> HIDE DEF Goal
  <2> QED
    BY <1>3, <1>4, <1>5, <1>6, ClaimStep
<1> QED
  BY <1>1, <1>2, <1>7

(* The uid a goroutine holds belongs to its id or to nothing.              *)
LEMMA NextLocalInv == BaseInv /\ [Next]_vars => LocalInv'
<1> SUFFICES ASSUME BaseInv, [Next]_vars, NEW q \in Procs, Working(q)'
             PROVE  /\ cur'[q] \in used'
                    /\ inc'[q] \in 1 .. nextUid' - 1
                    /\ \A i \in Ids : claims'[i].uid = inc'[q] => i = cur'[q]
  BY DEF LocalInv, Procs
<1>1. TypeOK /\ ClaimInv /\ LocalInv
  BY DEF BaseInv
<1>2. CASE Working(q) /\ cur'[q] = cur[q] /\ inc'[q] = inc[q]
  <2>1. /\ cur[q] \in used
        /\ inc[q] \in 1 .. nextUid - 1
        /\ \A i \in Ids : claims[i].uid = inc[q] => i = cur[q]
    BY <1>1, <1>2 DEF LocalInv
  <2> QED
    BY <1>2, <2>1, UidStep
<1>3. CASE /\ cur'[q] \in Ids /\ inc'[q] = nextUid
           /\ \E conn, mortal \in BOOLEAN : NewClaim(cur'[q], conn, mortal)
  <2>1. /\ \A i \in Ids : i # cur'[q] => claims'[i] = claims[i]
        /\ nextUid' = nextUid + 1 /\ nextUid \in Nat \ {0}
        /\ used' = used \cup {cur'[q]}
    BY <1>1, <1>3, NewClaimFacts
  <2>2. \A i \in Ids : claims[i].uid \in Nat /\ claims[i].uid < nextUid
    BY <1>1, UidStep DEF ClaimInv
  <2> QED
    BY <1>3, <2>1, <2>2
<1>4. CASE /\ cur'[q] \in Ids /\ inc'[q] = claims[cur'[q]].uid /\ inc'[q] # 0
           /\ UNCHANGED <<claims, used, nextUid>>
  <2>1. claims[cur'[q]].uid \in 1 .. nextUid - 1 /\ cur'[q] \in used
    BY <1>1, <1>4, UidStep DEF ClaimInv
  <2> QED
    BY <1>1, <1>4, <2>1 DEF ClaimInv
<1> QED
  BY <1>1, <1>2, <1>3, <1>4, WorkingStep

(* Two creates are never at work on the same claim.                        *)
LEMMA NextOpeningInv == BaseInv /\ [Next]_vars => OpeningInv'
<1> SUFFICES ASSUME BaseInv, [Next]_vars, NEW g \in Handlers, NEW h \in Handlers,
                    Opening(g)', Opening(h)', inc'[g] = inc'[h], g # h
             PROVE  FALSE
  BY DEF OpeningInv
<1>1. TypeOK /\ LocalInv /\ OpeningInv /\ nextUid \in Nat
  BY UidStep DEF BaseInv
<1>2. /\ g \in Procs /\ Working(g)' /\ ~Deleting(g)'
      /\ h \in Procs /\ Working(h)' /\ ~Deleting(h)'
  BY DEF Procs, Working, Opening, Deleting
<1>3. ASSUME NEW q \in Procs, Working(q) PROVE inc[q] # nextUid
  BY <1>1, <1>3 DEF LocalInv
<1>4. ASSUME NEW f \in Handlers, NEW e \in Handlers, f # e, inc'[f] = inc'[e],
             ~Opening(f), inc'[f] = nextUid, Opening(f)', Opening(e)',
             \A p \in Procs : p # f => pc'[p] = pc[p] /\ cur'[p] = cur[p] /\ inc'[p] = inc[p]
      PROVE  FALSE
  <2>1. Opening(e) /\ inc[e] = nextUid /\ e \in Procs
    BY <1>4 DEF Opening, Procs
  <2> QED
    BY <1>3, <2>1 DEF Working
<1>5. Opening(g) /\ inc'[g] = inc[g]
  BY <1>1, <1>2, <1>4, WorkingStep
<1>6. Opening(h) /\ inc'[h] = inc[h]
  BY <1>1, <1>2, <1>4, WorkingStep
<1> QED
  BY <1>1, <1>5, <1>6 DEF OpeningInv

(* Every uid of the history is one a goroutine works on or a claim has. *)
LEMMA HistoryStep ==
  ASSUME TypeOK, ClaimInv, [Next]_vars,
         NEW u \in (asked \cup elapsed \cup purged \cup created \cup deleted)'
  PROVE  \/ u \in asked \cup elapsed \cup purged \cup created \cup deleted
         \/ \E p \in Procs : Working(p) /\ u = inc[p]
         \/ \E i \in Ids : u = claims[i].uid /\ u # 0
<1> DEFINE Goal ==
           \/ u \in asked \cup elapsed \cup purged \cup created \cup deleted
           \/ \E p \in Procs : Working(p) /\ u = inc[p]
           \/ \E i \in Ids : u = claims[i].uid /\ u # 0
<1> SUFFICES Goal
  OBVIOUS
<1> USE DEF Procs
<1>1. ASSUME NEW h \in Handlers, NEW id \in Ids,
             HandleDelete(h, id)
      PROVE  Goal
  BY <1>1 DEF HandleDelete, history
<1>2. ASSUME NEW h \in Handlers, NEW id \in Ids, NEW conn \in BOOLEAN, NEW mortal \in BOOLEAN,
             NEW bind \in SUBSET Chats,
             HandleCreate(h, id, conn, mortal, bind)
      PROVE  Goal
  BY <1>2 DEF HandleCreate, history
<1>3. ASSUME NEW h \in Handlers,
             Provision(h)
      PROVE  Goal
  BY <1>3 DEF Provision, history
<1>4. ASSUME NEW h \in Handlers,
             SetRoute(h)
      PROVE  Goal
  BY <1>4 DEF SetRoute, history
<1>5. ASSUME NEW h \in Handlers,
             RollbackInstance(h)
      PROVE  Goal
  BY <1>5 DEF RollbackInstance, Working, Opening, Deleting
<1>6. ASSUME NEW h \in Handlers,
             RollbackClaim(h)
      PROVE  Goal
  BY <1>6 DEF RollbackClaim, history
<1>7. ASSUME NEW h \in Handlers,
             GetCreated(h)
      PROVE  Goal
  BY <1>7 DEF GetCreated, Working, Opening, Deleting
<1>8. ASSUME NEW p \in Procs,
             PurgeInstance(p)
      PROVE  Goal
  BY <1>8 DEF PurgeInstance, Working, Opening, Deleting
<1>9. ASSUME NEW p \in Procs,
             DeleteClaim(p)
      PROVE  Goal
  BY <1>9 DEF DeleteClaim, Working, Opening, Deleting
<1>10. ASSUME NEW h \in Handlers,
             Answer(h)
      PROVE  Goal
  BY <1>10 DEF Answer, history
<1>11. ASSUME NEW s \in Sweepers,
             SweepList(s)
      PROVE  Goal
  BY <1>11 DEF SweepList, history
<1>12. ASSUME NEW s \in Sweepers,
             SweepFetch(s)
      PROVE  Goal
  BY <1>12 DEF SweepFetch, history
<1>13. ASSUME NEW s \in Sweepers, NEW id \in Ids,
             SweepTTL(s, id)
      PROVE  Goal
  BY <1>13 DEF SweepTTL, history
<1>14. ASSUME NEW s \in Sweepers,
             SweepEnd(s)
      PROVE  Goal
  BY <1>14 DEF SweepEnd, history
<1>15. ASSUME WindowEnds PROVE Goal
  BY <1>15 DEF WindowEnds, history
<1>16. ASSUME NEW id \in Ids,
             TTLElapses(id)
      PROVE  Goal
  BY <1>16 DEF TTLElapses, history, ClaimInv, NoClaim
<1>17. ASSUME NEW id \in Ids,
             ClaimGone(id)
      PROVE  Goal
  BY <1>17 DEF ClaimGone, history
<1>18. ASSUME NEW id \in Ids,
             PodBoot(id)
      PROVE  Goal
  BY <1>18 DEF PodBoot, history
<1>19. ASSUME Crash PROVE Goal
  BY <1>19 DEF Crash, history
<1>20. ASSUME UNCHANGED vars PROVE Goal
  BY <1>20 DEF vars, history
<1> QED
  BY <1>1, <1>2, <1>3, <1>4, <1>5, <1>6, <1>7, <1>8, <1>9, <1>10, <1>11, <1>12,
     <1>13, <1>14, <1>15, <1>16, <1>17, <1>18, <1>19, <1>20
     DEF Next, Serve, Sweep, World

(* The history speaks of claims that were made.                            *)
LEMMA NextHistoryInv == BaseInv /\ [Next]_vars => HistoryInv'
<1> SUFFICES ASSUME BaseInv, [Next]_vars,
                    NEW u \in (asked \cup elapsed \cup purged \cup created \cup deleted)'
             PROVE  u \in 1 .. nextUid' - 1
  BY DEF HistoryInv
<1>1. TypeOK /\ ClaimInv /\ HistoryInv /\ LocalInv
  BY DEF BaseInv
<1>2. u \in 1 .. nextUid - 1
  <2>1. CASE u \in asked \cup elapsed \cup purged \cup created \cup deleted
    BY <1>1, <2>1 DEF HistoryInv
  <2>2. CASE \E p \in Procs : Working(p) /\ u = inc[p]
    BY <1>1, <2>2 DEF LocalInv
  <2>3. CASE \E i \in Ids : u = claims[i].uid /\ u # 0
    BY <1>1, <2>3, UidStep DEF ClaimInv
  <2> QED
    BY <1>1, <2>1, <2>2, <2>3, HistoryStep
<1> QED
  BY <1>2, UidStep

(* A DELETE is acknowledged only by the step that marks the claim.         *)
LEMMA DeletedStep ==
  ASSUME [Next]_vars
  PROVE  \/ deleted' = deleted
         \/ \E p \in Procs : /\ DeleteClaim(p) /\ Terminated(cur[p])
                             /\ deleted' = deleted \cup {inc[p]}
<1> DEFINE Goal == \/ deleted' = deleted
                   \/ \E p \in Procs : /\ DeleteClaim(p) /\ Terminated(cur[p])
                                       /\ deleted' = deleted \cup {inc[p]}
<1> SUFFICES Goal
  OBVIOUS
<1> USE DEF Procs
<1>1. ASSUME NEW h \in Handlers, NEW id \in Ids,
             HandleDelete(h, id)
      PROVE  Goal
  BY <1>1 DEF HandleDelete, history
<1>2. ASSUME NEW h \in Handlers, NEW id \in Ids, NEW conn \in BOOLEAN, NEW mortal \in BOOLEAN,
             NEW bind \in SUBSET Chats,
             HandleCreate(h, id, conn, mortal, bind)
      PROVE  Goal
  BY <1>2 DEF HandleCreate, history
<1>3. ASSUME NEW h \in Handlers,
             Provision(h)
      PROVE  Goal
  BY <1>3 DEF Provision, history
<1>4. ASSUME NEW h \in Handlers,
             SetRoute(h)
      PROVE  Goal
  BY <1>4 DEF SetRoute, history
<1>5. ASSUME NEW h \in Handlers,
             RollbackInstance(h)
      PROVE  Goal
  BY <1>5 DEF RollbackInstance, history
<1>6. ASSUME NEW h \in Handlers,
             RollbackClaim(h)
      PROVE  Goal
  BY <1>6 DEF RollbackClaim, history
<1>7. ASSUME NEW h \in Handlers,
             GetCreated(h)
      PROVE  Goal
  BY <1>7 DEF GetCreated, history
<1>8. ASSUME NEW p \in Procs,
             PurgeInstance(p)
      PROVE  Goal
  BY <1>8 DEF PurgeInstance, history
<1>9. ASSUME NEW p \in Procs,
             DeleteClaim(p)
      PROVE  Goal
  BY <1>9 DEF DeleteClaim, history
<1>10. ASSUME NEW h \in Handlers,
             Answer(h)
      PROVE  Goal
  BY <1>10 DEF Answer, history
<1>11. ASSUME NEW s \in Sweepers,
             SweepList(s)
      PROVE  Goal
  BY <1>11 DEF SweepList, history
<1>12. ASSUME NEW s \in Sweepers,
             SweepFetch(s)
      PROVE  Goal
  BY <1>12 DEF SweepFetch, history
<1>13. ASSUME NEW s \in Sweepers, NEW id \in Ids,
             SweepTTL(s, id)
      PROVE  Goal
  BY <1>13 DEF SweepTTL, history
<1>14. ASSUME NEW s \in Sweepers,
             SweepEnd(s)
      PROVE  Goal
  BY <1>14 DEF SweepEnd, history
<1>15. ASSUME WindowEnds PROVE Goal
  BY <1>15 DEF WindowEnds, history
<1>16. ASSUME NEW id \in Ids,
             TTLElapses(id)
      PROVE  Goal
  BY <1>16 DEF TTLElapses, history
<1>17. ASSUME NEW id \in Ids,
             ClaimGone(id)
      PROVE  Goal
  BY <1>17 DEF ClaimGone, history
<1>18. ASSUME NEW id \in Ids,
             PodBoot(id)
      PROVE  Goal
  BY <1>18 DEF PodBoot, history
<1>19. ASSUME Crash PROVE Goal
  BY <1>19 DEF Crash, history
<1>20. ASSUME UNCHANGED vars PROVE Goal
  BY <1>20 DEF vars, history
<1> QED
  BY <1>1, <1>2, <1>3, <1>4, <1>5, <1>6, <1>7, <1>8, <1>9, <1>10, <1>11, <1>12,
     <1>13, <1>14, <1>15, <1>16, <1>17, <1>18, <1>19, <1>20
     DEF Next, Serve, Sweep, World

(* No step revives a claim whose DELETE was answered 200.                  *)
LEMMA NextAckedDelete == BaseInv /\ [Next]_vars => AckedDeleteIsFinal'
<1> SUFFICES ASSUME BaseInv, [Next]_vars, NEW id \in Ids, claims'[id].uid \in deleted'
             PROVE  ~Live(id)'
  BY DEF AckedDeleteIsFinal
<1>1. TypeOK /\ ClaimInv /\ LocalInv /\ HistoryInv /\ AckedDeleteIsFinal
  BY DEF BaseInv
<1>2. claims'[id].uid \in 1 .. nextUid' - 1 /\ nextUid' \in Nat
  BY NextHistoryInv, UidStep DEF HistoryInv
<1>3. CASE claims'[id].uid \in deleted
  <2>1. claims'[id].uid \in 1 .. nextUid - 1
    BY <1>1, <1>3 DEF HistoryInv
  <2>2. claims'[id].uid = claims[id].uid /\ claims[id].uid # 0
    BY <2>1, UidStep
  <2>3. claims[id].term
    BY <1>1, <1>3, <2>2 DEF AckedDeleteIsFinal, Live
  <2> QED
    BY <2>2, <2>3, UidStep DEF Live
<1>4. ASSUME NEW p \in Procs, DeleteClaim(p), Terminated(cur[p]), claims'[id].uid = inc[p]
      PROVE  ~Live(id)'
  <2>1. claims \in [Ids -> Claim]
    BY <1>1 DEF TypeOK, StoreType
  <2>2. claims[id].uid = inc[p]
    BY <1>4, <2>1, TerminatedClaims
  <2>3. Working(p)
    BY <1>4 DEF DeleteClaim, Working, Deleting
  <2>4. id = cur[p] /\ inc[p] # 0
    BY <1>1, <2>2, <2>3 DEF LocalInv
  <2> QED
    BY <1>4, <2>1, <2>2, <2>4, TerminatedClaims DEF Live
<1> QED
  BY <1>3, <1>4, DeletedStep

(* The base invariant holds at the start.                                  *)
LEMMA InitBaseInv == Init => BaseInv
<1> SUFFICES ASSUME Init PROVE BaseInv
  OBVIOUS
<1>1. ClaimInv
  BY DEF Init, ClaimInv, NoClaim
<1>2. HistoryInv /\ AckedDeleteIsFinal
  BY DEF Init, HistoryInv, AckedDeleteIsFinal
<1>3. \A p \in Procs : ~Working(p)
  BY DEF Init, Working, Deleting, Opening
<1>4. LocalInv /\ OpeningInv
  BY <1>3 DEF LocalInv, OpeningInv, Working, Procs
<1> QED
  BY <1>1, <1>2, <1>4, InitTypeOK DEF BaseInv

(* Every behaviour, with any mix of faults and with ids used again, keeps  *)
(* the uids of claims apart, every goroutine attached to the claim it made *)
(* or read, and every acknowledged DELETE final.                           *)
THEOREM BaseInvariant == Spec => []BaseInv
<1>1. BaseInv /\ [Next]_vars => BaseInv'
  BY NextTypeOK, NextClaimInv, NextHistoryInv, NextLocalInv, NextOpeningInv, NextAckedDelete
     DEF BaseInv
<1> QED
  BY <1>1, InitBaseInv, PTL DEF Spec

(* A DELETE answered 200 is final: whatever the other requests, the sweep, *)
(* failures and restarts do, the claim that Decommission read is never     *)
(* live again.  It holds for ids that are used again, too.                 *)
THEOREM DeleteIsFinal == Spec => []AckedDeleteIsFinal
<1>1. BaseInv => AckedDeleteIsFinal
  BY DEF BaseInv
<1> QED
  BY <1>1, BaseInvariant, PTL

-----------------------------------------------------------------------------
(* While ids are not used again, a goroutine works on the session it read  *)
(* or created, and on no later one of the same id.                         *)

(* While ids are not used again, an id that named a claim names that one   *)
(* or none.                                                                *)
LEMMA NoReuseStep ==
  ASSUME BaseInv, [Next]_vars, ~ReuseIds, NEW id \in Ids, id \in used
  PROVE  /\ claims'[id].uid \in {claims[id].uid, 0}
         /\ claims'[id].conn => claims[id].conn /\ claims'[id].uid = claims[id].uid
<1>1. TypeOK /\ ClaimInv /\ nextUid \in Nat
  BY UidStep DEF BaseInv
<1>2. claims'[id].uid = nextUid => claims'[id].uid \in {claims[id].uid, 0}
  <2>1. ASSUME NEW h \in Handlers, NEW i \in Ids, NEW conn \in BOOLEAN, NEW mortal \in BOOLEAN,
               NEW bind \in SUBSET Chats, HandleCreate(h, i, conn, mortal, bind),
               claims[i].uid = 0, NewClaim(i, conn, mortal)
        PROVE  claims'[id] = claims[id]
    <3>1. i \notin used
      BY <2>1 DEF HandleCreate
    <3> QED
      BY <1>1, <2>1, <3>1, NewClaimFacts
  <2>2. ASSUME NEW i \in Ids, ClaimGone(i) PROVE claims'[id] = claims[id] \/ claims'[id].uid = 0
    BY <1>1, <2>2 DEF ClaimGone, NoClaim, TypeOK, StoreType
  <2>3. ASSUME NEW i, Terminated(i) PROVE claims'[id].uid = claims[id].uid
    BY <1>1, <2>3, TerminatedClaims DEF TypeOK, StoreType
  <2> QED
    BY <2>1, <2>2, <2>3, ClaimStep
<1>3. claims'[id].uid \in {claims[id].uid, 0}
  BY <1>2, UidStep
<1>4. claims'[id].uid = 0 => ~claims'[id].conn
  BY NextClaimInv DEF ClaimInv, NoClaim
<1> QED
  BY <1>3, <1>4, UidStep

(* The history only grows.                                                 *)
LEMMA HistoryGrows ==
  ASSUME [Next]_vars
  PROVE  /\ asked \subseteq asked' /\ elapsed \subseteq elapsed' /\ purged \subseteq purged'
         /\ created \subseteq created' /\ deleted \subseteq deleted'
<1> DEFINE Goal ==
         /\ asked \subseteq asked' /\ elapsed \subseteq elapsed' /\ purged \subseteq purged'
         /\ created \subseteq created' /\ deleted \subseteq deleted'
<1> SUFFICES Goal
  OBVIOUS
<1> USE DEF Procs
<1>1. ASSUME NEW h \in Handlers, NEW id \in Ids,
             HandleDelete(h, id)
      PROVE  Goal
  BY <1>1 DEF HandleDelete, history
<1>2. ASSUME NEW h \in Handlers, NEW id \in Ids, NEW conn \in BOOLEAN, NEW mortal \in BOOLEAN,
             NEW bind \in SUBSET Chats,
             HandleCreate(h, id, conn, mortal, bind)
      PROVE  Goal
  BY <1>2 DEF HandleCreate, history
<1>3. ASSUME NEW h \in Handlers,
             Provision(h)
      PROVE  Goal
  BY <1>3 DEF Provision, history
<1>4. ASSUME NEW h \in Handlers,
             SetRoute(h)
      PROVE  Goal
  BY <1>4 DEF SetRoute, history
<1>5. ASSUME NEW h \in Handlers,
             RollbackInstance(h)
      PROVE  Goal
  BY <1>5 DEF RollbackInstance, history
<1>6. ASSUME NEW h \in Handlers,
             RollbackClaim(h)
      PROVE  Goal
  BY <1>6 DEF RollbackClaim, history
<1>7. ASSUME NEW h \in Handlers,
             GetCreated(h)
      PROVE  Goal
  BY <1>7 DEF GetCreated, history
<1>8. ASSUME NEW p \in Procs,
             PurgeInstance(p)
      PROVE  Goal
  BY <1>8 DEF PurgeInstance, history
<1>9. ASSUME NEW p \in Procs,
             DeleteClaim(p)
      PROVE  Goal
  BY <1>9 DEF DeleteClaim, history
<1>10. ASSUME NEW h \in Handlers,
             Answer(h)
      PROVE  Goal
  BY <1>10 DEF Answer, history
<1>11. ASSUME NEW s \in Sweepers,
             SweepList(s)
      PROVE  Goal
  BY <1>11 DEF SweepList, history
<1>12. ASSUME NEW s \in Sweepers,
             SweepFetch(s)
      PROVE  Goal
  BY <1>12 DEF SweepFetch, history
<1>13. ASSUME NEW s \in Sweepers, NEW id \in Ids,
             SweepTTL(s, id)
      PROVE  Goal
  BY <1>13 DEF SweepTTL, history
<1>14. ASSUME NEW s \in Sweepers,
             SweepEnd(s)
      PROVE  Goal
  BY <1>14 DEF SweepEnd, history
<1>15. ASSUME WindowEnds PROVE Goal
  BY <1>15 DEF WindowEnds, history
<1>16. ASSUME NEW id \in Ids,
             TTLElapses(id)
      PROVE  Goal
  BY <1>16 DEF TTLElapses, history
<1>17. ASSUME NEW id \in Ids,
             ClaimGone(id)
      PROVE  Goal
  BY <1>17 DEF ClaimGone, history
<1>18. ASSUME NEW id \in Ids,
             PodBoot(id)
      PROVE  Goal
  BY <1>18 DEF PodBoot, history
<1>19. ASSUME Crash PROVE Goal
  BY <1>19 DEF Crash, history
<1>20. ASSUME UNCHANGED vars PROVE Goal
  BY <1>20 DEF vars, history
<1> QED
  BY <1>1, <1>2, <1>3, <1>4, <1>5, <1>6, <1>7, <1>8, <1>9, <1>10, <1>11, <1>12,
     <1>13, <1>14, <1>15, <1>16, <1>17, <1>18, <1>19, <1>20
     DEF Next, Serve, Sweep, World

(* How Decommission comes to a call: it read the claim before, or just now.*)
LEMMA DeletingStep ==
  ASSUME TypeOK, [Next]_vars, NEW q \in Procs, Deleting(q)'
  PROVE  \/ /\ Deleting(q) /\ cur'[q] = cur[q] /\ inc'[q] = inc[q] /\ enabled' = enabled
            /\ pc'[q] = "dClaim" => pc[q] = "dClaim" \/ inc[q] \in purged'
         \/ /\ cur'[q] \in Ids /\ inc'[q] = claims[cur'[q]].uid /\ inc'[q] # 0
            /\ inc'[q] \in asked' \/ (q \in Sweepers /\ cur'[q] \in due[q])
            /\ pc'[q] = "dClaim" => ~(claims[cur'[q]].conn /\ enabled)
            /\ UNCHANGED <<store, elapsed, enabled>>
<1> DEFINE Goal ==
         \/ /\ Deleting(q) /\ cur'[q] = cur[q] /\ inc'[q] = inc[q] /\ enabled' = enabled
            /\ pc'[q] = "dClaim" => pc[q] = "dClaim" \/ inc[q] \in purged'
         \/ /\ cur'[q] \in Ids /\ inc'[q] = claims[cur'[q]].uid /\ inc'[q] # 0
            /\ inc'[q] \in asked' \/ (q \in Sweepers /\ cur'[q] \in due[q])
            /\ pc'[q] = "dClaim" => ~(claims[cur'[q]].conn /\ enabled)
            /\ UNCHANGED <<store, elapsed, enabled>>
<1> SUFFICES Goal
  OBVIOUS
<1>0. /\ Refused \/ Errored \/ AnswerLost \/ Answered \/ K8sFails \/ K8sLost \/ K8sOk
         => enabled' = enabled
      /\ ListInstances => enabled' = enabled
  BY DEF ListInstances, Refused, Errored, AnswerLost, Answered, K8sFails, K8sLost, K8sOk, client
<1> USE DEF TypeOK, LocalType, Procs, Deleting, Goto, Replies
<1>1. ASSUME NEW h \in Handlers, NEW id \in Ids,
             HandleDelete(h, id)
      PROVE  Goal
  BY <1>1, <1>0 DEF HandleDelete, Read, local, client
<1>2. ASSUME NEW h \in Handlers, NEW id \in Ids, NEW conn \in BOOLEAN, NEW mortal \in BOOLEAN,
             NEW bind \in SUBSET Chats,
             HandleCreate(h, id, conn, mortal, bind)
      PROVE  Goal
  BY <1>2, <1>0 DEF HandleCreate, client
<1>3. ASSUME NEW h \in Handlers,
             Provision(h)
      PROVE  Goal
  BY <1>3, <1>0 DEF Provision, local, client
<1>4. ASSUME NEW h \in Handlers,
             SetRoute(h)
      PROVE  Goal
  BY <1>4, <1>0 DEF SetRoute, local, client
<1>5. ASSUME NEW h \in Handlers,
             RollbackInstance(h)
      PROVE  Goal
  BY <1>5, <1>0 DEF RollbackInstance, local, client
<1>6. ASSUME NEW h \in Handlers,
             RollbackClaim(h)
      PROVE  Goal
  BY <1>6, <1>0 DEF RollbackClaim, local, client
<1>7. ASSUME NEW h \in Handlers,
             GetCreated(h)
      PROVE  Goal
  BY <1>7, <1>0 DEF GetCreated, local, client
<1>8. ASSUME NEW p \in Procs,
             PurgeInstance(p)
      PROVE  Goal
  BY <1>8, <1>0 DEF PurgeInstance, Return, local, client
<1>9. ASSUME NEW p \in Procs,
             DeleteClaim(p)
      PROVE  Goal
  BY <1>9, <1>0 DEF DeleteClaim, Return, local, client
<1>10. ASSUME NEW h \in Handlers,
             Answer(h)
      PROVE  Goal
  BY <1>10, <1>0 DEF Answer, local, client
<1>11. ASSUME NEW s \in Sweepers,
             SweepList(s)
      PROVE  Goal
  BY <1>11, <1>0 DEF SweepList, local, client
<1>12. ASSUME NEW s \in Sweepers,
             SweepFetch(s)
      PROVE  Goal
  BY <1>12, <1>0 DEF SweepFetch, local, client
<1>13. ASSUME NEW s \in Sweepers, NEW id \in Ids,
             SweepTTL(s, id)
      PROVE  Goal
  BY <1>13, <1>0 DEF SweepTTL, Read, local, client
<1>14. ASSUME NEW s \in Sweepers,
             SweepEnd(s)
      PROVE  Goal
  BY <1>14, <1>0 DEF SweepEnd, local, client
<1>15. ASSUME WindowEnds PROVE Goal
  BY <1>15, <1>0 DEF WindowEnds, local, client
<1>16. ASSUME NEW id \in Ids,
             TTLElapses(id)
      PROVE  Goal
  BY <1>16, <1>0 DEF TTLElapses, local, client
<1>17. ASSUME NEW id \in Ids,
             ClaimGone(id)
      PROVE  Goal
  BY <1>17, <1>0 DEF ClaimGone, local, client
<1>18. ASSUME NEW id \in Ids,
             PodBoot(id)
      PROVE  Goal
  BY <1>18, <1>0 DEF PodBoot, local, client
<1>19. ASSUME Crash PROVE Goal
  BY <1>19, <1>0 DEF Crash, local, client
<1>20. ASSUME UNCHANGED vars PROVE Goal
  BY <1>20, <1>0 DEF vars, local, client
<1> QED
  BY <1>1, <1>2, <1>3, <1>4, <1>5, <1>6, <1>7, <1>8, <1>9, <1>10, <1>11, <1>12,
     <1>13, <1>14, <1>15, <1>16, <1>17, <1>18, <1>19, <1>20
     DEF Next, Serve, Sweep, World

(* What a sweep lists, and which ids it then finds due. *)
LEMMA SweepStep ==
  ASSUME TypeOK, [Next]_vars, NEW w \in Sweepers
  PROVE  /\ \/ listed'[w] = listed[w]
            \/ listed'[w] = claims /\ UNCHANGED <<claims, used>>
            \/ \A i \in Ids : ~listed'[w][i].mortal
         /\ \A i \in due'[w] : \/ i \in due[w]
                              \/ /\ i \in Ids /\ listed[w][i].mortal
                                 /\ listed[w][i].uid \in elapsed
                                 /\ UNCHANGED <<claims, used>>
<1> DEFINE Goal ==
         /\ \/ listed'[w] = listed[w]
            \/ listed'[w] = claims /\ UNCHANGED <<claims, used>>
            \/ \A i \in Ids : ~listed'[w][i].mortal
         /\ \A i \in due'[w] : \/ i \in due[w]
                              \/ /\ i \in Ids /\ listed[w][i].mortal
                                 /\ listed[w][i].uid \in elapsed
                                 /\ UNCHANGED <<claims, used>>
<1> SUFFICES Goal
  OBVIOUS
<1> USE DEF TypeOK, SweepType
<1>1. ASSUME NEW h \in Handlers, NEW id \in Ids,
             HandleDelete(h, id)
      PROVE  Goal
  BY <1>1 DEF HandleDelete, store, local
<1>2. ASSUME NEW h \in Handlers, NEW id \in Ids, NEW conn \in BOOLEAN, NEW mortal \in BOOLEAN,
             NEW bind \in SUBSET Chats,
             HandleCreate(h, id, conn, mortal, bind)
      PROVE  Goal
  BY <1>2 DEF HandleCreate, store, local
<1>3. ASSUME NEW h \in Handlers,
             Provision(h)
      PROVE  Goal
  BY <1>3 DEF Provision, store, local
<1>4. ASSUME NEW h \in Handlers,
             SetRoute(h)
      PROVE  Goal
  BY <1>4 DEF SetRoute, store, local
<1>5. ASSUME NEW h \in Handlers,
             RollbackInstance(h)
      PROVE  Goal
  BY <1>5 DEF RollbackInstance, store, local
<1>6. ASSUME NEW h \in Handlers,
             RollbackClaim(h)
      PROVE  Goal
  BY <1>6 DEF RollbackClaim, store, local
<1>7. ASSUME NEW h \in Handlers,
             GetCreated(h)
      PROVE  Goal
  BY <1>7 DEF GetCreated, store, local
<1>8. ASSUME NEW p \in Procs,
             PurgeInstance(p)
      PROVE  Goal
  BY <1>8 DEF PurgeInstance, store, local
<1>9. ASSUME NEW p \in Procs,
             DeleteClaim(p)
      PROVE  Goal
  BY <1>9 DEF DeleteClaim, store, local
<1>10. ASSUME NEW h \in Handlers,
             Answer(h)
      PROVE  Goal
  BY <1>10 DEF Answer, store, local
<1>11. ASSUME NEW s \in Sweepers,
             SweepList(s)
      PROVE  Goal
  BY <1>11 DEF SweepList, store, local
<1>12. ASSUME NEW s \in Sweepers,
             SweepFetch(s)
      PROVE  Goal
  BY <1>12 DEF SweepFetch, store, NoClaim
<1>13. ASSUME NEW s \in Sweepers, NEW id \in Ids,
             SweepTTL(s, id)
      PROVE  Goal
  BY <1>13 DEF SweepTTL, store, local
<1>14. ASSUME NEW s \in Sweepers,
             SweepEnd(s)
      PROVE  Goal
  BY <1>14 DEF SweepEnd, store, local
<1>15. ASSUME WindowEnds PROVE Goal
  BY <1>15 DEF WindowEnds, store, local
<1>16. ASSUME NEW id \in Ids,
             TTLElapses(id)
      PROVE  Goal
  BY <1>16 DEF TTLElapses, store, local
<1>17. ASSUME NEW id \in Ids,
             ClaimGone(id)
      PROVE  Goal
  BY <1>17 DEF ClaimGone, store, local
<1>18. ASSUME NEW id \in Ids,
             PodBoot(id)
      PROVE  Goal
  BY <1>18 DEF PodBoot, store, local
<1>19. ASSUME Crash PROVE Goal
  BY <1>19 DEF Crash, store, NoClaim
<1>20. ASSUME UNCHANGED vars PROVE Goal
  BY <1>20 DEF vars, store, local
<1> QED
  BY <1>1, <1>2, <1>3, <1>4, <1>5, <1>6, <1>7, <1>8, <1>9, <1>10, <1>11, <1>12,
     <1>13, <1>14, <1>15, <1>16, <1>17, <1>18, <1>19, <1>20
     DEF Procs, Next, Serve, Sweep, World

(* While ids are not used again, a goroutine goes on working on the claim  *)
(* it read.                                                                *)
LEMMA NextSameClaimInv == ~ReuseIds /\ BaseInv /\ OnceInv /\ [Next]_vars => SameClaimInv'
<1> SUFFICES ASSUME ~ReuseIds, BaseInv, OnceInv, [Next]_vars PROVE SameClaimInv'
  OBVIOUS
<1>1. /\ TypeOK /\ ClaimInv /\ LocalInv /\ SameClaimInv
      /\ used \subseteq Ids
      /\ due \in [Sweepers -> SUBSET Ids]
  BY DEF BaseInv, OnceInv, TypeOK, StoreType, SweepType
<1>2. ASSUME NEW q \in Procs, Working(q)' PROVE claims'[cur'[q]].uid \in {0, inc'[q]}
  <2>1. CASE Working(q) /\ cur'[q] = cur[q] /\ inc'[q] = inc[q]
    <3>1. cur[q] \in used /\ claims[cur[q]].uid \in {0, inc[q]}
      BY <1>1, <2>1 DEF LocalInv, SameClaimInv
    <3> QED
      BY <1>1, <2>1, <3>1, NoReuseStep
  <2>2. CASE /\ cur'[q] \in Ids /\ inc'[q] = nextUid
             /\ \E conn, mortal \in BOOLEAN : NewClaim(cur'[q], conn, mortal)
    BY <1>1, <2>2, NewClaimFacts
  <2>3. CASE inc'[q] = claims[cur'[q]].uid /\ UNCHANGED <<claims, used, nextUid>>
    BY <2>3
  <2> QED
    BY <1>1, <1>2, <2>1, <2>2, <2>3, WorkingStep
<1>3. ASSUME NEW s \in Sweepers, NEW id \in Ids, listed'[s][id].mortal
      PROVE  id \in used' /\ claims'[id].uid \in {0, listed'[s][id].uid}
  <2>1. CASE listed'[s] = listed[s]
    <3>1. id \in used /\ claims[id].uid \in {0, listed[s][id].uid}
      BY <1>1, <1>3, <2>1 DEF SameClaimInv
    <3> QED
      BY <2>1, <3>1, NoReuseStep, UidStep
  <2>2. CASE listed'[s] = claims /\ UNCHANGED <<claims, used>>
    BY <1>1, <1>3, <2>2 DEF ClaimInv, NoClaim
  <2> QED
    BY <1>1, <1>3, <2>1, <2>2, SweepStep
<1>4. ASSUME NEW s \in Sweepers, NEW id \in due'[s]
      PROVE  id \in used' /\ claims'[id].uid \in {0} \cup elapsed'
  <2>1. CASE id \in due[s]
    <3>1. id \in Ids /\ id \in used /\ claims[id].uid \in {0} \cup elapsed
      BY <1>1, <2>1 DEF SameClaimInv
    <3> QED
      BY <3>1, NoReuseStep, UidStep, HistoryGrows
  <2>2. CASE /\ id \in Ids /\ listed[s][id].mortal /\ listed[s][id].uid \in elapsed
             /\ UNCHANGED <<claims, used>>
    BY <1>1, <2>2, HistoryGrows DEF SameClaimInv
  <2> QED
    BY <1>1, <2>1, <2>2, SweepStep
<1> QED
  BY <1>2, <1>3, <1>4 DEF SameClaimInv

(* Decommission works on a claim somebody wants gone.                      *)
LEMMA NextDoomedInv == BaseInv /\ OnceInv /\ [Next]_vars => DoomedInv'
<1> SUFFICES ASSUME BaseInv, OnceInv, [Next]_vars, NEW q \in Procs, Deleting(q)'
             PROVE  inc'[q] \in asked' \cup elapsed'
  BY DEF DoomedInv, Doomed, Procs
<1>1. TypeOK /\ DoomedInv /\ SameClaimInv
  BY DEF BaseInv, OnceInv
<1>2. CASE Deleting(q) /\ inc'[q] = inc[q]
  BY <1>1, <1>2, HistoryGrows DEF DoomedInv, Doomed
<1>3. CASE /\ cur'[q] \in Ids /\ inc'[q] = claims[cur'[q]].uid /\ inc'[q] # 0
           /\ q \in Sweepers /\ cur'[q] \in due[q]
  <2>1. claims[cur'[q]].uid \in {0} \cup elapsed
    BY <1>1, <1>3 DEF SameClaimInv
  <2> QED
    BY <1>3, <2>1, HistoryGrows
<1> QED
  BY <1>1, <1>2, <1>3, DeletingStep

(* While the integration is on, Decommission reaches DeleteClaim of a      *)
(* connector session only behind a confirmed purge.                        *)
LEMMA NextPurgedInv == ~ReuseIds /\ BaseInv /\ OnceInv /\ [Next]_vars => PurgedInv'
<1> SUFFICES ASSUME ~ReuseIds, BaseInv, OnceInv, [Next]_vars, NEW q \in Procs,
                    pc'[q] = "dClaim", enabled', claims'[cur'[q]].conn
             PROVE  inc'[q] \in purged'
  BY DEF PurgedInv, Procs
<1>1. TypeOK /\ PurgedInv /\ LocalInv /\ used \subseteq Ids
  BY DEF BaseInv, OnceInv, TypeOK, StoreType
<1>2. Deleting(q)'
  BY DEF Deleting
<1>3. CASE /\ Deleting(q) /\ cur'[q] = cur[q] /\ inc'[q] = inc[q] /\ enabled' = enabled
           /\ pc'[q] = "dClaim" => pc[q] = "dClaim" \/ inc[q] \in purged'
  <2>1. cur[q] \in used /\ cur[q] \in Ids
    BY <1>1, <1>3 DEF LocalInv, Working
  <2>2. claims[cur[q]].conn
    BY <1>3, <2>1, NoReuseStep
  <2> QED
    BY <1>1, <1>3, <2>2, HistoryGrows DEF PurgedInv
<1>4. CASE /\ pc'[q] = "dClaim" => ~(claims[cur'[q]].conn /\ enabled)
           /\ UNCHANGED <<store, elapsed, enabled>>
  BY <1>4 DEF store
<1> QED
  BY <1>1, <1>2, <1>3, <1>4, DeletingStep

(* Both invariants together, for clients that do not use an id again.      *)
LEMMA OnceInvariant == ASSUME ~ReuseIds PROVE Spec => [](BaseInv /\ OnceInv)
<1>1. Init => OnceInv
  BY DEF Init, OnceInv, SameClaimInv, DoomedInv, PurgedInv, Working, Deleting, Opening, NoClaim
<1>2. BaseInv /\ OnceInv /\ [Next]_vars => OnceInv'
  BY NextSameClaimInv, NextDoomedInv, NextPurgedInv DEF OnceInv
<1>3. Spec => []OnceInv
  <2>1. Spec => []BaseInv /\ Init /\ [][Next]_vars
    BY BaseInvariant, PTL DEF Spec
  <2> QED
    BY <1>1, <1>2, <2>1, PTL
<1> QED
  BY <1>3, BaseInvariant, PTL

-----------------------------------------------------------------------------
(* The steps as SessionContract sees them.                                 *)

(* The claim a step takes out of service is the one its goroutine means.   *)
LEMMA EndStep ==
  ASSUME BaseInv, OnceInv, [Next]_vars, NEW id \in Ids, Live(id), ~Live(id)'
  PROVE  \/ claims[id].uid \in Doomed
         \/ \E h \in Handlers : pc[h] = "rbClaim" /\ inc[h] = claims[id].uid
<1>1. TypeOK /\ ClaimInv /\ SameClaimInv /\ DoomedInv /\ claims[id].uid # 0 /\ ~claims[id].term
  BY DEF BaseInv, OnceInv, Live
<1>2. CASE UNCHANGED <<claims, used, nextUid>>
  BY <1>2 DEF Live
<1>3. ASSUME NEW h \in Handlers, NEW i \in Ids, NEW conn \in BOOLEAN, NEW mortal \in BOOLEAN,
             claims[i].uid = 0, NewClaim(i, conn, mortal)
      PROVE  FALSE
  <2>1. id # i /\ claims'[id] = claims[id]
    BY <1>1, <1>3, NewClaimFacts
  <2> QED
    BY <2>1 DEF Live
<1>4. ASSUME NEW p \in Procs, Terminated(cur[p]), Working(p)
      PROVE  claims[id].uid = inc[p]
  <2>1. id = cur[p]
    BY <1>1, <1>4 DEF Terminated, TypeOK, StoreType, Live
  <2> QED
    BY <1>1, <1>4, <2>1 DEF SameClaimInv
<1>5. ASSUME NEW h \in Handlers, RollbackClaim(h), Terminated(cur[h])
      PROVE  pc[h] = "rbClaim" /\ inc[h] = claims[id].uid
  BY <1>4, <1>5 DEF RollbackClaim, Working, Opening, Procs
<1>6. ASSUME NEW p \in Procs, DeleteClaim(p), Terminated(cur[p])
      PROVE  claims[id].uid \in Doomed
  BY <1>1, <1>4, <1>6 DEF DeleteClaim, Working, Deleting, DoomedInv
<1>7. ASSUME NEW i \in Ids, ClaimGone(i) PROVE FALSE
  BY <1>1, <1>7 DEF ClaimGone, TypeOK, StoreType, Live
<1> QED
  BY <1>2, <1>3, <1>5, <1>6, <1>7, ClaimStep

(* No session ends before its time: what a DELETE request read, a TTL that *)
(* ran out, or the rollback of its own create ends it, and no goroutine    *)
(* ever takes another's session, for clients that do not use an id again.  *)
THEOREM EndsWhenDue == ASSUME ~ReuseIds PROVE Spec => EndsOnlyWhenDue
<1>1. BaseInv /\ OnceInv /\ [Next]_vars =>
        [\A id \in Ids : Live(id) /\ ~Live(id)' =>
            \/ claims[id].uid \in Doomed
            \/ \E h \in Handlers : pc[h] = "rbClaim" /\ inc[h] = claims[id].uid]_vars
  BY EndStep
<1> QED
  BY <1>1, OnceInvariant, PTL DEF Spec, EndsOnlyWhenDue

(* Only the TTL of a claim that has one runs out.                          *)
LEMMA ElapsedStep ==
  ASSUME [Next]_vars
  PROVE  \/ elapsed' = elapsed
         \/ \E i \in Ids : /\ claims[i].mortal /\ elapsed' = elapsed \cup {claims[i].uid}
                            /\ UNCHANGED claims
<1> DEFINE Goal ==
         \/ elapsed' = elapsed
         \/ \E i \in Ids : /\ claims[i].mortal /\ elapsed' = elapsed \cup {claims[i].uid}
                            /\ UNCHANGED claims
<1> SUFFICES Goal
  OBVIOUS
<1> USE DEF Procs
<1>1. ASSUME NEW h \in Handlers, NEW id \in Ids,
             HandleDelete(h, id)
      PROVE  Goal
  BY <1>1 DEF HandleDelete, Read, store
<1>2. ASSUME NEW h \in Handlers, NEW id \in Ids, NEW conn \in BOOLEAN, NEW mortal \in BOOLEAN,
             NEW bind \in SUBSET Chats,
             HandleCreate(h, id, conn, mortal, bind)
      PROVE  Goal
  BY <1>2 DEF HandleCreate, store
<1>3. ASSUME NEW h \in Handlers,
             Provision(h)
      PROVE  Goal
  BY <1>3 DEF Provision, Provisioned, store
<1>4. ASSUME NEW h \in Handlers,
             SetRoute(h)
      PROVE  Goal
  BY <1>4 DEF SetRoute, store
<1>5. ASSUME NEW h \in Handlers,
             RollbackInstance(h)
      PROVE  Goal
  BY <1>5 DEF RollbackInstance, Purged, store
<1>6. ASSUME NEW h \in Handlers,
             RollbackClaim(h)
      PROVE  Goal
  BY <1>6 DEF RollbackClaim, store
<1>7. ASSUME NEW h \in Handlers,
             GetCreated(h)
      PROVE  Goal
  BY <1>7 DEF GetCreated, store
<1>8. ASSUME NEW p \in Procs,
             PurgeInstance(p)
      PROVE  Goal
  BY <1>8 DEF PurgeInstance, Purged, Return, store
<1>9. ASSUME NEW p \in Procs,
             DeleteClaim(p)
      PROVE  Goal
  BY <1>9 DEF DeleteClaim, Return, store
<1>10. ASSUME NEW h \in Handlers,
             Answer(h)
      PROVE  Goal
  BY <1>10 DEF Answer, store
<1>11. ASSUME NEW s \in Sweepers,
             SweepList(s)
      PROVE  Goal
  BY <1>11 DEF SweepList, store
<1>12. ASSUME NEW s \in Sweepers,
             SweepFetch(s)
      PROVE  Goal
  BY <1>12 DEF SweepFetch, store
<1>13. ASSUME NEW s \in Sweepers, NEW id \in Ids,
             SweepTTL(s, id)
      PROVE  Goal
  BY <1>13 DEF SweepTTL, Read, store
<1>14. ASSUME NEW s \in Sweepers,
             SweepEnd(s)
      PROVE  Goal
  BY <1>14 DEF SweepEnd, store
<1>15. ASSUME WindowEnds PROVE Goal
  BY <1>15 DEF WindowEnds, store
<1>16. ASSUME NEW id \in Ids,
             TTLElapses(id)
      PROVE  Goal
  BY <1>16 DEF TTLElapses, store
<1>17. ASSUME NEW id \in Ids,
             ClaimGone(id)
      PROVE  Goal
  BY <1>17 DEF ClaimGone, store
<1>18. ASSUME NEW id \in Ids,
             PodBoot(id)
      PROVE  Goal
  BY <1>18 DEF PodBoot, store
<1>19. ASSUME Crash PROVE Goal
  BY <1>19 DEF Crash, store
<1>20. ASSUME UNCHANGED vars PROVE Goal
  BY <1>20 DEF vars, store
<1> QED
  BY <1>1, <1>2, <1>3, <1>4, <1>5, <1>6, <1>7, <1>8, <1>9, <1>10, <1>11, <1>12,
     <1>13, <1>14, <1>15, <1>16, <1>17, <1>18, <1>19, <1>20
     DEF Next, Serve, Sweep, World

(* What has run out is the TTL of a claim that has one.                    *)
MortalInv == \A id \in Ids : claims[id].uid \in elapsed => claims[id].mortal

LEMMA NextMortalInv == BaseInv /\ MortalInv /\ [Next]_vars => MortalInv'
<1> SUFFICES ASSUME BaseInv, MortalInv, [Next]_vars, NEW id \in Ids, claims'[id].uid \in elapsed'
             PROVE  claims'[id].mortal
  BY DEF MortalInv
<1>1. ClaimInv /\ HistoryInv /\ nextUid \in Nat
  BY UidStep DEF BaseInv
<1>2. CASE claims'[id].uid \in elapsed
  <2>1. claims'[id].uid \in 1 .. nextUid - 1
    BY <1>1, <1>2 DEF HistoryInv
  <2>2. claims'[id].uid = claims[id].uid /\ claims[id].uid # 0
    BY <1>1, <2>1, UidStep
  <2> QED
    BY <1>2, <2>2, UidStep DEF MortalInv
<1>3. ASSUME NEW i \in Ids, claims[i].mortal, claims'[id].uid = claims[i].uid, UNCHANGED claims
      PROVE  claims'[id].mortal
  BY <1>1, <1>3 DEF ClaimInv, NoClaim
<1> QED
  BY <1>2, <1>3, ElapsedStep

(* "0 = immortal" (docs/api.md:18): no sweep takes a session without a TTL,*)
(* for clients that do not use an id again; with one that does the run     *)
(* ttl_by_name shows that a sweep may.                                     *)
THEOREM ZeroTTLLives == ASSUME ~ReuseIds PROVE Spec => ZeroTTLIsImmortal
<1>1. Init => MortalInv
  BY DEF Init, MortalInv
<1>2. BaseInv /\ OnceInv /\ MortalInv /\ [Next]_vars =>
        [\A id \in Ids : Live(id) /\ ~claims[id].mortal /\ ~Live(id)' =>
            \/ claims[id].uid \in asked
            \/ \E h \in Handlers : pc[h] = "rbClaim" /\ inc[h] = claims[id].uid]_vars
  BY EndStep DEF MortalInv, Doomed
<1> QED
  BY <1>1, <1>2, NextMortalInv, OnceInvariant, PTL DEF Spec, ZeroTTLIsImmortal

(* The abstract sets of live sessions, step by step: claims left alone,    *)
LEMMA LiveSame ==
  ASSUME UNCHANGED claims
  PROVE  LiveUids' = LiveUids /\ RelayUids' = RelayUids
  BY DEF LiveUids, RelayUids, Live

(* a new claim,                                                            *)
LEMMA LiveMore ==
  ASSUME TypeOK, ClaimInv, NEW id \in Ids, NEW conn \in BOOLEAN, NEW mortal \in BOOLEAN,
         claims[id].uid = 0, NewClaim(id, conn, mortal)
  PROVE  /\ LiveUids' = LiveUids \cup {nextUid}
         /\ RelayUids' = IF conn THEN RelayUids \cup {nextUid} ELSE RelayUids
<1>1. /\ claims'[id].uid = nextUid /\ claims'[id].conn = conn /\ claims'[id].term = FALSE
      /\ \A i \in Ids : i # id => claims'[i] = claims[i]
      /\ nextUid # 0
  BY NewClaimFacts
<1>2. Live(id)' /\ ~Live(id) /\ \A i \in Ids : i # id => (Live(i)' <=> Live(i))
  BY <1>1 DEF Live
<1>3. LiveUids' = LiveUids \cup {nextUid}
  BY <1>1, <1>2 DEF LiveUids
<1>4. RelayUids' = IF conn THEN RelayUids \cup {nextUid} ELSE RelayUids
  BY <1>1, <1>2 DEF RelayUids
<1> QED
  BY <1>3, <1>4

(* a claim marked for deletion,                                            *)
LEMMA LiveLess ==
  ASSUME TypeOK, NEW id \in Ids, Terminated(id),
         NEW u, u # 0, claims[id].uid \in {0, u}, \A i \in Ids : claims[i].uid = u => i = id
  PROVE  /\ LiveUids' = LiveUids \ {u}
         /\ RelayUids' = RelayUids \ {u}
<1>1. claims \in [Ids -> Claim]
  BY DEF TypeOK, StoreType
<1>2. /\ \A i \in Ids : claims'[i].uid = claims[i].uid /\ claims'[i].conn = claims[i].conn
      /\ \A i \in Ids : i # id => claims'[i] = claims[i]
      /\ claims[id].uid # 0 => claims'[id].term
  BY <1>1, TerminatedClaims
<1>3. ~Live(id)' /\ \A i \in Ids : i # id => (Live(i)' <=> Live(i)) /\ claims[i].uid # u
  BY <1>2 DEF Live
<1>4. Live(id) => claims[id].uid = u
  BY DEF Live
<1> QED
  BY <1>2, <1>3, <1>4 DEF LiveUids, RelayUids

(* and the collection of one that was marked before.                       *)
LEMMA LiveGone ==
  ASSUME TypeOK, NEW id \in Ids, ClaimGone(id)
  PROVE  LiveUids' = LiveUids /\ RelayUids' = RelayUids
<1>1. /\ claims[id].term /\ claims'[id] = NoClaim
      /\ \A i \in Ids : i # id => claims'[i] = claims[i]
  BY DEF ClaimGone, TypeOK, StoreType
<1>2. ~Live(id) /\ ~Live(id)' /\ \A i \in Ids : i # id => (Live(i)' <=> Live(i))
  BY <1>1 DEF Live, NoClaim
<1> QED
  BY <1>1, <1>2 DEF LiveUids, RelayUids

(* The creates being served change when a handler starts or ends one.      *)
LEMMA OpeningSame ==
  ASSUME \A g \in Handlers : (Opening(g)' <=> Opening(g)) /\ (Opening(g) => inc'[g] = inc[g])
  PROVE  OpeningUids' = OpeningUids
  BY DEF OpeningUids

(* A create begins,                                                        *)
LEMMA OpeningMore ==
  ASSUME NEW h \in Handlers, ~Opening(h), Opening(h)',
         \A g \in Handlers : g # h => (Opening(g)' <=> Opening(g)) /\ inc'[g] = inc[g]
  PROVE  OpeningUids' = OpeningUids \cup {inc'[h]}
  BY DEF OpeningUids

(* and a create ends.                                                      *)
LEMMA OpeningLess ==
  ASSUME OpeningInv, NEW h \in Handlers, Opening(h), ~Opening(h)',
         \A g \in Handlers : g # h => (Opening(g)' <=> Opening(g)) /\ inc'[g] = inc[g]
  PROVE  OpeningUids' = OpeningUids \ {inc[h]}
  BY DEF OpeningUids, OpeningInv

(* Only a restart changes the configuration.                               *)
LEMMA CallKeepsEnabled ==
  ASSUME Refused \/ Errored \/ AnswerLost \/ Answered \/ K8sFails \/ K8sLost \/ K8sOk
         \/ ListInstances
  PROVE  enabled' = enabled
  BY DEF ListInstances, Refused, Errored, AnswerLost, Answered, K8sFails, K8sLost, K8sOk, client

(* Every step of the goroutines is a step of the contract, or none.        *)
LEMMA ContractStep ==
  ~ReuseIds /\ BaseInv /\ OnceInv /\ [Next]_vars => [Contract!Next]_(Contract!vars)
<1> DEFINE Goal == [Contract!Next]_(Contract!vars)
<1> SUFFICES ASSUME ~ReuseIds, BaseInv, OnceInv, [Next]_vars PROVE Goal
  OBVIOUS
<1>a. /\ TypeOK /\ ClaimInv /\ LocalInv /\ OpeningInv
      /\ SameClaimInv /\ DoomedInv /\ PurgedInv
      /\ nextUid \in Nat /\ used \subseteq Ids
      /\ enabled \in BOOLEAN
  BY DEF BaseInv, OnceInv, TypeOK, StoreType, ClientType
<1>b. ASSUME UNCHANGED <<LiveUids, RelayUids, OpeningUids, nextUid, elapsed, asked, purged, deleted,
                         enabled>>
      PROVE  Goal
  BY <1>b DEF Contract!vars, Doomed
<1>c. ASSUME NEW p \in Procs, Working(p)
      PROVE  /\ cur[p] \in Ids /\ inc[p] \in 1 .. nextUid - 1 /\ inc[p] # 0
             /\ claims[cur[p]].uid \in {0, inc[p]}
             /\ \A i \in Ids : claims[i].uid = inc[p] => i = cur[p]
  BY <1>a, <1>c DEF LocalInv, SameClaimInv
<1>d. ASSUME NEW h \in Handlers, Opening(h)
      PROVE  h \in Procs /\ Working(h) /\ inc[h] \in OpeningUids
  BY <1>d DEF Procs, Working, OpeningUids
<1>1. ASSUME NEW h \in Handlers, NEW id \in Ids,
             HandleDelete(h, id)
      PROVE  Goal
  <2>1. LiveUids' = LiveUids /\ RelayUids' = RelayUids
    BY <1>1, LiveSame DEF HandleDelete, store
  <2>2. OpeningUids' = OpeningUids
    <3> SUFFICES ASSUME NEW g \in Handlers
                 PROVE  (Opening(g)' <=> Opening(g)) /\ (Opening(g) => inc'[g] = inc[g])
      BY OpeningSame
    <3> QED
      BY <1>1, <1>a DEF HandleDelete, Read, Goto, Opening, TypeOK, LocalType, Procs
  <2>3. enabled' = enabled
    BY <1>1, CallKeepsEnabled DEF HandleDelete
  <2>4. UNCHANGED <<nextUid, elapsed, purged, deleted>>
    BY <1>1 DEF HandleDelete, store
  <2>5. CASE asked' = asked
    BY <1>b, <2>1, <2>2, <2>3, <2>4, <2>5
  <2>6. CASE claims[id].uid # 0 /\ asked' = asked \cup {claims[id].uid}
    <3>1. claims[id].uid \in 1 .. nextUid - 1
      BY <1>a, <2>6, UidStep DEF ClaimInv
    <3>2. Contract!Doom(claims[id].uid)
      BY <2>1, <2>2, <2>3, <2>4, <2>6, <3>1 DEF Contract!Doom, Doomed
    <3> QED
      BY <3>1, <3>2 DEF Contract!Next
  <2> QED
    BY <1>1, <2>5, <2>6 DEF HandleDelete
<1>2. ASSUME NEW h \in Handlers, NEW id \in Ids, NEW conn \in BOOLEAN, NEW mortal \in BOOLEAN,
             NEW bind \in SUBSET Chats,
             HandleCreate(h, id, conn, mortal, bind)
      PROVE  Goal
  <2>1. UNCHANGED <<elapsed, asked, purged, deleted>> /\ ~Opening(h)
    BY <1>2 DEF HandleCreate, history, Opening
  <2>2. \A g \in Handlers : g # h => (Opening(g)' <=> Opening(g)) /\ inc'[g] = inc[g]
    BY <1>2, <1>a DEF HandleCreate, Goto, Opening, TypeOK, LocalType, Procs
  <2>3. enabled' = enabled
    BY <1>2, CallKeepsEnabled DEF HandleCreate, client
  <2>4. CASE UNCHANGED store /\ ~Opening(h)'
    <3>1. OpeningUids' = OpeningUids
      BY <2>1, <2>2, <2>4, OpeningSame
    <3> QED
      BY <1>b, <2>1, <2>3, <2>4, <3>1, LiveSame DEF store
  <2>5. CASE claims[id].uid = 0 /\ NewClaim(id, conn, mortal) /\ inc'[h] = nextUid
    <3>1. /\ nextUid' = nextUid + 1
          /\ LiveUids' = LiveUids \cup {nextUid}
          /\ RelayUids' \in {RelayUids, RelayUids \cup {nextUid}}
      BY <1>a, <2>5, NewClaimFacts, LiveMore
    <3>2. OpeningUids' \in {OpeningUids, OpeningUids \cup {nextUid}}
      <4>1. CASE Opening(h)'
        BY <2>1, <2>2, <2>5, <4>1, OpeningMore
      <4>2. CASE ~Opening(h)'
        BY <2>1, <2>2, <4>2, OpeningSame
      <4> QED
        BY <4>1, <4>2
    <3>3. nextUid' - 1 = (nextUid - 1) + 1 /\ nextUid' - 1 = nextUid
      BY <1>a, <3>1
    <3>4. Contract!Create
      BY <2>1, <2>3, <3>1, <3>2, <3>3 DEF Contract!Create, Doomed
    <3> QED
      BY <3>4 DEF Contract!Next
  <2>6. \/ UNCHANGED store /\ ~Opening(h)'
        \/ claims[id].uid = 0 /\ NewClaim(id, conn, mortal) /\ inc'[h] = nextUid
    BY <1>2, <1>a DEF HandleCreate, Goto, Opening, TypeOK, LocalType, Procs
  <2> QED
    BY <2>4, <2>5, <2>6
<1>3. ASSUME NEW h \in Handlers,
             Provision(h)
      PROVE  Goal
  <2>1. LiveUids' = LiveUids /\ RelayUids' = RelayUids
    BY <1>3, LiveSame DEF Provision, store
  <2>2. OpeningUids' = OpeningUids
    <3> SUFFICES ASSUME NEW g \in Handlers
                 PROVE  (Opening(g)' <=> Opening(g)) /\ (Opening(g) => inc'[g] = inc[g])
      BY OpeningSame
    <3> QED
      BY <1>3, <1>a DEF Provision, Goto, Opening, TypeOK, LocalType, Procs
  <2>3. enabled' = enabled
    BY <1>3, CallKeepsEnabled DEF Provision, client
  <2>4. UNCHANGED <<nextUid, elapsed, asked, purged, deleted>>
    BY <1>3 DEF Provision, store, history
  <2> QED
    BY <1>b, <2>1, <2>2, <2>3, <2>4
<1>4. ASSUME NEW h \in Handlers,
             SetRoute(h)
      PROVE  Goal
  <2>1. LiveUids' = LiveUids /\ RelayUids' = RelayUids
    BY <1>4, LiveSame DEF SetRoute, store
  <2>2. OpeningUids' = OpeningUids
    <3> SUFFICES ASSUME NEW g \in Handlers
                 PROVE  (Opening(g)' <=> Opening(g)) /\ (Opening(g) => inc'[g] = inc[g])
      BY OpeningSame
    <3> QED
      BY <1>4, <1>a DEF SetRoute, Goto, Opening, TypeOK, LocalType, Procs
  <2>3. enabled' = enabled
    BY <1>4, CallKeepsEnabled DEF SetRoute, client
  <2>4. UNCHANGED <<nextUid, elapsed, asked, purged, deleted>>
    BY <1>4 DEF SetRoute, store, history
  <2> QED
    BY <1>b, <2>1, <2>2, <2>3, <2>4
<1>5. ASSUME NEW h \in Handlers,
             RollbackInstance(h)
      PROVE  Goal
  <2>1. LiveUids' = LiveUids /\ RelayUids' = RelayUids
    BY <1>5, LiveSame DEF RollbackInstance, store
  <2>2. OpeningUids' = OpeningUids
    <3> SUFFICES ASSUME NEW g \in Handlers
                 PROVE  (Opening(g)' <=> Opening(g)) /\ (Opening(g) => inc'[g] = inc[g])
      BY OpeningSame
    <3> QED
      BY <1>5, <1>a DEF RollbackInstance, Goto, Opening, TypeOK, LocalType, Procs
  <2>3. enabled' = enabled
    BY <1>5, CallKeepsEnabled DEF RollbackInstance, client
  <2>4. UNCHANGED <<nextUid, elapsed, asked, deleted>> /\ Opening(h)
    BY <1>5 DEF RollbackInstance, Opening
  <2>5. CASE purged' = purged
    BY <1>b, <2>1, <2>2, <2>3, <2>4, <2>5
  <2>6. CASE purged' = purged \cup {inc[h]}
    <3>1. inc[h] \in OpeningUids /\ inc[h] \in 1 .. nextUid - 1
      BY <1>c, <1>d, <2>4
    <3>2. Contract!Purge(inc[h])
      BY <2>1, <2>2, <2>3, <2>4, <2>6, <3>1 DEF Contract!Purge, Doomed
    <3> QED
      BY <3>1, <3>2 DEF Contract!Next
  <2> QED
    BY <1>5, <2>5, <2>6 DEF RollbackInstance
<1>6. ASSUME NEW h \in Handlers,
             RollbackClaim(h)
      PROVE  Goal
  <2>1. /\ UNCHANGED <<nextUid, elapsed, asked, purged, deleted>>
        /\ Opening(h) /\ pc' = [pc EXCEPT ![h] = "failed"] /\ inc' = inc
    BY <1>6 DEF RollbackClaim, history, Opening, Goto
  <2>2. ~Opening(h)' /\ \A g \in Handlers : g # h => (Opening(g)' <=> Opening(g)) /\ inc'[g] = inc[g]
    BY <1>a, <2>1 DEF Opening, TypeOK, LocalType, Procs
  <2>3. OpeningUids' = OpeningUids \ {inc[h]}
    BY <1>a, <2>1, <2>2, OpeningLess
  <2>4. enabled' = enabled
    BY <1>6, CallKeepsEnabled DEF RollbackClaim
  <2>5. /\ inc[h] \in OpeningUids /\ inc[h] \in 1 .. nextUid - 1 /\ inc[h] # 0
        /\ cur[h] \in Ids /\ claims[cur[h]].uid \in {0, inc[h]}
        /\ \A i \in Ids : claims[i].uid = inc[h] => i = cur[h]
    BY <1>c, <1>d, <2>1
  <2>6. CASE claims' = claims
    <3>1. Contract!Settle(inc[h])
      BY <2>1, <2>3, <2>4, <2>6, LiveSame DEF Contract!Settle, Doomed
    <3> QED
      BY <2>5, <3>1 DEF Contract!Next
  <2>7. CASE Terminated(cur[h])
    <3>1. LiveUids' = LiveUids \ {inc[h]} /\ RelayUids' = RelayUids \ {inc[h]}
      BY <1>a, <2>5, <2>7, LiveLess
    <3>2. Contract!TakeBack(inc[h])
      BY <2>1, <2>3, <2>4, <2>5, <3>1 DEF Contract!TakeBack, Doomed
    <3> QED
      BY <2>5, <3>2 DEF Contract!Next
  <2> QED
    BY <1>6, <2>6, <2>7 DEF RollbackClaim
<1>7. ASSUME NEW h \in Handlers,
             GetCreated(h)
      PROVE  Goal
  <2>1. /\ UNCHANGED <<claims, nextUid, elapsed, asked, purged, deleted>>
        /\ Opening(h) /\ pc'[h] \in {"created", "failed"} /\ inc' = inc
        /\ \A g \in Handlers : g # h => pc'[g] = pc[g]
    BY <1>7, <1>a DEF GetCreated, store, Opening, Goto, TypeOK, LocalType, Procs
  <2>2. ~Opening(h)' /\ \A g \in Handlers : g # h => (Opening(g)' <=> Opening(g)) /\ inc'[g] = inc[g]
    BY <2>1 DEF Opening
  <2>3. OpeningUids' = OpeningUids \ {inc[h]}
    BY <1>a, <2>1, <2>2, OpeningLess
  <2>4. enabled' = enabled
    BY <1>7, CallKeepsEnabled DEF GetCreated
  <2>5. inc[h] \in 1 .. nextUid - 1
    BY <1>c, <1>d, <2>1
  <2>6. Contract!Settle(inc[h])
    BY <2>1, <2>3, <2>4, LiveSame DEF Contract!Settle, Doomed
  <2> QED
    BY <2>5, <2>6 DEF Contract!Next
<1>8. ASSUME NEW p \in Procs,
             PurgeInstance(p)
      PROVE  Goal
  <2>1. LiveUids' = LiveUids /\ RelayUids' = RelayUids
    BY <1>8, LiveSame DEF PurgeInstance, store
  <2>2. OpeningUids' = OpeningUids
    <3> SUFFICES ASSUME NEW g \in Handlers
                 PROVE  (Opening(g)' <=> Opening(g)) /\ (Opening(g) => inc'[g] = inc[g])
      BY OpeningSame
    <3> QED
      BY <1>8, <1>a DEF PurgeInstance, Return, Goto, Opening, TypeOK, LocalType, Procs
  <2>3. enabled' = enabled
    BY <1>8, CallKeepsEnabled DEF PurgeInstance, client
  <2>4. UNCHANGED <<nextUid, elapsed, asked, deleted>> /\ Deleting(p) /\ Working(p)
    BY <1>8 DEF PurgeInstance, Deleting, Working
  <2>5. CASE purged' = purged
    BY <1>b, <2>1, <2>2, <2>3, <2>4, <2>5
  <2>6. CASE purged' = purged \cup {inc[p]}
    <3>1. inc[p] \in Doomed /\ inc[p] \in 1 .. nextUid - 1
      BY <1>a, <1>c, <2>4 DEF DoomedInv
    <3>2. Contract!Purge(inc[p])
      BY <2>1, <2>2, <2>3, <2>4, <2>6, <3>1 DEF Contract!Purge, Doomed
    <3> QED
      BY <3>1, <3>2 DEF Contract!Next
  <2> QED
    BY <1>8, <2>5, <2>6 DEF PurgeInstance
<1>9. ASSUME NEW p \in Procs,
             DeleteClaim(p)
      PROVE  Goal
  <2>1. OpeningUids' = OpeningUids
    <3> SUFFICES ASSUME NEW g \in Handlers
                 PROVE  (Opening(g)' <=> Opening(g)) /\ (Opening(g) => inc'[g] = inc[g])
      BY OpeningSame
    <3> QED
      BY <1>9, <1>a DEF DeleteClaim, Return, Goto, Opening, TypeOK, LocalType, Procs
  <2>2. enabled' = enabled
    BY <1>9, CallKeepsEnabled DEF DeleteClaim
  <2>3. /\ UNCHANGED <<nextUid, elapsed, asked, purged>>
        /\ pc[p] = "dClaim" /\ Deleting(p) /\ Working(p)
    BY <1>9 DEF DeleteClaim, Deleting, Working
  <2>4. CASE claims' = claims /\ deleted' = deleted
    BY <1>b, <2>1, <2>2, <2>3, <2>4, LiveSame
  <2>5. CASE Terminated(cur[p]) /\ deleted' \in {deleted, deleted \cup {inc[p]}}
    <3>1. /\ cur[p] \in Ids /\ inc[p] \in 1 .. nextUid - 1 /\ inc[p] # 0
          /\ claims[cur[p]].uid \in {0, inc[p]}
          /\ \A i \in Ids : claims[i].uid = inc[p] => i = cur[p]
      BY <1>c, <2>3
    <3>2. LiveUids' = LiveUids \ {inc[p]} /\ RelayUids' = RelayUids \ {inc[p]}
      BY <1>a, <2>5, <3>1, LiveLess
    <3>3. inc[p] \in Doomed
      BY <1>a, <2>3 DEF DoomedInv
    <3>4. inc[p] \in RelayUids /\ enabled => inc[p] \in purged
      BY <1>a, <2>3, <3>1 DEF PurgedInv, RelayUids
    <3>5. Contract!End(inc[p])
      BY <2>1, <2>2, <2>3, <2>5, <3>2, <3>3, <3>4 DEF Contract!End, Doomed
    <3> QED
      BY <3>1, <3>5 DEF Contract!Next
  <2> QED
    BY <1>9, <2>4, <2>5 DEF DeleteClaim
<1>10. ASSUME NEW h \in Handlers,
             Answer(h)
      PROVE  Goal
  <2>1. LiveUids' = LiveUids /\ RelayUids' = RelayUids
    BY <1>10, LiveSame DEF Answer, store
  <2>2. OpeningUids' = OpeningUids
    <3> SUFFICES ASSUME NEW g \in Handlers
                 PROVE  (Opening(g)' <=> Opening(g)) /\ (Opening(g) => inc'[g] = inc[g])
      BY OpeningSame
    <3> QED
      BY <1>10, <1>a DEF Answer, Goto, Replies, Opening, TypeOK, LocalType, Procs
  <2>3. enabled' = enabled
    BY <1>10, CallKeepsEnabled DEF Answer, client
  <2>4. UNCHANGED <<nextUid, elapsed, asked, purged, deleted>>
    BY <1>10 DEF Answer, store, history
  <2> QED
    BY <1>b, <2>1, <2>2, <2>3, <2>4
<1>11. ASSUME NEW s \in Sweepers,
             SweepList(s)
      PROVE  Goal
  <2>1. LiveUids' = LiveUids /\ RelayUids' = RelayUids
    BY <1>11, LiveSame DEF SweepList, store
  <2>2. OpeningUids' = OpeningUids
    <3> SUFFICES ASSUME NEW g \in Handlers
                 PROVE  (Opening(g)' <=> Opening(g)) /\ (Opening(g) => inc'[g] = inc[g])
      BY OpeningSame
    <3> QED
      BY <1>11, <1>a DEF SweepList, Goto, Opening, TypeOK, LocalType, Procs
  <2>3. enabled' = enabled
    BY <1>11, CallKeepsEnabled DEF SweepList, client
  <2>4. UNCHANGED <<nextUid, elapsed, asked, purged, deleted>>
    BY <1>11 DEF SweepList, store, history
  <2> QED
    BY <1>b, <2>1, <2>2, <2>3, <2>4
<1>12. ASSUME NEW s \in Sweepers,
             SweepFetch(s)
      PROVE  Goal
  <2>1. LiveUids' = LiveUids /\ RelayUids' = RelayUids
    BY <1>12, LiveSame DEF SweepFetch, store
  <2>2. OpeningUids' = OpeningUids
    <3> SUFFICES ASSUME NEW g \in Handlers
                 PROVE  (Opening(g)' <=> Opening(g)) /\ (Opening(g) => inc'[g] = inc[g])
      BY OpeningSame
    <3> QED
      BY <1>12, <1>a DEF SweepFetch, Goto, Opening, TypeOK, LocalType, Procs
  <2>3. enabled' = enabled
    BY <1>12, CallKeepsEnabled DEF SweepFetch, client
  <2>4. UNCHANGED <<nextUid, elapsed, asked, purged, deleted>>
    BY <1>12 DEF SweepFetch, store, history
  <2> QED
    BY <1>b, <2>1, <2>2, <2>3, <2>4
<1>13. ASSUME NEW s \in Sweepers, NEW id \in Ids,
             SweepTTL(s, id)
      PROVE  Goal
  <2>1. LiveUids' = LiveUids /\ RelayUids' = RelayUids
    BY <1>13, LiveSame DEF SweepTTL, store
  <2>2. OpeningUids' = OpeningUids
    <3> SUFFICES ASSUME NEW g \in Handlers
                 PROVE  (Opening(g)' <=> Opening(g)) /\ (Opening(g) => inc'[g] = inc[g])
      BY OpeningSame
    <3> QED
      BY <1>13, <1>a DEF SweepTTL, Read, Goto, Opening, TypeOK, LocalType, Procs
  <2>3. enabled' = enabled
    BY <1>13, CallKeepsEnabled DEF SweepTTL, client
  <2>4. UNCHANGED <<nextUid, elapsed, asked, purged, deleted>>
    BY <1>13 DEF SweepTTL, store, history
  <2> QED
    BY <1>b, <2>1, <2>2, <2>3, <2>4
<1>14. ASSUME NEW s \in Sweepers,
             SweepEnd(s)
      PROVE  Goal
  <2>1. LiveUids' = LiveUids /\ RelayUids' = RelayUids
    BY <1>14, LiveSame DEF SweepEnd, store
  <2>2. OpeningUids' = OpeningUids
    <3> SUFFICES ASSUME NEW g \in Handlers
                 PROVE  (Opening(g)' <=> Opening(g)) /\ (Opening(g) => inc'[g] = inc[g])
      BY OpeningSame
    <3> QED
      BY <1>14, <1>a DEF SweepEnd, Goto, Opening, TypeOK, LocalType, Procs
  <2>3. enabled' = enabled
    BY <1>14, CallKeepsEnabled DEF SweepEnd, client
  <2>4. UNCHANGED <<nextUid, elapsed, asked, purged, deleted>>
    BY <1>14 DEF SweepEnd, store, history
  <2> QED
    BY <1>b, <2>1, <2>2, <2>3, <2>4
<1>15. ASSUME WindowEnds PROVE Goal
  <2>1. LiveUids' = LiveUids /\ RelayUids' = RelayUids
    BY <1>15, LiveSame DEF WindowEnds, store
  <2>2. OpeningUids' = OpeningUids
    <3> SUFFICES ASSUME NEW g \in Handlers
                 PROVE  (Opening(g)' <=> Opening(g)) /\ (Opening(g) => inc'[g] = inc[g])
      BY OpeningSame
    <3> QED
      BY <1>15, <1>a DEF WindowEnds, local, Opening, TypeOK, LocalType, Procs
  <2>3. enabled' = enabled
    BY <1>15, CallKeepsEnabled DEF WindowEnds, client
  <2>4. UNCHANGED <<nextUid, elapsed, asked, purged, deleted>>
    BY <1>15 DEF WindowEnds, store, history
  <2> QED
    BY <1>b, <2>1, <2>2, <2>3, <2>4
<1>16. ASSUME NEW id \in Ids,
             TTLElapses(id)
      PROVE  Goal
  <2>1. LiveUids' = LiveUids /\ RelayUids' = RelayUids
    BY <1>16, LiveSame DEF TTLElapses, store
  <2>2. OpeningUids' = OpeningUids
    <3> SUFFICES ASSUME NEW g \in Handlers
                 PROVE  (Opening(g)' <=> Opening(g)) /\ (Opening(g) => inc'[g] = inc[g])
      BY OpeningSame
    <3> QED
      BY <1>16, <1>a DEF TTLElapses, local, Opening, TypeOK, LocalType, Procs
  <2>3. enabled' = enabled
    BY <1>16, CallKeepsEnabled DEF TTLElapses, client
  <2>4. UNCHANGED <<nextUid, asked, purged, deleted>> /\ elapsed' = elapsed \cup {claims[id].uid}
    BY <1>16 DEF TTLElapses, store, history
  <2>5. claims[id].uid \in 1 .. nextUid - 1
    BY <1>16, <1>a, UidStep DEF TTLElapses, ClaimInv, NoClaim
  <2>6. Contract!Doom(claims[id].uid)
    BY <2>1, <2>2, <2>3, <2>4, <2>5 DEF Contract!Doom, Doomed
  <2> QED
    BY <2>5, <2>6 DEF Contract!Next
<1>17. ASSUME NEW id \in Ids,
             ClaimGone(id)
      PROVE  Goal
  <2>1. LiveUids' = LiveUids /\ RelayUids' = RelayUids
    BY <1>17, <1>a, LiveGone
  <2>2. OpeningUids' = OpeningUids
    <3> SUFFICES ASSUME NEW g \in Handlers
                 PROVE  (Opening(g)' <=> Opening(g)) /\ (Opening(g) => inc'[g] = inc[g])
      BY OpeningSame
    <3> QED
      BY <1>17, <1>a DEF ClaimGone, local, Opening, TypeOK, LocalType, Procs
  <2>3. enabled' = enabled
    BY <1>17, CallKeepsEnabled DEF ClaimGone, client
  <2>4. UNCHANGED <<nextUid, elapsed, asked, purged, deleted>>
    BY <1>17 DEF ClaimGone, store, history
  <2> QED
    BY <1>b, <2>1, <2>2, <2>3, <2>4
<1>18. ASSUME NEW id \in Ids,
             PodBoot(id)
      PROVE  Goal
  <2>1. LiveUids' = LiveUids /\ RelayUids' = RelayUids
    BY <1>18, LiveSame DEF PodBoot, store
  <2>2. OpeningUids' = OpeningUids
    <3> SUFFICES ASSUME NEW g \in Handlers
                 PROVE  (Opening(g)' <=> Opening(g)) /\ (Opening(g) => inc'[g] = inc[g])
      BY OpeningSame
    <3> QED
      BY <1>18, <1>a DEF PodBoot, local, Opening, TypeOK, LocalType, Procs
  <2>3. enabled' = enabled
    BY <1>18, CallKeepsEnabled DEF PodBoot, client
  <2>4. UNCHANGED <<nextUid, elapsed, asked, purged, deleted>>
    BY <1>18 DEF PodBoot, store, history
  <2> QED
    BY <1>b, <2>1, <2>2, <2>3, <2>4
<1>19. ASSUME Crash PROVE Goal
  <2>1. LiveUids' = LiveUids /\ RelayUids' = RelayUids
    BY <1>19, LiveSame DEF Crash, store
  <2>2. OpeningUids' = {}
    <3>1. \A g \in Handlers : ~Opening(g)'
      BY <1>19 DEF Crash, Opening, Procs
    <3> QED
      BY <3>1 DEF OpeningUids
  <2>3. UNCHANGED <<nextUid, elapsed, asked, purged, deleted>> /\ enabled' \in BOOLEAN
    BY <1>19, SwitchAssumption DEF Crash, store, history
  <2>4. Contract!Restart
    BY <2>1, <2>2, <2>3 DEF Contract!Restart, Doomed
  <2> QED
    BY <2>4 DEF Contract!Next
<1>20. ASSUME UNCHANGED vars PROVE Goal
  <2>1. LiveUids' = LiveUids /\ RelayUids' = RelayUids
    BY <1>20, LiveSame DEF vars, store
  <2>2. OpeningUids' = OpeningUids
    <3> SUFFICES ASSUME NEW g \in Handlers
                 PROVE  (Opening(g)' <=> Opening(g)) /\ (Opening(g) => inc'[g] = inc[g])
      BY OpeningSame
    <3> QED
      BY <1>20, <1>a DEF vars, local, Opening, TypeOK, LocalType, Procs
  <2>3. enabled' = enabled
    BY <1>20, CallKeepsEnabled DEF vars, client
  <2>4. UNCHANGED <<nextUid, elapsed, asked, purged, deleted>>
    BY <1>20 DEF vars, store, history
  <2> QED
    BY <1>b, <2>1, <2>2, <2>3, <2>4
<1> QED
  BY <1>1, <1>2, <1>3, <1>4, <1>5, <1>6, <1>7, <1>8, <1>9, <1>10, <1>11, <1>12,
     <1>13, <1>14, <1>15, <1>16, <1>17, <1>18, <1>19, <1>20
     DEF Procs, Next, Serve, Sweep, World

(* The manager keeps its contract (SessionContract), for clients that let  *)
(* it generate the ids: a session ends only once a DELETE asked for it,    *)
(* its TTL ran out or its own create is rolled back, never before the      *)
(* connector confirmed the purge of a connector session, and no DELETE     *)
(* answered 200 is ever undone.                                            *)
THEOREM ContractKept == ASSUME ~ReuseIds PROVE Spec => KeepsContract
<1>1. ASSUME Init PROVE Contract!Init
  <2>1. \A id \in Ids : ~Live(id)
    BY <1>1 DEF Init, Live, NoClaim
  <2>2. \A h \in Handlers : ~Opening(h)
    BY <1>1 DEF Init, Opening, Procs
  <2>3. LiveUids = {} /\ RelayUids = {}
    BY <2>1 DEF LiveUids, RelayUids
  <2>4. OpeningUids = {}
    BY <2>2 DEF OpeningUids
  <2>5. enabled \in BOOLEAN
    BY <1>1, SwitchAssumption DEF Init
  <2>6. nextUid - 1 = 0
    BY <1>1 DEF Init
  <2>7. Doomed = {} /\ purged = {} /\ deleted = {}
    BY <1>1 DEF Init, Doomed
  <2> QED
    BY <2>3, <2>4, <2>5, <2>6, <2>7 DEF Contract!Init
<1>2. BaseInv /\ OnceInv /\ [Next]_vars => [Contract!Next]_(Contract!vars)
  BY ContractStep
<1> QED
  BY <1>1, <1>2, OnceInvariant, PTL DEF Spec, KeepsContract, Contract!Spec

-----------------------------------------------------------------------------
(***************************************************************************)
(* When a failed create leaves nothing (NoHalfSession): one request at a   *)
(* time, no sweep, pods that do not register themselves, and a single      *)
(* failure, of a call to the connector or of the process.                  *)
(***************************************************************************)
Alone(t) == /\ Handlers = {t} /\ Sweepers = {} /\ ~SelfProvision
            /\ MaxFaults = 1 /\ FaultKinds \subseteq {"connector", "connectorLost", "crash"}

(* The failure that brings a create to its rollback is the only one, so    *)
(* both halves of the rollback come through, on the claim it made.         *)
RollbackInv(t) ==
  /\ ~throttled
  /\ pc[t] \in {"rbInst", "rbClaim"} => faults = 1
  /\ Opening(t) => cur[t] \in Ids /\ Live(cur[t])
  /\ pc[t] = "route" => instances[cur[t]] # "none"
  /\ pc[t] = "rbClaim" => instances[cur[t]] = "none"
  /\ pc[t] = "failed" /\ inc[t] # 0 => /\ cur[t] \in Ids /\ ~Live(cur[t])
                                       /\ instances[cur[t]] = "none"

(* What a call may come back with then.                                    *)
LEMMA AloneCalls ==
  ASSUME NEW t, Alone(t), TypeOK, ~throttled
  PROVE  /\ ~Refused /\ ~K8sFails /\ ~K8sLost
         /\ Answered \/ K8sOk => throttled' = throttled /\ faults' = faults
         /\ Errored \/ AnswerLost => ~throttled' /\ faults # 1 /\ faults' = 1
  BY DEF Alone, TypeOK, ClientType, Refused, K8sFails, K8sLost, Answered, K8sOk, Errored,
         AnswerLost, Fault, client

(* Each step of the one request, and of the world, keeps it.               *)
LEMMA NextRollbackInv ==
  ASSUME NEW t, Alone(t), TypeOK, RollbackInv(t), [Next]_vars
  PROVE  RollbackInv(t)'
<1> DEFINE Goal ==
         RollbackInv(t)'
<1> SUFFICES Goal
  OBVIOUS
<1> USE DEF RollbackInv, Opening, Live, Goto
<1>a. /\ t \in Procs /\ pc \in [Procs -> Calls \cup Replies \cup {"idle"}]
      /\ cur \in [Procs -> Ids \cup {NoId}] /\ inc \in [Procs -> Nat]
      /\ instances \in [Ids -> {"none", "bare", "wake"}]
      /\ claims \in [Ids -> Claim] /\ nextUid \in Nat \ {0}
      /\ Handlers = {t} /\ Procs = {t} /\ Sweepers = {}
  BY DEF TypeOK, LocalType, StoreType, Procs, Alone
<1>b. /\ ~Refused /\ ~K8sFails /\ ~K8sLost
      /\ Answered \/ K8sOk => throttled' = throttled /\ faults' = faults
      /\ Errored \/ AnswerLost => ~throttled' /\ faults # 1 /\ faults' = 1
  BY AloneCalls DEF RollbackInv
<1>1. ASSUME NEW h \in Handlers, NEW id \in Ids,
             HandleDelete(h, id)
      PROVE  Goal
  BY <1>1, <1>a, <1>b DEF HandleDelete, Read, store, local, history, client
<1>2. ASSUME NEW h \in Handlers, NEW id \in Ids, NEW conn \in BOOLEAN, NEW mortal \in BOOLEAN,
             NEW bind \in SUBSET Chats,
             HandleCreate(h, id, conn, mortal, bind)
      PROVE  Goal
  <2>1. nextUid # 0
    BY <1>a
  <2>2. CASE NewClaim(id, conn, mortal) /\ claims[id].uid = 0
    <3>1. claims'[id].uid # 0 /\ ~claims'[id].term
      BY <2>2, <2>1, <1>a DEF NewClaim
    <3> QED
      BY <1>2, <2>2, <3>1, <1>a, <1>b DEF HandleCreate, store
  <2>3. CASE Goto(h, "rejected") /\ UNCHANGED <<store, client>>
    BY <2>3, <1>2, <1>a DEF HandleCreate, store, client
  <2> QED
    BY <1>2, <1>b, <2>2, <2>3 DEF HandleCreate
<1>3. ASSUME NEW h \in Handlers,
             Provision(h)
      PROVE  Goal
  BY <1>3, <1>a, <1>b DEF Provision, Provisioned, store, local, history, client
<1>4. ASSUME NEW h \in Handlers,
             SetRoute(h)
      PROVE  Goal
  BY <1>4, <1>a, <1>b DEF SetRoute, store, local, history, client
<1>5. ASSUME NEW h \in Handlers,
             RollbackInstance(h)
      PROVE  Goal
  BY <1>5, <1>a, <1>b DEF RollbackInstance, Purged, store, local, history, client
<1>6. ASSUME NEW h \in Handlers,
             RollbackClaim(h)
      PROVE  Goal
  <2>1. Terminated(cur[h])
    BY <1>6, <1>b DEF RollbackClaim
  <2>2. claims'[cur[h]].uid = claims[cur[h]].uid
        /\ (claims[cur[h]].uid # 0 => claims'[cur[h]].term)
    BY <1>6, <1>a, <2>1, TerminatedClaims DEF RollbackClaim
  <2> QED
    BY <1>6, <1>a, <1>b, <2>2 DEF RollbackClaim
<1>7. ASSUME NEW h \in Handlers,
             GetCreated(h)
      PROVE  Goal
  <2>1. ~throttled' /\ Goto(h, "created")
    BY <1>7, <1>a, <1>b DEF GetCreated, ListInstances
  <2> QED
    BY <1>7, <1>a, <2>1 DEF GetCreated, store
<1>8. ASSUME NEW p \in Procs,
             PurgeInstance(p)
      PROVE  Goal
  BY <1>8, <1>a, <1>b DEF PurgeInstance, Purged, Return, store, local, history, client
<1>9. ASSUME NEW p \in Procs,
             DeleteClaim(p)
      PROVE  Goal
  BY <1>9, <1>a, <1>b DEF DeleteClaim, Return, store, local, history, client
<1>10. ASSUME NEW h \in Handlers,
             Answer(h)
      PROVE  Goal
  BY <1>10, <1>a, <1>b DEF Answer, store, local, history, client
<1>11. ASSUME NEW s \in Sweepers,
             SweepList(s)
      PROVE  Goal
  BY <1>11, <1>a, <1>b DEF SweepList, store, local, history, client
<1>12. ASSUME NEW s \in Sweepers,
             SweepFetch(s)
      PROVE  Goal
  BY <1>12, <1>a, <1>b DEF SweepFetch, store, local, history, client
<1>13. ASSUME NEW s \in Sweepers, NEW id \in Ids,
             SweepTTL(s, id)
      PROVE  Goal
  BY <1>13, <1>a, <1>b DEF SweepTTL, Read, store, local, history, client
<1>14. ASSUME NEW s \in Sweepers,
             SweepEnd(s)
      PROVE  Goal
  BY <1>14, <1>a, <1>b DEF SweepEnd, store, local, history, client
<1>15. ASSUME WindowEnds PROVE Goal
  BY <1>15, <1>a, <1>b DEF WindowEnds, store, local, history, client
<1>16. ASSUME NEW id \in Ids,
             TTLElapses(id)
      PROVE  Goal
  BY <1>16, <1>a, <1>b DEF TTLElapses, store, local, history, client
<1>17. ASSUME NEW id \in Ids,
             ClaimGone(id)
      PROVE  Goal
  <2>1. ~throttled' /\ faults' = faults /\ UNCHANGED <<pc, cur, inc, instances>>
    BY <1>17 DEF ClaimGone, client, local
  <2>2. claims' = [claims EXCEPT ![id] = NoClaim] /\ claims[id].term /\ NoClaim.uid = 0
    BY <1>17 DEF ClaimGone, NoClaim
  <2> QED
    BY <1>a, <2>1, <2>2
<1>18. ASSUME NEW id \in Ids,
             PodBoot(id)
      PROVE  Goal
  BY <1>18 DEF PodBoot, Alone
<1>19. ASSUME Crash PROVE Goal
  BY <1>19, <1>a, <1>b DEF Crash, store, local, history, client
<1>20. ASSUME UNCHANGED vars PROVE Goal
  BY <1>20, <1>a, <1>b DEF vars, store, local, history, client
<1> QED
  BY <1>1, <1>2, <1>3, <1>4, <1>5, <1>6, <1>7, <1>8, <1>9, <1>10, <1>11, <1>12,
     <1>13, <1>14, <1>15, <1>16, <1>17, <1>18, <1>19, <1>20
     DEF Next, Serve, Sweep, World, Procs

(* "On provision failure the claim is rolled back - no half-session        *)
(* survives" (manager.go:83-85) holds under these conditions; the run      *)
(* rollback_throttled shows that it does not for a 429.                    *)
THEOREM FailuresRolledBack ==
  ASSUME NEW t, Alone(t)
  PROVE  Spec => []NoHalfSession
<1>1. Init => RollbackInv(t)
  BY DEF Init, RollbackInv, Opening, Alone, Procs
<1>2. TypeOK /\ RollbackInv(t) /\ [Next]_vars => RollbackInv(t)'
  BY NextRollbackInv
<1>3. RollbackInv(t) => NoHalfSession
  BY DEF RollbackInv, NoHalfSession, Alone
<1> QED
  BY <1>1, <1>2, <1>3, TypeCorrect, PTL DEF Spec
=============================================================================
