-------------------------- MODULE SessionLifecycle --------------------------
(***************************************************************************)
(* Creation and destruction of sessions by the lifecycle-manager:          *)
(* lifecycle/manager.go (Create, Get, Decommission), the HTTP handlers     *)
(* that call them, and the TTL half of the sweep loop (sweeper/runner.go), *)
(* over the two stores they keep in step: the SandboxClaims in Kubernetes  *)
(* and the gateway instances in the relay connector.                       *)
(*                                                                         *)
(* Every HTTP request runs in a goroutine of its own, the sweep loop in    *)
(* another.  A step is one call to the Kubernetes API or to the connector  *)
(* with the local code that leads to the next call, so requests and sweeps *)
(* interleave between any two calls.  A call may fail (Faults); a crash    *)
(* loses every goroutine and the throttle window, and nothing else.        *)
(***************************************************************************)
EXTENDS Integers, FiniteSets

CONSTANTS
  Ids,              \* session ids: one name for the claim and the gateway
  Chats,            \* chats a create request may ask to bind
  Handlers,         \* goroutines that serve HTTP requests, one at a time each
  Sweepers,         \* goroutines that run the sweep loop
  NoId,             \* no session
  Configs,          \* values HLM_CONNECTOR_ENABLED may have, at any start
  SelfProvision,    \* session pods run bootstrap.py on boot
  ReuseIds,         \* a client may use an id again once its session is gone
  FaultKinds,       \* which of AllFaults may happen
  MaxFaults,        \* bound on the number of faults of a behaviour
  MaxUid            \* bound on the number of claims ever created

AllFaults == {"k8s", "k8sLost", "connector", "connectorLost", "throttle", "crash"}

Procs == Handlers \cup Sweepers

ASSUME ProcsAssumption == Handlers \cap Sweepers = {}
ASSUME IdsAssumption == NoId \notin Ids
ASSUME SwitchAssumption == /\ Configs \subseteq BOOLEAN /\ Configs # {}
                           /\ SelfProvision \in BOOLEAN
                           /\ ReuseIds \in BOOLEAN
ASSUME BoundAssumption == /\ FaultKinds \subseteq AllFaults
                          /\ MaxFaults \in Nat
                          /\ MaxUid \in Nat

VARIABLES
  claims,     \* Kubernetes: the SandboxClaim of each id
  instances,  \* connector: the gateway of each id, without or with a wakeUrl
  routes,     \* connector: the chats bound to each gateway
  used,       \* ids that ever named a claim
  nextUid,    \* uid of the next claim (Kubernetes never reuses one)
  elapsed,    \* uids of the claims whose TTL has run out
  enabled,    \* the connector integration is configured
  throttled,  \* connector client: its throttle window is open
  faults,     \* number of faults so far
  pc,         \* the next call of each goroutine, or its reply
  cur,        \* the session it works on
  inc,        \* uid of the claim it created or read
  chats,      \* create: chats of the request
  bound,      \* create: those the loop over them is done with
  listed,     \* sweep: the claims of ListClaims
  due,        \* sweep: ids to decommission, not yet reached
  asked,      \* history: uids a DELETE request has read
  purged,     \* history: uids whose purge the connector has confirmed
  created,    \* history: connector sessions answered 201 before anybody wanted them gone
  deleted     \* history: uids whose DELETE was answered 200

store   == <<claims, instances, routes, used, nextUid>>
client  == <<enabled, throttled, faults>>
local   == <<pc, cur, inc, chats, bound, listed, due>>
history == <<asked, purged, created, deleted>>
vars    == <<store, elapsed, client, local, history>>

Claim == [uid : Nat, conn : BOOLEAN, mortal : BOOLEAN, term : BOOLEAN]

NoClaim == [uid |-> 0, conn |-> FALSE, mortal |-> FALSE, term |-> FALSE]

Calls   == {"provision", "route", "rbInst", "rbClaim", "get", "dInst", "dClaim",
            "fetch", "loop"}
Replies == {"created", "failed", "deleted", "kept", "rejected"}

StoreType ==
  /\ claims \in [Ids -> Claim]
  /\ instances \in [Ids -> {"none", "bare", "wake"}]
  /\ routes \in [Ids -> SUBSET Chats]
  /\ used \subseteq Ids
  /\ nextUid \in Nat \ {0}

ClientType ==
  /\ enabled \in BOOLEAN
  /\ throttled \in BOOLEAN
  /\ faults \in Nat

LocalType ==
  /\ pc \in [Procs -> Calls \cup Replies \cup {"idle"}]
  /\ cur \in [Procs -> Ids \cup {NoId}]
  /\ inc \in [Procs -> Nat]
  /\ chats \in [Handlers -> SUBSET Chats]
  /\ bound \in [Handlers -> SUBSET Chats]

SweepType ==
  /\ listed \in [Sweepers -> [Ids -> Claim]]
  /\ due \in [Sweepers -> SUBSET Ids]

HistoryType == elapsed \cup asked \cup purged \cup created \cup deleted \subseteq Nat

TypeOK == StoreType /\ ClientType /\ LocalType /\ SweepType /\ HistoryType

Init ==
  /\ claims = [i \in Ids |-> NoClaim]
  /\ instances = [i \in Ids |-> "none"]
  /\ routes = [i \in Ids |-> {}]
  /\ used = {}
  /\ nextUid = 1
  /\ elapsed = {}
  /\ enabled \in Configs
  /\ throttled = FALSE
  /\ faults = 0
  /\ pc = [p \in Procs |-> "idle"]
  /\ cur = [p \in Procs |-> NoId]
  /\ inc = [p \in Procs |-> 0]
  /\ chats = [h \in Handlers |-> {}]
  /\ bound = [h \in Handlers |-> {}]
  /\ listed = [s \in Sweepers |-> [i \in Ids |-> NoClaim]]
  /\ due = [s \in Sweepers |-> {}]
  /\ asked = {}
  /\ purged = {}
  /\ created = {}
  /\ deleted = {}

-----------------------------------------------------------------------------
(* Faults, and what a call to the connector may come back with             *)

Fault(kind) == /\ kind \in FaultKinds
               /\ faults < MaxFaults
               /\ faults' = faults + 1

(* A 429, or the window of an earlier one: the request had no effect.      *)
Refused == \/ throttled /\ UNCHANGED client
           \/ /\ ~throttled
              /\ Fault("throttle")
              /\ throttled' = TRUE
              /\ UNCHANGED enabled

(* Any other error; the request was not carried out ...                    *)
Errored == ~throttled /\ Fault("connector") /\ UNCHANGED <<enabled, throttled>>

(* ... or it was, and its answer got lost (timeout, cancelled request).    *)
AnswerLost == ~throttled /\ Fault("connectorLost") /\ UNCHANGED <<enabled, throttled>>

Answered == ~throttled /\ UNCHANGED client

(* The same two errors for the Kubernetes API.                             *)
K8sFails == Fault("k8s") /\ UNCHANGED <<enabled, throttled>>
K8sLost  == Fault("k8sLost") /\ UNCHANGED <<enabled, throttled>>
K8sOk    == UNCHANGED client

(* assemble and sweep read the instance list, from the cache or with a     *)
(* request; only a 429 leaves a trace.                                     *)
ListInstances == Answered \/ Refused \/ Errored

(* Registering a gateway: a wakeUrl is kept once set (COALESCE).           *)
Provisioned(id) == instances' = [instances EXCEPT ![id] = "wake"]

Purged(id) == /\ instances' = [instances EXCEPT ![id] = "none"]
              /\ routes' = [routes EXCEPT ![id] = {}]

(* Deleting a claim marks it; the object goes once it is garbage collected.*)
Terminated(id) ==
  claims' = IF claims[id].uid = 0 THEN claims
            ELSE [claims EXCEPT ![id] = [uid |-> @.uid, conn |-> @.conn, mortal |-> @.mortal,
                                         term |-> TRUE]]

Goto(p, call) == pc' = [pc EXCEPT ![p] = call]

-----------------------------------------------------------------------------
(* POST /v1/sessions: handleCreateSession and Manager.Create               *)

NewClaim(id, conn, mortal) ==
  /\ claims' = [claims EXCEPT ![id] =
                  [uid |-> nextUid, conn |-> conn, mortal |-> mortal, term |-> FALSE]]
  /\ nextUid' = nextUid + 1
  /\ used' = used \cup {id}

(* The request, up to the answer of CreateClaim.  ReuseIds = FALSE stands  *)
(* for clients that let the manager generate the id.                       *)
HandleCreate(h, id, conn, mortal, bind) ==
  /\ pc[h] = "idle"
  /\ bind # {} => conn
  /\ id \in used => ReuseIds \/ claims[id].uid # 0
  /\ cur' = [cur EXCEPT ![h] = id]
  /\ \/ /\ (conn /\ ~enabled) \/ claims[id].uid # 0
        /\ Goto(h, "rejected")
        /\ UNCHANGED <<store, client, inc, chats>>
     \/ /\ conn => enabled
        /\ claims[id].uid = 0
        /\ nextUid <= MaxUid
        /\ NewClaim(id, conn, mortal)
        /\ \/ K8sOk /\ Goto(h, IF conn THEN "provision" ELSE "get")
           \/ K8sLost /\ Goto(h, "failed")
        /\ inc' = [inc EXCEPT ![h] = nextUid]
        /\ chats' = [chats EXCEPT ![h] = bind]
        /\ UNCHANGED <<instances, routes>>
     \/ /\ conn => enabled
        /\ K8sFails
        /\ Goto(h, "failed")
        /\ UNCHANGED <<store, inc, chats>>
  /\ UNCHANGED <<elapsed, bound, listed, due, history>>

(* Mutant: an error of the connector is logged and the create goes on.     *)
ProvisionTolerant(h) ==
  /\ pc[h] = "provision"
  /\ \/ (Answered \/ AnswerLost) /\ Provisioned(cur[h])
     \/ (Refused \/ Errored) /\ UNCHANGED instances
  /\ Goto(h, IF chats[h] = {} THEN "get" ELSE "route")
  /\ UNCHANGED <<claims, routes, used, nextUid, elapsed, cur, inc, chats, bound, listed, due,
                 history>>

Provision(h) ==
  /\ pc[h] = "provision"
  /\ \/ /\ Answered
        /\ Provisioned(cur[h])
        /\ Goto(h, IF chats[h] = {} THEN "get" ELSE "route")
     \/ AnswerLost /\ Provisioned(cur[h]) /\ Goto(h, "rbInst")
     \/ (Refused \/ Errored) /\ UNCHANGED instances /\ Goto(h, "rbInst")
  /\ UNCHANGED <<claims, routes, used, nextUid, elapsed, cur, inc, chats, bound, listed, due,
                 history>>

(* One turn of the loop over the request's routeKeys.                      *)
SetRoute(h) ==
  /\ pc[h] = "route"
  /\ \E chat \in chats[h] \ bound[h] :
       \/ /\ Answered
          /\ routes' = [routes EXCEPT ![cur[h]] = @ \cup {chat}]
          /\ bound' = [bound EXCEPT ![h] = @ \cup {chat}]
          /\ Goto(h, IF chats[h] = bound'[h] THEN "get" ELSE "route")
       \/ /\ AnswerLost
          /\ routes' = [routes EXCEPT ![cur[h]] = @ \cup {chat}]
          /\ UNCHANGED bound
          /\ Goto(h, "rbInst")
       \/ /\ \/ Refused \/ Errored
             \/ Answered /\ instances[cur[h]] = "none" \* 404
          /\ UNCHANGED <<routes, bound>>
          /\ Goto(h, "rbInst")
  /\ UNCHANGED <<claims, instances, used, nextUid, elapsed, cur, inc, chats, listed, due,
                 history>>

(* The rollback: both halves best effort, their errors only logged.        *)
RollbackInstance(h) ==
  /\ pc[h] = "rbInst"
  /\ \/ Answered /\ Purged(cur[h]) /\ purged' = purged \cup {inc[h]}
     \/ AnswerLost /\ Purged(cur[h]) /\ UNCHANGED purged
     \/ (Refused \/ Errored) /\ UNCHANGED <<instances, routes, purged>>
  /\ Goto(h, "rbClaim")
  /\ UNCHANGED <<claims, used, nextUid, elapsed, cur, inc, chats, bound, listed, due,
                 asked, created, deleted>>

RollbackClaim(h) ==
  /\ pc[h] = "rbClaim"
  /\ \/ (K8sOk \/ K8sLost) /\ Terminated(cur[h])
     \/ K8sFails /\ UNCHANGED claims
  /\ Goto(h, "failed")
  /\ UNCHANGED <<instances, routes, used, nextUid, elapsed, cur, inc, chats, bound, listed, due,
                 history>>

(* Somebody wants the session gone: a DELETE read it, or its TTL ran out.  *)
Doomed == asked \cup elapsed

(* Manager.Get at the end of a create; assemble never fails.               *)
GetCreated(h) ==
  /\ pc[h] = "get"
  /\ LET claim == claims[cur[h]]
     IN \/ /\ claim.uid # 0
           /\ IF claim.conn /\ enabled THEN ListInstances ELSE K8sOk
           /\ Goto(h, "created")
           /\ created' = IF claim.conn /\ inc[h] \notin Doomed THEN created \cup {inc[h]} ELSE created
        \/ /\ \/ claim.uid = 0 /\ K8sOk
              \/ K8sFails
           /\ Goto(h, "failed")
           /\ UNCHANGED created
  /\ UNCHANGED <<store, elapsed, cur, inc, chats, bound, listed, due, asked, purged, deleted>>

-----------------------------------------------------------------------------
(* Manager.Decommission, for a DELETE request and for the sweep            *)

(* Mutant: the goroutine keeps the name where it should keep the claim.    *)
ReadByName(p, id) ==
  /\ cur' = [cur EXCEPT ![p] = id]
  /\ inc' = [inc EXCEPT ![p] = id]
  /\ Goto(p, IF claims[id].conn /\ enabled THEN "dInst" ELSE "dClaim")

(* What GetClaim found: the connector is purged first, for a claim that    *)
(* records it, while the integration is on.                                *)
Read(p, id) ==
  /\ cur' = [cur EXCEPT ![p] = id]
  /\ inc' = [inc EXCEPT ![p] = claims[id].uid]
  /\ Goto(p, IF claims[id].conn /\ enabled THEN "dInst" ELSE "dClaim")

(* A handler answers; the sweep goes on with its next claim.               *)
Return(p, reply) ==
  IF p \in Handlers
  THEN Goto(p, reply) /\ UNCHANGED <<cur, inc>>
  ELSE /\ Goto(p, "loop")
       /\ cur' = [cur EXCEPT ![p] = NoId]
       /\ inc' = [inc EXCEPT ![p] = 0]

HandleDelete(h, id) ==
  /\ pc[h] = "idle"
  /\ \/ /\ claims[id].uid # 0
        /\ K8sOk
        /\ Read(h, id)
        /\ asked' = asked \cup {claims[id].uid}
     \/ /\ claims[id].uid = 0 /\ K8sOk
        /\ Goto(h, "rejected")
        /\ cur' = [cur EXCEPT ![h] = id]
        /\ UNCHANGED <<inc, asked>>
     \/ /\ K8sFails
        /\ Goto(h, "kept")
        /\ cur' = [cur EXCEPT ![h] = id]
        /\ UNCHANGED <<inc, asked>>
  /\ UNCHANGED <<store, elapsed, chats, bound, listed, due, purged, created, deleted>>

(* Mutants of PurgeInstance: the claim is deleted although the purge failed*)
PurgeInstanceLax(p) ==
  /\ pc[p] = "dInst"
  /\ \/ Answered /\ Purged(cur[p]) /\ purged' = purged \cup {inc[p]}
     \/ AnswerLost /\ Purged(cur[p]) /\ UNCHANGED purged
     \/ (Refused \/ Errored) /\ UNCHANGED <<instances, routes, purged>>
  /\ Goto(p, "dClaim")
  /\ UNCHANGED <<claims, used, nextUid, elapsed, cur, inc, chats, bound, listed, due>>
  /\ UNCHANGED <<asked, created, deleted>>

(* ... a purge of what is not there (404) counts as a failure ...          *)
PurgeInstanceOnce(p) ==
  /\ pc[p] = "dInst"
  /\ \/ /\ Answered
        /\ instances[cur[p]] # "none"
        /\ Purged(cur[p])
        /\ purged' = purged \cup {inc[p]}
        /\ Goto(p, "dClaim")
        /\ UNCHANGED <<cur, inc>>
     \/ AnswerLost /\ Purged(cur[p]) /\ UNCHANGED purged /\ Return(p, "kept")
     \/ /\ Refused \/ Errored \/ (Answered /\ instances[cur[p]] = "none")
        /\ UNCHANGED <<instances, routes, purged>>
        /\ Return(p, "kept")
  /\ UNCHANGED <<claims, used, nextUid, elapsed, chats, bound, listed, due, asked, created, deleted>>

(* DeleteInstance: a 404 counts as purged, any other error keeps the claim.*)
PurgeInstance(p) ==
  /\ pc[p] = "dInst"
  /\ \/ /\ Answered
        /\ Purged(cur[p])
        /\ purged' = purged \cup {inc[p]}
        /\ Goto(p, "dClaim")
        /\ UNCHANGED <<cur, inc>>
     \/ AnswerLost /\ Purged(cur[p]) /\ UNCHANGED purged /\ Return(p, "kept")
     \/ (Refused \/ Errored) /\ UNCHANGED <<instances, routes, purged>> /\ Return(p, "kept")
  /\ UNCHANGED <<claims, used, nextUid, elapsed, chats, bound, listed, due, asked, created, deleted>>

(* Mutant: a failed deletion of the claim is answered 200 all the same.    *)
DeleteClaimBlind(p) ==
  /\ pc[p] = "dClaim"
  /\ \/ (K8sOk \/ K8sLost) /\ Terminated(cur[p])
     \/ K8sFails /\ UNCHANGED claims
  /\ deleted' = IF p \in Handlers THEN deleted \cup {inc[p]} ELSE deleted
  /\ Return(p, "deleted")
  /\ UNCHANGED <<instances, routes, used, nextUid, elapsed, chats, bound, listed, due, asked, purged,
                 created>>

DeleteClaim(p) ==
  /\ pc[p] = "dClaim"
  /\ \/ /\ K8sOk
        /\ Terminated(cur[p])
        /\ deleted' = IF p \in Handlers THEN deleted \cup {inc[p]} ELSE deleted
        /\ Return(p, "deleted")
     \/ K8sLost /\ Terminated(cur[p]) /\ UNCHANGED deleted /\ Return(p, "kept")
     \/ K8sFails /\ UNCHANGED <<claims, deleted>> /\ Return(p, "kept")
  /\ UNCHANGED <<instances, routes, used, nextUid, elapsed, chats, bound, listed, due, asked, purged,
                 created>>

(* The reply is written; the goroutine ends.                               *)
Answer(h) ==
  /\ pc[h] \in Replies
  /\ Goto(h, "idle")
  /\ cur' = [cur EXCEPT ![h] = NoId]
  /\ inc' = [inc EXCEPT ![h] = 0]
  /\ chats' = [chats EXCEPT ![h] = {}]
  /\ bound' = [bound EXCEPT ![h] = {}]
  /\ UNCHANGED <<store, elapsed, client, listed, due, history>>

-----------------------------------------------------------------------------
(* Runner.sweep, its TTL half                                              *)

(* A failed ListClaims ends the cycle.                                     *)
SweepList(s) ==
  /\ pc[s] = "idle"
  /\ \/ K8sOk /\ listed' = [listed EXCEPT ![s] = claims] /\ Goto(s, "fetch")
     \/ K8sFails /\ UNCHANGED <<listed, pc>>
  /\ UNCHANGED <<store, elapsed, cur, inc, chats, bound, due, history>>

(* Mutant: a TTL of 0 is taken for one that has run out.                   *)
SweepFetchZero(s) ==
  /\ pc[s] = "fetch"
  /\ IF enabled THEN ListInstances ELSE UNCHANGED client
  /\ due' = [due EXCEPT ![s] = {id \in Ids : /\ listed[s][id].uid # 0
                                             /\ ~listed[s][id].term
                                             /\ listed[s][id].mortal =>
                                                   listed[s][id].uid \in elapsed}]
  /\ listed' = [listed EXCEPT ![s] = [i \in Ids |-> NoClaim]]
  /\ Goto(s, "loop")
  /\ UNCHANGED <<store, elapsed, cur, inc, chats, bound, history>>

(* The instance list, then "now": which listed claims are past their TTL.  *)
SweepFetch(s) ==
  /\ pc[s] = "fetch"
  /\ IF enabled THEN ListInstances ELSE UNCHANGED client
  /\ due' = [due EXCEPT ![s] = {id \in Ids : /\ listed[s][id].mortal
                                             /\ ~listed[s][id].term
                                             /\ listed[s][id].uid \in elapsed}]
  /\ listed' = [listed EXCEPT ![s] = [i \in Ids |-> NoClaim]]
  /\ Goto(s, "loop")
  /\ UNCHANGED <<store, elapsed, cur, inc, chats, bound, history>>

(* sweepTTL of one listed claim: Decommission starts, by name.             *)
SweepTTL(s, id) ==
  /\ pc[s] = "loop"
  /\ id \in due[s]
  /\ due' = [due EXCEPT ![s] = @ \ {id}]
  /\ \/ claims[id].uid # 0 /\ K8sOk /\ Read(s, id)
     \/ claims[id].uid = 0 /\ K8sOk /\ UNCHANGED <<pc, cur, inc>>
     \/ K8sFails /\ UNCHANGED <<pc, cur, inc>>
  /\ UNCHANGED <<store, elapsed, chats, bound, listed, history>>

SweepEnd(s) ==
  /\ pc[s] = "loop"
  /\ due[s] = {}
  /\ Goto(s, "idle")
  /\ UNCHANGED <<store, elapsed, client, cur, inc, chats, bound, listed, due, history>>

-----------------------------------------------------------------------------
(* The world around the manager                                            *)

(* The process dies and a new one starts, perhaps configured otherwise.    *)
Crash ==
  /\ Fault("crash")
  /\ enabled' \in Configs
  /\ throttled' = FALSE
  /\ pc' = [p \in Procs |-> "idle"]
  /\ cur' = [p \in Procs |-> NoId]
  /\ inc' = [p \in Procs |-> 0]
  /\ chats' = [h \in Handlers |-> {}]
  /\ bound' = [h \in Handlers |-> {}]
  /\ listed' = [s \in Sweepers |-> [i \in Ids |-> NoClaim]]
  /\ due' = [s \in Sweepers |-> {}]
  /\ UNCHANGED <<store, elapsed, history>>

WindowEnds ==
  /\ throttled
  /\ throttled' = FALSE
  /\ UNCHANGED <<store, elapsed, enabled, faults, local, history>>

TTLElapses(id) ==
  /\ claims[id].mortal
  /\ claims[id].uid \notin elapsed
  /\ elapsed' = elapsed \cup {claims[id].uid}
  /\ UNCHANGED <<store, client, local, history>>

(* Garbage collection of a deleted claim.                                  *)
ClaimGone(id) ==
  /\ claims[id].term
  /\ claims' = [claims EXCEPT ![id] = NoClaim]
  /\ UNCHANGED <<instances, routes, used, nextUid, elapsed, client, local, history>>

(* bootstrap.py, on any boot of the pod of a claim: it registers the       *)
(* gateway without a wakeUrl, and leaves one already registered as it is.  *)
PodBoot(id) ==
  /\ SelfProvision
  /\ claims[id].uid # 0
  /\ instances[id] = "none"
  /\ instances' = [instances EXCEPT ![id] = "bare"]
  /\ UNCHANGED <<claims, routes, used, nextUid, elapsed, client, local, history>>

-----------------------------------------------------------------------------
Serve(h) == \/ Provision(h) \/ SetRoute(h) \/ RollbackInstance(h) \/ RollbackClaim(h)
            \/ GetCreated(h) \/ PurgeInstance(h) \/ DeleteClaim(h) \/ Answer(h)

Sweep(s) == \/ SweepList(s) \/ SweepFetch(s) \/ PurgeInstance(s) \/ DeleteClaim(s)
            \/ SweepEnd(s)
            \/ \E id \in Ids : SweepTTL(s, id)

World == \/ WindowEnds
         \/ \E id \in Ids : TTLElapses(id) \/ ClaimGone(id) \/ PodBoot(id)

Next ==
  \/ \E h \in Handlers, id \in Ids : HandleDelete(h, id)
  \/ \E h \in Handlers, id \in Ids, conn \in BOOLEAN, mortal \in BOOLEAN, bind \in SUBSET Chats :
       HandleCreate(h, id, conn, mortal, bind)
  \/ \E h \in Handlers : Serve(h)
  \/ \E s \in Sweepers : Sweep(s)
  \/ World
  \/ Crash

Spec == Init /\ [][Next]_vars

(* The goroutines run, the sweep comes round, time passes and Kubernetes   *)
(* collects what was deleted.  Requests and crashes need not happen.       *)
Fairness ==
  /\ \A h \in Handlers : WF_vars(Serve(h))
  /\ \A s \in Sweepers : WF_vars(Sweep(s))
  /\ WF_vars(WindowEnds)
  /\ \A id \in Ids : WF_vars(TTLElapses(id)) /\ WF_vars(ClaimGone(id))

FairSpec == Spec /\ Fairness
-----------------------------------------------------------------------------
(* Properties                                                              *)

Live(id) == claims[id].uid # 0 /\ ~claims[id].term

(* Manager.Create is at work on a session it has made a claim for.         *)
Opening(h) == pc[h] \in {"provision", "route", "rbInst", "rbClaim", "get"}

(* A DELETE answered 200 is final: the claim it read is never live again.  *)
(* (httpapi handleDeleteSession over Decommission, which deletes by name.) *)
AckedDeleteIsFinal == \A id \in Ids : claims[id].uid \in deleted => ~Live(id)

(* What a 201 promised stays true until somebody wants the session gone:   *)
(* the gateway is registered with its wakeUrl, whatever other requests,    *)
(* sweeps, pod boots, failures and restarts do; and at the moment of the   *)
(* answer every chat asked for is bound.                                   *)
AckedSessionServed ==
  /\ \A id \in Ids : claims[id].uid \in created \ Doomed => instances[id] = "wake"
  /\ \A h \in Handlers : pc[h] = "created" /\ inc[h] \in created \ Doomed =>
                            chats[h] \subseteq routes[cur[h]]

(* A DELETE answered 200 leaves nothing in the connector of a session that *)
(* had its 201 first, while the integration is on: no chat, and no gateway *)
(* but what a boot of the dying pod registers, which has no wakeUrl        *)
(* ("connector deprovision first (purges buffer, routes, gateway row ...), *)
(* then claim delete", docs/architecture.md:124).                          *)
Emptied(id) == instances[id] # "wake" /\ routes[id] = {}

AckedDeleteLeavesNothing ==
  \A h \in Handlers : pc[h] = "deleted" /\ enabled /\ inc[h] \in created => Emptied(cur[h])

(* A session ends only when it is due to: a DELETE request read this very  *)
(* session, its own TTL ran out, or its own create is being rolled back.   *)
(* (DeleteClaim takes a name; "0 = immortal", docs/api.md:18.)             *)
EndsOnlyWhenDue ==
  [][\A id \in Ids : Live(id) /\ ~Live(id)' =>
        \/ claims[id].uid \in Doomed
        \/ \E h \in Handlers : pc[h] = "rbClaim" /\ inc[h] = claims[id].uid]_vars

(* "0 = immortal" (docs/api.md:18): no sweep takes a session without a TTL;*)
(* it ends by a DELETE or by the rollback of its own create.               *)
ZeroTTLIsImmortal ==
  [][\A id \in Ids : Live(id) /\ ~claims[id].mortal /\ ~Live(id)' =>
        \/ claims[id].uid \in asked
        \/ \E h \in Handlers : pc[h] = "rbClaim" /\ inc[h] = claims[id].uid]_vars

(* "No half-session survives" a create that failed after its claim was     *)
(* made: neither the claim nor a gateway without one (manager.go:83-85).   *)
NoHalfSession ==
  \A h \in Handlers : pc[h] = "failed" /\ inc[h] # 0 =>
      /\ Live(cur[h]) => claims[cur[h]].uid # inc[h]
      /\ instances[cur[h]] # "none" => Live(cur[h])

(* A session whose TTL has run out is gone some day: a failed decommission *)
(* keeps the claim, and a later sweep finds it there.                      *)
ExpiredSessionEnds ==
  \A u \in 1 .. MaxUid : \A id \in Ids :
     (claims[id].uid = u /\ u \in elapsed) ~> (claims[id].uid # u)

(* "If deprovision fails the claim is kept and the next sweep retries"     *)
(* (docs/architecture.md:126): a session DELETE was asked for is gone some *)
(* day.                                                                    *)
AskedSessionEnds ==
  \A u \in 1 .. MaxUid : \A id \in Ids :
     (claims[id].uid = u /\ u \in asked) ~> (claims[id].uid # u)

(* The promises these goroutines keep between them (SessionContract), for  *)
(* clients that do not use an id again.                                    *)
LiveUids    == {claims[id].uid : id \in {i \in Ids : Live(i)}}
RelayUids   == {claims[id].uid : id \in {i \in Ids : Live(i) /\ claims[i].conn}}
OpeningUids == {inc[h] : h \in {g \in Handlers : Opening(g)}}

Contract == INSTANCE SessionContract WITH
  born    <- nextUid - 1,
  live    <- LiveUids,
  relay   <- RelayUids,
  opening <- OpeningUids,
  doomed  <- Doomed

KeepsContract == Contract!Spec
=============================================================================
