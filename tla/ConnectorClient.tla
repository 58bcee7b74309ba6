-------------------------- MODULE ConnectorClient ---------------------------
(***************************************************************************)
(* The lifecycle-manager's way to the relay connector: the client that     *)
(* stops calling after a 429 (connector/http.go, do) and the short cache of*)
(* the instance list in front of it (lifecycle/manager.go, Instances and   *)
(* invalidateInstances).  HTTP handlers and the sweep share both, each     *)
(* behind a mutex that is never held during a request.                     *)
(* Reachable, which only GET /status asks, is left out: it sends no token  *)
(* and goes past the throttle on purpose (connector/http.go:47-49), so that*)
(* it opens no window and none keeps it back.                              *)
(***************************************************************************)
EXTENDS Integers, FiniteSets

CONSTANTS
  Procs,     \* goroutines: handlers and the sweep
  Window,    \* throttleWindow (65 s)
  CacheTTL,  \* instanceCacheTTL (5 s)
  Timeout,   \* timeout of an http request (15 s)
  MaxTime,   \* bound on time
  Absent     \* nil, and the zero time

ASSUME ClientAssumption == /\ {Window, CacheTTL, Timeout} \subseteq Nat \ {0}
                           /\ MaxTime \in Nat
                           /\ Absent \notin Int
                           /\ IsFiniteSet(Procs) /\ Procs # {}

VARIABLES
  now,             \* the time
  throttledUntil,  \* client: no call before this time
  cached,          \* cache: when the connector made the cached list, if any
  cachedAt,        \* cache: instancesAt
  pc,              \* where each goroutine's call is
  kind,            \* "list", or "write" for one that changes instances
  sentAt,          \* when its request set out
  made,            \* when the connector handled it
  given,           \* age of the list a caller of Instances was given
  late             \* history: requests the connector got since the window opened

shared == <<throttledUntil, cached, cachedAt>>
call   == <<pc, kind, sentAt, made, given>>
vars   == <<now, shared, call, late>>

Time == 0 .. MaxTime

TypeOK ==
  /\ now \in Time
  /\ throttledUntil \in 0 .. MaxTime + Window
  /\ cached \in 0 .. now \cup {Absent}
  /\ cachedAt \in 0 .. now
  /\ pc \in [Procs -> {"idle", "gate", "sent", "ok", "refused"}]
  /\ kind \in [Procs -> {"list", "write"}]
  /\ sentAt \in [Procs -> 0 .. now]
  /\ made \in [Procs -> 0 .. now]
  /\ given \in [Procs -> Time \cup {Absent}]
  /\ late \in Nat

Init ==
  /\ now = 0
  /\ throttledUntil = 0
  /\ cached = Absent
  /\ cachedAt = 0
  /\ pc = [p \in Procs |-> "idle"]
  /\ kind = [p \in Procs |-> "list"]
  /\ sentAt = [p \in Procs |-> 0]
  /\ made = [p \in Procs |-> 0]
  /\ given = [p \in Procs |-> Absent]
  /\ late = 0

Goto(p, place) == pc' = [pc EXCEPT ![p] = place]

Give(p, age) == given' = [given EXCEPT ![p] = age]

(* A call that is over leaves nothing behind but what it was given.        *)
Rest(p) == /\ Goto(p, "idle")
           /\ kind' = [kind EXCEPT ![p] = "list"]
           /\ sentAt' = [sentAt EXCEPT ![p] = 0]
           /\ made' = [made EXCEPT ![p] = 0]

Open == now < throttledUntil
-----------------------------------------------------------------------------
(* Mutant: a cached list does not go stale.                                *)
FreshAlways == cached # Absent

(* Manager.Instances, as far as the cache.                                 *)
Fresh == cached # Absent /\ now - cachedAt < CacheTTL

Instances(p) ==
  /\ pc[p] = "idle"
  /\ IF Fresh
     THEN Give(p, now - cached) /\ UNCHANGED pc
     ELSE Give(p, Absent) /\ Goto(p, "gate")
  /\ UNCHANGED <<now, shared, kind, sentAt, made, late>>

(* Provision, SetRoute or DeleteInstance.                                  *)
Write(p) ==
  /\ pc[p] = "idle"
  /\ kind' = [kind EXCEPT ![p] = "write"]
  /\ Give(p, Absent)
  /\ Goto(p, "gate")
  /\ UNCHANGED <<now, shared, sentAt, made, late>>

(* Mutant: the client only notices the window and calls all the same.      *)
GateOpen(p) ==
  /\ pc[p] = "gate"
  /\ Goto(p, "sent")
  /\ sentAt' = [sentAt EXCEPT ![p] = now]
  /\ UNCHANGED <<kind, made>>
  /\ UNCHANGED <<now, shared, given, late>>

(* do, up to c.http.Do: the window is checked and the mutex let go.        *)
Gate(p) ==
  /\ pc[p] = "gate"
  /\ IF Open
     THEN Rest(p)
     ELSE /\ Goto(p, "sent")
          /\ sentAt' = [sentAt EXCEPT ![p] = now]
          /\ UNCHANGED <<kind, made>>
  /\ UNCHANGED <<now, shared, given, late>>

(* The connector handles the request, or throttles it.                     *)
Handle(p) ==
  /\ pc[p] = "sent"
  /\ \E answer \in {"ok", "refused"} : Goto(p, answer)
  /\ made' = [made EXCEPT ![p] = now]
  /\ late' = IF Open THEN late + 1 ELSE late
  /\ UNCHANGED <<now, shared, kind, sentAt, given>>

(* Mutant: the cache is stamped with the time it expires.                  *)
FinishAhead(p) ==
  /\ pc[p] = "ok" /\ kind[p] = "list"
  /\ cached' = made[p]
  /\ cachedAt' = now + CacheTTL
  /\ Give(p, now - made[p])
  /\ Rest(p)
  /\ UNCHANGED <<now, throttledUntil, late>>

(* do and its callers, once the answer is there: a list goes into the      *)
(* cache; the last write of a create and the purge of a delete empty it,   *)
(* while a rollback, a chat binding and a 404 leave it; a 429 opens the    *)
(* window.                                                                 *)
Finish(p) ==
  /\ \/ /\ pc[p] = "ok" /\ kind[p] = "list"
        /\ cached' = made[p]
        /\ cachedAt' = now
        /\ Give(p, now - made[p])
        /\ UNCHANGED <<throttledUntil, late>>
     \/ /\ pc[p] = "ok" /\ kind[p] = "write"
        /\ \/ cached' = Absent /\ cachedAt' = 0
           \/ UNCHANGED <<cached, cachedAt>>
        /\ UNCHANGED <<throttledUntil, given, late>>
     \/ /\ pc[p] = "refused"
        /\ throttledUntil' = now + Window
        /\ late' = IF Open THEN late ELSE 0
        /\ UNCHANGED <<cached, cachedAt, given>>
  /\ Rest(p)
  /\ UNCHANGED now

(* Any other failure, and a request that timed out or was cancelled, whose *)
(* answer, a 429 even, nobody reads.                                       *)
Fail(p) ==
  /\ pc[p] \in {"sent", "ok", "refused"}
  /\ Rest(p)
  /\ UNCHANGED <<now, shared, given, late>>

(* The manager restarts: the window and the cache are in memory.           *)
Restart ==
  /\ throttledUntil' = 0
  /\ cached' = Absent
  /\ cachedAt' = 0
  /\ pc' = [p \in Procs |-> "idle"]
  /\ kind' = [p \in Procs |-> "list"]
  /\ sentAt' = [p \in Procs |-> 0]
  /\ made' = [p \in Procs |-> 0]
  /\ given' = [p \in Procs |-> Absent]
  /\ late' = 0
  /\ UNCHANGED now

(* What a caller was given is looked at right away; no request outlasts    *)
(* its timeout.                                                            *)
Tick ==
  /\ now < MaxTime
  /\ \A p \in Procs : pc[p] \in {"sent", "ok", "refused"} => now - sentAt[p] < Timeout
  /\ now' = now + 1
  /\ given' = [p \in Procs |-> Absent]
  /\ UNCHANGED <<shared, pc, kind, sentAt, made, late>>

Next == \/ \E p \in Procs : \/ Instances(p) \/ Write(p) \/ Gate(p)
                            \/ Handle(p) \/ Finish(p) \/ Fail(p)
        \/ Restart
        \/ Tick

Spec == Init /\ [][Next]_vars
-----------------------------------------------------------------------------
(* Properties                                                              *)

(* "Any 429 short-circuits all calls for the throttle window"              *)
(* (docs/architecture.md:149).  What the connector still gets is what had  *)
(* passed the check before: from each of the other goroutines one request, *)
(* then none until the window is over, even if their own 429s extend it.   *)
WindowIsShut == late <= Cardinality(Procs) - 1

(* However requests and writes overtake each other, nobody decides on an   *)
(* instance list older than a request may take and the cache may keep it.  *)
NeverTooOld == \A p \in Procs : given[p] # Absent => given[p] < Timeout + CacheTTL
=============================================================================
