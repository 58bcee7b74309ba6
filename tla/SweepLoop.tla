----------------------------- MODULE SweepLoop -----------------------------
(***************************************************************************)
(* One sweep over all sessions (sweeper/runner.go, Run and sweep): claim   *)
(* after claim in the order of the list, under one deadline (cycleTimeout) *)
(* for all of them, with one "now".  A pod that answers late, or not at    *)
(* all, costs the claims behind it their time; once the deadline is past   *)
(* every call fails.  A purge may fail at any time, and keeps the claim for*)
(* the next sweep.  The calls to Kubernetes take no time here and do not   *)
(* fail before the deadline; requests that end or wake a session between   *)
(* two steps of a sweep are in SessionLifecycle and SuspendWake, and what  *)
(* an agent does is in IdleGate.                                           *)
(***************************************************************************)
EXTENDS SessionRules

CONSTANTS
  Sessions,     \* number of session ids; a list has them in their order
  Cycle,        \* cycleTimeout (30 s)
  Fetch,        \* timeout of a call to the connector (15 s)
  Poll,         \* HLM_STATUS_TIMEOUT: that of a request to a pod
  Interval,     \* HLM_SWEEP_INTERVAL, jitter included
  IdleTimeout,  \* effective idle timeout
  WakeAfter,    \* how far ahead a suspension schedules its wake
  Asked,        \* values of ttlSeconds in requests
  Default,      \* HLM_TTL
  Half,         \* a time.Duration is below this (2^63 of its units)
  Second,       \* its units to a second (10^9)
  MaxClaims,    \* bound on the number of claims ever made
  MaxTime       \* bound on time

Ids  == 1 .. Sessions
Time == 0 .. MaxTime

ASSUME SizesAssumption == {Sessions, Interval, IdleTimeout, Half, Second} \subseteq Nat \ {0}
ASSUME TimesAssumption == /\ {Cycle, Fetch, Poll, Default, MaxClaims, MaxTime} \subseteq Nat
                          /\ WakeAfter \subseteq Nat /\ Asked \subseteq Int

VARIABLES
  now,         \* the time
  claim,       \* id: creationTimestamp and ttl-seconds annotation
  made,        \* number of claims ever made
  readyAt,     \* id: since when its pod is ready
  wakeAt,      \* id: wake-at annotation of a session that sleeps
  quietSince,  \* id: the quiet clock
  listed,      \* sweep: the ids in its list
  next,        \* sweep: the id whose turn is next, past the last one at rest
  started,     \* sweep: when it started, or when the last one ended
  sweptAt,     \* sweep: its "now"
  putOff       \* history, id: when its last purge failed, 0 = it did not

sandbox  == <<readyAt, wakeAt>>
sweep    == <<quietSince, listed, next, started, sweptAt>>
vars     == <<now, claim, made, sandbox, sweep, putOff>>

AtRest == next > Sessions

Claim == [born : Time, ttl : Asked \cup {Absent}]

TypeOK ==
  /\ now \in Time
  /\ claim \in [Ids -> Claim \cup {Absent}]
  /\ made \in 0 .. MaxClaims
  /\ readyAt \in [Ids -> 0 .. now \cup {Absent}]
  /\ wakeAt \in [Ids -> Nat \cup {Absent}]
  /\ quietSince \in [Ids -> 0 .. now \cup {Absent}]
  /\ listed \subseteq Ids
  /\ next \in 1 .. Sessions + 1
  /\ started \in 0 .. now /\ sweptAt \in 0 .. now
  /\ putOff \in [Ids -> 0 .. now]

Nothing == [i \in Ids |-> Absent]

Init ==
  /\ now = 0
  /\ claim = Nothing /\ readyAt = Nothing /\ wakeAt = Nothing /\ quietSince = Nothing
  /\ listed = {} /\ made = 0
  /\ next = Sessions + 1
  /\ started = 0
  /\ sweptAt = 0
  /\ putOff = [i \in Ids |-> 0]

-----------------------------------------------------------------------------
(* Sessions; an id may be used again                                       *)

(* Mutant: the annotation is written in the units of a time.Duration.      *)
CreateNanos(i) ==
  /\ claim[i] = Absent
  /\ made < MaxClaims /\ made' = made + 1
  /\ \E t \in Asked : claim' = [claim EXCEPT ![i] = [born |-> now, ttl |-> t * Second]]
  /\ UNCHANGED <<now, sandbox, sweep, putOff>>

Create(i) ==
  /\ claim[i] = Absent
  /\ made < MaxClaims /\ made' = made + 1
  /\ \E t \in Asked \cup {Absent} : claim' = [claim EXCEPT ![i] = [born |-> now, ttl |-> t]]
  /\ UNCHANGED <<now, sandbox, sweep, putOff>>

Awake == {i \in Ids : claim[i] # Absent /\ wakeAt[i] = Absent}

PodReady(i) ==
  /\ i \in Awake /\ readyAt[i] = Absent
  /\ readyAt' = [readyAt EXCEPT ![i] = now]
  /\ UNCHANGED <<now, claim, made, wakeAt, sweep, putOff>>

-----------------------------------------------------------------------------
(* The sweep                                                               *)

(* Two's complement, in the width of a time.Duration.                      *)
Wrap(n) == ((n + Half) % (2 * Half)) - Half

(* Mutant: a TTL of 0 means the default, as if none was asked for.         *)
EffectiveDurationNoZero(annotation, def) ==
  IF annotation = Absent \/ annotation \notin Nat \/ annotation = 0 THEN def * Second
  ELSE Wrap(annotation * Second)

(* effectiveDuration; a negative annotation counts as none.                *)
EffectiveDuration(annotation, def) ==
  IF annotation = Absent \/ annotation \notin Nat THEN def * Second
  ELSE Wrap(annotation * Second)

Late(t) == t >= started + Cycle

(* The time on return from a call that takes d, the deadline cuts it short.*)
After(t, d) == IF Late(t + d) THEN Later(t, started + Cycle) ELSE t + d

(* ListClaims and Instances, and the sweep's "now".                        *)
SweepStart ==
  /\ AtRest /\ now \in {0, started + Interval}
  /\ listed' = {i \in Ids : claim[i] # Absent}
  /\ now' \in {now, now + (IF Fetch < Cycle THEN Fetch ELSE Cycle)} \cap Time
  /\ started' = now
  /\ sweptAt' = now'
  /\ next' = 1
  /\ UNCHANGED <<claim, made, sandbox, quietSince, putOff>>

(* Mutant: the comparison is the wrong way round.                          *)
DueAhead(i) == wakeAt[i] # Absent /\ sweptAt < wakeAt[i]

(* sweepWake.                                                              *)
Due(i) == wakeAt[i] # Absent /\ sweptAt >= wakeAt[i]

(* sweepTTL.                                                               *)
Expired(i) == LET limit == EffectiveDuration(claim[i].ttl, Default)
              IN limit > 0 /\ (sweptAt - claim[i].born) * Second >= limit

(* Mutant: the HTTP client has no timeout of its own.                      *)
RequestTimesUnlimited == 0 .. Cycle

(* How long a request to a pod may take.                                   *)
RequestTimes == 0 .. Poll

Quiet == [agents |-> 0, sessions |-> 0]
Working == [agents |-> 1, sessions |-> 0]

(* A poll that takes its full time has failed.                             *)
Polled(t, d) == IF d = Poll \/ Late(t + d) THEN {Absent} ELSE {Absent, Quiet, Working}

(* The relay is silent, the gate is up to the pod.                         *)
Idle(i, report, quiet) ==
  DecideIdle([idleTimeout |-> IdleTimeout,
              sandbox  |-> [mode |-> "Running", ready |-> TRUE, suspended |-> FALSE,
                            readyChanged |-> readyAt[i]],
              instance |-> [revoked |-> FALSE, turnInFlight |-> FALSE, buffered |-> 0,
                            lastIn |-> readyAt[i], lastOut |-> readyAt[i]],
              now |-> sweptAt, agentEnabled |-> TRUE, agent |-> report, quietSince |-> quiet])

(* One turn of the loop: sweepWake, sweepTTL with its purge, sweepIdle with*)
(* its poll of the pod and, if it is idle, the three requests for its cron *)
(* schedule.  The sandbox of a session that has just been ended is there   *)
(* for as long, and may be polled and suspended, or gone already.          *)
Wakes(i) == Due(i) /\ ~Late(now)

PurgeTimes(i) == IF Expired(i) /\ ~Late(now) THEN {0, Fetch} ELSE {0}

(* The connector gives its answer to the purge, before it times out.       *)
Answers(i, purge) == Expired(i) /\ purge < Fetch /\ ~Late(now + purge)

(* The claim goes only after a purge that was not refused and did not fail.*)
Ends(i, purge) == IF Answers(i, purge) THEN BOOLEAN ELSE {FALSE}

(* A purge fails for another reason than the sweep's own deadline.         *)
PutsOff(i, purge, ends) == Expired(i) /\ ~Late(now + purge) /\ ~ends

TreatIdle(i, ends, settled, report, t) ==
  LET quiet == TrackQuiet(quietSince[i], report, sweptAt)
      idle  == settled /\ Idle(i, report, quiet)
  IN
  \E d \in IF idle THEN {3 * r : r \in RequestTimes} ELSE {0} :
    /\ now' = After(t, d) /\ now' \in Time
    /\ quietSince' = [quietSince EXCEPT ![i] = quiet]
    /\ claim' = [claim EXCEPT ![i] = IF ends THEN Absent ELSE @]
    /\ \/ /\ idle /\ ~Late(now') /\ ~ends
          /\ readyAt' = [readyAt EXCEPT ![i] = Absent]
          /\ \E f \in WakeAfter : wakeAt' = [wakeAt EXCEPT ![i] = sweptAt + f]
       \/ /\ readyAt' = [readyAt EXCEPT ![i] = IF ends THEN Absent ELSE @]
          /\ wakeAt' = [wakeAt EXCEPT ![i] = IF Wakes(i) \/ ends THEN Absent ELSE @]

Treat(i) ==
  \E purge \in PurgeTimes(i) : \E ends \in Ends(i, purge) :
  LET start == After(now, purge)
  IN
  /\ putOff' = [putOff EXCEPT ![i] = IF ends THEN 0
                                     ELSE IF PutsOff(i, purge, ends) THEN start ELSE @]
  /\ \E settled \in {readyAt[i] # Absent /\ ~Late(start)} \cup (IF ends THEN {FALSE} ELSE {}) :
     \E d \in IF settled THEN RequestTimes ELSE {0} :
     \E report \in IF settled THEN Polled(start, d) ELSE {Absent} :
       TreatIdle(i, ends, settled, report, After(start, d))

(* pruneQuiet comes last, for the names that were not listed.              *)
SweepNext ==
  /\ ~AtRest
  /\ IF next \in listed
     THEN Treat(next)
     ELSE /\ quietSince' = [quietSince EXCEPT ![next] = Absent]
          /\ UNCHANGED <<now, claim, sandbox, putOff>>
  /\ next' = next + 1
  /\ listed' = listed \ {next}
  /\ started' = IF next = Sessions THEN now' ELSE started
  /\ UNCHANGED <<made, sweptAt>>

(* The sweep comes round in time, and pods are ready within a tick.        *)
Tick == /\ AtRest /\ now < started + Interval
        /\ \A i \in Awake : readyAt[i] # Absent
        /\ now' = now + 1 /\ now' \in Time
        /\ UNCHANGED <<claim, made, sandbox, sweep, putOff>>

Next == \/ \E i \in Ids : Create(i) \/ PodReady(i)
        \/ SweepStart \/ SweepNext \/ Tick

Spec == Init /\ [][Next]_vars
-----------------------------------------------------------------------------
(* Properties                                                              *)

(* What a request means: ttlSeconds, or the default; 0 is no end at all.   *)
Promised(i) == IF claim[i].ttl \in Nat THEN claim[i].ttl ELSE Default

(* A session outlives the ttlSeconds it was created with, and one with 0   *)
(* never ends by itself ("ttlSeconds: ... 0 = immortal", docs/api.md:18):  *)
(* the units and the width of the duration do not show.                    *)
NeverTooEarly ==
  [][\A i \in Ids : claim[i] # Absent /\ claim'[i] = Absent
       => Promised(i) > 0 /\ now - claim[i].born >= Promised(i)]_vars

(* ... if all of them fit into a time.Duration.                            *)
Fits == \A t \in {a \in Asked : a \in Nat} \cup {Default} : t * Second < Half

(* However slow the pods are whose turn comes first, a sweep that is over  *)
(* has left no session that was past its TTL as it began, but one whose    *)
(* purge failed (manager.go:231), if what all pods may cost stays below the*)
(* deadline of a sweep (runner.go:67).                                     *)
EndsInTime ==
  AtRest => \A i \in Ids : claim[i] # Absent /\ Promised(i) > 0 =>
              sweptAt < claim[i].born + Promised(i) \/ sweptAt <= putOff[i]

(* Nor does it leave one asleep that was past its wake-at.                 *)
AwakeInTime == AtRest => \A i \in Ids : wakeAt[i] # Absent => sweptAt <= wakeAt[i]

(* In time: a session outlives its TTL, and the failure of its last purge, *)
(* or sleeps past its wake-at, for this at most.                           *)
InTime == Interval + 2 * Cycle

EndDue(i) == Later(claim[i].born + Promised(i), putOff[i])

BoundedDelay ==
  \A i \in Ids :
    /\ claim[i] # Absent /\ Promised(i) > 0 => now - EndDue(i) <= InTime
    /\ wakeAt[i] # Absent => now - wakeAt[i] <= InTime
=============================================================================
