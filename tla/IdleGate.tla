------------------------------ MODULE IdleGate ------------------------------
(***************************************************************************)
(* When the sweep suspends a session, and when it wakes it again: the      *)
(* clocks of sweeper/runner.go (sweepWake, sweepIdle, trackQuiet) and      *)
(* sweeper/idle.go (DecideIdle, DecideCron) against what its agent really  *)
(* does.  Time passes in ticks.  Within one, a sweep lists claims and      *)
(* instances, wakes the session if its wake is due, polls its pod, reads   *)
(* its cron schedule, stamps the wake and suspends it: a step each, with   *)
(* messages, turns, cron jobs and restarts in between.  Requests that meet *)
(* a suspension half way are the subject of SuspendWake, and so are failed *)
(* calls to Kubernetes and the calls of a wake; the session here is one    *)
(* with a connector block and no TTL.                                      *)
(***************************************************************************)
EXTENDS SessionRules

CONSTANTS
  IdleTimeout,    \* effective idle timeout of the session
  Interval,       \* a sweep starts at least this often (HLM_SWEEP_INTERVAL)
  Horizon,        \* HLM_IDLE_HORIZON
  Margin,         \* HLM_WAKE_BOOT_MARGIN
  StatusEnabled,  \* HLM_STATUS_ENABLED: the sweep polls the pod (Idle v2)
  CronConfigured, \* HLM_STATUS_USERNAME and _PASSWORD are set
  Recency,        \* agent: how long a session counts as active (300 s)
  Boot,           \* a pod is ready this long after its sandbox runs
  FireAfter,      \* how far ahead the agent may schedule a cron job
  Outages,        \* which of AllOutages may happen, at any time
  MaxGap,         \* bound on the time sweeps go without an instance list
  MaxTime         \* bound on time

AllOutages == {"instances", "status", "activity", "restart"}

ASSUME TimesAssumption == /\ {IdleTimeout, Interval, Horizon, Margin, Recency, Boot, MaxTime}
                               \subseteq Nat \ {0}
                          /\ MaxGap \in Nat
                          /\ FireAfter \subseteq Nat \ {0}
                          /\ StatusEnabled \in BOOLEAN /\ CronConfigured \in BOOLEAN
                          /\ Outages \subseteq AllOutages

(* Load refuses a configuration that schedules wakes inside the margin.    *)
Load == StatusEnabled => Horizon >= Margin

ASSUME LoadAssumption == Load

VARIABLES
  now,         \* the time
  mode,        \* the sandbox: spec.operatingMode
  pod,         \* the pod of the sandbox
  since,       \* when it took this state (the Ready condition's transition)
  wakeAt,      \* the claim: its wake-at annotation
  relay,       \* connector: time of the last message in or out, if known
  turn,        \* connector and agent: a turn is in flight
  buffered,    \* connector: a message waits for the session
  active,      \* agent: time of its last activity of any kind
  nextFire,    \* agent: its earliest cron fire
  pc,          \* the sweep: to start at once, resting, or its next call
  sweptAt,     \* sweep: its "now"
  anno,        \* sweep: wake-at of the claim it listed
  inst,        \* sweep: the instance it listed; Absent = no list
  quietSince,  \* sweep: the quiet clock
  plan,        \* sweep: the wake it is about to stamp
  listedAt,    \* history: the last sweep that had an instance list
  upset,       \* history: the last outage that held a suspension up
  worked,      \* history: the agent's last work as a sweep last saw it up
  fresh,       \* history: the turn in flight began after that
  unread       \* history: the cron fire was set after the schedule was read

sandbox == <<mode, pod, since, wakeAt>>
gateway == <<relay, turn, buffered>>
agent   == <<active, nextFire>>
sweep   == <<pc, sweptAt, anno, inst, quietSince, plan>>
history == <<listedAt, upset, worked, fresh, unread>>
vars    == <<now, sandbox, gateway, agent, sweep, history>>

Time == 0 .. MaxTime

Instance == [revoked : {FALSE}, turnInFlight : BOOLEAN, lastIn : Time \cup {Absent},
             lastOut : Time \cup {Absent}, buffered : {0, 1}]

SandboxRead == [mode : {"Running", "Suspended"}, ready : BOOLEAN, suspended : BOOLEAN,
                readyChanged : Time]

ASSUME NilAssumption == Absent \notin Instance /\ Absent \notin SandboxRead

TypeOK ==
  /\ now \in Time
  /\ mode \in {"Running", "Suspended"}
  /\ pod \in {"booting", "ready", "gone"}
  /\ since \in 0 .. now
  /\ wakeAt \in Int \cup {Absent}
  /\ relay \in 0 .. now \cup {Absent}
  /\ turn \in BOOLEAN /\ buffered \in BOOLEAN
  /\ active \in 0 .. now
  /\ nextFire \in Nat \cup {Absent}
  /\ pc \in {"start", "rest", "listed", "idle", "cron", "stamp", "suspend"}
  /\ sweptAt \in 0 .. now
  /\ anno \in Int \cup {Absent}
  /\ inst \in Instance \cup {Absent}
  /\ quietSince \in 0 .. now \cup {Absent}
  /\ plan \in Int \cup {Absent}
  /\ listedAt \in 0 .. now /\ upset \in 0 .. now /\ worked \in 0 .. now
  /\ fresh \in BOOLEAN /\ unread \in BOOLEAN

Init ==
  /\ now = 0
  /\ mode = "Running"
  /\ pod = "booting"
  /\ since = 0
  /\ wakeAt = Absent
  /\ relay = Absent
  /\ turn = FALSE
  /\ buffered = FALSE
  /\ active = 0
  /\ nextFire = Absent
  /\ pc = "start"
  /\ sweptAt = 0
  /\ anno = Absent
  /\ inst = Absent
  /\ quietSince = Absent
  /\ plan = Absent
  /\ listedAt = 0
  /\ upset = 0
  /\ worked = 0
  /\ fresh = FALSE
  /\ unread = FALSE

-----------------------------------------------------------------------------
(* The session: its pod, the messages it gets and what its agent does      *)

PodStop == /\ mode = "Suspended" /\ pod # "gone"
           /\ pod' = "gone"
           /\ since' = now
           /\ turn' = FALSE
           /\ fresh' = FALSE
           /\ UNCHANGED <<now, mode, wakeAt, relay, buffered, agent, sweep, listedAt, upset,
                          worked, unread>>

PodStart == /\ mode = "Running" /\ pod = "gone"
            /\ pod' = "booting"
            /\ since' = now
            /\ UNCHANGED <<now, mode, wakeAt, gateway, agent, sweep, history>>

PodReady == /\ mode = "Running" /\ pod = "booting"
            /\ pod' = "ready"
            /\ since' = now
            /\ active' = now
            /\ UNCHANGED <<now, mode, wakeAt, gateway, nextFire, sweep, history>>

(* A message that finds the gateway up, be it about to be stopped, or one  *)
(* that waited for it.                                                     *)
TurnStarts == /\ pod = "ready" /\ ~turn
              /\ turn' = TRUE
              /\ buffered' = FALSE
              /\ relay' = now
              /\ active' = now
              /\ fresh' = TRUE
              /\ UNCHANGED <<now, sandbox, nextFire, sweep, listedAt, upset, worked, unread>>

TurnEnds == /\ turn
            /\ turn' = FALSE
            /\ relay' = now
            /\ active' = now
            /\ fresh' = FALSE
            /\ UNCHANGED <<now, sandbox, buffered, nextFire, sweep, listedAt, upset, worked,
                           unread>>

(* A message for a session that sleeps is buffered, and pokes /wake.       *)
Message == /\ pod = "gone"
           /\ buffered' = TRUE
           /\ mode' = "Running"
           /\ wakeAt' = Absent
           /\ UNCHANGED <<now, pod, since, relay, turn, agent, sweep, history>>

(* Work the connector does not see: a desktop chat, perhaps one that sets  *)
(* up a cron job, which a sweep that has read the schedule does not know.  *)
Work == /\ pod = "ready"
        /\ active' = now
        /\ nextFire' \in {nextFire} \cup {now + d : d \in FireAfter}
        /\ unread' = IF nextFire' = nextFire THEN unread
                     ELSE pc \in {"stamp", "suspend"} \/ mode = "Suspended"
        /\ UNCHANGED <<now, sandbox, gateway, sweep, listedAt, upset, worked, fresh>>

(* A job is run when it is due, or as the pod comes up.                    *)
Fires == pod = "ready" /\ nextFire # Absent /\ nextFire <= now

CronFires == /\ Fires
             /\ active' = now
             /\ nextFire' = Absent
             /\ unread' = FALSE
             /\ UNCHANGED <<now, sandbox, gateway, sweep, listedAt, upset, worked, fresh>>

(* The connector restarts and forgets the activity it has seen.            *)
ActivityLost == /\ "activity" \in Outages
                /\ relay' = Absent
                /\ UNCHANGED <<now, sandbox, turn, buffered, agent, sweep, history>>

-----------------------------------------------------------------------------
(* The sweep                                                               *)

Listed == [revoked |-> FALSE, turnInFlight |-> turn, lastIn |-> relay, lastOut |-> relay,
           buffered |-> IF buffered THEN 1 ELSE 0]

Sandbox == [mode |-> mode, ready |-> pod = "ready", suspended |-> pod = "gone",
            readyChanged |-> since]

(* /api/status; an unreachable pod reports nothing.                        *)
Status == [agents |-> IF turn THEN 1 ELSE 0,
           sessions |-> IF now - active < Recency THEN 1 ELSE 0]

(* ListClaims and Instances, at startup and then at most once a tick.      *)
SweepList ==
  /\ pc = "start" \/ (pc = "rest" /\ sweptAt < now)
  /\ pc' = "listed"
  /\ sweptAt' = now
  /\ anno' = wakeAt
  /\ \/ inst' = Listed /\ listedAt' = now
     \/ /\ "instances" \in Outages
        /\ now - listedAt < MaxGap
        /\ inst' = Absent
        /\ UNCHANGED listedAt
  /\ UNCHANGED <<now, sandbox, gateway, agent, quietSince, plan, upset, worked, fresh, unread>>

(* sweepWake: a session whose wake is due is woken, and the stamp of one   *)
(* that is up is cleared.  Without an instance list sweepIdle stops before *)
(* it has looked at anything.                                              *)
Awake(sb) == ~sb.suspended /\ sb.mode # "Suspended"

Due == anno # Absent /\ ~Awake(Sandbox) /\ sweptAt >= anno

SweepWake ==
  /\ pc = "listed"
  /\ mode' = IF Due THEN "Running" ELSE mode
  /\ wakeAt' = IF anno # Absent /\ (Awake(Sandbox) \/ Due) THEN Absent ELSE wakeAt
  /\ anno' = Absent
  /\ IF inst = Absent THEN pc' = "rest" /\ upset' = now
                      ELSE pc' = "idle" /\ UNCHANGED upset
  /\ UNCHANGED <<now, pod, since, gateway, agent, sweptAt, inst, quietSince, plan, listedAt,
                 worked, fresh, unread>>

(* sweepIdle: the observation of the agent, the clock and the gate.        *)
Observed == IF StatusEnabled /\ Settled(Sandbox) THEN {Status} ELSE {}

(* Mutant: the gate is not told that the agent is polled.                  *)
InputUnpolled(report, quiet) ==
  [idleTimeout  |-> IdleTimeout,
   sandbox      |-> Sandbox,
   instance     |-> inst,
   now          |-> sweptAt,
   agentEnabled |-> FALSE,
   agent        |-> report,
   quietSince   |-> quiet]

Input(report, quiet) ==
  [idleTimeout  |-> IdleTimeout,
   sandbox      |-> Sandbox,
   instance     |-> inst,
   now          |-> sweptAt,
   agentEnabled |-> StatusEnabled,
   agent        |-> report,
   quietSince   |-> quiet]

(* Without credentials the cron guard is skipped.                          *)
CronGuarded == StatusEnabled /\ CronConfigured

(* Mutant: the clock keeps the end of the idle timeout, not its start.     *)
SweepIdleDeadline(report) ==
  LET quiet == IF StatusEnabled THEN TrackQuiet(quietSince, report, sweptAt + IdleTimeout)
               ELSE Absent
  IN /\ quietSince' = quiet
     /\ pc' = "rest"
     /\ UNCHANGED upset

SweepIdle(report) ==
  LET quiet == IF StatusEnabled THEN TrackQuiet(quietSince, report, sweptAt) ELSE Absent
      idle  == DecideIdle(Input(report, quiet))
  IN /\ quietSince' = quiet
     /\ pc' = IF ~idle THEN "rest" ELSE IF CronGuarded THEN "cron" ELSE "suspend"
     /\ upset' = IF Observed # {} /\ report = Absent THEN now ELSE upset

(* The sandbox is read and the pod polled in one step: until the sweep's   *)
(* own patch nobody stops a pod that is up, and one that is not is not     *)
(* polled.                                                                 *)
SweepPoll ==
  /\ pc = "idle"
  /\ \/ \E report \in Observed : SweepIdle(report)
     \/ /\ Observed = {} \/ "status" \in Outages
        /\ SweepIdle(Absent)
  /\ inst' = Absent
  /\ worked' = IF ~Settled(Sandbox) THEN worked ELSE IF turn THEN now ELSE active
  /\ fresh' = (fresh /\ ~Settled(Sandbox))
  /\ UNCHANGED <<now, sandbox, gateway, agent, sweptAt, anno, plan, listedAt, unread>>

(* The cron gate: an unreadable schedule puts the suspension off.          *)
SweepCron ==
  /\ pc = "cron"
  /\ LET cron == DecideCron(nextFire, sweptAt, Horizon, Margin)
     IN \/ /\ plan' = cron.wakeAt
           /\ pc' = IF ~cron.ok THEN "rest" ELSE IF cron.wakeAt = Absent THEN "suspend"
                                                                       ELSE "stamp"
           /\ unread' = FALSE
           /\ UNCHANGED upset
        \/ /\ "status" \in Outages
           /\ pc' = "rest"
           /\ upset' = now
           /\ UNCHANGED <<plan, unread>>
  /\ UNCHANGED <<now, sandbox, gateway, agent, sweptAt, anno, inst, quietSince, listedAt,
                 worked, fresh>>

SweepStamp ==
  /\ pc = "stamp"
  /\ wakeAt' = plan
  /\ pc' = "suspend"
  /\ UNCHANGED <<now, mode, pod, since, gateway, agent, sweptAt, anno, inst, quietSince, plan,
                 history>>

SweepSuspend ==
  /\ pc = "suspend"
  /\ mode' = "Suspended"
  /\ plan' = Absent
  /\ pc' = "rest"
  /\ UNCHANGED <<now, pod, since, wakeAt, gateway, agent, sweptAt, anno, inst, quietSince,
                 history>>

(* The manager restarts, and sweeps at once.                               *)
Restart ==
  /\ "restart" \in Outages
  /\ pc' = "start"
  /\ upset' = now
  /\ anno' = Absent
  /\ inst' = Absent
  /\ quietSince' = Absent
  /\ plan' = Absent
  /\ UNCHANGED <<now, sandbox, gateway, agent, sweptAt, listedAt, worked, fresh, unread>>

-----------------------------------------------------------------------------
(* Nothing of the following outlasts a tick: a sweep, the controller's     *)
(* reaction to a new mode, and the start of a cron job that is due; a sweep*)
(* and a boot end in time.                                                 *)
Tick ==
  /\ now < MaxTime
  /\ pc = "rest"
  /\ now - sweptAt < Interval
  /\ mode = "Suspended" <=> pod = "gone"
  /\ pod = "booting" => now - since < Boot
  /\ ~Fires
  /\ now' = now + 1
  /\ UNCHANGED <<sandbox, gateway, agent, sweep, history>>

Next == \/ PodStop \/ PodStart \/ PodReady
        \/ TurnStarts \/ TurnEnds \/ Message \/ Work \/ CronFires \/ ActivityLost
        \/ SweepList \/ SweepWake \/ SweepPoll \/ SweepCron \/ SweepStamp \/ SweepSuspend
        \/ Restart
        \/ Tick

Spec == Init /\ [][Next]_vars
-----------------------------------------------------------------------------
(* Properties                                                              *)

Suspends == mode = "Running" /\ mode' = "Suspended"

(* A session is suspended only if, when the sweep looked at it, its agent  *)
(* had not worked for IdleTimeout, seen by the connector or not ("the LM   *)
(* has observed continuous agent quiet for the full idle timeout",         *)
(* idle.go:48).  The samples of the agent leave no gap for as long as      *)
(* sweeps with an instance list come more often than the agent forgets its *)
(* activity; sweeps without one take no sample, and leave the clock        *)
(* running.  What the agent begins between that look and the patch         *)
(* (runner.go:181-218) is in nobody's sight.                               *)
SuspendsOnlyQuiet == [][Suspends => now - worked >= IdleTimeout]_vars

(* Of "never mid-turn" (idle.go:27) this is what the code keeps: a turn    *)
(* that a suspension cuts off has begun after the sweep polled the pod,    *)
(* however old its instance list was, and whatever restarts meanwhile.     *)
CutsOnlyNewTurns == [][turn /\ pod # "gone" /\ pod' = "gone" => fresh]_vars

(* A session that nobody uses does go to sleep, unless its cron keeps it   *)
(* up, in bounded time from its last activity and the last outage: no quiet*)
(* clock is held back or started over for long (runner.go:233).            *)
IdleLimit == 2 * Interval + IdleTimeout + Recency

Unused == /\ mode = "Running" /\ pod = "ready"
          /\ ~turn /\ ~buffered /\ nextFire = Absent /\ relay # Absent

Disturbed == Later(Later(since, active), upset)

SuspendedInTime == Unused => now - Disturbed <= IdleLimit

(* "The gateway is up when cron ticks" (idle.go:106): no fire is missed,   *)
(* whether the session slept until shortly before or not, but for those    *)
(* set up after the sweep that suspends has read the schedule              *)
(* (runner.go:195-218).                                                    *)
CronServed == nextFire # Absent /\ ~unread => nextFire >= now
=============================================================================
