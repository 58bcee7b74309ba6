---------------------------- MODULE SuspendWake -----------------------------
(***************************************************************************)
(* Suspending and waking one session: the sweep loop (sweeper/runner.go,   *)
(* sweepWake and sweepIdle) against the HTTP requests that wake it and     *)
(* restart it (lifecycle/manager.go, Wake and Restart), all through two    *)
(* fields in Kubernetes, the operatingMode of the sandbox and the wake-at  *)
(* annotation of the claim, that any of them writes at any time.           *)
(*                                                                         *)
(* A step is one call to Kubernetes or to the pod.  What the idle gate     *)
(* makes of its inputs is left open here (module IdleGate has the clocks): *)
(* it may say yes whenever the sandbox it was shown is settled.            *)
(***************************************************************************)
EXTENDS SessionRules

CONSTANTS
  Handlers,         \* goroutines that serve /wake and /restart
  Sweepers,         \* goroutines that run the sweep loop
  FaultKinds,       \* which of AllFaults may happen
  MaxFaults         \* bound on the number of faults of a behaviour

AllFaults == {"k8s", "k8sLost", "crash", "node"}

Procs == Handlers \cup Sweepers

ASSUME ProcsAssumption == Handlers \cap Sweepers = {}
ASSUME FaultsAssumption == FaultKinds \subseteq AllFaults /\ MaxFaults \in Nat

VARIABLES
  mode,      \* the sandbox: spec.operatingMode
  pod,       \* the pod of the sandbox
  wakeAt,    \* the claim: a wake-at annotation, ahead or past
  faults,    \* number of faults so far
  pc,        \* the next call of each goroutine, or its reply
  saw,       \* the wake-at a goroutine read with the claim
  owed,      \* history: a sweep suspended the session with a cron fire ahead
  crossed,   \* history: a wake met the last suspension half way
  met,       \* history: sweeps that a write met since they read the sandbox
  lastWrite, \* history: who wrote the mode last
  served,    \* history: the pod has been ready since the last wake
  torn       \* history: requests whose restart found or made the pod stop

world   == <<mode, pod, wakeAt>>
local   == <<pc, saw>>
wakes   == <<owed, crossed, met>>
history == <<wakes, lastWrite, served, torn>>
vars    == <<world, faults, local, history>>

Decided == {"cron", "stamp", "stamped", "suspend"}
Calls   == {"get", "run", "clear", "rGet", "rSuspend", "rRun",
            "wake", "stale", "idle"} \cup Decided
RestartCalls == {"rGet", "rSuspend", "rRun"}
Replies == {"ok", "restarted", "failed"}

TypeOK ==
  /\ mode \in {"Running", "Suspended"}
  /\ pod \in {"booting", "ready", "stopping", "gone"}
  /\ wakeAt \in {"none", "ahead", "past"}
  /\ faults \in 0 .. MaxFaults
  /\ pc \in [Procs -> Calls \cup Replies \cup {"rest"}]
  /\ saw \in [Procs -> {"none", "ahead", "past"}]
  /\ owed \in BOOLEAN /\ crossed \in BOOLEAN
  /\ met \subseteq Sweepers
  /\ lastWrite \in {"wake", "sweep", "restart", "botched"}
  /\ served \in BOOLEAN
  /\ torn \subseteq Handlers

Init ==
  /\ mode = "Running"
  /\ pod = "booting"
  /\ wakeAt = "none"
  /\ faults = 0
  /\ pc = [p \in Procs |-> "rest"]
  /\ saw = [p \in Procs |-> "none"]
  /\ owed = FALSE
  /\ crossed = FALSE
  /\ met = {}
  /\ lastWrite = "wake"
  /\ served = FALSE
  /\ torn = {}

-----------------------------------------------------------------------------
(* Calls                                                                   *)

Fault(kind) == /\ kind \in FaultKinds
               /\ faults < MaxFaults
               /\ faults' = faults + 1

Answered   == UNCHANGED faults
Failed     == Fault("k8s")
AnswerLost == Fault("k8sLost")   \* the call was carried out all the same

Goto(p, call) == pc' = [pc EXCEPT ![p] = call]

(* What the controller reports of the sandbox.                             *)
Sandbox == [mode |-> mode, ready |-> pod = "ready", suspended |-> pod = "gone"]

(* A goroutine is done with the annotation it read.                        *)
Forget(p) == saw' = [saw EXCEPT ![p] = "none"]

(* The sweeps that a write finds between their look and their patch.       *)
Deciding == {s \in Sweepers : pc[s] \in Decided}

(* A sweep leaves the session for this time.                               *)
SweepOver(s) == Goto(s, "rest") /\ met' = met \ {s}

(* Where a goroutine goes on after Manager.Wake: a request is answered, a  *)
(* sweep goes on with sweepTTL and sweepIdle of the same claim.            *)
Woken(p, reply) == Goto(p, IF p \in Handlers THEN reply ELSE "idle")

(* The two writes, and the history they leave.                             *)
SetRunning == /\ mode' = "Running"
              /\ owed' = FALSE
              /\ crossed' = FALSE
              /\ met' = met \cup Deciding
              /\ lastWrite' = "wake"
              /\ served' = (pod = "ready")

(* Mutant: the annotation is emptied where it should be removed.           *)
EmptyWakeAt == /\ wakeAt' = ""
               /\ met' = met \cup Deciding

ClearWakeAt == /\ wakeAt' = "none"
               /\ met' = met \cup Deciding

-----------------------------------------------------------------------------
(* Manager.Wake, for GET|POST /wake/{session} and for sweepWake            *)

HandleWake(h) ==
  /\ pc[h] = "rest"
  /\ Goto(h, "get")
  /\ UNCHANGED <<world, faults, saw, history>>

WakeGet(p) ==
  /\ pc[p] = "get"
  /\ \/ Answered /\ saw' = [saw EXCEPT ![p] = wakeAt] /\ Goto(p, "run")
     \/ Failed /\ UNCHANGED saw /\ Woken(p, "failed")
  /\ UNCHANGED <<world, history>>

(* Mutant: the schedule is cleared whether or not the sandbox was patched. *)
WakeRunBlind(p) ==
  /\ pc[p] = "run"
  /\ \/ (Answered \/ AnswerLost) /\ SetRunning
     \/ Failed /\ UNCHANGED <<mode, wakes, lastWrite, served>>
  /\ IF saw[p] # "none" THEN Goto(p, "clear") ELSE Woken(p, "ok")
  /\ Forget(p)
  /\ UNCHANGED <<pod, wakeAt, torn>>

WakeRun(p) ==
  /\ pc[p] = "run"
  /\ \/ /\ Answered
        /\ SetRunning
        /\ IF saw[p] # "none" THEN Goto(p, "clear") ELSE Woken(p, "ok")
     \/ AnswerLost /\ SetRunning /\ Woken(p, "failed")
     \/ Failed /\ Woken(p, "failed") /\ UNCHANGED <<mode, wakes, lastWrite, served>>
  /\ Forget(p)
  /\ UNCHANGED <<pod, wakeAt, torn>>

(* Best effort, and whatever the annotation says by now.                   *)
WakeClear(p) ==
  /\ pc[p] = "clear"
  /\ \/ (Answered \/ AnswerLost) /\ ClearWakeAt
     \/ Failed /\ UNCHANGED <<wakeAt, met>>
  /\ Woken(p, "ok")
  /\ UNCHANGED <<mode, pod, saw, owed, crossed, lastWrite, served, torn>>

-----------------------------------------------------------------------------
(* Manager.Restart, for POST /v1/sessions/{id}/restart                     *)

HandleRestart(h) ==
  /\ pc[h] = "rest"
  /\ Goto(h, "rGet")
  /\ torn' = IF pod \in {"stopping", "gone"} THEN torn \cup {h} ELSE torn
  /\ UNCHANGED <<world, faults, saw, wakes, lastWrite, served>>

RestartGet(h) ==
  /\ pc[h] = "rGet"
  /\ \/ Answered /\ Goto(h, "rSuspend")
     \/ Failed /\ Goto(h, "failed")
  /\ UNCHANGED <<world, saw, history>>

(* Mutant: an error of this half ends the restart.                         *)
RestartSuspendStrict(h) ==
  /\ pc[h] = "rSuspend"
  /\ \/ /\ Answered \/ AnswerLost
        /\ mode' = "Suspended" /\ lastWrite' = "restart"
     \/ Failed /\ UNCHANGED <<mode, lastWrite>>
  /\ Goto(h, IF faults' = faults THEN "rRun" ELSE "failed")
  /\ UNCHANGED <<pod, wakeAt, saw, wakes, served, torn>>

(* The error of this half is ignored.                                      *)
RestartSuspend(h) ==
  /\ pc[h] = "rSuspend"
  /\ \/ /\ Answered \/ AnswerLost
        /\ mode' = "Suspended" /\ lastWrite' = "restart"
     \/ Failed /\ UNCHANGED <<mode, lastWrite>>
  /\ Goto(h, "rRun")
  /\ UNCHANGED <<pod, wakeAt, saw, wakes, served, torn>>

RestartRun(h) ==
  /\ pc[h] = "rRun"
  /\ \/ /\ Answered
        /\ SetRunning
        /\ Goto(h, "restarted")
     \/ AnswerLost /\ SetRunning /\ Goto(h, "failed")
     \/ /\ Failed /\ Goto(h, "failed")
        /\ lastWrite' = IF lastWrite = "restart" THEN "botched" ELSE lastWrite
        /\ UNCHANGED <<mode, wakes, served>>
  /\ UNCHANGED <<pod, wakeAt, saw, torn>>

Answer(h) ==
  /\ pc[h] \in Replies
  /\ Goto(h, "rest")
  /\ torn' = torn \ {h}
  /\ UNCHANGED <<world, faults, saw, wakes, lastWrite, served>>

-----------------------------------------------------------------------------
(* Runner.sweep of this session                                            *)

(* ListClaims, and "now": the annotation the rest of the sweep works from. *)
SweepList(s) ==
  /\ pc[s] = "rest"
  /\ \/ /\ Answered
        /\ saw' = [saw EXCEPT ![s] = wakeAt]
        /\ Goto(s, IF wakeAt = "none" THEN "idle" ELSE "wake")
     \/ Failed /\ UNCHANGED <<saw, pc>>
  /\ UNCHANGED <<world, history>>

(* Mutant: a sandbox whose pod is still stopping is taken for running.     *)
SweepWakeHasty(s) ==
  /\ pc[s] = "wake"
  /\ \/ /\ Answered
        /\ Goto(s, IF ~Sandbox.suspended THEN "stale"
                   ELSE IF saw[s] = "past" THEN "get" ELSE "idle")
     \/ Failed /\ Goto(s, "idle")
  /\ Forget(s)
  /\ UNCHANGED <<world, history>>

(* sweepWake: a sandbox that runs makes the schedule stale; one that does  *)
(* not is woken once the schedule is due.                                  *)
SweepWake(s) ==
  /\ pc[s] = "wake"
  /\ \/ /\ Answered
        /\ Goto(s, IF ~Sandbox.suspended /\ Sandbox.mode # "Suspended" THEN "stale"
                   ELSE IF saw[s] = "past" THEN "get" ELSE "idle")
     \/ Failed /\ Goto(s, "idle")
  /\ Forget(s)
  /\ UNCHANGED <<world, history>>

ClearStale(s) ==
  /\ pc[s] = "stale"
  /\ \/ (Answered \/ AnswerLost) /\ ClearWakeAt
     \/ Failed /\ UNCHANGED <<wakeAt, met>>
  /\ Goto(s, "idle")
  /\ UNCHANGED <<mode, pod, saw, owed, crossed, lastWrite, served, torn>>

(* Mutant: the gate looks at the mode alone, not at the Ready condition.   *)
SweepIdleUnready(s) ==
  /\ pc[s] = "idle"
  /\ \/ Answered /\ Goto(s, "rest")
     \/ Answered /\ mode = "Running" /\ Goto(s, "cron")
     \/ Failed /\ Goto(s, "rest")
  /\ UNCHANGED <<world, saw, history>>

(* sweepIdle reads the sandbox; if it is settled the other guards may pass.*)
SweepIdle(s) ==
  /\ pc[s] = "idle"
  /\ \/ Answered /\ Goto(s, "rest")
     \/ Answered /\ Settled(Sandbox) /\ Goto(s, "cron")
     \/ Failed /\ Goto(s, "rest")
  /\ UNCHANGED <<world, saw, history>>

(* The cron gate asks the pod: an unreadable schedule and a fire that is   *)
(* near put the suspension off, a fire further off needs a wake scheduled. *)
(* Without status polling nothing is asked, and nothing is scheduled.      *)
SweepCron(s) ==
  /\ pc[s] = "cron"
  /\ \/ SweepOver(s)
     \/ /\ \/ Goto(s, "suspend")
           \/ pod = "ready" /\ Goto(s, "stamp")
        /\ UNCHANGED met
  /\ UNCHANGED <<world, faults, saw, owed, crossed, lastWrite, served, torn>>

(* Mutant: a schedule that could not be written is only logged.            *)
SweepStampLax(s) ==
  /\ pc[s] = "stamp"
  /\ \/ (Answered \/ AnswerLost) /\ wakeAt' = "ahead"
     \/ Failed /\ UNCHANGED wakeAt
  /\ Goto(s, "stamped")
  /\ UNCHANGED <<mode, pod, saw, history>>

(* The schedule goes onto the claim before the session goes to sleep.      *)
SweepStamp(s) ==
  /\ pc[s] = "stamp"
  /\ \/ Answered /\ wakeAt' = "ahead" /\ Goto(s, "stamped") /\ UNCHANGED met
     \/ AnswerLost /\ wakeAt' = "ahead" /\ SweepOver(s)
     \/ Failed /\ UNCHANGED wakeAt /\ SweepOver(s)
  /\ UNCHANGED <<mode, pod, saw, owed, crossed, lastWrite, served, torn>>

SweepSuspend(s) ==
  /\ pc[s] \in {"stamped", "suspend"}
  /\ \/ /\ Answered \/ AnswerLost
        /\ mode' = "Suspended"
        /\ lastWrite' = "sweep"
        /\ owed' = (pc[s] = "stamped" \/ (owed /\ mode = "Suspended"))
        /\ crossed' = \/ s \in met
                      \/ \E p \in Procs : pc[p] \in {"clear", "stale"}
                      \/ crossed /\ owed /\ mode = "Suspended"
     \/ Failed /\ UNCHANGED <<mode, lastWrite, owed, crossed>>
  /\ SweepOver(s)
  /\ UNCHANGED <<pod, wakeAt, saw, served, torn>>

-----------------------------------------------------------------------------
(* The world around the manager                                            *)

(* The sandbox controller works towards the mode it finds.                 *)
PodStop == /\ mode = "Suspended"
           /\ pod \in {"booting", "ready"}
           /\ pod' = "stopping"
           /\ torn' = torn \cup {h \in Handlers : pc[h] \in RestartCalls}
           /\ UNCHANGED <<mode, wakeAt, faults, local, wakes, lastWrite, served>>

PodGone == /\ pod = "stopping"
           /\ pod' = "gone"
           /\ UNCHANGED <<mode, wakeAt, faults, local, history>>

PodStart == /\ mode = "Running"
            /\ pod = "gone"
            /\ pod' = "booting"
            /\ UNCHANGED <<mode, wakeAt, faults, local, history>>

PodReady == /\ pod = "booting"
            /\ pod' = "ready"
            /\ served' = TRUE
            /\ UNCHANGED <<mode, wakeAt, faults, local, wakes, lastWrite, torn>>

NodeLost == /\ pod = "ready"
            /\ Fault("node")
            /\ pod' = "booting"
            /\ torn' = torn \cup {h \in Handlers : pc[h] \in RestartCalls}
            /\ UNCHANGED <<mode, wakeAt, local, wakes, lastWrite, served>>

WakeTimeComes == /\ wakeAt = "ahead"
                 /\ wakeAt' = "past"
                 /\ UNCHANGED <<mode, pod, faults, local, history>>

(* The goroutines of one process, or of both while one replaces the other. *)
Crash == \E dead \in SUBSET Procs :
  /\ Fault("crash")
  /\ pc' = [p \in Procs |-> IF p \in dead THEN "rest" ELSE pc[p]]
  /\ saw' = [p \in Procs |-> IF p \in dead THEN "none" ELSE saw[p]]
  /\ met' = met \ dead
  /\ lastWrite' = IF lastWrite = "restart" /\ \A h \in Handlers \ dead : pc[h] # "rRun"
                  THEN "botched" ELSE lastWrite
  /\ torn' = torn \ dead
  /\ UNCHANGED <<world, owed, crossed, served>>

-----------------------------------------------------------------------------
Wake(p) == WakeGet(p) \/ WakeRun(p) \/ WakeClear(p)

Serve(h) == Wake(h) \/ RestartGet(h) \/ RestartSuspend(h) \/ RestartRun(h) \/ Answer(h)

Sweep(s) == \/ SweepList(s) \/ SweepWake(s) \/ ClearStale(s) \/ Wake(s)
            \/ SweepIdle(s) \/ SweepCron(s) \/ SweepStamp(s) \/ SweepSuspend(s)

Controller == PodStop \/ PodGone \/ PodStart \/ PodReady

Next ==
  \/ \E h \in Handlers : HandleWake(h) \/ HandleRestart(h) \/ Serve(h)
  \/ \E s \in Sweepers : Sweep(s)
  \/ Controller \/ NodeLost
  \/ WakeTimeComes
  \/ Crash

Spec == Init /\ [][Next]_vars

(* Every goroutine runs, the sweep comes round, the controller reconciles  *)
(* and time passes.  Requests and faults need not happen, and the idle gate*)
(* need not ever say yes.                                                  *)
Fairness ==
  /\ \A h \in Handlers : WF_vars(Serve(h))
  /\ \A s \in Sweepers : WF_vars(Sweep(s))
  /\ WF_vars(Controller)
  /\ WF_vars(WakeTimeComes)

FairSpec == Spec /\ Fairness
-----------------------------------------------------------------------------
(* Properties                                                              *)

(* "If the annotation write fails we must not suspend (the cron would be   *)
(* lost - fail closed)" (runner.go:208): a session put to sleep with a cron*)
(* fire ahead has a wake scheduled, for as long as it sleeps.              *)
CronCovered == owed /\ mode = "Suspended" => wakeAt # "none"

(* ... which holds through failed and lost calls, crashes, restarts, lost  *)
(* nodes and the second sweep loop of a rolling update, but for a          *)
(* suspension that a write met half way: one that came between the sweep's *)
(* look at the sandbox and its patch, or a clearing still to come then.    *)
CronCoveredAlone == owed /\ mode = "Suspended" /\ ~crossed => wakeAt # "none"

(* A wake that was answered gets the pod it asked for: a sweep that puts   *)
(* the session back to sleep before its pod was ever ready decided before  *)
(* the wake came (sweepIdle patches without looking again, runner.go:218). *)
UndoneOnlyHalfWay == lastWrite = "sweep" /\ ~crossed => served

(* "A failed suspend half means the sandbox was already not running, which *)
(* wake alone still recovers from" (manager.go:216): no restart leaves a   *)
(* session asleep unless its second half failed or was never sent.         *)
RestartEndsAwake ==
  lastWrite = "restart" => \E h \in Handlers : pc[h] = "rRun"

(* "The controller tears the pod down and recreates it fresh"              *)
(* (manager.go:212): by the time a restart is answered with success, its   *)
(* pod has been stopped, or was down when the request came.                *)
RestartRestarts == \A h \in Handlers : pc[h] = "restarted" => h \in torn

(* A session put to sleep with a cron fire ahead is awake again some day,  *)
(* whatever calls fail: the annotation outlives failed wakes and crashes.  *)
CronSuspensionEnds == (owed /\ ~crossed) ~> ~owed

(* These goroutines keep between them the promises of SleepContract: what  *)
(* is under an alarm is woken by a wake alone and loses its alarm to none, *)
(* in whatever order the calls of requests, restarts and sweeps come.      *)
SleepState == IF mode = "Running" THEN "awake"
              ELSE IF crossed THEN "contested"
              ELSE IF owed THEN "covered" ELSE "free"

Restarting == \E h \in Handlers : pc[h] = "rRun"

Meeting == met # {} \/ \E p \in Procs : pc[p] \in {"clear", "stale"}

Sleep == INSTANCE SleepContract WITH
  sleep      <- SleepState,
  alarm      <- wakeAt,
  writer     <- lastWrite,
  restarting <- Restarting,
  meeting    <- Meeting

KeepsSleepContract == Sleep!Spec
=============================================================================
