---------------------------- MODULE SessionRules ----------------------------
(***************************************************************************)
(* The pure decisions of the lifecycle-manager: the state of a session as  *)
(* derived from what Kubernetes reports (session/state.go), and the two    *)
(* halves of the suspend gate (sweeper/idle.go).  Times are in one unit,   *)
(* counted from an arbitrary start.                                        *)
(***************************************************************************)
EXTENDS Integers

CONSTANT Absent   \* a nil pointer, or a zero time.Time

ASSUME AbsentAssumption == Absent \notin Int

(* Derive; an operatingMode that is not set counts as Running.             *)
Derive(f) ==
  CASE f.terminating                               -> "Terminating"
    [] ~f.terminating /\ ~f.hasSandbox             -> "Pending"
    [] OTHER -> IF f.mode = "Suspended"
                THEN IF f.suspended THEN "Suspended" ELSE "Suspending"
                ELSE IF f.ready THEN "Ready" ELSE "Waking"

(* The facts sweepIdle and DecideIdle put together of a sandbox they read. *)
Facts(sb) == [terminating |-> FALSE, hasSandbox |-> TRUE, mode |-> sb.mode,
              ready |-> sb.ready, suspended |-> sb.suspended]

(* A sandbox nobody is about to stop or to start.                          *)
Settled(sb) == ~sb.suspended /\ Derive(Facts(sb)) = "Ready"

Later(a, b) == IF b > a THEN b ELSE a

(* Report.Busy.                                                            *)
Busy(report) == report.agents > 0 \/ report.sessions > 0

(* DecideIdle: every guard of the suspend gate but the cron's.             *)
DecideIdle(in) ==
  /\ in.idleTimeout > 0
  /\ in.sandbox # Absent
  /\ Settled(in.sandbox)
  /\ in.sandbox.readyChanged # Absent
  /\ in.now - in.sandbox.readyChanged >= in.idleTimeout
  /\ in.instance # Absent
  /\ ~in.instance.revoked
  /\ ~in.instance.turnInFlight
  /\ in.instance.lastIn # Absent /\ in.instance.lastOut # Absent
  /\ in.now - Later(in.instance.lastIn, in.instance.lastOut) >= in.idleTimeout
  /\ in.instance.buffered = 0
  /\ in.agentEnabled =>
       /\ in.agent # Absent /\ ~Busy(in.agent)
       /\ in.quietSince # Absent
       /\ in.now - in.quietSince >= in.idleTimeout

(* Mutant: the wake is scheduled for the fire itself.                      *)
DecideCronLate(nextFire, now, horizon, margin) ==
  IF nextFire = Absent
  THEN [ok |-> TRUE, wakeAt |-> Absent]
  ELSE [ok |-> nextFire - now > horizon,
        wakeAt |-> IF nextFire - now > horizon THEN nextFire ELSE Absent]

(* DecideCron: whether to suspend, and the wake to schedule if so.         *)
DecideCron(nextFire, now, horizon, margin) ==
  IF nextFire = Absent
  THEN [ok |-> TRUE, wakeAt |-> Absent]
  ELSE IF nextFire - now <= horizon
       THEN [ok |-> FALSE, wakeAt |-> Absent]
       ELSE [ok |-> TRUE, wakeAt |-> nextFire - margin]

(* Mutants: a busy agent does not stop the clock ...                       *)
TrackQuietBusy(since, report, now) ==
  IF report = Absent THEN Absent ELSE IF since # Absent THEN since ELSE now

(* ... and every quiet observation starts it again.                        *)
TrackQuietAnew(since, report, now) ==
  IF report = Absent \/ Busy(report) THEN Absent ELSE now

(* trackQuiet: the quiet clock after an observation.                       *)
TrackQuiet(since, report, now) ==
  IF report = Absent \/ Busy(report) THEN Absent
  ELSE IF since # Absent THEN since ELSE now
=============================================================================
