---------------------------- MODULE SleepContract ---------------------------
(***************************************************************************)
(* What the lifecycle-manager promises about the sleep of a session, with  *)
(* none of its calls, goroutines and faults: only a wake ends the sleep of *)
(* a session that is to be woken for a cron job, and the alarm set for it  *)
(* stays until then; a session is put to sleep only after its pod has been *)
(* there; and no restart leaves it asleep.  A suspension that a write may  *)
(* have met half way is promised nothing, but it is known as such.         *)
(***************************************************************************)

VARIABLES
  sleep,      \* "awake", or asleep: "free", "covered" by an alarm, "contested"
  alarm,      \* "none", or a wake scheduled "ahead", or "past"
  served,     \* the pod has been ready since the last wake
  writer,     \* who put the session to sleep or woke it: "wake", "sweep",
              \* "restart", or "botched" if a restart was cut off
  restarting, \* a restart has its second half to come
  meeting     \* writes and decisions to suspend overlap

promised == <<sleep, alarm, served, writer>>
vars     == <<promised, restarting, meeting>>

Init == /\ sleep = "awake"
        /\ alarm = "none"
        /\ served = FALSE
        /\ writer = "wake"
        /\ restarting = FALSE
        /\ meeting = FALSE

Wake == /\ sleep' = "awake"
        /\ writer' = "wake"
        /\ served' \in {FALSE, served}
        /\ UNCHANGED alarm

(* Suspending again what sleeps under an alarm keeps it covered, unless    *)
(* that is contested.                                                      *)
PutToSleep == /\ \/ sleep' = "contested" /\ (meeting \/ sleep = "contested")
                 \/ sleep' = "covered" /\ served /\ alarm # "none"
                 \/ sleep' = "free" /\ served /\ sleep # "covered"
              /\ writer' = "sweep"
              /\ UNCHANGED <<alarm, served>>

RestartSuspends == /\ sleep' = IF sleep = "awake" THEN "free" ELSE sleep
                   /\ writer' = "restart"
                   /\ UNCHANGED <<alarm, served>>

RestartFails == /\ writer = "restart"
                /\ writer' = "botched"
                /\ UNCHANGED <<sleep, alarm, served>>

PodReady == served' = TRUE /\ UNCHANGED <<sleep, alarm, writer>>

SetAlarm == alarm' = "ahead" /\ UNCHANGED <<sleep, served, writer>>

Ring == alarm = "ahead" /\ alarm' = "past" /\ UNCHANGED <<sleep, served, writer>>

ClearAlarm == /\ sleep # "covered"
              /\ alarm' = "none"
              /\ UNCHANGED <<sleep, served, writer>>

(* Any of these, or a step of the requests and sweeps under way.           *)
Step == \/ Wake \/ PutToSleep \/ RestartSuspends \/ RestartFails \/ PodReady
        \/ SetAlarm \/ Ring \/ ClearAlarm
        \/ UNCHANGED promised

Next == /\ Step
        /\ restarting' \in BOOLEAN
        /\ meeting' \in BOOLEAN
        /\ writer' = "restart" => restarting'

Spec == Init /\ [][Next]_vars
=============================================================================
