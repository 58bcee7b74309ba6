------------------------- MODULE SuspendWake_proofs -------------------------
(***************************************************************************)
(* Proofs about SuspendWake, for every number of requests in flight and    *)
(* of sweeps and faults: the type invariant, that no cron and no wake is   *)
(* lost but to a write that meets a suspension half way, and that restarts *)
(* do not leave a session asleep.                                          *)
(***************************************************************************)
EXTENDS SuspendWake, TLAPS

-----------------------------------------------------------------------------
(* The inductive invariant behind CronCoveredAlone                         *)

(* Nobody is about to clear the wake of a session that sleeps on it, and a *)
(* sweep that nobody met suspends with the schedule in place.              *)
StampInv ==
  /\ owed => mode = "Suspended"
  /\ owed /\ ~crossed =>
       /\ wakeAt # "none"
       /\ \A p \in Procs : pc[p] # "clear"
       /\ \A s \in Sweepers : pc[s] # "stale"
  /\ \A s \in Sweepers : pc[s] = "stamped" /\ s \notin met => wakeAt # "none"

(* ... and behind UndoneOnlyHalfWay: whoever has decided to suspend saw a  *)
(* pod that was ready, and a wake since then has met it.                   *)
ServedInv ==
  /\ pod = "ready" => served
  /\ \A s \in Sweepers : pc[s] \in Decided /\ s \notin met => served
  /\ UndoneOnlyHalfWay

(* ... and behind KeepsSleepContract, besides these two.                   *)
ContestedInv == crossed => mode = "Suspended"

-----------------------------------------------------------------------------
(* Every step keeps the variables in their types.                          *)
LEMMA NextTypeOK == TypeOK /\ [Next]_vars => TypeOK'
<1> SUFFICES ASSUME TypeOK, [Next]_vars PROVE TypeOK'
  OBVIOUS
<1> USE DEF TypeOK, Calls, Replies, Procs, Goto, Decided, world, local, wakes, history
<1>a. Answered \/ Failed \/ AnswerLost \/ Fault("node") \/ Fault("crash")
         => faults' \in 0 .. MaxFaults
  BY FaultsAssumption DEF Fault, Answered, Failed, AnswerLost
<1>1. ASSUME NEW h \in Handlers, HandleWake(h) PROVE TypeOK'
  BY <1>1, <1>a DEF HandleWake
<1>2. ASSUME NEW h \in Handlers, HandleRestart(h) PROVE TypeOK'
  BY <1>2, <1>a DEF HandleRestart
<1>3. ASSUME NEW p \in Procs, WakeGet(p) PROVE TypeOK'
  BY <1>3, <1>a DEF WakeGet, Woken
<1>4. ASSUME NEW p \in Procs, WakeRun(p) PROVE TypeOK'
  BY <1>4, <1>a DEF WakeRun, Woken, SetRunning, Forget, Deciding
<1>5. ASSUME NEW p \in Procs, WakeClear(p) PROVE TypeOK'
  BY <1>5, <1>a DEF WakeClear, Woken, ClearWakeAt, Deciding
<1>6. ASSUME NEW h \in Handlers, RestartGet(h) PROVE TypeOK'
  BY <1>6, <1>a DEF RestartGet
<1>7. ASSUME NEW h \in Handlers, RestartSuspend(h) PROVE TypeOK'
  BY <1>7, <1>a DEF RestartSuspend
<1>8. ASSUME NEW h \in Handlers, RestartRun(h) PROVE TypeOK'
  BY <1>8, <1>a DEF RestartRun, SetRunning, Deciding
<1>9. ASSUME NEW h \in Handlers, Answer(h) PROVE TypeOK'
  BY <1>9, <1>a DEF Answer, Replies
<1>10. ASSUME NEW s \in Sweepers, SweepList(s) PROVE TypeOK'
  BY <1>10, <1>a DEF SweepList
<1>11. ASSUME NEW s \in Sweepers, SweepWake(s) PROVE TypeOK'
  BY <1>11, <1>a DEF SweepWake, Forget
<1>12. ASSUME NEW s \in Sweepers, ClearStale(s) PROVE TypeOK'
  BY <1>12, <1>a DEF ClearStale, ClearWakeAt, Deciding
<1>13. ASSUME NEW s \in Sweepers, SweepIdle(s) PROVE TypeOK'
  BY <1>13, <1>a DEF SweepIdle
<1>14. ASSUME NEW s \in Sweepers, SweepCron(s) PROVE TypeOK'
  BY <1>14, <1>a DEF SweepCron, SweepOver
<1>15. ASSUME NEW s \in Sweepers, SweepStamp(s) PROVE TypeOK'
  BY <1>15, <1>a DEF SweepStamp, SweepOver
<1>16. ASSUME NEW s \in Sweepers, SweepSuspend(s) PROVE TypeOK'
  BY <1>16, <1>a DEF SweepSuspend, SweepOver
<1>17. ASSUME PodStop PROVE TypeOK'
  BY <1>17, <1>a DEF PodStop
<1>18. ASSUME PodGone PROVE TypeOK'
  BY <1>18, <1>a DEF PodGone
<1>19. ASSUME PodStart PROVE TypeOK'
  BY <1>19, <1>a DEF PodStart
<1>20. ASSUME PodReady PROVE TypeOK'
  BY <1>20, <1>a DEF PodReady
<1>21. ASSUME NodeLost PROVE TypeOK'
  BY <1>21, <1>a DEF NodeLost
<1>22. ASSUME WakeTimeComes PROVE TypeOK'
  BY <1>22, <1>a DEF WakeTimeComes
<1>23. ASSUME Crash PROVE TypeOK'
  BY <1>23, <1>a DEF Crash
<1>24. ASSUME UNCHANGED vars PROVE TypeOK'
  BY <1>24 DEF vars
<1> QED
  BY <1>1, <1>2, <1>3, <1>4, <1>5, <1>6, <1>7, <1>8, <1>9, <1>10, <1>11, <1>12, <1>13, <1>14, <1>15, <1>16, <1>17, <1>18, <1>19, <1>20, <1>21, <1>22, <1>23, <1>24
     DEF Next, Serve, Sweep, Wake, Controller, Procs

(* The variables start in their types.                                     *)
LEMMA InitTypeOK == Init => TypeOK
<1> SUFFICES ASSUME Init PROVE TypeOK
  OBVIOUS
<1>1. faults \in 0 .. MaxFaults
  BY FaultsAssumption DEF Init
<1>2. /\ pc \in [Procs -> Calls \cup Replies \cup {"rest"}]
      /\ saw \in [Procs -> {"none", "ahead", "past"}]
  BY DEF Init
<1> QED
  BY <1>1, <1>2 DEF Init, TypeOK

(* The variables of the protocol never leave their types.                  *)
THEOREM TypeCorrect == Spec => []TypeOK
  BY InitTypeOK, NextTypeOK, PTL DEF Spec

(* Every step keeps the schedule of a session that sleeps on it in place.  *)
LEMMA NextStampInv == TypeOK /\ StampInv /\ [Next]_vars => StampInv'
<1> SUFFICES ASSUME TypeOK, StampInv, [Next]_vars PROVE StampInv'
  OBVIOUS
<1> USE DEF TypeOK, StampInv, Procs, Goto, Decided, world, local, wakes, history
<1>b. Handlers \cap Sweepers = {}
  BY ProcsAssumption
<1>1. ASSUME NEW h \in Handlers, HandleWake(h) PROVE StampInv'
  BY <1>1, <1>b DEF HandleWake
<1>2. ASSUME NEW h \in Handlers, HandleRestart(h) PROVE StampInv'
  BY <1>2, <1>b DEF HandleRestart
<1>3. ASSUME NEW p \in Procs, WakeGet(p) PROVE StampInv'
  BY <1>3, <1>b DEF WakeGet, Woken
<1>4. ASSUME NEW p \in Procs, WakeRun(p) PROVE StampInv'
  BY <1>4, <1>b DEF WakeRun, Woken, SetRunning, Forget, Deciding
<1>5. ASSUME NEW p \in Procs, WakeClear(p) PROVE StampInv'
  BY <1>5, <1>b DEF WakeClear, Woken, ClearWakeAt, Deciding
<1>6. ASSUME NEW h \in Handlers, RestartGet(h) PROVE StampInv'
  BY <1>6, <1>b DEF RestartGet
<1>7. ASSUME NEW h \in Handlers, RestartSuspend(h) PROVE StampInv'
  BY <1>7, <1>b DEF RestartSuspend
<1>8. ASSUME NEW h \in Handlers, RestartRun(h) PROVE StampInv'
  BY <1>8, <1>b DEF RestartRun, SetRunning, Deciding
<1>9. ASSUME NEW h \in Handlers, Answer(h) PROVE StampInv'
  BY <1>9, <1>b DEF Answer, Replies
<1>10. ASSUME NEW s \in Sweepers, SweepList(s) PROVE StampInv'
  BY <1>10, <1>b DEF SweepList
<1>11. ASSUME NEW s \in Sweepers, SweepWake(s) PROVE StampInv'
  <2>1. pc'[s] = "stale" => mode # "Suspended"
    BY <1>11 DEF SweepWake, Sandbox, Forget
  <2> QED
    BY <1>11, <2>1, <1>b DEF SweepWake, Forget
<1>12. ASSUME NEW s \in Sweepers, ClearStale(s) PROVE StampInv'
  BY <1>12, <1>b DEF ClearStale, ClearWakeAt, Deciding
<1>13. ASSUME NEW s \in Sweepers, SweepIdle(s) PROVE StampInv'
  <2>1. Settled(Sandbox) => mode # "Suspended"
    BY DEF Settled, Facts, Derive, Sandbox
  <2> QED
    BY <1>13, <2>1, <1>b DEF SweepIdle
<1>14. ASSUME NEW s \in Sweepers, SweepCron(s) PROVE StampInv'
  BY <1>14, <1>b DEF SweepCron, SweepOver
<1>15. ASSUME NEW s \in Sweepers, SweepStamp(s) PROVE StampInv'
  BY <1>15, <1>b DEF SweepStamp, SweepOver
<1>16. ASSUME NEW s \in Sweepers, SweepSuspend(s) PROVE StampInv'
  <2>1. CASE UNCHANGED <<mode, lastWrite, owed, crossed>>
    BY <1>16, <2>1, <1>b DEF SweepSuspend, SweepOver
  <2>2. CASE /\ mode' = "Suspended"
             /\ owed' = (pc[s] = "stamped" \/ (owed /\ mode = "Suspended"))
             /\ crossed' = \/ s \in met
                           \/ \E p \in Procs : pc[p] \in {"clear", "stale"}
                           \/ crossed /\ owed /\ mode = "Suspended"
    <3>1. owed' /\ ~crossed' => wakeAt # "none"
      BY <1>16, <2>2 DEF SweepSuspend
    <3>2. \A p \in Procs : pc'[p] = IF p = s THEN "rest" ELSE pc[p]
      BY <1>16, <1>b DEF SweepSuspend, SweepOver
    <3>3. ~crossed' => \A p \in Procs : pc'[p] \notin {"clear", "stale"}
      BY <2>2, <3>2
    <3> QED
      BY <1>16, <2>2, <3>1, <3>2, <3>3 DEF SweepSuspend, SweepOver
  <2> QED
    BY <1>16, <2>1, <2>2 DEF SweepSuspend
<1>17. ASSUME PodStop PROVE StampInv'
  BY <1>17, <1>b DEF PodStop
<1>18. ASSUME PodGone PROVE StampInv'
  BY <1>18, <1>b DEF PodGone
<1>19. ASSUME PodStart PROVE StampInv'
  BY <1>19, <1>b DEF PodStart
<1>20. ASSUME PodReady PROVE StampInv'
  BY <1>20, <1>b DEF PodReady
<1>21. ASSUME NodeLost PROVE StampInv'
  BY <1>21, <1>b DEF NodeLost
<1>22. ASSUME WakeTimeComes PROVE StampInv'
  BY <1>22, <1>b DEF WakeTimeComes
<1>23. ASSUME Crash PROVE StampInv'
  BY <1>23, <1>b DEF Crash
<1>24. ASSUME UNCHANGED vars PROVE StampInv'
  BY <1>24 DEF vars
<1> QED
  BY <1>1, <1>2, <1>3, <1>4, <1>5, <1>6, <1>7, <1>8, <1>9, <1>10, <1>11, <1>12, <1>13, <1>14, <1>15, <1>16, <1>17, <1>18, <1>19, <1>20, <1>21, <1>22, <1>23, <1>24
     DEF Next, Serve, Sweep, Wake, Controller, Procs

(* A session put to sleep with a cron fire ahead keeps the wake scheduled  *)
(* for it, whatever fails, whoever restarts or wakes it and however many   *)
(* sweep loops run, unless a write met that very suspension half way.      *)
THEOREM CronKept == Spec => []CronCoveredAlone
<1>1. Init => StampInv
  BY DEF Init, StampInv, Procs
<1>2. TypeOK /\ StampInv /\ [Next]_vars => StampInv'
  BY NextStampInv
<1>3. StampInv => CronCoveredAlone
  BY DEF StampInv, CronCoveredAlone
<1> QED
  BY <1>1, <1>2, <1>3, TypeCorrect, PTL DEF Spec

(* Every step keeps a wake either served or known to the sweeps under way. *)
LEMMA NextServedInv == TypeOK /\ ServedInv /\ [Next]_vars => ServedInv'
<1> SUFFICES ASSUME TypeOK, ServedInv, [Next]_vars PROVE ServedInv'
  OBVIOUS
<1> USE DEF TypeOK, ServedInv, UndoneOnlyHalfWay, Procs, Goto, Decided, world, local, wakes, history
<1>b. Handlers \cap Sweepers = {}
  BY ProcsAssumption
<1>1. ASSUME NEW h \in Handlers, HandleWake(h) PROVE ServedInv'
  BY <1>1, <1>b DEF HandleWake
<1>2. ASSUME NEW h \in Handlers, HandleRestart(h) PROVE ServedInv'
  BY <1>2, <1>b DEF HandleRestart
<1>3. ASSUME NEW p \in Procs, WakeGet(p) PROVE ServedInv'
  BY <1>3, <1>b DEF WakeGet, Woken
<1>4. ASSUME NEW p \in Procs, WakeRun(p) PROVE ServedInv'
  BY <1>4, <1>b DEF WakeRun, Woken, SetRunning, Forget, Deciding
<1>5. ASSUME NEW p \in Procs, WakeClear(p) PROVE ServedInv'
  BY <1>5, <1>b DEF WakeClear, Woken, ClearWakeAt, Deciding
<1>6. ASSUME NEW h \in Handlers, RestartGet(h) PROVE ServedInv'
  BY <1>6, <1>b DEF RestartGet
<1>7. ASSUME NEW h \in Handlers, RestartSuspend(h) PROVE ServedInv'
  BY <1>7, <1>b DEF RestartSuspend
<1>8. ASSUME NEW h \in Handlers, RestartRun(h) PROVE ServedInv'
  BY <1>8, <1>b DEF RestartRun, SetRunning, Deciding
<1>9. ASSUME NEW h \in Handlers, Answer(h) PROVE ServedInv'
  BY <1>9, <1>b DEF Answer, Replies
<1>10. ASSUME NEW s \in Sweepers, SweepList(s) PROVE ServedInv'
  BY <1>10, <1>b DEF SweepList
<1>11. ASSUME NEW s \in Sweepers, SweepWake(s) PROVE ServedInv'
  BY <1>11, <1>b DEF SweepWake, Forget
<1>12. ASSUME NEW s \in Sweepers, ClearStale(s) PROVE ServedInv'
  BY <1>12, <1>b DEF ClearStale, ClearWakeAt, Deciding
<1>13. ASSUME NEW s \in Sweepers, SweepIdle(s) PROVE ServedInv'
  <2>1. Settled(Sandbox) => served
    BY DEF Settled, Facts, Derive, Sandbox
  <2> QED
    BY <1>13, <2>1, <1>b DEF SweepIdle
<1>14. ASSUME NEW s \in Sweepers, SweepCron(s) PROVE ServedInv'
  BY <1>14, <1>b DEF SweepCron, SweepOver
<1>15. ASSUME NEW s \in Sweepers, SweepStamp(s) PROVE ServedInv'
  BY <1>15, <1>b DEF SweepStamp, SweepOver
<1>16. ASSUME NEW s \in Sweepers, SweepSuspend(s) PROVE ServedInv'
  <2>1. \A t \in Sweepers : pc'[t] \in Decided => t # s /\ pc[t] \in Decided
    BY <1>16, <1>b DEF SweepSuspend, SweepOver
  <2>2. served' = served /\ pod' = pod /\ met' = met \ {s}
    BY <1>16 DEF SweepSuspend, SweepOver
  <2>3. lastWrite' = "sweep" /\ ~crossed' => served
    <3>1. pc[s] \in Decided
      BY <1>16 DEF SweepSuspend
    <3>2. CASE UNCHANGED <<mode, lastWrite, owed, crossed>>
      BY <3>2
    <3>3. CASE crossed' = \/ s \in met
                          \/ \E p \in Procs : pc[p] \in {"clear", "stale"}
                          \/ crossed /\ owed /\ mode = "Suspended"
      <4>1. ~crossed' => s \notin met
        BY <3>3
      <4> QED
        BY <3>1, <4>1
    <3> QED
      BY <1>16, <3>2, <3>3 DEF SweepSuspend
  <2> QED
    BY <2>1, <2>2, <2>3
<1>17. ASSUME PodStop PROVE ServedInv'
  BY <1>17, <1>b DEF PodStop
<1>18. ASSUME PodGone PROVE ServedInv'
  BY <1>18, <1>b DEF PodGone
<1>19. ASSUME PodStart PROVE ServedInv'
  BY <1>19, <1>b DEF PodStart
<1>20. ASSUME PodReady PROVE ServedInv'
  BY <1>20, <1>b DEF PodReady
<1>21. ASSUME NodeLost PROVE ServedInv'
  BY <1>21, <1>b DEF NodeLost
<1>22. ASSUME WakeTimeComes PROVE ServedInv'
  BY <1>22, <1>b DEF WakeTimeComes
<1>23. ASSUME Crash PROVE ServedInv'
  BY <1>23, <1>b DEF Crash
<1>24. ASSUME UNCHANGED vars PROVE ServedInv'
  BY <1>24 DEF vars
<1> QED
  BY <1>1, <1>2, <1>3, <1>4, <1>5, <1>6, <1>7, <1>8, <1>9, <1>10, <1>11, <1>12, <1>13, <1>14, <1>15, <1>16, <1>17, <1>18, <1>19, <1>20, <1>21, <1>22, <1>23, <1>24
     DEF Next, Serve, Sweep, Wake, Controller, Procs

(* A sweep that puts a session back to sleep before its pod was ready had  *)
(* decided so before the wake, for every number of requests and sweeps.    *)
THEOREM WakesServed == Spec => []UndoneOnlyHalfWay
<1>1. Init => ServedInv
  BY DEF Init, ServedInv, UndoneOnlyHalfWay, Procs, Decided
<1>2. TypeOK /\ ServedInv /\ [Next]_vars => ServedInv'
  BY NextServedInv
<1>3. ServedInv => UndoneOnlyHalfWay
  BY DEF ServedInv
<1> QED
  BY <1>1, <1>2, <1>3, TypeCorrect, PTL DEF Spec

(* Every step keeps a restart that has suspended the session on its way.   *)
LEMMA NextRestartEndsAwake == TypeOK /\ RestartEndsAwake /\ [Next]_vars => RestartEndsAwake'
<1> SUFFICES ASSUME TypeOK, RestartEndsAwake, [Next]_vars PROVE RestartEndsAwake'
  OBVIOUS
<1> USE DEF TypeOK, RestartEndsAwake, Procs, Goto, Decided, world, local, wakes, history
<1>b. Handlers \cap Sweepers = {}
  BY ProcsAssumption
<1>1. ASSUME NEW h \in Handlers, HandleWake(h) PROVE RestartEndsAwake'
  BY <1>1, <1>b DEF HandleWake
<1>2. ASSUME NEW h \in Handlers, HandleRestart(h) PROVE RestartEndsAwake'
  BY <1>2, <1>b DEF HandleRestart
<1>3. ASSUME NEW p \in Procs, WakeGet(p) PROVE RestartEndsAwake'
  BY <1>3, <1>b DEF WakeGet, Woken
<1>4. ASSUME NEW p \in Procs, WakeRun(p) PROVE RestartEndsAwake'
  BY <1>4, <1>b DEF WakeRun, Woken, SetRunning, Forget, Deciding
<1>5. ASSUME NEW p \in Procs, WakeClear(p) PROVE RestartEndsAwake'
  BY <1>5, <1>b DEF WakeClear, Woken, ClearWakeAt, Deciding
<1>6. ASSUME NEW h \in Handlers, RestartGet(h) PROVE RestartEndsAwake'
  BY <1>6, <1>b DEF RestartGet
<1>7. ASSUME NEW h \in Handlers, RestartSuspend(h) PROVE RestartEndsAwake'
  BY <1>7, <1>b DEF RestartSuspend
<1>8. ASSUME NEW h \in Handlers, RestartRun(h) PROVE RestartEndsAwake'
  <2>1. lastWrite' # "restart"
    BY <1>8 DEF RestartRun, SetRunning
  <2> QED
    BY <2>1
<1>9. ASSUME NEW h \in Handlers, Answer(h) PROVE RestartEndsAwake'
  BY <1>9, <1>b DEF Answer, Replies
<1>10. ASSUME NEW s \in Sweepers, SweepList(s) PROVE RestartEndsAwake'
  BY <1>10, <1>b DEF SweepList
<1>11. ASSUME NEW s \in Sweepers, SweepWake(s) PROVE RestartEndsAwake'
  BY <1>11, <1>b DEF SweepWake, Forget
<1>12. ASSUME NEW s \in Sweepers, ClearStale(s) PROVE RestartEndsAwake'
  BY <1>12, <1>b DEF ClearStale, ClearWakeAt, Deciding
<1>13. ASSUME NEW s \in Sweepers, SweepIdle(s) PROVE RestartEndsAwake'
  BY <1>13, <1>b DEF SweepIdle
<1>14. ASSUME NEW s \in Sweepers, SweepCron(s) PROVE RestartEndsAwake'
  BY <1>14, <1>b DEF SweepCron, SweepOver
<1>15. ASSUME NEW s \in Sweepers, SweepStamp(s) PROVE RestartEndsAwake'
  BY <1>15, <1>b DEF SweepStamp, SweepOver
<1>16. ASSUME NEW s \in Sweepers, SweepSuspend(s) PROVE RestartEndsAwake'
  BY <1>16, <1>b DEF SweepSuspend, SweepOver
<1>17. ASSUME PodStop PROVE RestartEndsAwake'
  BY <1>17, <1>b DEF PodStop
<1>18. ASSUME PodGone PROVE RestartEndsAwake'
  BY <1>18, <1>b DEF PodGone
<1>19. ASSUME PodStart PROVE RestartEndsAwake'
  BY <1>19, <1>b DEF PodStart
<1>20. ASSUME PodReady PROVE RestartEndsAwake'
  BY <1>20, <1>b DEF PodReady
<1>21. ASSUME NodeLost PROVE RestartEndsAwake'
  BY <1>21, <1>b DEF NodeLost
<1>22. ASSUME WakeTimeComes PROVE RestartEndsAwake'
  BY <1>22, <1>b DEF WakeTimeComes
<1>23. ASSUME Crash PROVE RestartEndsAwake'
  BY <1>23, <1>b DEF Crash
<1>24. ASSUME UNCHANGED vars PROVE RestartEndsAwake'
  BY <1>24 DEF vars
<1> QED
  BY <1>1, <1>2, <1>3, <1>4, <1>5, <1>6, <1>7, <1>8, <1>9, <1>10, <1>11, <1>12, <1>13, <1>14, <1>15, <1>16, <1>17, <1>18, <1>19, <1>20, <1>21, <1>22, <1>23, <1>24
     DEF Next, Serve, Sweep, Wake, Controller, Procs

(* No restart leaves its session asleep, whatever else writes the mode,    *)
(* but one whose second half failed or was cut off.                        *)
THEOREM RestartsEndAwake == Spec => []RestartEndsAwake
<1>1. Init => RestartEndsAwake
  BY DEF Init, RestartEndsAwake
<1>2. TypeOK /\ RestartEndsAwake /\ [Next]_vars => RestartEndsAwake'
  BY NextRestartEndsAwake
<1> QED
  BY <1>1, <1>2, TypeCorrect, PTL DEF Spec

(* Nothing that is contested is awake.                                     *)
LEMMA NextContestedInv == TypeOK /\ StampInv /\ ContestedInv /\ [Next]_vars => ContestedInv'
<1> SUFFICES ASSUME TypeOK, ContestedInv, [Next]_vars PROVE ContestedInv'
  OBVIOUS
<1> USE DEF ContestedInv, Procs, Goto, world, local, wakes, history
<1>1. ASSUME NEW h \in Handlers, HandleWake(h) PROVE ContestedInv'
  BY <1>1 DEF HandleWake
<1>2. ASSUME NEW h \in Handlers, HandleRestart(h) PROVE ContestedInv'
  BY <1>2 DEF HandleRestart
<1>3. ASSUME NEW p \in Procs, WakeGet(p) PROVE ContestedInv'
  BY <1>3 DEF WakeGet, Woken
<1>4. ASSUME NEW p \in Procs, WakeRun(p) PROVE ContestedInv'
  BY <1>4 DEF WakeRun, Woken, SetRunning, Forget
<1>5. ASSUME NEW p \in Procs, WakeClear(p) PROVE ContestedInv'
  BY <1>5 DEF WakeClear, Woken, ClearWakeAt
<1>6. ASSUME NEW h \in Handlers, RestartGet(h) PROVE ContestedInv'
  BY <1>6 DEF RestartGet
<1>7. ASSUME NEW h \in Handlers, RestartSuspend(h) PROVE ContestedInv'
  BY <1>7 DEF RestartSuspend
<1>8. ASSUME NEW h \in Handlers, RestartRun(h) PROVE ContestedInv'
  BY <1>8 DEF RestartRun, SetRunning
<1>9. ASSUME NEW h \in Handlers, Answer(h) PROVE ContestedInv'
  BY <1>9 DEF Answer, Replies
<1>10. ASSUME NEW s \in Sweepers, SweepList(s) PROVE ContestedInv'
  BY <1>10 DEF SweepList
<1>11. ASSUME NEW s \in Sweepers, SweepWake(s) PROVE ContestedInv'
  BY <1>11 DEF SweepWake, Forget
<1>12. ASSUME NEW s \in Sweepers, ClearStale(s) PROVE ContestedInv'
  BY <1>12 DEF ClearStale, ClearWakeAt
<1>13. ASSUME NEW s \in Sweepers, SweepIdle(s) PROVE ContestedInv'
  BY <1>13 DEF SweepIdle
<1>14. ASSUME NEW s \in Sweepers, SweepCron(s) PROVE ContestedInv'
  BY <1>14 DEF SweepCron, SweepOver
<1>15. ASSUME NEW s \in Sweepers, SweepStamp(s) PROVE ContestedInv'
  BY <1>15 DEF SweepStamp, SweepOver
<1>16. ASSUME NEW s \in Sweepers, SweepSuspend(s) PROVE ContestedInv'
  BY <1>16 DEF SweepSuspend, SweepOver
<1>17. ASSUME PodStop PROVE ContestedInv'
  BY <1>17 DEF PodStop
<1>18. ASSUME PodGone PROVE ContestedInv'
  BY <1>18 DEF PodGone
<1>19. ASSUME PodStart PROVE ContestedInv'
  BY <1>19 DEF PodStart
<1>20. ASSUME PodReady PROVE ContestedInv'
  BY <1>20 DEF PodReady
<1>21. ASSUME NodeLost PROVE ContestedInv'
  BY <1>21 DEF NodeLost
<1>22. ASSUME WakeTimeComes PROVE ContestedInv'
  BY <1>22 DEF WakeTimeComes
<1>23. ASSUME Crash PROVE ContestedInv'
  BY <1>23 DEF Crash
<1>24. ASSUME UNCHANGED vars PROVE ContestedInv'
  BY <1>24 DEF vars
<1> QED
  BY <1>1, <1>2, <1>3, <1>4, <1>5, <1>6, <1>7, <1>8, <1>9, <1>10, <1>11, <1>12, <1>13, <1>14, <1>15, <1>16, <1>17, <1>18, <1>19, <1>20, <1>21, <1>22, <1>23, <1>24
     DEF Next, Serve, Sweep, Wake, Controller, Procs

(* Every step is one the contract knows, or changes nothing it promises.   *)
LEMMA SleepStep ==
  ASSUME TypeOK, StampInv, ServedInv, ContestedInv, [Next]_vars
  PROVE  Sleep!Step
<1> USE DEF Procs, Goto, world, local, wakes, history
<1>a. ASSUME UNCHANGED <<mode, wakeAt, owed, crossed, lastWrite, served>> PROVE Sleep!Step
  BY <1>a DEF Sleep!Step, Sleep!promised, SleepState
<1>b. ASSUME SetRunning, UNCHANGED wakeAt PROVE Sleep!Step
  <2>1. SleepState' = "awake" /\ lastWrite' = "wake"
    BY <1>b DEF SetRunning, SleepState
  <2>2. served' \in {FALSE, served}
    BY <1>b DEF SetRunning, ServedInv, TypeOK
  <2> QED
    BY <1>b, <2>1, <2>2 DEF Sleep!Step, Sleep!Wake
<1>c. ASSUME wakeAt' = "none", SleepState # "covered", UNCHANGED <<mode, owed, crossed, lastWrite, served>>
      PROVE  Sleep!Step
  BY <1>c DEF Sleep!Step, Sleep!ClearAlarm, SleepState
<1>1. ASSUME NEW h \in Handlers, HandleWake(h) PROVE Sleep!Step
  BY <1>a, <1>1 DEF HandleWake
<1>2. ASSUME NEW h \in Handlers, HandleRestart(h) PROVE Sleep!Step
  BY <1>a, <1>2 DEF HandleRestart
<1>3. ASSUME NEW p \in Procs, WakeGet(p) PROVE Sleep!Step
  BY <1>a, <1>3 DEF WakeGet, Woken
<1>4. ASSUME NEW p \in Procs, WakeRun(p) PROVE Sleep!Step
  <2>1. CASE UNCHANGED <<mode, wakes, lastWrite, served>>
    BY <1>a, <1>4, <2>1 DEF WakeRun
  <2>2. CASE SetRunning
    BY <1>b, <1>4, <2>2 DEF WakeRun
  <2> QED
    BY <1>4, <2>1, <2>2 DEF WakeRun
<1>5. ASSUME NEW p \in Procs, WakeClear(p) PROVE Sleep!Step
  <2>1. SleepState # "covered"
    BY <1>5 DEF WakeClear, SleepState, StampInv
  <2>2. CASE ClearWakeAt
    BY <1>c, <1>5, <2>1, <2>2 DEF WakeClear, ClearWakeAt
  <2>3. CASE UNCHANGED <<wakeAt, met>>
    BY <1>a, <1>5, <2>3 DEF WakeClear
  <2> QED
    BY <1>5, <2>2, <2>3 DEF WakeClear
<1>6. ASSUME NEW h \in Handlers, RestartGet(h) PROVE Sleep!Step
  BY <1>a, <1>6 DEF RestartGet
<1>7. ASSUME NEW h \in Handlers, RestartSuspend(h) PROVE Sleep!Step
  <2>1. CASE UNCHANGED <<mode, lastWrite>>
    BY <1>a, <1>7, <2>1 DEF RestartSuspend
  <2>2. CASE mode' = "Suspended" /\ lastWrite' = "restart"
    <3>1. SleepState' = IF SleepState = "awake" THEN "free" ELSE SleepState
      BY <1>7, <2>2 DEF RestartSuspend, SleepState, StampInv, ContestedInv, TypeOK
    <3> QED
      BY <1>7, <2>2, <3>1 DEF RestartSuspend, Sleep!Step, Sleep!RestartSuspends
  <2> QED
    BY <1>7, <2>1, <2>2 DEF RestartSuspend
<1>8. ASSUME NEW h \in Handlers, RestartRun(h) PROVE Sleep!Step
  <2>1. CASE SetRunning
    BY <1>b, <1>8, <2>1 DEF RestartRun
  <2>2. CASE /\ lastWrite' = IF lastWrite = "restart" THEN "botched" ELSE lastWrite
             /\ UNCHANGED <<mode, wakes, served>>
    <3>1. CASE lastWrite = "restart"
      BY <1>8, <2>2, <3>1 DEF RestartRun, Sleep!Step, Sleep!RestartFails, SleepState
    <3>2. CASE lastWrite # "restart"
      BY <1>a, <1>8, <2>2, <3>2 DEF RestartRun
    <3> QED
      BY <3>1, <3>2
  <2> QED
    BY <1>8, <2>1, <2>2 DEF RestartRun
<1>9. ASSUME NEW h \in Handlers, Answer(h) PROVE Sleep!Step
  BY <1>a, <1>9 DEF Answer
<1>10. ASSUME NEW s \in Sweepers, SweepList(s) PROVE Sleep!Step
  BY <1>a, <1>10 DEF SweepList
<1>11. ASSUME NEW s \in Sweepers, SweepWake(s) PROVE Sleep!Step
  BY <1>a, <1>11 DEF SweepWake
<1>12. ASSUME NEW s \in Sweepers, ClearStale(s) PROVE Sleep!Step
  <2>1. SleepState # "covered"
    BY <1>12 DEF ClearStale, SleepState, StampInv
  <2>2. CASE ClearWakeAt
    BY <1>c, <1>12, <2>1, <2>2 DEF ClearStale, ClearWakeAt
  <2>3. CASE UNCHANGED <<wakeAt, met>>
    BY <1>a, <1>12, <2>3 DEF ClearStale
  <2> QED
    BY <1>12, <2>2, <2>3 DEF ClearStale
<1>13. ASSUME NEW s \in Sweepers, SweepIdle(s) PROVE Sleep!Step
  BY <1>a, <1>13 DEF SweepIdle
<1>14. ASSUME NEW s \in Sweepers, SweepCron(s) PROVE Sleep!Step
  BY <1>a, <1>14 DEF SweepCron, SweepOver
<1>15. ASSUME NEW s \in Sweepers, SweepStamp(s) PROVE Sleep!Step
  <2>1. CASE UNCHANGED wakeAt
    BY <1>a, <1>15, <2>1 DEF SweepStamp, SweepOver
  <2>2. CASE wakeAt' = "ahead"
    BY <1>15, <2>2 DEF SweepStamp, SweepOver, Sleep!Step, Sleep!SetAlarm, SleepState
  <2> QED
    BY <1>15, <2>1, <2>2 DEF SweepStamp
<1>16. ASSUME NEW s \in Sweepers, SweepSuspend(s) PROVE Sleep!Step
  <2>1. CASE UNCHANGED <<mode, lastWrite, owed, crossed>>
    BY <1>a, <1>16, <2>1 DEF SweepSuspend
  <2>2. CASE /\ mode' = "Suspended"
             /\ lastWrite' = "sweep"
             /\ owed' = (pc[s] = "stamped" \/ (owed /\ mode = "Suspended"))
             /\ crossed' = \/ s \in met
                           \/ \E p \in Procs : pc[p] \in {"clear", "stale"}
                           \/ crossed /\ owed /\ mode = "Suspended"
    <3>1. SleepState' = IF crossed' THEN "contested" ELSE IF owed' THEN "covered" ELSE "free"
      BY <2>2 DEF SleepState
    <3>2. crossed' => Meeting \/ SleepState = "contested"
      BY <2>2 DEF Meeting, SleepState
    <3>3. ~crossed' => s \notin met
      BY <2>2
    <3>4. ~crossed' => served
      BY <1>16, <3>3 DEF SweepSuspend, ServedInv, Decided
    <3>5. ~crossed' /\ owed' => wakeAt # "none"
      <4>1. CASE pc[s] = "stamped"
        BY <3>3, <4>1 DEF StampInv
      <4>2. CASE owed /\ mode = "Suspended"
        BY <2>2, <4>2 DEF StampInv
      <4> QED
        BY <2>2, <4>1, <4>2
    <3>6. ~crossed' /\ ~owed' => SleepState # "covered"
      BY <2>2 DEF SleepState, TypeOK
    <3>7. UNCHANGED <<wakeAt, served>>
      BY <1>16 DEF SweepSuspend
    <3>8. Sleep!PutToSleep
      BY <2>2, <3>1, <3>2, <3>4, <3>5, <3>6, <3>7 DEF Sleep!PutToSleep
    <3> QED
      BY <3>8 DEF Sleep!Step
  <2> QED
    BY <1>16, <2>1, <2>2 DEF SweepSuspend
<1>17. ASSUME PodStop PROVE Sleep!Step
  BY <1>a, <1>17 DEF PodStop
<1>18. ASSUME PodGone PROVE Sleep!Step
  BY <1>a, <1>18 DEF PodGone
<1>19. ASSUME PodStart PROVE Sleep!Step
  BY <1>a, <1>19 DEF PodStart
<1>20. ASSUME PodReady PROVE Sleep!Step
  BY <1>20 DEF PodReady, Sleep!Step, Sleep!PodReady, SleepState
<1>21. ASSUME NodeLost PROVE Sleep!Step
  BY <1>a, <1>21 DEF NodeLost
<1>22. ASSUME WakeTimeComes PROVE Sleep!Step
  BY <1>22 DEF WakeTimeComes, Sleep!Step, Sleep!Ring, SleepState
<1>23. ASSUME Crash PROVE Sleep!Step
  <2>1. UNCHANGED <<mode, wakeAt, owed, crossed, served>>
    BY <1>23 DEF Crash
  <2>2. lastWrite' = lastWrite \/ (lastWrite = "restart" /\ lastWrite' = "botched")
    BY <1>23 DEF Crash
  <2> QED
    BY <1>a, <2>1, <2>2 DEF Sleep!Step, Sleep!RestartFails, SleepState
<1>24. ASSUME UNCHANGED vars PROVE Sleep!Step
  BY <1>a, <1>24 DEF vars
<1> QED
  BY <1>1, <1>2, <1>3, <1>4, <1>5, <1>6, <1>7, <1>8, <1>9, <1>10, <1>11, <1>12, <1>13, <1>14, <1>15, <1>16, <1>17, <1>18, <1>19, <1>20, <1>21, <1>22, <1>23, <1>24
     DEF Next, Serve, Sweep, Wake, Controller, Procs

(* Requests, restarts and any number of sweep loops keep the promises of   *)
(* SleepContract, whatever calls fail: what sleeps under an alarm is woken *)
(* by a wake alone, loses its alarm to none, and was served before.        *)
THEOREM SleepContractKept == Spec => KeepsSleepContract
<1> DEFINE Inv == TypeOK /\ StampInv /\ ServedInv /\ ContestedInv /\ RestartEndsAwake
<1>1. Init => Inv
  <2> SUFFICES ASSUME Init PROVE Inv
    OBVIOUS
  <2>1. TypeOK
    BY InitTypeOK
  <2>2. StampInv /\ ContestedInv /\ RestartEndsAwake
    BY DEF Init, StampInv, Procs, ContestedInv, RestartEndsAwake
  <2>3. ServedInv
    BY DEF Init, ServedInv, UndoneOnlyHalfWay, Procs, Decided
  <2> QED
    BY <2>1, <2>2, <2>3
<1>2. Inv /\ [Next]_vars => Inv'
  BY NextTypeOK, NextStampInv, NextServedInv, NextContestedInv, NextRestartEndsAwake
<1>3. Init => Sleep!Init
  BY DEF Init, Sleep!Init, SleepState, Restarting, Meeting, Procs
<1>4. Inv /\ Inv' /\ [Next]_vars => [Sleep!Next]_(Sleep!vars)
  <2> SUFFICES ASSUME Inv, Inv', [Next]_vars PROVE Sleep!Next
    OBVIOUS
  <2>1. Sleep!Step
    BY SleepStep
  <2>2. lastWrite' = "restart" => Restarting'
    BY DEF RestartEndsAwake, Restarting
  <2> QED
    BY <2>1, <2>2 DEF Sleep!Next, Restarting, Meeting
<1> QED
  BY <1>1, <1>2, <1>3, <1>4, PTL DEF Spec, KeepsSleepContract, Sleep!Spec

(* One sweep loop by itself meets nobody, so nothing it does is contested. *)
LEMMA NextUnmet ==
  ASSUME NEW t, Sweepers = {t}, Handlers = {}, TypeOK, met = {}, ~crossed, [Next]_vars
  PROVE  met' = {} /\ ~crossed'
<1> USE DEF Procs, Goto, world, local, wakes, history
<1>1. \A p \in Procs : p = t
  OBVIOUS
<1>2. ASSUME pc[t] \notin Decided PROVE Deciding = {}
  BY <1>2 DEF Deciding
<1>3. pc[t] \in {"run", "clear", "stale"} => Deciding = {}
  BY <1>2 DEF Decided
<1>4. ASSUME NEW p \in Procs, WakeGet(p) PROVE met' = {} /\ ~crossed'
  BY <1>4 DEF WakeGet, Woken
<1>5. ASSUME NEW p \in Procs, WakeRun(p) PROVE met' = {} /\ ~crossed'
  BY <1>1, <1>3, <1>5 DEF WakeRun, SetRunning
<1>6. ASSUME NEW p \in Procs, WakeClear(p) PROVE met' = {} /\ ~crossed'
  BY <1>1, <1>3, <1>6 DEF WakeClear, ClearWakeAt
<1>7. ASSUME SweepList(t) PROVE met' = {} /\ ~crossed'
  BY <1>7 DEF SweepList
<1>8. ASSUME SweepWake(t) PROVE met' = {} /\ ~crossed'
  BY <1>8 DEF SweepWake
<1>9. ASSUME ClearStale(t) PROVE met' = {} /\ ~crossed'
  BY <1>3, <1>9 DEF ClearStale, ClearWakeAt
<1>10. ASSUME SweepIdle(t) PROVE met' = {} /\ ~crossed'
  BY <1>10 DEF SweepIdle
<1>11. ASSUME SweepCron(t) PROVE met' = {} /\ ~crossed'
  BY <1>11 DEF SweepCron, SweepOver
<1>12. ASSUME SweepStamp(t) PROVE met' = {} /\ ~crossed'
  BY <1>12 DEF SweepStamp, SweepOver
<1>13. ASSUME SweepSuspend(t) PROVE met' = {} /\ ~crossed'
  <2>1. \A p \in Procs : pc[p] \notin {"clear", "stale"}
    BY <1>1, <1>13 DEF SweepSuspend
  <2>2. met' = {}
    BY <1>13 DEF SweepSuspend, SweepOver
  <2>3. CASE UNCHANGED crossed
    BY <2>2, <2>3
  <2>4. CASE crossed' = \/ t \in met
                        \/ \E p \in Procs : pc[p] \in {"clear", "stale"}
                        \/ crossed /\ owed /\ mode = "Suspended"
    BY <2>1, <2>2, <2>4
  <2> QED
    BY <1>13, <2>3, <2>4 DEF SweepSuspend
<1>14. ASSUME Controller \/ NodeLost \/ WakeTimeComes PROVE met' = {} /\ ~crossed'
  BY <1>14 DEF Controller, PodStop, PodGone, PodStart, PodReady, NodeLost, WakeTimeComes
<1>15. ASSUME Crash PROVE met' = {} /\ ~crossed'
  BY <1>15 DEF Crash
<1>16. ASSUME UNCHANGED vars PROVE met' = {} /\ ~crossed'
  BY <1>16 DEF vars
<1> QED
  BY <1>4, <1>5, <1>6, <1>7, <1>8, <1>9, <1>10, <1>11, <1>12, <1>13, <1>14, <1>15, <1>16
     DEF Next, Sweep, Wake

(* A schedule is lost to concurrency alone: one sweep loop without requests*)
(* keeps every cron it puts a session to sleep over, whatever fails and    *)
(* wherever it crashes.  (The run cron_lost has one request beside it.)    *)
THEOREM CronKeptUnmet ==
  ASSUME NEW t, Sweepers = {t}, Handlers = {}
  PROVE  Spec => []CronCovered
<1> DEFINE Unmet == met = {} /\ ~crossed
<1>1. Init => Unmet
  BY DEF Init
<1>2. TypeOK /\ Unmet /\ [Next]_vars => Unmet'
  BY NextUnmet
<1>3. Unmet /\ CronCoveredAlone => CronCovered
  BY DEF CronCoveredAlone, CronCovered
<1> QED
  BY <1>1, <1>2, <1>3, TypeCorrect, CronKept, PTL DEF Spec
=============================================================================
