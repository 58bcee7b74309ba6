--------------------------- MODULE IdleGate_proofs ---------------------------
(***************************************************************************)
(* Proofs about IdleGate, for every configuration and every mixture of     *)
(* outages: the type invariant; that a suspension of a polled session cuts *)
(* off no turn that the poll could have seen; that it follows, where sweeps*)
(* with an instance list come more often than the agent forgets its        *)
(* activity, a full idle timeout without work; that no cron fire of the    *)
(* schedule that was read is missed; and that idle sessions go to sleep.   *)
(***************************************************************************)
EXTENDS IdleGate, TLAPS

-----------------------------------------------------------------------------
(* The inductive invariants behind SuspendsOnlyQuiet                       *)

(* Sweeps with an instance list come more often than the agent forgets.    *)
Watched == StatusEnabled /\ Interval < Recency /\ Interval + MaxGap <= Recency

(* How old the last sweep, and the last one with a list, may be.           *)
GapInv ==
  /\ pc \notin {"start", "rest"} => sweptAt = now
  /\ pc \in {"listed", "idle"} /\ inst # Absent => listedAt = now
  /\ pc = "idle" => inst # Absent
  /\ pc # "start" => /\ now - sweptAt <= Interval
                     /\ sweptAt = listedAt \/ sweptAt - listedAt < MaxGap

(* Activity the quiet clock does not know of is from after the last sample.*)
QuietInv ==
  quietSince # Absent =>
    /\ pc # "start"
    /\ \/ active <= quietSince
       \/ IF pc \in {"listed", "idle"} /\ inst # Absent THEN now - active < Recency
                                                       ELSE active >= listedAt

(* What a sweep that goes on to suspend has seen, and what happened since. *)
Decided == pc \in {"cron", "stamp", "suspend"}

DecidedInv ==
  /\ turn => pod = "ready"
  /\ Decided => mode = "Running" /\ pod = "ready" /\ (turn => fresh)
  /\ mode = "Suspended" /\ turn => fresh

(* ... and what the quiet clock says of it, if the agent is watched.       *)
DecidedQuietInv == Decided => now - worked >= IdleTimeout
-----------------------------------------------------------------------------
(* The inductive invariant behind CronServed                               *)

(* The margin leaves room for the sweep that wakes and for the boot.       *)
Timely == CronGuarded /\ Interval + Boot <= Margin

(* A session that sleeps before a fire has its wake scheduled and has not  *)
(* slept through it; one that boots will be up in time; and one that is    *)
(* about to be suspended has the schedule read.                            *)
CronInv ==
  /\ mode = "Suspended" => pod # "booting" /\ (pc = "listed" => anno = wakeAt)
  /\ Decided => mode = "Running" /\ pod = "ready" /\ since < now
  /\ pod = "ready" /\ nextFire # Absent => since = now \/ nextFire >= now
  /\ CronServed
  /\ nextFire # Absent /\ ~unread =>
       /\ pc \in {"stamp", "suspend"} => /\ nextFire - sweptAt > Horizon
                                         /\ pc = "stamp" => plan = nextFire - Margin
                                         /\ pc = "suspend" => wakeAt = nextFire - Margin
       /\ mode = "Suspended" => /\ wakeAt = nextFire - Margin
                                /\ now < wakeAt + Interval
                                /\ pc \in {"rest", "idle"} => sweptAt < wakeAt
       /\ mode = "Running" /\ pod = "gone" => now + Boot <= nextFire
       /\ pod = "booting" => now <= since + Boot /\ since + Boot <= nextFire
-----------------------------------------------------------------------------
(* The inductive invariant behind SuspendedInTime                          *)

(* The quiet clock of a session that is up starts with the first sweep     *)
(* after the agent has forgotten its activity, and the first sweep after it*)
(* has run for the idle timeout finds every guard of the gate satisfied.   *)
UpInTime(limit) == IF pc = "rest" THEN sweptAt < Disturbed + limit
                                  ELSE now < Disturbed + limit + Interval

SleepInv ==
  /\ relay # Absent => relay <= active
  /\ pc = "start" => upset = now
  /\ mode = "Suspended" /\ pod = "ready" => upset = now \/ (pc = "rest" /\ sweptAt = now)
  /\ pc \in {"listed", "idle"} /\ inst # Absent /\ Unused => Disturbed = now \/ inst = Listed
  /\ quietSince # Absent => quietSince < Disturbed + Recency + Interval
  /\ StatusEnabled /\ mode = "Running" /\ pod = "ready" /\ ~turn /\ quietSince = Absent
       => UpInTime(Recency)
  /\ Decided /\ StatusEnabled => quietSince # Absent
  /\ Unused => UpInTime(Recency + Interval + IdleTimeout)

-----------------------------------------------------------------------------
(* Types                                                                   *)

(* The quiet clock is stopped, as it was, or set to the sweep's "now".     *)
LEMMA TrackQuietType ==
  ASSUME NEW quiet, NEW report, NEW t
  PROVE  TrackQuiet(quiet, report, t) \in {Absent, quiet, t}
BY DEF TrackQuiet

(* What a suspension schedules is a time.                                  *)
LEMMA CronType ==
  ASSUME TypeOK
  PROVE  DecideCron(nextFire, sweptAt, Horizon, Margin).wakeAt \in Int \cup {Absent}
<1>1. nextFire = Absent \/ nextFire \in Int
  BY DEF TypeOK
<1>2. Margin \in Int
  BY TimesAssumption
<1> QED
  BY <1>1, <1>2 DEF DecideCron

(* A list has the instance in it.                                          *)
LEMMA ListedType ==
  ASSUME TypeOK
  PROVE  Listed \in Instance /\ Listed # Absent
<1>1. Listed \in Instance
  BY TimesAssumption DEF Listed, Instance, TypeOK, Time
<1> QED
  BY <1>1, NilAssumption

(* What a poll leaves of the variables of the sweep.                       *)
LEMMA PollType ==
  ASSUME TypeOK, SweepPoll
  PROVE  /\ quietSince' \in 0 .. now \cup {Absent}
         /\ pc' \in {"rest", "cron", "suspend"}
         /\ upset' \in 0 .. now /\ worked' \in 0 .. now /\ fresh' \in BOOLEAN
<1>1. PICK report \in Observed \cup {Absent} : SweepIdle(report)
  BY DEF SweepPoll
<1> DEFINE quiet == IF StatusEnabled THEN TrackQuiet(quietSince, report, sweptAt) ELSE Absent
<1>2. quiet \in 0 .. now \cup {Absent}
  BY TrackQuietType DEF TypeOK
<1>3. quietSince' = quiet /\ pc' \in {"rest", "cron", "suspend"} /\ upset' \in {now, upset}
  BY <1>1 DEF SweepIdle
<1>4. now \in 0 .. now
  BY TimesAssumption DEF TypeOK, Time
<1>5. worked' \in {worked, now, active}
  BY DEF SweepPoll
<1>6. fresh' \in BOOLEAN
  BY Zenon DEF SweepPoll
<1> QED
  BY <1>2, <1>3, <1>4, <1>5, <1>6 DEF TypeOK

(* Every step keeps the variables in their types.                          *)
LEMMA NextTypeOK == TypeOK /\ [Next]_vars => TypeOK'
<1> SUFFICES ASSUME TypeOK, [Next]_vars PROVE TypeOK'
  OBVIOUS
<1> USE TimesAssumption DEF Time, sandbox, gateway, agent, sweep, history
<1>1. CASE PodStop
  <2>1. turn' \in BOOLEAN /\ buffered' \in BOOLEAN /\ fresh' \in BOOLEAN /\ unread' \in BOOLEAN
    BY <1>1, Zenon DEF PodStop, TypeOK
  <2> QED
    BY <1>1, <2>1 DEF PodStop, TypeOK
<1>2. CASE PodStart
  BY <1>2 DEF PodStart, TypeOK
<1>3. CASE PodReady
  BY <1>3 DEF PodReady, TypeOK
<1>4. CASE TurnStarts
  <2>1. turn' \in BOOLEAN /\ buffered' \in BOOLEAN /\ fresh' \in BOOLEAN /\ unread' \in BOOLEAN
    BY <1>4, Zenon DEF TurnStarts, TypeOK
  <2> QED
    BY <1>4, <2>1 DEF TurnStarts, TypeOK
<1>5. CASE TurnEnds
  <2>1. turn' \in BOOLEAN /\ buffered' \in BOOLEAN /\ fresh' \in BOOLEAN /\ unread' \in BOOLEAN
    BY <1>5, Zenon DEF TurnEnds, TypeOK
  <2> QED
    BY <1>5, <2>1 DEF TurnEnds, TypeOK
<1>6. CASE Message
  BY <1>6 DEF Message, TypeOK
<1>7. CASE Work
  <2>1. nextFire' \in Nat \cup {Absent}
    BY <1>7 DEF Work, TypeOK
  <2>2. unread' \in BOOLEAN
    BY <1>7, Zenon DEF Work, TypeOK
  <2> QED
    BY <1>7, <2>1, <2>2 DEF Work, TypeOK
<1>8. CASE CronFires
  <2>1. unread' \in BOOLEAN /\ fresh' \in BOOLEAN
    BY <1>8, Zenon DEF CronFires, TypeOK
  <2> QED
    BY <1>8, <2>1 DEF CronFires, TypeOK
<1>9. CASE ActivityLost
  BY <1>9 DEF ActivityLost, TypeOK
<1>10. CASE SweepList
  <2>1. inst' \in Instance \cup {Absent}
    BY <1>10, ListedType DEF SweepList
  <2> QED
    BY <1>10, <2>1 DEF SweepList, TypeOK
<1>11. CASE SweepWake
  BY <1>11 DEF SweepWake, TypeOK
<1>12. CASE SweepPoll
  BY <1>12, PollType DEF SweepPoll, TypeOK
<1>13. CASE SweepCron
  <2>1. plan' \in Int \cup {Absent}
    BY <1>13, CronType DEF SweepCron, TypeOK
  <2>2. unread' \in BOOLEAN /\ fresh' \in BOOLEAN
    BY <1>13, Zenon DEF SweepCron, TypeOK
  <2> QED
    BY <1>13, <2>1, <2>2 DEF SweepCron, TypeOK
<1>14. CASE SweepStamp
  BY <1>14 DEF SweepStamp, TypeOK
<1>15. CASE SweepSuspend
  BY <1>15 DEF SweepSuspend, TypeOK
<1>16. CASE Restart
  BY <1>16 DEF Restart, TypeOK
<1>17. CASE Tick
  BY <1>17 DEF Tick, TypeOK
<1>18. CASE UNCHANGED vars
  BY <1>18 DEF vars, TypeOK
<1> QED
  BY <1>1, <1>2, <1>3, <1>4, <1>5, <1>6, <1>7, <1>8, <1>9, <1>10, <1>11, <1>12, <1>13, <1>14,
     <1>15, <1>16, <1>17, <1>18 DEF Next

(* The clocks of the idle gate stay in their types.                        *)
THEOREM TypeCorrect == Spec => []TypeOK
<1>1. Init => TypeOK
  <2> SUFFICES ASSUME Init PROVE TypeOK
    OBVIOUS
  <2>1. turn \in BOOLEAN /\ buffered \in BOOLEAN /\ fresh \in BOOLEAN /\ unread \in BOOLEAN
    BY Zenon DEF Init
  <2> QED
    BY <2>1, TimesAssumption DEF Init, TypeOK, Time
<1> QED
  BY <1>1, NextTypeOK, PTL DEF Spec
-----------------------------------------------------------------------------
(* What a suspension has seen                                              *)

(* A poll after which the sweep goes on found the session up, its report   *)
(* quiet, and an old quiet clock.                                          *)
LEMMA PollSeen ==
  ASSUME TypeOK, SweepPoll, pc' # "rest"
  PROVE  /\ Settled(Sandbox) /\ mode = "Running" /\ pod = "ready"
         /\ sweptAt - since >= IdleTimeout
         /\ pc' = IF CronGuarded THEN "cron" ELSE "suspend"
         /\ StatusEnabled => /\ ~turn /\ now - active >= Recency
                             /\ quietSince # Absent /\ quietSince' = quietSince
                             /\ sweptAt - quietSince >= IdleTimeout
<1>1. PICK report \in Observed \cup {Absent} : SweepIdle(report)
  BY DEF SweepPoll
<1> DEFINE quiet == IF StatusEnabled THEN TrackQuiet(quietSince, report, sweptAt) ELSE Absent
<1>2. /\ DecideIdle(Input(report, quiet))
      /\ pc' = IF CronGuarded THEN "cron" ELSE "suspend"
      /\ quietSince' = quiet
  BY <1>1 DEF SweepIdle
<1> HIDE DEF quiet
<1>3. Settled(Sandbox) /\ sweptAt - since >= IdleTimeout
  BY <1>2 DEF DecideIdle, Input, Sandbox
<1>4. mode = "Running" /\ pod = "ready"
  BY <1>3 DEF Settled, Derive, Facts, Sandbox, TypeOK
<1>5. ASSUME StatusEnabled
      PROVE  /\ ~turn /\ now - active >= Recency
             /\ quietSince # Absent /\ quietSince' = quietSince
             /\ sweptAt - quietSince >= IdleTimeout
  <2>1. /\ report # Absent /\ ~Busy(report)
        /\ quiet # Absent /\ sweptAt - quiet >= IdleTimeout
    BY <1>2, <1>5 DEF DecideIdle, Input
  <2>2. report = Status
    BY <1>1, <2>1 DEF Observed
  <2>3. ~turn /\ now - active >= Recency
    BY <2>1, <2>2, TimesAssumption DEF Busy, Status, TypeOK, Time
  <2>4. quietSince # Absent /\ quiet = quietSince
    <3>1. quiet = IF quietSince # Absent THEN quietSince ELSE sweptAt
      BY <1>5, <2>1, Zenon DEF TrackQuiet, quiet
    <3>2. ~(sweptAt - sweptAt >= IdleTimeout)
      BY TimesAssumption DEF TypeOK, Time
    <3> QED
      BY <2>1, <3>1, <3>2
  <2> QED
    BY <1>2, <2>1, <2>3, <2>4
<1> QED
  BY <1>2, <1>3, <1>4, <1>5

(* Nothing but the sweep stops a pod it has decided to stop, and a turn    *)
(* that is in flight as it is stopped began after the poll.                *)
LEMMA NextDecidedInv ==
  ASSUME StatusEnabled PROVE TypeOK /\ DecidedInv /\ [Next]_vars => DecidedInv'
<1> SUFFICES ASSUME TypeOK, DecidedInv, [Next]_vars PROVE DecidedInv'
  OBVIOUS
<1>1. CASE PodStop
  BY <1>1 DEF PodStop, DecidedInv, Decided, agent, sweep
<1>2. CASE PodStart
  BY <1>2 DEF PodStart, DecidedInv, Decided, gateway, agent, sweep, history
<1>3. CASE PodReady
  BY <1>3 DEF PodReady, DecidedInv, Decided, gateway, sweep, history
<1>4. CASE TurnStarts
  BY <1>4 DEF TurnStarts, DecidedInv, Decided, sandbox, sweep
<1>5. CASE TurnEnds
  BY <1>5 DEF TurnEnds, DecidedInv, Decided, sandbox, sweep
<1>6. CASE Message
  BY <1>6 DEF Message, DecidedInv, Decided, agent, sweep, history
<1>7. CASE Work
  BY <1>7 DEF Work, DecidedInv, Decided, sandbox, gateway, sweep
<1>8. CASE CronFires
  BY <1>8 DEF CronFires, DecidedInv, Decided, sandbox, gateway, sweep
<1>9. CASE ActivityLost
  BY <1>9 DEF ActivityLost, DecidedInv, Decided, sandbox, agent, sweep, history
<1>10. CASE SweepList
  BY <1>10 DEF SweepList, DecidedInv, Decided, sandbox, gateway, agent
<1>11. CASE SweepWake
  BY <1>11 DEF SweepWake, DecidedInv, Decided, TypeOK, gateway, agent
<1>12. CASE SweepPoll
  <2>1. /\ UNCHANGED <<mode, pod, turn>>
        /\ pc' \in {"rest", "cron", "suspend"}
        /\ fresh' = (fresh /\ ~Settled(Sandbox))
    BY <1>12, PollType DEF SweepPoll, sandbox, gateway
  <2>2. CASE pc' = "rest"
    <3>1. mode = "Suspended" => ~Settled(Sandbox)
      BY DEF Settled, Derive, Facts, Sandbox
    <3> QED
      BY <2>1, <2>2, <3>1 DEF DecidedInv, Decided
  <2>3. CASE pc' # "rest"
    BY <1>12, <2>1, <2>3, PollSeen DEF DecidedInv, Decided
  <2> QED
    BY <2>2, <2>3
<1>13. CASE SweepCron
  BY <1>13 DEF SweepCron, DecidedInv, Decided, sandbox, gateway
<1>14. CASE SweepStamp
  BY <1>14 DEF SweepStamp, DecidedInv, Decided, gateway, history
<1>15. CASE SweepSuspend
  BY <1>15 DEF SweepSuspend, DecidedInv, Decided, gateway, history
<1>16. CASE Restart
  BY <1>16 DEF Restart, DecidedInv, Decided, sandbox, gateway
<1>17. CASE Tick
  BY <1>17 DEF Tick, DecidedInv, Decided, sandbox, gateway, sweep, history
<1>18. CASE UNCHANGED vars
  BY <1>18 DEF vars, DecidedInv, Decided, sandbox, gateway, sweep, history
<1> QED
  BY <1>1, <1>2, <1>3, <1>4, <1>5, <1>6, <1>7, <1>8, <1>9, <1>10, <1>11, <1>12, <1>13, <1>14,
     <1>15, <1>16, <1>17, <1>18 DEF Next

(* A turn that a suspension of a polled session cuts off began after the   *)
(* sweep had polled the pod (idle.go:27), however old the instance list it *)
(* decided by and however many restarts came between.                      *)
THEOREM OnlyNewTurnsCut == ASSUME StatusEnabled PROVE Spec => CutsOnlyNewTurns
<1>1. Init => DecidedInv
  BY DEF Init, DecidedInv, Decided
<1>2. TypeOK /\ DecidedInv /\ [Next]_vars
        => [turn /\ pod # "gone" /\ pod' = "gone" => fresh]_vars
  <2> SUFFICES ASSUME TypeOK, DecidedInv, Next, turn, pod # "gone", pod' = "gone" PROVE fresh
    OBVIOUS
  <2>1. PodStop
    BY DEF Next, PodStop, PodStart, PodReady, TurnStarts, TurnEnds, Message, Work, CronFires,
           ActivityLost, SweepList, SweepWake, SweepPoll, SweepCron, SweepStamp, SweepSuspend,
           Restart, Tick, sandbox
  <2> QED
    BY <2>1 DEF PodStop, DecidedInv
<1> QED
  BY <1>1, <1>2, TypeCorrect, NextDecidedInv, PTL DEF Spec, CutsOnlyNewTurns
-----------------------------------------------------------------------------
(* The quiet clock                                                         *)

(* Sweeps follow each other within the interval, and lists within MaxGap.  *)
LEMMA NextGapInv == TypeOK /\ GapInv /\ [Next]_vars => GapInv'
<1> SUFFICES ASSUME TypeOK, GapInv, [Next]_vars PROVE GapInv'
  OBVIOUS
<1> USE TimesAssumption
<1>1. now \in Nat /\ sweptAt \in Nat /\ listedAt \in Nat /\ listedAt <= now
  BY DEF TypeOK, Time
<1>2. CASE UNCHANGED <<now, sweep, listedAt>>
  BY <1>2 DEF GapInv, sweep
<1>3. CASE SweepList
  BY <1>1, <1>3 DEF SweepList, GapInv
<1>4. CASE SweepWake \/ SweepPoll \/ SweepCron \/ SweepStamp \/ SweepSuspend
  <2>1. /\ pc \notin {"start", "rest"}
        /\ UNCHANGED <<now, sweptAt, listedAt>>
        /\ pc' \in {"listed", "idle"} => pc = "listed" /\ inst' = inst
        /\ pc' = "idle" => inst' # Absent
    BY <1>4, PollType DEF SweepWake, SweepPoll, SweepCron, SweepStamp, SweepSuspend, history
  <2> QED
    BY <2>1 DEF GapInv
<1>5. CASE Restart
  BY <1>5 DEF Restart, GapInv
<1>6. CASE Tick
  BY <1>1, <1>6 DEF Tick, GapInv, sweep, history
<1>7. CASE PodStop \/ PodStart \/ PodReady \/ TurnStarts \/ TurnEnds \/ Message
           \/ Work \/ CronFires \/ ActivityLost \/ UNCHANGED vars
  BY <1>2, <1>7 DEF PodStop, PodStart, PodReady, TurnStarts, TurnEnds, Message, Work,
     CronFires, ActivityLost, vars, history
<1> QED
  BY <1>3, <1>4, <1>5, <1>6, <1>7 DEF Next

(* A sample either finds the clock right or stops it.                      *)
LEMMA SampleQuiet ==
  ASSUME TypeOK, GapInv, QuietInv, StatusEnabled, SweepPoll, inst # Absent,
         quietSince' # Absent
  PROVE  active <= quietSince'
<1>1. PICK report \in Observed \cup {Absent} : SweepIdle(report)
  BY DEF SweepPoll
<1>2. quietSince' = TrackQuiet(quietSince, report, sweptAt)
  BY <1>1 DEF SweepIdle
<1>3. report # Absent /\ ~Busy(report)
  BY <1>2 DEF TrackQuiet
<1>4. report = Status
  BY <1>1, <1>3 DEF Observed
<1>5. now - active >= Recency
  BY <1>3, <1>4, TimesAssumption DEF Busy, Status, TypeOK, Time
<1>6. pc = "idle" /\ sweptAt = now /\ active <= sweptAt
  BY DEF SweepPoll, GapInv, TypeOK
<1>7. CASE quietSince = Absent
  BY <1>2, <1>3, <1>6, <1>7 DEF TrackQuiet
<1>8. CASE quietSince # Absent
  <2>1. active <= quietSince
    BY <1>5, <1>6, <1>8, TimesAssumption DEF QuietInv, TypeOK, Time
  <2> QED
    BY <1>2, <1>3, <1>8, <2>1 DEF TrackQuiet
<1> QED
  BY <1>7, <1>8

(* The quiet clock misses only activity since the last sample.             *)
LEMMA NextQuietInv ==
  ASSUME Watched
  PROVE  TypeOK /\ GapInv /\ QuietInv /\ [Next]_vars => QuietInv'
<1> SUFFICES ASSUME TypeOK, GapInv, QuietInv, [Next]_vars, quietSince' # Absent PROVE QuietInv'
  BY DEF QuietInv
<1> USE TimesAssumption
<1>1. /\ now \in Nat /\ sweptAt \in Nat /\ listedAt \in Nat /\ listedAt <= now
      /\ active \in Nat /\ active <= now
  BY DEF TypeOK, Time
<1>2. CASE UNCHANGED <<now, active, sweep, listedAt>>
  BY <1>2 DEF QuietInv, sweep
<1>3. CASE active' = now /\ UNCHANGED <<now, sweep, listedAt>>
  <2>1. now - now < Recency
    BY <1>1
  <2> QED
    BY <1>1, <1>3, <2>1 DEF QuietInv, sweep
<1>4. CASE SweepList
  <2>1. quietSince' = quietSince /\ active' = active /\ now' = now /\ pc' = "listed"
    BY <1>4 DEF SweepList, agent
  <2>2. pc = "rest"
    BY <1>4, <2>1 DEF SweepList, QuietInv
  <2>3. CASE active <= quietSince
    BY <2>1, <2>3 DEF QuietInv
  <2>4. CASE active >= listedAt /\ inst' = Absent
    <3>1. listedAt' = listedAt
      BY <1>4, <2>4, ListedType DEF SweepList
    <3> QED
      BY <2>1, <2>4, <3>1 DEF QuietInv
  <2>5. CASE active >= listedAt /\ inst' # Absent
    <3>1. now - listedAt < Recency
      BY <1>1, <2>2 DEF GapInv, Watched
    <3>2. now - active < Recency
      BY <1>1, <2>5, <3>1
    <3> QED
      BY <2>1, <2>5, <3>2 DEF QuietInv
  <2> QED
    BY <2>1, <2>2, <2>3, <2>4, <2>5 DEF QuietInv
<1>5. CASE SweepWake
  BY <1>5 DEF SweepWake, QuietInv, agent
<1>6. CASE SweepPoll
  <2>1. active <= quietSince'
    BY <1>6, SampleQuiet DEF SweepPoll, GapInv, Watched
  <2> QED
    BY <1>6, <2>1, PollType DEF SweepPoll, QuietInv, agent
<1>7. CASE SweepCron \/ SweepStamp \/ SweepSuspend
  BY <1>7 DEF SweepCron, SweepStamp, SweepSuspend, QuietInv, agent, history
<1>8. CASE Restart
  BY <1>8 DEF Restart
<1>9. CASE Tick
  BY <1>9 DEF Tick, QuietInv, agent, sweep, history
<1>10. CASE PodStop \/ PodStart \/ Message \/ ActivityLost \/ UNCHANGED vars
  BY <1>2, <1>10 DEF PodStop, PodStart, Message, ActivityLost, vars, agent, history
<1>11. CASE PodReady \/ TurnStarts \/ TurnEnds \/ CronFires \/ Work
  BY <1>3, <1>11 DEF PodReady, TurnStarts, TurnEnds, CronFires, Work, history
<1> QED
  BY <1>4, <1>5, <1>6, <1>7, <1>8, <1>9, <1>10, <1>11 DEF Next

(* A sweep that goes on to suspend saw no work for the idle timeout.       *)
LEMMA NextDecidedQuietInv ==
  ASSUME Watched
  PROVE  TypeOK /\ GapInv /\ QuietInv /\ DecidedQuietInv /\ [Next]_vars => DecidedQuietInv'
<1> SUFFICES ASSUME TypeOK, GapInv, QuietInv, DecidedQuietInv, [Next]_vars, Decided'
             PROVE  (now - worked >= IdleTimeout)'
  BY DEF DecidedQuietInv
<1>1. CASE UNCHANGED <<now, worked>> /\ Decided
  BY <1>1 DEF DecidedQuietInv
<1>2. CASE SweepPoll
  <2>1. pc' # "rest" /\ pc = "idle"
    BY <1>2 DEF SweepPoll, Decided
  <2>2. /\ ~turn /\ now - active >= Recency /\ Settled(Sandbox)
        /\ quietSince # Absent /\ sweptAt - quietSince >= IdleTimeout
    BY <1>2, <2>1, PollSeen DEF Watched
  <2>3. inst # Absent /\ sweptAt = now
    BY <2>1 DEF GapInv
  <2>4. active <= quietSince
    BY <2>1, <2>2, <2>3, TimesAssumption DEF QuietInv, TypeOK, Time
  <2>5. worked' = active /\ now' = now
    BY <1>2, <2>2 DEF SweepPoll
  <2> QED
    BY <2>2, <2>3, <2>4, <2>5, TimesAssumption DEF TypeOK, Time
<1>3. CASE SweepList \/ SweepWake \/ SweepSuspend \/ Restart
  BY <1>3 DEF SweepList, SweepWake, SweepSuspend, Restart, Decided
<1>4. CASE SweepCron \/ SweepStamp
  BY <1>1, <1>4 DEF SweepCron, SweepStamp, Decided, history
<1>5. CASE Tick
  BY <1>5 DEF Tick, Decided, sweep
<1>6. CASE PodStop \/ PodStart \/ PodReady \/ TurnStarts \/ TurnEnds \/ Message
           \/ Work \/ CronFires \/ ActivityLost \/ UNCHANGED vars
  BY <1>1, <1>6 DEF PodStop, PodStart, PodReady, TurnStarts, TurnEnds, Message, Work,
     CronFires, ActivityLost, vars, Decided, sweep, history
<1> QED
  BY <1>2, <1>3, <1>4, <1>5, <1>6 DEF Next

(* A session is suspended only if the sweep found its agent without work   *)
(* for a full idle timeout (idle.go:48), if sweeps with an instance list   *)
(* come more often than the agent forgets its activity.                    *)
THEOREM OnlyQuietSuspends == ASSUME Watched PROVE Spec => SuspendsOnlyQuiet
<1>1. Init => GapInv /\ QuietInv /\ DecidedQuietInv
  BY TimesAssumption DEF Init, GapInv, QuietInv, DecidedQuietInv, Decided
<1>2. TypeOK /\ DecidedQuietInv /\ [Next]_vars
        => [Suspends => now - worked >= IdleTimeout]_vars
  <2> SUFFICES ASSUME TypeOK, DecidedQuietInv, Next, Suspends PROVE now - worked >= IdleTimeout
    OBVIOUS
  <2>1. pc = "suspend"
    BY DEF Next, Suspends, PodStop, PodStart, PodReady, TurnStarts, TurnEnds, Message, Work,
           CronFires, ActivityLost, SweepList, SweepWake, SweepPoll, SweepCron, SweepStamp,
           SweepSuspend, Restart, Tick, sandbox
  <2> QED
    BY <2>1 DEF DecidedQuietInv, Decided
<1> QED
  BY <1>1, <1>2, TypeCorrect, NextGapInv, NextQuietInv, NextDecidedQuietInv, PTL
     DEF Spec, SuspendsOnlyQuiet
-----------------------------------------------------------------------------
(* Cron fires                                                              *)

(* A step of a sweep keeps the wake of a session that sleeps before a fire,*)
(* and makes one for a session that it suspends.                           *)
LEMMA SweepKeepsCronInv ==
  ASSUME Timely, TypeOK, GapInv, CronInv,
         SweepWake \/ SweepPoll \/ SweepCron \/ SweepStamp \/ SweepSuspend
  PROVE  CronInv'
<1>1. /\ now \in Nat /\ sweptAt \in Nat /\ sweptAt <= now /\ since \in Nat /\ since <= now
      /\ nextFire \in Nat \cup {Absent} /\ wakeAt \in Int \cup {Absent}
      /\ mode \in {"Running", "Suspended"} /\ pod \in {"booting", "ready", "gone"}
  BY TimesAssumption DEF TypeOK, Time
<1>2. /\ {Interval, Boot, Margin, Horizon, IdleTimeout} \subseteq Nat \ {0} /\ Absent \notin Int
      /\ Interval + Boot <= Margin /\ Margin <= Horizon
  BY TimesAssumption, LoadAssumption, AbsentAssumption DEF Timely, CronGuarded, Load
<1> USE DEF CronInv, CronServed, Decided
<1>3. CASE SweepWake
  <2>1. /\ pc = "listed" /\ pc' \in {"rest", "idle"} /\ sweptAt = now
        /\ UNCHANGED <<now, pod, since, nextFire, sweptAt, unread>>
        /\ mode' = IF Due THEN "Running" ELSE mode
    BY <1>3 DEF SweepWake, GapInv, agent
  <2>2. CASE mode' = "Running"
    <3>1. nextFire # Absent /\ ~unread /\ pod = "gone" => now + Boot <= nextFire
      BY <1>1, <1>2, <2>1
    <3> QED
      BY <2>1, <2>2, <3>1
  <2>3. CASE mode' = "Suspended" /\ mode = "Suspended" /\ ~Due
    <3>1. anno = wakeAt /\ wakeAt' = wakeAt
      BY <1>3, <2>1, <2>3 DEF SweepWake, Awake, Sandbox
    <3>2. nextFire # Absent /\ ~unread => sweptAt < wakeAt
      BY <1>1, <1>2, <2>3, <3>1 DEF Due, Awake, Sandbox
    <3> QED
      BY <2>1, <2>3, <3>1, <3>2
  <2> QED
    BY <1>1, <2>1, <2>2, <2>3
<1>4. CASE SweepPoll
  <2>1. /\ pc = "idle" /\ sweptAt = now
        /\ UNCHANGED <<now, mode, pod, since, wakeAt, nextFire, sweptAt, unread>>
    BY <1>4 DEF SweepPoll, GapInv, sandbox, agent
  <2>2. CASE pc' = "rest"
    BY <2>1, <2>2
  <2>3. CASE pc' # "rest"
    <3>1. pc' = "cron" /\ mode = "Running" /\ pod = "ready" /\ sweptAt - since >= IdleTimeout
      BY <1>4, <2>3, PollSeen DEF Timely
    <3>2. since < now
      BY <1>1, <1>2, <2>1, <3>1
    <3> QED
      BY <2>1, <3>1, <3>2
  <2> QED
    BY <2>2, <2>3
<1>5. CASE SweepCron
  <2>1. /\ pc = "cron" /\ mode = "Running" /\ pod = "ready" /\ since < now
        /\ UNCHANGED <<now, mode, pod, since, wakeAt, nextFire, sweptAt>>
    BY <1>5 DEF SweepCron, sandbox, agent
  <2>2. nextFire # Absent => nextFire >= now
    BY <1>1, <2>1
  <2>3. CASE pc' = "rest"
    BY <2>1, <2>2, <2>3
  <2>4. CASE pc' # "rest"
    <3> DEFINE cron == DecideCron(nextFire, sweptAt, Horizon, Margin)
    <3>1. /\ cron.ok /\ plan' = cron.wakeAt
          /\ pc' = IF cron.wakeAt = Absent THEN "suspend" ELSE "stamp"
      BY <1>5, <2>4 DEF SweepCron
    <3>2. CASE nextFire = Absent
      <4>1. pc' = "suspend"
        BY <3>1, <3>2 DEF DecideCron
      <4> QED
        BY <2>1, <3>2, <4>1
    <3>3. CASE nextFire # Absent
      <4>1. nextFire - sweptAt > Horizon /\ cron.wakeAt = nextFire - Margin
        BY <1>1, <1>2, <3>1, <3>3 DEF DecideCron
      <4>2. pc' = "stamp"
        BY <1>1, <1>2, <3>1, <3>3, <4>1
      <4> QED
        BY <2>1, <2>2, <3>1, <4>1, <4>2
    <3> QED
      BY <3>2, <3>3
  <2> QED
    BY <2>3, <2>4
<1>6. CASE SweepStamp
  BY <1>6 DEF SweepStamp, agent, history
<1>7. CASE SweepSuspend
  <2>1. /\ pc = "suspend" /\ pc' = "rest" /\ mode' = "Suspended" /\ pod = "ready" /\ sweptAt = now
        /\ UNCHANGED <<now, pod, since, wakeAt, nextFire, sweptAt, unread>>
    BY <1>7 DEF SweepSuspend, GapInv, agent, history
  <2>2. ASSUME nextFire # Absent, ~unread
        PROVE  wakeAt = nextFire - Margin /\ now < wakeAt
    BY <1>1, <1>2, <2>1, <2>2
  <2>3. nextFire # Absent /\ ~unread => now < wakeAt + Interval
    BY <1>1, <1>2, <2>2
  <2> QED
    BY <2>1, <2>2, <2>3
<1> QED
  BY <1>3, <1>4, <1>5, <1>6, <1>7

(* Every step keeps the wake of a session that sleeps before a fire.       *)
LEMMA NextCronInv ==
  ASSUME Timely PROVE TypeOK /\ GapInv /\ CronInv /\ [Next]_vars => CronInv'
<1> SUFFICES ASSUME TypeOK, GapInv, CronInv, [Next]_vars PROVE CronInv'
  OBVIOUS
<1>1. /\ now \in Nat /\ sweptAt \in Nat /\ sweptAt <= now /\ since \in Nat /\ since <= now
      /\ nextFire \in Nat \cup {Absent} /\ wakeAt \in Int \cup {Absent}
      /\ mode \in {"Running", "Suspended"} /\ pod \in {"booting", "ready", "gone"}
      /\ pc \in {"start", "rest", "listed", "idle", "cron", "stamp", "suspend"}
  BY TimesAssumption DEF TypeOK, Time
<1>2. /\ {Interval, Boot, Margin, Horizon} \subseteq Nat \ {0} /\ Absent \notin Int
      /\ Interval + Boot <= Margin /\ Margin <= Horizon
  BY TimesAssumption, LoadAssumption, AbsentAssumption DEF Timely, CronGuarded, Load
<1> USE DEF CronInv, CronServed, Decided
<1>3. CASE /\ UNCHANGED <<now, mode, pod, since, wakeAt, pc, sweptAt, anno, plan>>
           /\ \/ UNCHANGED <<nextFire, unread>>
              \/ nextFire' = Absent
  BY <1>3
<1>4. CASE PodStop
  BY <1>4 DEF PodStop, agent, sweep
<1>5. CASE PodStart
  BY <1>1, <1>2, <1>5 DEF PodStart, agent, sweep, history
<1>6. CASE PodReady
  BY <1>6 DEF PodReady, sweep, history
<1>7. CASE Message
  BY <1>1, <1>2, <1>7 DEF Message, agent, sweep, history
<1>8. CASE Work
  <2>1. CASE nextFire' = nextFire
    BY <1>3, <1>8, <2>1 DEF Work, sandbox, sweep
  <2>2. CASE nextFire' # nextFire
    <3>1. /\ pod = "ready" /\ nextFire' >= now
          /\ unread' = (pc \in {"stamp", "suspend"} \/ mode = "Suspended")
      BY <1>1, <1>8, <2>2, TimesAssumption DEF Work
    <3> QED
      BY <1>1, <1>8, <3>1 DEF Work, sandbox, sweep
  <2> QED
    BY <2>1, <2>2
<1>9. CASE SweepList
  BY <1>9 DEF SweepList, sandbox, agent
<1>10. CASE SweepWake \/ SweepPoll \/ SweepCron \/ SweepStamp \/ SweepSuspend
  BY <1>10, SweepKeepsCronInv
<1>11. CASE Restart
  BY <1>11 DEF Restart, sandbox, agent
<1>12. CASE Tick
  <2>1. /\ now' = now + 1 /\ pc = "rest" /\ now - sweptAt < Interval /\ ~Fires
        /\ mode = "Suspended" <=> pod = "gone"
        /\ pod = "booting" => now - since < Boot
        /\ UNCHANGED <<mode, pod, since, wakeAt, nextFire, pc, sweptAt, anno, plan, unread>>
    BY <1>12 DEF Tick, sandbox, agent, sweep, history
  <2>2. pod = "ready" /\ nextFire # Absent => nextFire > now
    BY <1>1, <2>1 DEF Fires
  <2>3. nextFire # Absent /\ ~unread => nextFire > now
    BY <1>1, <1>2, <2>1, <2>2
  <2>4. (nextFire # Absent /\ ~unread /\ mode = "Suspended") => now + 1 < wakeAt + Interval
    BY <1>1, <1>2, <2>1
  <2> QED
    BY <1>1, <1>2, <2>1, <2>2, <2>3, <2>4
<1>13. CASE TurnStarts \/ TurnEnds \/ CronFires \/ ActivityLost \/ UNCHANGED vars
  BY <1>3, <1>13 DEF TurnStarts, TurnEnds, CronFires, ActivityLost, vars, sandbox, agent, sweep,
     history
<1> QED
  BY <1>4, <1>5, <1>6, <1>7, <1>8, <1>9, <1>10, <1>11, <1>12, <1>13 DEF Next

(* No cron fire that was set when the schedule was read is missed          *)
(* (idle.go:106), through outages of any kind, if the schedule is read at  *)
(* all and a sweep and a boot together fit into the margin.                *)
THEOREM FiresServed == ASSUME Timely PROVE Spec => []CronServed
<1>1. Init => GapInv /\ CronInv
  BY TimesAssumption DEF Init, GapInv, CronInv, CronServed, Decided
<1>2. CronInv => CronServed
  BY DEF CronInv
<1> QED
  BY <1>1, <1>2, TypeCorrect, NextGapInv, NextCronInv, PTL DEF Spec
-----------------------------------------------------------------------------
(* Idle sessions                                                           *)

(* The last disturbance is the latest of the three.                        *)
LEMMA DisturbedIsLast ==
  ASSUME TypeOK
  PROVE  /\ Disturbed \in Nat /\ Disturbed <= now
         /\ since <= Disturbed /\ active <= Disturbed /\ upset <= Disturbed
BY TimesAssumption DEF TypeOK, Time, Disturbed, Later

(* A guard of the gate that an unused session does not satisfy names what  *)
(* it waits for.                                                           *)
LEMMA WaitsFor ==
  ASSUME TypeOK, Unused, inst = Listed, NEW report, NEW quiet,
         ~DecideIdle(Input(report, quiet))
  PROVE  \/ ~(sweptAt - since >= IdleTimeout)
         \/ ~(sweptAt - relay >= IdleTimeout)
         \/ StatusEnabled /\ (report = Absent \/ Busy(report))
         \/ StatusEnabled /\ (quiet = Absent \/ ~(sweptAt - quiet >= IdleTimeout))
<1>1. Sandbox # Absent /\ Settled(Sandbox)
  <2>1. Sandbox \in SandboxRead
    BY TimesAssumption DEF Sandbox, SandboxRead, TypeOK, Time
  <2>2. Settled(Sandbox)
    BY DEF Settled, Derive, Facts, Sandbox, Unused
  <2> QED
    BY <2>1, <2>2, NilAssumption
<1>2. Sandbox.readyChanged = since /\ since # Absent
  BY TimesAssumption, AbsentAssumption DEF Sandbox, TypeOK, Time
<1>3. /\ inst # Absent /\ ~inst.revoked /\ ~inst.turnInFlight
      /\ inst.lastIn = relay /\ inst.lastOut = relay /\ inst.buffered = 0
  BY ListedType DEF Listed, Unused
<1>4. relay # Absent /\ Later(relay, relay) = relay /\ IdleTimeout > 0
  BY TimesAssumption DEF Unused, Later
<1> QED
  BY <1>1, <1>2, <1>3, <1>4 DEF DecideIdle, Input

(* What a poll does to the quiet clock, and why the sweep may stop at it.  *)
LEMMA PollKeepsSleepInv ==
  ASSUME TypeOK, TypeOK', GapInv, SleepInv, SweepPoll
  PROVE  SleepInv'
<1> DEFINE last == Disturbed'
<1>1. /\ pc = "idle" /\ sweptAt = now /\ inst # Absent /\ pc' \in {"rest", "cron", "suspend"}
      /\ UNCHANGED <<now, mode, pod, since, relay, turn, buffered, active, nextFire, sweptAt>>
  BY PollType DEF SweepPoll, GapInv, sandbox, gateway, agent
<1>2. /\ now \in Nat /\ sweptAt \in Nat /\ since \in Nat /\ active \in Nat
      /\ relay \in Nat \cup {Absent} /\ quietSince \in Nat \cup {Absent}
      /\ {Interval, Recency, IdleTimeout} \subseteq Nat \ {0} /\ Absent \notin Int
      /\ mode \in {"Running", "Suspended"} /\ upset \in Nat /\ upset <= now
  BY TimesAssumption, AbsentAssumption DEF TypeOK, Time
<1>3. /\ last \in Nat /\ last <= now /\ since <= last /\ active <= last /\ upset' <= last
  BY <1>1, TimesAssumption DEF Disturbed, Later, TypeOK, Time
<1>4. upset' = now \/ upset' = upset
  BY DEF SweepPoll, SweepIdle
<1>5. Disturbed <= last
  BY <1>1, <1>2, <1>4, TimesAssumption DEF Disturbed, Later, TypeOK, Time
<1>6. upset' = now => last = now
  BY <1>2, <1>3
<1>7. mode = "Suspended" /\ pod = "ready" => last = now /\ upset' = now
  BY <1>1, <1>2, <1>3, <1>4 DEF SleepInv
<1> HIDE DEF last
<1>8. now < last + Recency => UpInTime(Recency)'
  BY <1>1, <1>2, <1>3 DEF UpInTime, last
<1>9. \/ now < last + (Recency + Interval + IdleTimeout)
      \/ pc' # "rest" /\ now < last + (Recency + Interval + IdleTimeout) + Interval
      => UpInTime(Recency + Interval + IdleTimeout)'
  BY <1>1, <1>2, <1>3 DEF UpInTime, last
<1>10. SUFFICES
         /\ quietSince' # Absent => quietSince' < last + Recency + Interval
         /\ StatusEnabled /\ mode = "Running" /\ pod = "ready" /\ ~turn /\ quietSince' = Absent
              => now < last + Recency
         /\ Unused' => \/ now < last + (Recency + Interval + IdleTimeout)
                       \/ pc' # "rest" /\ now < last + (Recency + Interval + IdleTimeout) + Interval
  <2>1. pc' # "rest" /\ StatusEnabled => quietSince' # Absent
    BY PollSeen
  <2> QED
    BY <1>1, <1>7, <1>8, <1>9, <2>1 DEF SleepInv, Decided, last
<1>11. quietSince # Absent => quietSince < last + Recency + Interval
  BY <1>2, <1>3, <1>5, DisturbedIsLast DEF SleepInv
<1>12. Unused' <=> Unused
  BY <1>1 DEF Unused
<1>13. PICK report \in Observed \cup {Absent} : SweepIdle(report)
  BY DEF SweepPoll
<1> DEFINE quiet == IF StatusEnabled THEN TrackQuiet(quietSince, report, sweptAt) ELSE Absent
           idle  == DecideIdle(Input(report, quiet))
<1>14. /\ quietSince' = quiet
       /\ pc' = "rest" => ~idle
       /\ Observed # {} /\ report = Absent => upset' = now
  BY <1>13 DEF SweepIdle
<1>15. StatusEnabled /\ mode = "Running" /\ pod = "ready" => Observed = {Status}
  BY DEF Observed, Settled, Derive, Facts, Sandbox
<1>16. ASSUME report # Absent
       PROVE  /\ report = Status /\ StatusEnabled
              /\ mode = "Running" /\ pod = "ready"
  BY <1>2, <1>13, <1>16 DEF Observed, Settled, Derive, Facts, Sandbox
<1>17. Busy(Status) <=> turn \/ now < active + Recency
  BY <1>2 DEF Busy, Status, TypeOK
<1>18. quietSince' # Absent => quietSince' < last + Recency + Interval
  <2>1. CASE quiet = quietSince
    BY <1>11, <1>14, <2>1
  <2>2. CASE quiet # quietSince /\ quiet # Absent
    <3>1. /\ quiet = sweptAt /\ quietSince = Absent /\ report # Absent /\ ~Busy(report)
      BY <2>2 DEF TrackQuiet
    <3>2. UpInTime(Recency)
      BY <1>16, <1>17, <3>1 DEF SleepInv
    <3>3. now < Disturbed + Recency + Interval
      BY <1>1, <3>2 DEF UpInTime
    <3> QED
      BY <1>1, <1>2, <1>3, <1>5, <1>14, <3>1, <3>3, DisturbedIsLast
  <2> QED
    BY <1>14, <2>1, <2>2
<1>19. ASSUME StatusEnabled, mode = "Running", pod = "ready", ~turn, quietSince' = Absent
       PROVE  now < last + Recency
  <2>1. CASE report = Absent
    BY <1>2, <1>6, <1>14, <1>15, <1>19, <2>1
  <2>2. CASE report # Absent
    <3>1. Busy(report)
      BY <1>1, <1>2, <1>14, <1>19, <2>2 DEF TrackQuiet
    <3> QED
      BY <1>2, <1>3, <1>16, <1>17, <1>19, <2>2, <3>1
  <2> QED
    BY <2>1, <2>2
<1>20. ASSUME Unused
       PROVE  \/ now < last + (Recency + Interval + IdleTimeout)
              \/ pc' # "rest" /\ now < last + (Recency + Interval + IdleTimeout) + Interval
  <2>1. /\ mode = "Running" /\ pod = "ready" /\ ~turn /\ relay # Absent
    BY <1>20 DEF Unused
  <2>2. CASE last = now
    BY <1>2, <2>2
  <2>3. CASE last # now /\ pc' # "rest"
    <3>1. UpInTime(Recency + Interval + IdleTimeout)
      BY <1>20 DEF SleepInv
    <3>2. now < Disturbed + (Recency + Interval + IdleTimeout) + Interval
      BY <1>1, <3>1 DEF UpInTime
    <3> QED
      BY <1>2, <1>3, <1>5, <2>3, <3>2, DisturbedIsLast
  <2>4. CASE last # now /\ pc' = "rest"
    <3>1. upset' # now /\ Disturbed # now
      BY <1>2, <1>3, <1>5, <1>6, <2>4, DisturbedIsLast
    <3>2. inst = Listed
      BY <1>1, <1>20, <3>1 DEF SleepInv
    <3>3. \/ ~(sweptAt - since >= IdleTimeout)
          \/ ~(sweptAt - relay >= IdleTimeout)
          \/ StatusEnabled /\ (report = Absent \/ Busy(report))
          \/ StatusEnabled /\ (quiet = Absent \/ ~(sweptAt - quiet >= IdleTimeout))
      BY <1>14, <1>20, <2>4, <3>2, WaitsFor
    <3>4. relay \in Nat /\ relay <= active
      BY <1>2, <2>1 DEF SleepInv
    <3>5. CASE ~(sweptAt - since >= IdleTimeout) \/ ~(sweptAt - relay >= IdleTimeout)
      BY <1>1, <1>2, <1>3, <3>4, <3>5
    <3>6. CASE StatusEnabled /\ (report = Absent \/ Busy(report))
      <4>1. report # Absent
        BY <1>14, <1>15, <2>1, <3>1, <3>6
      <4>2. now < active + Recency
        BY <1>16, <1>17, <2>1, <3>6, <4>1
      <4> QED
        BY <1>2, <1>3, <4>2
    <3>7. CASE StatusEnabled /\ quiet = Absent
      BY <1>2, <1>3, <1>14, <1>19, <2>1, <3>7
    <3>8. CASE StatusEnabled /\ quiet # Absent /\ ~(sweptAt - quiet >= IdleTimeout)
      <4>1. quiet \in Nat
        BY <1>2, <3>8, TrackQuietType
      <4> QED
        BY <1>1, <1>2, <1>3, <1>14, <1>18, <3>8, <4>1
    <3> QED
      BY <3>3, <3>5, <3>6, <3>7, <3>8
  <2> QED
    BY <2>2, <2>3, <2>4
<1> QED
  BY <1>12, <1>18, <1>19, <1>20

(* The calls of a sweep before and after the poll.                         *)
LEMMA SweepKeepsSleepInv ==
  ASSUME TypeOK, TypeOK', GapInv, SleepInv,
         SweepWake \/ SweepCron \/ SweepStamp \/ SweepSuspend
  PROVE  SleepInv'
<1>1. /\ pc \notin {"start", "rest"} /\ sweptAt = now
      /\ UNCHANGED <<now, pod, since, relay, turn, buffered, active, nextFire, sweptAt, inst,
                     quietSince>>
  BY DEF SweepWake, SweepCron, SweepStamp, SweepSuspend, GapInv, sandbox, gateway, agent
<1>2. /\ now \in Nat /\ active \in Nat /\ since \in Nat /\ upset \in Nat /\ upset <= now
      /\ quietSince \in Nat \cup {Absent}
      /\ {Interval, Recency, IdleTimeout} \subseteq Nat \ {0} /\ Absent \notin Int
      /\ mode \in {"Running", "Suspended"} /\ mode' \in {"Running", "Suspended"}
  BY TimesAssumption, AbsentAssumption DEF TypeOK, Time
<1>3. /\ Disturbed \in Nat /\ Disturbed' \in Nat /\ Disturbed <= Disturbed' /\ Disturbed' <= now
      /\ upset' = now => Disturbed' = now
      /\ upset = now => Disturbed = now
  <2>1. upset' = now \/ upset' = upset
    BY DEF SweepWake, SweepCron, SweepStamp, SweepSuspend, history
  <2> QED
    BY <1>1, <2>1, TimesAssumption DEF Disturbed, Later, TypeOK, Time
<1>4. /\ relay' # Absent => relay' <= active'
      /\ quietSince' # Absent => quietSince' < Disturbed' + Recency + Interval
  BY <1>1, <1>2, <1>3 DEF SleepInv, Decided
<1>5. ASSUME Disturbed' = now
      PROVE  UpInTime(Recency)' /\ UpInTime(Recency + Interval + IdleTimeout)'
  BY <1>1, <1>2, <1>5 DEF UpInTime
<1>6. ASSUME NEW limit \in Nat, UpInTime(limit), pc' # "rest" PROVE UpInTime(limit)'
  BY <1>1, <1>2, <1>3, <1>6 DEF UpInTime
<1>7. CASE SweepWake
  <2>1. /\ pc = "listed" /\ pc' \in {"rest", "idle"}
        /\ pc' = "rest" => upset' = now
        /\ pc' = "idle" => upset' = upset
        /\ mode' = mode \/ (mode' = "Running" /\ mode = "Suspended")
    BY <1>2, <1>7 DEF SweepWake
  <2>2. mode = "Suspended" /\ pod = "ready" => upset = now
    BY <2>1 DEF SleepInv, Decided
  <2>3. CASE Disturbed' = now
    <3>1. mode' = "Suspended" /\ pod = "ready" => upset' = now
      BY <2>1, <2>2
    <3> QED
      BY <1>1, <1>4, <1>5, <2>1, <2>3, <3>1 DEF SleepInv, Decided
  <2>4. CASE Disturbed' # now
    <3>1. pc' = "idle" /\ upset' = upset /\ ~(mode = "Suspended" /\ pod = "ready")
      BY <1>2, <1>3, <2>1, <2>2, <2>4
    <3>2. /\ pod = "ready" => mode = "Running" /\ mode' = "Running"
          /\ Unused' => Unused
          /\ Listed' = Listed /\ Disturbed # now
      BY <1>1, <1>2, <1>3, <2>1, <2>4, <3>1 DEF Unused, Listed
    <3>3. UpInTime(Recency) => UpInTime(Recency)'
      BY <1>2, <1>6, <3>1
    <3>4. UpInTime(Recency + Interval + IdleTimeout) => UpInTime(Recency + Interval + IdleTimeout)'
      <4>1. Recency + Interval + IdleTimeout \in Nat
        BY <1>2
      <4> QED
        BY <1>6, <3>1, <4>1
    <3> QED
      BY <1>1, <1>4, <2>1, <3>1, <3>2, <3>3, <3>4 DEF SleepInv, Decided
  <2> QED
    BY <2>3, <2>4
<1>8. CASE SweepCron \/ SweepStamp
  <2>1. /\ pc \in {"cron", "stamp"} /\ pc' \in {"rest", "stamp", "suspend"} /\ mode' = mode
        /\ pc' = "rest" => upset' = now \/ nextFire # Absent
    BY <1>8 DEF SweepCron, SweepStamp, DecideCron, sandbox
  <2>2. mode = "Suspended" /\ pod = "ready" => upset = now /\ upset' = now
    BY <1>8, <2>1 DEF SleepInv, SweepCron, SweepStamp, history
  <2>3. CASE Disturbed' = now
    BY <1>1, <1>4, <1>5, <2>1, <2>2, <2>3 DEF SleepInv, Decided
  <2>4. CASE Disturbed' # now /\ pc' # "rest"
    <3>1. Unused' => Unused
      BY <1>1, <2>1 DEF Unused
    <3>2. UpInTime(Recency) => UpInTime(Recency)'
      BY <1>2, <1>6, <2>4
    <3>3. UpInTime(Recency + Interval + IdleTimeout) => UpInTime(Recency + Interval + IdleTimeout)'
      <4>1. Recency + Interval + IdleTimeout \in Nat
        BY <1>2
      <4> QED
        BY <1>6, <2>4, <4>1
    <3> QED
      BY <1>1, <1>4, <2>1, <2>2, <2>4, <3>1, <3>2, <3>3 DEF SleepInv, Decided
  <2>5. CASE pc' = "rest" /\ nextFire # Absent
    <3>1. Decided /\ ~Unused'
      BY <1>1, <2>1, <2>5 DEF Decided, Unused
    <3> QED
      BY <1>1, <1>4, <2>1, <2>2, <2>5, <3>1 DEF SleepInv, Decided
  <2> QED
    BY <1>3, <2>1, <2>3, <2>4, <2>5
<1>9. CASE SweepSuspend
  <2>1. mode' = "Suspended" /\ pc' = "rest"
    BY <1>9 DEF SweepSuspend
  <2> QED
    BY <1>1, <1>4, <2>1 DEF SleepInv, Decided, Unused
<1> QED
  BY <1>7, <1>8, <1>9

(* Every step keeps the quiet clock in time.                               *)
LEMMA NextSleepInv == TypeOK /\ TypeOK' /\ GapInv /\ SleepInv /\ [Next]_vars => SleepInv'
<1> SUFFICES ASSUME TypeOK, TypeOK', GapInv, SleepInv, [Next]_vars PROVE SleepInv'
  OBVIOUS
<1>1. /\ now \in Nat /\ sweptAt \in Nat /\ sweptAt <= now /\ since \in Nat /\ since <= now
      /\ active \in Nat /\ active <= now /\ upset \in Nat /\ upset <= now
      /\ relay \in Nat \cup {Absent} /\ quietSince \in Nat \cup {Absent}
      /\ {Interval, Recency, IdleTimeout} \subseteq Nat \ {0} /\ Absent \notin Int
      /\ mode \in {"Running", "Suspended"}
      /\ pc \in {"start", "rest", "listed", "idle", "cron", "stamp", "suspend"}
  BY TimesAssumption, AbsentAssumption DEF TypeOK, Time
<1>2. /\ Disturbed \in Nat /\ Disturbed <= now
  BY DisturbedIsLast
<1>3. CASE UNCHANGED vars
  BY <1>3 DEF vars, sandbox, gateway, agent, sweep, history, SleepInv, Decided, UpInTime, Disturbed,
     Unused, Listed
<1>4. CASE PodReady \/ TurnStarts \/ TurnEnds \/ Work \/ CronFires
  <2>1. /\ active' = now
        /\ UNCHANGED <<now, mode, upset, pc, sweptAt, inst, quietSince>>
        /\ pod' = pod \/ mode = "Running"
        /\ relay' \in {relay, now} /\ since' \in {since, now}
    BY <1>4 DEF PodReady, TurnStarts, TurnEnds, Work, CronFires, sandbox, gateway, sweep, history
  <2>2. Disturbed' = now
    BY <1>1, <2>1 DEF Disturbed, Later
  <2>3. UpInTime(Recency)' /\ UpInTime(Recency + Interval + IdleTimeout)'
    BY <1>1, <2>1, <2>2 DEF UpInTime
  <2>4. quietSince # Absent => quietSince < now + Recency + Interval
    BY <1>1, <1>2 DEF SleepInv, Decided
  <2>5. relay' # Absent => relay' <= active'
    BY <1>1, <2>1 DEF SleepInv, Decided
  <2> QED
    BY <2>1, <2>2, <2>3, <2>4, <2>5 DEF SleepInv, Decided
<1>5. CASE PodStop \/ PodStart \/ Message
  <2>1. /\ UNCHANGED <<now, relay, active, upset, pc, sweptAt, inst, quietSince>>
        /\ pod' # "ready" /\ since' \in {since, now}
    BY <1>5 DEF PodStop, PodStart, Message, gateway, agent, sweep, history
  <2>2. Disturbed <= Disturbed' /\ Disturbed' \in Nat
    BY <1>1, <2>1 DEF Disturbed, Later
  <2>3. quietSince # Absent => quietSince < Disturbed' + Recency + Interval
    BY <1>1, <1>2, <2>2 DEF SleepInv, Decided
  <2> QED
    BY <2>1, <2>3 DEF SleepInv, Decided, Unused
<1>6. CASE ActivityLost
  BY <1>6 DEF ActivityLost, sandbox, agent, sweep, history, SleepInv, Decided, UpInTime,
     Disturbed, Unused
<1>7. CASE SweepList
  <2>1. /\ pc' = "listed" /\ sweptAt' = now
        /\ UNCHANGED <<now, mode, pod, since, relay, turn, buffered, active, nextFire, quietSince,
                       upset>>
        /\ inst' = Listed \/ inst' = Absent
        /\ pc = "start" \/ (pc = "rest" /\ sweptAt < now)
    BY <1>7 DEF SweepList, sandbox, gateway, agent
  <2>2. Disturbed' = Disturbed /\ Listed' = Listed /\ (Unused' <=> Unused)
    BY <2>1 DEF Disturbed, Listed, Unused
  <2>3. ASSUME NEW limit \in Nat, UpInTime(limit) PROVE now < Disturbed + limit + Interval
    BY <1>1, <1>2, <2>1, <2>3 DEF UpInTime, GapInv
  <2>4. UpInTime(Recency) => UpInTime(Recency)'
    BY <1>1, <2>1, <2>2, <2>3 DEF UpInTime
  <2>5. UpInTime(Recency + Interval + IdleTimeout) => UpInTime(Recency + Interval + IdleTimeout)'
    <3>1. Recency + Interval + IdleTimeout \in Nat
      BY <1>1
    <3> QED
      BY <2>1, <2>2, <2>3, <3>1 DEF UpInTime
  <2>6. mode = "Suspended" /\ pod = "ready" => upset = now
    BY <1>1, <2>1 DEF SleepInv, Decided
  <2> QED
    BY <2>1, <2>2, <2>4, <2>5, <2>6 DEF SleepInv, Decided
<1>8. CASE SweepPoll \/ SweepWake \/ SweepCron \/ SweepStamp \/ SweepSuspend
  BY <1>8, PollKeepsSleepInv, SweepKeepsSleepInv
<1>9. CASE Restart
  <2>1. /\ upset' = now /\ pc' = "start" /\ quietSince' = Absent
        /\ UNCHANGED <<now, since, active, relay>>
    BY <1>9 DEF Restart, sandbox, gateway, agent
  <2>2. Disturbed' = now
    BY <1>1, <2>1 DEF Disturbed, Later
  <2>3. UpInTime(Recency)' /\ UpInTime(Recency + Interval + IdleTimeout)'
    BY <1>1, <2>1, <2>2 DEF UpInTime
  <2> QED
    BY <2>1, <2>3 DEF SleepInv, Decided
<1>10. CASE Tick
  <2>1. /\ pc = "rest" /\ ~(mode = "Suspended" /\ pod = "ready")
        /\ UNCHANGED <<mode, pod, since, relay, turn, buffered, active, nextFire, pc, sweptAt,
                       inst, quietSince, upset>>
    BY <1>10 DEF Tick, sandbox, gateway, agent, sweep, history
  <2>2. Disturbed' = Disturbed /\ (Unused' <=> Unused)
    BY <2>1 DEF Disturbed, Unused
  <2>3. /\ UpInTime(Recency) => UpInTime(Recency)'
        /\ UpInTime(Recency + Interval + IdleTimeout) => UpInTime(Recency + Interval + IdleTimeout)'
    BY <2>1, <2>2 DEF UpInTime
  <2> QED
    BY <2>1, <2>2, <2>3 DEF SleepInv, Decided
<1> QED
  BY <1>3, <1>4, <1>5, <1>6, <1>7, <1>8, <1>9, <1>10 DEF Next

(* A session that nobody uses is suspended within IdleLimit from its last  *)
(* activity and the last outage (runner.go:233), for every configuration.  *)
THEOREM SleepsInTime == Spec => []SuspendedInTime
<1>1. Init => GapInv
  BY TimesAssumption DEF Init, GapInv
<1>2. Init => SleepInv
  BY TimesAssumption DEF Init, SleepInv, Decided, UpInTime, Disturbed, Later, Unused
<1>3. TypeOK /\ GapInv /\ SleepInv => SuspendedInTime
  <2> SUFFICES ASSUME TypeOK, GapInv, SleepInv, Unused PROVE now - Disturbed <= IdleLimit
    BY DEF SuspendedInTime
  <2>1. UpInTime(Recency + Interval + IdleTimeout)
    BY DEF SleepInv, Decided
  <2>2. /\ now \in Nat /\ sweptAt \in Nat
        /\ {Interval, Recency, IdleTimeout} \subseteq Nat \ {0}
    BY TimesAssumption DEF TypeOK, Time
  <2> QED
    BY <2>1, <2>2, DisturbedIsLast DEF UpInTime, GapInv, IdleLimit
<1> QED
  BY <1>1, <1>2, <1>3, TypeCorrect, NextGapInv, NextSleepInv, PTL DEF Spec
=============================================================================
