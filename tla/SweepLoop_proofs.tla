-------------------------- MODULE SweepLoop_proofs --------------------------
(***************************************************************************)
(* Proofs about SweepLoop, for every number of sessions, every length of   *)
(* intervals and timeouts and every set of lifetimes asked for: the type   *)
(* invariant, that no session ends before its time if the lifetimes fit    *)
(* into a time.Duration, and that none ends or wakes late, but for purges  *)
(* that fail, if the deadline of a sweep has room for what all pods cost.  *)
(***************************************************************************)
EXTENDS SweepLoop, TLAPS

-----------------------------------------------------------------------------
(* The inductive invariants behind EndsInTime and AwakeInTime              *)

(* What a turn of the loop takes at most: the purge, the poll and the three*)
(* requests behind one that finds the pod idle.                            *)
Cost == Fetch + 4 * Poll

(* The last session in the list has its turn, and its purge its time.      *)
Roomy == 2 * Fetch + (Sessions - 1) * Cost < Cycle

PaceInv ==
  /\ sweptAt <= started + Cycle
  /\ IF AtRest
     THEN listed = {} /\ now <= started + Interval /\ started <= sweptAt + Cycle
     ELSE /\ started <= sweptAt /\ now <= started + Cycle
          /\ now <= started + Fetch + (next - 1) * Cost
          /\ \A i \in listed : next <= i /\ claim[i] # Absent

(* A session that has had its turn, or came too late for it, is not due by *)
(* the sweep's "now", or its purge has failed since; one still to come was *)
(* not by that of the last sweep.                                          *)
EndAhead(i) ==
  claim[i] # Absent /\ Promised(i) > 0 =>
     IF i \in listed THEN started <= EndDue(i) + Interval + Cycle
     ELSE sweptAt < claim[i].born + Promised(i) \/ sweptAt <= putOff[i]

WakeAhead(i) ==
  wakeAt[i] # Absent =>
     /\ claim[i] # Absent
     /\ IF i \in listed THEN started <= wakeAt[i] + Interval + Cycle
        ELSE sweptAt <= wakeAt[i]

TurnInv == \A i \in Ids : EndAhead(i) /\ WakeAhead(i)

-----------------------------------------------------------------------------
(* Types                                                                   *)

(* A call takes no time back.                                              *)
LEMMA AfterType ==
  ASSUME NEW t \in Nat, NEW d \in Nat, started \in Nat, Cycle \in Nat
  PROVE  After(t, d) \in Nat /\ After(t, d) >= t
BY DEF After, Late, Later

(* The quiet clock is stopped, as it was, or set to the sweep's "now".     *)
LEMMA TrackQuietType ==
  ASSUME NEW quiet, NEW report, NEW t
  PROVE  TrackQuiet(quiet, report, t) \in {Absent, quiet, t}
BY DEF TrackQuiet

(* The last part of a turn.                                                *)
LEMMA TreatIdleType ==
  ASSUME TypeOK, NEW i \in Ids, NEW ends, NEW settled, NEW report, NEW t \in Nat, t >= now,
         TreatIdle(i, ends, settled, report, t)
  PROVE  /\ now' \in Time /\ now' >= t
         /\ quietSince' \in [Ids -> 0 .. now \cup {Absent}]
         /\ claim' \in [Ids -> Claim \cup {Absent}]
         /\ readyAt' \in [Ids -> 0 .. now \cup {Absent}]
         /\ wakeAt' \in [Ids -> Nat \cup {Absent}]
<1>1. /\ now \in Nat /\ started \in Nat /\ sweptAt \in 0 .. now /\ sweptAt \in Nat
      /\ Cycle \in Nat /\ Poll \in Nat /\ WakeAfter \subseteq Nat
  BY TimesAssumption DEF TypeOK, Time
<1> DEFINE quiet == TrackQuiet(quietSince[i], report, sweptAt)
<1>2. quiet \in 0 .. now \cup {Absent}
  BY <1>1, TrackQuietType DEF TypeOK
<1> HIDE DEF quiet
<1>3. PICK d \in {0} \cup {3 * r : r \in RequestTimes} :
        /\ now' = After(t, d) /\ now' \in Time
        /\ quietSince' = [quietSince EXCEPT ![i] = quiet]
        /\ claim' = [claim EXCEPT ![i] = IF ends THEN Absent ELSE @]
        /\ \/ /\ readyAt' = [readyAt EXCEPT ![i] = Absent]
              /\ \E f \in WakeAfter : wakeAt' = [wakeAt EXCEPT ![i] = sweptAt + f]
           \/ /\ readyAt' = [readyAt EXCEPT ![i] = IF ends THEN Absent ELSE @]
              /\ wakeAt' = [wakeAt EXCEPT ![i] = IF Wakes(i) \/ ends THEN Absent ELSE @]
  BY DEF TreatIdle, quiet
<1>4. d \in Nat
  BY <1>1, <1>3 DEF RequestTimes
<1>5. now' >= t
  BY <1>1, <1>3, <1>4, AfterType
<1>6. quietSince' \in [Ids -> 0 .. now \cup {Absent}]
  BY <1>2, <1>3 DEF TypeOK
<1>7. /\ claim' \in [Ids -> Claim \cup {Absent}]
      /\ readyAt' \in [Ids -> 0 .. now \cup {Absent}]
  BY <1>3 DEF TypeOK
<1>8. wakeAt' \in [Ids -> Nat \cup {Absent}]
  BY <1>1, <1>3 DEF TypeOK
<1> QED
  BY <1>3, <1>5, <1>6, <1>7, <1>8

(* What a turn is made of: how its purge went, the poll, and the rest.      *)
LEMMA TreatCalls ==
  ASSUME NEW i \in Ids, Treat(i)
  PROVE  \E purge \in PurgeTimes(i) : \E ends \in Ends(i, purge) :
           /\ putOff' = [putOff EXCEPT ![i] = IF ends THEN 0
                                             ELSE IF PutsOff(i, purge, ends)
                                                  THEN After(now, purge) ELSE @]
           /\ \E settled \in BOOLEAN :
              \E d \in IF settled THEN RequestTimes ELSE {0} :
              \E report \in IF settled THEN Polled(After(now, purge), d) ELSE {Absent} :
                TreatIdle(i, ends, settled, report, After(After(now, purge), d))
<1>1. PICK purge \in PurgeTimes(i) : \E ends \in Ends(i, purge) :
        /\ putOff' = [putOff EXCEPT ![i] = IF ends THEN 0
                                          ELSE IF PutsOff(i, purge, ends)
                                               THEN After(now, purge) ELSE @]
        /\ \E settled \in {readyAt[i] # Absent /\ ~Late(After(now, purge))}
                            \cup (IF ends THEN {FALSE} ELSE {}) :
           \E d \in IF settled THEN RequestTimes ELSE {0} :
           \E report \in IF settled THEN Polled(After(now, purge), d) ELSE {Absent} :
             TreatIdle(i, ends, settled, report, After(After(now, purge), d))
  BY DEF Treat
<1>2. PICK ends \in Ends(i, purge) :
        /\ putOff' = [putOff EXCEPT ![i] = IF ends THEN 0
                                          ELSE IF PutsOff(i, purge, ends)
                                               THEN After(now, purge) ELSE @]
        /\ \E settled \in {readyAt[i] # Absent /\ ~Late(After(now, purge))}
                            \cup (IF ends THEN {FALSE} ELSE {}) :
           \E d \in IF settled THEN RequestTimes ELSE {0} :
           \E report \in IF settled THEN Polled(After(now, purge), d) ELSE {Absent} :
             TreatIdle(i, ends, settled, report, After(After(now, purge), d))
  BY <1>1
<1>3. \A b \in {readyAt[i] # Absent /\ ~Late(After(now, purge))}
               \cup (IF ends THEN {FALSE} ELSE {}) : b \in BOOLEAN
  OBVIOUS
<1>4. \E settled \in BOOLEAN :
      \E d \in IF settled THEN RequestTimes ELSE {0} :
      \E report \in IF settled THEN Polled(After(now, purge), d) ELSE {Absent} :
        TreatIdle(i, ends, settled, report, After(After(now, purge), d))
  BY <1>2, <1>3, Zenon
<1> QED
  BY <1>2, <1>4, Zenon

(* One turn of the loop.                                                   *)
LEMMA TreatType ==
  ASSUME TypeOK, NEW i \in Ids, Treat(i)
  PROVE  /\ now' \in Time /\ now' >= now
         /\ quietSince' \in [Ids -> 0 .. now \cup {Absent}]
         /\ claim' \in [Ids -> Claim \cup {Absent}]
         /\ readyAt' \in [Ids -> 0 .. now \cup {Absent}]
         /\ wakeAt' \in [Ids -> Nat \cup {Absent}]
         /\ putOff' \in [Ids -> 0 .. now']
<1>1. /\ now \in Nat /\ started \in Nat
      /\ Cycle \in Nat /\ Fetch \in Nat /\ Poll \in Nat
  BY TimesAssumption DEF TypeOK, Time
<1>a. PICK purge \in PurgeTimes(i) : \E ends \in Ends(i, purge) :
        /\ putOff' = [putOff EXCEPT ![i] = IF ends THEN 0
                                          ELSE IF PutsOff(i, purge, ends)
                                               THEN After(now, purge) ELSE @]
        /\ \E settled \in BOOLEAN :
           \E d \in IF settled THEN RequestTimes ELSE {0} :
           \E report \in IF settled THEN Polled(After(now, purge), d) ELSE {Absent} :
             TreatIdle(i, ends, settled, report, After(After(now, purge), d))
  BY TreatCalls
<1>b. PICK ends \in Ends(i, purge) :
        /\ putOff' = [putOff EXCEPT ![i] = IF ends THEN 0
                                          ELSE IF PutsOff(i, purge, ends)
                                               THEN After(now, purge) ELSE @]
        /\ \E settled \in BOOLEAN :
           \E d \in IF settled THEN RequestTimes ELSE {0} :
           \E report \in IF settled THEN Polled(After(now, purge), d) ELSE {Absent} :
             TreatIdle(i, ends, settled, report, After(After(now, purge), d))
  BY <1>a
<1>c. PICK settled \in BOOLEAN :
        \E d \in IF settled THEN RequestTimes ELSE {0} :
        \E report \in IF settled THEN Polled(After(now, purge), d) ELSE {Absent} :
          TreatIdle(i, ends, settled, report, After(After(now, purge), d))
  BY <1>b
<1>2. PICK d \in IF settled THEN RequestTimes ELSE {0} :
        \E report \in IF settled THEN Polled(After(now, purge), d) ELSE {Absent} :
          TreatIdle(i, ends, settled, report, After(After(now, purge), d))
  BY <1>c
<1>3. purge \in Nat /\ d \in Nat
  BY <1>1, <1>a, <1>2 DEF PurgeTimes, RequestTimes
<1>4. After(now, purge) \in Nat /\ After(now, purge) >= now
  BY <1>1, <1>3, AfterType
<1>5. /\ After(After(now, purge), d) \in Nat
      /\ After(After(now, purge), d) >= After(now, purge)
  BY <1>1, <1>3, <1>4, AfterType
<1>6. After(After(now, purge), d) >= now
  BY <1>1, <1>4, <1>5
<1>7. PICK report \in IF settled THEN Polled(After(now, purge), d) ELSE {Absent} :
        TreatIdle(i, ends, settled, report, After(After(now, purge), d))
  BY <1>2
<1>8. /\ now' \in Time /\ now' >= After(After(now, purge), d)
      /\ quietSince' \in [Ids -> 0 .. now \cup {Absent}]
      /\ claim' \in [Ids -> Claim \cup {Absent}]
      /\ readyAt' \in [Ids -> 0 .. now \cup {Absent}]
      /\ wakeAt' \in [Ids -> Nat \cup {Absent}]
  BY <1>5, <1>6, <1>7, TreatIdleType
<1>9. now' \in Nat /\ now' >= After(now, purge) /\ now' >= now
  BY <1>1, <1>4, <1>5, <1>8, TimesAssumption DEF Time
<1>10. putOff' \in [Ids -> 0 .. now']
  <2>1. putOff \in [Ids -> 0 .. now']
    <3>1. 0 .. now \subseteq 0 .. now'
      BY <1>1, <1>9
    <3> QED
      BY <3>1 DEF TypeOK
  <2>2. 0 \in 0 .. now' /\ After(now, purge) \in 0 .. now'
    BY <1>4, <1>9
  <2> QED
    BY <1>b, <2>1, <2>2
<1> QED
  BY <1>8, <1>9, <1>10

(* Every step keeps the variables in their types.                          *)
LEMMA NextTypeOK == TypeOK /\ [Next]_vars => TypeOK'
<1> SUFFICES ASSUME TypeOK, [Next]_vars PROVE TypeOK'
  OBVIOUS
<1> USE TimesAssumption, SizesAssumption DEF Ids, Time, sandbox, sweep
<1>1. ASSUME NEW i \in Ids, Create(i) PROVE TypeOK'
  <2>1. claim' \in [Ids -> Claim \cup {Absent}]
    BY <1>1 DEF Create, TypeOK, Claim
  <2>2. made' \in 0 .. MaxClaims
    BY <1>1 DEF Create, TypeOK
  <2> QED
    BY <1>1, <2>1, <2>2 DEF Create, TypeOK
<1>2. ASSUME NEW i \in Ids, PodReady(i) PROVE TypeOK'
  BY <1>2 DEF PodReady, TypeOK
<1>3. ASSUME SweepStart PROVE TypeOK'
  <2> DEFINE wait == IF Fetch < Cycle THEN Fetch ELSE Cycle
  <2>1. now \in Nat /\ MaxTime \in Nat /\ wait \in Nat
    BY DEF TypeOK
  <2>2. now' \in {now, now + wait} /\ now' \in Time
    BY <1>3 DEF SweepStart
  <2> HIDE DEF wait
  <2>3. now' >= now
    BY <2>1, <2>2
  <2>4. /\ readyAt' \in [Ids -> 0 .. now' \cup {Absent}]
        /\ quietSince' \in [Ids -> 0 .. now' \cup {Absent}]
    <3>1. 0 .. now \subseteq 0 .. now'
      BY <2>1, <2>2, <2>3
    <3>2. readyAt' = readyAt /\ quietSince' = quietSince
      BY <1>3 DEF SweepStart
    <3> QED
      BY <3>1, <3>2 DEF TypeOK
  <2>5. started' \in 0 .. now' /\ sweptAt' \in 0 .. now'
    BY <1>3, <2>1, <2>2, <2>3 DEF SweepStart
  <2>6. listed' \subseteq Ids /\ next' \in 1 .. Sessions + 1
    BY <1>3 DEF SweepStart
  <2>7. putOff' \in [Ids -> 0 .. now']
    <3>1. 0 .. now \subseteq 0 .. now'
      BY <2>1, <2>2, <2>3
    <3>2. putOff' = putOff
      BY <1>3 DEF SweepStart
    <3> QED
      BY <3>1, <3>2 DEF TypeOK
  <2> QED
    BY <1>3, <2>2, <2>4, <2>5, <2>6, <2>7 DEF SweepStart, TypeOK
<1>4. ASSUME SweepNext PROVE TypeOK'
  <2>1. next \in Ids
    BY <1>4 DEF SweepNext, AtRest, TypeOK
  <2>2. /\ now' \in Time /\ now' >= now
        /\ quietSince' \in [Ids -> 0 .. now \cup {Absent}]
        /\ claim' \in [Ids -> Claim \cup {Absent}]
        /\ readyAt' \in [Ids -> 0 .. now \cup {Absent}]
        /\ wakeAt' \in [Ids -> Nat \cup {Absent}]
        /\ putOff' \in [Ids -> 0 .. now']
    <3>1. CASE next \in listed
      BY <1>4, <2>1, <3>1, TreatType DEF SweepNext
    <3>2. CASE next \notin listed
      <4>1. /\ quietSince' = [quietSince EXCEPT ![next] = Absent]
            /\ UNCHANGED <<now, claim, readyAt, wakeAt, putOff>>
        BY <1>4, <3>2 DEF SweepNext
      <4> QED
        BY <2>1, <4>1 DEF TypeOK
    <3> QED
      BY <3>1, <3>2
  <2>3. now \in Nat /\ now' \in Nat /\ 0 .. now \subseteq 0 .. now'
    BY <2>2 DEF TypeOK
  <2>4. next' \in 1 .. Sessions + 1 /\ listed' \subseteq Ids
    BY <1>4, <2>1 DEF SweepNext, TypeOK
  <2>5. started' \in 0 .. now' /\ sweptAt' \in 0 .. now'
    BY <1>4, <2>2, <2>3 DEF SweepNext, TypeOK
  <2>6. made' \in 0 .. MaxClaims
    BY <1>4 DEF SweepNext, TypeOK
  <2>7. /\ quietSince' \in [Ids -> 0 .. now' \cup {Absent}]
        /\ readyAt' \in [Ids -> 0 .. now' \cup {Absent}]
    BY <2>2, <2>3
  <2> QED
    BY <2>2, <2>4, <2>5, <2>6, <2>7, Zenon DEF TypeOK
<1>5. ASSUME Tick PROVE TypeOK'
  <2>1. now \in Nat /\ now' = now + 1 /\ now' \in Time
    BY <1>5 DEF Tick, TypeOK
  <2>2. UNCHANGED <<claim, made, readyAt, wakeAt, quietSince, listed, next, started, sweptAt,
                  putOff>>
    BY <1>5 DEF Tick
  <2>3. 0 .. now \subseteq 0 .. now'
    BY <2>1
  <2> QED
    BY <2>1, <2>2, <2>3, Zenon DEF TypeOK
<1>6. ASSUME UNCHANGED vars PROVE TypeOK'
  BY <1>6 DEF vars, TypeOK
<1> QED
  BY <1>1, <1>2, <1>3, <1>4, <1>5, <1>6 DEF Next

(* The sweep keeps every variable in its type.                             *)
THEOREM TypeCorrect == Spec => []TypeOK
<1>1. Init => TypeOK
  BY TimesAssumption, SizesAssumption DEF Init, TypeOK, Nothing, Ids, Time
<1> QED
  BY <1>1, NextTypeOK, PTL DEF Spec

-----------------------------------------------------------------------------
(* The lifetime of a session                                               *)

(* What fits into a time.Duration is what it was.                          *)
LEMMA WrapKeeps ==
  ASSUME NEW n \in Nat, n < Half
  PROVE  Wrap(n) = n
<1> DEFINE m == n + Half
<1>1. Half \in Nat \ {0}
  BY SizesAssumption
<1>2. m \in 0 .. 2 * Half - 1
  BY <1>1
<1>3. m % (2 * Half) = m
  BY <1>1, <1>2
<1> QED
  BY <1>1, <1>3 DEF Wrap

(* Seconds compare as their units do.                                      *)
LEMMA UnitsCompare ==
  ASSUME NEW a \in Int, NEW b \in Int, NEW u \in Nat \ {0}, a * u >= b * u
  PROVE  a >= b
<1>1. SUFFICES ASSUME a < b PROVE FALSE
  OBVIOUS
<1>2. PICK d \in Nat : b = a + 1 + d
  <2>1. b - a - 1 \in Nat
    BY <1>1
  <2> QED
    BY <2>1
<1>3. b * u = a * u + u + d * u
  BY <1>2
<1>4. d * u \in Nat
  OBVIOUS
<1> QED
  BY <1>3, <1>4

(* The limit of a session is the lifetime it was promised.                 *)
LEMMA LimitKept ==
  ASSUME Fits, TypeOK, NEW i \in Ids, claim[i] # Absent
  PROVE  /\ Promised(i) \in Nat
         /\ EffectiveDuration(claim[i].ttl, Default) = Promised(i) * Second
<1> USE TimesAssumption, SizesAssumption, AbsentAssumption
<1>1. claim[i] \in Claim
  BY DEF TypeOK
<1>2. claim[i].ttl \in Asked \cup {Absent}
  BY <1>1 DEF Claim
<1>3. CASE claim[i].ttl \in Nat
  <2>1. /\ claim[i].ttl * Second \in Nat
        /\ claim[i].ttl * Second < Half
    BY <1>2, <1>3 DEF Fits
  <2>2. Wrap(claim[i].ttl * Second) = claim[i].ttl * Second
    BY <2>1, WrapKeeps
  <2> QED
    BY <1>3, <2>2 DEF Promised, EffectiveDuration
<1>4. CASE claim[i].ttl \notin Nat
  BY <1>4 DEF Promised, EffectiveDuration
<1> QED
  BY <1>3, <1>4

(* A sweep ends a session only when its limit has passed.                  *)
LEMMA TreatEnds ==
  ASSUME TypeOK, NEW i \in Ids, NEW j \in Ids, Treat(i), claim[j] # Absent, claim'[j] = Absent
  PROVE  j = i /\ Expired(i)
<1>1. PICK purge \in PurgeTimes(i) : \E ends \in Ends(i, purge) :
        claim' = [claim EXCEPT ![i] = IF ends THEN Absent ELSE @]
  BY TreatCalls DEF TreatIdle
<1>2. j = i /\ TRUE \in Ends(i, purge)
  BY <1>1 DEF TypeOK, Ends
<1> QED
  BY <1>1, <1>2 DEF Ends, Answers

(* No session ends before the ttlSeconds it was created with, and one with *)
(* 0 never does, for all lifetimes that fit (manager.go:268).              *)
THEOREM NoneTooEarly == ASSUME Fits PROVE Spec => NeverTooEarly
<1>1. TypeOK /\ [Next]_vars
        => [\A i \in Ids : claim[i] # Absent /\ claim'[i] = Absent
              => Promised(i) > 0 /\ now - claim[i].born >= Promised(i)]_vars
  <2> SUFFICES ASSUME TypeOK, Next, NEW i \in Ids, claim[i] # Absent, claim'[i] = Absent
               PROVE  Promised(i) > 0 /\ now - claim[i].born >= Promised(i)
    OBVIOUS
  <2>1. SweepNext
    <3>1. ASSUME NEW k \in Ids, Create(k) PROVE FALSE
      <4>1. i # k
        BY <3>1 DEF Create
      <4> QED
        BY <3>1, <4>1 DEF Create, TypeOK
    <3>2. ~(SweepStart \/ Tick)
      BY DEF SweepStart, Tick
    <3>3. ASSUME NEW k \in Ids, PodReady(k) PROVE FALSE
      BY <3>3 DEF PodReady
    <3> QED
      BY <3>1, <3>2, <3>3 DEF Next
  <2>2. next \in Ids /\ Treat(next)
    BY <2>1, SizesAssumption DEF SweepNext, AtRest, TypeOK, Ids
  <2>3. i = next /\ Expired(i)
    BY <2>2, TreatEnds
  <2>4. /\ Promised(i) \in Nat
        /\ EffectiveDuration(claim[i].ttl, Default) = Promised(i) * Second
    BY LimitKept
  <2>5. /\ Promised(i) * Second > 0
        /\ (sweptAt - claim[i].born) * Second >= Promised(i) * Second
    BY <2>3, <2>4 DEF Expired
  <2>6. /\ claim[i].born \in Int /\ sweptAt \in Int /\ now \in Int /\ sweptAt <= now
    BY TimesAssumption DEF TypeOK, Claim, Time
  <2>7. sweptAt - claim[i].born >= Promised(i)
    BY <2>4, <2>5, <2>6, UnitsCompare, SizesAssumption
  <2>8. Promised(i) > 0
    BY <2>4, <2>5, SizesAssumption
  <2> QED
    BY <2>4, <2>6, <2>7, <2>8
<1> QED
  BY <1>1, TypeCorrect, PTL DEF Spec, NeverTooEarly
-----------------------------------------------------------------------------
(* The time a sweep takes                                                  *)

(* A call takes its time at most, and does not go past the deadline.       *)
LEMMA AfterBound ==
  ASSUME NEW t \in Nat, NEW d \in Nat, started \in Nat, Cycle \in Nat
  PROVE  /\ After(t, d) <= t + d
         /\ t <= started + Cycle => After(t, d) <= started + Cycle
BY DEF After, Late, Later

(* What a turn of the loop is made of: the purge, the poll, the requests   *)
(* for the cron schedule, and what becomes of the claim and its wake.      *)
LEMMA TreatParts ==
  ASSUME TypeOK, NEW i \in Ids, Treat(i)
  PROVE  \E purge \in PurgeTimes(i), d \in {0} \cup RequestTimes, r \in {0} \cup RequestTimes :
         \E ends \in Ends(i, purge) :
           /\ now' = After(After(After(now, purge), d), 3 * r)
           /\ putOff' = [putOff EXCEPT ![i] = IF ends THEN 0
                                             ELSE IF PutsOff(i, purge, ends)
                                                  THEN After(now, purge) ELSE @]
           /\ claim' = [claim EXCEPT ![i] = IF ends THEN Absent ELSE @]
           /\ \/ ~ends /\ \E f \in WakeAfter : wakeAt' = [wakeAt EXCEPT ![i] = sweptAt + f]
              \/ wakeAt' = [wakeAt EXCEPT ![i] = IF Wakes(i) \/ ends THEN Absent ELSE @]
<1>a. PICK purge \in PurgeTimes(i) : \E ends \in Ends(i, purge) :
        /\ putOff' = [putOff EXCEPT ![i] = IF ends THEN 0
                                          ELSE IF PutsOff(i, purge, ends)
                                               THEN After(now, purge) ELSE @]
        /\ \E settled \in BOOLEAN :
           \E d \in IF settled THEN RequestTimes ELSE {0} :
           \E report \in IF settled THEN Polled(After(now, purge), d) ELSE {Absent} :
             TreatIdle(i, ends, settled, report, After(After(now, purge), d))
  BY TreatCalls
<1>1. PICK ends \in Ends(i, purge) :
        /\ putOff' = [putOff EXCEPT ![i] = IF ends THEN 0
                                          ELSE IF PutsOff(i, purge, ends)
                                               THEN After(now, purge) ELSE @]
        /\ \E settled \in BOOLEAN :
           \E d \in IF settled THEN RequestTimes ELSE {0} :
           \E report \in IF settled THEN Polled(After(now, purge), d) ELSE {Absent} :
             TreatIdle(i, ends, settled, report, After(After(now, purge), d))
  BY <1>a
<1>2. PICK settled \in BOOLEAN :
        \E d \in IF settled THEN RequestTimes ELSE {0} :
        \E report \in IF settled THEN Polled(After(now, purge), d) ELSE {Absent} :
          TreatIdle(i, ends, settled, report, After(After(now, purge), d))
  BY <1>1
<1>3. PICK d \in IF settled THEN RequestTimes ELSE {0} :
        \E report \in IF settled THEN Polled(After(now, purge), d) ELSE {Absent} :
          TreatIdle(i, ends, settled, report, After(After(now, purge), d))
  BY <1>2
<1>4. PICK report \in IF settled THEN Polled(After(now, purge), d) ELSE {Absent} :
        TreatIdle(i, ends, settled, report, After(After(now, purge), d))
  BY <1>3
<1> DEFINE quiet == TrackQuiet(quietSince[i], report, sweptAt)
           idle  == settled /\ Idle(i, report, quiet)
<1> HIDE DEF quiet, idle
<1>5. PICK e \in IF idle THEN {3 * r : r \in RequestTimes} ELSE {0} :
        /\ now' = After(After(After(now, purge), d), e)
        /\ claim' = [claim EXCEPT ![i] = IF ends THEN Absent ELSE @]
        /\ \/ ~ends /\ \E f \in WakeAfter : wakeAt' = [wakeAt EXCEPT ![i] = sweptAt + f]
           \/ wakeAt' = [wakeAt EXCEPT ![i] = IF Wakes(i) \/ ends THEN Absent ELSE @]
  BY <1>4 DEF TreatIdle, quiet, idle
<1>6. PICK r \in {0} \cup RequestTimes : e = 3 * r
  <2>1. CASE idle
    BY <1>5, <2>1
  <2>2. CASE ~idle
    <3>1. e = 0
      BY <1>5, <2>2
    <3> WITNESS 0 \in {0} \cup RequestTimes
    <3> QED
      BY <3>1
  <2> QED
    BY <2>1, <2>2
<1>7. d \in {0} \cup RequestTimes
  BY <1>3
<1> QED
  BY <1>a, <1>1, <1>5, <1>6, <1>7

(* A turn takes its cost at most, and ends by the deadline.                *)
LEMMA TreatCost ==
  ASSUME TypeOK, NEW i \in Ids, Treat(i), now <= started + Cycle
  PROVE  now' \in Nat /\ now' <= now + Cost /\ now' <= started + Cycle
<1>1. /\ now \in Nat /\ started \in Nat
      /\ Cycle \in Nat /\ Fetch \in Nat /\ Poll \in Nat
  BY TimesAssumption DEF TypeOK, Time
<1>2. PICK purge \in PurgeTimes(i), d \in {0} \cup RequestTimes, r \in {0} \cup RequestTimes :
        now' = After(After(After(now, purge), d), 3 * r)
  BY TreatParts
<1> DEFINE t == After(now, purge)
           u == After(t, d)
<1>3. /\ purge \in Nat /\ d \in Nat /\ r \in Nat /\ 3 * r \in Nat
      /\ purge <= Fetch /\ d <= Poll /\ r <= Poll
  BY <1>1, <1>2 DEF PurgeTimes, RequestTimes
<1>4. t \in Nat /\ t <= now + purge /\ t <= started + Cycle
  BY <1>1, <1>3, AfterType, AfterBound
<1> HIDE DEF t
<1>5. u \in Nat /\ u <= t + d /\ u <= started + Cycle
  BY <1>1, <1>3, <1>4, AfterType, AfterBound
<1> HIDE DEF u
<1>6. /\ After(u, 3 * r) \in Nat /\ After(u, 3 * r) <= u + 3 * r
      /\ After(u, 3 * r) <= started + Cycle
  BY <1>1, <1>3, <1>5, AfterType, AfterBound
<1>7. now' = After(u, 3 * r)
  BY <1>2 DEF t, u
<1> QED
  BY <1>1, <1>3, <1>4, <1>5, <1>6, <1>7 DEF Cost

(* A turn in time ends what is expired, if the purge does not fail, and    *)
(* wakes what is due.                                                      *)
LEMMA TreatEffect ==
  ASSUME TypeOK, NEW i \in Ids, Treat(i), ~Late(now + Fetch), claim[i] # Absent
  PROVE  /\ \A j \in Ids : j # i => /\ claim'[j] = claim[j] /\ wakeAt'[j] = wakeAt[j]
                                   /\ putOff'[j] = putOff[j]
         /\ claim'[i] # Absent => claim'[i] = claim[i] /\ (Expired(i) => now <= putOff'[i])
         /\ wakeAt'[i] # Absent => claim'[i] # Absent /\ sweptAt <= wakeAt'[i]
<1>1. /\ now \in Nat /\ started \in Nat /\ sweptAt \in Nat
      /\ Cycle \in Nat /\ Fetch \in Nat /\ WakeAfter \subseteq Nat
      /\ wakeAt \in [Ids -> Nat \cup {Absent}] /\ claim \in [Ids -> Claim \cup {Absent}]
      /\ putOff \in [Ids -> 0 .. now]
  BY TimesAssumption DEF TypeOK, Time
<1>2. PICK purge \in PurgeTimes(i) : \E ends \in Ends(i, purge) :
        /\ putOff' = [putOff EXCEPT ![i] = IF ends THEN 0
                                          ELSE IF PutsOff(i, purge, ends) THEN After(now, purge)
                                               ELSE @]
        /\ claim' = [claim EXCEPT ![i] = IF ends THEN Absent ELSE @]
        /\ \/ ~ends /\ \E f \in WakeAfter : wakeAt' = [wakeAt EXCEPT ![i] = sweptAt + f]
           \/ wakeAt' = [wakeAt EXCEPT ![i] = IF Wakes(i) \/ ends THEN Absent ELSE @]
  BY TreatParts
<1>3. PICK ends \in Ends(i, purge) :
        /\ putOff' = [putOff EXCEPT ![i] = IF ends THEN 0
                                          ELSE IF PutsOff(i, purge, ends) THEN After(now, purge)
                                               ELSE @]
        /\ claim' = [claim EXCEPT ![i] = IF ends THEN Absent ELSE @]
        /\ \/ ~ends /\ \E f \in WakeAfter : wakeAt' = [wakeAt EXCEPT ![i] = sweptAt + f]
           \/ wakeAt' = [wakeAt EXCEPT ![i] = IF Wakes(i) \/ ends THEN Absent ELSE @]
  BY <1>2
<1>4. purge \in Nat /\ ~Late(now) /\ ~Late(now + purge)
  BY <1>1, <1>2 DEF Late, PurgeTimes
<1>5. (Expired(i) /\ ~ends => PutsOff(i, purge, ends)) /\ (Wakes(i) <=> Due(i))
  BY <1>4 DEF PutsOff, Wakes
<1>6. \A j \in Ids : j # i => /\ claim'[j] = claim[j] /\ wakeAt'[j] = wakeAt[j]
                             /\ putOff'[j] = putOff[j]
  BY <1>1, <1>3
<1>7. claim'[i] # Absent => claim'[i] = claim[i] /\ (Expired(i) => now <= putOff'[i])
  <2> SUFFICES ASSUME claim'[i] # Absent
               PROVE  claim'[i] = claim[i] /\ (Expired(i) => now <= putOff'[i])
    OBVIOUS
  <2>1. ~ends /\ claim'[i] = claim[i]
    BY <1>1, <1>3
  <2>2. Expired(i) => putOff'[i] = After(now, purge)
    BY <1>1, <1>3, <1>5, <2>1
  <2> QED
    BY <1>1, <1>4, <2>1, <2>2, AfterType
<1>8. wakeAt'[i] # Absent => claim'[i] # Absent /\ sweptAt <= wakeAt'[i]
  BY <1>1, <1>3, <1>5, AbsentAssumption DEF Due
<1> QED
  BY <1>6, <1>7, <1>8

(* A session with a lifetime that is not expired has some of it left.      *)
LEMMA NotExpired ==
  ASSUME Fits, TypeOK, NEW i \in Ids, claim[i] # Absent, Promised(i) > 0, ~Expired(i)
  PROVE  sweptAt < claim[i].born + Promised(i)
<1> DEFINE p == Promised(i)
           lived == sweptAt - claim[i].born
<1>1. p \in Nat /\ EffectiveDuration(claim[i].ttl, Default) = p * Second
  BY LimitKept
<1>2. /\ sweptAt \in Int /\ claim[i].born \in Int /\ lived \in Int
      /\ Second \in Nat \ {0}
  BY TimesAssumption, SizesAssumption DEF TypeOK, Claim, Time
<1>3. p * Second > 0
  BY <1>1, <1>2
<1>4. ~(lived * Second >= p * Second)
  BY <1>1, <1>3 DEF Expired
<1> HIDE DEF p
<1>5. ~(lived >= p)
  <2> SUFFICES ASSUME lived >= p PROVE FALSE
    OBVIOUS
  <2> HIDE DEF lived
  <2>1. PICK k \in Nat : lived = p + k
    <3>1. lived - p \in Nat
      BY <1>1, <1>2
    <3> QED
      BY <1>1, <1>2, <3>1
  <2>2. lived * Second = p * Second + k * Second /\ k * Second \in Nat
    BY <1>1, <1>2, <2>1
  <2>3. p * Second \in Nat
    BY <1>1, <1>2
  <2> QED
    BY <1>4, <2>2, <2>3
<1> QED
  BY <1>1, <1>2, <1>5 DEF p

-----------------------------------------------------------------------------
(* The pace of a sweep                                                     *)

(* Up to its turn a session waits for those before it, which leaves room.  *)
LEMMA RoomForTurn ==
  ASSUME TypeOK, Roomy, PaceInv, ~AtRest
  PROVE  /\ ~Late(now + Fetch)
         /\ (next - 1) * Cost + Cost = next * Cost
<1>1. /\ now \in Nat /\ started \in Nat /\ Sessions \in Nat /\ next \in 1 .. Sessions
      /\ Cycle \in Nat /\ Fetch \in Nat /\ Cost \in Nat
  BY TimesAssumption, SizesAssumption DEF TypeOK, Time, AtRest, Cost
<1>2. PICK k \in Nat : Sessions - 1 = (next - 1) + k
  <2>1. Sessions - next \in Nat
    BY <1>1
  <2> QED
    BY <1>1, <2>1
<1>3. (Sessions - 1) * Cost = (next - 1) * Cost + k * Cost /\ k * Cost \in Nat
  BY <1>1, <1>2
<1>4. (next - 1) * Cost \in Nat /\ (Sessions - 1) * Cost \in Nat
  BY <1>1, <1>2
<1>5. (next - 1) * Cost + Cost = next * Cost
  BY <1>1
<1>6. now <= started + Fetch + (next - 1) * Cost
  BY DEF PaceInv
<1>7. now + Fetch < started + Cycle
  <2> DEFINE a == (next - 1) * Cost
             b == (Sessions - 1) * Cost
  <2>1. a \in Nat /\ b \in Nat /\ a <= b
    BY <1>3, <1>4
  <2>2. now <= started + Fetch + a /\ 2 * Fetch + b < Cycle
    BY <1>6 DEF Roomy
  <2> HIDE DEF a, b
  <2> QED
    BY <1>1, <2>1, <2>2
<1> QED
  BY <1>1, <1>5, <1>7 DEF Late

(* A sweep that ends by its deadline.                                      *)
LEMMA EndInTime ==
  ASSUME NEW start \in Nat, NEW swept \in Nat, NEW end \in Nat, NEW c \in Nat, NEW v \in Nat,
         start <= swept, swept <= end, end <= start + c
  PROVE  swept <= end + c /\ end <= end + v /\ end <= swept + c
OBVIOUS

(* A sweep keeps its pace.                                                 *)
LEMMA NextPaceInv == TypeOK /\ TypeOK' /\ Roomy /\ PaceInv /\ [Next]_vars => PaceInv'
<1> SUFFICES ASSUME TypeOK, TypeOK', Roomy, PaceInv, [Next]_vars PROVE PaceInv'
  OBVIOUS
<1>0. /\ now \in Nat /\ now' \in Nat /\ started \in Nat /\ sweptAt \in Nat
      /\ started <= now /\ sweptAt <= now
      /\ Sessions \in Nat \ {0} /\ Interval \in Nat /\ next \in Nat /\ next <= Sessions + 1
      /\ Cycle \in Nat /\ Fetch \in Nat /\ Poll \in Nat /\ Cost \in Nat
  BY TimesAssumption, SizesAssumption DEF TypeOK, Time, Cost
<1>1. ASSUME NEW i \in Ids, Create(i) PROVE PaceInv'
  <2>1. \A j \in Ids : claim[j] # Absent => claim'[j] # Absent
    <3>1. \A j \in Ids : j # i => claim'[j] = claim[j]
      BY <1>1 DEF Create, TypeOK
    <3>2. claim[i] = Absent
      BY <1>1 DEF Create
    <3> QED
      BY <3>1, <3>2
  <2>2. listed \subseteq Ids
    BY DEF TypeOK
  <2> QED
    BY <1>1, <2>1, <2>2 DEF Create, PaceInv, AtRest, sweep
<1>2. ASSUME NEW i \in Ids, PodReady(i) PROVE PaceInv'
  BY <1>2 DEF PodReady, PaceInv, AtRest, sweep
<1>3. ASSUME SweepStart PROVE PaceInv'
  <2> DEFINE wait == IF Fetch < Cycle THEN Fetch ELSE Cycle
  <2>1. wait \in Nat /\ wait <= Fetch /\ wait <= Cycle
    BY <1>0
  <2>2. /\ now' \in {now, now + wait} /\ started' = now /\ sweptAt' = now' /\ next' = 1
        /\ listed' = {i \in Ids : claim[i] # Absent} /\ claim' = claim
    BY <1>3 DEF SweepStart
  <2> HIDE DEF wait
  <2>3. ~AtRest' /\ (next' - 1) * Cost = 0
    BY <1>0, <2>2 DEF AtRest
  <2>4. \A i \in listed' : next' <= i /\ claim'[i] # Absent
    BY <1>0, <2>2 DEF Ids
  <2>5. /\ started' <= sweptAt' /\ sweptAt' <= started' + Cycle
        /\ now' <= started' + Cycle /\ now' <= started' + Fetch
    BY <1>0, <2>1, <2>2
  <2> QED
    BY <1>0, <2>2, <2>3, <2>4, <2>5 DEF PaceInv
<1>4. ASSUME SweepNext PROVE PaceInv'
  <2>1. /\ ~AtRest /\ next \in Ids /\ next <= Sessions
        /\ next' = next + 1 /\ listed' = listed \ {next}
        /\ started' = (IF next = Sessions THEN now' ELSE started) /\ sweptAt' = sweptAt
    BY <1>4, <1>0 DEF SweepNext, AtRest, TypeOK, Ids
  <2>2. /\ started <= sweptAt /\ now <= started + Cycle /\ sweptAt <= started + Cycle
        /\ now <= started + Fetch + (next - 1) * Cost
        /\ \A i \in listed : next <= i /\ claim[i] # Absent
    BY <2>1 DEF PaceInv
  <2>3. /\ now' <= now + Cost /\ now' <= started + Cycle
    <3>1. CASE next \in listed
      BY <1>4, <2>1, <2>2, <3>1, TreatCost DEF SweepNext
    <3>2. CASE next \notin listed
      BY <1>0, <1>4, <2>2, <3>2 DEF SweepNext
    <3> QED
      BY <3>1, <3>2
  <2>4. \A i \in listed' : next' <= i /\ claim'[i] # Absent
    <3>1. ASSUME NEW i \in listed' PROVE next + 1 <= i /\ claim'[i] # Absent
      <4>1. i \in Ids /\ i # next /\ next <= i /\ claim[i] # Absent
        BY <2>1, <2>2, <3>1 DEF TypeOK
      <4>2. next + 1 <= i
        BY <1>0, <4>1 DEF Ids
      <4>3. CASE next \in listed
        <5>1. Treat(next)
          BY <1>4, <4>3 DEF SweepNext
        <5> QED
          BY <2>1, <4>1, <4>2, <5>1, TreatEnds
      <4>4. CASE next \notin listed
        BY <1>4, <4>1, <4>2, <4>4 DEF SweepNext
      <4> QED
        BY <4>3, <4>4
    <3> QED
      BY <2>1, <3>1
  <2>5. CASE next = Sessions
    <3>1. AtRest' /\ started' = now'
      BY <1>0, <2>1, <2>5 DEF AtRest
    <3>2. listed' = {}
      <4>1. \A i \in listed' : i \in 1 .. Sessions /\ next' <= i
        BY <2>1, <2>4 DEF TypeOK, Ids
      <4> QED
        BY <1>0, <2>1, <2>5, <4>1
    <3>3. sweptAt <= now'
      BY <2>1 DEF TypeOK
    <3>4. started <= sweptAt /\ now' <= started + Cycle /\ sweptAt' = sweptAt
      BY <2>1, <2>2, <2>3
    <3>5. /\ sweptAt <= now' + Cycle /\ now' <= now' + Interval
          /\ now' <= sweptAt + Cycle
      BY <1>0, <3>3, <3>4, EndInTime
    <3> QED
      BY <3>1, <3>2, <3>4, <3>5 DEF PaceInv
  <2>6. CASE next # Sessions
    <3>1. ~AtRest' /\ started' = started
      BY <1>0, <2>1, <2>6 DEF AtRest
    <3>2. (next - 1) * Cost + Cost = next * Cost /\ next' - 1 = next
      BY <1>0, <2>1, RoomForTurn
    <3>3. now' <= started + Fetch + (next' - 1) * Cost
      <4> DEFINE a == (next - 1) * Cost
                 b == next * Cost
      <4>1. a \in Int /\ b \in Int
        BY <1>0
      <4>2. a + Cost = b /\ now <= started + Fetch + a
        BY <2>2, <3>2
      <4>3. (next' - 1) * Cost = b
        BY <3>2
      <4> HIDE DEF a, b
      <4> QED
        BY <1>0, <2>3, <4>1, <4>2, <4>3
    <3> QED
      BY <2>1, <2>2, <2>3, <2>4, <3>1, <3>3 DEF PaceInv
  <2> QED
    BY <2>5, <2>6
<1>5. ASSUME Tick PROVE PaceInv'
  BY <1>0, <1>5 DEF Tick, PaceInv, AtRest, sweep
<1>6. ASSUME UNCHANGED vars PROVE PaceInv'
  BY <1>6 DEF vars, sweep, PaceInv, AtRest
<1> QED
  BY <1>1, <1>2, <1>3, <1>4, <1>5, <1>6 DEF Next

-----------------------------------------------------------------------------
(* Turns                                                                   *)

(* No turn leaves a session behind that is due.                            *)
LEMMA NextTurnInv ==
  Fits /\ Roomy /\ TypeOK /\ TypeOK' /\ PaceInv /\ TurnInv /\ [Next]_vars => TurnInv'
<1> SUFFICES ASSUME Fits, Roomy, TypeOK, TypeOK', PaceInv, TurnInv, [Next]_vars, NEW i \in Ids
             PROVE  EndAhead(i)' /\ WakeAhead(i)'
  BY DEF TurnInv
<1>0. /\ now \in Nat /\ started \in Nat /\ sweptAt \in Nat
      /\ started <= now /\ sweptAt <= now
      /\ Interval \in Nat /\ Cycle \in Nat /\ i \in Nat /\ i <= Sessions /\ next \in Nat
      /\ Sessions \in Nat
      /\ wakeAt[i] \in Nat \cup {Absent}
      /\ claim[i] # Absent => claim[i].born \in Nat /\ Promised(i) \in Nat
      /\ putOff[i] \in Nat /\ EndDue(i) = Later(claim[i].born + Promised(i), putOff[i])
  <2>1. i \in Nat /\ i <= Sessions /\ Sessions \in Nat
    BY SizesAssumption DEF Ids
  <2>2. claim[i] # Absent => claim[i].born \in Nat /\ Promised(i) \in Nat
    BY LimitKept DEF TypeOK, Time, Claim
  <2> QED
    BY <2>1, <2>2, TimesAssumption, SizesAssumption DEF TypeOK, Time, EndDue
<1>1. EndAhead(i) /\ WakeAhead(i)
  BY DEF TurnInv
<1>2. i \in listed => claim[i] # Absent
  BY DEF PaceInv
<1>3. ASSUME claim'[i] = claim[i], wakeAt'[i] = wakeAt[i], sweptAt' = sweptAt,
             putOff'[i] = putOff[i], i \in listed' <=> i \in listed,
             i \in listed => started' = started
      PROVE  EndAhead(i)' /\ WakeAhead(i)'
  <2>1. Promised(i)' = Promised(i)
    BY <1>3 DEF Promised
  <2>2. EndDue(i)' = EndDue(i)
    BY <1>3, <2>1 DEF EndDue
  <2> QED
    BY <1>1, <1>3, <2>1, <2>2 DEF EndAhead, WakeAhead
<1>4. ASSUME NEW k \in Ids, Create(k) PROVE EndAhead(i)' /\ WakeAhead(i)'
  <2>1. UNCHANGED <<wakeAt, listed, started, sweptAt, putOff>>
    BY <1>4 DEF Create, sandbox, sweep
  <2>2. CASE i # k
    BY <1>3, <1>4, <2>1, <2>2 DEF Create, TypeOK
  <2>3. CASE i = k
    <3>1. claim[i] = Absent /\ i \notin listed /\ wakeAt[i] = Absent
      BY <1>1, <1>2, <1>4, <2>3 DEF Create, WakeAhead
    <3>2. PICK t \in Asked \cup {Absent} : claim'[i] = [born |-> now, ttl |-> t]
      BY <1>4, <2>3 DEF Create, TypeOK
    <3>3. Promised(i)' \in Nat /\ claim'[i].born = now
      BY <3>2, TimesAssumption DEF Promised
    <3> QED
      BY <1>0, <2>1, <3>1, <3>3 DEF EndAhead, WakeAhead
  <2> QED
    BY <2>2, <2>3
<1>5. ASSUME NEW k \in Ids, PodReady(k) PROVE EndAhead(i)' /\ WakeAhead(i)'
  BY <1>3, <1>5 DEF PodReady, sweep
<1>6. ASSUME SweepStart PROVE EndAhead(i)' /\ WakeAhead(i)'
  <2>1. /\ AtRest /\ started' = now /\ claim' = claim /\ wakeAt' = wakeAt /\ putOff' = putOff
        /\ listed' = {j \in Ids : claim[j] # Absent}
    BY <1>6 DEF SweepStart, sandbox
  <2>2. i \notin listed /\ now <= sweptAt + Cycle + Interval
    BY <1>0, <2>1 DEF PaceInv
  <2>3. Promised(i)' = Promised(i)
    BY <2>1 DEF Promised
  <2>4. EndAhead(i)'
    <3>1. EndDue(i)' = EndDue(i)
      BY <2>1, <2>3 DEF EndDue
    <3>2. claim[i] # Absent /\ Promised(i) > 0 => sweptAt <= EndDue(i) /\ EndDue(i) \in Nat
      BY <1>0, <1>1, <2>2 DEF EndAhead, Later
    <3>3. claim[i] # Absent /\ Promised(i) > 0 => now <= EndDue(i) + Interval + Cycle
      BY <1>0, <2>2, <3>2
    <3> QED
      BY <2>1, <2>2, <2>3, <3>1, <3>3, <1>2 DEF EndAhead
  <2>5. WakeAhead(i)'
    BY <1>0, <1>1, <2>1, <2>2 DEF WakeAhead
  <2> QED
    BY <2>4, <2>5
<1>7. ASSUME SweepNext PROVE EndAhead(i)' /\ WakeAhead(i)'
  <2>1. /\ ~AtRest /\ next \in Ids /\ next <= Sessions
        /\ listed' = listed \ {next} /\ sweptAt' = sweptAt
        /\ started' = (IF next = Sessions THEN now' ELSE started)
    BY <1>0, <1>7 DEF SweepNext, AtRest, TypeOK, Ids
  <2>2. i \in listed => next <= i
    BY <2>1 DEF PaceInv
  <2>3. CASE next \notin listed
    BY <1>0, <1>3, <1>7, <2>1, <2>2, <2>3 DEF SweepNext, sandbox
  <2>4. CASE next \in listed
    <3>1. Treat(next) /\ claim[next] # Absent /\ ~Late(now + Fetch)
      BY <1>7, <2>1, <2>4, RoomForTurn DEF SweepNext, PaceInv
    <3>2. CASE i # next
      <4>1. claim'[i] = claim[i] /\ wakeAt'[i] = wakeAt[i] /\ putOff'[i] = putOff[i]
        BY <2>1, <3>1, <3>2, TreatEffect
      <4> QED
        BY <1>0, <1>3, <2>1, <2>2, <3>2, <4>1
    <3>3. CASE i = next
      <4>1. /\ claim'[i] # Absent => claim'[i] = claim[i] /\ (Expired(i) => now <= putOff'[i])
            /\ wakeAt'[i] # Absent => claim'[i] # Absent /\ sweptAt <= wakeAt'[i]
        BY <3>1, <3>3, TreatEffect
      <4>2. i \notin listed'
        BY <2>1, <3>3
      <4>3. EndAhead(i)'
        <5> SUFFICES ASSUME claim'[i] # Absent, Promised(i)' > 0
                     PROVE  sweptAt' < claim'[i].born + Promised(i)' \/ sweptAt' <= putOff'[i]
          BY <4>2 DEF EndAhead
        <5>1. claim'[i] = claim[i] /\ Promised(i)' = Promised(i)
          BY <4>1 DEF Promised
        <5>2. CASE ~Expired(i)
          BY <2>1, <3>1, <3>3, <5>1, <5>2, NotExpired
        <5>3. CASE Expired(i)
          <6>1. putOff'[i] \in Nat
            BY DEF TypeOK
          <6> QED
            BY <1>0, <2>1, <4>1, <5>3, <6>1
        <5> QED
          BY <5>2, <5>3
      <4>4. WakeAhead(i)'
        BY <2>1, <4>1, <4>2 DEF WakeAhead
      <4> QED
        BY <4>3, <4>4
    <3> QED
      BY <3>2, <3>3
  <2> QED
    BY <2>3, <2>4
<1>8. ASSUME Tick PROVE EndAhead(i)' /\ WakeAhead(i)'
  BY <1>3, <1>8 DEF Tick, sandbox, sweep
<1>9. ASSUME UNCHANGED vars PROVE EndAhead(i)' /\ WakeAhead(i)'
  BY <1>3, <1>9 DEF vars, sandbox, sweep
<1> QED
  BY <1>4, <1>5, <1>6, <1>7, <1>8, <1>9 DEF Next

(* All three invariants together.                                          *)
LEMMA LoopInvariant ==
  ASSUME Fits, Roomy
  PROVE  Spec => [](TypeOK /\ PaceInv /\ TurnInv)
<1>1. Init => PaceInv /\ TurnInv
  BY TimesAssumption, SizesAssumption
     DEF Init, PaceInv, TurnInv, EndAhead, WakeAhead, AtRest, Nothing
<1>2. TypeOK /\ TypeOK' /\ PaceInv /\ TurnInv /\ [Next]_vars => (PaceInv /\ TurnInv)'
  BY NextPaceInv, NextTurnInv
<1> QED
  BY <1>1, <1>2, TypeCorrect, PTL DEF Spec

(* A sweep ends all sessions whose TTL had passed as it began, wherever    *)
(* they stand in the list, but those whose purge fails, if the deadline of *)
(* a sweep has room for what all the pods may cost (runner.go:67).         *)
THEOREM EndedInTime == ASSUME Fits, Roomy PROVE Spec => []EndsInTime
<1>1. TypeOK /\ PaceInv /\ TurnInv => EndsInTime
  BY DEF EndsInTime, PaceInv, TurnInv, EndAhead
<1> QED
  BY <1>1, LoopInvariant, PTL

(* And it leaves none asleep that was past its wake-at.                    *)
THEOREM WokenInTime == ASSUME Fits, Roomy PROVE Spec => []AwakeInTime
<1>1. TypeOK /\ PaceInv /\ TurnInv => AwakeInTime
  BY DEF AwakeInTime, PaceInv, TurnInv, WakeAhead
<1> QED
  BY <1>1, LoopInvariant, PTL

(* So a session outlives its TTL, and the failure of its last purge, or    *)
(* sleeps past its wake-at, for an interval and two deadlines at most.     *)
THEOREM DelayBounded == ASSUME Fits, Roomy PROVE Spec => []BoundedDelay
<1>1. TypeOK /\ PaceInv /\ TurnInv => BoundedDelay
  <2> SUFFICES ASSUME TypeOK, PaceInv, TurnInv, NEW i \in Ids
               PROVE  /\ claim[i] # Absent /\ Promised(i) > 0 => now - EndDue(i) <= InTime
                      /\ wakeAt[i] # Absent => now - wakeAt[i] <= InTime
    BY DEF BoundedDelay
  <2>1. /\ now \in Nat /\ started \in Nat /\ sweptAt \in Nat
        /\ Interval \in Nat /\ Cycle \in Nat
        /\ wakeAt[i] \in Nat \cup {Absent} /\ putOff[i] \in Nat
        /\ claim[i] # Absent => claim[i].born \in Nat /\ Promised(i) \in Nat
    BY LimitKept, TimesAssumption, SizesAssumption DEF TypeOK, Time, Claim
  <2>2. EndAhead(i) /\ WakeAhead(i)
    BY DEF TurnInv
  <2>3. IF i \in listed THEN now <= started + Cycle ELSE now <= sweptAt + Interval + Cycle
    BY <2>1 DEF PaceInv
  <2>4. ASSUME claim[i] # Absent, Promised(i) > 0 PROVE now - EndDue(i) <= InTime
    <3>1. EndDue(i) \in Nat /\ (i \notin listed => sweptAt <= EndDue(i))
      BY <2>1, <2>2, <2>4 DEF EndAhead, EndDue, Later
    <3>2. i \in listed => started <= EndDue(i) + Interval + Cycle
      BY <2>2, <2>4 DEF EndAhead
    <3> QED
      BY <2>1, <2>3, <3>1, <3>2 DEF InTime
  <2>5. wakeAt[i] # Absent => now - wakeAt[i] <= InTime
    BY <2>1, <2>2, <2>3 DEF WakeAhead, InTime
  <2> QED
    BY <2>4, <2>5
<1> QED
  BY <1>1, LoopInvariant, PTL
=============================================================================
