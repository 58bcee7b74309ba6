----------------------- MODULE ConnectorClient_proofs -----------------------
(***************************************************************************)
(* Proofs about ConnectorClient, for every number of goroutines, every     *)
(* length of the throttle window, of the cache's life and of the timeout:  *)
(* the type invariant, how many requests an open window lets through, and  *)
(* how old an instance list may be when it is used.                        *)
(***************************************************************************)
EXTENDS ConnectorClient, FiniteSetTheorems, TLAPS

-----------------------------------------------------------------------------
(* The inductive invariants behind WindowIsShut and NeverTooOld            *)

InFlight == {p \in Procs : pc[p] = "sent"}

(* While the window is open, requests in flight only get fewer.            *)
ShutInv == /\ WindowIsShut
           /\ Open => late + Cardinality(InFlight) <= Cardinality(Procs) - 1

(* A request is answered within its timeout, so a list was no older than   *)
(* that when it went into the cache.                                       *)
AgeInv == /\ \A p \in Procs :
               /\ pc[p] \in {"sent", "ok", "refused"} => now - sentAt[p] <= Timeout
               /\ pc[p] \in {"ok", "refused"} => sentAt[p] <= made[p]
          /\ cached # Absent => cachedAt - cached <= Timeout
          /\ NeverTooOld

-----------------------------------------------------------------------------
(* Types                                                                   *)

(* Every step keeps the variables in their types.                          *)
LEMMA NextTypeOK == TypeOK /\ [Next]_vars => TypeOK'
<1> SUFFICES ASSUME TypeOK, [Next]_vars PROVE TypeOK'
  OBVIOUS
<1> USE ClientAssumption DEF TypeOK, Time, shared, call
<1>1. ASSUME NEW p \in Procs, Instances(p) PROVE TypeOK'
  <2>1. given' \in [Procs -> Time \cup {Absent}]
    <3>1. CASE Fresh
      <4>1. now - cached \in Time
        BY <3>1 DEF Fresh
      <4> QED
        BY <1>1, <3>1, <4>1 DEF Instances, Give
    <3>2. CASE ~Fresh
      BY <1>1, <3>2 DEF Instances, Give
    <3> QED
      BY <3>1, <3>2
  <2>2. pc' \in [Procs -> {"idle", "gate", "sent", "ok", "refused"}]
    BY <1>1 DEF Instances, Goto
  <2> QED
    BY <1>1, <2>1, <2>2 DEF Instances
<1>2. ASSUME NEW p \in Procs, Write(p) PROVE TypeOK'
  BY <1>2 DEF Write, Goto, Give
<1>3. ASSUME NEW p \in Procs, Gate(p) PROVE TypeOK'
  BY <1>3 DEF Gate, Goto, Rest
<1>4. ASSUME NEW p \in Procs, Handle(p) PROVE TypeOK'
  BY <1>4 DEF Handle, Goto
<1>5. ASSUME NEW p \in Procs, Finish(p) PROVE TypeOK'
  <2>1. /\ pc' \in [Procs -> {"idle", "gate", "sent", "ok", "refused"}]
        /\ kind' \in [Procs -> {"list", "write"}]
        /\ now' = now
        /\ sentAt' \in [Procs -> 0 .. now]
        /\ made' \in [Procs -> 0 .. now]
    BY <1>5 DEF Finish, Rest, Goto
  <2>2. /\ throttledUntil' \in 0 .. MaxTime + Window
        /\ late' \in Nat
    BY <1>5 DEF Finish
  <2>3. made[p] \in 0 .. now /\ now - made[p] \in Time
    OBVIOUS
  <2>4. /\ cached' \in 0 .. now \cup {Absent}
        /\ cachedAt' \in 0 .. now
    BY <1>5, <2>3 DEF Finish
  <2>5. given' \in [Procs -> Time \cup {Absent}]
    BY <1>5, <2>3 DEF Finish, Give
  <2> QED
    BY <2>1, <2>2, <2>4, <2>5
<1>6. ASSUME NEW p \in Procs, Fail(p) PROVE TypeOK'
  BY <1>6 DEF Fail, Rest, Goto
<1>7. ASSUME Restart PROVE TypeOK'
  BY <1>7 DEF Restart
<1>8. ASSUME Tick PROVE TypeOK'
  BY <1>8 DEF Tick
<1>9. ASSUME UNCHANGED vars PROVE TypeOK'
  BY <1>9 DEF vars
<1> QED
  BY <1>1, <1>2, <1>3, <1>4, <1>5, <1>6, <1>7, <1>8, <1>9 DEF Next

(* The client and its cache keep every variable in its type.               *)
THEOREM TypeCorrect == Spec => []TypeOK
<1>1. Init => TypeOK
  BY ClientAssumption DEF Init, TypeOK, Time
<1> QED
  BY <1>1, NextTypeOK, PTL DEF Spec

-----------------------------------------------------------------------------
(* The age of an instance list                                             *)

(* A request is answered within its timeout, and a list is kept in the     *)
(* cache from the time its request came back.                              *)
LEMMA NextAge == TypeOK /\ AgeInv /\ [Next]_vars => AgeInv'
<1> SUFFICES ASSUME TypeOK, AgeInv, [Next]_vars PROVE AgeInv'
  OBVIOUS
<1> USE ClientAssumption DEF TypeOK, Time, AgeInv, NeverTooOld, shared, call
<1>1. ASSUME NEW p \in Procs, Instances(p) PROVE AgeInv'
  <2>1. CASE Fresh
    <3>1. now - cached < Timeout + CacheTTL
      BY <2>1 DEF Fresh
    <3>2. UNCHANGED <<now, shared, pc, kind, sentAt, made>>
      BY <1>1, <2>1 DEF Instances
    <3> QED
      BY <1>1, <2>1, <3>1, <3>2 DEF Instances, Give
  <2>2. CASE ~Fresh
    BY <1>1, <2>2 DEF Instances, Give, Goto
  <2> QED
    BY <2>1, <2>2
<1>2. ASSUME NEW p \in Procs, Write(p) PROVE AgeInv'
  BY <1>2 DEF Write, Goto, Give
<1>3. ASSUME NEW p \in Procs, Gate(p) PROVE AgeInv'
  BY <1>3 DEF Gate, Goto, Rest
<1>4. ASSUME NEW p \in Procs, Handle(p) PROVE AgeInv'
  BY <1>4 DEF Handle, Goto
<1>5. ASSUME NEW p \in Procs, Finish(p) PROVE AgeInv'
  <2>1. pc[p] \in {"ok", "refused"} /\ now' = now
    BY <1>5 DEF Finish
  <2>2. now - made[p] <= Timeout
    BY <2>1
  <2>3. /\ pc' = [pc EXCEPT ![p] = "idle"]
        /\ sentAt' = [sentAt EXCEPT ![p] = 0]
        /\ made' = [made EXCEPT ![p] = 0]
    BY <1>5 DEF Finish, Rest, Goto
  <2>4. \A q \in Procs :
          /\ pc'[q] \in {"sent", "ok", "refused"} => now' - sentAt'[q] <= Timeout
          /\ pc'[q] \in {"ok", "refused"} => sentAt'[q] <= made'[q]
    BY <2>1, <2>3
  <2>5. /\ cached' # Absent => cachedAt' - cached' <= Timeout
        /\ \A q \in Procs : given'[q] # Absent => given'[q] < Timeout + CacheTTL
    BY <1>5, <2>1, <2>2 DEF Finish, Give
  <2> QED
    BY <2>4, <2>5
<1>6. ASSUME NEW p \in Procs, Fail(p) PROVE AgeInv'
  BY <1>6 DEF Fail, Rest, Goto
<1>7. ASSUME Restart PROVE AgeInv'
  BY <1>7 DEF Restart
<1>8. ASSUME Tick PROVE AgeInv'
  BY <1>8 DEF Tick
<1>9. ASSUME UNCHANGED vars PROVE AgeInv'
  BY <1>9 DEF vars
<1> QED
  BY <1>1, <1>2, <1>3, <1>4, <1>5, <1>6, <1>7, <1>8, <1>9 DEF Next

(* Nobody decides on an instance list that is older than a request may     *)
(* take and the cache may keep it (manager.go:302).                        *)
THEOREM ListsAreFresh == Spec => []NeverTooOld
<1>1. Init => AgeInv
  BY ClientAssumption DEF Init, AgeInv, NeverTooOld
<1>2. AgeInv => NeverTooOld
  BY DEF AgeInv
<1> QED
  BY <1>1, <1>2, NextAge, TypeCorrect, PTL DEF Spec

-----------------------------------------------------------------------------
(* The throttle window                                                     *)

(* The requests in flight are finitely many, and one that has come back is *)
(* not among them.                                                         *)
LEMMA InFlightBound ==
  /\ Cardinality(InFlight) \in Nat
  /\ \A p \in Procs : pc[p] # "sent" => Cardinality(InFlight) <= Cardinality(Procs) - 1
<1>1. InFlight \subseteq Procs
  BY DEF InFlight
<1>2. IsFiniteSet(InFlight) /\ Cardinality(InFlight) \in Nat
  BY <1>1, FS_Subset, FS_CardinalityType, ClientAssumption
<1>3. ASSUME NEW p \in Procs, pc[p] # "sent"
      PROVE  Cardinality(InFlight) <= Cardinality(Procs) - 1
  <2>1. InFlight \subseteq Procs \ {p}
    BY <1>3 DEF InFlight
  <2>2. /\ IsFiniteSet(Procs \ {p})
        /\ Cardinality(Procs \ {p}) = Cardinality(Procs) - 1
    BY FS_RemoveElement, ClientAssumption
  <2> QED
    BY <2>1, <2>2, FS_Subset
<1> QED
  BY <1>2, <1>3

(* One request less in flight.                                             *)
LEMMA OneLess ==
  ASSUME NEW p \in Procs, pc[p] = "sent", InFlight' = InFlight \ {p}
  PROVE  /\ Cardinality(InFlight') \in Nat
         /\ Cardinality(InFlight') = Cardinality(InFlight) - 1
<1>1. IsFiniteSet(InFlight)
  BY FS_Subset, ClientAssumption DEF InFlight
<1>2. p \in InFlight
  BY DEF InFlight
<1>3. IsFiniteSet(InFlight \ {p})
  BY <1>1, FS_RemoveElement
<1> QED
  BY <1>1, <1>2, <1>3, FS_RemoveElement, FS_CardinalityType

(* A step keeps the count: what the connector gets while the window is     *)
(* open was in flight before, and the one that opens it is not.            *)
LEMMA NextShut == TypeOK /\ TypeOK' /\ ShutInv /\ [Next]_vars => ShutInv'
<1> SUFFICES ASSUME TypeOK, TypeOK', ShutInv, [Next]_vars PROVE ShutInv'
  OBVIOUS
<1>a. Cardinality(Procs) \in Nat /\ Cardinality(Procs) >= 1
  BY FS_CardinalityType, FS_EmptySet, ClientAssumption
<1>b. Cardinality(InFlight) \in Nat
  BY InFlightBound
<1>c. late \in Nat /\ late' \in Nat /\ now \in Nat /\ now' \in Nat
      /\ throttledUntil \in Nat /\ throttledUntil' \in Nat
  BY ClientAssumption DEF TypeOK, Time
<1>d. pc \in [Procs -> {"idle", "gate", "sent", "ok", "refused"}]
  BY DEF TypeOK
<1> USE DEF ShutInv, WindowIsShut, Open
<1>1. ASSUME InFlight' = InFlight, UNCHANGED <<throttledUntil, late>>, now' >= now
      PROVE  ShutInv'
  BY <1>1, <1>a, <1>b, <1>c
<1>2. ASSUME NEW p \in Procs, Instances(p) PROVE ShutInv'
  <2>1. InFlight' = InFlight
    BY <1>2, <1>d DEF Instances, Goto, InFlight
  <2> QED
    BY <1>1, <1>2, <1>c, <2>1 DEF Instances, shared
<1>3. ASSUME NEW p \in Procs, Write(p) PROVE ShutInv'
  <2>1. InFlight' = InFlight
    BY <1>3, <1>d DEF Write, Goto, InFlight
  <2> QED
    BY <1>1, <1>3, <1>c, <2>1 DEF Write, shared
<1>4. ASSUME NEW p \in Procs, Gate(p) PROVE ShutInv'
  <2>1. CASE Open
    <3>1. InFlight' = InFlight
      BY <1>4, <2>1, <1>d DEF Gate, Rest, Goto, InFlight
    <3> QED
      BY <1>1, <1>4, <1>c, <3>1 DEF Gate, shared
  <2>2. CASE ~Open
    BY <1>4, <2>2 DEF Gate, shared
  <2> QED
    BY <2>1, <2>2
<1>5. ASSUME NEW p \in Procs, Handle(p) PROVE ShutInv'
  <2>1. pc[p] = "sent" /\ InFlight' = InFlight \ {p}
    BY <1>5, <1>d DEF Handle, Goto, InFlight
  <2>2. /\ Cardinality(InFlight') \in Nat
        /\ Cardinality(InFlight') = Cardinality(InFlight) - 1
    BY <2>1, OneLess
  <2> QED
    BY <1>5, <1>a, <1>b, <1>c, <2>2 DEF Handle, shared
<1>6. ASSUME NEW p \in Procs, Finish(p) PROVE ShutInv'
  <2>1. pc[p] # "sent" /\ InFlight' = InFlight
    BY <1>6, <1>d DEF Finish, Rest, Goto, InFlight
  <2>2. Cardinality(InFlight) <= Cardinality(Procs) - 1
    BY <2>1, InFlightBound
  <2> QED
    BY <1>6, <1>a, <1>b, <1>c, <2>1, <2>2, ClientAssumption DEF Finish
<1>7. ASSUME NEW p \in Procs, Fail(p) PROVE ShutInv'
  <2>1. CASE pc[p] = "sent"
    <3>1. InFlight' = InFlight \ {p}
      BY <1>7, <2>1, <1>d DEF Fail, Rest, Goto, InFlight
    <3>2. Cardinality(InFlight') = Cardinality(InFlight) - 1
      BY <2>1, <3>1, OneLess
    <3> QED
      BY <1>7, <1>a, <1>b, <1>c, <3>2 DEF Fail, shared
  <2>2. CASE pc[p] # "sent"
    <3>1. InFlight' = InFlight
      BY <1>7, <2>2, <1>d DEF Fail, Rest, Goto, InFlight
    <3> QED
      BY <1>1, <1>7, <1>c, <3>1 DEF Fail, shared
  <2> QED
    BY <2>1, <2>2
<1>8. ASSUME Restart PROVE ShutInv'
  BY <1>8, <1>a, <1>c DEF Restart
<1>9. ASSUME Tick PROVE ShutInv'
  <2>1. InFlight' = InFlight
    BY <1>9 DEF Tick, InFlight
  <2> QED
    BY <1>1, <1>9, <1>c, <2>1 DEF Tick, shared
<1>10. ASSUME UNCHANGED vars PROVE ShutInv'
  <2>1. InFlight' = InFlight
    BY <1>10 DEF vars, call, InFlight
  <2> QED
    BY <1>1, <1>10, <1>c, <2>1 DEF vars, shared
<1> QED
  BY <1>2, <1>3, <1>4, <1>5, <1>6, <1>7, <1>8, <1>9, <1>10 DEF Next

(* While the window is open the connector gets at most one request from    *)
(* each of the other goroutines, however often their 429s extend it        *)
(* (connector/http.go:75).                                                 *)
THEOREM WindowShuts == Spec => []WindowIsShut
<1>1. Init => ShutInv
  <2>1. Cardinality(Procs) \in Nat /\ Cardinality(Procs) >= 1
    BY FS_CardinalityType, FS_EmptySet, ClientAssumption
  <2> QED
    BY <2>1 DEF Init, ShutInv, WindowIsShut, Open
<1>2. ShutInv => WindowIsShut
  BY DEF ShutInv
<1> QED
  BY <1>1, <1>2, NextShut, TypeCorrect, PTL DEF Spec
=============================================================================
