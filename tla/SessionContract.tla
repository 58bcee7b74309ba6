-------------------------- MODULE SessionContract ---------------------------
(***************************************************************************)
(* What the lifecycle-manager promises about the lives of sessions, with   *)
(* none of its calls, retries and goroutines: a session (one incarnation   *)
(* of an id, told apart by the uid of its claim) lives until it is doomed, *)
(* it goes only once the connector has confirmed its purge, and a DELETE   *)
(* that was answered 200 is final.                                         *)
(***************************************************************************)
EXTENDS Naturals

VARIABLES
  born,     \* uids up to this one were given out
  live,     \* sessions whose claim exists and is not being deleted
  relay,    \* those of them that were created with a connector block
  opening,  \* sessions whose create request is still being served
  doomed,   \* sessions a DELETE asked for, or whose TTL has run out
  purged,   \* sessions whose purge the connector has confirmed
  deleted,  \* sessions whose DELETE was answered 200
  enabled   \* the connector integration is on

vars == <<born, live, relay, opening, doomed, purged, deleted, enabled>>

Init == /\ born = 0
        /\ live = {}
        /\ relay = {}
        /\ opening = {}
        /\ doomed = {}
        /\ purged = {}
        /\ deleted = {}
        /\ enabled \in BOOLEAN

(* A session is created; its request may have failed right away.           *)
Create == /\ born' = born + 1
          /\ live' = live \cup {born'}
          /\ relay' \in {relay, relay \cup {born'}}
          /\ opening' \in {opening, opening \cup {born'}}
          /\ UNCHANGED <<doomed, purged, deleted, enabled>>

(* A create request ends, with or without success.                         *)
Settle(u) == /\ opening' = opening \ {u}
             /\ UNCHANGED <<born, live, relay, doomed, purged, deleted, enabled>>

(* A create request takes back the session it opened.                      *)
TakeBack(u) == /\ u \in opening
               /\ live' = live \ {u}
               /\ relay' = relay \ {u}
               /\ opening' = opening \ {u}
               /\ UNCHANGED <<born, doomed, purged, deleted, enabled>>

Doom(u) == /\ u \in 1 .. born
           /\ doomed' = doomed \cup {u}
           /\ UNCHANGED <<born, live, relay, opening, purged, deleted, enabled>>

Purge(u) == /\ u \in doomed \cup opening
            /\ purged' = purged \cup {u}
            /\ UNCHANGED <<born, live, relay, opening, doomed, deleted, enabled>>

(* The end of a session, and perhaps the 200 of a DELETE (of a session that*)
(* may be gone already).  Its purge comes first, for as long as there is a *)
(* connector to ask.                                                       *)
End(u) == /\ u \in doomed
          /\ u \in relay /\ enabled => u \in purged
          /\ live' = live \ {u}
          /\ relay' = relay \ {u}
          /\ deleted' \in {deleted, deleted \cup {u}}
          /\ UNCHANGED <<born, opening, doomed, purged, enabled>>

(* The manager restarts: no request survives, and no session is touched.   *)
Restart == /\ opening' = {}
           /\ enabled' \in BOOLEAN
           /\ UNCHANGED <<born, live, relay, doomed, purged, deleted>>

Next == \/ Create
        \/ Restart
        \/ \E u \in 1 .. born :
             Settle(u) \/ TakeBack(u) \/ Doom(u) \/ Purge(u) \/ End(u)

Spec == Init /\ [][Next]_vars
=============================================================================
