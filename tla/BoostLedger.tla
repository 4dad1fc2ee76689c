---------------------------- MODULE BoostLedger ----------------------------
(***************************************************************************)
(* What a delivery boost promises its players, whatever happens to the     *)
(* portal process, the database connection or the game server's reply:     *)
(*                                                                         *)
(*   - a request is entered in the ledger before anything is delivered;    *)
(*   - at most one delivery is ever made for it, and only while the ledger *)
(*     still says that it may happen ("pending" or "unknown");             *)
(*   - "sent" is written only after the delivery and "failed" only when    *)
(*     there was none, and both are final: no delivery follows "failed".   *)
(*                                                                         *)
(* specs/implemented/player-boosts.md states the same contract in prose    *)
(* under "Durable Idempotency and Audit State".                            *)
(***************************************************************************)
EXTENDS Naturals

CONSTANT RequestIds

VARIABLES
    ledger,     \* ledger[r]: the status column of request r
    delivered   \* delivered[r]: how often r was delivered in the game

vars == <<ledger, delivered>>

Open == {"pending", "unknown"}

Init == /\ ledger = [r \in RequestIds |-> "absent"]
        /\ delivered = [r \in RequestIds |-> 0]

Enter(r) == /\ ledger[r] = "absent"
            /\ ledger' = [ledger EXCEPT ![r] = "pending"]
            /\ UNCHANGED delivered

Deliver(r) == /\ ledger[r] \in Open
              /\ delivered[r] = 0
              /\ delivered' = [delivered EXCEPT ![r] = 1]
              /\ UNCHANGED ledger

\* Nobody could establish what happened; a later look may still confirm it.
Doubt(r) == /\ ledger[r] = "pending"
            /\ ledger' = [ledger EXCEPT ![r] = "unknown"]
            /\ UNCHANGED delivered

Confirm(r) == /\ ledger[r] \in Open
              /\ delivered[r] = 1
              /\ ledger' = [ledger EXCEPT ![r] = "sent"]
              /\ UNCHANGED delivered

Reject(r) == /\ ledger[r] \in Open
             /\ delivered[r] = 0
             /\ ledger' = [ledger EXCEPT ![r] = "failed"]
             /\ UNCHANGED delivered

Next == \E r \in RequestIds :
            Enter(r) \/ Deliver(r) \/ Doubt(r) \/ Confirm(r) \/ Reject(r)

Spec == Init /\ [][Next]_vars

=============================================================================
