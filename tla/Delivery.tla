------------------------------ MODULE Delivery ------------------------------
(***************************************************************************)
(* What the bot promises those who write to it: updates are answered, or   *)
(* dropped, in the order they were posted. Only a death of the process     *)
(* breaks the order: it may take the bot back, by one batch at most, and   *)
(* it may take updates with it, a full channel and one more at most.       *)
(***************************************************************************)
EXTENDS Integers

CONSTANTS
    Limit,   \* updates in a batch
    Buffer   \* updates in the channel

VARIABLES
    posted,  \* the last update that was posted
    at,      \* the last update the bot is through with
    done,    \* the updates answered or dropped
    lost     \* the updates that deaths took

vars == <<posted, at, done, lost>>

Init ==
    /\ posted = 0
    /\ at = 0
    /\ done = {} /\ lost = {}

Post ==
    /\ posted' = posted + 1
    /\ UNCHANGED <<at, done, lost>>

(* The next update is answered or dropped, perhaps once more.               *)
Settle ==
    /\ at < posted
    /\ at' = at + 1
    /\ done' = done \cup {at + 1}
    /\ UNCHANGED <<posted, lost>>

(* The process dies and goes on after update k.                             *)
Die(k) ==
    /\ k \in at - Limit .. at + Buffer + 1
    /\ lost \subseteq 1 .. k
    /\ at' = k
    /\ lost' = lost \cup (1 .. k \ done)
    /\ UNCHANGED <<posted, done>>

Next ==
    \/ Post
    \/ Settle
    \/ \E k \in 0 .. posted : Die(k)

Spec == Init /\ [][Next]_vars

-----------------------------------------------------------------------------
(* The bot is through with a stretch of the updates, each of which has met  *)
(* its fate.                                                                *)
TypeOK ==
    /\ posted \in Nat
    /\ at \in 0 .. posted
    /\ done \subseteq 1 .. posted
    /\ lost \subseteq 1 .. at
    /\ 1 .. at \subseteq done \cup lost
=============================================================================
