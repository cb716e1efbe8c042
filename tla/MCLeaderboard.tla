---------------------------- MODULE MCLeaderboard ----------------------------
(* Instances of Leaderboard for TLC.                                        *)
EXTENDS Leaderboard

CONSTANTS u1, u2, a1, a2, s1, s2, r1, r2

(* a1 executes the odd transactions and a2 the even ones; a1 owns the Safes,*)
(* s2 together with a2.                                                     *)
MCExecutor == [t \in Safes \X Nonces |-> IF t[2] % 2 = 1 THEN a1 ELSE a2]

MCSigners == [t \in Safes \X Nonces |-> IF t[1] = s1 THEN <<a1>> ELSE <<a1, a2>>]

(* Transaction 1 of s1 and 2 of s2 is a contract call, which has no         *)
(* direction: a page may hold two transfers, or lose one.                   *)
SomeOutgoing == {t \in Safes \X Nonces : t[2] # IF t[1] = s1 THEN 1 ELSE 2}
=============================================================================
