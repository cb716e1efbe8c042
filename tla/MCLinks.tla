------------------------------- MODULE MCLinks -------------------------------
(* Instances of Links for TLC.                                              *)
EXTENDS Links

CONSTANTS u1, u2, a1, a2, s1, s2, c1

(* Two spellings of one name, and two other names.                          *)
Named == {"Ann", "ann", "bob", "cid"}

(* Accounts with and without a user name.                                   *)
Nameless == {"ann", ""}

MCLower == [n \in Names |-> IF n = "Ann" THEN "ann" ELSE n]

(* Both members sign with a1, the owners of a shared wallet; u1 with a2 too. *)
MCWallets == [u \in Users |-> IF u = u1 THEN Addrs ELSE {a1}]

(* Both addresses own s1, and a2 alone owns s2.                             *)
MCOwners == [s \in Safes |-> IF s = s1 THEN Addrs ELSE {a2}]
=============================================================================
