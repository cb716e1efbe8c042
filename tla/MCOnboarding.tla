---------------------------- MODULE MCOnboarding ----------------------------
(* Instances of Onboarding for TLC.                                         *)
EXTENDS Onboarding, TLC

CONSTANTS u1, u2, a1, a2, s1, s2, c1, c2, r1, r2

(* u1 has two wallets and administers every chat; both members can sign     *)
(* with a1, as the owners of a shared wallet do.                            *)
MCWallets == [u \in Users |-> IF u = u1 THEN Addrs ELSE {a1}]

MCAdmins == [c \in Chats |-> {u1}]

OneWallet == [u \in Users |-> {a1}]

NoAdmins == [c \in Chats |-> {}]

(* s1 is deployed on both chains, with different owners; s2 only on matic.  *)
MCOwners ==
    [p \in Safes \X Chains |->
        CASE p = <<s1, "eth">>   -> {a1}
          [] p = <<s1, "matic">> -> {a1, a2}
          [] p = <<s2, "matic">> -> {a2}
          [] OTHER               -> {}]

NoRequests == {}

OneSafe == {<<s1, 1>>}

TwoSafes == {<<s1, 1>>, <<s2, 137>>}

(* The slots for requests are interchangeable.                              *)
RequestSymmetry == Permutations(Reqs)
=============================================================================
