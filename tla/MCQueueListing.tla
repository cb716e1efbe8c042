--------------------------- MODULE MCQueueListing ---------------------------
(* Instances of QueueListing for TLC: transfers, a settings change, the     *)
(* Safe's creation, and two rejections.                                     *)
EXTENDS QueueListing

CONSTANTS pay, bill, policy, creation, no1, no2, ann, bob, cid

MCKind == [t \in Txs |->
    CASE t \in {pay, bill} -> "Transfer"
      [] t = policy       -> "SettingsChange"
      [] t = creation     -> "Creation"
      [] OTHER            -> "Custom"]

MCRejections == {no1, no2} \cap Txs

(* Two of the three owners have to sign; cid is not bound in the chat. When *)
(* the queue is fetched, the transfer has no signature, the policy its two, *)
(* one rejection a signature too many and the other one too few.            *)
MCRequired == [t \in Txs |-> 2]

MCNamed == {ann, bob}

MCEarly == [t \in Txs |->
    CASE t = policy -> {ann, bob}
      [] t = no1    -> {ann, bob, cid}
      [] t = no2    -> {ann}
      [] OTHER      -> {}]
=============================================================================
