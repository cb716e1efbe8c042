----------------------------- MODULE QueueProofs -----------------------------
(***************************************************************************)
(* What /queue lists, for every queue: any set of transactions, of any     *)
(* kinds, in any order and any blocks.                                     *)
(***************************************************************************)
EXTENDS QueueListing, FiniteSetTheorems, TLAPS

USE QueueAssumption

-----------------------------------------------------------------------------
(* Types *)

(* A line is well-formed, whatever transaction it is about.                 *)
LEMMA LineHasType ==
    ASSUME NEW t \in Txs, NEW n \in Nat
    PROVE  Line(t, n) \in LineType
BY DEF Line, LineType

(* The signatures of a transaction can be counted, and no more owners sign  *)
(* than there are.                                                          *)
LEMMA SignaturesCounted ==
    ASSUME NEW S, S \subseteq Owners
    PROVE  Cardinality(S) \in 0 .. Word - 1
<1>1. IsFiniteSet(S) /\ Cardinality(S) <= Cardinality(Owners)
  BY FS_Subset
<1>2. Cardinality(S) \in Nat /\ Cardinality(Owners) \in Nat
  BY <1>1, FS_CardinalityType
<1> QED
  BY <1>1, <1>2

(* What is missing is a uint64, whether the difference borrows or not.      *)
LEMMA MissingHasType ==
    ASSUME TypeOK, NEW t \in Txs, NEW submitted \in 0 .. Word - 1, NEW d \in Details(t)
    PROVE  /\ Count(d.confirmed, submitted) \in 0 .. Word - 1
           /\ Missing(t, Count(d.confirmed, submitted)) \in 0 .. Word - 1
<1>1. d.confirmed \subseteq Owners
  BY DEF TypeOK, Details
<1>2. Cardinality(d.confirmed) \in 0 .. Word - 1
  BY <1>1, SignaturesCounted
<1>3. Count(d.confirmed, submitted) \in 0 .. Word - 1
  BY <1>2 DEF Count
<1>4. Required[t] \in 0 .. Word - 1
  OBVIOUS
<1> QED
  BY <1>3, <1>4 DEF Missing, Minus

(* So a request for signatures is well-formed.                              *)
LEMMA ConfirmationsKeepType ==
    ASSUME TypeOK, NEW t \in Txs, NEW submitted \in 0 .. Word - 1,
           HandleConfirmations(t, submitted)
    PROVE  asked' \in AskType \cup {Nil}
<1>1. CASE asked' = asked
  BY <1>1 DEF TypeOK
<1>2. ASSUME NEW d \in Details(t),
             LET need == Missing(t, Count(d.confirmed, submitted))
             IN  asked' = [tx |-> t, need |-> need,
                           from |-> IF need = 0 THEN {} ELSE d.signers \ d.confirmed]
      PROVE  asked' \in AskType
  <2>1. Missing(t, Count(d.confirmed, submitted)) \in 0 .. Word - 1
    BY MissingHasType
  <2>2. d.signers \subseteq Named
    BY DEF Details
  <2> QED
    BY <1>2, <2>1, <2>2 DEF AskType
<1> QED
  BY <1>1, <1>2 DEF HandleConfirmations

(* What counting a transaction of a block makes of the handler.             *)
LEMMA CountedHasType ==
    ASSUME TypeOK, NEW t \in Txs
    PROVE  Counted(t) \in [ConflictInProgress: BOOLEAN, ConflictCount: Nat,
                           ConflictTransaction: Rejections \cup {Nil}]
<1>1. Kept(t) \in Rejections \cup {Nil}
  BY DEF TypeOK, Kept
<1> DEFINE n == handler.ConflictCount + 1
<1>2. n \in Nat
  BY DEF TypeOK
<1>3. Counted(t) = [handler EXCEPT !.ConflictCount = n, !.ConflictTransaction = Kept(t)]
  BY DEF Counted
<1> HIDE DEF n
<1> QED
  BY <1>1, <1>2, <1>3 DEF TypeOK

(* Writing a line keeps the types of the reply and of the handler.          *)
LEMMA TransactionKeepsTypes ==
    ASSUME TypeOK, NEW t \in Txs,
           NEW h \in [ConflictInProgress: BOOLEAN, ConflictCount: Nat,
                      ConflictTransaction: Rejections \cup {Nil}],
           HandleTransaction(t, h)
    PROVE  /\ reply' \in Seq(LineType)
           /\ asked' \in AskType \cup {Nil}
           /\ handler' \in [ConflictInProgress: BOOLEAN, ConflictCount: Nat,
                            ConflictTransaction: Rejections \cup {Nil}]
<1>1. Line(t, h.ConflictCount) \in LineType
  BY LineHasType
<1>2. Cardinality(Early[t]) \in 0 .. Word - 1
  BY SignaturesCounted
<1>3. reply' \in Seq(LineType) /\ asked' \in AskType \cup {Nil}
  <2>1. CASE reply' = reply /\ asked' = asked
    BY <2>1 DEF TypeOK
  <2>2. CASE /\ reply' = Append(reply, Line(t, h.ConflictCount))
             /\ HandleConfirmations(t, Cardinality(Early[t]))
    <3>1. asked' \in AskType \cup {Nil}
      BY <1>2, <2>2, ConfirmationsKeepType
    <3> DEFINE line == Line(t, h.ConflictCount)
    <3> HIDE DEF line
    <3>2. reply' \in Seq(LineType)
      BY <1>1, <2>2 DEF TypeOK, line
    <3> QED
      BY <3>1, <3>2
  <2> QED
    BY <2>1, <2>2 DEF HandleTransaction
<1>4. NoConflict \in [ConflictInProgress: BOOLEAN, ConflictCount: Nat,
                      ConflictTransaction: Rejections \cup {Nil}]
  BY DEF NoConflict
<1>5. handler' = NoConflict \/ handler' = h
  BY DEF HandleTransaction, ResetConflictProgress
<1> QED
  BY <1>3, <1>4, <1>5

(* So does a result, whether it is written, counted or both.                *)
LEMMA ResultKeepsTypes ==
    ASSUME TypeOK, NEW t \in Txs, NEW conflictType \in {"None", "HasNext", "End"},
           HandleResult(t, conflictType)
    PROVE  /\ reply' \in Seq(LineType)
           /\ asked' \in AskType \cup {Nil}
           /\ handler' \in [ConflictInProgress: BOOLEAN, ConflictCount: Nat,
                            ConflictTransaction: Rejections \cup {Nil}]
<1>1. CASE ~handler.ConflictInProgress
  <2>1. HandleTransaction(t, handler)
    BY <1>1 DEF HandleResult
  <2> QED
    BY <2>1, TransactionKeepsTypes DEF TypeOK
<1>2. CASE /\ handler.ConflictInProgress
           /\ conflictType = "End" /\ Kept(t) # Nil
  <2>1. HandleTransaction(Kept(t), Counted(t))
    BY <1>2 DEF HandleResult
  <2>2. Kept(t) \in Txs
    BY <1>2 DEF Kept, TypeOK
  <2> QED
    BY <2>1, <2>2, CountedHasType, TransactionKeepsTypes
<1>3. CASE /\ handler.ConflictInProgress
           /\ ~(conflictType = "End" /\ Kept(t) # Nil)
  BY <1>3, CountedHasType DEF HandleResult, TypeOK
<1> QED
  BY <1>1, <1>2, <1>3 DEF TypeOK

(* The handler is created with its zero values.                             *)
LEMMA InitTypeOK == Init => TypeOK
<1> SUFFICES ASSUME Init PROVE TypeOK
  OBVIOUS
<1>1. block \in [listing: BOOLEAN, size: Nat, rejection: Rejections \cup {Nil}]
  BY DEF Init, NoBlock
<1>2. handler \in [ConflictInProgress: BOOLEAN, ConflictCount: Nat,
                   ConflictTransaction: Rejections \cup {Nil}]
  BY DEF Init, NoConflict
<1>3. reply \in Seq(LineType) /\ due \in Seq(LineType)
  BY DEF Init
<1>4. signed \in [Txs -> SUBSET Owners]
  BY DEF Init
<1> QED
  BY <1>1, <1>2, <1>3, <1>4 DEF Init, TypeOK

(* Every step of the listing keeps the types.                               *)
LEMMA NextTypeOK == TypeOK /\ [Next]_vars => TypeOK'
<1> SUFFICES ASSUME TypeOK, [Next]_vars PROVE TypeOK'
  OBVIOUS
<1>1. CASE UNCHANGED vars
  BY <1>1 DEF vars, TypeOK
<1>2. ASSUME NEW t \in queued, ListTransaction(t) PROVE TypeOK'
  <2>1. t \in Txs
    BY DEF TypeOK
  <2>2. Line(t, 0) \in LineType
    BY <2>1, LineHasType
  <2>3. HandleResult(t, "None")
    BY <1>2 DEF ListTransaction
  <2> QED
    BY <1>2, <2>1, <2>2, <2>3, ResultKeepsTypes DEF ListTransaction, TypeOK
<1>3. CASE ListConflictHeader
  <2>1. block' \in [listing: BOOLEAN, size: Nat, rejection: Rejections \cup {Nil}]
    BY <1>3 DEF ListConflictHeader, NoBlock
  <2> QED
    BY <1>3, <2>1 DEF ListConflictHeader, TypeOK
<1>4. ASSUME NEW t \in queued, NEW conflictType \in {"HasNext", "End"},
             ListConflict(t, conflictType)
      PROVE  TypeOK'
  <2> DEFINE rejection == BlockRejection(t)
  <2>1. t \in Txs /\ rejection \in Rejections \cup {Nil} /\ block.size \in Nat
    BY DEF TypeOK, BlockRejection
  <2>2. rejection # Nil => Line(rejection, block.size + 1) \in LineType
    BY <2>1, LineHasType
  <2>3. due' \in Seq(LineType)
    <3> DEFINE line == Line(rejection, block.size + 1)
    <3>1. \/ due' = due
          \/ rejection # Nil /\ due' = Append(due, line)
      BY <1>4 DEF ListConflict
    <3>2. rejection # Nil => line \in LineType
      BY <2>2
    <3>3. due \in Seq(LineType)
      BY DEF TypeOK
    <3>4. CASE due' = due
      BY <3>3, <3>4
    <3>5. CASE rejection # Nil /\ due' = Append(due, line)
      <4>1. line \in LineType
        BY <3>2, <3>5
      <4> HIDE DEF line
      <4>2. Append(due, line) \in Seq(LineType)
        BY <3>3, <4>1
      <4> QED
        BY <3>5, <4>2
    <3> QED
      BY <3>1, <3>4, <3>5
  <2>4. /\ block' \in [listing: BOOLEAN, size: Nat, rejection: Rejections \cup {Nil}]
        /\ orphaned' \in BOOLEAN
        /\ queued' \subseteq Txs
    <3> DEFINE n == block.size + 1
    <3>1. n \in Nat
      BY <2>1
    <3>2. block' = NoBlock \/ block' = [block EXCEPT !.size = n, !.rejection = rejection]
      BY <1>4 DEF ListConflict
    <3> HIDE DEF n, rejection
    <3>3. block' \in [listing: BOOLEAN, size: Nat, rejection: Rejections \cup {Nil}]
      <4>1. block \in [listing: BOOLEAN, size: Nat, rejection: Rejections \cup {Nil}]
        BY DEF TypeOK
      <4>2. CASE block' = NoBlock
        BY <4>2 DEF NoBlock
      <4>3. CASE block' = [block EXCEPT !.size = n, !.rejection = rejection]
        BY <2>1, <3>1, <4>1, <4>3
      <4> QED
        BY <3>2, <4>2, <4>3
    <3>4. orphaned' = orphaned \/ orphaned' = (orphaned \/ rejection = Nil)
      BY <1>4 DEF ListConflict, rejection
    <3>5. orphaned' \in BOOLEAN
      BY <3>4 DEF TypeOK
    <3> QED
      BY <1>4, <3>3, <3>5 DEF ListConflict, TypeOK
  <2>5. HandleResult(t, conflictType)
    BY <1>4 DEF ListConflict
  <2>6. /\ reply' \in Seq(LineType)
        /\ asked' \in AskType \cup {Nil}
        /\ handler' \in [ConflictInProgress: BOOLEAN, ConflictCount: Nat,
                         ConflictTransaction: Rejections \cup {Nil}]
    BY <2>1, <2>5, ResultKeepsTypes
  <2> QED
    BY <1>4, <2>3, <2>4, <2>6 DEF TypeOK, ListConflict
<1>5. ASSUME NEW t \in Txs, NotifyRequestSign(t) PROVE TypeOK'
  <2>1. asked' \in AskType \cup {Nil}
    BY <1>5, ConfirmationsKeepType DEF NotifyRequestSign
  <2> QED
    BY <1>5, <2>1 DEF NotifyRequestSign, TypeOK
<1>6. ASSUME NEW t \in Txs, NEW o \in Owners, Sign(o, t) PROVE TypeOK'
  BY <1>6 DEF Sign, TypeOK
<1> QED
  BY <1>1, <1>2, <1>3, <1>4, <1>5, <1>6 DEF Next

(* The handler's fields and the reply are well-typed for every queue.       *)
THEOREM QueueTypes == Spec => []TypeOK
BY InitTypeOK, NextTypeOK, PTL DEF Spec

-----------------------------------------------------------------------------
(* Completeness *)

(* Until a block without a rejection ends, the handler's fields are exactly *)
(* what has been listed of the present block, and nothing between blocks.   *)
InStep ==
    handler = IF block.listing
              THEN [ConflictInProgress |-> TRUE, ConflictCount |-> block.size,
                    ConflictTransaction |-> block.rejection]
              ELSE NoConflict

ListingInv ==
    /\ TypeOK
    /\ ~block.listing => block = NoBlock
    /\ ~orphaned => reply = due /\ InStep

(* A lone transaction is written, and leaves the fields alone.              *)
LEMMA ListTransactionInv ==
    ASSUME ListingInv, NEW t \in queued, ListTransaction(t), ~orphaned
    PROVE  reply' = due' /\ InStep'
<1>1. handler = NoConflict /\ reply = due /\ ~block.listing /\ block' = block
  BY DEF ListingInv, InStep, ListTransaction
<1>2. HandleTransaction(t, handler)
  BY <1>1 DEF ListTransaction, HandleResult, NoConflict
<1>3. Line(t, handler.ConflictCount) = Line(t, 0)
  BY <1>1 DEF NoConflict
<1>4. reply' = due'
  BY <1>1, <1>2, <1>3 DEF ListTransaction, HandleTransaction
<1>5. handler' = NoConflict
  BY <1>1, <1>2 DEF HandleTransaction, ResetConflictProgress
<1> QED
  BY <1>1, <1>4, <1>5 DEF InStep

(* A transaction of a block is counted; the last one writes the rejection.  *)
LEMMA ListConflictInv ==
    ASSUME ListingInv, NEW t \in queued, NEW conflictType \in {"HasNext", "End"},
           ListConflict(t, conflictType), ~orphaned, ~orphaned'
    PROVE  reply' = due' /\ InStep'
<1> DEFINE rejection == BlockRejection(t)
<1>1. /\ block.listing /\ reply = due
      /\ handler = [ConflictInProgress |-> TRUE, ConflictCount |-> block.size,
                    ConflictTransaction |-> block.rejection]
  BY DEF ListingInv, InStep, ListConflict
<1>2. Counted(t) = [ConflictInProgress |-> TRUE, ConflictCount |-> block.size + 1,
                    ConflictTransaction |-> rejection]
  <2>1. Kept(t) = rejection
    BY <1>1 DEF Kept, BlockRejection
  <2> DEFINE n == block.size + 1
  <2>2. Counted(t) = [handler EXCEPT !.ConflictCount = n, !.ConflictTransaction = Kept(t)]
    BY <1>1 DEF Counted
  <2> HIDE DEF n
  <2>3. Counted(t) = [ConflictInProgress |-> TRUE, ConflictCount |-> n,
                      ConflictTransaction |-> Kept(t)]
    BY <1>1, <2>2
  <2> QED
    BY <2>1, <2>3 DEF n
<1>3. rejection \in Rejections \cup {Nil} /\ Kept(t) = rejection
  BY <1>1 DEF ListingInv, TypeOK, Kept, BlockRejection
<1> HIDE DEF rejection
<1>4. CASE conflictType = "HasNext"
  <2>1. handler' = Counted(t) /\ reply' = reply
    BY <1>1, <1>4 DEF ListConflict, HandleResult
  <2>2. due' = due /\ block' = [block EXCEPT !.size = @ + 1, !.rejection = rejection]
    BY <1>4 DEF ListConflict, rejection
  <2>3. /\ block'.listing /\ block'.size = block.size + 1
        /\ block'.rejection = rejection
    BY <1>1, <2>2 DEF ListingInv, TypeOK
  <2> QED
    BY <1>1, <1>2, <2>1, <2>2, <2>3 DEF InStep
<1>5. CASE conflictType = "End"
  <2>1. /\ rejection # Nil
        /\ due' = Append(due, Line(rejection, block.size + 1))
        /\ block' = NoBlock
    BY <1>5 DEF ListConflict, rejection
  <2>2. HandleTransaction(rejection, Counted(t))
    BY <1>1, <1>3, <1>5, <2>1 DEF ListConflict, HandleResult
  <2>3. Kind[rejection] = "Custom" /\ rejection \in Rejections
    BY <1>3, <2>1
  <2>4. reply' = due' /\ handler' = NoConflict
    BY <1>1, <1>2, <2>1, <2>2, <2>3 DEF HandleTransaction, ResetConflictProgress
  <2> QED
    BY <2>1, <2>4 DEF InStep, NoBlock
<1> QED
  BY <1>4, <1>5

(* The invariant is kept by every step.                                     *)
LEMMA NextListingInv == ListingInv /\ [Next]_vars => ListingInv'
<1> SUFFICES ASSUME ListingInv, [Next]_vars PROVE ListingInv'
  OBVIOUS
<1>1. TypeOK'
  BY NextTypeOK DEF ListingInv
<1>2. CASE UNCHANGED vars
  BY <1>1, <1>2 DEF vars, ListingInv, InStep
<1>3. ASSUME NEW t \in queued, ListTransaction(t) PROVE ListingInv'
  <2>1. block' = block /\ orphaned' = orphaned
    BY <1>3 DEF ListTransaction
  <2> QED
    BY <1>1, <1>3, <2>1, ListTransactionInv DEF ListingInv
<1>4. CASE ListConflictHeader
  <2>1. ~orphaned => handler = NoConflict
    BY <1>4 DEF ListingInv, InStep, ListConflictHeader
  <2>2. ~orphaned' => InStep'
    <3>1. ASSUME ~orphaned' PROVE InStep'
      <4>1. handler' = [NoConflict EXCEPT !.ConflictInProgress = TRUE]
        BY <1>4, <2>1, <3>1 DEF ListConflictHeader
      <4>2. block' = [listing |-> TRUE, size |-> 0, rejection |-> Nil]
        BY <1>4 DEF ListConflictHeader, NoBlock
      <4>3. handler' = [ConflictInProgress |-> TRUE, ConflictCount |-> 0,
                        ConflictTransaction |-> Nil]
        BY <4>1 DEF NoConflict
      <4>4. block'.listing /\ block'.size = 0 /\ block'.rejection = Nil
        BY <4>2
      <4> QED
        BY <4>3, <4>4 DEF InStep
    <3> QED
      BY <3>1
  <2> QED
    BY <1>1, <1>4, <2>2 DEF ListConflictHeader, ListingInv, NoBlock
<1>5. ASSUME NEW t \in queued, NEW conflictType \in {"HasNext", "End"},
             ListConflict(t, conflictType)
      PROVE  ListingInv'
  <2>1. ~block'.listing => block' = NoBlock
    BY <1>5 DEF ListConflict, ListingInv, TypeOK
  <2>2. orphaned => orphaned'
    BY <1>5 DEF ListConflict
  <2>3. ~orphaned' => reply' = due' /\ InStep'
    BY <1>5, <2>2, ListConflictInv
  <2> QED
    BY <1>1, <2>1, <2>3 DEF ListingInv
<1>6. ASSUME NEW t \in Txs,
             NotifyRequestSign(t) \/ \E o \in Owners : Sign(o, t)
      PROVE  ListingInv'
  BY <1>1, <1>6 DEF NotifyRequestSign, Sign, ListingInv, InStep
<1> QED
  BY <1>2, <1>3, <1>4, <1>5, <1>6 DEF Next

(* Whatever is queued, the reply is complete and in order as long as every  *)
(* conflict block had a rejection.                                          *)
THEOREM QueueIsListed == Spec => []RepliesInFull
<1>1. Init => ListingInv
  <2>1. Init => TypeOK
    BY InitTypeOK
  <2>2. Init => InStep
    BY DEF Init, InStep, NoBlock
  <2> QED
    BY <2>1, <2>2 DEF Init, ListingInv
<1>2. ListingInv => RepliesInFull
  BY DEF ListingInv, RepliesInFull
<1> QED
  BY <1>1, <1>2, NextListingInv, PTL DEF Spec

-----------------------------------------------------------------------------
(* Requests for signatures *)

AskInv ==
    /\ TypeOK
    /\ \A t \in Txs : Early[t] \subseteq signed[t]
    /\ AskedUntilSigned
    /\ AskedWithinNeed

(* More signatures have a larger count.                                     *)
LEMMA MoreSignatures ==
    ASSUME NEW S, NEW T, S \subseteq T, T \subseteq Owners
    PROVE  Cardinality(S) <= Cardinality(T)
<1>1. IsFiniteSet(T)
  BY FS_Subset
<1> QED
  BY <1>1, FS_Subset

(* The count of an answer with details was right at some moment between the *)
(* fetch of the queue and that of the details; it is never too high.        *)
LEMMA CountIsBetween ==
    ASSUME AskInv, NEW t \in Txs, NEW submitted \in {0, Cardinality(Early[t])},
           NEW d \in Details(t)
    PROVE  /\ Count(d.confirmed, submitted) <= Cardinality(signed[t])
           /\ d.confirmed = signed[t] =>
                 Cardinality(Early[t]) <= Count(d.confirmed, submitted)
<1>1. Early[t] \subseteq signed[t] /\ signed[t] \subseteq Owners
  BY DEF AskInv, TypeOK
<1>2. d.confirmed \subseteq signed[t] /\ d.confirmed \subseteq Owners
  BY <1>1 DEF Details
<1>3. /\ Cardinality(Early[t]) <= Cardinality(signed[t])
      /\ Cardinality(d.confirmed) <= Cardinality(signed[t])
  BY <1>1, <1>2, MoreSignatures
<1>4. /\ Cardinality(Early[t]) \in Nat /\ Cardinality(signed[t]) \in Nat
      /\ Cardinality(d.confirmed) \in Nat
  BY <1>1, <1>2, SignaturesCounted
<1> QED
  BY <1>3, <1>4 DEF Count

(* A new request is right when it is made.                                  *)
LEMMA RequestIsRight ==
    ASSUME AskInv, NEW t \in Txs, NEW submitted \in {0, Cardinality(Early[t])},
           HandleConfirmations(t, submitted), signed' = signed
    PROVE  AskedUntilSigned' /\ AskedWithinNeed'
<1>1. CASE asked' = asked
  BY <1>1 DEF AskInv, AskedUntilSigned, AskedWithinNeed
<1>2. ASSUME NEW d \in Details(t),
             LET need == Missing(t, Count(d.confirmed, submitted))
             IN  asked' = [tx |-> t, need |-> need,
                           from |-> IF need = 0 THEN {} ELSE d.signers \ d.confirmed]
      PROVE  AskedUntilSigned' /\ AskedWithinNeed'
  <2> DEFINE count   == Count(d.confirmed, submitted)
             missing == Missing(t, count)
             early   == Cardinality(Early[t])
             all     == Cardinality(signed[t])
  <2>1. /\ early \in Nat /\ all \in Nat /\ count \in 0 .. Word - 1
        /\ count <= all
        /\ d.confirmed = signed[t] => early <= count
    <3>1. early \in 0 .. Word - 1 /\ all \in Nat
      BY SignaturesCounted DEF AskInv, TypeOK
    <3>2. submitted \in 0 .. Word - 1
      BY <3>1
    <3>3. count \in 0 .. Word - 1
      BY <3>2, MissingHasType DEF AskInv
    <3> QED
      BY <3>1, <3>3, CountIsBetween
  <2>2. Required[t] \in 0 .. Word - 1
    OBVIOUS
  <2>3. missing = 0 => Required[t] = count
    BY <2>1, <2>2 DEF Missing, Minus
  <2>4. IF count <= Required[t]
        THEN missing = Required[t] - count
        ELSE missing = Required[t] - count + Word
    BY <2>1, <2>2 DEF Missing, Minus
  <2>5. Early[t] \subseteq signed[t] /\ signed[t] \subseteq Owners
    BY DEF AskInv, TypeOK
  <2>6. d.confirmed = signed[t] \/ d.signers = {}
    BY DEF Details
  <2>7. /\ asked'.tx = t /\ asked'.need = missing
        /\ asked'.from = IF missing = 0 THEN {} ELSE d.signers \ d.confirmed
    BY <1>2
  <2>8. all <= Cardinality(Owners) /\ Cardinality(Owners) \in Nat
    BY <2>5, MoreSignatures, FS_CardinalityType DEF QueueAssumption
  <2> HIDE DEF count, missing, early, all
  <2>9. missing = 0 => all >= Required[t]
    BY <2>1, <2>2, <2>3
  <2>10. AskedUntilSigned'
    BY <2>7, <2>9 DEF AskedUntilSigned, all
  <2>11. asked'.from # {} => missing # 0 /\ d.confirmed = signed[t]
    BY <2>6, <2>7
  <2>12. ASSUME count <= Required[t] PROVE AskedWithinNeed'
    <3>1. missing <= Required[t]
      BY <2>1, <2>2, <2>4, <2>12
    <3>2. missing # 0 /\ d.confirmed = signed[t] => missing \in 1 .. Required[t] - early
      BY <2>1, <2>2, <2>4, <2>12
    <3>3. asked'.from \cap Early[t] = {}
      BY <2>5, <2>6, <2>7
    <3> QED
      BY <2>7, <2>11, <3>1, <3>2, <3>3 DEF AskedWithinNeed, early
  <2>13. ASSUME count > Required[t] PROVE AskedWithinNeed'
    <3>1. missing >= Word - Cardinality(Owners) /\ all > Required[t]
      BY <2>1, <2>2, <2>4, <2>8, <2>13
    <3>2. asked'.from \cap Early[t] = {}
      BY <2>5, <2>6, <2>7
    <3> QED
      BY <2>7, <3>1, <3>2 DEF AskedWithinNeed, all
  <2>14. AskedWithinNeed'
    BY <2>1, <2>2, <2>12, <2>13
  <2> QED
    BY <2>10, <2>14
<1> QED
  BY <1>1, <1>2 DEF HandleConfirmations

(* A result of the listing asks at most for the transaction it writes.      *)
LEMMA ResultIsRight ==
    ASSUME AskInv, NEW t \in Txs, NEW conflictType \in {"None", "HasNext", "End"},
           HandleResult(t, conflictType), signed' = signed
    PROVE  AskedUntilSigned' /\ AskedWithinNeed'
<1>1. CASE asked' = asked
  BY <1>1 DEF AskInv, AskedUntilSigned, AskedWithinNeed
<1>2. CASE \E u \in Txs : HandleConfirmations(u, Cardinality(Early[u]))
  BY <1>2, RequestIsRight
<1>3. ASSUME NEW u \in Txs, NEW h, HandleTransaction(u, h)
      PROVE  asked' = asked \/ HandleConfirmations(u, Cardinality(Early[u]))
  BY <1>3 DEF HandleTransaction
<1>4. Kept(t) # Nil => Kept(t) \in Txs
  BY DEF AskInv, TypeOK, Kept
<1> QED
  BY <1>1, <1>2, <1>3, <1>4 DEF HandleResult

(* A signature does not make a request wrong that was made before.          *)
LEMMA SignatureKeepsRequests ==
    ASSUME AskInv, TypeOK', NEW o \in Owners, NEW u \in Txs, Sign(o, u)
    PROVE  AskedUntilSigned' /\ AskedWithinNeed'
<1>1. asked' = asked
  BY DEF Sign
<1>2. CASE asked = Nil
  BY <1>1, <1>2 DEF AskedUntilSigned, AskedWithinNeed
<1>3. CASE asked # Nil
  <2> DEFINE t == asked.tx
  <2>1. t \in Txs /\ asked.need \in Nat
    BY <1>3 DEF AskInv, TypeOK, AskType
  <2>2. signed[t] \subseteq signed'[t] /\ signed'[t] \subseteq Owners
    BY <2>1 DEF Sign, AskInv, TypeOK
  <2>3. Cardinality(signed[t]) <= Cardinality(signed'[t])
    BY <2>2, MoreSignatures
  <2>4. /\ Cardinality(signed[t]) \in Nat /\ Cardinality(signed'[t]) \in Nat
        /\ Required[t] \in Nat
    BY <2>1, <2>2, SignaturesCounted
  <2>5. asked.need = 0 => Cardinality(signed'[t]) >= Required[t]
    BY <1>3, <2>3, <2>4 DEF AskInv, AskedUntilSigned
  <2>6. Cardinality(signed[t]) > Required[t] => Cardinality(signed'[t]) > Required[t]
    BY <2>3, <2>4
  <2> QED
    BY <1>1, <1>3, <2>5, <2>6 DEF AskInv, AskedUntilSigned, AskedWithinNeed
<1> QED
  BY <1>2, <1>3

(* Every step keeps the invariant.                                          *)
LEMMA NextAskInv == AskInv /\ [Next]_vars => AskInv'
<1> SUFFICES ASSUME AskInv, [Next]_vars PROVE AskInv'
  OBVIOUS
<1>1. TypeOK'
  BY NextTypeOK DEF AskInv
<1>2. CASE UNCHANGED vars
  BY <1>1, <1>2 DEF vars, AskInv, AskedUntilSigned, AskedWithinNeed
<1>3. ASSUME NEW t \in queued,
             \/ ListTransaction(t)
             \/ \E conflictType \in {"HasNext", "End"} : ListConflict(t, conflictType)
      PROVE  AskInv'
  <2>1. t \in Txs /\ signed' = signed
    BY <1>3 DEF AskInv, TypeOK, ListTransaction, ListConflict
  <2>2. \E conflictType \in {"None", "HasNext", "End"} : HandleResult(t, conflictType)
    BY <1>3 DEF ListTransaction, ListConflict
  <2> QED
    BY <1>1, <2>1, <2>2, ResultIsRight DEF AskInv
<1>4. CASE ListConflictHeader
  BY <1>1, <1>4 DEF ListConflictHeader, AskInv, AskedUntilSigned, AskedWithinNeed
<1>5. ASSUME NEW t \in Txs, NotifyRequestSign(t) PROVE AskInv'
  <2>1. HandleConfirmations(t, 0) /\ signed' = signed
    BY <1>5 DEF NotifyRequestSign
  <2> QED
    BY <1>1, <2>1, RequestIsRight DEF AskInv
<1>6. ASSUME NEW t \in Txs, NEW o \in Owners, Sign(o, t) PROVE AskInv'
  <2>1. \A u \in Txs : Early[u] \subseteq signed'[u]
    BY <1>6 DEF Sign, AskInv, TypeOK
  <2> QED
    BY <1>1, <1>6, <2>1, SignatureKeepsRequests DEF AskInv
<1> QED
  BY <1>2, <1>3, <1>4, <1>5, <1>6 DEF Next

LEMMA InitAskInv == Init => AskInv
<1>1. Init => TypeOK
  BY InitTypeOK
<1> QED
  BY <1>1 DEF Init, AskInv, AskedUntilSigned, AskedWithinNeed

(* For any owners and thresholds, and however stale the count of the list   *)
(* and however late the details: a line or an alert that asks for no        *)
(* confirmation is about a transaction with all its signatures.             *)
THEOREM AskedUntilComplete == Spec => []AskedUntilSigned
BY InitAskInv, NextAskInv, PTL DEF Spec, AskInv

(* And one that asks for some stays within what is required and missing, or *)
(* is about a transaction with more signatures than it needs: nothing else  *)
(* takes the difference below zero.                                         *)
THEOREM RequestsStayWithinNeed == Spec => []AskedWithinNeed
BY InitAskInv, NextAskInv, PTL DEF Spec, AskInv

-----------------------------------------------------------------------------
(* No line twice, and none that is not due *)

(* The transactions that the lines of s are about.                          *)
In(s) == {s[i].tx : i \in DOMAIN s}

(* A transaction is on its way from the queue to the reply at most once: it *)
(* is queued, then perhaps kept, then perhaps written. What is kept was     *)
(* listed on its own, or is the rejection of the present block.             *)
WrittenOnce ==
    /\ TypeOK
    /\ NothingInvented
    /\ In(reply) \cap queued = {}
    /\ handler.ConflictTransaction \notin In(reply) \cup queued
    /\ block.listing => handler.ConflictInProgress
    /\ block.listing /\ handler.ConflictTransaction = Nil => block.rejection = Nil
    /\ handler.ConflictTransaction # Nil =>
          \/ handler.ConflictTransaction \in In(due)
          \/ block.listing /\ block.rejection = handler.ConflictTransaction

LEMMA AppendedLine ==
    ASSUME NEW s \in Seq(LineType), NEW l \in LineType
    PROVE  In(Append(s, l)) = In(s) \cup {l.tx}
<1> DEFINE n == Len(s) + 1
<1>1. DOMAIN s = 1 .. Len(s) /\ DOMAIN Append(s, l) = 1 .. n /\ Len(s) \in Nat
  OBVIOUS
<1>2. \A i \in 1 .. Len(s) : Append(s, l)[i] = s[i]
  OBVIOUS
<1>3. Append(s, l)[n] = l
  OBVIOUS
<1>4. \A i \in 1 .. n : i \in 1 .. Len(s) \/ i = n
  BY <1>1
<1>5. 1 .. Len(s) \subseteq 1 .. n /\ n \in 1 .. n
  BY <1>1
<1> HIDE DEF n
<1> QED
  BY <1>1, <1>2, <1>3, <1>4, <1>5 DEF In

LEMMA LineIsAbout ==
    ASSUME NEW t, NEW n
    PROVE  Line(t, n).tx = t
BY DEF Line

(* A line may be added about a transaction that the reply does not have.    *)
LEMMA OneMoreLine ==
    ASSUME TypeOK, NothingInvented, NEW l \in LineType, l.tx \notin In(reply),
           reply' = Append(reply, l), In(due) \cup {l.tx} \subseteq In(due')
    PROVE  NothingInvented'
<1> DEFINE n == Len(reply) + 1
<1>1. /\ DOMAIN reply = 1 .. Len(reply) /\ DOMAIN reply' = 1 .. n
      /\ Len(reply) \in Nat /\ reply'[n] = l
      /\ \A i \in 1 .. Len(reply) : reply'[i] = reply[i]
  BY DEF TypeOK
<1>2. \A i \in 1 .. n : i \in 1 .. Len(reply) \/ i = n
  BY <1>1
<1> HIDE DEF n
<1>3. \A i \in 1 .. Len(reply) : reply'[i].tx # l.tx
  BY <1>1 DEF In
<1>4. ASSUME NEW i \in DOMAIN reply', NEW j \in DOMAIN reply',
             reply'[i].tx = reply'[j].tx
      PROVE  i = j
  <2>1. CASE i = n \/ j = n
    BY <1>1, <1>2, <1>3, <1>4, <2>1
  <2>2. CASE i \in DOMAIN reply /\ j \in DOMAIN reply
    BY <1>1, <1>4, <2>2 DEF NothingInvented
  <2> QED
    BY <1>1, <1>2, <2>1, <2>2
<1>5. In(reply) \subseteq In(due)
  BY DEF NothingInvented, In
<1>6. ASSUME NEW i \in DOMAIN reply' PROVE reply'[i].tx \in In(due')
  <2>1. CASE i = n
    BY <1>1, <2>1
  <2>2. CASE i \in DOMAIN reply
    <3>1. reply[i].tx \in In(reply)
      BY <2>2 DEF In
    <3> QED
      BY <1>1, <1>5, <2>2, <3>1
  <2> QED
    BY <1>1, <1>2, <2>1, <2>2
<1>7. \A i \in DOMAIN reply' : \E j \in DOMAIN due' : due'[j].tx = reply'[i].tx
  BY <1>6 DEF In
<1> QED
  BY <1>4, <1>7 DEF NothingInvented

(* A reply that stays, while lines are added to those that are due.         *)
LEMMA NoMoreLines ==
    ASSUME NothingInvented, reply' = reply, In(due) \subseteq In(due')
    PROVE  NothingInvented'
<1>1. \A i \in DOMAIN reply : reply[i].tx \in In(due)
  BY DEF NothingInvented, In
<1>2. \A i \in DOMAIN reply' : \E j \in DOMAIN due' : due'[j].tx = reply'[i].tx
  BY <1>1 DEF In
<1> QED
  BY <1>2 DEF NothingInvented

(* Writing a transaction that is due and was not written yet.               *)
LEMMA WriteOnce ==
    ASSUME WrittenOnce, NEW u \in Txs, NEW n \in Nat,
           u \notin In(reply), In(due) \subseteq In(due'),
           Kind[u] # "Creation" => u \in In(due'),
           \/ reply' = Append(reply, Line(u, n)) /\ Kind[u] # "Creation"
           \/ reply' = reply
    PROVE  NothingInvented' /\ In(reply') \subseteq In(reply) \cup {u}
<1>1. CASE reply' = reply
  BY <1>1, NoMoreLines DEF WrittenOnce
<1>2. CASE reply' = Append(reply, Line(u, n)) /\ Kind[u] # "Creation"
  <2> DEFINE l == Line(u, n)
  <2>1. l \in LineType /\ l.tx = u
    BY LineHasType, LineIsAbout
  <2> HIDE DEF l
  <2>2. In(reply') = In(reply) \cup {u}
    BY <1>2, <2>1, AppendedLine DEF WrittenOnce, TypeOK, l
  <2>3. NothingInvented'
    BY <1>2, <2>1, OneMoreLine DEF WrittenOnce, l
  <2> QED
    BY <2>2, <2>3
<1> QED
  BY <1>1, <1>2

LEMMA CountedFields ==
    ASSUME TypeOK, NEW t \in Txs
    PROVE  /\ Counted(t).ConflictInProgress = handler.ConflictInProgress
           /\ Counted(t).ConflictTransaction = Kept(t)
<1> DEFINE n == handler.ConflictCount + 1
<1>1. Counted(t) = [handler EXCEPT !.ConflictCount = n, !.ConflictTransaction = Kept(t)]
  BY DEF Counted
<1> HIDE DEF n
<1> QED
  BY <1>1 DEF TypeOK

(* What is kept after t: nothing, what was kept before, or t, a rejection.  *)
LEMMA KeptIsKnown ==
    ASSUME TypeOK, NEW t \in Txs
    PROVE  \/ Kept(t) = handler.ConflictTransaction
           \/ handler.ConflictTransaction = Nil /\ Kept(t) = t /\ t \in Rejections
BY DEF Kept

(* Lines that become due are added to those that are.                       *)
LEMMA DueAppended ==
    ASSUME TypeOK, NEW u \in Txs, NEW n \in Nat, due' = Append(due, Line(u, n))
    PROVE  In(due') = In(due) \cup {u}
<1>1. Line(u, n) \in LineType /\ Line(u, n).tx = u
  BY LineHasType, LineIsAbout
<1> QED
  BY <1>1, AppendedLine DEF TypeOK

LEMMA WrittenAreTxs ==
    ASSUME TypeOK
    PROVE  In(reply) \subseteq Txs
<1>1. \A i \in DOMAIN reply : reply[i] \in LineType
  BY DEF TypeOK
<1>2. \A l \in LineType : l.tx \in Txs
  BY DEF LineType
<1> QED
  BY <1>1, <1>2 DEF In

LEMMA ListTransactionOnce ==
    ASSUME WrittenOnce, TypeOK', NEW t \in queued, ListTransaction(t)
    PROVE  WrittenOnce'
<1>1. /\ t \in Txs /\ t \notin In(reply) /\ Nil \notin Txs
      /\ queued' = queued \ {t} /\ queued \subseteq Txs
      /\ ~block.listing /\ block' = block
      /\ handler.ConflictTransaction # t
  BY DEF WrittenOnce, TypeOK, ListTransaction
<1>2. In(due) \subseteq In(due') /\ (Kind[t] # "Creation" => t \in In(due'))
  <2>1. CASE Kind[t] = "Creation"
    BY <2>1 DEF ListTransaction
  <2>2. CASE Kind[t] # "Creation"
    BY <1>1, <2>2, DueAppended DEF ListTransaction, WrittenOnce
  <2> QED
    BY <2>1, <2>2
<1>3. CASE ~handler.ConflictInProgress
  <2>1. HandleTransaction(t, handler)
    BY <1>3 DEF ListTransaction, HandleResult
  <2>2. handler.ConflictCount \in Nat
    BY DEF WrittenOnce, TypeOK
  <2>3. NothingInvented' /\ In(reply') \subseteq In(reply) \cup {t}
    BY <1>1, <1>2, <2>1, <2>2, WriteOnce DEF HandleTransaction
  <2>4. handler' = NoConflict \/ handler' = handler
    BY <2>1 DEF HandleTransaction, ResetConflictProgress
  <2>5. \/ handler'.ConflictTransaction = Nil
        \/ handler'.ConflictTransaction = handler.ConflictTransaction
    BY <2>4 DEF NoConflict
  <2>6. In(reply') \subseteq Txs
    BY <1>1, <2>3, WrittenAreTxs DEF WrittenOnce
  <2> QED
    BY <1>1, <1>2, <2>3, <2>5, <2>6 DEF WrittenOnce
<1>4. CASE handler.ConflictInProgress
  <2>1. handler' = Counted(t) /\ reply' = reply
    BY <1>4 DEF ListTransaction, HandleResult
  <2>2. NothingInvented'
    BY <1>2, <2>1, NoMoreLines DEF WrittenOnce
  <2>3. handler'.ConflictTransaction = Kept(t)
    BY <1>1, <2>1, CountedFields DEF WrittenOnce
  <2>4. t \in Rejections => Kind[t] # "Creation"
    OBVIOUS
  <2>5. \/ Kept(t) = handler.ConflictTransaction
        \/ Kept(t) = t /\ t \in In(due')
    BY <1>1, <1>2, <2>4, KeptIsKnown DEF WrittenOnce
  <2> QED
    BY <1>1, <1>2, <2>1, <2>2, <2>3, <2>5 DEF WrittenOnce
<1> QED
  BY <1>3, <1>4

LEMMA ListConflictOnce ==
    ASSUME WrittenOnce, TypeOK', NEW t \in queued,
           NEW conflictType \in {"HasNext", "End"}, ListConflict(t, conflictType)
    PROVE  WrittenOnce'
<1> DEFINE rejection == BlockRejection(t)
<1>1. /\ t \in Txs /\ t \notin In(reply) /\ Nil \notin Txs
      /\ queued' = queued \ {t} /\ queued \subseteq Txs
      /\ block.listing /\ handler.ConflictInProgress
      /\ handler.ConflictTransaction # t
  BY DEF WrittenOnce, TypeOK, ListConflict
<1>2. Kept(t) \in Rejections \cup {Nil} /\ rejection \in Rejections \cup {Nil}
  BY <1>1 DEF WrittenOnce, TypeOK, Kept, BlockRejection
<1>3. Kept(t) # Nil => Kept(t) \in In(due) \/ Kept(t) = rejection
  <2>1. CASE handler.ConflictTransaction = Nil
    BY <1>1, <2>1 DEF WrittenOnce, Kept, BlockRejection
  <2>2. CASE handler.ConflictTransaction # Nil
    BY <1>1, <2>2 DEF WrittenOnce, Kept, BlockRejection
  <2> QED
    BY <2>1, <2>2
<1>4. Kept(t) = Nil => rejection = Nil
  BY <1>1 DEF WrittenOnce, Kept, BlockRejection
<1>5. Kept(t) \notin In(reply) \cup queued'
  BY <1>1, KeptIsKnown DEF WrittenOnce
<1>6. /\ Counted(t).ConflictTransaction = Kept(t)
      /\ Counted(t).ConflictInProgress /\ Counted(t).ConflictCount \in Nat
  BY <1>1, CountedFields, CountedHasType DEF WrittenOnce
<1>7. block.size + 1 \in Nat
  BY DEF WrittenOnce, TypeOK
<1> HIDE DEF rejection
<1>8. CASE conflictType = "HasNext"
  <2>1. handler' = Counted(t) /\ reply' = reply /\ due' = due
    BY <1>1, <1>8 DEF ListConflict, HandleResult
  <2>2. NothingInvented'
    BY <2>1, NoMoreLines DEF WrittenOnce
  <2>3. block'.listing /\ block'.rejection = rejection
    <3> DEFINE n == block.size + 1
    <3>1. block' = [block EXCEPT !.size = n, !.rejection = rejection]
      BY <1>8 DEF ListConflict, rejection
    <3> HIDE DEF n
    <3> QED
      BY <1>1, <3>1 DEF WrittenOnce, TypeOK
  <2> QED
    BY <1>1, <1>3, <1>4, <1>5, <1>6, <2>1, <2>2, <2>3 DEF WrittenOnce
<1>9. CASE conflictType = "End"
  <2>1. /\ ~block'.listing
        /\ In(due) \subseteq In(due')
        /\ rejection # Nil => rejection \in In(due')
    <3>1. block' = NoBlock
      BY <1>9 DEF ListConflict
    <3>2. CASE rejection = Nil
      BY <1>9, <3>1, <3>2 DEF ListConflict, NoBlock, rejection
    <3>3. CASE rejection # Nil
      <4>1. rejection \in Txs /\ due' = Append(due, Line(rejection, block.size + 1))
        BY <1>2, <1>9, <3>3 DEF ListConflict, rejection
      <4> QED
        BY <1>7, <3>1, <4>1, DueAppended DEF NoBlock, WrittenOnce
    <3> QED
      BY <3>2, <3>3
  <2>2. CASE Kept(t) = Nil
    <3>1. handler' = Counted(t) /\ reply' = reply
      BY <1>1, <1>9, <2>2 DEF ListConflict, HandleResult
    <3>2. NothingInvented'
      BY <2>1, <3>1, NoMoreLines DEF WrittenOnce
    <3> QED
      BY <1>1, <1>5, <1>6, <2>1, <2>2, <3>1, <3>2 DEF WrittenOnce
  <2>3. CASE Kept(t) # Nil
    <3>1. HandleTransaction(Kept(t), Counted(t))
      BY <1>1, <1>9, <2>3 DEF ListConflict, HandleResult
    <3>2. Kept(t) \in Txs /\ Kept(t) \in Rejections /\ Kept(t) \in In(due')
      BY <1>2, <1>3, <2>1, <2>3
    <3>3. NothingInvented' /\ In(reply') \subseteq In(reply) \cup {Kept(t)}
      BY <1>5, <1>6, <2>1, <3>1, <3>2, WriteOnce DEF HandleTransaction
    <3>4. handler'.ConflictTransaction = Nil
      BY <3>1, <3>2 DEF HandleTransaction, ResetConflictProgress, NoConflict
    <3>5. In(reply') \subseteq Txs
      BY <3>2, <3>3, WrittenAreTxs DEF WrittenOnce
    <3> QED
      BY <1>1, <1>5, <2>1, <3>3, <3>4, <3>5 DEF WrittenOnce
  <2> QED
    BY <2>2, <2>3
<1> QED
  BY <1>8, <1>9

(* Every step keeps the invariant.                                          *)
LEMMA NextWrittenOnce == WrittenOnce /\ [Next]_vars => WrittenOnce'
<1> SUFFICES ASSUME WrittenOnce, [Next]_vars PROVE WrittenOnce'
  OBVIOUS
<1>1. TypeOK'
  BY NextTypeOK DEF WrittenOnce
<1>2. ASSUME UNCHANGED <<queued, block, handler, reply, due>> PROVE WrittenOnce'
  BY <1>1, <1>2 DEF WrittenOnce, NothingInvented, In
<1>3. CASE UNCHANGED vars
  BY <1>2, <1>3 DEF vars
<1>4. ASSUME NEW t \in queued, ListTransaction(t) PROVE WrittenOnce'
  BY <1>1, <1>4, ListTransactionOnce
<1>5. ASSUME NEW t \in queued, NEW conflictType \in {"HasNext", "End"},
             ListConflict(t, conflictType)
      PROVE  WrittenOnce'
  BY <1>1, <1>5, ListConflictOnce
<1>6. CASE ListConflictHeader
  <2>1. /\ queued' = queued /\ reply' = reply /\ due' = due /\ ~block.listing
        /\ block' = [NoBlock EXCEPT !.listing = TRUE]
        /\ handler' = [handler EXCEPT !.ConflictInProgress = TRUE]
    BY <1>6 DEF ListConflictHeader
  <2>2. block'.listing /\ block'.rejection = Nil
    BY <2>1 DEF NoBlock
  <2>3. /\ handler'.ConflictInProgress
        /\ handler'.ConflictTransaction = handler.ConflictTransaction
    BY <2>1 DEF WrittenOnce, TypeOK
  <2>4. NothingInvented'
    BY <2>1, NoMoreLines DEF WrittenOnce
  <2> QED
    BY <1>1, <2>1, <2>2, <2>3, <2>4 DEF WrittenOnce
<1>7. ASSUME NEW t \in Txs,
             NotifyRequestSign(t) \/ \E o \in Owners : Sign(o, t)
      PROVE  WrittenOnce'
  BY <1>2, <1>7 DEF NotifyRequestSign, Sign
<1> QED
  BY <1>3, <1>4, <1>5, <1>6, <1>7 DEF Next

(* Whatever is queued, and whatever its blocks hold: the reply has no line  *)
(* twice, and none that is not due.                                         *)
THEOREM NothingIsInvented == Spec => []NothingInvented
<1>1. Init => WrittenOnce
  <2>1. Init => TypeOK
    BY InitTypeOK
  <2>2. Init => /\ NothingInvented /\ In(reply) = {} /\ ~block.listing
                /\ handler.ConflictTransaction = Nil /\ queued = Txs
    BY DEF Init, NothingInvented, In, NoConflict, NoBlock
  <2>3. Nil \notin Txs
    OBVIOUS
  <2> QED
    BY <2>1, <2>2, <2>3 DEF WrittenOnce
<1> QED
  BY <1>1, NextWrittenOnce, PTL DEF Spec, WrittenOnce
=============================================================================
