----------------------------- MODULE QueueListing -----------------------------
(***************************************************************************)
(* How /queue turns the queue of a Safe into the lines of its reply, and   *)
(* whom the lines and the alerts of new transactions ask for a signature.  *)
(*                                                                         *)
(* The Safe service lists the queued transactions by nonce. Transactions   *)
(* that compete for one nonce form a conflict block: a header, then the    *)
(* transactions, the last of them marked "End". The handler shows a block  *)
(* as one line, its rejection. It walks the results with three fields of   *)
(* its own (ConflictInProgress, ConflictCount, ConflictTransaction); a     *)
(* step is one result. What the service lists next is chosen by the        *)
(* environment, within the format of the service.                          *)
(*                                                                         *)
(* The list counts the signatures given when it was fetched; the details   *)
(* of a transaction are fetched when its line is written. Owners sign at   *)
(* any time in between, and alerts are sent by another handler.            *)
(***************************************************************************)
EXTENDS Integers, Sequences, FiniteSets

CONSTANTS
    Txs,         \* the transactions that can be queued
    Kind,        \* Kind[t]: TxInfo.Type
    Rejections,  \* those with IsCancellation, a mark of Custom transactions
    Nil,         \* the nil pointer
    Required,    \* Required[t]: ConfirmationsRequired
    Owners,      \* the owners of the Safe: Signers among the details
    Named,       \* those bound in the chat to a user name (OwnerUsernames)
    Early,       \* Early[t]: who had signed t when the queue was fetched
    MaxLate,     \* bound on the signatures given since
    Word         \* 2^64, the modulus of uint64

ASSUME QueueAssumption ==
    /\ Nil \notin Txs
    /\ Rejections \subseteq Txs
    /\ Kind \in [Txs -> {"Transfer", "Custom", "SettingsChange", "Creation"}]
    /\ \A t \in Rejections : Kind[t] = "Custom"
    /\ Word \in Nat \ {0}
    /\ Required \in [Txs -> 0 .. Word - 1]
    /\ IsFiniteSet(Owners)
    /\ Cardinality(Owners) < Word
    /\ Named \subseteq Owners
    /\ Early \in [Txs -> SUBSET Owners]
    /\ MaxLate \in Nat

VARIABLES
    queued,   \* the transactions that were not listed yet
    block,    \* the conflict block being listed: its size and its rejection
    handler,  \* the conflict fields of the QueuedHandler
    reply,    \* the lines written so far
    signed,   \* signed[t]: who signed t, at the service
    asked,    \* history: the last request for signatures, of a line or an alert
    due,      \* history: the lines the listed queue asks for
    orphaned  \* history: a block without a rejection was listed

vars == <<queued, block, handler, reply, signed, asked, due, orphaned>>

NoBlock == [listing |-> FALSE, size |-> 0, rejection |-> Nil]

NoConflict == [ConflictInProgress |-> FALSE, ConflictCount |-> 0,
               ConflictTransaction |-> Nil]

Init ==
    /\ queued = Txs
    /\ block = NoBlock
    /\ handler = NoConflict
    /\ reply = <<>>
    /\ signed = Early
    /\ asked = Nil
    /\ due = <<>>
    /\ orphaned = FALSE

-----------------------------------------------------------------------------
(* Subtraction of uint64: it borrows below zero.                            *)
Minus(a, b) == IF a >= b THEN a - b ELSE a - b + Word

(* The details of a transaction: the owners that can be named and those who *)
(* have signed. An error of the service decodes as an answer without any.   *)
Details(t) ==
    {[signers |-> Named, confirmed |-> signed[t]], [signers |-> {}, confirmed |-> {}]}

(* Mutant: those who can be named are counted, not those who have signed.   *)
CountNamed(confirmed, submitted) ==
    IF submitted = 0 THEN Cardinality(Named) ELSE submitted

(* The count of confirmations: the listed one, if there is one.             *)
Count(confirmed, submitted) ==
    IF submitted = 0 THEN Cardinality(confirmed) ELSE submitted

(* Mutant: the difference is taken the other way round.                     *)
MissingBelow(t, count) == Minus(count, Required[t])

Missing(t, count) == Minus(Required[t], count)

(* HandleConfirmations fetches the details of t and asks the owners that    *)
(* have not signed for as many confirmations as are missing, if any are.    *)
(* Without an answer it writes nothing.                                     *)
HandleConfirmations(t, submitted) ==
    \/ UNCHANGED asked
    \/ \E d \in Details(t) :
          LET need == Missing(t, Count(d.confirmed, submitted))
          IN  asked' = [tx |-> t, need |-> need,
                        from |-> IF need = 0 THEN {} ELSE d.signers \ d.confirmed]

(* The line of transaction t: a rejection names the number of conflicts.    *)
Line(t, conflicts) ==
    [tx |-> t, conflicts |-> IF t \in Rejections THEN conflicts ELSE 0]

(* Mutant: the stored transaction is kept.                                  *)
ResetFlagAndCount(h) == [h EXCEPT !.ConflictInProgress = FALSE, !.ConflictCount = 0]

ResetConflictProgress(h) == NoConflict

(* HandleTransaction, for the handler's fields h: writes the line, unless   *)
(* the type is not supported. HandleCustom ends the conflict when it has    *)
(* written a rejection.                                                     *)
HandleTransaction(t, h) ==
    /\ IF Kind[t] = "Creation"
       THEN UNCHANGED <<reply, asked>>
       ELSE /\ reply' = Append(reply, Line(t, h.ConflictCount))
            /\ HandleConfirmations(t, Cardinality(Early[t]))
    /\ handler' = IF t \in Rejections THEN ResetConflictProgress(h) ELSE h

(* Mutant: the last rejection of the block is kept, not the first.          *)
KeptLast(t) == IF t \in Rejections THEN t ELSE handler.ConflictTransaction

(* Mutant: the first transaction of the block is kept, rejection or not.    *)
KeptAny(t) == IF handler.ConflictTransaction = Nil THEN t ELSE handler.ConflictTransaction

(* ResolveConflictType: keep the first rejection ...                        *)
Kept(t) ==
    IF handler.ConflictTransaction = Nil /\ t \in Rejections
    THEN t ELSE handler.ConflictTransaction

(* ... and count the transaction.                                           *)
Counted(t) ==
    [handler EXCEPT !.ConflictCount = @ + 1, !.ConflictTransaction = Kept(t)]

(* A TRANSACTION result. During a conflict only the kept rejection is       *)
(* handled, and only when a result ends a block.                            *)
HandleResult(t, conflictType) ==
    IF ~handler.ConflictInProgress
    THEN HandleTransaction(t, handler)
    ELSE IF conflictType = "End" /\ Kept(t) # Nil
         THEN HandleTransaction(Kept(t), Counted(t))
         ELSE /\ handler' = Counted(t)
              /\ UNCHANGED <<reply, asked>>

(* NotifyRequestSign: an alert about one transaction. Its handler is a new  *)
(* one, and the answer it reads holds no count of confirmations. Whether    *)
(* the alert reaches the chat changes nothing here.                         *)
NotifyRequestSign(t) ==
    /\ Kind[t] # "Creation"
    /\ HandleConfirmations(t, 0)
    /\ UNCHANGED <<queued, block, handler, reply, signed, due, orphaned>>

(* An owner signs, whatever the program is doing. The signatures since the  *)
(* queue was fetched are bounded by MaxLate.                                *)
Late == {p \in Owners \X Txs : p[1] \in signed[p[2]] \ Early[p[2]]}

Sign(o, t) ==
    /\ o \notin signed[t]
    /\ Cardinality(Late) < MaxLate
    /\ signed' = [signed EXCEPT ![t] = @ \cup {o}]
    /\ UNCHANGED <<queued, block, handler, reply, asked, due, orphaned>>

-----------------------------------------------------------------------------
(* What the service lists next *)

(* A transaction that competes with no other one.                           *)
ListTransaction(t) ==
    /\ ~block.listing
    /\ queued' = queued \ {t}
    /\ due' = IF Kind[t] = "Creation" THEN due ELSE Append(due, Line(t, 0))
    /\ HandleResult(t, "None")
    /\ UNCHANGED <<block, signed, orphaned>>

(* The header of a block; labels of sections and dates change nothing.      *)
ListConflictHeader ==
    /\ ~block.listing
    /\ queued # {}
    /\ block' = [NoBlock EXCEPT !.listing = TRUE]
    /\ handler' = [handler EXCEPT !.ConflictInProgress = TRUE]
    /\ UNCHANGED <<queued, reply, signed, asked, due, orphaned>>

(* The rejection of the block, once t is listed: the first one.             *)
BlockRejection(t) ==
    IF block.rejection = Nil /\ t \in Rejections THEN t ELSE block.rejection

(* A transaction of a block; the second one may be the last.                *)
ListConflict(t, conflictType) ==
    LET rejection == BlockRejection(t)
    IN  /\ block.listing
        /\ conflictType = "End" => block.size > 0
        /\ queued' = queued \ {t}
        /\ IF conflictType = "End"
           THEN /\ block' = NoBlock
                /\ orphaned' = (orphaned \/ rejection = Nil)
                /\ due' = IF rejection = Nil THEN due
                          ELSE Append(due, Line(rejection, block.size + 1))
           ELSE /\ block' = [block EXCEPT !.size = @ + 1, !.rejection = rejection]
                /\ UNCHANGED <<orphaned, due>>
        /\ HandleResult(t, conflictType)
        /\ UNCHANGED signed

Next ==
    \/ \E t \in queued :
          \/ ListTransaction(t)
          \/ \E conflictType \in {"HasNext", "End"} : ListConflict(t, conflictType)
    \/ ListConflictHeader
    \/ \E t \in Txs :
          \/ NotifyRequestSign(t)
          \/ \E o \in Owners : Sign(o, t)

Spec == Init /\ [][Next]_vars

-----------------------------------------------------------------------------
(* Properties *)

LineType == [tx: Txs, conflicts: Nat]

AskType == [tx: Txs, need: 0 .. Word - 1, from: SUBSET Named]

(* The handler's fields, the block and the lines have their types.          *)
TypeOK ==
    /\ queued \subseteq Txs
    /\ block \in [listing: BOOLEAN, size: Nat, rejection: Rejections \cup {Nil}]
    /\ handler \in [ConflictInProgress: BOOLEAN, ConflictCount: Nat,
                    ConflictTransaction: Rejections \cup {Nil}]
    /\ reply \in Seq(LineType)
    /\ due \in Seq(LineType)
    /\ signed \in [Txs -> SUBSET Owners]
    /\ asked \in AskType \cup {Nil}
    /\ orphaned \in BOOLEAN

(* As long as every conflict block had a rejection, the reply has a line    *)
(* for every transaction outside of blocks and one for every block, with    *)
(* the block's first rejection and size, in the order of the queue.         *)
RepliesInFull == ~orphaned => reply = due

(* Whatever the blocks hold, no transaction is listed twice, and none that  *)
(* the queue does not ask for: a conflict leaves no stale rejection behind. *)
NothingInvented ==
    /\ \A i, j \in DOMAIN reply : reply[i].tx = reply[j].tx => i = j
    /\ \A i \in DOMAIN reply : \E j \in DOMAIN due : due[j].tx = reply[i].tx

(* A line or an alert that asks for no confirmation is about a transaction  *)
(* that has them all: no stale count makes a missing one look given. (One   *)
(* that does ask may be about a complete transaction, if its count is stale *)
(* or the details are an error; and without details nobody is asked.)       *)
AskedUntilSigned ==
    asked # Nil /\ asked.need = 0 =>
        Cardinality(signed[asked.tx]) >= Required[asked.tx]

(* Nobody is named who had signed when the queue was fetched, and with      *)
(* names no more confirmations are asked for than were missing then: the    *)
(* number of HandleConfirmations (handler.go:112) is at most what is        *)
(* required, unless more owners signed than have to. Then it may be taken   *)
(* below zero, and the line asks for nearly 2^64 confirmations.             *)
AskedWithinNeed ==
    asked # Nil =>
        LET t == asked.tx
        IN  /\ asked.from \cap Early[t] = {}
            /\ \/ /\ asked.need <= Required[t]
                  /\ asked.from # {} =>
                        asked.need \in 1 .. Required[t] - Cardinality(Early[t])
               \/ /\ asked.need >= Word - Cardinality(Owners)
                  /\ Cardinality(signed[t]) > Required[t]

(* A transaction that is not part of a conflict block is written when it is *)
(* listed ("1.0 if current block is part of Rejection" skips the others).   *)
OthersAreListed ==
    \A j \in DOMAIN due :
        due[j].tx \notin Rejections => \E i \in DOMAIN reply : reply[i].tx = due[j].tx
=============================================================================
