-------------------------- MODULE UpdateLoopProofs --------------------------
(* The safety properties of UpdateLoop, for any number of updates, any      *)
(* limit and any buffer, and however often the process dies.                *)
EXTENDS UpdateLoop, TLAPS

USE UpdateLoopAssumption

Settled == done \cup lost

(* The loop is through with everything it took, but for the one in hand.    *)
TakenInv ==
    \A u \in 1 .. taken :
        u \in Settled \/ (u = taken /\ pc \in {"command", "reply"})

(* An update is settled for the first time after all older ones.            *)
FirstInOrder ==
    \A u, v \in Updates : u < v /\ v \in done => u \in Settled

ChannelInv == offset - taken <= Buffer

LoopInv ==
    /\ TypeOK
    /\ TakenInv
    /\ FirstInOrder
    /\ ChannelInv

(* Nothing is fetched, taken or settled before the first update is posted.  *)
LEMMA InitLoop == Init => LoopInv
BY DEF Init, LoopInv, TypeOK, TakenInv, FirstInOrder, ChannelInv, Settled, Updates

(* What getUpdates answers was posted, and is not before the offset.        *)
LEMMA AnswerBounds ==
    ASSUME TypeOK
    PROVE  Answer \in offset .. posted
BY DEF TypeOK, Answer, Updates

(* Updates move towards the loop; what was taken and settled stays.         *)
LEMMA LibraryKeeps ==
    ASSUME LoopInv, Post \/ Poll \/ PollUnanswered \/ Enqueue \/ Start
    PROVE  LoopInv'
<1>1. UNCHANGED <<taken, done, lost>> /\ (pc' = pc \/ Start)
  BY DEF Post, Poll, PollUnanswered, Enqueue, Start, history
<1>2. FirstInOrder' /\ TakenInv'
  BY <1>1 DEF LoopInv, FirstInOrder, TakenInv, Settled, Start
<1>3. TypeOK' /\ ChannelInv'
  <2>1. CASE Post
    BY <2>1 DEF LoopInv, TypeOK, ChannelInv, Post, history, Updates
  <2>2. CASE Poll
    BY <2>2, AnswerBounds DEF LoopInv, TypeOK, ChannelInv, Poll, ConfirmOffset, history
  <2>3. CASE PollUnanswered
    BY <2>3 DEF LoopInv, TypeOK, ChannelInv, PollUnanswered, ConfirmOffset, history
  <2>4. CASE Enqueue
    BY <2>4 DEF LoopInv, TypeOK, ChannelInv, Enqueue, HasRoom, history, Updates
  <2>5. CASE Start
    BY <2>5 DEF LoopInv, TypeOK, ChannelInv, Start, history
  <2> QED
    BY <2>1, <2>2, <2>3, <2>4, <2>5
<1> QED
  BY <1>2, <1>3 DEF LoopInv

(* The next update is taken when all before it are settled; it is dropped,  *)
(* or becomes the one in hand.                                              *)
LEMMA ReceiveKeeps ==
    ASSUME LoopInv, Receive
    PROVE  LoopInv'
<1> PICK u : u = taken + 1
  OBVIOUS
<1>1. /\ pc = "range" /\ taken < offset /\ taken' = u
      /\ UNCHANGED <<posted, confirmed, fetched, offset, lost, deaths>>
      /\ \/ u \in Commands /\ pc' = "command" /\ done' = done
         \/ u \notin Commands /\ done' = done \cup {u} /\ pc' = pc
  BY DEF Receive, HasUpdate, NextUpdate
<1>2. \A v \in 1 .. taken : v \in Settled
  BY <1>1 DEF LoopInv, TakenInv
<1>3. TypeOK' /\ ChannelInv'
  <2>1. u \in Updates /\ u \in 0 .. offset /\ offset - u <= Buffer
    BY <1>1 DEF LoopInv, TypeOK, ChannelInv, Updates
  <2>2. TypeOK'
    BY <1>1, <2>1 DEF LoopInv, TypeOK
  <2>3. ChannelInv'
    BY <1>1, <2>1 DEF ChannelInv
  <2> QED
    BY <2>2, <2>3
<1>4. TakenInv'
  BY <1>1, <1>2 DEF LoopInv, TypeOK, TakenInv, Settled
<1>5. FirstInOrder'
  BY <1>1, <1>2 DEF LoopInv, TypeOK, FirstInOrder, Settled, Updates
<1> QED
  BY <1>3, <1>4, <1>5 DEF LoopInv

(* The command in hand is run and answered; all before it are settled.      *)
LEMMA HandleKeeps ==
    ASSUME LoopInv, RunCommand \/ Reply
    PROVE  LoopInv'
<1>1. /\ UNCHANGED <<posted, confirmed, fetched, offset, taken, lost, deaths>>
      /\ \/ pc = "command" /\ pc' = "reply" /\ done' = done
         \/ pc = "reply" /\ pc' = "range" /\ done' = done \cup {taken}
  BY DEF RunCommand, Reply, history
<1>2. TypeOK' /\ ChannelInv'
  BY <1>1 DEF LoopInv, TypeOK, ChannelInv
<1>3. TakenInv'
  BY <1>1 DEF LoopInv, TakenInv, Settled
<1>4. FirstInOrder'
  BY <1>1 DEF LoopInv, TypeOK, TakenInv, FirstInOrder, Settled, Updates
<1> QED
  BY <1>2, <1>3, <1>4 DEF LoopInv

(* A death settles everything that was confirmed.                           *)
LEMMA DieKeeps ==
    ASSUME LoopInv, Die, deaths' \in Nat
    PROVE  LoopInv'
<1>1. TypeOK' /\ ChannelInv'
  BY DEF LoopInv, TypeOK, ChannelInv, Die, Updates
<1>2. TakenInv' /\ FirstInOrder'
  BY DEF LoopInv, TypeOK, TakenInv, FirstInOrder, Settled, Die
<1> QED
  BY <1>1, <1>2 DEF LoopInv

(* Every step keeps the loop in order.                                      *)
LEMMA NextLoop ==
    ASSUME LoopInv, [Next]_vars
    PROVE  LoopInv'
<1>1. CASE Receive
  BY <1>1, ReceiveKeeps
<1>2. CASE RunCommand \/ Reply
  BY <1>2, HandleKeeps
<1>3. CASE Panic
  BY <1>3, DieKeeps DEF Panic, LoopInv, TypeOK
<1>4. CASE Crash
  <2>1. deaths' \in Nat
    BY <1>4 DEF Crash, LoopInv, TypeOK
  <2> QED
    BY <1>4, <2>1, DieKeeps DEF Crash
<1>5. CASE UNCHANGED vars
  BY <1>5 DEF vars, history, LoopInv, TypeOK, TakenInv, FirstInOrder, ChannelInv, Settled
<1> QED
  BY <1>1, <1>2, <1>3, <1>4, <1>5, LibraryKeeps DEF Next

(* The counters of Telegram, the library and the loop never overtake each   *)
(* other, deaths and lost answers included.                                 *)
THEOREM LoopTypes == Spec => []TypeOK
<1>1. Init => LoopInv
  BY InitLoop
<1>2. LoopInv /\ [Next]_vars => LoopInv'
  BY NextLoop
<1>3. LoopInv => TypeOK
  BY DEF LoopInv
<1> QED
  BY <1>1, <1>2, <1>3, PTL DEF Spec

(* What Telegram has forgotten is settled, in the channel or in hand.       *)
THEOREM UpdatesAccounted == Spec => []NothingVanishes
<1>1. Init => LoopInv
  BY InitLoop
<1>2. LoopInv /\ [Next]_vars => LoopInv'
  BY NextLoop
<1>3. LoopInv => NothingVanishes
  BY DEF LoopInv, TypeOK, TakenInv, Settled, NothingVanishes
<1> QED
  BY <1>1, <1>2, <1>3, PTL DEF Spec

(* At most a full channel and the update in hand are at stake in a death.   *)
THEOREM LossBounded == Spec => []LossIsBounded
<1>1. Init => LoopInv
  BY InitLoop
<1>2. LoopInv /\ [Next]_vars => LoopInv'
  BY NextLoop
<1>3. LoopInv => LossIsBounded
  BY DEF LoopInv, TypeOK, ChannelInv, LossIsBounded
<1> QED
  BY <1>1, <1>2, <1>3, PTL DEF Spec

-----------------------------------------------------------------------------
(* What a death can repeat or take with it *)

(* The library is one batch ahead of Telegram at most, and so is what was   *)
(* settled ahead of what Telegram has forgotten and of where the loop is;   *)
(* what deaths took was confirmed and is behind the loop.                   *)
DeathInv ==
    /\ fetched <= confirmed + Limit
    /\ lost \subseteq 1 .. confirmed
    /\ lost \subseteq 1 .. Through
    /\ \A v \in done : v <= confirmed + Limit /\ v <= Through + Limit

DeliveryInv == LoopInv /\ DeathInv

(* Nothing is lost before the first update.                                 *)
LEMMA InitDelivery == Init => DeliveryInv
<1>1. Init => DeathInv
  BY DEF Init, DeathInv, Through
<1> QED
  BY <1>1, InitLoop DEF DeliveryInv

(* Between the loop's last update and the one it is taking there is none.   *)
LEMMA ThroughBounds ==
    ASSUME LoopInv
    PROVE  /\ Through \in 0 .. posted
           /\ Through \in taken - 1 .. taken
BY DEF LoopInv, TypeOK, Through, Updates

(* Fetching and putting updates into the channel moves nothing the writer   *)
(* of an update could see; nor do taking a command and running it.          *)
LEMMA LibraryUnseen ==
    ASSUME LoopInv, Poll \/ PollUnanswered \/ Enqueue \/ Start \/ RunCommand
    PROVE  UNCHANGED Promise!vars
<1>1. UNCHANGED <<posted, taken, done, lost>>
  BY DEF Poll, PollUnanswered, Enqueue, Start, RunCommand, history
<1>2. (pc \in {"command", "reply"})' <=> pc \in {"command", "reply"}
  BY DEF Poll, PollUnanswered, Enqueue, Start, RunCommand
<1> QED
  BY <1>1, <1>2 DEF Promise!vars, Through

(* Telegram's part of the counters stays within a batch.                    *)
LEMMA LibraryWithinBatch ==
    ASSUME DeliveryInv, Poll \/ PollUnanswered \/ Enqueue
    PROVE  fetched' <= confirmed' + Limit /\ confirmed <= confirmed'
<1>1. CASE Poll
  <2>1. Answer \in offset .. posted /\ Answer <= offset + Limit
    BY AnswerBounds DEF DeliveryInv, LoopInv, TypeOK, Answer, Updates
  <2> QED
    BY <1>1, <2>1 DEF Poll, ConfirmOffset, DeliveryInv, LoopInv, TypeOK, Updates
<1>2. CASE PollUnanswered
  BY <1>2 DEF PollUnanswered, ConfirmOffset, DeliveryInv, LoopInv, TypeOK, Updates
<1>3. CASE Enqueue
  BY <1>3 DEF Enqueue, DeliveryInv, DeathInv, LoopInv, TypeOK, Updates
<1> QED
  BY <1>1, <1>2, <1>3

(* An update that is dropped or answered is the next one to be settled.     *)
LEMMA ReceiveSettles ==
    ASSUME LoopInv, Receive
    PROVE  /\ UNCHANGED <<confirmed, fetched, lost>>
           /\ Through + 1 <= fetched
           /\ Promise!Settle \/ UNCHANGED Promise!vars
<1>1. /\ Through = taken /\ taken \in Nat /\ posted \in Nat /\ taken < posted
      /\ Through + 1 <= fetched
  BY DEF Receive, HasUpdate, Through, LoopInv, TypeOK, Updates
<1>2. taken' = taken + 1 /\ UNCHANGED <<posted, confirmed, fetched, lost>>
  BY DEF Receive, NextUpdate
<1>3. \/ pc' = "command" /\ done' = done
      \/ pc' = "range" /\ done' = done \cup {taken + 1}
  BY DEF Receive, NextUpdate
<1>4. CASE pc' = "command" /\ done' = done
  <2>1. Through' = Through
    BY <1>1, <1>2, <1>4 DEF Through
  <2> QED
    BY <2>1, <1>1, <1>2, <1>4 DEF Promise!vars
<1>5. CASE pc' = "range" /\ done' = done \cup {taken + 1}
  <2>1. Through' = Through + 1
    BY <1>1, <1>2, <1>5 DEF Through
  <2> QED
    BY <2>1, <1>1, <1>2, <1>5 DEF Promise!Settle
<1> QED
  BY <1>1, <1>2, <1>3, <1>4, <1>5

LEMMA ReplySettles ==
    ASSUME LoopInv, Reply
    PROVE  /\ UNCHANGED <<confirmed, fetched, lost>>
           /\ Through + 1 <= fetched
           /\ Promise!Settle
<1>1. /\ Through = taken - 1 /\ taken \in Nat /\ posted \in Nat
      /\ taken <= posted /\ taken <= fetched
  BY DEF Reply, Through, LoopInv, TypeOK, Updates
<1>2. /\ UNCHANGED <<posted, confirmed, fetched, taken, lost>>
      /\ pc' = "range" /\ done' = done \cup {taken}
  BY DEF Reply
<1>3. Through' = Through + 1 /\ Through + 1 = taken
  BY <1>1, <1>2 DEF Through
<1> QED
  BY <1>1, <1>2, <1>3 DEF Promise!Settle

(* A death goes back by a batch or forward by the channel and the command   *)
(* in hand; the counters tell how far.                                      *)
LEMMA DieIsDie ==
    ASSUME DeliveryInv, Die
    PROVE  /\ confirmed' = confirmed /\ fetched' = confirmed
           /\ Through' = confirmed /\ confirmed \in 0 .. posted
           /\ lost' = lost \cup (1 .. confirmed \ done) /\ done' = done
           /\ Promise!Die(confirmed)
<1>1. /\ confirmed' = confirmed /\ fetched' = confirmed /\ taken' = confirmed
      /\ pc' = "down" /\ UNCHANGED <<posted, done>>
      /\ lost' = lost \cup (1 .. confirmed \ done)
  BY DEF Die
<1>2. Through' = confirmed
  BY <1>1 DEF Through
<1>3. /\ confirmed \in Nat /\ offset \in Nat /\ taken \in Nat
      /\ fetched \in Nat /\ posted \in Nat
      /\ confirmed <= offset /\ taken <= offset /\ offset <= fetched
      /\ fetched <= posted /\ offset - taken <= Buffer
      /\ fetched <= confirmed + Limit
  BY DEF DeliveryInv, DeathInv, LoopInv, TypeOK, ChannelInv, Updates
<1>4. Through \in Int /\ taken - 1 <= Through /\ Through <= taken
  BY <1>3 DEF Through
<1>5. confirmed \in Through - Limit .. Through + Buffer + 1
  BY <1>3, <1>4
<1>6. lost \subseteq 1 .. confirmed
  BY DEF DeliveryInv, DeathInv
<1>7. Promise!Die(confirmed)
  BY <1>1, <1>2, <1>5, <1>6 DEF Promise!Die
<1> QED
  BY <1>1, <1>2, <1>3, <1>7

(* What is settled next is where the loop is, and has been fetched.         *)
LEMMA SettleKeepsFate ==
    ASSUME LoopInv, DeathInv, Promise!Settle, Through + 1 <= fetched,
           UNCHANGED <<confirmed, fetched, lost>>
    PROVE  DeathInv'
<1>1. Through \in Int /\ Through' = Through + 1 /\ done' = done \cup {Through + 1}
  BY ThroughBounds DEF Promise!Settle, LoopInv, TypeOK, Updates
<1>2. lost' \subseteq 1 .. Through'
  BY <1>1 DEF DeathInv
<1>3. \A v \in done' : v <= confirmed' + Limit /\ v <= Through' + Limit
  <2>1. /\ confirmed \in Int /\ fetched \in Int /\ \A v \in done : v \in Int
        /\ \A v \in done : v <= confirmed + Limit /\ v <= Through + Limit
    BY DEF DeathInv, LoopInv, TypeOK, Updates
  <2>2. Through + 1 <= confirmed + Limit
    BY <1>1, <2>1 DEF DeathInv
  <2> QED
    BY <1>1, <2>1, <2>2
<1> QED
  BY <1>2, <1>3 DEF DeathInv

(* Every step keeps it so.                                                  *)
LEMMA NextDelivery ==
    ASSUME DeliveryInv, [Next]_vars
    PROVE  DeliveryInv'
<1>1. LoopInv'
  BY NextLoop DEF DeliveryInv
<1> SUFFICES DeathInv'
  BY <1>1 DEF DeliveryInv
<1>0. LoopInv /\ DeathInv
  BY DEF DeliveryInv
<1>2. CASE Post
  BY <1>0, <1>2 DEF Post, DeathInv, history, Through
<1>3. CASE Poll \/ PollUnanswered \/ Enqueue
  <2>1. fetched' <= confirmed' + Limit /\ confirmed <= confirmed'
    BY <1>3, LibraryWithinBatch
  <2>2. Through' = Through /\ UNCHANGED <<done, lost>>
    BY <1>0, <1>3, LibraryUnseen DEF Promise!vars
  <2>3. confirmed \in Int /\ confirmed' \in Int
    BY <1>0, <1>1 DEF LoopInv, TypeOK
  <2>4. lost' \subseteq 1 .. confirmed'
    BY <1>0, <2>1, <2>2, <2>3 DEF DeathInv
  <2>5. \A v \in done : v \in Int /\ v <= confirmed + Limit /\ v <= Through + Limit
    BY <1>0 DEF DeathInv, LoopInv, TypeOK, Updates
  <2>6. \A v \in done' : v <= confirmed' + Limit /\ v <= Through' + Limit
    BY <2>1, <2>2, <2>3, <2>5
  <2> QED
    BY <1>0, <2>1, <2>2, <2>4, <2>6 DEF DeathInv
<1>4. CASE Start \/ RunCommand
  <2>1. Through' = Through /\ UNCHANGED <<confirmed, fetched, done, lost>>
    BY <1>0, <1>4, LibraryUnseen DEF Promise!vars, Start, RunCommand, history
  <2> QED
    BY <1>0, <2>1 DEF DeathInv
<1>5. CASE Receive
  <2>1. CASE Promise!Settle
    BY <1>0, <1>5, <2>1, ReceiveSettles, SettleKeepsFate
  <2>2. CASE UNCHANGED Promise!vars
    BY <1>0, <1>5, <2>2, ReceiveSettles DEF Promise!vars, DeathInv
  <2> QED
    BY <1>0, <1>5, <2>1, <2>2, ReceiveSettles
<1>6. CASE Reply
  BY <1>0, <1>6, ReplySettles, SettleKeepsFate
<1>7. CASE Panic \/ Crash
  <2>1. Die
    BY <1>7 DEF Panic, Crash
  <2>2. /\ confirmed' = confirmed /\ fetched' = confirmed
        /\ Through' = confirmed /\ confirmed \in Nat
        /\ lost' = lost \cup (1 .. confirmed \ done) /\ done' = done
    BY <2>1, DieIsDie
  <2>3. fetched' <= confirmed' + Limit
    BY <2>2 DEF LoopInv, TypeOK
  <2> QED
    BY <1>0, <2>2, <2>3 DEF DeathInv
<1>8. CASE UNCHANGED vars
  BY <1>0, <1>8 DEF vars, history, DeathInv, Through
<1> QED
  BY <1>2, <1>3, <1>4, <1>5, <1>6, <1>7, <1>8 DEF Next

(* However often the process dies and updates are delivered again: none is  *)
(* settled for the first time before an older one, and one that is handled  *)
(* again has been overtaken by less than a batch.                           *)
THEOREM UpdatesInOrder == Spec => []SettledInOrder
<1>1. Init => DeliveryInv
  BY InitDelivery
<1>2. DeliveryInv /\ [Next]_vars => DeliveryInv'
  BY NextDelivery
<1>3. DeliveryInv => SettledInOrder
  <2> SUFFICES ASSUME LoopInv, DeathInv PROVE SettledInOrder
    BY DEF DeliveryInv
  <2>1. pc \in {"command", "reply"} => \A v \in done : v < taken + Limit
    BY DEF DeathInv, LoopInv, TypeOK, Through, Updates
  <2> QED
    BY <2>1 DEF LoopInv, FirstInOrder, Settled, SettledInOrder
<1> QED
  BY <1>1, <1>2, <1>3, PTL DEF Spec

(* Every step of the loop is one the promise allows, or is not seen.        *)
LEMMA NextIsPromised ==
    ASSUME DeliveryInv, [Next]_vars
    PROVE  [Promise!Next]_(Promise!vars)
<1>0. LoopInv
  BY DEF DeliveryInv
<1>1. CASE Post
  <2>1. Promise!Post
    BY <1>1 DEF Post, history, Through, Promise!Post
  <2> QED
    BY <2>1 DEF Promise!Next
<1>2. CASE Poll \/ PollUnanswered \/ Enqueue \/ Start \/ RunCommand
  BY <1>0, <1>2, LibraryUnseen
<1>3. CASE Receive
  BY <1>0, <1>3, ReceiveSettles DEF Promise!Next
<1>4. CASE Reply
  BY <1>0, <1>4, ReplySettles DEF Promise!Next
<1>5. CASE Panic \/ Crash
  <2>1. Die
    BY <1>5 DEF Panic, Crash
  <2>2. Promise!Die(confirmed) /\ confirmed \in 0 .. posted
    BY <2>1, DieIsDie
  <2> QED
    BY <2>2 DEF Promise!Next
<1>6. CASE UNCHANGED vars
  BY <1>6 DEF vars, history, Through, Promise!vars
<1> QED
  BY <1>1, <1>2, <1>3, <1>4, <1>5, <1>6 DEF Next

(* The loop, the library and Docker's restarts, whatever the limit, the     *)
(* buffer and the deaths, deliver what Delivery promises: updates are       *)
(* settled one by one in order, and a death goes back by at most a batch    *)
(* and takes at most a channel and the update in hand.                      *)
THEOREM DeliveryImplemented == Spec => DeliverySpec
<1>1. Init => DeliveryInv
  BY InitDelivery
<1>2. DeliveryInv /\ [Next]_vars => DeliveryInv'
  BY NextDelivery
<1>3. Init => Promise!Init
  BY DEF Init, Promise!Init, Through
<1>4. DeliveryInv /\ [Next]_vars => [Promise!Next]_(Promise!vars)
  BY NextIsPromised
<1> QED
  BY <1>1, <1>2, <1>3, <1>4, PTL DEF Spec, DeliverySpec, Promise!Spec
=============================================================================
