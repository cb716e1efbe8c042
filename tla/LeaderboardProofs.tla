-------------------------- MODULE LeaderboardProofs --------------------------
(***************************************************************************)
(* That /leaderboard skips no transfer of a chat's Safe, rewards none      *)
(* twice without a cause and loses no points but by a race, for every page *)
(* size, every history and every number of requests and of failures.       *)
(***************************************************************************)
EXTENDS Leaderboard, SequenceTheorems, TLAPS

-----------------------------------------------------------------------------
(* Types *)

BotOK ==
    /\ bot \in BotState
    /\ bot.page # {} => bot.safe \in Safes
    /\ bot.pc \in {"award", "save"} => bot.todo # <<>> /\ <<bot.safe, bot.tx>> \in Outgoing
    /\ bot.pc = "save" => bot.user \in Users

HistoryOK ==
    /\ begun \in [Safes \X Nonces -> Nat]
    /\ done \subseteq Safes \X Nonces
    /\ missed \subseteq Safes \X Nonces
    /\ foreign \subseteq Safes \X Nonces
    /\ ledger \in [Users -> SignerRow]
    /\ raced \subseteq Users
    /\ undone \in Nat
    /\ served \in Nat

RowsOK ==
    /\ executed \in [Safes -> 0 .. MaxTxs]
    /\ chat \in ChatRow
    /\ row \in [Users -> SignerRow]
    /\ reqs \in [Reqs -> ReqState]

(* The type invariant, in three parts that few actions disturb together.    *)
LEMMA TypeParts ==
    /\ TypeOK <=> BotOK /\ HistoryOK /\ RowsOK
    /\ TypeOK' <=> BotOK' /\ HistoryOK' /\ RowsOK'
BY Zenon DEF TypeOK, BotOK, HistoryOK, RowsOK

(* A part whose variables do not change keeps its types.                    *)
LEMMA RowsStayOK ==
    ASSUME RowsOK, UNCHANGED <<executed, chat, row, reqs>>
    PROVE  RowsOK'
BY DEF RowsOK

(* A step that touches neither the safe's history nor what was served       *)
(* keeps their types.                                                       *)
LEMMA HistoryStaysOK ==
    ASSUME HistoryOK, UNCHANGED <<history, served>>
    PROVE  HistoryOK'
BY DEF HistoryOK, history

(* A command that ended leaves nothing behind.                              *)
LEMMA IdleBotOK ==
    ASSUME bot' = IdleBot
    PROVE  BotOK'
<1>1. IdleBot \in BotState
  BY DEF IdleBot, BotState, Unbound, SignerRow
<1>2. IdleBot.page = {} /\ IdleBot.pc = "idle"
  BY DEF IdleBot
<1> QED
  BY <1>1, <1>2 DEF BotOK

(* The rewards of a transaction are a sequence that is not empty.           *)
LEMMA RewardsType ==
    ASSUME NEW t \in Outgoing
    PROVE  Rewards(t) \in Seq(Reward) /\ Rewards(t) # <<>>
<1> DEFINE first == <<<<Executor[t], 300>>>>
           others == [i \in DOMAIN Signers[t] |-> <<Signers[t][i], 100>>]
<1>1. Executor[t] \in Addrs /\ Signers[t] \in Seq(Addrs)
  BY LeaderboardAssumption
<1>2. first \in Seq(Reward) /\ Len(first) = 1
  BY <1>1 DEF Reward
<1>3. others \in Seq(Reward)
  <2> DEFINE n == Len(Signers[t])
  <2>1. n \in Nat /\ Signers[t] \in [1 .. n -> Addrs] /\ DOMAIN Signers[t] = 1 .. n
    BY <1>1, LenProperties
  <2>2. \A i \in 1 .. n : <<Signers[t][i], 100>> \in Reward
    BY <2>1 DEF Reward
  <2>3. others \in [1 .. n -> Reward]
    BY <2>1, <2>2
  <2> HIDE DEF n, others
  <2> QED
    BY <2>1, <2>3
<1> HIDE DEF first, others
<1>4. first \o others \in Seq(Reward) /\ Len(first \o others) = 1 + Len(others)
  BY <1>2, <1>3, ConcatProperties
<1>5. Len(others) \in Nat
  BY <1>3
<1>6. first \o others # <<>>
  BY <1>4, <1>5
<1> QED
  BY <1>4, <1>6 DEF Rewards, first, others

(* Settling a reward moves on within the transaction or completes it.       *)
LEMMA NextRewardOK ==
    ASSUME BotOK, HistoryOK, NextReward, bot.pc \in {"award", "save"}
    PROVE  BotOK' /\ done' \subseteq Safes \X Nonces
<1>1. /\ bot.todo \in Seq(Reward) /\ bot.todo # <<>>
      /\ <<bot.safe, bot.tx>> \in Outgoing
      /\ Unbound \in SignerRow
  BY DEF BotOK, BotState, Unbound, SignerRow
<1>2. CASE Len(bot.todo) > 1
  <2> DEFINE rest == Tail(bot.todo)
  <2>1. rest \in Seq(Reward) /\ rest # <<>>
    <3>1. rest \in Seq(Reward) /\ Len(rest) = Len(bot.todo) - 1
      BY <1>1, HeadTailProperties
    <3>2. Len(bot.todo) \in Nat
      BY <1>1
    <3>3. Len(rest) > 0
      BY <1>2, <3>1, <3>2
    <3> HIDE DEF rest
    <3> QED
      BY <3>1, <3>3
  <2>2. bot' = [bot EXCEPT !.pc = "award", !.todo = rest, !.user = Nil, !.held = Unbound]
    BY <1>2 DEF NextReward
  <2> HIDE DEF rest
  <2>3. bot' \in BotState
    BY <1>1, <2>1, <2>2 DEF BotOK, BotState
  <2>4. /\ bot'.todo = rest /\ bot'.safe = bot.safe /\ bot'.tx = bot.tx
        /\ bot'.page = bot.page /\ bot'.pc = "award"
    BY <2>2 DEF BotOK, BotState
  <2> QED
    BY <1>1, <1>2, <2>1, <2>3, <2>4 DEF BotOK, HistoryOK, NextReward
<1>3. CASE ~(Len(bot.todo) > 1)
  <2>1. bot' = [bot EXCEPT !.pc = "tx", !.todo = <<>>, !.user = Nil, !.held = Unbound]
    BY <1>3 DEF NextReward
  <2>2. bot' \in BotState
    <3> DEFINE nothing == <<>>
    <3>1. nothing \in Seq(Reward) /\ bot' = [bot EXCEPT !.pc = "tx", !.todo = nothing,
                                           !.user = Nil, !.held = Unbound]
      BY <2>1
    <3> HIDE DEF nothing
    <3> QED
      BY <1>1, <3>1 DEF BotOK, BotState
  <2>3. bot'.page = bot.page /\ bot'.safe = bot.safe /\ bot'.pc = "tx"
    BY <2>1 DEF BotOK, BotState
  <2>4. done' = done \cup {<<bot.safe, bot.tx>>}
    BY <1>3 DEF NextReward
  <2> QED
    BY <1>1, <2>2, <2>3, <2>4, LeaderboardAssumption DEF BotOK, HistoryOK
<1> QED
  BY <1>2, <1>3

(* /leaderboard begins: the page comes with the chat's Safe.                *)
LEMMA FetchHistoryOK == TypeOK /\ FetchHistory => TypeOK'
<1> SUFFICES ASSUME BotOK, HistoryOK, RowsOK, FetchHistory PROVE TypeOK'
  BY TypeParts
<1> DEFINE size == IF chat.safe = Nil THEN 0 ELSE executed[chat.safe]
           page == {n \in Nonces : n < size /\ n >= size - PageSize}
<1>1. chat.safe \in Safes \cup {Nil} /\ size \in Nat
  BY LeaderboardAssumption DEF RowsOK, ChatRow
<1>2. page \subseteq Nonces /\ (chat.safe = Nil => page = {})
  BY DEF Nonces
<1>3. PICK seen \in {page, {}} :
          bot' = [IdleBot EXCEPT !.pc = "nonce", !.safe = chat.safe, !.page = seen]
  BY DEF FetchHistory
<1>4. bot' = [pc |-> "nonce", safe |-> chat.safe, page |-> seen, floor |-> 0,
              updated |-> 0, tx |-> 0, todo |-> <<>>, user |-> Nil, held |-> Unbound,
              astray |-> FALSE]
  BY <1>3 DEF IdleBot
<1>5. seen \subseteq Nonces /\ (seen # {} => chat.safe \in Safes)
  BY <1>1, <1>2
<1> HIDE DEF page, size
<1>6. BotOK'
  <2>1. Unbound \in SignerRow
    BY DEF Unbound, SignerRow
  <2>2. bot' \in BotState
    BY <1>1, <1>4, <1>5, <2>1 DEF BotState
  <2> QED
    BY <1>4, <1>5, <2>2 DEF BotOK
<1>7. missed' \subseteq Safes \X Nonces
  <2> SUFFICES ASSUME NEW t \in {chat.safe} \X Nonces, t[2] < size - PageSize
               PROVE  t \in Safes \X Nonces
    BY DEF FetchHistory, HistoryOK, size
  <2>1. t[2] \in Nat /\ PageSize \in Nat
    BY LeaderboardAssumption DEF Nonces
  <2>2. chat.safe # Nil
    BY <2>1 DEF size
  <2> QED
    BY <1>1, <2>2
<1>8. HistoryOK'
  BY <1>7 DEF FetchHistory, HistoryOK
<1>9. RowsOK'
  BY RowsStayOK DEF FetchHistory
<1> QED
  BY <1>6, <1>8, <1>9, TypeParts

(* The nonce is read.                                                       *)
LEMMA ReadNonceOK == TypeOK /\ GetCurrentLastConfirmedNonce => TypeOK'
<1> SUFFICES ASSUME BotOK, HistoryOK, RowsOK, GetCurrentLastConfirmedNonce PROVE TypeOK'
  BY TypeParts
<1>1. chat.nonce \in Nat
  BY DEF RowsOK, ChatRow
<1>2. bot' = [bot EXCEPT !.pc = "tx", !.floor = chat.nonce]
  BY DEF GetCurrentLastConfirmedNonce
<1>3. bot' \in BotState
  BY <1>1, <1>2 DEF BotOK, BotState
<1>4. bot'.pc = "tx" /\ bot'.page = bot.page /\ bot'.safe = bot.safe
  BY <1>2 DEF BotOK, BotState
<1>5. BotOK'
  BY <1>3, <1>4 DEF BotOK
<1>6. HistoryOK' /\ RowsOK'
  BY HistoryStaysOK, RowsStayOK DEF GetCurrentLastConfirmedNonce
<1> QED
  BY <1>5, <1>6, TypeParts

(* A transaction is passed over.                                            *)
LEMMA SkipTransactionOK ==
    ASSUME TypeOK, NEW n \in Newest, SkipTransaction(n)
    PROVE  TypeOK'
<1>1. BotOK /\ HistoryOK /\ RowsOK
  BY TypeParts
<1> DEFINE rest == bot.page \ {n}
<1>2. bot' = [bot EXCEPT !.page = rest]
  BY DEF SkipTransaction
<1>3. rest \subseteq Nonces /\ (rest # {} => bot.safe \in Safes)
  BY <1>1 DEF BotOK, BotState
<1> HIDE DEF rest
<1>4. bot' \in BotState
  BY <1>1, <1>2, <1>3 DEF BotOK, BotState
<1>5. bot'.pc = "tx" /\ bot'.page = rest /\ bot'.safe = bot.safe
  BY <1>1, <1>2 DEF BotOK, BotState, SkipTransaction
<1>6. BotOK'
  BY <1>3, <1>4, <1>5 DEF BotOK
<1>7. HistoryOK' /\ RowsOK'
  BY <1>1, HistoryStaysOK, RowsStayOK DEF SkipTransaction
<1> QED
  BY <1>6, <1>7, TypeParts

(* A new transaction is fetched, or the command ends.                       *)
LEMMA FetchTransactionOK ==
    ASSUME TypeOK, NEW n \in Newest, FetchTransaction(n)
    PROVE  TypeOK'
<1> DEFINE t == <<bot.safe, n>>
           rest == bot.page \ {n}
           nonce == UpdatedNonce(n)
<1>1. BotOK /\ HistoryOK /\ RowsOK
  BY TypeParts
<1>2. t \in Outgoing /\ t \in Safes \X Nonces
  BY LeaderboardAssumption DEF FetchTransaction, IsNew
<1>3. rest \subseteq Nonces /\ n \in Nat /\ nonce \in Nat /\ bot.safe \in Safes
  BY <1>1, <1>2 DEF BotOK, BotState, UpdatedNonce, Newest, Nonces
<1>4. UNCHANGED <<executed, chat, row, reqs, done, foreign, ledger, raced, served>>
  BY DEF FetchTransaction
<1>5. CASE /\ bot' = [bot EXCEPT !.page = rest, !.updated = nonce, !.pc = "award",
                                 !.tx = n, !.todo = Rewards(t)]
           /\ begun' = [begun EXCEPT ![t] = @ + 1]
           /\ UNCHANGED <<missed, undone>>
  <2>1. Rewards(t) \in Seq(Reward) /\ Rewards(t) # <<>>
    BY <1>2, RewardsType
  <2> HIDE DEF rest, nonce
  <2>2. bot' \in BotState
    BY <1>1, <1>3, <1>5, <2>1 DEF BotOK, BotState
  <2>3. /\ bot'.pc = "award" /\ bot'.safe = bot.safe /\ bot'.tx = n
        /\ bot'.todo = Rewards(t)
    BY <1>1, <1>5 DEF BotOK, BotState
  <2>4. begun' \in [Safes \X Nonces -> Nat]
    BY <1>1, <1>2, <1>5 DEF HistoryOK
  <2>5. BotOK'
    BY <1>2, <1>3, <2>1, <2>2, <2>3 DEF BotOK
  <2>6. HistoryOK'
    BY <1>1, <1>4, <1>5, <2>4 DEF HistoryOK
  <2> QED
    BY <1>1, <1>4, <2>5, <2>6, RowsStayOK, TypeParts
<1>6. CASE /\ bot' = [bot EXCEPT !.page = rest, !.updated = nonce]
           /\ missed' = missed \cup ({t} \ done)
           /\ UNCHANGED <<begun, undone>>
  <2>1. bot.pc = "tx"
    BY DEF FetchTransaction
  <2> HIDE DEF rest, nonce
  <2>2. bot' \in BotState
    BY <1>1, <1>3, <1>6 DEF BotOK, BotState
  <2>3. bot'.pc = "tx" /\ bot'.safe = bot.safe
    BY <1>1, <1>6, <2>1 DEF BotOK, BotState
  <2>4. missed' \subseteq Safes \X Nonces
    BY <1>1, <1>2, <1>6 DEF HistoryOK
  <2>5. BotOK'
    BY <1>3, <2>2, <2>3 DEF BotOK
  <2>6. HistoryOK'
    BY <1>1, <1>4, <1>6, <2>4 DEF HistoryOK
  <2> QED
    BY <1>1, <1>4, <2>5, <2>6, RowsStayOK, TypeParts
<1>7. CASE /\ bot' = IdleBot
           /\ undone' = undone + 1
           /\ UNCHANGED <<begun, missed>>
  <2>1. undone' \in Nat
    BY <1>1, <1>7 DEF HistoryOK
  <2>2. HistoryOK'
    BY <1>1, <1>4, <1>7, <2>1 DEF HistoryOK
  <2> QED
    BY <1>1, <1>4, <1>7, <2>2, IdleBotOK, RowsStayOK, TypeParts
<1> QED
  BY <1>5, <1>6, <1>7 DEF FetchTransaction, ReturnError

(* The bot's view is untouched by the requests, and the parts they touch    *)
(* keep their types below.                                                  *)
LEMMA BotStaysOK == ASSUME BotOK, UNCHANGED bot PROVE BotOK'
BY DEF BotOK

(* UpdatePoints finds a row, or goes on.                                    *)
LEMMA FindSignerOK == TypeOK /\ FindSigner => TypeOK'
<1> SUFFICES ASSUME BotOK, HistoryOK, RowsOK, FindSigner PROVE TypeOK'
  BY TypeParts
<1>1. bot.pc = "award" /\ bot.todo # <<>> /\ <<bot.safe, bot.tx>> \in Outgoing
  BY DEF FindSigner, BotOK
<1>2. RowsOK'
  BY RowsStayOK DEF FindSigner
<1>3. CASE NextReward
  <2>1. BotOK' /\ done' \subseteq Safes \X Nonces
    BY <1>1, <1>3, NextRewardOK
  <2>2. HistoryOK'
    BY <2>1 DEF FindSigner, HistoryOK
  <2> QED
    BY <1>2, <2>1, <2>2, TypeParts
<1>4. ASSUME NEW u \in Users, done' = done,
             bot' = [bot EXCEPT !.pc = "save", !.user = u, !.held = row[u]]
      PROVE  TypeOK'
  <2>1. row[u] \in SignerRow
    BY DEF RowsOK
  <2>2. bot' \in BotState
    BY <1>4, <2>1 DEF BotOK, BotState
  <2>3. /\ bot'.page = bot.page /\ bot'.safe = bot.safe /\ bot'.tx = bot.tx
        /\ bot'.todo = bot.todo /\ bot'.user = u
    BY <1>4 DEF BotOK, BotState
  <2>4. BotOK'
    BY <1>1, <2>2, <2>3 DEF BotOK
  <2>5. HistoryOK'
    BY <1>4 DEF FindSigner, HistoryOK
  <2> QED
    BY <1>2, <2>4, <2>5, TypeParts
<1> QED
  BY <1>3, <1>4 DEF FindSigner

(* UpdatePoints saves a row.                                                *)
LEMMA SavePointsOK == TypeOK /\ SavePoints => TypeOK'
<1> SUFFICES ASSUME BotOK, HistoryOK, RowsOK, SavePoints PROVE TypeOK'
  BY TypeParts
<1> DEFINE u == bot.user
           p == Head(bot.todo)[2]
<1>1. /\ bot.pc = "save" /\ u \in Users /\ bot.held \in SignerRow
      /\ bot.todo \in Seq(Reward) /\ bot.todo # <<>>
  BY DEF SavePoints, BotOK, BotState
<1>2. p \in Nat
  <2>1. Head(bot.todo) \in Reward
    BY <1>1, HeadTailProperties
  <2> QED
    BY <2>1 DEF Reward
<1>3. BotOK' /\ done' \subseteq Safes \X Nonces
  BY <1>1, NextRewardOK DEF SavePoints
<1>4. row' \in [Users -> SignerRow]
  <2> DEFINE points == bot.held.points + p
             new == [bot.held EXCEPT !.points = points]
  <2>1. points \in Nat
    BY <1>1, <1>2 DEF SignerRow
  <2>2. row' = [row EXCEPT ![u] = new]
    BY DEF SavePoints
  <2> HIDE DEF points
  <2>3. new \in SignerRow
    BY <1>1, <2>1 DEF SignerRow
  <2> HIDE DEF new
  <2> QED
    BY <1>1, <2>2, <2>3 DEF RowsOK
<1>5. ledger' \in [Users -> SignerRow]
  <2> DEFINE points == ledger[u].points + p
             new == [ledger[u] EXCEPT !.points = points]
  <2>1. ledger[u] \in SignerRow
    BY <1>1 DEF HistoryOK
  <2>2. points \in Nat
    BY <1>2, <2>1 DEF SignerRow
  <2>3. ledger' = [ledger EXCEPT ![u] = new]
    BY DEF SavePoints
  <2> HIDE DEF points
  <2>4. new \in SignerRow
    BY <2>1, <2>2 DEF SignerRow
  <2> HIDE DEF new
  <2> QED
    BY <1>1, <2>3, <2>4 DEF HistoryOK
<1>6. raced' \subseteq Users
  BY <1>1 DEF SavePoints, HistoryOK
<1> HIDE DEF u, p
<1>7. HistoryOK'
  BY <1>3, <1>5, <1>6 DEF SavePoints, HistoryOK
<1>8. RowsOK'
  BY <1>4 DEF SavePoints, RowsOK
<1> QED
  BY <1>3, <1>7, <1>8, TypeParts

(* What a Safe has not paid for are transfers.                              *)
LEMMA UnpaidType ==
    ASSUME NEW s, NEW k
    PROVE  Unpaid(s, k) \subseteq Safes \X Nonces
BY LeaderboardAssumption DEF Unpaid

(* The nonce is moved.                                                      *)
LEMMA UpdateNonceOK == TypeOK /\ UpdateLastConfirmedNonce => TypeOK'
<1> SUFFICES ASSUME BotOK, HistoryOK, RowsOK, UpdateLastConfirmedNonce PROVE TypeOK'
  BY TypeParts
<1>1. bot.updated \in Nat
  BY DEF BotOK, BotState
<1>2. chat' \in ChatRow
  BY <1>1 DEF UpdateLastConfirmedNonce, RowsOK, ChatRow
<1>3. RowsOK'
  BY <1>2 DEF UpdateLastConfirmedNonce, RowsOK
<1>4. BotOK'
  BY IdleBotOK DEF UpdateLastConfirmedNonce
<1>5. foreign' \subseteq Safes \X Nonces
  BY UnpaidType DEF UpdateLastConfirmedNonce, HistoryOK
<1>6. HistoryOK'
  BY <1>5 DEF UpdateLastConfirmedNonce, HistoryOK
<1> QED
  BY <1>3, <1>4, <1>6, TypeParts

(* AddSigner reads the member's row.                                        *)
LEMMA FindBindingOK ==
    ASSUME TypeOK, NEW r \in Reqs, NEW u \in Users, NEW a \in Addrs, FindBinding(r, u, a)
    PROVE  TypeOK'
<1>1. BotOK /\ HistoryOK /\ RowsOK
  BY TypeParts
<1> DEFINE q == [pc |-> "bind", user |-> u, to |-> a, seen |-> row[u]]
<1>2. q \in ReqState
  BY <1>1 DEF ReqState, RowsOK
<1>3. reqs' = [reqs EXCEPT ![r] = q]
  BY DEF FindBinding
<1> HIDE DEF q
<1>4. reqs' \in [Reqs -> ReqState]
  BY <1>1, <1>2, <1>3 DEF RowsOK
<1>5. RowsOK'
  BY <1>1, <1>4 DEF FindBinding, RowsOK
<1>6. BotOK' /\ HistoryOK'
  BY <1>1, BotStaysOK DEF FindBinding, HistoryOK, history
<1> QED
  BY <1>5, <1>6, TypeParts

(* What a request has read is of its kind.                                  *)
LEMMA RequestRead ==
    ASSUME RowsOK, NEW r \in Reqs
    PROVE  /\ reqs[r].pc = "bind" => /\ reqs[r].user \in Users
                                     /\ reqs[r].to \in Addrs
                                     /\ reqs[r].seen \in SignerRow
           /\ reqs[r].pc = "link" => /\ reqs[r].user = Nil
                                     /\ reqs[r].to \in Safes
                                     /\ reqs[r].seen \in ChatRow
<1>1. reqs[r] \in ReqState
  BY DEF RowsOK
<1>2. CASE reqs[r] = IdleReq
  BY <1>2 DEF IdleReq
<1>3. CASE reqs[r] \in [pc: {"bind"}, user: Users, to: Addrs, seen: SignerRow]
  BY <1>3
<1>4. CASE reqs[r] \in [pc: {"link"}, user: {Nil}, to: Safes, seen: ChatRow]
  BY <1>4
<1> QED
  BY <1>1, <1>2, <1>3, <1>4 DEF ReqState

(* A request that is over leaves its slot.                                  *)
LEMMA RequestEnds ==
    ASSUME RowsOK, NEW r \in Reqs, reqs' = [reqs EXCEPT ![r] = IdleReq]
    PROVE  reqs' \in [Reqs -> ReqState]
<1>1. IdleReq \in ReqState
  BY DEF ReqState
<1> QED
  BY <1>1 DEF RowsOK

(* AddSigner saves the row.                                                 *)
LEMMA SaveBindingOK ==
    ASSUME TypeOK, NEW r \in Reqs, SaveBinding(r)
    PROVE  TypeOK'
<1>1. BotOK /\ HistoryOK /\ RowsOK
  BY TypeParts
<1> DEFINE u == reqs[r].user
           old == reqs[r].seen
           a == reqs[r].to
<1>2. u \in Users /\ old \in SignerRow /\ a \in Addrs
  BY <1>1, RequestRead DEF SaveBinding
<1>3. row' = [row EXCEPT ![u] = [old EXCEPT !.addr = a]]
  BY DEF SaveBinding, RowWith
<1>4. ledger' = [ledger EXCEPT ![u] = [ledger[u] EXCEPT !.addr = a]]
  BY DEF SaveBinding
<1>5. raced' \subseteq Users
  BY <1>1, <1>2 DEF SaveBinding, HistoryOK
<1> HIDE DEF u, old, a
<1>6. row' \in [Users -> SignerRow]
  <2>1. [old EXCEPT !.addr = a] \in SignerRow
    BY <1>2 DEF SignerRow
  <2> QED
    BY <1>1, <1>2, <1>3, <2>1 DEF RowsOK
<1>7. ledger' \in [Users -> SignerRow]
  <2>1. ledger[u] \in SignerRow
    BY <1>1, <1>2 DEF HistoryOK
  <2>2. [ledger[u] EXCEPT !.addr = a] \in SignerRow
    BY <1>2, <2>1 DEF SignerRow
  <2> QED
    BY <1>1, <1>2, <1>4, <2>2 DEF HistoryOK
<1>8. RowsOK'
  BY <1>1, <1>6, RequestEnds DEF SaveBinding, RowsOK
<1>9. HistoryOK'
  BY <1>1, <1>5, <1>7 DEF SaveBinding, HistoryOK
<1> QED
  BY <1>1, <1>8, <1>9, BotStaysOK, TypeParts DEF SaveBinding

(* LinkSafe reads the chat row.                                             *)
LEMMA QueryChatOK ==
    ASSUME TypeOK, NEW r \in Reqs, NEW s \in Safes, QueryChat(r, s)
    PROVE  TypeOK'
<1>1. BotOK /\ HistoryOK /\ RowsOK
  BY TypeParts
<1> DEFINE q == [pc |-> "link", user |-> Nil, to |-> s, seen |-> chat]
<1>2. q \in ReqState
  BY <1>1 DEF ReqState, RowsOK
<1>3. reqs' = [reqs EXCEPT ![r] = q]
  BY DEF QueryChat
<1> HIDE DEF q
<1>4. reqs' \in [Reqs -> ReqState]
  BY <1>1, <1>2, <1>3 DEF RowsOK
<1>5. RowsOK'
  BY <1>1, <1>4 DEF QueryChat, RowsOK
<1>6. BotOK' /\ HistoryOK'
  BY <1>1, BotStaysOK DEF QueryChat, HistoryOK, history
<1> QED
  BY <1>5, <1>6, TypeParts

(* LinkSafe saves the chat row.                                             *)
LEMMA SaveChatOK ==
    ASSUME TypeOK, NEW r \in Reqs, SaveChat(r)
    PROVE  TypeOK'
<1>1. BotOK /\ HistoryOK /\ RowsOK
  BY TypeParts
<1>2. reqs[r].to \in Safes /\ reqs[r].seen \in ChatRow
  BY <1>1, RequestRead DEF SaveChat
<1>3. chat' \in ChatRow
  BY <1>1, <1>2 DEF SaveChat, RowsOK, ChatRow
<1>4. undone' \in Nat
  <2>1. undone' = undone \/ undone' = undone + 1
    BY DEF SaveChat
  <2> QED
    BY <1>1, <2>1 DEF HistoryOK
<1>5. RowsOK'
  BY <1>1, <1>3, RequestEnds DEF SaveChat, RowsOK
<1>6. HistoryOK'
  <2>1. foreign' \subseteq Safes \X Nonces
    BY <1>1, UnpaidType DEF SaveChat, HistoryOK
  <2> QED
    BY <1>1, <1>4, <2>1 DEF SaveChat, HistoryOK
<1>7. BotOK'
  <2> DEFINE stray == bot.astray \/ (bot.pc # "idle" /\ chat'.safe # bot.safe)
  <2>1. bot' = [bot EXCEPT !.astray = stray] /\ stray \in BOOLEAN
    BY <1>1 DEF SaveChat, BotOK, BotState
  <2> HIDE DEF stray
  <2>2. bot' \in BotState
    BY <1>1, <2>1 DEF BotOK, BotState
  <2>3. /\ bot'.page = bot.page /\ bot'.safe = bot.safe /\ bot'.pc = bot.pc
        /\ bot'.todo = bot.todo /\ bot'.tx = bot.tx /\ bot'.user = bot.user
    BY <1>1, <2>1 DEF BotOK, BotState
  <2> QED
    BY <1>1, <2>2, <2>3 DEF BotOK
<1> QED
  BY <1>1, <1>5, <1>6, <1>7, TypeParts

(* The owners act, or the process dies.                                     *)
LEMMA EnvironmentOK ==
    ASSUME TypeOK, (\E s \in Safes : Execute(s)) \/ Crash
    PROVE  TypeOK'
<1>1. BotOK /\ HistoryOK /\ RowsOK
  BY TypeParts
<1>2. ASSUME NEW s \in Safes, Execute(s) PROVE TypeOK'
  <2> DEFINE n == executed[s] + 1
  <2>1. n \in 0 .. MaxTxs
    BY <1>1, <1>2, LeaderboardAssumption DEF Execute, RowsOK
  <2>2. executed' = [executed EXCEPT ![s] = n]
    BY <1>2 DEF Execute
  <2> HIDE DEF n
  <2>3. executed' \in [Safes -> 0 .. MaxTxs]
    BY <1>1, <2>1, <2>2 DEF RowsOK
  <2>4. RowsOK'
    BY <1>1, <1>2, <2>3 DEF Execute, RowsOK
  <2> QED
    BY <1>1, <1>2, <2>4, BotStaysOK, HistoryStaysOK, TypeParts DEF Execute
<1>3. CASE Crash
  <2>1. reqs' \in [Reqs -> ReqState]
    <3>1. IdleReq \in ReqState
      BY DEF ReqState
    <3> QED
      BY <1>3, <3>1 DEF Crash
  <2>2. RowsOK'
    BY <1>1, <1>3, <2>1 DEF Crash, RowsOK
  <2>3. undone' \in Nat
    BY <1>1, <1>3 DEF Crash, HistoryOK
  <2>4. HistoryOK'
    BY <1>1, <1>3, <2>3 DEF Crash, HistoryOK
  <2> QED
    BY <1>3, <2>2, <2>4, IdleBotOK, TypeParts DEF Crash
<1> QED
  BY <1>2, <1>3

(* The initial state is well-typed, and every step keeps it so.             *)
LEMMA InitTypeOK == Init => TypeOK
<1> SUFFICES ASSUME Init PROVE TypeOK
  OBVIOUS
<1>1. Unbound \in SignerRow /\ IdleReq \in ReqState
  BY DEF Unbound, SignerRow, ReqState
<1>2. RowsOK
  <2>1. chat \in ChatRow
    BY DEF Init, ChatRow
  <2>2. executed \in [Safes -> 0 .. MaxTxs]
    BY LeaderboardAssumption DEF Init
  <2>3. row \in [Users -> SignerRow] /\ reqs \in [Reqs -> ReqState]
    BY <1>1 DEF Init
  <2> QED
    BY <2>1, <2>2, <2>3 DEF RowsOK
<1>3. HistoryOK
  BY <1>1 DEF Init, HistoryOK
<1>4. BotOK
  <2>1. IdleBot \in BotState
    BY <1>1 DEF IdleBot, BotState
  <2>2. IdleBot.page = {} /\ IdleBot.pc = "idle"
    BY DEF IdleBot
  <2> QED
    BY <2>1, <2>2 DEF Init, BotOK
<1> QED
  BY <1>2, <1>3, <1>4, TypeParts

(* Every step of the command, the requests and the environment keeps the    *)
(* type invariant.                                                          *)
LEMMA NextTypeOK == TypeOK /\ [Next]_vars => TypeOK'
<1> SUFFICES ASSUME TypeOK, [Next]_vars PROVE TypeOK'
  OBVIOUS
<1>1. CASE UNCHANGED vars
  BY <1>1, TypeParts, BotStaysOK, HistoryStaysOK, RowsStayOK DEF vars
<1>2. CASE Bot
  BY <1>2, FetchHistoryOK, ReadNonceOK, SkipTransactionOK, FetchTransactionOK,
     FindSignerOK, SavePointsOK, UpdateNonceOK DEF Bot
<1>3. ASSUME NEW r \in Reqs, Http(r) PROVE TypeOK'
  BY <1>3, FindBindingOK, SaveBindingOK, QueryChatOK, SaveChatOK DEF Http
<1> QED
  BY <1>1, <1>2, <1>3, EnvironmentOK DEF Next

(* The rows, the command and the requests are well-typed in every state.    *)
THEOREM LeaderboardTypes == Spec => []TypeOK
BY InitTypeOK, NextTypeOK, PTL DEF Spec

-----------------------------------------------------------------------------
(* No transfer is skipped *)

Handled == done \cup missed \cup foreign

(* Every transfer of s up to k is handled.                                  *)
KnownUpTo(s, k) == \A t \in Outgoing : t[1] = s /\ t[2] \in 1 .. k => t \in Handled

(* Every transfer of the command's Safe up to k is handled, or the command  *)
(* will come to it, or is at it.                                            *)
CoveredUpTo(k) ==
    \A t \in Outgoing : t[1] = bot.safe /\ t[2] \in 1 .. k =>
        \/ t \in Handled
        \/ t[2] \in bot.page
        \/ bot.pc \in {"award", "save"} /\ t[2] = bot.tx

(* As long as the chat has kept the Safe the command began with: all up to  *)
(* the floor is handled, and all up to the nonce it is going to write is    *)
(* covered. (When the chat was relinked meanwhile, what the nonce passes of *)
(* the other Safe is foreign.)                                              *)
CommandCovers ==
    bot.pc # "idle" /\ ~bot.astray =>
        /\ chat.safe = bot.safe
        /\ bot.pc \in {"tx", "award", "save"} => KnownUpTo(bot.safe, bot.floor)
        /\ \A m \in bot.page : CoveredUpTo(m)
        /\ CoveredUpTo(bot.updated)

PaidInv ==
    /\ TypeOK
    /\ KnownUpTo(chat.safe, chat.nonce)
    /\ CommandCovers

(* What is handled stays handled, so what was known stays known.            *)
LEMMA KnownStays ==
    ASSUME PaidInv, Handled \subseteq Handled', UNCHANGED chat
    PROVE  KnownUpTo(chat.safe, chat.nonce)'
BY DEF PaidInv, KnownUpTo

(* A command that is not under way covers nothing.                          *)
LEMMA IdleCovers ==
    ASSUME bot' = IdleBot
    PROVE  CommandCovers'
BY DEF IdleBot, CommandCovers

(* A step that leaves the page, the floor and the nonce to write alone, and *)
(* the transaction in hand too, unless it has just been handled.            *)
LEMMA CommandStays ==
    ASSUME CommandCovers, Handled \subseteq Handled', chat'.safe = chat.safe,
           bot'.page = bot.page, bot'.floor = bot.floor, bot'.updated = bot.updated,
           bot'.safe = bot.safe, bot'.astray = bot.astray, bot.pc # "idle",
           bot'.pc \in {"tx", "award", "save"} => bot.pc \in {"tx", "award", "save"},
           bot.pc \in {"award", "save"} =>
               \/ bot'.pc \in {"award", "save"} /\ bot'.tx = bot.tx
               \/ \A t \in Outgoing : t[1] = bot.safe /\ t[2] = bot.tx => t \in Handled'
    PROVE  CommandCovers'
<1>1. ASSUME NEW k, CoveredUpTo(k) PROVE CoveredUpTo(k)'
  BY <1>1 DEF CoveredUpTo
<1>2. ASSUME KnownUpTo(bot.safe, bot.floor) PROVE KnownUpTo(bot.safe, bot.floor)'
  BY <1>2 DEF KnownUpTo
<1> QED
  BY <1>1, <1>2 DEF CommandCovers, KnownUpTo, CoveredUpTo

(* A transfer is a Safe and a nonce.                                        *)
LEMMA TransferIsPair ==
    ASSUME NEW t \in Outgoing
    PROVE  t = <<t[1], t[2]>> /\ t[1] \in Safes /\ t[2] \in Nonces /\ t[2] \in Nat
<1>1. t \in Safes \X Nonces
  BY LeaderboardAssumption
<1> QED
  BY <1>1 DEF Nonces

(* The page holds the newest transactions; older ones become missed.        *)
LEMMA FetchHistoryPaid ==
    ASSUME PaidInv, FetchHistory
    PROVE  PaidInv'
<1> DEFINE size == IF chat.safe = Nil THEN 0 ELSE executed[chat.safe]
           page == {n \in Nonces : n < size /\ n >= size - PageSize}
<1>1. TypeOK'
  BY FetchHistoryOK DEF PaidInv
<1>2. Handled \subseteq Handled' /\ UNCHANGED <<chat, reqs>>
  BY DEF FetchHistory, Handled
<1>3. KnownUpTo(chat.safe, chat.nonce)'
  BY <1>2, KnownStays
<1>4. PICK seen \in {page, {}} :
          bot' = [IdleBot EXCEPT !.pc = "nonce", !.safe = chat.safe, !.page = seen]
  BY DEF FetchHistory
<1>5. bot'.pc = "nonce" /\ bot'.page = seen /\ bot'.updated = 0 /\ bot'.safe = chat.safe
  BY <1>4 DEF IdleBot
<1>6. chat.safe \in Safes \cup {Nil} /\ size \in Nat /\ PageSize \in Nat
  BY LeaderboardAssumption DEF PaidInv, TypeOK, ChatRow
<1>7. ASSUME NEW m \in seen PROVE CoveredUpTo(m)'
  <2> SUFFICES ASSUME NEW t \in Outgoing, t[1] = chat.safe, t[2] \in 1 .. m
               PROVE  t \in Handled' \/ t[2] \in seen
    BY <1>5 DEF CoveredUpTo
  <2>1. seen = page /\ m \in Nonces /\ m < size
    BY <1>7
  <2>2. t = <<chat.safe, t[2]>> /\ t[2] \in Nonces /\ t[2] < size
    BY <1>6, <2>1, TransferIsPair DEF Nonces
  <2>3. CASE t[2] >= size - PageSize
    BY <2>1, <2>2, <2>3
  <2>4. CASE ~(t[2] >= size - PageSize)
    <3>1. t[2] < size - PageSize
      BY <1>6, <2>2, <2>4 DEF Nonces
    <3>2. t \in {chat.safe} \X Nonces
      BY <2>2
    <3>3. t \in missed' \/ t \in done
      BY <3>1, <3>2 DEF FetchHistory
    <3> QED
      BY <3>3 DEF FetchHistory, Handled
  <2> QED
    BY <2>3, <2>4
<1>8. CommandCovers'
  <2>1. CoveredUpTo(bot.updated)'
    BY <1>5 DEF CoveredUpTo
  <2> QED
    BY <1>2, <1>5, <1>7, <2>1 DEF CommandCovers
<1> QED
  BY <1>1, <1>3, <1>8 DEF PaidInv

(* The floor is the chat's nonce.                                           *)
LEMMA ReadNoncePaid ==
    ASSUME PaidInv, GetCurrentLastConfirmedNonce
    PROVE  PaidInv'
<1>1. TypeOK'
  BY ReadNonceOK DEF PaidInv
<1>2. Handled' = Handled /\ UNCHANGED <<chat, reqs>>
  BY DEF GetCurrentLastConfirmedNonce, Handled, history
<1>3. /\ bot'.pc = "tx" /\ bot'.floor = chat.nonce /\ bot'.page = bot.page
      /\ bot'.updated = bot.updated /\ bot.pc = "nonce"
      /\ bot'.safe = bot.safe /\ bot'.astray = bot.astray
  BY DEF GetCurrentLastConfirmedNonce, PaidInv, TypeOK, BotState
<1>4. KnownUpTo(chat.safe, chat.nonce)'
  BY <1>2, KnownStays
<1>5. ASSUME NEW k, CoveredUpTo(k) PROVE CoveredUpTo(k)'
  BY <1>2, <1>3, <1>5 DEF CoveredUpTo
<1>6. CommandCovers'
  BY <1>2, <1>3, <1>5 DEF CommandCovers, PaidInv, KnownUpTo, CoveredUpTo
<1> QED
  BY <1>1, <1>4, <1>6 DEF PaidInv

(* A transaction that is passed over is none to reward, or below the floor. *)
LEMMA SkipTransactionPaid ==
    ASSUME PaidInv, NEW n \in Newest, SkipTransaction(n)
    PROVE  PaidInv'
<1>1. TypeOK'
  BY SkipTransactionOK DEF PaidInv
<1>2. Handled' = Handled /\ UNCHANGED <<chat, reqs>>
  BY DEF SkipTransaction, Handled, history
<1>3. KnownUpTo(chat.safe, chat.nonce)'
  BY <1>2, KnownStays
<1>4. /\ bot.pc = "tx" /\ bot'.pc = "tx" /\ bot'.page = bot.page \ {n}
      /\ bot'.updated = bot.updated /\ bot'.floor = bot.floor
      /\ bot'.safe = bot.safe /\ bot'.astray = bot.astray
  BY DEF SkipTransaction, PaidInv, TypeOK, BotState
<1>5. n \in bot.page /\ n \in Nat /\ bot.floor \in Nat
  BY DEF Newest, PaidInv, TypeOK, BotState, Nonces
<1>6. ASSUME NEW k, CoveredUpTo(k), ~bot.astray PROVE CoveredUpTo(k)'
  <2> SUFFICES ASSUME NEW t \in Outgoing, t[1] = bot.safe, t[2] \in 1 .. k
               PROVE  t \in Handled' \/ t[2] \in bot'.page
    BY <1>4 DEF CoveredUpTo
  <2>1. t \in Handled \/ t[2] \in bot.page
    BY <1>4, <1>6 DEF CoveredUpTo
  <2>2. CASE t[2] = n
    <3>1. t = <<bot.safe, n>> /\ t[2] \in Nat
      BY <2>2, TransferIsPair
    <3>2. t[2] \in 1 .. bot.floor
      BY <1>5, <2>2, <3>1 DEF SkipTransaction, IsNew
    <3> QED
      BY <1>2, <1>4, <1>6, <3>2 DEF PaidInv, CommandCovers, KnownUpTo
  <2> QED
    BY <1>2, <1>4, <2>1, <2>2
<1>7. CommandCovers'
  BY <1>2, <1>4, <1>6 DEF CommandCovers, PaidInv, KnownUpTo, CoveredUpTo
<1> QED
  BY <1>1, <1>3, <1>7 DEF PaidInv

(* A new transaction comes into hand, or is missed; the nonce to write is   *)
(* the first one, the newest of the page.                                   *)
LEMMA FetchTransactionPaid ==
    ASSUME PaidInv, NEW n \in Newest, FetchTransaction(n)
    PROVE  PaidInv'
<1> DEFINE InHand(t) == t \in Handled' \/ (bot'.pc \in {"award", "save"} /\ bot'.tx = n)
<1>1. TypeOK'
  BY FetchTransactionOK DEF PaidInv
<1>2. Handled \subseteq Handled' /\ UNCHANGED <<chat, reqs>>
  BY DEF FetchTransaction, Handled
<1>3. KnownUpTo(chat.safe, chat.nonce)'
  BY <1>2, KnownStays
<1>4. bot.pc = "tx" /\ n \in bot.page
  BY DEF FetchTransaction, Newest
<1>5. CASE bot' = IdleBot
  BY <1>1, <1>3, <1>5, IdleCovers DEF PaidInv
<1>6. ASSUME bot'.page = bot.page \ {n}, bot'.updated = UpdatedNonce(n),
             bot'.floor = bot.floor, bot'.safe = bot.safe, bot'.astray = bot.astray,
             \A t \in Outgoing : t[1] = bot.safe /\ t[2] = n => InHand(t)
      PROVE  CommandCovers'
  <2>1. ASSUME NEW k, CoveredUpTo(k) PROVE CoveredUpTo(k)'
    <3> SUFFICES ASSUME NEW t \in Outgoing, t[1] = bot.safe, t[2] \in 1 .. k
                 PROVE  \/ t \in Handled' \/ t[2] \in bot'.page
                        \/ bot'.pc \in {"award", "save"} /\ t[2] = bot'.tx
      BY <1>6 DEF CoveredUpTo
    <3>1. t \in Handled \/ t[2] \in bot.page
      BY <1>4, <2>1 DEF CoveredUpTo
    <3> QED
      BY <1>2, <1>6, <3>1
  <2> SUFFICES ASSUME ~bot.astray
               PROVE  CommandCovers'
    BY <1>6 DEF CommandCovers
  <2>2. CoveredUpTo(bot.updated) /\ CoveredUpTo(n) /\ \A m \in bot.page : CoveredUpTo(m)
    BY <1>4 DEF PaidInv, CommandCovers
  <2>3. CoveredUpTo(UpdatedNonce(n))
    BY <2>2 DEF UpdatedNonce
  <2>4. CoveredUpTo(bot.updated)' /\ \A m \in bot'.page : CoveredUpTo(m)'
    BY <1>6, <2>1, <2>2, <2>3 DEF CoveredUpTo
  <2>5. KnownUpTo(bot.safe, bot.floor)' /\ chat'.safe = bot'.safe
    BY <1>2, <1>4, <1>6 DEF PaidInv, CommandCovers, KnownUpTo
  <2> QED
    BY <2>4, <2>5 DEF CommandCovers
<1>7. CASE bot' = [bot EXCEPT !.page = @ \ {n}, !.updated = UpdatedNonce(n),
                             !.pc = "award", !.tx = n, !.todo = Rewards(<<bot.safe, n>>)]
  <2>1. /\ bot'.page = bot.page \ {n} /\ bot'.updated = UpdatedNonce(n)
        /\ bot'.floor = bot.floor /\ bot'.pc = "award" /\ bot'.tx = n
        /\ bot'.safe = bot.safe /\ bot'.astray = bot.astray
    BY <1>7 DEF PaidInv, TypeOK, BotState
  <2> QED
    BY <1>1, <1>3, <1>6, <2>1 DEF PaidInv
<1>8. CASE /\ bot' = [bot EXCEPT !.page = @ \ {n}, !.updated = UpdatedNonce(n)]
           /\ missed' = missed \cup ({<<bot.safe, n>>} \ done)
  <2>1. /\ bot'.page = bot.page \ {n} /\ bot'.updated = UpdatedNonce(n)
        /\ bot'.floor = bot.floor /\ bot'.safe = bot.safe /\ bot'.astray = bot.astray
    BY <1>8 DEF PaidInv, TypeOK, BotState
  <2>2. <<bot.safe, n>> \in Handled'
    BY <1>8 DEF FetchTransaction, Handled
  <2>3. \A t \in Outgoing : t[1] = bot.safe /\ t[2] = n => InHand(t)
    BY <2>2, TransferIsPair
  <2>4. CommandCovers'
    <3> HIDE DEF InHand
    <3> QED
      BY <1>6, <2>1, <2>3
  <2> QED
    BY <1>1, <1>3, <2>4 DEF PaidInv
<1> QED
  BY <1>5, <1>7, <1>8 DEF FetchTransaction, ReturnError

(* Settling a reward handles the transaction, or goes on with it.           *)
LEMMA NextRewardCovers ==
    ASSUME TypeOK, CommandCovers, NextReward, bot.pc \in {"award", "save"},
           UNCHANGED <<missed, foreign, chat>>
    PROVE  CommandCovers' /\ Handled \subseteq Handled'
<1>1. bot \in BotState
  BY DEF TypeOK
<1>2. CASE Len(bot.todo) > 1
  <2>1. /\ bot' = [bot EXCEPT !.pc = "award", !.todo = Tail(@), !.user = Nil, !.held = Unbound]
        /\ done' = done
    BY <1>2 DEF NextReward
  <2>2. /\ bot'.page = bot.page /\ bot'.floor = bot.floor /\ bot'.tx = bot.tx
        /\ bot'.updated = bot.updated /\ bot'.pc = "award"
        /\ bot'.safe = bot.safe /\ bot'.astray = bot.astray
    BY <1>1, <2>1 DEF BotState
  <2>3. Handled \subseteq Handled'
    BY <2>1 DEF Handled
  <2> QED
    BY <2>2, <2>3, CommandStays
<1>3. CASE ~(Len(bot.todo) > 1)
  <2>1. /\ bot' = [bot EXCEPT !.pc = "tx", !.todo = <<>>, !.user = Nil, !.held = Unbound]
        /\ done' = done \cup {<<bot.safe, bot.tx>>}
    BY <1>3 DEF NextReward
  <2>2. /\ bot'.page = bot.page /\ bot'.floor = bot.floor
        /\ bot'.updated = bot.updated /\ bot'.pc = "tx"
        /\ bot'.safe = bot.safe /\ bot'.astray = bot.astray
    BY <1>1, <2>1 DEF BotState
  <2>3. Handled \subseteq Handled'
    BY <2>1 DEF Handled
  <2>4. \A t \in Outgoing : t[1] = bot.safe /\ t[2] = bot.tx => t \in Handled'
    BY <2>1, TransferIsPair DEF Handled
  <2> QED
    BY <2>2, <2>3, <2>4, CommandStays
<1> QED
  BY <1>2, <1>3

(* The rewards leave the nonces alone.                                      *)
LEMMA RewardPaid ==
    ASSUME PaidInv, FindSigner \/ SavePoints
    PROVE  PaidInv'
<1>1. TypeOK'
  BY FindSignerOK, SavePointsOK DEF PaidInv
<1>2. UNCHANGED <<chat, reqs, missed, foreign>> /\ bot.pc \in {"award", "save"}
  BY DEF FindSigner, SavePoints
<1>3. CASE NextReward
  <2>1. CommandCovers' /\ Handled \subseteq Handled'
    BY <1>2, <1>3, NextRewardCovers DEF PaidInv
  <2>2. KnownUpTo(chat.safe, chat.nonce)'
    BY <1>2, <2>1, KnownStays
  <2> QED
    BY <1>1, <2>1, <2>2 DEF PaidInv
<1>4. ASSUME NEW u \in Users, done' = done,
             bot' = [bot EXCEPT !.pc = "save", !.user = u, !.held = row[u]]
      PROVE  PaidInv'
  <2>1. /\ bot'.page = bot.page /\ bot'.floor = bot.floor /\ bot'.tx = bot.tx
        /\ bot'.updated = bot.updated /\ bot'.pc = "save"
        /\ bot'.safe = bot.safe /\ bot'.astray = bot.astray
    BY <1>4 DEF PaidInv, TypeOK, BotState
  <2>2. Handled \subseteq Handled'
    BY <1>2, <1>4 DEF Handled
  <2>3. CommandCovers'
    BY <1>2, <2>1, <2>2, CommandStays DEF PaidInv
  <2>4. KnownUpTo(chat.safe, chat.nonce)'
    BY <1>2, <2>2, KnownStays
  <2> QED
    BY <1>1, <2>3, <2>4 DEF PaidInv
<1> QED
  BY <1>3, <1>4 DEF FindSigner, SavePoints

(* When the page is done with, all up to the new nonce is handled, or now   *)
(* foreign.                                                                 *)
LEMMA UpdateNoncePaid ==
    ASSUME PaidInv, UpdateLastConfirmedNonce
    PROVE  PaidInv'
<1>1. TypeOK'
  BY UpdateNonceOK DEF PaidInv
<1>2. Handled \subseteq Handled' /\ bot.pc = "tx" /\ bot.page = {}
  BY DEF UpdateLastConfirmedNonce, Handled
<1>3. CommandCovers'
  BY IdleCovers DEF UpdateLastConfirmedNonce
<1>4. chat'.safe = chat.safe /\ (chat'.nonce = bot.updated \/ chat' = chat)
  BY DEF UpdateLastConfirmedNonce, PaidInv, TypeOK, ChatRow
<1>5. \A t \in Outgoing : t[1] = chat.safe /\ t[2] \in 1 .. bot.updated => t \in Handled'
  <2>1. CASE bot.astray
    BY <2>1 DEF UpdateLastConfirmedNonce, Unpaid, Handled
  <2>2. CASE ~bot.astray
    <3>1. chat.safe = bot.safe /\ CoveredUpTo(bot.updated)
      BY <1>2, <2>2 DEF PaidInv, CommandCovers
    <3> QED
      BY <1>2, <3>1 DEF CoveredUpTo
  <2> QED
    BY <2>1, <2>2
<1>6. KnownUpTo(chat.safe, chat.nonce)'
  BY <1>2, <1>4, <1>5 DEF PaidInv, KnownUpTo
<1> QED
  BY <1>1, <1>3, <1>6 DEF PaidInv

(* A step that changes neither the chat nor the command, nor what was       *)
(* handled.                                                                 *)
LEMMA OthersPaid ==
    ASSUME PaidInv, TypeOK', Handled' = Handled, UNCHANGED <<chat, bot>>
    PROVE  PaidInv'
BY DEF PaidInv, CommandCovers, KnownUpTo, CoveredUpTo

(* AddSigner and the first half of LinkSafe have nothing to do with the     *)
(* nonces.                                                                  *)
LEMMA BindingPaid ==
    ASSUME PaidInv, NEW r \in Reqs,
           \/ \E u \in Users, a \in Addrs : FindBinding(r, u, a)
           \/ SaveBinding(r)
           \/ \E s \in Safes : QueryChat(r, s)
    PROVE  PaidInv'
<1>1. TypeOK'
  BY FindBindingOK, SaveBindingOK, QueryChatOK DEF PaidInv
<1>2. Handled' = Handled /\ UNCHANGED <<chat, bot>>
  BY DEF FindBinding, SaveBinding, QueryChat, Handled, history
<1> QED
  BY <1>1, <1>2, OthersPaid

(* LinkSafe writes a nonce that was another Safe's; what it passes is       *)
(* foreign.                                                                 *)
LEMMA LinkPaid ==
    ASSUME PaidInv, NEW r \in Reqs, SaveChat(r)
    PROVE  PaidInv'
<1> DEFINE q == reqs[r]
           saved == q.seen.safe # q.to
<1>1. TypeOK'
  BY SaveChatOK DEF PaidInv
<1>2. q.seen \in ChatRow
  BY RequestRead, TypeParts DEF SaveChat, PaidInv
<1>3. Handled \subseteq Handled'
  BY DEF SaveChat, Handled
<1>4. KnownUpTo(chat.safe, chat.nonce)'
  <2>1. CASE saved
    <3>1. chat'.safe = q.to /\ chat'.nonce = q.seen.nonce
      BY <1>2, <2>1 DEF SaveChat, ChatRow
    <3>2. \A t \in Outgoing : t[1] = q.to /\ t[2] \in 1 .. q.seen.nonce => t \in Handled'
      BY <2>1 DEF SaveChat, Unpaid, Handled
    <3> QED
      BY <3>1, <3>2 DEF KnownUpTo
  <2>2. CASE ~saved
    BY <1>3, <2>2, KnownStays DEF SaveChat
  <2> QED
    BY <2>1, <2>2
<1>5. CommandCovers'
  <2>1. /\ bot'.page = bot.page /\ bot'.floor = bot.floor /\ bot'.tx = bot.tx
        /\ bot'.updated = bot.updated /\ bot'.pc = bot.pc /\ bot'.safe = bot.safe
        /\ bot'.astray = (bot.astray \/ (bot.pc # "idle" /\ chat'.safe # bot.safe))
    BY DEF SaveChat, PaidInv, TypeOK, BotState
  <2> SUFFICES ASSUME bot.pc # "idle", ~bot.astray, chat'.safe = bot.safe
               PROVE  CommandCovers'
    BY <2>1 DEF CommandCovers
  <2>2. ASSUME NEW k, CoveredUpTo(k) PROVE CoveredUpTo(k)'
    BY <1>3, <2>1, <2>2 DEF CoveredUpTo
  <2>3. ASSUME KnownUpTo(bot.safe, bot.floor) PROVE KnownUpTo(bot.safe, bot.floor)'
    BY <1>3, <2>1, <2>3 DEF KnownUpTo
  <2> QED
    BY <2>1, <2>2, <2>3 DEF PaidInv, CommandCovers, KnownUpTo, CoveredUpTo
<1> QED
  BY <1>1, <1>4, <1>5 DEF PaidInv

(* The owners and a crash take nothing back.                                *)
LEMMA EnvironmentPaid ==
    ASSUME PaidInv, (\E s \in Safes : Execute(s)) \/ Crash
    PROVE  PaidInv'
<1>1. TypeOK'
  BY EnvironmentOK DEF PaidInv
<1>2. Handled' = Handled /\ chat' = chat
  BY DEF Execute, Crash, Handled, history
<1>3. CASE Crash
  <2>1. KnownUpTo(chat.safe, chat.nonce)'
    BY <1>2, KnownStays
  <2> QED
    BY <1>1, <1>3, <2>1, IdleCovers DEF Crash, PaidInv
<1>4. CASE \E s \in Safes : Execute(s)
  BY <1>1, <1>2, <1>4, OthersPaid DEF Execute
<1> QED
  BY <1>3, <1>4

(* PaidInv is inductive, however often a chat is relinked.                  *)
LEMMA NextPaidInv == PaidInv /\ [Next]_vars => PaidInv'
<1> SUFFICES ASSUME PaidInv, [Next]_vars PROVE PaidInv'
  OBVIOUS
<1>1. CASE UNCHANGED vars
  <2>1. TypeOK'
    BY NextTypeOK DEF PaidInv
  <2>2. Handled' = Handled /\ UNCHANGED <<chat, bot>>
    BY <1>1 DEF vars, history, Handled
  <2> QED
    BY <2>1, <2>2, OthersPaid
<1>2. CASE Bot
  BY <1>2, FetchHistoryPaid, ReadNoncePaid, SkipTransactionPaid, FetchTransactionPaid,
     RewardPaid, UpdateNoncePaid DEF Bot
<1>3. ASSUME NEW r \in Reqs, Http(r) PROVE PaidInv'
  BY <1>3, BindingPaid, LinkPaid DEF Http
<1> QED
  BY <1>1, <1>2, <1>3, EnvironmentPaid DEF Next

LEMMA InitPaidInv == Init => PaidInv
<1> SUFFICES ASSUME Init PROVE PaidInv
  OBVIOUS
<1>1. chat.nonce = 0 /\ bot.pc = "idle"
  BY DEF Init, IdleBot
<1> QED
  BY <1>1, InitTypeOK DEF PaidInv, CommandCovers, KnownUpTo

(* No outgoing transfer of its Safe that the chat's nonce has passed goes   *)
(* unrewarded, in whichever order crashes, failures, relinks, stale writes  *)
(* and new transactions come, but for those the page or the service has     *)
(* withheld and those another Safe's nonce has passed.                      *)
THEOREM NoTransferSkipped == Spec => []NoneSkipped
<1>1. PaidInv => NoneSkipped
  BY DEF PaidInv, KnownUpTo, Handled, NoneSkipped
<1> QED
  BY <1>1, InitPaidInv, NextPaidInv, PTL DEF Spec

-----------------------------------------------------------------------------
(* A chat that is never relinked *)

(* The chat is linked to the same Safe whenever it is linked.               *)
OneSafe == \A s, t \in Safes : s = t

(* Nothing is foreign: a nonce that is not 0 is of the one Safe, a command  *)
(* is astray only if it began before the chat had a Safe, and then it finds *)
(* no transaction.                                                          *)
HomeInv ==
    /\ foreign = {}
    /\ chat.safe = Nil => chat.nonce = 0
    /\ \A r \in Reqs : reqs[r].pc = "link" /\ reqs[r].seen.safe = Nil => reqs[r].seen.nonce = 0
    /\ bot.safe # Nil => chat.safe # Nil
    /\ bot.astray => bot.safe = Nil
    /\ bot.safe = Nil => bot.updated = 0

LEMMA UnpaidOfNone ==
    ASSUME NEW s
    PROVE  Unpaid(s, 0) = {}
BY TransferIsPair DEF Unpaid

LEMMA HomeBot == ASSUME OneSafe, TypeOK, HomeInv, Bot PROVE HomeInv'
<1>1. bot \in BotState /\ chat \in ChatRow /\ Nil \notin Safes
  BY LeaderboardAssumption DEF TypeOK
<1>2. reqs' = reqs
  BY DEF Bot, FetchHistory, GetCurrentLastConfirmedNonce, SkipTransaction, FetchTransaction,
         FindSigner, SavePoints, UpdateLastConfirmedNonce
<1>3. ASSUME foreign' = foreign, chat' = chat, bot'.safe = bot.safe, bot'.astray = bot.astray,
             bot'.updated = bot.updated \/ bot.safe # Nil
      PROVE  HomeInv'
  BY <1>2, <1>3 DEF HomeInv
<1>4. ASSUME foreign' = foreign, chat'.safe = chat.safe, chat'.nonce = chat.nonce \/ chat.safe # Nil,
             bot' = IdleBot
      PROVE  HomeInv'
  BY <1>2, <1>4 DEF HomeInv, IdleBot
<1>5. CASE FetchHistory
  <2>1. foreign' = foreign /\ chat' = chat
    BY <1>5 DEF FetchHistory
  <2>2. bot'.safe = chat.safe /\ bot'.astray = FALSE /\ bot'.updated = 0
    BY <1>5 DEF FetchHistory, IdleBot
  <2> QED
    BY <1>2, <2>1, <2>2 DEF HomeInv
<1>6. CASE GetCurrentLastConfirmedNonce
  BY <1>1, <1>3, <1>6 DEF GetCurrentLastConfirmedNonce, history, BotState
<1>7. ASSUME NEW n \in Newest, SkipTransaction(n) PROVE HomeInv'
  BY <1>1, <1>3, <1>7 DEF SkipTransaction, history, BotState
<1>8. ASSUME NEW n \in Newest, FetchTransaction(n) PROVE HomeInv'
  <2>1. bot.safe # Nil
    BY <1>1, <1>8 DEF Newest, TypeOK
  <2>2. foreign' = foreign /\ chat' = chat
    BY <1>8 DEF FetchTransaction
  <2>3. CASE bot' = IdleBot
    BY <1>4, <2>2, <2>3
  <2>4. CASE bot'.safe = bot.safe /\ bot'.astray = bot.astray
    BY <1>3, <2>1, <2>2, <2>4
  <2> QED
    BY <1>1, <1>8, <2>3, <2>4 DEF FetchTransaction, ReturnError, BotState
<1>9. CASE FindSigner \/ SavePoints
  <2>1. foreign' = foreign /\ chat' = chat
    BY <1>9 DEF FindSigner, SavePoints
  <2>2. bot'.safe = bot.safe /\ bot'.astray = bot.astray /\ bot'.updated = bot.updated
    BY <1>1, <1>9 DEF FindSigner, SavePoints, NextReward, BotState
  <2> QED
    BY <1>3, <2>1, <2>2
<1>10. CASE UpdateLastConfirmedNonce
  <2>1. foreign' = foreign
    <3>1. CASE bot.astray
      <4>1. bot.updated = 0
        BY <3>1 DEF HomeInv
      <4> QED
        BY <1>10, <3>1, <4>1, UnpaidOfNone DEF UpdateLastConfirmedNonce
    <3>2. CASE ~bot.astray
      BY <1>10, <3>2 DEF UpdateLastConfirmedNonce
    <3> QED
      BY <3>1, <3>2
  <2>2. /\ bot' = IdleBot /\ chat'.safe = chat.safe
        /\ chat'.nonce = chat.nonce \/ bot.updated # 0
    BY <1>1, <1>10 DEF UpdateLastConfirmedNonce, ChatRow
  <2> QED
    BY <1>4, <2>1, <2>2 DEF HomeInv
<1> QED
  BY <1>5, <1>6, <1>7, <1>8, <1>9, <1>10 DEF Bot

LEMMA HomeHttp ==
    ASSUME OneSafe, TypeOK, HomeInv, NEW r \in Reqs, Http(r)
    PROVE  HomeInv'
<1>1. bot \in BotState /\ chat \in ChatRow /\ Nil \notin Safes
  BY LeaderboardAssumption DEF TypeOK
<1>2. ASSUME \/ \E u \in Users, a \in Addrs : FindBinding(r, u, a)
             \/ SaveBinding(r)
      PROVE  HomeInv'
  <2>1. UNCHANGED <<foreign, chat, bot>>
    BY <1>2 DEF FindBinding, SaveBinding, history
  <2>2. ASSUME NEW q \in Reqs, reqs'[q].pc = "link" PROVE reqs[q] = reqs'[q]
    BY <1>2, <2>2 DEF FindBinding, SaveBinding, IdleReq, TypeOK
  <2> QED
    BY <2>1, <2>2 DEF HomeInv
<1>3. ASSUME NEW s \in Safes, QueryChat(r, s) PROVE HomeInv'
  <2>1. UNCHANGED <<foreign, chat, bot>>
    BY <1>3 DEF QueryChat, history
  <2>2. ASSUME NEW q \in Reqs, reqs'[q].pc = "link"
        PROVE  reqs[q] = reqs'[q] \/ reqs'[q].seen = chat
    BY <1>3, <2>2 DEF QueryChat, TypeOK
  <2> QED
    BY <2>1, <2>2 DEF HomeInv
<1>4. CASE SaveChat(r)
  <2> DEFINE q == reqs[r]
             saved == q.seen.safe # q.to
  <2>1. q.pc = "link" /\ q.to \in Safes /\ q.seen \in ChatRow
    BY <1>4, RequestRead, TypeParts DEF SaveChat
  <2>2. ASSUME NEW p \in Reqs, reqs'[p].pc = "link" PROVE reqs[p] = reqs'[p]
    BY <1>4, <2>2 DEF SaveChat, IdleReq, TypeOK
  <2>3. /\ bot'.updated = bot.updated /\ bot'.safe = bot.safe
        /\ bot'.astray = (bot.astray \/ (bot.pc # "idle" /\ chat'.safe # bot.safe))
    BY <1>1, <1>4 DEF SaveChat, BotState
  <2>4. CASE saved
    <3>1. q.seen.safe = Nil /\ q.seen.nonce = 0
      BY <2>1, <2>4 DEF OneSafe, ChatRow, HomeInv
    <3>2. foreign' = {} /\ chat'.safe = q.to
      BY <1>4, <2>1, <2>4, <3>1, UnpaidOfNone DEF SaveChat, HomeInv, ChatRow
    <3>3. chat'.safe # Nil /\ (bot.safe # Nil => chat'.safe = bot.safe)
      BY <1>1, <2>1, <3>2 DEF OneSafe, BotState
    <3> QED
      BY <2>2, <2>3, <3>2, <3>3 DEF HomeInv
  <2>5. CASE ~saved
    <3>1. chat' = chat /\ foreign' = foreign
      BY <1>4, <2>5 DEF SaveChat, HomeInv
    <3>2. bot.safe # Nil => chat.safe = bot.safe
      BY <1>1 DEF HomeInv, OneSafe, BotState, ChatRow
    <3> QED
      BY <2>2, <2>3, <3>1, <3>2 DEF HomeInv
  <2> QED
    BY <2>4, <2>5
<1> QED
  BY <1>2, <1>3, <1>4 DEF Http

LEMMA NextHomeInv == OneSafe /\ TypeOK /\ HomeInv /\ [Next]_vars => HomeInv'
<1> SUFFICES ASSUME OneSafe, TypeOK, HomeInv, [Next]_vars PROVE HomeInv'
  OBVIOUS
<1>1. CASE UNCHANGED vars
  BY <1>1 DEF vars, history, HomeInv
<1>2. ASSUME NEW s \in Safes, Execute(s) PROVE HomeInv'
  BY <1>2 DEF Execute, history, HomeInv
<1>3. CASE Crash
  BY <1>3 DEF Crash, IdleBot, IdleReq, HomeInv
<1> QED
  BY <1>1, <1>2, <1>3, HomeBot, HomeHttp DEF Next

(* A chat with one Safe has no foreign transfers: all that the nonce has    *)
(* passed was rewarded, or withheld by the page or the service.             *)
THEOREM NoTransferSkippedAtHome ==
    ASSUME OneSafe
    PROVE  Spec => [](NoneSkipped /\ foreign = {})
<1>1. Init => HomeInv
  BY DEF Init, IdleBot, IdleReq, HomeInv
<1>2. HomeInv => foreign = {}
  BY DEF HomeInv
<1>3. OneSafe
  OBVIOUS
<1> QED
  BY <1>1, <1>2, <1>3, LeaderboardTypes, NoTransferSkipped, NextHomeInv, PTL DEF Spec
-----------------------------------------------------------------------------
(* No points are lost without a race *)

(* A row that is held to be written back is still the row in the table, and *)
(* no two requests hold the row of one member.                              *)
RowsInv ==
    /\ TypeOK
    /\ RowsKept
    /\ bot.pc = "save" /\ bot.user \notin raced => bot.held = row[bot.user]
    /\ \A r \in Reqs : reqs[r].pc = "bind" /\ reqs[r].user \notin raced =>
           reqs[r].seen = row[reqs[r].user]
    /\ \A q, r \in Reqs : q # r /\ reqs[q].pc = "bind" /\ reqs[r].pc = "bind" =>
           reqs[q].user # reqs[r].user

(* Settling a reward ends the write that was in hand.                       *)
LEMMA NextRewardEnds ==
    ASSUME BotOK, NextReward
    PROVE  /\ bot'.pc \in {"award", "tx"}
           /\ bot'.page = bot.page /\ bot'.floor = bot.floor
           /\ bot'.updated = bot.updated /\ bot'.safe = bot.safe
<1>1. bot \in BotState
  BY DEF BotOK
<1>2. CASE Len(bot.todo) > 1
  BY <1>1, <1>2 DEF NextReward, BotState
<1>3. CASE ~(Len(bot.todo) > 1)
  BY <1>1, <1>3 DEF NextReward, BotState
<1> QED
  BY <1>2, <1>3

(* UpdatePoints holds the row it found.                                     *)
LEMMA FindSignerRows ==
    ASSUME RowsInv, FindSigner
    PROVE  bot'.pc = "save" => bot'.held = row[bot'.user]
<1>1. BotOK /\ bot \in BotState
  BY TypeParts DEF RowsInv, BotOK
<1>2. CASE NextReward
  BY <1>1, <1>2, NextRewardEnds
<1>3. ASSUME NEW u \in Users, bot' = [bot EXCEPT !.pc = "save", !.user = u, !.held = row[u]]
      PROVE  bot'.held = row[bot'.user]
  BY <1>1, <1>3 DEF BotState
<1> QED
  BY <1>2, <1>3 DEF FindSigner

(* Saving points over a row that nobody else writes adds to what was there. *)
LEMMA SavePointsRows ==
    ASSUME RowsInv, SavePoints
    PROVE  RowsInv'
<1> DEFINE u == bot.user
           p == Head(bot.todo)[2]
<1>1. TypeOK' /\ BotOK /\ HistoryOK /\ RowsOK
  BY SavePointsOK, TypeParts DEF RowsInv
<1>2. bot.pc = "save" /\ u \in Users /\ UNCHANGED reqs /\ raced \subseteq raced'
  BY <1>1 DEF SavePoints, BotOK
<1>3. /\ row' = [row EXCEPT ![u] = [bot.held EXCEPT !.points = @ + p]]
      /\ ledger' = [ledger EXCEPT ![u].points = @ + p]
  BY DEF SavePoints
<1>4. \A r \in Reqs : reqs[r].pc = "bind" /\ reqs[r].user = u => u \in raced'
  BY DEF SavePoints, InFlight
<1>5. \A v \in Users : v # u => row'[v] = row[v] /\ ledger'[v] = ledger[v]
  BY <1>1, <1>2, <1>3 DEF RowsOK, HistoryOK
<1>6. u \notin raced' => row'[u] = ledger'[u]
  <2> SUFFICES ASSUME u \notin raced' PROVE row'[u] = ledger'[u]
    OBVIOUS
  <2>1. bot.held = row[u] /\ row[u] = ledger[u]
    BY <1>2 DEF RowsInv, RowsKept
  <2> QED
    BY <1>1, <1>2, <1>3, <2>1 DEF RowsOK, HistoryOK
<1> HIDE DEF u
<1>7. RowsKept'
  BY <1>2, <1>5, <1>6 DEF RowsInv, RowsKept
<1>8. bot'.pc # "save"
  BY <1>1, NextRewardEnds DEF SavePoints
<1>9. ASSUME NEW r \in Reqs, reqs[r].pc = "bind", reqs[r].user \notin raced'
      PROVE  reqs[r].seen = row'[reqs[r].user]
  <2>1. reqs[r].user \in Users /\ reqs[r].user # u
    BY <1>1, <1>4, <1>9, RequestRead
  <2> QED
    BY <1>2, <1>5, <1>9, <2>1 DEF RowsInv
<1> QED
  BY <1>1, <1>2, <1>7, <1>8, <1>9 DEF RowsInv

(* So does saving an address.                                               *)
LEMMA SaveBindingRows ==
    ASSUME RowsInv, NEW r \in Reqs, SaveBinding(r)
    PROVE  RowsInv'
<1> DEFINE u == reqs[r].user
           a == reqs[r].to
<1>1. TypeOK' /\ BotOK /\ HistoryOK /\ RowsOK
  BY SaveBindingOK, TypeParts DEF RowsInv
<1>2. /\ reqs[r].pc = "bind" /\ u \in Users /\ UNCHANGED bot
      /\ raced' = raced \cup ({bot.user} \cap {u})
  BY <1>1, RequestRead DEF SaveBinding
<1>3. /\ row' = [row EXCEPT ![u] = [reqs[r].seen EXCEPT !.addr = a]]
      /\ ledger' = [ledger EXCEPT ![u].addr = a]
      /\ reqs' = [reqs EXCEPT ![r] = IdleReq]
  BY DEF SaveBinding, RowWith
<1>4. \A v \in Users : v # u => row'[v] = row[v] /\ ledger'[v] = ledger[v]
  BY <1>1, <1>2, <1>3 DEF RowsOK, HistoryOK
<1>5. u \notin raced' => row'[u] = ledger'[u]
  <2> SUFFICES ASSUME u \notin raced' PROVE row'[u] = ledger'[u]
    OBVIOUS
  <2>1. reqs[r].seen = row[u] /\ row[u] = ledger[u]
    BY <1>2 DEF RowsInv, RowsKept
  <2> QED
    BY <1>1, <1>2, <1>3, <2>1 DEF RowsOK, HistoryOK
<1>6. ASSUME NEW q \in Reqs, reqs'[q].pc = "bind"
      PROVE  q # r /\ reqs'[q] = reqs[q] /\ reqs[q].user \in Users \ {u}
  <2>1. q # r /\ reqs'[q] = reqs[q]
    BY <1>1, <1>3, <1>6 DEF RowsOK, IdleReq
  <2> QED
    BY <1>1, <1>2, <1>6, <2>1, RequestRead DEF RowsInv
<1> HIDE DEF u
<1>7. RowsKept'
  BY <1>2, <1>4, <1>5 DEF RowsInv, RowsKept
<1>8. ASSUME bot.pc = "save", bot.user \notin raced' PROVE bot.held = row'[bot.user]
  <2>1. bot.user \in Users /\ bot.user # u /\ bot.user \notin raced
    BY <1>1, <1>2, <1>8 DEF BotOK
  <2> QED
    BY <1>4, <1>8, <2>1 DEF RowsInv
<1>9. ASSUME NEW q \in Reqs, reqs'[q].pc = "bind", reqs'[q].user \notin raced'
      PROVE  reqs'[q].seen = row'[reqs'[q].user]
  BY <1>2, <1>4, <1>6, <1>9 DEF RowsInv
<1>10. ASSUME NEW q1 \in Reqs, NEW q2 \in Reqs, q1 # q2,
              reqs'[q1].pc = "bind", reqs'[q2].pc = "bind"
       PROVE  reqs'[q1].user # reqs'[q2].user
  BY <1>6, <1>10 DEF RowsInv
<1> QED
  BY <1>1, <1>2, <1>7, <1>8, <1>9, <1>10 DEF RowsInv

(* A request begins to hold the row of a member no other request holds.     *)
LEMMA FindBindingRows ==
    ASSUME RowsInv, NEW r \in Reqs, NEW u \in Users, NEW a \in Addrs, FindBinding(r, u, a)
    PROVE  RowsInv'
<1>1. TypeOK' /\ RowsOK
  BY FindBindingOK, TypeParts DEF RowsInv
<1>2. /\ reqs' = [reqs EXCEPT ![r] = [pc |-> "bind", user |-> u, to |-> a, seen |-> row[u]]]
      /\ UNCHANGED <<row, ledger, raced, bot>>
  BY DEF FindBinding, history
<1>3. \A q \in Reqs : IF q = r THEN reqs'[q].seen = row[u] /\ reqs'[q].user = u
                      ELSE reqs'[q] = reqs[q]
  BY <1>1, <1>2 DEF RowsOK
<1>4. \A q \in Reqs : reqs[q].pc = "bind" => reqs[q].user # u
  BY DEF FindBinding, InFlight
<1> QED
  BY <1>1, <1>2, <1>3, <1>4 DEF RowsInv, RowsKept

(* A request for a link is none for an address.                             *)
LEMMA LinkRows ==
    ASSUME RowsInv, NEW r \in Reqs,
           (\E s \in Safes : QueryChat(r, s)) \/ SaveChat(r)
    PROVE  RowsInv'
<1>1. TypeOK' /\ BotOK /\ RowsOK
  BY QueryChatOK, SaveChatOK, TypeParts DEF RowsInv
<1>2. UNCHANGED <<row, ledger, raced>>
  BY DEF QueryChat, SaveChat, history
<1>3. \A q \in Reqs : reqs'[q].pc = "bind" => reqs'[q] = reqs[q]
  <2>1. ASSUME NEW s \in Safes, QueryChat(r, s)
        PROVE  \A q \in Reqs : reqs'[q].pc = "bind" => reqs'[q] = reqs[q]
    BY <1>1, <2>1 DEF QueryChat, RowsOK
  <2>2. ASSUME SaveChat(r)
        PROVE  \A q \in Reqs : reqs'[q].pc = "bind" => reqs'[q] = reqs[q]
    BY <1>1, <2>2 DEF SaveChat, RowsOK, IdleReq
  <2> QED
    BY <2>1, <2>2
<1>4. bot'.pc = bot.pc /\ bot'.user = bot.user /\ bot'.held = bot.held
  <2>1. ASSUME NEW s \in Safes, QueryChat(r, s) PROVE bot' = bot
    BY <2>1 DEF QueryChat
  <2>2. ASSUME SaveChat(r)
        PROVE  bot'.pc = bot.pc /\ bot'.user = bot.user /\ bot'.held = bot.held
    BY <1>1, <2>2 DEF SaveChat, BotOK, BotState
  <2> QED
    BY <2>1, <2>2
<1> QED
  BY <1>1, <1>2, <1>3, <1>4 DEF RowsInv, RowsKept

(* A step that writes no row and begins no write.                           *)
LEMMA NoWriteRows ==
    ASSUME RowsInv, TypeOK', UNCHANGED <<row, ledger, raced, reqs>>,
           bot'.pc = "save" => bot'.held = row[bot'.user]
    PROVE  RowsInv'
BY DEF RowsInv, RowsKept

(* Every step keeps the rows.                                               *)
LEMMA NextRowsInv == RowsInv /\ [Next]_vars => RowsInv'
<1> SUFFICES ASSUME RowsInv, [Next]_vars PROVE RowsInv'
  OBVIOUS
<1>1. TypeOK' /\ BotOK /\ RowsOK
  BY NextTypeOK, TypeParts DEF RowsInv
<1>2. CASE UNCHANGED vars
  BY <1>1, <1>2 DEF vars, history, RowsInv, RowsKept
<1>3. CASE FetchHistory
  <2>1. bot'.pc = "nonce"
    BY <1>3 DEF FetchHistory, IdleBot
  <2> QED
    BY <1>1, <1>3, <2>1, NoWriteRows DEF FetchHistory
<1>4. CASE GetCurrentLastConfirmedNonce
  <2>1. bot'.pc = "tx"
    BY <1>1, <1>4 DEF GetCurrentLastConfirmedNonce, BotOK, BotState
  <2> QED
    BY <1>1, <1>4, <2>1, NoWriteRows DEF GetCurrentLastConfirmedNonce, history
<1>5. ASSUME NEW n \in Newest, SkipTransaction(n) PROVE RowsInv'
  <2>1. bot'.pc = "tx"
    BY <1>1, <1>5 DEF SkipTransaction, BotOK, BotState
  <2> QED
    BY <1>1, <1>5, <2>1, NoWriteRows DEF SkipTransaction, history
<1>6. ASSUME NEW n \in Newest, FetchTransaction(n) PROVE RowsInv'
  <2> DEFINE rest == bot.page \ {n}
             nonce == UpdatedNonce(n)
             rewards == Rewards(<<bot.safe, n>>)
  <2>1. bot'.pc # "save"
    <3>1. bot \in BotState /\ bot.pc = "tx"
      BY <1>1, <1>6 DEF BotOK, FetchTransaction
    <3>2. \/ bot' = [bot EXCEPT !.page = rest, !.updated = nonce, !.pc = "award",
                               !.tx = n, !.todo = rewards]
          \/ bot' = [bot EXCEPT !.page = rest, !.updated = nonce]
          \/ bot' = IdleBot
      BY <1>6 DEF FetchTransaction, ReturnError
    <3> HIDE DEF rest, nonce, rewards
    <3>3. CASE bot' = [bot EXCEPT !.page = rest, !.updated = nonce, !.pc = "award",
                                  !.tx = n, !.todo = rewards]
      BY <3>1, <3>3 DEF BotState
    <3>4. CASE bot' = [bot EXCEPT !.page = rest, !.updated = nonce]
      BY <3>1, <3>4 DEF BotState
    <3>5. CASE bot' = IdleBot
      BY <3>5 DEF IdleBot
    <3> QED
      BY <3>2, <3>3, <3>4, <3>5
  <2> QED
    BY <1>1, <1>6, <2>1, NoWriteRows DEF FetchTransaction
<1>7. CASE FindSigner
  BY <1>1, <1>7, FindSignerRows, NoWriteRows DEF FindSigner
<1>8. CASE SavePoints
  BY <1>8, SavePointsRows
<1>9. CASE UpdateLastConfirmedNonce
  <2>1. bot'.pc = "idle"
    BY <1>9 DEF UpdateLastConfirmedNonce, IdleBot
  <2> QED
    BY <1>1, <1>9, <2>1, NoWriteRows DEF UpdateLastConfirmedNonce
<1>10. ASSUME NEW r \in Reqs, Http(r) PROVE RowsInv'
  BY <1>10, FindBindingRows, SaveBindingRows, LinkRows DEF Http
<1>11. CASE Crash
  <2>1. bot'.pc = "idle" /\ \A r \in Reqs : reqs'[r].pc = "idle"
    BY <1>11 DEF Crash, IdleBot, IdleReq
  <2> QED
    BY <1>1, <1>11, <2>1 DEF Crash, RowsInv, RowsKept
<1>12. ASSUME NEW s \in Safes, Execute(s) PROVE RowsInv'
  BY <1>1, <1>12 DEF Execute, history, RowsInv, RowsKept
<1> QED
  BY <1>2, <1>3, <1>4, <1>5, <1>6, <1>7, <1>8, <1>9, <1>10, <1>11, <1>12 DEF Next, Bot

(* Points and addresses are lost only when UpdatePoints (verifier.go:47)    *)
(* and AddSigner (setup.go:75) write the row of one member at one time.     *)
THEOREM RowsAreKept == Spec => []RowsKept
<1>1. Init => RowsInv
  <2> SUFFICES ASSUME Init PROVE RowsInv
    OBVIOUS
  <2>1. bot.pc = "idle" /\ \A r \in Reqs : reqs[r].pc = "idle"
    BY DEF Init, IdleBot, IdleReq
  <2> QED
    BY <2>1, InitTypeOK DEF Init, RowsInv, RowsKept
<1>2. RowsInv => RowsKept
  BY DEF RowsInv
<1> QED
  BY <1>1, <1>2, NextRowsInv, PTL DEF Spec

-----------------------------------------------------------------------------
(* No transfer is rewarded twice without a cause *)

Paying == bot.pc \in {"tx", "award", "save"}

(* The nonce the command is going to write is above its floor and above all *)
(* that it has not come to yet.                                             *)
AheadInv ==
    /\ bot.pc = "nonce" => bot.updated = 0
    /\ Paying /\ bot.updated # 0 =>
           bot.updated > bot.floor /\ \A m \in bot.page : m < bot.updated

(* The command will not begin t again, and its nonce will pass t.           *)
InCommand(t) ==
    Paying /\ bot.updated >= t[2] /\ (bot.safe = t[1] => t[2] \notin bot.page)

(* The nonce has passed t, as the command knows.                            *)
Passed(t) == chat.nonce >= t[2] /\ (Paying => bot.floor >= t[2])

(* A transfer that was begun as often as may be is not begun again.         *)
OnceInv ==
    /\ TypeOK
    /\ AheadInv
    /\ RewardedAgainOnlyIfUndone
    /\ \A t \in Safes \X Nonces : begun[t] = 1 + undone => InCommand(t) \/ Passed(t)

(* A step that cuts a command short allows one more reward of everything.   *)
LEMMA CutOnce ==
    ASSUME OnceInv, TypeOK', AheadInv', begun' = begun, undone' = undone + 1
    PROVE  OnceInv'
<1>1. undone \in Nat /\ \A t \in Safes \X Nonces : begun[t] \in Nat /\ begun[t] <= 1 + undone
  BY DEF OnceInv, TypeOK, RewardedAgainOnlyIfUndone
<1>2. \A t \in Safes \X Nonces : begun'[t] < 1 + undone'
  BY <1>1
<1>3. \A t \in Safes \X Nonces : begun'[t] <= 1 + undone' /\ begun'[t] # 1 + undone'
  <2> SUFFICES ASSUME NEW t \in Safes \X Nonces
               PROVE  begun'[t] <= 1 + undone' /\ begun'[t] # 1 + undone'
    OBVIOUS
  <2> QED
    BY <1>1
<1> QED
  BY <1>3 DEF OnceInv, RewardedAgainOnlyIfUndone

(* A step that begins nothing and keeps what is in command or passed.       *)
LEMMA StaysOnce ==
    ASSUME OnceInv, TypeOK', AheadInv', begun' = begun, undone' = undone,
           \A t \in Safes \X Nonces : InCommand(t) \/ Passed(t) => InCommand(t)' \/ Passed(t)'
    PROVE  OnceInv'
BY DEF OnceInv, RewardedAgainOnlyIfUndone

(* A step that leaves the nonce and the command's progress alone.           *)
LEMMA SameProgressOnce ==
    ASSUME OnceInv, TypeOK', begun' = begun, undone' = undone, chat'.nonce >= chat.nonce,
           bot'.page = bot.page, bot'.floor = bot.floor,
           bot'.updated = bot.updated, bot'.safe = bot.safe,
           Paying' <=> Paying, bot'.pc = "nonce" <=> bot.pc = "nonce"
    PROVE  OnceInv'
<1>1. AheadInv'
  BY DEF OnceInv, AheadInv
<1>2. chat.nonce \in Nat /\ chat'.nonce \in Nat
  BY DEF OnceInv, TypeOK, ChatRow
<1>3. ASSUME NEW t \in Safes \X Nonces, InCommand(t) \/ Passed(t)
      PROVE  InCommand(t)' \/ Passed(t)'
  <2>1. t[2] \in Nat
    BY DEF Nonces
  <2> QED
    BY <1>2, <1>3, <2>1 DEF InCommand, Passed
<1> QED
  BY <1>1, <1>3, StaysOnce

(* A transaction of the page is passed over.                                *)
LEMMA SkipTransactionOnce ==
    ASSUME OnceInv, NEW n \in Newest, SkipTransaction(n)
    PROVE  OnceInv'
<1>1. TypeOK' /\ bot \in BotState
  BY SkipTransactionOK DEF OnceInv, TypeOK
<1>2. /\ bot'.pc = "tx" /\ bot.pc = "tx" /\ bot'.page = bot.page \ {n}
      /\ bot'.floor = bot.floor /\ bot'.updated = bot.updated /\ bot'.safe = bot.safe
      /\ UNCHANGED <<chat, begun, undone>>
  BY <1>1 DEF SkipTransaction, BotState, history
<1>3. AheadInv'
  BY <1>2 DEF OnceInv, AheadInv, Paying
<1>4. \A t \in Safes \X Nonces : InCommand(t) \/ Passed(t) => InCommand(t)' \/ Passed(t)'
  BY <1>2 DEF InCommand, Passed, Paying
<1> QED
  BY <1>1, <1>2, <1>3, <1>4, StaysOnce

(* The first new transaction of the page sets the nonce, above all others.  *)
LEMMA UpdatedIsAhead ==
    ASSUME OnceInv, NEW n \in Newest, bot.pc = "tx", IsNew(<<bot.safe, n>>)
    PROVE  /\ n \in Nat /\ UpdatedNonce(n) \in Nat /\ UpdatedNonce(n) # 0
           /\ UpdatedNonce(n) > bot.floor /\ n <= UpdatedNonce(n)
           /\ bot.updated <= UpdatedNonce(n)
           /\ \A m \in bot.page \ {n} : m < UpdatedNonce(n)
<1>1. /\ bot.page \subseteq Nonces /\ bot.floor \in Nat /\ bot.updated \in Nat
      /\ n \in bot.page /\ n > bot.floor /\ \A m \in bot.page : m <= n
  BY DEF OnceInv, TypeOK, BotState, Newest, IsNew
<1>2. n \in Nat /\ \A m \in bot.page : m \in Nat
  BY <1>1 DEF Nonces
<1>3. CASE bot.updated = 0
  BY <1>1, <1>2, <1>3 DEF UpdatedNonce
<1>4. CASE bot.updated # 0
  <2>1. bot.updated > bot.floor /\ \A m \in bot.page : m < bot.updated
    BY <1>4 DEF OnceInv, AheadInv, Paying
  <2> QED
    BY <1>1, <1>2, <1>4, <2>1 DEF UpdatedNonce
<1> QED
  BY <1>3, <1>4

(* A new transaction was not begun as often as may be, and is in command    *)
(* afterwards.                                                              *)
LEMMA FetchTransactionOnce ==
    ASSUME OnceInv, NEW n \in Newest, FetchTransaction(n)
    PROVE  OnceInv'
<1> DEFINE t0 == <<bot.safe, n>>
           nonce == UpdatedNonce(n)
<1>1. TypeOK' /\ bot \in BotState
  BY FetchTransactionOK DEF OnceInv, TypeOK
<1>2. /\ bot.pc = "tx" /\ IsNew(t0) /\ UNCHANGED chat /\ t0 \in Safes \X Nonces
      /\ n \in bot.page
  BY LeaderboardAssumption DEF FetchTransaction, IsNew, Newest
<1>3. /\ n \in Nat /\ nonce \in Nat /\ nonce # 0
      /\ nonce > bot.floor /\ n <= nonce /\ bot.updated <= nonce
      /\ \A m \in bot.page \ {n} : m < nonce
  BY <1>2, UpdatedIsAhead
<1>4. undone \in Nat /\ \A t \in Safes \X Nonces : begun[t] \in Nat /\ begun[t] <= 1 + undone
  BY DEF OnceInv, TypeOK, RewardedAgainOnlyIfUndone
<1> HIDE DEF nonce
<1>5. ASSUME bot'.pc \in {"tx", "award"}, bot'.page = bot.page \ {n}, bot'.updated = nonce,
             bot'.floor = bot.floor, bot'.safe = bot.safe
      PROVE  /\ AheadInv'
             /\ InCommand(t0)'
             /\ \A t \in Safes \X Nonces :
                    InCommand(t) \/ Passed(t) => InCommand(t)' \/ Passed(t)'
  <2>1. AheadInv'
    BY <1>3, <1>5 DEF AheadInv, Paying
  <2>2. InCommand(t0)'
    BY <1>3, <1>5 DEF InCommand, Paying
  <2>3. ASSUME NEW t \in Safes \X Nonces, InCommand(t) PROVE InCommand(t)'
    <3>1. t[2] \in Nat /\ bot.updated \in Nat
      BY <1>1 DEF Nonces, BotState
    <3> QED
      BY <1>3, <1>5, <2>3, <3>1 DEF InCommand, Paying
  <2>4. ASSUME NEW t \in Safes \X Nonces, Passed(t) PROVE Passed(t)'
    BY <1>2, <1>5, <2>4 DEF Passed, Paying
  <2> QED
    BY <2>1, <2>2, <2>3, <2>4
<1>6. CASE /\ bot' = [bot EXCEPT !.page = @ \ {n}, !.updated = nonce, !.pc = "award",
                                 !.tx = n, !.todo = Rewards(t0)]
           /\ begun' = [begun EXCEPT ![t0] = @ + 1]
           /\ UNCHANGED <<missed, undone>>
  <2>1. /\ bot'.pc = "award" /\ bot'.page = bot.page \ {n} /\ bot'.updated = nonce
        /\ bot'.floor = bot.floor /\ bot'.safe = bot.safe
    BY <1>1, <1>6 DEF BotState
  <2>2. begun[t0] # 1 + undone
    <3>1. ~InCommand(t0)
      BY <1>2 DEF InCommand
    <3>2. ~Passed(t0)
      <4>1. bot.floor \in Nat /\ n > bot.floor
        BY <1>1, <1>2 DEF BotState, IsNew
      <4> QED
        BY <1>2, <1>3, <4>1 DEF Passed, Paying
    <3> QED
      BY <1>2, <3>1, <3>2 DEF OnceInv
  <2>3. \A t \in Safes \X Nonces : begun'[t] = IF t = t0 THEN begun[t0] + 1 ELSE begun[t]
    BY <1>2, <1>6 DEF OnceInv, TypeOK
  <2>4. \A t \in Safes \X Nonces : begun'[t] <= 1 + undone'
    <3> SUFFICES ASSUME NEW t \in Safes \X Nonces PROVE begun'[t] <= 1 + undone'
      OBVIOUS
    <3>1. undone' = undone /\ begun[t] \in Nat /\ begun[t] <= 1 + undone
      BY <1>4, <1>6
    <3>2. CASE t = t0
      BY <1>4, <2>2, <2>3, <3>1, <3>2
    <3>3. CASE t # t0
      BY <2>3, <3>1, <3>3
    <3> QED
      BY <3>2, <3>3
  <2>5. ASSUME NEW t \in Safes \X Nonces, begun'[t] = 1 + undone'
        PROVE  InCommand(t)' \/ Passed(t)'
    <3>1. CASE t = t0
      BY <1>5, <2>1, <3>1
    <3>2. CASE t # t0
      BY <1>5, <1>6, <2>1, <2>3, <2>5, <3>2 DEF OnceInv
    <3> QED
      BY <3>1, <3>2
  <2> QED
    BY <1>1, <1>5, <2>1, <2>4, <2>5 DEF OnceInv, RewardedAgainOnlyIfUndone
<1>7. CASE /\ bot' = [bot EXCEPT !.page = @ \ {n}, !.updated = nonce]
           /\ missed' = missed \cup ({t0} \ done)
           /\ UNCHANGED <<begun, undone>>
  <2>1. /\ bot'.pc = "tx" /\ bot'.page = bot.page \ {n} /\ bot'.updated = nonce
        /\ bot'.floor = bot.floor /\ bot'.safe = bot.safe
    BY <1>1, <1>2, <1>7 DEF BotState
  <2> QED
    BY <1>1, <1>5, <1>7, <2>1, StaysOnce
<1>8. CASE /\ bot' = IdleBot
           /\ undone' = undone + 1
           /\ UNCHANGED <<begun, missed>>
  <2>1. AheadInv'
    BY <1>8 DEF AheadInv, IdleBot, Paying
  <2> QED
    BY <1>1, <1>8, <2>1, CutOnce
<1> QED
  BY <1>6, <1>7, <1>8 DEF FetchTransaction, ReturnError, nonce

(* What the command has begun or passed is below the nonce that it writes.  *)
LEMMA UpdateNonceOnce ==
    ASSUME OnceInv, UpdateLastConfirmedNonce
    PROVE  OnceInv'
<1>1. TypeOK' /\ bot \in BotState /\ chat \in ChatRow
  BY UpdateNonceOK DEF OnceInv, TypeOK
<1>2. bot.pc = "tx" /\ bot' = IdleBot /\ UNCHANGED <<begun, undone>>
  BY DEF UpdateLastConfirmedNonce
<1>3. AheadInv' /\ ~Paying'
  BY <1>2 DEF AheadInv, IdleBot, Paying
<1>4. ASSUME NEW t \in Safes \X Nonces, InCommand(t) \/ Passed(t)
      PROVE  chat'.nonce >= t[2]
  <2>1. /\ t[2] \in Nat /\ bot.updated \in Nat /\ bot.floor \in Nat
        /\ chat.nonce \in Nat
    BY <1>1 DEF BotState, ChatRow, Nonces
  <2>2. CASE bot.updated = 0
    <3>1. chat' = chat
      BY <2>2 DEF UpdateLastConfirmedNonce
    <3> QED
      BY <1>4, <2>1, <2>2, <3>1 DEF InCommand, Passed
  <2>3. CASE bot.updated # 0
    <3>1. chat'.nonce = bot.updated
      BY <1>1, <2>3 DEF UpdateLastConfirmedNonce, ChatRow
    <3>2. bot.updated > bot.floor
      BY <1>2, <2>3 DEF OnceInv, AheadInv, Paying
    <3> QED
      BY <1>2, <1>4, <2>1, <3>1, <3>2 DEF InCommand, Passed, Paying
  <2> QED
    BY <2>2, <2>3
<1> QED
  BY <1>1, <1>2, <1>3, <1>4, StaysOnce DEF Passed

(* The steps of the command.                                                *)
LEMMA BotOnce ==
    ASSUME OnceInv, Bot
    PROVE  OnceInv'
<1>1. TypeOK' /\ BotOK /\ bot \in BotState /\ chat \in ChatRow
  <2>1. TypeOK'
    BY NextTypeOK DEF OnceInv, Next
  <2> QED
    BY <2>1, TypeParts DEF OnceInv, TypeOK
<1>2. CASE FetchHistory
  <2>1. bot.pc = "idle" /\ bot'.pc = "nonce" /\ bot'.updated = 0
    BY <1>2 DEF FetchHistory, IdleBot
  <2>2. AheadInv'
    BY <2>1 DEF AheadInv, Paying
  <2>3. \A t \in Safes \X Nonces : InCommand(t) \/ Passed(t) => InCommand(t)' \/ Passed(t)'
    BY <1>2, <2>1 DEF FetchHistory, InCommand, Passed, Paying
  <2> QED
    BY <1>1, <1>2, <2>2, <2>3, StaysOnce DEF FetchHistory
<1>3. CASE GetCurrentLastConfirmedNonce
  <2>1. /\ bot.pc = "nonce" /\ bot'.pc = "tx" /\ bot'.floor = chat.nonce
        /\ bot'.updated = bot.updated /\ UNCHANGED <<chat, begun, undone>>
    BY <1>1, <1>3 DEF GetCurrentLastConfirmedNonce, BotState, history
  <2>2. AheadInv'
    BY <2>1 DEF OnceInv, AheadInv
  <2>3. \A t \in Safes \X Nonces : InCommand(t) \/ Passed(t) => InCommand(t)' \/ Passed(t)'
    BY <2>1 DEF InCommand, Passed, Paying
  <2> QED
    BY <1>1, <2>1, <2>2, <2>3, StaysOnce
<1>4. CASE FindSigner \/ SavePoints
  <2>1. UNCHANGED <<chat, begun, undone>> /\ bot.pc \in {"award", "save"}
    BY <1>4 DEF FindSigner, SavePoints
  <2>2. /\ bot'.pc \in {"tx", "award", "save"} /\ bot'.page = bot.page
        /\ bot'.floor = bot.floor /\ bot'.updated = bot.updated /\ bot'.safe = bot.safe
    <3>1. CASE NextReward
      BY <1>1, <3>1, NextRewardEnds
    <3>2. ASSUME NEW u \in Users,
                 bot' = [bot EXCEPT !.pc = "save", !.user = u, !.held = row[u]]
          PROVE  /\ bot'.pc = "save" /\ bot'.page = bot.page
                 /\ bot'.floor = bot.floor /\ bot'.updated = bot.updated
                 /\ bot'.safe = bot.safe
      BY <1>1, <3>2 DEF BotState
    <3> QED
      BY <1>4, <3>1, <3>2 DEF FindSigner, SavePoints
  <2>3. chat'.nonce >= chat.nonce
    BY <1>1, <2>1 DEF ChatRow
  <2> QED
    BY <1>1, <2>1, <2>2, <2>3, SameProgressOnce DEF Paying
<1> QED
  BY <1>2, <1>3, <1>4, SkipTransactionOnce, FetchTransactionOnce, UpdateNonceOnce DEF Bot

(* The requests, of which LinkSafe may write an old nonce back.             *)
LEMMA HttpOnce ==
    ASSUME OnceInv, NEW r \in Reqs, Http(r)
    PROVE  OnceInv'
<1>1. TypeOK' /\ bot \in BotState /\ chat \in ChatRow /\ chat' \in ChatRow
  <2>1. TypeOK'
    BY NextTypeOK DEF OnceInv, Next
  <2> QED
    BY <2>1 DEF OnceInv, TypeOK
<1>2. CASE SaveChat(r)
  <2>1. /\ bot'.page = bot.page /\ bot'.floor = bot.floor /\ bot'.pc = bot.pc
        /\ bot'.updated = bot.updated /\ bot'.safe = bot.safe /\ begun' = begun
    BY <1>1, <1>2 DEF SaveChat, BotState
  <2>2. chat.nonce \in Nat /\ chat'.nonce \in Nat
    BY <1>1 DEF ChatRow
  <2>3. CASE chat'.nonce < chat.nonce
    <3>1. undone' = undone + 1
      BY <1>2, <2>3 DEF SaveChat
    <3>2. AheadInv'
      BY <2>1 DEF OnceInv, AheadInv, Paying
    <3> QED
      BY <1>1, <2>1, <3>1, <3>2, CutOnce
  <2>4. CASE ~(chat'.nonce < chat.nonce)
    <3>1. undone' = undone /\ chat'.nonce >= chat.nonce
      BY <1>2, <2>2, <2>4 DEF SaveChat
    <3> QED
      BY <1>1, <2>1, <3>1, SameProgressOnce DEF Paying
  <2> QED
    BY <2>3, <2>4
<1>3. CASE \/ \E u \in Users, a \in Addrs : FindBinding(r, u, a)
           \/ \E s \in Safes : QueryChat(r, s)
           \/ SaveBinding(r)
  <2>1. UNCHANGED <<chat, bot, begun, undone>>
    BY <1>3 DEF FindBinding, QueryChat, SaveBinding, history
  <2>2. chat'.nonce >= chat.nonce
    BY <1>1, <2>1 DEF ChatRow
  <2> QED
    BY <1>1, <2>1, <2>2, SameProgressOnce DEF Paying
<1> QED
  BY <1>2, <1>3 DEF Http

(* Every step.                                                              *)
LEMMA NextOnceInv == OnceInv /\ [Next]_vars => OnceInv'
<1> SUFFICES ASSUME OnceInv, [Next]_vars PROVE OnceInv'
  OBVIOUS
<1>1. TypeOK' /\ chat \in ChatRow
  BY NextTypeOK DEF OnceInv, TypeOK
<1>2. CASE UNCHANGED vars \/ \E s \in Safes : Execute(s)
  <2>1. UNCHANGED <<chat, bot, begun, undone>>
    BY <1>2 DEF vars, Execute, history
  <2>2. chat'.nonce >= chat.nonce
    BY <1>1, <2>1 DEF ChatRow
  <2> QED
    BY <1>1, <2>1, <2>2, SameProgressOnce DEF Paying
<1>3. CASE Crash
  <2>1. AheadInv'
    BY <1>3 DEF Crash, AheadInv, IdleBot, Paying
  <2> QED
    BY <1>1, <1>3, <2>1, CutOnce DEF Crash
<1> QED
  BY <1>2, <1>3, BotOnce, HttpOnce DEF Next

(* /leaderboard gives the rewards of a transfer again (handler.go 54-57)    *)
(* only after a command that was cut short or a nonce that LinkSafe wrote   *)
(* back, and once for each time.                                            *)
THEOREM RewardedOnce == Spec => []RewardedAgainOnlyIfUndone
<1>1. Init => OnceInv
  <2> SUFFICES ASSUME Init PROVE OnceInv
    OBVIOUS
  <2>1. bot.pc = "idle" /\ undone = 0 /\ \A t \in Safes \X Nonces : begun[t] = 0
    BY DEF Init, IdleBot
  <2>2. AheadInv
    BY <2>1 DEF AheadInv, Paying
  <2>3. \A t \in Safes \X Nonces : begun[t] <= 1 + undone /\ begun[t] # 1 + undone
    BY <2>1
  <2> QED
    BY <2>2, <2>3, InitTypeOK DEF OnceInv, RewardedAgainOnlyIfUndone
<1>2. OnceInv => RewardedAgainOnlyIfUndone
  BY DEF OnceInv
<1> QED
  BY <1>1, <1>2, NextOnceInv, PTL DEF Spec
=============================================================================
