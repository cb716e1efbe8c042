----------------------------- MODULE Leaderboard -----------------------------
(***************************************************************************)
(* How /leaderboard turns the history of a chat's Safe into points of the  *)
(* chat's members.                                                         *)
(*                                                                         *)
(* The bot loop handles one /leaderboard at a time: it fetches the first   *)
(* page of the history, rewards every outgoing transfer above the chat's   *)
(* LastConfirmNonce, and only then moves the nonce. Every reward is a row  *)
(* read and a full row written back. Meanwhile /verify writes signer rows  *)
(* back (AddSigner) and /link writes the chat row back (LinkSafe), owners  *)
(* execute further transactions, the Safe service fails, and the process   *)
(* dies. Onboarding models what /verify and /link check; here they are     *)
(* only the writers of the two rows.                                       *)
(***************************************************************************)
EXTENDS Integers, Sequences

CONSTANTS
    Users,      \* the members of the chat
    Addrs,      \* wallet addresses
    Safes,      \* Safe accounts (with their chain)
    Reqs,       \* slots for HTTP requests that are in flight together
    Nil,        \* the empty string, and the value of an unused local
    Executor,   \* Executor[<<s, n>>]: who executed transaction n of Safe s
    Signers,    \* Signers[<<s, n>>]: the owners of s, as listed with n
    Outgoing,   \* the <<Safe, nonce>> pairs that are outgoing transfers
    PageSize,   \* results on the first page of the history
    MaxTxs,     \* bound: transactions executed by a Safe
    MaxAborts,  \* bound: commands cut short
    MaxRequests \* bound: HTTP requests

Nonces == 0 .. MaxTxs - 1

ASSUME LeaderboardAssumption ==
    /\ Nil \notin Users \cup Addrs \cup Safes
    /\ Executor \in [Safes \X Nonces -> Addrs]
    /\ Signers \in [Safes \X Nonces -> Seq(Addrs)]
    /\ Outgoing \subseteq Safes \X Nonces
    /\ PageSize \in Nat /\ MaxTxs \in Nat
    /\ MaxAborts \in Nat /\ MaxRequests \in Nat

VARIABLES
    executed,  \* executed[s]: how many transactions Safe s has executed
    chat,      \* the chat row: the Safe and LastConfirmNonce
    row,       \* row[u]: the signer row of u, its address and points
    bot,       \* the /leaderboard in progress
    reqs,      \* the HTTP requests in flight
    begun,     \* history: how often the rewards of a transaction were begun
    done,      \* history: the transactions whose rewards were all handled
    missed,    \* history: those that left the first page, or came without details
    foreign,   \* history: those that were passed by the nonce of another Safe
    ledger,    \* history: what row should hold, if no update were lost
    raced,     \* history: members with two overlapping writers of their row
    undone,    \* history: commands cut short and nonces written back
    served     \* the number of requests so far

history == <<begun, done, missed, foreign, ledger, raced, undone>>
vars == <<executed, chat, row, bot, reqs, history, served>>

Unbound == [addr |-> Nil, points |-> 0]

IdleBot == [pc |-> "idle", safe |-> Nil, page |-> {}, floor |-> 0,
            updated |-> 0, tx |-> 0, todo |-> <<>>, user |-> Nil, held |-> Unbound,
            astray |-> FALSE]

IdleReq == [pc |-> "idle", user |-> Nil, to |-> Nil, seen |-> Nil]

Init ==
    /\ executed = [s \in Safes |-> 0]
    /\ chat = [safe |-> Nil, nonce |-> 0]
    /\ row = [u \in Users |-> Unbound]
    /\ bot = IdleBot
    /\ reqs = [r \in Reqs |-> IdleReq]
    /\ begun = [t \in Safes \X Nonces |-> 0]
    /\ done = {} /\ missed = {} /\ foreign = {}
    /\ ledger = row
    /\ raced = {}
    /\ undone = 0
    /\ served = 0

-----------------------------------------------------------------------------
(* The Safe: its owners execute the next transaction.                       *)
Execute(s) ==
    /\ executed[s] < MaxTxs
    /\ executed' = [executed EXCEPT ![s] = @ + 1]
    /\ UNCHANGED <<chat, row, bot, reqs, history, served>>

-----------------------------------------------------------------------------
(* The bot: /leaderboard *)

(* QueryChat, then the newest transactions of the chat's Safe (none before  *)
(* the first /link). An answer that is no page (a 5xx) decodes as an empty  *)
(* one; without an answer the command ends.                                 *)
FetchHistory ==
    LET size == IF chat.safe = Nil THEN 0 ELSE executed[chat.safe]
        page == {n \in Nonces : n < size /\ n >= size - PageSize}
    IN  /\ bot.pc = "idle"
        /\ \E seen \in {page, {}} :
               bot' = [IdleBot EXCEPT !.pc = "nonce", !.safe = chat.safe, !.page = seen]
        /\ missed' = missed \cup {t \in {chat.safe} \X Nonces :
                                     t[2] < size - PageSize /\ t \notin done}
        /\ UNCHANGED <<executed, chat, row, reqs, begun, done, foreign, ledger, raced,
                       undone, served>>

GetCurrentLastConfirmedNonce ==
    /\ bot.pc = "nonce"
    /\ bot' = [bot EXCEPT !.pc = "tx", !.floor = chat.nonce]
    /\ UNCHANGED <<executed, chat, row, reqs, history, served>>

(* The newest transaction of the page that is not handled yet.              *)
Newest == {n \in bot.page : \A m \in bot.page : m <= n}

Rewards(t) ==
    <<<<Executor[t], 300>>>> \o [i \in DOMAIN Signers[t] |-> <<Signers[t][i], 100>>]

IsNew(t) == t \in Outgoing /\ t[2] > bot.floor

(* Mutant: the last transaction handled, the oldest one, sets the nonce.    *)
UpdatedNonceLast(n) == n

(* The first transaction handled, the newest one, sets the nonce.           *)
UpdatedNonce(n) == IF bot.updated = 0 THEN n ELSE bot.updated

(* Mutant: the error ends the loop, not the command.                        *)
BreakOff(n) == bot' = [bot EXCEPT !.page = {}, !.updated = UpdatedNonce(n)]

(* The command returns the error as its reply; the nonce is not moved.      *)
ReturnError(n) == bot' = IdleBot

(* A transaction that is not to be rewarded is passed over.                 *)
SkipTransaction(n) ==
    /\ bot.pc = "tx"
    /\ ~IsNew(<<bot.safe, n>>)
    /\ bot' = [bot EXCEPT !.page = @ \ {n}]
    /\ UNCHANGED <<executed, chat, row, reqs, history, served>>

(* The details of a new transaction: executor and signers, or an answer     *)
(* without them (a 5xx again), which names nobody, or no answer at all.     *)
FetchTransaction(n) ==
    LET t == <<bot.safe, n>>
        fetched == [bot EXCEPT !.page = @ \ {n}, !.updated = UpdatedNonce(n)]
    IN  /\ bot.pc = "tx"
        /\ IsNew(t)
        /\ \/ /\ bot' = [fetched EXCEPT !.pc = "award", !.tx = n, !.todo = Rewards(t)]
              /\ begun' = [begun EXCEPT ![t] = @ + 1]
              /\ UNCHANGED <<missed, undone>>
           \/ /\ bot' = fetched
              /\ missed' = missed \cup ({t} \ done)
              /\ UNCHANGED <<begun, undone>>
           \/ /\ undone < MaxAborts
              /\ ReturnError(n)
              /\ undone' = undone + 1
              /\ UNCHANGED <<begun, missed>>
        /\ UNCHANGED <<executed, chat, row, reqs, done, foreign, ledger, raced, served>>

(* Mutant: the loop over the rewards runs once more.                        *)
NextRewardOff ==
    IF Len(bot.todo) > 0
    THEN /\ bot' = [bot EXCEPT !.pc = "award", !.todo = Tail(@), !.user = Nil,
                               !.held = Unbound]
         /\ UNCHANGED done
    ELSE /\ bot' = [bot EXCEPT !.pc = "tx", !.user = Nil, !.held = Unbound]
         /\ done' = done \cup {<<bot.safe, bot.tx>>}

(* The reward at the head of todo is settled; after the last one the loop   *)
(* goes on with the next transaction.                                       *)
NextReward ==
    IF Len(bot.todo) > 1
    THEN /\ bot' = [bot EXCEPT !.pc = "award", !.todo = Tail(@), !.user = Nil, !.held = Unbound]
         /\ UNCHANGED done
    ELSE /\ bot' = [bot EXCEPT !.pc = "tx", !.todo = <<>>, !.user = Nil, !.held = Unbound]
         /\ done' = done \cup {<<bot.safe, bot.tx>>}

(* UpdatePoints, first half: the row of the address; nobody's address is    *)
(* ignored.                                                                 *)
FindSigner ==
    LET a == Head(bot.todo)[1]
        holders == {u \in Users : row[u].addr = a}
    IN  /\ bot.pc = "award"
        /\ \/ holders = {} /\ NextReward
           \/ /\ \E u \in holders :
                    bot' = [bot EXCEPT !.pc = "save", !.user = u, !.held = row[u]]
              /\ UNCHANGED done
        /\ UNCHANGED <<executed, chat, row, reqs, begun, missed, foreign, ledger, raced,
                       undone, served>>

InFlight == {r \in Reqs : reqs[r].pc # "idle"}

(* UpdatePoints, second half: the whole row is written back.                *)
SavePoints ==
    LET u == bot.user
        p == Head(bot.todo)[2]
    IN  /\ bot.pc = "save"
        /\ row' = [row EXCEPT ![u] =
                      [bot.held EXCEPT !.points = @ + p]]
        /\ ledger' = [ledger EXCEPT ![u].points = @ + p]
        /\ raced' = raced \cup {v \in {u} : \E r \in InFlight : reqs[r].user = v}
        /\ NextReward
        /\ UNCHANGED <<executed, chat, reqs, begun, missed, foreign, undone, served>>

(* The transfers of s up to nonce k that were not handled.                  *)
Unpaid(s, k) ==
    {t \in Outgoing : t[1] = s /\ t[2] \in 1 .. k} \ (done \cup missed)

(* The nonce is that of the Safe the command began with, whatever Safe the  *)
(* row has by now.                                                          *)
UpdateLastConfirmedNonce ==
    /\ bot.pc = "tx"
    /\ bot.page = {}
    /\ chat' = IF bot.updated # 0 THEN [chat EXCEPT !.nonce = bot.updated] ELSE chat
    /\ bot' = IdleBot
    /\ foreign' = foreign \cup (IF bot.astray THEN Unpaid(chat.safe, bot.updated) ELSE {})
    /\ UNCHANGED <<executed, row, reqs, begun, done, missed, ledger, raced, undone, served>>

-----------------------------------------------------------------------------
(* The HTTP handlers that write the same rows back *)

(* AddSigner: read the member's row and see that the address is free ...    *)
(* Two requests of one member at a time are Onboarding's subject.           *)
FindBinding(r, u, a) ==
    /\ reqs[r].pc = "idle"
    /\ \A q \in InFlight : reqs[q].user # u
    /\ \A v \in Users \ {u} : row[v].addr # a
    /\ reqs' = [reqs EXCEPT ![r] = [pc |-> "bind", user |-> u, to |-> a, seen |-> row[u]]]
    /\ served' = served + 1
    /\ UNCHANGED <<executed, chat, row, bot, history>>

(* Mutant: the row is replaced, not updated.                                *)
RowWithFresh(seen, a) == [addr |-> a, points |-> 0]

RowWith(seen, a) == [seen EXCEPT !.addr = a]

(* ... and save the row that was read with the new address.                 *)
SaveBinding(r) ==
    LET q == reqs[r]
    IN  /\ q.pc = "bind"
        /\ row' = [row EXCEPT ![q.user] = RowWith(q.seen, q.to)]
        /\ ledger' = [ledger EXCEPT ![q.user].addr = q.to]
        /\ raced' = raced \cup ({bot.user} \cap {q.user})
        /\ reqs' = [reqs EXCEPT ![r] = IdleReq]
        /\ UNCHANGED <<executed, chat, bot, begun, done, missed, foreign, undone, served>>

(* LinkSafe: read the chat row ...                                          *)
QueryChat(r, s) ==
    /\ reqs[r].pc = "idle"
    /\ reqs' = [reqs EXCEPT ![r] = [pc |-> "link", user |-> Nil, to |-> s, seen |-> chat]]
    /\ served' = served + 1
    /\ UNCHANGED <<executed, chat, row, bot, history>>

(* ... and save it with the new Safe, with the nonce it had when it was     *)
(* read; the nonce of the former Safe is kept for the new one.              *)
SaveChat(r) ==
    LET q == reqs[r]
        saved == q.seen.safe # q.to
    IN  /\ q.pc = "link"
        /\ chat' = IF saved THEN [q.seen EXCEPT !.safe = q.to] ELSE chat
        /\ foreign' = foreign \cup (IF saved THEN Unpaid(q.to, q.seen.nonce) ELSE {})
        /\ bot' = [bot EXCEPT !.astray = @ \/ (bot.pc # "idle" /\ chat'.safe # bot.safe)]
        /\ undone' = IF chat'.nonce < chat.nonce THEN undone + 1 ELSE undone
        /\ reqs' = [reqs EXCEPT ![r] = IdleReq]
        /\ UNCHANGED <<executed, row, begun, done, missed, ledger, raced, served>>

-----------------------------------------------------------------------------
Crash ==
    /\ undone < MaxAborts
    /\ bot.pc # "idle" \/ InFlight # {}
    /\ bot' = IdleBot
    /\ undone' = undone + 1
    /\ reqs' = [r \in Reqs |-> IdleReq]
    /\ UNCHANGED <<executed, chat, row, begun, done, missed, foreign, ledger, raced, served>>

Bot ==
    \/ FetchHistory
    \/ GetCurrentLastConfirmedNonce
    \/ \E n \in Newest : SkipTransaction(n) \/ FetchTransaction(n)
    \/ FindSigner
    \/ SavePoints
    \/ UpdateLastConfirmedNonce

Http(r) ==
    \/ /\ served < MaxRequests
       /\ \/ \E u \in Users, a \in Addrs : FindBinding(r, u, a)
          \/ \E s \in Safes : QueryChat(r, s)
    \/ SaveBinding(r)
    \/ SaveChat(r)

Next ==
    \/ \E s \in Safes : Execute(s)
    \/ Bot
    \/ \E r \in Reqs : Http(r)
    \/ Crash

Spec == Init /\ [][Next]_vars

-----------------------------------------------------------------------------
(* Properties *)

SignerRow == [addr: Addrs \cup {Nil}, points: Nat]

ChatRow == [safe: Safes \cup {Nil}, nonce: Nat]

(* An address and the points it gets.                                      *)
Reward == Addrs \X {100, 300}

BotState ==
    [pc: {"idle", "nonce", "tx", "award", "save"}, safe: Safes \cup {Nil},
     page: SUBSET Nonces, floor: Nat, updated: Nat, tx: Nat,
     todo: Seq(Reward), user: Users \cup {Nil}, held: SignerRow, astray: BOOLEAN]

ReqState ==
    {IdleReq} \cup [pc: {"bind"}, user: Users, to: Addrs, seen: SignerRow]
              \cup [pc: {"link"}, user: {Nil}, to: Safes, seen: ChatRow]

(* The rows and the local states have their types; a page has its Safe, and *)
(* a reward that is being handled its transaction and its receiver.         *)
TypeOK ==
    /\ executed \in [Safes -> 0 .. MaxTxs]
    /\ chat \in ChatRow
    /\ row \in [Users -> SignerRow] /\ ledger \in [Users -> SignerRow]
    /\ bot \in BotState
    /\ bot.page # {} => bot.safe \in Safes
    /\ bot.pc \in {"award", "save"} => bot.todo # <<>> /\ <<bot.safe, bot.tx>> \in Outgoing
    /\ bot.pc = "save" => bot.user \in Users
    /\ reqs \in [Reqs -> ReqState]
    /\ begun \in [Safes \X Nonces -> Nat]
    /\ done \subseteq Safes \X Nonces /\ missed \subseteq Safes \X Nonces
    /\ foreign \subseteq Safes \X Nonces
    /\ raced \subseteq Users /\ undone \in Nat /\ served \in Nat

(* Every outgoing transfer of the chat's Safe that the nonce has passed was *)
(* rewarded in full, through crashes, failed requests, relinks and stale    *)
(* writes of the nonce; except those that had left the first page, those    *)
(* the service gave no details of, and those that were passed already when  *)
(* the nonce of another Safe was written next to this one. (Nonce 0 is      *)
(* never above the floor.)                                                  *)
NoneSkipped ==
    \A t \in Outgoing :
        t[1] = chat.safe /\ t[2] \in 1 .. chat.nonce => t \in done \cup missed \cup foreign

(* A transfer is rewarded again only if a command was cut short or LinkSafe *)
(* wrote an old nonce back, once for each time that happened.               *)
RewardedAgainOnlyIfUndone ==
    \A t \in Safes \X Nonces : begun[t] <= 1 + undone

(* Rewards and bindings are lost only when UpdatePoints and AddSigner write *)
(* the row of one member at the same time.                                  *)
RowsKept == \A u \in Users \ raced : row[u] = ledger[u]
=============================================================================
