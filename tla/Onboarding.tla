----------------------------- MODULE Onboarding -----------------------------
(***************************************************************************)
(* How a Telegram member gets bound to a wallet address, and a Telegram    *)
(* chat to a Safe.                                                         *)
(*                                                                         *)
(* Three kinds of actors share one Postgres database and take no lock and  *)
(* open no transaction:                                                    *)
(*   - the bot loop of main.go, which handles one command at a time;       *)
(*   - the HTTP handlers POST /verify and POST /link, one goroutine per    *)
(*     request, which run at the same time as the bot and as each other;   *)
(*   - the operating system, which may kill the process at any point (a    *)
(*     failed bot.Send is a log.Panic; the container then restarts).       *)
(* A step of this module is the code between two points at which another   *)
(* actor's write could be noticed: one database statement, together with   *)
(* the reads next to it that commute with every other actor's writes.      *)
(*                                                                         *)
(* The tables sign_messages and signers are soft-deleted (gorm.Model): a   *)
(* row is never removed, its "live" flag is cleared, and its id (here its  *)
(* position) is never given to another row.                                *)
(***************************************************************************)
EXTENDS Naturals, Sequences, FiniteSets

CONSTANTS
    Users,         \* Telegram accounts
    Chats,         \* Telegram groups
    Addrs,         \* wallet addresses, compared in lower case by the code
    Safes,         \* Safe account addresses
    Reqs,          \* slots for HTTP requests that are in flight together
    Nil,           \* the empty string, and the value of an unused local
    Wallets,       \* Wallets[u]: the addresses u can sign a message with
    Owners,        \* Owners[<<s, n>>]: the owners the service of chain n lists for s
    Admins,        \* Admins[c]: the administrators Telegram lists for c
    LinkRequests,  \* the <<Safe, chain id>> pairs that are posted to /link
    ForeignKeys,   \* do sign_messages refer to chats and users in the schema?
    MaxMsgs,       \* bound: rows of sign_messages
    MaxSigners     \* bound: rows of signers

Chains == {"eth", "matic"}

ASSUME OnboardingAssumption ==
    /\ Nil \notin Users \cup Chats \cup Addrs \cup Safes \cup Chains
    /\ Nil \notin {"setup", "link", "unlink", "sign"}
    /\ Wallets \in [Users -> SUBSET Addrs]
    /\ Owners \in [Safes \X Chains -> SUBSET Addrs]
    /\ Admins \in [Chats -> SUBSET Users]
    /\ LinkRequests \subseteq Safes \X Nat
    /\ ForeignKeys \in BOOLEAN
    /\ MaxMsgs \in Nat
    /\ MaxSigners \in Nat

VARIABLES
    users,    \* the accounts that have a row in users
    chats,    \* the rows of chats
    msgs,     \* the rows of sign_messages, in the order of their ids
    signers,  \* the rows of signers, in the order of their ids
    buttons,  \* the <<kind, message id>> pairs sent as link buttons in DMs
    bot,      \* the command the bot loop is handling
    reqs,     \* the HTTP requests in flight
    alone,    \* history: no request has been in flight since /unlink began
    raced     \* history: the chats in which two requests overlapped in AddSigner

vars == <<users, chats, msgs, signers, buttons, bot, reqs, alone, raced>>

-----------------------------------------------------------------------------
(* Rows and local state *)

ChatRow == [init: BOOLEAN, safe: Safes \cup {Nil}, chain: Chains \cup {Nil}]

MsgRow == [chat: Chats, user: Users, verified: BOOLEAN, live: BOOLEAN]

SignerRow == [chat: Chats, user: Users, addr: Addrs, isSigner: BOOLEAN,
              live: BOOLEAN]

BotState ==
    [pc: {"idle", "setup", "find", "create", "remove", "delSigner", "delMsg"},
     cmd: {"setup", "link", "unlink", Nil},
     chat: Chats \cup {Nil}, user: Users \cup {Nil},
     msg: Nat, signer: Nat]

ReqState ==
    [pc: {"idle", "chat", "saveChat", "owner", "status", "find", "check",
          "save", "announce", "verify"},
     kind: {"sign", "link", Nil},
     msg: Nat, addr: Addrs \cup {Nil},
     safe: Safes \cup {Nil}, chain: Chains \cup {Nil},
     seen: ChatRow \cup {Nil},
     isSigner: BOOLEAN, signer: Nat, force: BOOLEAN]

(* What a request in flight holds on to: the row ids it read, the member's  *)
(* own address, and for /link the pair it was posted with.                  *)
RequestOK(q) ==
    /\ q.kind # Nil
    /\ q.msg \in DOMAIN msgs
    /\ q.addr \in Addrs
    /\ q.signer \in {0} \cup DOMAIN signers
    /\ q.kind = "link" => q.safe \in Safes /\ q.chain \in Chains
    /\ q.pc \in {"chat", "saveChat", "owner", "announce"} => q.kind = "link"
    /\ q.pc = "saveChat" => q.seen \in ChatRow

IdleBot == [pc |-> "idle", cmd |-> Nil, chat |-> Nil, user |-> Nil,
            msg |-> 0, signer |-> 0]

IdleReq == [pc |-> "idle", kind |-> Nil, msg |-> 0, addr |-> Nil,
            safe |-> Nil, chain |-> Nil, seen |-> Nil,
            isSigner |-> FALSE, signer |-> 0, force |-> FALSE]

Init ==
    /\ users = {}
    /\ chats = [c \in Chats |-> [init |-> FALSE, safe |-> Nil, chain |-> Nil]]
    /\ msgs = <<>>
    /\ signers = <<>>
    /\ buttons = {}
    /\ bot = IdleBot
    /\ reqs = [r \in Reqs |-> IdleReq]
    /\ alone = FALSE
    /\ raced = {}

-----------------------------------------------------------------------------
(* Queries: what a Find sees are the live rows; First takes the lowest id. *)

MessagesOf(c, u) ==
    {i \in DOMAIN msgs : msgs[i].live /\ msgs[i].chat = c /\ msgs[i].user = u}

(* Mutant: the row is looked up by chat alone.                              *)
SignersOfChat(c, u) == {i \in DOMAIN signers : signers[i].live /\ signers[i].chat = c}

SignersOf(c, u) ==
    {i \in DOMAIN signers :
        signers[i].live /\ signers[i].chat = c /\ signers[i].user = u}

First(ids) == {i \in ids : \A j \in ids : i <= j}

(* Mutant: only the rows of Safe owners are compared.                       *)
HeldByOtherOwner(c, u, a) ==
    {i \in DOMAIN signers :
        /\ signers[i].live
        /\ signers[i].chat = c
        /\ signers[i].user # u
        /\ signers[i].addr = a
        /\ signers[i].isSigner}

(* The live rows that bind address a to a member of c other than u. *)
HeldByOther(c, u, a) ==
    {i \in DOMAIN signers :
        /\ signers[i].live
        /\ signers[i].chat = c
        /\ signers[i].user # u
        /\ signers[i].addr = a}

(* What the Safe service answers about the Safe the chat is linked to: its *)
(* owners, or nobody (no Safe yet, an unknown Safe, or an unreachable       *)
(* service, whose error QuerySafeData drops).                               *)
Status(c) ==
    {{}} \cup {Owners[p] : p \in (Safes \X Chains) \cap
                                     {<<chats[c].safe, chats[c].chain>>}}

(* Mutant: the network's own name, which the scanner tables have no key for. *)
NetworkName(chainId) == IF chainId = 137 THEN "polygon" ELSE "eth"

GetSafeChain(chainId) == IF chainId = 137 THEN "matic" ELSE "eth"

InFlight == {r \in Reqs : reqs[r].pc # "idle"}

-----------------------------------------------------------------------------
(* The bot loop *)

(* /link, and /setup by an administrator of the chat, begin with SetupChat: *)
(* it creates the user (GetOrCreateUser) ...                                *)
GetOrCreateUser(cmd, c, u) ==
    /\ bot.pc = "idle"
    /\ cmd = "setup" => u \in Admins[c]
    /\ users' = users \cup {u}
    /\ bot' = [IdleBot EXCEPT !.pc = "setup", !.cmd = cmd, !.chat = c, !.user = u]
    /\ UNCHANGED <<chats, msgs, signers, buttons, reqs, alone, raced>>

(* ... and the chat, unless they exist. Nobody else creates these rows.     *)
SetupChat ==
    /\ bot.pc = "setup"
    /\ chats' = [chats EXCEPT ![bot.chat].init = TRUE]
    /\ bot' = [bot EXCEPT !.pc = "find"]
    /\ UNCHANGED <<users, msgs, signers, buttons, reqs, alone, raced>>

(* /unlink, which looks the message up without setting up user or chat.     *)
UnlinkCommand(c, u) ==
    /\ bot.pc = "idle"
    /\ bot' = [IdleBot EXCEPT !.pc = "find", !.cmd = "unlink", !.chat = c,
                              !.user = u]
    /\ alone' = (InFlight = {})
    /\ UNCHANGED <<users, chats, msgs, signers, buttons, reqs, raced>>

(* Mutant: the button is sent for any chat.                                 *)
DeliverAlways(kind, c, i) == buttons' = buttons \cup {<<kind, i>>}

(* SendVerifyButton and SendLinkButton: a DM with the id and the text of    *)
(* message i, unless the chat has no row.                                   *)
Deliver(kind, c, i) ==
    buttons' = IF chats[c].init THEN buttons \cup {<<kind, i>>} ELSE buttons

ButtonOf(cmd) == IF cmd = "setup" THEN "link" ELSE "sign"

(* The rest of a command once its message is known: /link and /setup send   *)
(* the button, /unlink goes on only if the message it read was verified.    *)
UseMessage(i, verified) ==
    IF bot.cmd = "unlink"
    THEN /\ bot' = IF verified
                   THEN [bot EXCEPT !.pc = "remove", !.msg = i]
                   ELSE IdleBot
         /\ alone' = (alone /\ verified)
         /\ UNCHANGED buttons
    ELSE /\ Deliver(ButtonOf(bot.cmd), bot.chat, i)
         /\ bot' = IdleBot
         /\ UNCHANGED alone

(* Mutant: a message that was not verified is replaced by a new one.        *)
FindVerifiedMessage ==
    LET verified == {i \in MessagesOf(bot.chat, bot.user) : msgs[i].verified}
    IN  /\ bot.pc = "find"
        /\ \/ /\ verified = {}
              /\ bot' = [bot EXCEPT !.pc = "create"]
              /\ UNCHANGED <<buttons, alone>>
           \/ \E i \in First(verified) : UseMessage(i, msgs[i].verified)
        /\ UNCHANGED <<users, chats, msgs, signers, reqs, raced>>

(* GetOrCreateSignMessage, first half: look for the member's message.       *)
FindMessage ==
    /\ bot.pc = "find"
    /\ \/ /\ MessagesOf(bot.chat, bot.user) = {}
          /\ bot' = [bot EXCEPT !.pc = "create"]
          /\ UNCHANGED <<buttons, alone>>
       \/ \E i \in First(MessagesOf(bot.chat, bot.user)) :
              UseMessage(i, msgs[i].verified)
    /\ UNCHANGED <<users, chats, msgs, signers, reqs, raced>>

(* GetOrCreateSignMessage, second half: create the message, unless the     *)
(* schema refuses it; only an /unlink can get here without user and chat.   *)
CreateMessage ==
    LET refused == /\ ForeignKeys
                   /\ bot.user \notin users \/ ~chats[bot.chat].init
    IN  /\ bot.pc = "create"
        /\ Len(msgs) < MaxMsgs
        /\ msgs' = IF refused THEN msgs
                   ELSE Append(msgs, [chat |-> bot.chat, user |-> bot.user,
                                      verified |-> FALSE, live |-> TRUE])
        /\ UseMessage(Len(msgs) + 1, FALSE)
        /\ UNCHANGED <<users, chats, signers, reqs, raced>>

(* Mutant: the bindings of members who own no share of the Safe are kept.   *)
RemoveOwner ==
    LET owner == {i \in SignersOf(bot.chat, bot.user) : signers[i].isSigner}
    IN  /\ bot.pc = "remove"
        /\ \/ /\ owner = {}
              /\ bot' = [bot EXCEPT !.pc = "delSigner", !.signer = 0]
           \/ \E i \in First(owner) :
                  bot' = [bot EXCEPT !.pc = "delSigner", !.signer = i]
        /\ UNCHANGED <<users, chats, msgs, signers, buttons, reqs, alone, raced>>

(* RemoveSigner, called by /unlink: read the member's signer row ...        *)
RemoveSigner ==
    /\ bot.pc = "remove"
    /\ \/ /\ SignersOf(bot.chat, bot.user) = {}
          /\ bot' = [bot EXCEPT !.pc = "delSigner", !.signer = 0]
       \/ \E i \in First(SignersOf(bot.chat, bot.user)) :
              bot' = [bot EXCEPT !.pc = "delSigner", !.signer = i]
    /\ UNCHANGED <<users, chats, msgs, signers, buttons, reqs, alone, raced>>

(* Mutant: the row is deleted by chat and address, not by its key.          *)
DeleteByAddress ==
    LET row == signers[bot.signer]
    IN  /\ bot.pc = "delSigner"
        /\ signers' = [i \in DOMAIN signers |->
                IF /\ bot.signer # 0
                   /\ signers[i].chat = row.chat
                   /\ signers[i].addr = row.addr
                THEN [signers[i] EXCEPT !.live = FALSE] ELSE signers[i]]
        /\ bot' = [bot EXCEPT !.pc = "delMsg", !.signer = 0]
        /\ UNCHANGED <<users, chats, msgs, buttons, reqs, alone, raced>>

(* ... delete it (gorm refuses a delete without a key, so no row was read,  *)
(* no row is deleted) ...                                                   *)
DeleteSigner ==
    /\ bot.pc = "delSigner"
    /\ signers' = IF bot.signer = 0 THEN signers
                  ELSE [signers EXCEPT ![bot.signer].live = FALSE]
    /\ bot' = [bot EXCEPT !.pc = "delMsg", !.signer = 0]
    /\ UNCHANGED <<users, chats, msgs, buttons, reqs, alone, raced>>

(* ... and delete the sign message.                                         *)
DeleteMessage ==
    /\ bot.pc = "delMsg"
    /\ msgs' = [msgs EXCEPT ![bot.msg].live = FALSE]
    /\ bot' = IdleBot
    /\ alone' = FALSE
    /\ UNCHANGED <<users, chats, signers, buttons, reqs, raced>>

(* /start: one button for every sign message of the account, sent one by    *)
(* one by SendVerifyButton.                                                 *)
StartCommand(u) ==
    /\ bot.pc = "idle"
    /\ \E i \in {j \in DOMAIN msgs : msgs[j].live /\ msgs[j].user = u} :
           Deliver("sign", msgs[i].chat, i)
    /\ UNCHANGED <<users, chats, msgs, signers, bot, reqs, alone, raced>>

Bot ==
    \/ \E cmd \in {"setup", "link"}, c \in Chats, u \in Users :
           GetOrCreateUser(cmd, c, u)
    \/ SetupChat
    \/ \E c \in Chats, u \in Users : UnlinkCommand(c, u)
    \/ \E u \in Users : StartCommand(u)
    \/ FindMessage
    \/ CreateMessage
    \/ RemoveSigner
    \/ DeleteSigner
    \/ DeleteMessage

-----------------------------------------------------------------------------
(* The HTTP handlers *)

(* POST /verify with a signature by address a over message i. A message     *)
(* that is no longer live is answered "Message not found!".                 *)
VerifyMessage(r, i, a) ==
    /\ reqs[r].pc = "idle"
    /\ <<"sign", i>> \in buttons
    /\ msgs[i].live
    /\ a \in Wallets[msgs[i].user]
    /\ reqs' = [reqs EXCEPT ![r] = [IdleReq EXCEPT
                   !.pc = "status", !.kind = "sign", !.msg = i, !.addr = a]]
    /\ alone' = FALSE
    /\ UNCHANGED <<users, chats, msgs, signers, buttons, bot, raced>>

(* POST /link with a signature by address a over message i, for Safe s ... *)
LinkSafe(r, i, a, s, chainId) ==
    /\ reqs[r].pc = "idle"
    /\ <<"link", i>> \in buttons
    /\ msgs[i].live
    /\ a \in Wallets[msgs[i].user]
    /\ reqs' = [reqs EXCEPT ![r] = [IdleReq EXCEPT
                   !.pc = "chat", !.kind = "link", !.msg = i, !.addr = a,
                   !.safe = s, !.chain = GetSafeChain(chainId)]]
    /\ alone' = FALSE
    /\ UNCHANGED <<users, chats, msgs, signers, buttons, bot, raced>>

(* ... which then reads the chat row (QueryChat).                           *)
LinkQueryChat(r) ==
    /\ reqs[r].pc = "chat"
    /\ reqs' = [reqs EXCEPT ![r].pc = "saveChat",
                            ![r].seen = chats[msgs[reqs[r].msg].chat]]
    /\ UNCHANGED <<users, chats, msgs, signers, buttons, bot, alone, raced>>

(* Mutant: only the column that was compared is written.                    *)
LinkSaveChatSafeOnly(r) ==
    LET q == reqs[r]
        c == msgs[q.msg].chat
    IN  /\ q.pc = "saveChat"
        /\ chats' = [chats EXCEPT ![c].safe = q.safe,
                        ![c].chain = IF q.seen.safe = q.safe THEN q.chain ELSE @]
        /\ reqs' = [reqs EXCEPT ![r].pc = "owner", ![r].seen = Nil]
        /\ UNCHANGED <<users, msgs, signers, buttons, bot, alone, raced>>

(* LinkSafe 4.1 and 4.2: save the whole chat row if the request names a     *)
(* Safe or a chain other than the ones that were read.                      *)
LinkSaveChat(r) ==
    LET q == reqs[r]
        c == msgs[q.msg].chat
    IN  /\ q.pc = "saveChat"
        /\ chats' = IF q.seen.safe # q.safe \/ q.seen.chain # q.chain
                    THEN [chats EXCEPT ![c] = [q.seen EXCEPT !.safe = q.safe,
                                                             !.chain = q.chain]]
                    ELSE chats
        /\ reqs' = [reqs EXCEPT ![r].pc = "owner", ![r].seen = Nil]
        /\ UNCHANGED <<users, msgs, signers, buttons, bot, alone, raced>>

(* Mutant: an empty answer of the Safe service refuses nobody.              *)
LinkCheckListedOwner(r) ==
    LET q == reqs[r]
    IN  /\ q.pc = "owner"
        /\ \E owners \in Status(msgs[q.msg].chat) :
               reqs' = [reqs EXCEPT ![r] =
                           IF q.addr \in owners \/ owners = {}
                           THEN [q EXCEPT !.pc = "status"]
                           ELSE IdleReq]
        /\ UNCHANGED <<users, chats, msgs, signers, buttons, bot, alone, raced>>

(* LinkSafe 4.3: refuse an address that is not an owner, after the save.    *)
LinkCheckOwner(r) ==
    LET q == reqs[r]
    IN  /\ q.pc = "owner"
        /\ \E owners \in Status(msgs[q.msg].chat) :
               reqs' = [reqs EXCEPT ![r] =
                           IF q.addr \in owners
                           THEN [q EXCEPT !.pc = "status"]
                           ELSE IdleReq]
        /\ UNCHANGED <<users, chats, msgs, signers, buttons, bot, alone, raced>>

(* AddSigner 1.0: is the address an owner of the chat's Safe?               *)
AddSignerStatus(r) ==
    LET q == reqs[r]
    IN  /\ q.pc = "status"
        /\ \E owners \in Status(msgs[q.msg].chat) :
               reqs' = [reqs EXCEPT ![r].pc = "find",
                                    ![r].isSigner = (q.addr \in owners)]
        /\ UNCHANGED <<users, chats, msgs, signers, buttons, bot, alone, raced>>

(* What a handler does when AddSigner returns, whatever it answered: /link  *)
(* announces the Safe in the chat, /verify goes on at once.                 *)
AfterAddSigner(q) ==
    [q EXCEPT !.pc = IF q.kind = "link" THEN "announce" ELSE "verify",
              !.isSigner = FALSE, !.signer = 0, !.force = FALSE]

(* The requests of chat c that are between AddSigner's read and its save.   *)
Adding(c) ==
    {r \in Reqs : reqs[r].pc \in {"check", "save"} /\ msgs[reqs[r].msg].chat = c}

(* AddSigner: give up if the user is unknown, else read the member's signer *)
(* row and decide whether there is anything to write.                       *)
AddSignerFind(r) ==
    LET q == reqs[r]
        m == msgs[q.msg]
    IN  /\ q.pc = "find"
        /\ \/ /\ m.user \notin users
              /\ reqs' = [reqs EXCEPT ![r] = AfterAddSigner(q)]
              /\ UNCHANGED raced
           \/ /\ m.user \in users
              /\ \/ /\ SignersOf(m.chat, m.user) = {}
                    /\ reqs' = [reqs EXCEPT ![r].pc = "check", ![r].signer = 0,
                                            ![r].force = TRUE]
                 \/ \E i \in First(SignersOf(m.chat, m.user)) :
                        reqs' = [reqs EXCEPT ![r].pc = "check", ![r].signer = i,
                                    ![r].force = \/ signers[i].addr # q.addr
                                                 \/ signers[i].isSigner # q.isSigner]
              /\ raced' = IF Adding(m.chat) = {} THEN raced ELSE raced \cup {m.chat}
        /\ UNCHANGED <<users, chats, msgs, signers, buttons, bot, alone>>

(* AddSigner 1.1: refuse an address another member of the chat holds.       *)
AddSignerCheck(r) ==
    LET q == reqs[r]
        m == msgs[q.msg]
    IN  /\ q.pc = "check"
        /\ reqs' = [reqs EXCEPT ![r] =
                       IF HeldByOther(m.chat, m.user, q.addr) = {} /\ q.force
                       THEN [q EXCEPT !.pc = "save"] ELSE AfterAddSigner(q)]
        /\ UNCHANGED <<users, chats, msgs, signers, buttons, bot, alone, raced>>

(* The tables that gorm's Save of row i, as it was read but for the values  *)
(* of row, may leave. Its UPDATE matches live rows only; if it matched none *)
(* an INSERT of every column follows (go.mod:18 pins gorm v1.24.3), which   *)
(* brings the deleted row back, or fails, and Save's error is dropped.      *)
SaveRow(table, i, row) ==
    {[table EXCEPT ![i] = row]} \cup (IF table[i].live THEN {} ELSE {table})

(* Mutant: the row is always created.                                       *)
AddSignerCreate(r) ==
    LET q == reqs[r]
        m == msgs[q.msg]
        row == [chat |-> m.chat, user |-> m.user, addr |-> q.addr,
                isSigner |-> q.isSigner, live |-> TRUE]
    IN  /\ q.pc = "save"
        /\ Len(signers) < MaxSigners
        /\ signers' = Append(signers, row)
        /\ reqs' = [reqs EXCEPT ![r] = AfterAddSigner(q)]
        /\ UNCHANGED <<users, chats, msgs, buttons, bot, alone, raced>>

(* AddSigner: Save creates the row, or writes over the one that was read.   *)
AddSignerSave(r) ==
    LET q == reqs[r]
        m == msgs[q.msg]
        row == [chat |-> m.chat, user |-> m.user, addr |-> q.addr,
                isSigner |-> q.isSigner, live |-> TRUE]
        old == [signers[q.signer] EXCEPT !.addr = q.addr,
                                         !.isSigner = q.isSigner, !.live = TRUE]
    IN  /\ q.pc = "save"
        /\ q.signer = 0 => Len(signers) < MaxSigners
        /\ signers' \in IF q.signer = 0 THEN {Append(signers, row)}
                        ELSE SaveRow(signers, q.signer, old)
        /\ reqs' = [reqs EXCEPT ![r] = AfterAddSigner(q)]
        /\ UNCHANGED <<users, chats, msgs, buttons, bot, alone, raced>>

(* LinkSafe's message in the chat.                                          *)
LinkAnnounce(r) ==
    /\ reqs[r].pc = "announce"
    /\ reqs' = [reqs EXCEPT ![r].pc = "verify"]
    /\ UNCHANGED <<users, chats, msgs, signers, buttons, bot, alone, raced>>

(* Step 5.0 of both handlers: mark the message as verified, whatever        *)
(* AddSigner answered, and reply.                                           *)
SaveVerified(r) ==
    LET q == reqs[r]
        m == msgs[q.msg]
    IN  /\ q.pc = "verify"
        /\ msgs' \in SaveRow(msgs, q.msg,
                             [m EXCEPT !.verified = TRUE, !.live = TRUE])
        /\ reqs' = [reqs EXCEPT ![r] = IdleReq]
        /\ UNCHANGED <<users, chats, signers, buttons, bot, alone, raced>>

Arrive(r) ==
    \E i \in DOMAIN msgs, a \in Addrs :
        \/ VerifyMessage(r, i, a)
        \/ \E p \in LinkRequests : LinkSafe(r, i, a, p[1], p[2])

Handle(r) ==
    \/ LinkQueryChat(r)
    \/ LinkSaveChat(r)
    \/ LinkCheckOwner(r)
    \/ AddSignerStatus(r)
    \/ AddSignerFind(r)
    \/ AddSignerCheck(r)
    \/ AddSignerSave(r)
    \/ LinkAnnounce(r)
    \/ SaveVerified(r)

-----------------------------------------------------------------------------
(* The process dies with everything it was doing; the database stays.       *)
Crash ==
    /\ bot.pc # "idle" \/ InFlight # {}
    /\ bot' = IdleBot
    /\ reqs' = [r \in Reqs |-> IdleReq]
    /\ alone' = FALSE
    /\ UNCHANGED <<users, chats, msgs, signers, buttons, raced>>

Next ==
    \/ Bot
    \/ \E r \in Reqs : Arrive(r) \/ Handle(r)
    \/ Crash

Spec == Init /\ [][Next]_vars

-----------------------------------------------------------------------------
(* Properties *)

(* The rows have their types, and the ids that the bot and the requests in  *)
(* flight hold are ids of rows.                                             *)
TypeOK ==
    /\ users \subseteq Users
    /\ chats \in [Chats -> ChatRow]
    /\ msgs \in Seq(MsgRow)
    /\ signers \in Seq(SignerRow)
    /\ buttons \subseteq {"sign", "link"} \X DOMAIN msgs
    /\ bot \in BotState
    /\ bot.pc # "idle" =>
           bot.cmd # Nil /\ bot.chat \in Chats /\ bot.user \in Users
    /\ bot.pc \in {"remove", "delSigner", "delMsg"} => bot.msg \in DOMAIN msgs
    /\ bot.signer \in {0} \cup DOMAIN signers
    /\ reqs \in [Reqs -> ReqState]
    /\ \A r \in InFlight : RequestOK(reqs[r])
    /\ alone \in BOOLEAN
    /\ raced \subseteq Chats

(* Of a member's messages in a chat only the newest may wait to be verified *)
(* although no index keeps them unique: a live older one was brought back   *)
(* by the Save of a request that /unlink overtook, and is verified. (One    *)
(* that were not would hide the newest: every lookup takes the First, and   *)
(* /unlink deletes nothing but a verified message.)                         *)
OlderMessagesVerified ==
    \A i, j \in DOMAIN msgs :
        /\ i < j
        /\ msgs[i].chat = msgs[j].chat /\ msgs[i].user = msgs[j].user
        /\ msgs[i].live
        => msgs[i].verified

(* The pairs of a Safe and a chain that are posted, and those of the chats. *)
Requested == {<<p[1], GetSafeChain(p[2])>> : p \in LinkRequests}

LinkedPair == [c \in Chats |-> <<chats[c].safe, chats[c].chain>>]

(* The Safe and the chain of a chat come from one and the same request,     *)
(* although LinkSafe saves rows it read earlier.                            *)
LinkedPairRequested ==
    \A c \in Chats : LinkedPair[c] \in {<<Nil, Nil>>} \cup Requested

(* Nobody is handed a button, and no handler works, for a chat that is not  *)
(* set up; and the rows LinkSafe writes back are of chats that are.         *)
ChatBeforeHandler ==
    /\ \A b \in buttons : chats[msgs[b[2]].chat].init
    /\ \A r \in InFlight : reqs[r].pc = "saveChat" => reqs[r].seen.init

(* A live binding is to an address its member signed with.                  *)
SignedWithOwnWallet ==
    \A i \in DOMAIN signers :
        signers[i].live => signers[i].addr \in Wallets[signers[i].user]

(* No two members of a chat are bound to one address ("1.1 check whether    *)
(* address is already allocated to other user in the chat").                *)
AddressUnique ==
    \A i, j \in DOMAIN signers :
        /\ signers[i].live /\ signers[j].live
        /\ signers[i].chat = signers[j].chat
        /\ signers[i].addr = signers[j].addr
        => signers[i].user = signers[j].user

(* A member has at most one live signer row in a chat, which is what        *)
(* RemoveSigner and the queries that take the First rely on, unless two     *)
(* requests of the chat ever overlapped between AddSigner's read and save.  *)
OneSignerPerMember ==
    \A c \in Chats \ raced, u \in Users : Cardinality(SignersOf(c, u)) <= 1

(* A request that gets past LinkSafe's owner check has linked its chat to   *)
(* its own Safe, and its address owns that Safe on that chain.              *)
AcceptedLinkIsOwner ==
    \A r \in InFlight :
        reqs[r].kind = "link" /\ reqs[r].pc \notin {"chat", "saveChat", "owner"} =>
            LET chat == chats[msgs[reqs[r].msg].chat]
            IN  /\ chat.safe = reqs[r].safe
                /\ chat.chain = reqs[r].chain
                /\ reqs[r].addr \in Owners[<<chat.safe, chat.chain>>]

(* When an /unlink ends that no request overlapped, its member is no longer *)
(* bound in the chat. RemoveSigner deletes the first row it finds: that is  *)
(* the only one unless requests of the chat overlapped in AddSigner before, *)
(* whatever they, crashes and revived rows did.                             *)
UnlinkUnbinds ==
    [][\A c \in Chats \ raced, u \in Users :
           bot.pc = "delMsg" /\ bot.chat = c /\ bot.user = u /\ alone =>
               SignersOf(c, u)' = {}]_vars

(* The address the queries find for a member: that of the first live row.   *)
BoundAddress ==
    [c \in Chats |-> [u \in Users |->
        LET rows == SignersOf(c, u)
        IN  IF rows = {} THEN Nil
            ELSE signers[CHOOSE i \in rows : i \in First(rows)].addr]]

Binding == INSTANCE MemberBinding WITH bound <- BoundAddress

(* If AddSigner runs for one request of a chat at a time, the tables        *)
(* implement the promise.                                                   *)
BindingSpec == Binding!Spec

(* The bindings of a chat that its live rows stand for.                     *)
LiveRows ==
    [c \in Chats |->
        {<<signers[i].user, signers[i].addr>> :
            i \in {j \in DOMAIN signers : signers[j].live /\ signers[j].chat = c}}]

Tables == INSTANCE ChatTables WITH
              known <- users, bound <- LiveRows, linked <- LinkedPair,
              Safes <- Requested, Nil <- <<Nil, Nil>>

(* Whatever requests overlap, a step makes one account known, links one     *)
(* chat to a pair that was posted, or binds, rebinds or unbinds one member, *)
(* whom the bot knows, to a wallet of his own: what the other commands rely *)
(* on when they read the tables. (This is Tables!Spec: a step that writes   *)
(* none of the tables leaves the mapped variables alone. That case comes    *)
(* first, as it is that of most steps.)                                     *)
TablesSpec ==
    /\ Tables!Init
    /\ [][UNCHANGED <<users, chats, signers>> \/ Tables!Next]_(Tables!vars)

(* What SendVerifyButton tells a member whose message is verified ("Your    *)
(* current bind address") presumes that there is such an address, also when *)
(* AddSigner refused the one that the request was signed with, as another   *)
(* member holds it.                                                         *)
VerifiedMeansBound ==
    [][\A r \in Reqs :
           LET m == msgs[reqs[r].msg]
           IN  SaveVerified(r) /\ HeldByOther(m.chat, m.user, reqs[r].addr) # {} =>
                   SignersOf(m.chat, m.user) # {}]_vars
=============================================================================
