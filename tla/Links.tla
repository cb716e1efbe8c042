-------------------------------- MODULE Links --------------------------------
(***************************************************************************)
(* The commands that answer with a link to a prepared transaction:         *)
(* /request (pay me), /create (any transaction, for owners) and /stream    *)
(* (pay somebody by the second).                                           *)
(*                                                                         *)
(* A command reads the chat row once, finds an address by a user name, asks*)
(* services and sends a link to the chat's Safe. The bot handles one       *)
(* command at a time, but POST /verify binds addresses and POST /link      *)
(* changes the Safe in between. The names compared are the one Telegram    *)
(* sends with the command and the one stored when the user row was created,*)
(* which is never written again. The tables are as ChatTables promises,    *)
(* whatever requests overlap (Onboarding implements it): two members may   *)
(* share an address, and a member may have two.                            *)
(***************************************************************************)
CONSTANTS
    Users,   \* Telegram accounts
    Chats,   \* Telegram groups
    Addrs,   \* wallet addresses
    Safes,   \* Safe accounts, with their chain
    Owners,  \* Owners[s]: the addresses that own Safe s
    Wallets, \* Wallets[u]: the addresses u can sign a message with
    Names,   \* the user names an account may have, NoName among them or not
    NoName,  \* the user name of an account without one
    Lower,   \* Lower[n]: n in lower case (strings.ToLower)
    Nil      \* the empty string in a row, and the value of an unused local

ASSUME LinksAssumption ==
    /\ Nil \notin Users \cup Chats \cup Addrs \cup Safes \cup Names
    /\ Owners \in [Safes -> SUBSET Addrs]
    /\ Wallets \in [Users -> SUBSET Addrs]
    /\ Lower \in [Names -> Names]
    /\ \A n \in Names : Lower[n] = NoName <=> n = NoName

VARIABLES
    account,  \* account[u]: the user name u has on Telegram now
    held,     \* held[u]: the user names u has had (kept by no one in the code)
    stored,   \* stored[u]: user_name of the user row of u, Nil if there is none
    bound,    \* bound[c]: the <<member, address>> pairs of the rows of chat c
    linked,   \* linked[c]: the Safe of chat c
    cmd       \* the command in progress: the handler's fields and locals

vars == <<account, held, stored, bound, linked, cmd>>

(* The accounts with a user row.                                            *)
Known == {u \in Users : stored[u] # Nil}

Tables == INSTANCE ChatTables WITH known <- Known

IdleCmd == [pc |-> "idle", kind |-> Nil, chat |-> Nil, user |-> Nil,
            name |-> Nil, safe |-> Nil, rows |-> {}, to |-> Nil,
            moved |-> FALSE]

Idle == cmd = IdleCmd

Alike(m, n) == Lower[m] = Lower[n]

(* Telegram gives a name to one account at a time, whatever its case; that  *)
(* a name which was given up is not taken by somebody else is an assumption.*)
Available(u, n) ==
    n = NoName \/ \A v \in Users \ {u} : \A m \in held[v] : ~Alike(m, n)

Init ==
    /\ account \in [Users -> Names]
    /\ held = [u \in Users |-> {account[u]}]
    /\ \A u \in Users : Available(u, account[u])
    /\ stored = [u \in Users |-> Nil]
    /\ Tables!Init
    /\ cmd = IdleCmd

-----------------------------------------------------------------------------
(* Telegram, the other commands, and the HTTP requests *)

Rename(u, n) ==
    /\ n # account[u]
    /\ Available(u, n)
    /\ account' = [account EXCEPT ![u] = n]
    /\ held' = [held EXCEPT ![u] = @ \cup {n}]
    /\ UNCHANGED <<stored, bound, linked, cmd>>

(* /link and /setup store the name the sender has then, the first time.     *)
GetOrCreateUser(u) ==
    /\ Idle
    /\ stored[u] = Nil
    /\ stored' = [stored EXCEPT ![u] = account[u]]
    /\ UNCHANGED <<account, held, bound, linked, cmd>>

(* /unlink.                                                                 *)
RemoveSigner(c, u, a) ==
    /\ Idle
    /\ UNCHANGED <<account, held, stored, cmd>>
    /\ Tables!Remove(c, u, a)

(* Mutant: the row to write over is the first of the chat, whoever's it is. *)
AddSignerAnyRow(c, u, a) ==
    /\ stored[u] # Nil /\ a \in Wallets[u]
    /\ bound' = [bound EXCEPT ![c] =
                    IF @ = {} THEN {<<u, a>>}
                    ELSE LET r == CHOOSE r \in @ : TRUE
                         IN  (@ \ {r}) \cup {<<r[1], a>>}]
    /\ UNCHANGED <<account, held, stored, linked, cmd>>

(* POST /verify: AddSigner wants the user row. Its check of the address may *)
(* be overtaken.                                                            *)
AddSigner(c, u, a) ==
    /\ UNCHANGED <<account, held, stored, cmd>>
    /\ \/ Tables!Add(c, u, a)
       \/ \E old \in Addrs : Tables!Replace(c, u, old, a)

(* POST /link: LinkSafe saves the chat row, before it checks the owner.     *)
LinkSafe(c, s) ==
    /\ UNCHANGED <<account, held, stored>>
    /\ Tables!Link(c, s)
    /\ cmd' = IF cmd.chat = c THEN [cmd EXCEPT !.moved = @ \/ linked[c] # s]
              ELSE cmd

-----------------------------------------------------------------------------
(* The commands *)

tables == <<account, held, stored, bound, linked>>

(* The command ends: with a text that is no link, or with the process.      *)
Refuse == cmd' = IdleCmd /\ UNCHANGED tables

(* The handler is created: the chat row is read, and not again by /request  *)
(* and /stream. name is what the command compares with the stored names.    *)
QueryChat(kind, c, u, n, next) ==
    /\ Idle
    /\ cmd' = [IdleCmd EXCEPT !.pc = next, !.kind = kind, !.chat = c,
                              !.user = u, !.name = Lower[n], !.safe = linked[c]]
    /\ UNCHANGED tables

Request(c, u) == QueryChat("request", c, u, account[u], "usernames")

Create(c, u) == QueryChat("create", c, u, account[u], "usernames")

Stream(c, u, n) == QueryChat("stream", c, u, n, "recipient")

(* What GetOwnerUsernames may return: one of the members of each address,   *)
(* as the last row that is read overwrites the entries of the others.       *)
OwnerUsernames ==
    {m \in [{r[2] : r \in bound[cmd.chat]} -> Users] :
        \A a \in DOMAIN m : <<m[a], a>> \in bound[cmd.chat]}

(* Mutant: the first entry is taken for the sender's.                       *)
AnyAddress(m) == DOMAIN m

(* Mutant: the names are compared as they are spelt.                        *)
AddressesSpelt(m) == {a \in DOMAIN m : stored[m[a]] = cmd.name}

(* The addresses of the entries with the sender's name.                     *)
AddressesNamed(m) == {a \in DOMAIN m : Lower[stored[m[a]]] = cmd.name}

(* Mutant: any member of the chat will do.                                  *)
AnySigner == {r[2] : r \in bound[cmd.chat]}

(* The addresses of the rows with that very name: /stream takes the First.  *)
SignersNamed == {r[2] : r \in {q \in bound[cmd.chat] : stored[q[1]] = cmd.name}}

Found(a, next) ==
    /\ cmd' = [cmd EXCEPT !.rows = bound[cmd.chat], !.to = a, !.pc = next]
    /\ UNCHANGED tables

(* Nobody was found: the command is answered with "You did not link your    *)
(* account" or "user does not exist in the chat".                           *)
NotFound ==
    /\ cmd' = [cmd EXCEPT !.rows = bound[cmd.chat], !.pc = "unlinked"]
    /\ UNCHANGED tables

(* Mutant: a sender without an address is not sent back.                    *)
ValidateNothing ==
    /\ cmd.pc = "usernames"
    /\ cmd' = [cmd EXCEPT !.rows = bound[cmd.chat], !.pc = "balance"]
    /\ UNCHANGED tables

(* GetOwnerUsernames, the arguments of /request, and the sender's address,  *)
(* of several in the order of a Go map.                                     *)
ValidateSetup ==
    /\ cmd.pc = "usernames"
    /\ \/ \E m \in OwnerUsernames :
              \/ \E a \in AddressesNamed(m) :
                     Found(a, IF cmd.kind = "request" THEN "balance" ELSE "admin")
              \/ AddressesNamed(m) = {} /\ NotFound
       \/ cmd.kind = "request" /\ Refuse

(* The Safe has enough of the currency, or has not, or the service fails.   *)
ValidateBalance ==
    /\ cmd.pc = "balance"
    /\ \/ cmd' = [cmd EXCEPT !.pc = "threshold"] /\ UNCHANGED tables
       \/ Refuse

(* QuerySafeData: who is to sign. Without an answer nobody is listed.       *)
GetThreshold ==
    /\ cmd.pc = "threshold"
    /\ cmd' = [cmd EXCEPT !.pc = "send"]
    /\ UNCHANGED tables

(* Mutant: every member with an address is an owner.                        *)
ValidateMember ==
    /\ cmd.pc = "admin"
    /\ cmd' = [cmd EXCEPT !.pc = "send"]
    /\ UNCHANGED tables

(* Status reads the chat row again, asks for the owners of its Safe, and    *)
(* gets none if there is no Safe or no answer.                              *)
StatusAnswers == {{}} \cup {Owners[s] : s \in Safes \cap {linked[cmd.chat]}}

ValidateAdmin ==
    /\ cmd.pc = "admin"
    /\ \E owners \in StatusAnswers :
           IF cmd.to \in owners
           THEN cmd' = [cmd EXCEPT !.pc = "send"] /\ UNCHANGED tables
           ELSE Refuse

(* The receiver of a /stream is looked up in the signers table, if the      *)
(* arguments are five and it starts with @.                                 *)
FindRecipient ==
    /\ cmd.pc = "recipient"
    /\ \/ \E a \in SignersNamed : Found(a, "contracts")
       \/ SignersNamed = {} /\ NotFound
       \/ Refuse

(* The token contracts come from the subgraph. Without an answer the nil    *)
(* pointer ends the process (UpdateLoop has the restart).                   *)
GetLlamaTokenContract ==
    /\ cmd.pc = "contracts"
    /\ \/ cmd' = [cmd EXCEPT !.pc = "currency"] /\ UNCHANGED tables
       \/ Refuse

(* The Safe has the currency, the currency has a contract, and the numbers  *)
(* parse; or not.                                                           *)
ValidateStream ==
    /\ cmd.pc = "currency"
    /\ \/ cmd' = [cmd EXCEPT !.pc = "send"] /\ UNCHANGED tables
       \/ Refuse

(* The answer is sent, a link or not.                                       *)
Send == cmd.pc \in {"unlinked", "send"} /\ Refuse

(* The process dies. What was sent is sent; the rest of the command is lost.*)
Crash == ~Idle /\ Refuse

Command ==
    \/ \E c \in Chats, u \in Users :
           \/ Request(c, u)
           \/ Create(c, u)
           \/ \E n \in Names : Stream(c, u, n)
    \/ ValidateSetup
    \/ ValidateBalance
    \/ GetThreshold
    \/ ValidateAdmin
    \/ FindRecipient
    \/ GetLlamaTokenContract
    \/ ValidateStream
    \/ Send

Next ==
    \/ \E u \in Users : GetOrCreateUser(u) \/ \E n \in Names : Rename(u, n)
    \/ \E c \in Chats, u \in Users :
           \E a \in Addrs : RemoveSigner(c, u, a) \/ AddSigner(c, u, a)
    \/ \E c \in Chats, s \in Safes : LinkSafe(c, s)
    \/ Command
    \/ Crash

Spec == Init /\ [][Next]_vars

-----------------------------------------------------------------------------
(* Properties *)

CmdState ==
    {IdleCmd} \cup
    [pc: {"usernames", "balance", "threshold", "admin", "recipient",
          "contracts", "currency", "unlinked", "send"},
     kind: {"request", "create", "stream"}, chat: Chats, user: Users,
     name: Names, safe: Safes \cup {Nil},
     rows: SUBSET (Users \X Addrs), to: Addrs \cup {Nil},
     moved: BOOLEAN]

(* The rows and the locals have their types, and a command that got past    *)
(* its lookup has an address, which it read from a row.                     *)
TypeOK ==
    /\ account \in [Users -> Names] /\ held \in [Users -> SUBSET Names]
    /\ stored \in [Users -> Names \cup {Nil}]
    /\ Tables!TypeOK
    /\ cmd \in CmdState
    /\ cmd.pc \notin {"idle", "usernames", "recipient", "unlinked"} =>
           \E u \in Users : <<u, cmd.to>> \in cmd.rows

(* The address of a /request or a /create is one its sender was bound to in *)
(* the chat: nobody's request pays somebody else, although a member is      *)
(* recognised by a name alone, in whatever case, may have changed it, and   *)
(* may share the address with others.                                       *)
PaysRequester ==
    cmd.kind \in {"request", "create"} /\ cmd.pc = "send" =>
        <<cmd.user, cmd.to>> \in cmd.rows

(* A /create links to a Safe that its sender's address owns, unless POST    *)
(* /link moved the chat to another Safe in the meantime: the Safe is read   *)
(* before, and the owners after it.                                         *)
CreatorOwnsSafe ==
    cmd.kind = "create" /\ cmd.pc = "send" /\ ~cmd.moved =>
        cmd.safe \in Safes /\ cmd.to \in Owners[cmd.safe]

(* A /stream pays a member who has, or has had, the name it was sent for.   *)
StreamPaysNamed ==
    cmd.kind = "stream" /\ cmd.pc = "send" =>
        \E u \in Users : /\ <<u, cmd.to>> \in cmd.rows
                        /\ \E n \in held[u] : Alike(n, cmd.name)

(* Whoever is paid has signed with the wallet that is paid: the sender, or  *)
(* in a /stream a member who has had the name it was sent for. It takes     *)
(* both what the tables promise and what the lookup by name makes of them.  *)
PaysOwnWallet ==
    cmd.pc = "send" =>
        \E u \in Users :
            /\ cmd.to \in Wallets[u]
            /\ cmd.kind # "stream" => u = cmd.user
            /\ cmd.kind = "stream" => \E n \in held[u] : Alike(n, cmd.name)

(* A bound member is told that he did not link his account only if he is    *)
(* known by a former name, or if others share every address of his; and is  *)
(* said not to exist in the chat only if his stored name has a capital.     *)
BoundAreFound ==
    cmd.pc = "unlinked" =>
        \A a \in Addrs, u \in Users :
            <<u, a>> \in cmd.rows /\ Lower[stored[u]] = cmd.name =>
                IF cmd.kind = "stream" THEN stored[u] # Lower[stored[u]]
                ELSE \E v \in Users \ {u} : <<v, a>> \in cmd.rows
=============================================================================
