----------------------------- MODULE ChatTables -----------------------------
(***************************************************************************)
(* What the tables promise the commands that read them, however requests   *)
(* overlap: accounts become known and stay so; a chat is linked to a Safe  *)
(* and its chain at once, as they were posted; and every change of a       *)
(* binding is to one address of one member, who is known, and the address  *)
(* is a wallet he signed with. Of MemberBinding's promise this is what     *)
(* remains: a member may have several addresses, and an address several    *)
(* members.                                                                *)
(***************************************************************************)
CONSTANTS
    Users,    \* Telegram accounts
    Chats,    \* Telegram groups
    Addrs,    \* wallet addresses
    Wallets,  \* Wallets[u]: the addresses u can sign a message with
    Safes,    \* Safe accounts, with their chain, that are posted
    Nil       \* no Safe

VARIABLES
    known,    \* the accounts that have a row
    bound,    \* bound[c]: the <<member, address>> pairs of chat c
    linked    \* linked[c]: the Safe of chat c

vars == <<known, bound, linked>>

Init ==
    /\ known = {}
    /\ bound = [c \in Chats |-> {}]
    /\ linked = [c \in Chats |-> Nil]

(* The first /link or /setup of an account.                                 *)
Know(u) ==
    /\ known' = known \cup {u}
    /\ UNCHANGED <<bound, linked>>

(* A request links the chat, before anybody knows whether it may.           *)
Link(c, s) ==
    /\ linked' = [linked EXCEPT ![c] = s]
    /\ UNCHANGED <<known, bound>>

(* A request creates a row, or revives one.                                 *)
Add(c, u, a) ==
    /\ u \in known /\ a \in Wallets[u]
    /\ bound' = [bound EXCEPT ![c] = @ \cup {<<u, a>>}]
    /\ UNCHANGED <<known, linked>>

(* A request writes another address over a row of its member.               *)
Replace(c, u, a, b) ==
    /\ <<u, a>> \in bound[c]
    /\ u \in known /\ b \in Wallets[u]
    /\ bound' = [bound EXCEPT ![c] = (@ \ {<<u, a>>}) \cup {<<u, b>>}]
    /\ UNCHANGED <<known, linked>>

(* /unlink deletes a row; a second one with the same address may remain.    *)
Remove(c, u, a) ==
    /\ <<u, a>> \in bound[c]
    /\ bound' = [bound EXCEPT ![c] = @ \ {<<u, a>>}]
    /\ UNCHANGED <<known, linked>>

Next ==
    \/ \E u \in Users : Know(u)
    \/ \E c \in Chats, s \in Safes : Link(c, s)
    \/ \E c \in Chats, u \in Users, a \in Addrs :
           \/ Add(c, u, a)
           \/ Remove(c, u, a)
           \/ \E b \in Addrs : Replace(c, u, a, b)

Spec == Init /\ [][Next]_vars

-----------------------------------------------------------------------------
(* A chat binds members it knows to addresses, and has one Safe or none.    *)
TypeOK ==
    /\ known \subseteq Users
    /\ bound \in [Chats -> SUBSET (Users \X Addrs)]
    /\ linked \in [Chats -> Safes \cup {Nil}]

(* Nobody is bound to an address he cannot sign with.                       *)
Signed == \A c \in Chats : \A r \in bound[c] : r[2] \in Wallets[r[1]]
=============================================================================
