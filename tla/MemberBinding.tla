---------------------------- MODULE MemberBinding ----------------------------
(***************************************************************************)
(* What the bot promises a chat about its members' addresses: every member *)
(* is bound to at most one address, every address to at most one member.   *)
(* A member may be bound to another address, or unbound, at any time.      *)
(***************************************************************************)
CONSTANTS
    Users,   \* Telegram accounts
    Chats,   \* Telegram groups
    Addrs,   \* wallet addresses
    Nil      \* "not bound"

VARIABLE bound   \* bound[c][u]: the address of member u in chat c

Init == bound = [c \in Chats |-> [u \in Users |-> Nil]]

(* No other member of the chat holds the address (AddSigner 1.1).           *)
Free(c, u, a) == \A v \in Users \ {u} : bound[c][v] # a

(* A request that went through AddSigner.                                   *)
Bind(c, u, a) ==
    /\ Free(c, u, a)
    /\ bound' = [bound EXCEPT ![c][u] = a]

(* An /unlink that went through RemoveSigner.                               *)
Unbind(c, u) == bound' = [bound EXCEPT ![c][u] = Nil]

Next == \E c \in Chats, u \in Users :
            \/ \E a \in Addrs : Bind(c, u, a)
            \/ Unbind(c, u)

Spec == Init /\ [][Next]_bound

-----------------------------------------------------------------------------
(* A member of a chat is bound to an address or to none.                    *)
TypeOK == bound \in [Chats -> [Users -> Addrs \cup {Nil}]]

(* Two members of a chat never share an address.                            *)
Exclusive ==
    \A c \in Chats : \A u, v \in Users :
        bound[c][u] = bound[c][v] /\ bound[c][u] # Nil => u = v
=============================================================================
