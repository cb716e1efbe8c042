----------------------------- MODULE LinksProofs -----------------------------
(***************************************************************************)
(* Proofs about Links: the types, whom a link pays, who is told that there *)
(* is nobody to pay, and whose Safe it is.                                 *)
(***************************************************************************)
EXTENDS Links, TLAPS

(* What the tables say of the members: a bound member has a user row, and a *)
(* stored name was the member's own.                                        *)
RowsInv ==
    /\ \A c \in Chats : \A r \in bound[c] : stored[r[1]] # Nil
    /\ \A u \in Users : stored[u] # Nil => stored[u] \in held[u]

(* No two accounts have had one name.                                       *)
NamesInv ==
    /\ \A u \in Users : account[u] \in held[u]
    /\ \A u, v \in Users : \A m \in held[u], n \in held[v] : Alike(m, n) => u = v

MembersInv == RowsInv /\ NamesInv

Running == cmd.pc # "idle"

LookedUp == cmd.pc \notin {"idle", "usernames", "recipient", "unlinked"}

(* The steps that the three commands go through.                            *)
StepsInv ==
    Running =>
        /\ cmd.kind = "request" => cmd.pc \in {"usernames", "balance", "threshold", "unlinked", "send"}
        /\ cmd.kind = "create" => cmd.pc \in {"usernames", "admin", "unlinked", "send"}
        /\ cmd.kind = "stream" => cmd.pc \in {"recipient", "contracts", "currency", "unlinked", "send"}

(* /request and /create compare a name that their sender has had.           *)
SenderInv ==
    Running /\ cmd.kind \in {"request", "create"} =>
        \E m \in held[cmd.user] : Lower[m] = cmd.name

(* What a command found is an address of its sender, or of the one named.   *)
PayeeInv ==
    LookedUp =>
        /\ cmd.kind \in {"request", "create"} => <<cmd.user, cmd.to>> \in cmd.rows
        /\ cmd.kind = "stream" =>
               \E u \in Users : /\ <<u, cmd.to>> \in cmd.rows
                               /\ \E n \in held[u] : Alike(n, cmd.name)

(* The Safe that was read is the chat's until POST /link changes it.        *)
SafeInv == Running /\ ~cmd.moved => cmd.safe = linked[cmd.chat]

CmdInv == StepsInv /\ SenderInv /\ PayeeInv

-----------------------------------------------------------------------------
(* Types *)

Active ==
    [pc: {"usernames", "balance", "threshold", "admin", "recipient",
          "contracts", "currency", "unlinked", "send"},
     kind: {"request", "create", "stream"}, chat: Chats, user: Users,
     name: Names, safe: Safes \cup {Nil},
     rows: SUBSET (Users \X Addrs), to: Addrs \cup {Nil},
     moved: BOOLEAN]

(* A command that is not idle has all its locals.                           *)
LEMMA NotIdle ==
    ASSUME TypeOK
    PROVE  /\ cmd = IdleCmd \/ cmd \in Active
           /\ cmd = IdleCmd <=> cmd.pc = "idle"
BY DEF TypeOK, CmdState, Active, IdleCmd

(* What a lookup finds is an address of the rows it read.                   *)
LEMMA FoundTypes ==
    ASSUME TypeOK, cmd \in Active, NEW u \in Users, NEW a, <<u, a>> \in bound[cmd.chat],
           NEW next \in {"balance", "admin", "contracts"}, Found(a, next)
    PROVE  TypeOK'
<1>1. cmd.chat \in Chats /\ bound[cmd.chat] \in SUBSET (Users \X Addrs)
  BY DEF TypeOK, Active, Tables!TypeOK, Known
<1>2. a \in Addrs
  BY <1>1
<1>3. cmd' \in Active /\ <<u, cmd'.to>> \in cmd'.rows
  BY <1>1, <1>2 DEF Found, Active
<1>4. UNCHANGED tables
  BY DEF Found
<1> QED
  BY <1>3, <1>4 DEF TypeOK, tables, CmdState, Active, Tables!TypeOK, Known

(* So has a lookup that finds nobody.                                       *)
LEMMA NotFoundTypes ==
    ASSUME TypeOK, cmd \in Active, NotFound
    PROVE  TypeOK'
<1>1. cmd.chat \in Chats /\ bound[cmd.chat] \in SUBSET (Users \X Addrs)
  BY DEF TypeOK, Active, Tables!TypeOK, Known
<1>2. cmd' \in Active /\ cmd'.pc = "unlinked"
  BY <1>1 DEF NotFound, Active
<1> QED
  BY <1>2 DEF NotFound, TypeOK, tables, CmdState, Active, Tables!TypeOK, Known

(* A step of a command that only moves on, or ends it.                      *)
LEMMA ForwardTypes ==
    ASSUME TypeOK, cmd \in Active, LookedUp, UNCHANGED tables,
           NEW next \in {"threshold", "currency", "send"},
           cmd' = [cmd EXCEPT !.pc = next]
    PROVE  TypeOK'
<1>1. cmd' \in Active /\ cmd'.to = cmd.to /\ cmd'.rows = cmd.rows
  BY DEF Active
<1> QED
  BY <1>1 DEF TypeOK, tables, CmdState, Active, LookedUp, Tables!TypeOK, Known

(* The end of a command has the types.                                     *)
LEMMA RefuseTypes ==
    ASSUME TypeOK, Refuse
    PROVE  TypeOK'
BY DEF TypeOK, Refuse, tables, CmdState, IdleCmd, Tables!TypeOK, Known

(* Init has the types, and every step keeps them.                           *)
THEOREM TypeCorrect == Spec => []TypeOK
<1>1. Init => TypeOK
  BY DEF Init, TypeOK, Tables!Init, Tables!TypeOK, Known, CmdState, IdleCmd
<1>2. TypeOK /\ [Next]_vars => TypeOK'
  <2> SUFFICES ASSUME TypeOK, [Next]_vars PROVE TypeOK'
    OBVIOUS
  <2>1. ASSUME NEW u \in Users, GetOrCreateUser(u) PROVE TypeOK'
    BY <2>1 DEF TypeOK, GetOrCreateUser, Tables!TypeOK, Known
  <2>2. ASSUME NEW u \in Users, NEW n \in Names, Rename(u, n) PROVE TypeOK'
    BY <2>2 DEF TypeOK, Rename, Tables!TypeOK, Known
  <2>3. ASSUME NEW c \in Chats, NEW u \in Users, NEW a \in Addrs, RemoveSigner(c, u, a)
        PROVE  TypeOK'
    BY <2>3 DEF TypeOK, RemoveSigner, Tables!Remove, Tables!TypeOK, Known
  <2>4. ASSUME NEW c \in Chats, NEW u \in Users, NEW a \in Addrs, AddSigner(c, u, a)
        PROVE  TypeOK'
    <3>1. CASE Tables!Add(c, u, a)
      <4>1. bound[c] \cup {<<u, a>>} \in SUBSET (Users \X Addrs)
        BY DEF TypeOK, Tables!TypeOK, Known
      <4>2. Tables!TypeOK'
        BY <3>1, <4>1 DEF TypeOK, Tables!Add, Tables!TypeOK, Known
      <4> QED
        BY <2>4, <4>2 DEF TypeOK, AddSigner
    <3>2. ASSUME NEW old \in Addrs, Tables!Replace(c, u, old, a) PROVE TypeOK'
      <4>1. bound[c] \in SUBSET (Users \X Addrs) /\ <<u, a>> \in Users \X Addrs
        BY DEF TypeOK, Tables!TypeOK, Known
      <4>2. (bound[c] \ {<<u, old>>}) \cup {<<u, a>>} \in SUBSET (Users \X Addrs)
        BY <4>1
      <4>3. Tables!TypeOK'
        BY <3>2, <4>2 DEF TypeOK, Tables!Replace, Tables!TypeOK, Known
      <4> QED
        BY <2>4, <4>3 DEF TypeOK, AddSigner
    <3> QED
      BY <2>4, <3>1, <3>2 DEF AddSigner
  <2>5. ASSUME NEW c \in Chats, NEW s \in Safes, LinkSafe(c, s) PROVE TypeOK'
    <3>1. linked' \in [Chats -> Safes \cup {Nil}]
      BY <2>5 DEF LinkSafe, Tables!Link, TypeOK, Tables!TypeOK
    <3>2. CASE cmd = IdleCmd
      <4>1. cmd' = cmd
        BY <2>5, <3>2, LinksAssumption DEF LinkSafe, IdleCmd
      <4> QED
        BY <2>5, <3>1, <4>1 DEF LinkSafe, Tables!Link, TypeOK, Tables!TypeOK, Known
    <3>3. CASE cmd \in Active
      <4>1. cmd' \in Active /\ cmd' = [cmd EXCEPT !.moved = cmd'.moved]
        BY <2>5, <3>3 DEF LinkSafe, Active
      <4>2. cmd'.pc = cmd.pc /\ cmd'.to = cmd.to /\ cmd'.rows = cmd.rows
        BY <3>3, <4>1 DEF Active
      <4> QED
        BY <2>5, <3>1, <4>1, <4>2 DEF LinkSafe, Tables!Link, TypeOK, CmdState, Active, Tables!TypeOK, Known
    <3> QED
      BY <3>2, <3>3, NotIdle
  <2>6. ASSUME NEW c \in Chats, NEW u \in Users, NEW n \in Names,
               NEW kind \in {"request", "create", "stream"},
               NEW next \in {"usernames", "recipient"},
               QueryChat(kind, c, u, n, next)
        PROVE  TypeOK'
    <3>1. Lower[n] \in Names /\ linked[c] \in Safes \cup {Nil}
      BY LinksAssumption DEF TypeOK, Tables!TypeOK
    <3>2. cmd' = [pc |-> next, kind |-> kind, chat |-> c, user |-> u,
                  name |-> Lower[n], safe |-> linked[c], rows |-> {},
                  to |-> Nil, moved |-> FALSE]
      BY <2>6 DEF QueryChat, IdleCmd
    <3>3. cmd' \in Active /\ cmd'.pc = next
      BY <3>1, <3>2 DEF Active
    <3>4. UNCHANGED tables
      BY <2>6 DEF QueryChat
    <3> QED
      BY <3>3, <3>4 DEF tables, TypeOK, CmdState, Active, Tables!TypeOK, Known
  <2>7. CASE ValidateSetup
    <3>1. cmd \in Active
      BY <2>7, NotIdle DEF ValidateSetup, IdleCmd
    <3>2. ASSUME NEW m \in OwnerUsernames, NEW a \in AddressesNamed(m),
                 Found(a, IF cmd.kind = "request" THEN "balance" ELSE "admin")
          PROVE  TypeOK'
      <4>1. m[a] \in Users /\ <<m[a], a>> \in bound[cmd.chat]
        BY <3>2 DEF AddressesNamed, OwnerUsernames
      <4> QED
        BY <3>1, <3>2, <4>1, FoundTypes
    <3> QED
      BY <2>7, <3>1, <3>2, NotFoundTypes, RefuseTypes DEF ValidateSetup
  <2>8. CASE FindRecipient
    <3>1. cmd \in Active
      BY <2>8, NotIdle DEF FindRecipient, IdleCmd
    <3>2. ASSUME NEW a \in SignersNamed, Found(a, "contracts") PROVE TypeOK'
      <4>1. PICK r \in bound[cmd.chat] : a = r[2]
        BY <3>2 DEF SignersNamed
      <4>2. r[1] \in Users /\ <<r[1], a>> \in bound[cmd.chat]
        BY <3>1, <4>1 DEF TypeOK, Tables!TypeOK, Known, Active
      <4> QED
        BY <3>1, <3>2, <4>2, FoundTypes
    <3> QED
      BY <2>8, <3>1, <3>2, NotFoundTypes, RefuseTypes DEF FindRecipient
  <2>9. CASE ValidateBalance \/ GetThreshold \/ ValidateAdmin
             \/ GetLlamaTokenContract \/ ValidateStream
    <3>1. cmd \in Active /\ LookedUp
      BY <2>9, NotIdle DEF ValidateBalance, GetThreshold, ValidateAdmin,
            GetLlamaTokenContract, ValidateStream, LookedUp, IdleCmd
    <3>2. Refuse \/ \E next \in {"threshold", "currency", "send"} :
                        cmd' = [cmd EXCEPT !.pc = next] /\ UNCHANGED tables
      BY <2>9 DEF ValidateBalance, GetThreshold, ValidateAdmin,
            GetLlamaTokenContract, ValidateStream
    <3> QED
      BY <3>1, <3>2, RefuseTypes, ForwardTypes
  <2>10. CASE Send \/ Crash
    BY <2>10, RefuseTypes DEF Send, Crash
  <2>11. CASE UNCHANGED vars
    BY <2>11 DEF vars, TypeOK, Tables!TypeOK, Known
  <2>12. CASE Command
    <3>1. ASSUME NEW c \in Chats, NEW u \in Users, Request(c, u) \/ Create(c, u)
          PROVE  TypeOK'
      <4>1. account[u] \in Names
        BY DEF TypeOK
      <4> QED
        BY <2>6, <3>1, <4>1 DEF Request, Create
    <3>2. ASSUME NEW c \in Chats, NEW u \in Users, NEW n \in Names, Stream(c, u, n)
          PROVE  TypeOK'
      BY <2>6, <3>2 DEF Stream
    <3> QED
      BY <2>7, <2>8, <2>9, <2>10, <2>12, <3>1, <3>2 DEF Command
  <2> QED
    BY <2>1, <2>2, <2>3, <2>4, <2>5, <2>10, <2>11, <2>12 DEF Next
<1> QED
  BY <1>1, <1>2, PTL DEF Spec

-----------------------------------------------------------------------------
(* Whom a link pays *)

(* The tables keep what they say of the members.                            *)
LEMMA MembersKeep ==
    ASSUME TypeOK, MembersInv, NoName \notin Names, [Next]_vars
    PROVE  MembersInv'
<1>1. ASSUME NEW u \in Users, GetOrCreateUser(u) PROVE MembersInv'
  <2>1. /\ stored' = [stored EXCEPT ![u] = account[u]]
        /\ UNCHANGED <<account, held, bound>>
    BY <1>1 DEF GetOrCreateUser
  <2>2. account[u] \in held[u] /\ account[u] \in Names
    BY DEF MembersInv, NamesInv, TypeOK
  <2>3. account[u] # Nil
    BY <2>2, LinksAssumption
  <2> QED
    BY <2>1, <2>2, <2>3 DEF MembersInv, RowsInv, NamesInv, TypeOK, Tables!TypeOK, Known, Alike
<1>2. ASSUME NEW u \in Users, NEW n \in Names, Rename(u, n) PROVE MembersInv'
  <2>1. /\ account' = [account EXCEPT ![u] = n]
        /\ held' = [held EXCEPT ![u] = held[u] \cup {n}]
        /\ UNCHANGED <<stored, bound>>
    BY <1>2 DEF Rename
  <2>2. \A v \in Users \ {u} : \A m \in held[v] : ~Alike(m, n)
    BY <1>2 DEF Rename, Available
  <2>3. held'[u] = held[u] \cup {n} /\ \A v \in Users \ {u} : held'[v] = held[v]
    BY <2>1 DEF TypeOK
  <2>4. RowsInv'
    BY <2>1, <2>3 DEF MembersInv, RowsInv
  <2>5. \A v \in Users : account'[v] \in held'[v]
    BY <2>1, <2>3 DEF MembersInv, NamesInv, TypeOK
  <2>6. ASSUME NEW v \in Users, NEW w \in Users, NEW m \in held'[v], NEW k \in held'[w],
               Alike(m, k)
        PROVE  v = w
    <3>1. CASE v # u /\ w # u
      BY <2>3, <2>6, <3>1 DEF MembersInv, NamesInv
    <3>2. CASE v = u /\ w # u
      BY <2>2, <2>3, <2>6, <3>2 DEF MembersInv, NamesInv, Alike
    <3>3. CASE v # u /\ w = u
      BY <2>2, <2>3, <2>6, <3>3 DEF MembersInv, NamesInv, Alike
    <3> QED
      BY <3>1, <3>2, <3>3
  <2> QED
    BY <2>4, <2>5, <2>6 DEF MembersInv, NamesInv, Alike
<1>3. ASSUME NEW c \in Chats, NEW u \in Users, NEW a \in Addrs, RemoveSigner(c, u, a)
      PROVE  MembersInv'
  <2>1. \A d \in Chats : bound'[d] \subseteq bound[d]
    BY <1>3 DEF RemoveSigner, Tables!Remove, TypeOK, Tables!TypeOK, Known
  <2> QED
    BY <1>3, <2>1 DEF RemoveSigner, MembersInv, RowsInv, NamesInv, Alike
<1>4. ASSUME NEW c \in Chats, NEW u \in Users, NEW a \in Addrs, AddSigner(c, u, a)
      PROVE  MembersInv'
  <2>1. \A d \in Chats : bound'[d] \subseteq bound[d] \cup {<<u, a>>}
    BY <1>4 DEF AddSigner, Tables!Add, Tables!Replace, TypeOK, Tables!TypeOK, Known
  <2>2. stored[u] # Nil /\ UNCHANGED <<account, held, stored>>
    BY <1>4 DEF AddSigner, Tables!Add, Tables!Replace, Known
  <2>3. \A d \in Chats : \A r \in bound'[d] : stored[r[1]] # Nil
    BY <2>1, <2>2 DEF MembersInv, RowsInv
  <2> QED
    BY <2>2, <2>3 DEF MembersInv, RowsInv, NamesInv, Alike
<1>5. CASE UNCHANGED <<account, held, stored, bound>>
  BY <1>5 DEF MembersInv, RowsInv, NamesInv, Alike
<1>6. CASE Command \/ Crash
  BY <1>5, <1>6 DEF Command, Crash, Refuse, Send, Request, Create, Stream, QueryChat,
     ValidateSetup, ValidateBalance, GetThreshold, ValidateAdmin, FindRecipient,
     GetLlamaTokenContract, ValidateStream, Found, NotFound, tables
<1> QED
  BY <1>1, <1>2, <1>3, <1>4, <1>5, <1>6 DEF Next, LinkSafe, Tables!Link, vars

(* What was found stays right while the tables change.                      *)
LEMMA TablesKeepCmd ==
    ASSUME TypeOK, CmdInv, UNCHANGED cmd, \A u \in Users : held[u] \subseteq held'[u]
    PROVE  CmdInv'
<1>1. cmd = IdleCmd \/ cmd.user \in Users
  BY NotIdle DEF Active
<1>2. StepsInv'
  BY DEF CmdInv, StepsInv, Running
<1>3. SenderInv'
  BY <1>1 DEF CmdInv, SenderInv, Running, IdleCmd
<1>4. PayeeInv'
  BY DEF CmdInv, PayeeInv, LookedUp, Alike
<1> QED
  BY <1>2, <1>3, <1>4 DEF CmdInv

(* After the end of a command there is nothing to be right or wrong about.  *)
LEMMA RefuseCmd ==
    ASSUME Refuse
    PROVE  CmdInv'
BY DEF Refuse, CmdInv, StepsInv, SenderInv, PayeeInv, Running, LookedUp, IdleCmd

(* Who finds nobody has nobody to pay.                                      *)
LEMMA NotFoundCmd ==
    ASSUME CmdInv, cmd \in Active, Running, NotFound
    PROVE  CmdInv'
<1>1. /\ cmd'.kind = cmd.kind /\ cmd'.user = cmd.user /\ cmd'.name = cmd.name
      /\ cmd'.pc = "unlinked" /\ UNCHANGED held
  BY DEF NotFound, Active, tables
<1> QED
  BY <1>1 DEF CmdInv, StepsInv, SenderInv, PayeeInv, Running, LookedUp

(* A step that only moves on, along the steps of its command.               *)
LEMMA ForwardCmd ==
    ASSUME CmdInv, cmd \in Active, LookedUp, UNCHANGED tables,
           NEW next \in {"threshold", "currency", "send"},
           cmd' = [cmd EXCEPT !.pc = next], StepsInv'
    PROVE  CmdInv'
<1>1. /\ cmd'.kind = cmd.kind /\ cmd'.user = cmd.user /\ cmd'.name = cmd.name
      /\ cmd'.rows = cmd.rows /\ cmd'.to = cmd.to
  BY DEF Active
<1>2. SenderInv'
  BY <1>1 DEF CmdInv, SenderInv, Running, LookedUp, tables
<1>3. PayeeInv'
  BY <1>1 DEF CmdInv, PayeeInv, LookedUp, tables, Alike
<1> QED
  BY <1>2, <1>3 DEF CmdInv

(* The name of a command's sender is found with an address of the sender:   *)
(* nobody else has had the name.                                            *)
LEMMA SetupCmd ==
    ASSUME TypeOK, MembersInv, CmdInv, ValidateSetup
    PROVE  CmdInv'
<1>1. cmd \in Active /\ cmd.kind \in {"request", "create"}
  BY NotIdle DEF ValidateSetup, IdleCmd, CmdInv, StepsInv, Running, Active
<1>2. ASSUME NEW m \in OwnerUsernames, NEW a \in AddressesNamed(m),
             Found(a, IF cmd.kind = "request" THEN "balance" ELSE "admin")
      PROVE  CmdInv'
  <2>1. /\ m[a] \in Users /\ <<m[a], a>> \in bound[cmd.chat]
        /\ Lower[stored[m[a]]] = cmd.name
    BY <1>2 DEF AddressesNamed, OwnerUsernames
  <2>2. cmd.user \in Users /\ cmd.chat \in Chats
    BY <1>1 DEF Active
  <2>3. stored[m[a]] \in held[m[a]]
    BY <2>1, <2>2 DEF MembersInv, RowsInv
  <2>4. PICK n \in held[cmd.user] : Lower[n] = cmd.name
    BY <1>1 DEF CmdInv, SenderInv, Running, ValidateSetup
  <2>5. m[a] = cmd.user
    BY <2>1, <2>2, <2>3, <2>4 DEF MembersInv, NamesInv, Alike
  <2>6. /\ cmd'.kind = cmd.kind /\ cmd'.user = cmd.user /\ cmd'.name = cmd.name
        /\ cmd'.rows = bound[cmd.chat] /\ cmd'.to = a
        /\ cmd'.pc = IF cmd.kind = "request" THEN "balance" ELSE "admin"
    BY <1>1, <1>2 DEF Found, Active
  <2>7. UNCHANGED held
    BY <1>2 DEF Found, tables
  <2> QED
    BY <1>1, <2>1, <2>4, <2>5, <2>6, <2>7
    DEF CmdInv, StepsInv, SenderInv, PayeeInv, Running, LookedUp
<1>3. Running
  BY DEF ValidateSetup, Running
<1> QED
  BY <1>1, <1>2, <1>3, NotFoundCmd, RefuseCmd DEF ValidateSetup

(* A recipient's address is that of a member whose stored name was given.   *)
LEMMA RecipientCmd ==
    ASSUME TypeOK, MembersInv, CmdInv, FindRecipient
    PROVE  CmdInv'
<1>1. cmd \in Active /\ cmd.kind = "stream"
  BY NotIdle DEF FindRecipient, IdleCmd, CmdInv, StepsInv, Running, Active
<1>2. ASSUME NEW a \in SignersNamed, Found(a, "contracts") PROVE CmdInv'
  <2>0. PICK r \in bound[cmd.chat] : stored[r[1]] = cmd.name /\ a = r[2]
    BY <1>2 DEF SignersNamed
  <2> DEFINE u == r[1]
  <2>1. u \in Users /\ <<u, a>> \in bound[cmd.chat] /\ stored[u] = cmd.name
    BY <1>1, <2>0 DEF TypeOK, Tables!TypeOK, Known, Active
  <2>2. cmd.name \in held[u]
    BY <1>1, <2>1 DEF MembersInv, RowsInv, Active
  <2>3. /\ cmd'.kind = cmd.kind /\ cmd'.name = cmd.name /\ cmd'.pc = "contracts"
        /\ cmd'.rows = bound[cmd.chat] /\ cmd'.to = a
    BY <1>1, <1>2 DEF Found, Active
  <2>4. UNCHANGED held
    BY <1>2 DEF Found, tables
  <2> QED
    BY <1>1, <2>1, <2>2, <2>3, <2>4
    DEF CmdInv, StepsInv, SenderInv, PayeeInv, Running, LookedUp, Alike
<1>3. Running
  BY DEF FindRecipient, Running
<1> QED
  BY <1>1, <1>2, <1>3, NotFoundCmd, RefuseCmd DEF FindRecipient

(* Every step keeps what a command knows of its sender and its payee.       *)
LEMMA CmdKeeps ==
    ASSUME TypeOK, MembersInv, CmdInv, [Next]_vars
    PROVE  CmdInv'
<1>1. ASSUME NEW u \in Users, GetOrCreateUser(u) PROVE CmdInv'
  BY <1>1, TablesKeepCmd DEF GetOrCreateUser
<1>2. ASSUME NEW u \in Users, NEW n \in Names, Rename(u, n) PROVE CmdInv'
  <2>1. \A v \in Users : held[v] \subseteq held'[v]
    BY <1>2 DEF Rename, TypeOK
  <2> QED
    BY <1>2, <2>1, TablesKeepCmd DEF Rename
<1>3. ASSUME NEW c \in Chats, NEW u \in Users, NEW a \in Addrs, RemoveSigner(c, u, a)
      PROVE  CmdInv'
  BY <1>3, TablesKeepCmd DEF RemoveSigner
<1>4. ASSUME NEW c \in Chats, NEW u \in Users, NEW a \in Addrs, AddSigner(c, u, a)
      PROVE  CmdInv'
  BY <1>4, TablesKeepCmd DEF AddSigner
<1>5. ASSUME NEW c \in Chats, NEW s \in Safes, LinkSafe(c, s) PROVE CmdInv'
  <2>1. CASE cmd = IdleCmd \/ cmd.chat # c
    <3>1. UNCHANGED <<cmd, held>>
      BY <1>5, <2>1, LinksAssumption DEF LinkSafe, IdleCmd
    <3> QED
      BY <3>1, TablesKeepCmd
  <2>2. CASE cmd \in Active /\ cmd.chat = c
    <3>1. /\ cmd'.pc = cmd.pc /\ cmd'.kind = cmd.kind /\ cmd'.user = cmd.user
          /\ cmd'.name = cmd.name /\ cmd'.rows = cmd.rows /\ cmd'.to = cmd.to
          /\ UNCHANGED held
      BY <1>5, <2>2 DEF LinkSafe, Active
    <3> QED
      BY <3>1 DEF CmdInv, StepsInv, SenderInv, PayeeInv, Running, LookedUp, Alike
  <2> QED
    BY <2>1, <2>2, NotIdle
<1>6. ASSUME NEW c \in Chats, NEW u \in Users, Request(c, u) \/ Create(c, u)
      PROVE  CmdInv'
  <2>1. /\ cmd'.pc = "usernames" /\ cmd'.kind \in {"request", "create"}
        /\ cmd'.user = u /\ cmd'.name = Lower[account[u]] /\ UNCHANGED held
    BY <1>6 DEF Request, Create, QueryChat, IdleCmd, tables
  <2>2. account[u] \in held[u]
    BY DEF MembersInv, NamesInv
  <2> QED
    BY <2>1, <2>2 DEF CmdInv, StepsInv, SenderInv, PayeeInv, Running, LookedUp
<1>7. ASSUME NEW c \in Chats, NEW u \in Users, NEW n \in Names, Stream(c, u, n)
      PROVE  CmdInv'
  <2>1. cmd'.pc = "recipient" /\ cmd'.kind = "stream"
    BY <1>7 DEF Stream, QueryChat, IdleCmd
  <2> QED
    BY <2>1 DEF CmdInv, StepsInv, SenderInv, PayeeInv, Running, LookedUp
<1>8. CASE ValidateBalance \/ GetThreshold \/ ValidateAdmin
           \/ GetLlamaTokenContract \/ ValidateStream
  <2>1. cmd \in Active /\ LookedUp
    BY <1>8, NotIdle DEF ValidateBalance, GetThreshold, ValidateAdmin,
          GetLlamaTokenContract, ValidateStream, LookedUp, IdleCmd
  <2>2. ASSUME NEW next \in {"threshold", "currency", "send"},
               cmd' = [cmd EXCEPT !.pc = next], UNCHANGED tables
        PROVE  CmdInv'
    <3>1. cmd'.pc = next /\ cmd'.kind = cmd.kind
      BY <2>1, <2>2 DEF Active
    <3>2. next = "threshold" => cmd.pc = "balance"
      BY <1>8, <2>1, <3>1 DEF ValidateBalance, GetThreshold, ValidateAdmin,
         GetLlamaTokenContract, ValidateStream, Active, Refuse, IdleCmd
    <3>3. next = "currency" => cmd.pc = "contracts"
      BY <1>8, <2>1, <3>1 DEF ValidateBalance, GetThreshold, ValidateAdmin,
         GetLlamaTokenContract, ValidateStream, Active, Refuse, IdleCmd
    <3>4. StepsInv'
      BY <2>1, <3>1, <3>2, <3>3 DEF CmdInv, StepsInv, Running, LookedUp, Active
    <3> QED
      BY <2>1, <2>2, <3>4, ForwardCmd
  <2>3. Refuse \/ \E next \in {"threshold", "currency", "send"} :
                      cmd' = [cmd EXCEPT !.pc = next] /\ UNCHANGED tables
    BY <1>8 DEF ValidateBalance, GetThreshold, ValidateAdmin,
          GetLlamaTokenContract, ValidateStream
  <2> QED
    BY <2>2, <2>3, RefuseCmd
<1>9. CASE Send \/ Crash
  BY <1>9, RefuseCmd DEF Send, Crash
<1>10. CASE UNCHANGED vars
  BY <1>10, TablesKeepCmd DEF vars
<1> QED
  BY <1>1, <1>2, <1>3, <1>4, <1>5, <1>6, <1>7, <1>8, <1>9, <1>10, SetupCmd, RecipientCmd
  DEF Next, Command

(* What the commands know holds in every behaviour, if there are names.     *)
LEMMA PayeesAreKnown ==
    ASSUME NoName \notin Names
    PROVE  Spec => [](CmdInv /\ TypeOK)
<1>1. Init => MembersInv /\ CmdInv
  <2> SUFFICES ASSUME Init PROVE MembersInv /\ CmdInv
    OBVIOUS
  <2>1. \A u \in Users : account[u] \in Names /\ held[u] = {account[u]}
    BY DEF Init
  <2>2. NamesInv
    BY <2>1 DEF Init, NamesInv, Available, Alike
  <2>3. RowsInv
    BY DEF Init, RowsInv, Tables!Init
  <2>4. CmdInv
    BY DEF Init, CmdInv, StepsInv, SenderInv, PayeeInv, Running, LookedUp, IdleCmd
  <2> QED
    BY <2>2, <2>3, <2>4 DEF MembersInv
<1>2. TypeOK /\ MembersInv /\ CmdInv /\ [Next]_vars => MembersInv' /\ CmdInv'
  BY MembersKeep, CmdKeeps
<1> QED
  BY <1>1, <1>2, TypeCorrect, PTL DEF Spec

(* If every account has a user name and no name changes hands, a /request   *)
(* and a /create are for an address of their sender, whatever is bound,     *)
(* unbound, shared, renamed or relinked while the command runs.             *)
THEOREM LinksPayTheRight ==
    ASSUME NoName \notin Names
    PROVE  Spec => []PaysRequester
<1>1. CmdInv => PaysRequester
  BY DEF CmdInv, PayeeInv, LookedUp, PaysRequester
<1> QED
  BY <1>1, PayeesAreKnown, PTL

(* Under the same assumption a /stream pays a member who has, or has had,   *)
(* the name it was sent for.                                                *)
THEOREM StreamsPayTheNamed ==
    ASSUME NoName \notin Names
    PROVE  Spec => []StreamPaysNamed
<1>1. CmdInv => StreamPaysNamed
  BY DEF CmdInv, PayeeInv, LookedUp, StreamPaysNamed
<1> QED
  BY <1>1, PayeesAreKnown, PTL

-----------------------------------------------------------------------------
(* Whose wallet is paid *)

(* Links does to the tables what ChatTables allows, and no more: what every *)
(* behaviour of ChatTables keeps, the commands can rely on.                 *)
LEMMA StepsOfTables ==
    ASSUME TypeOK, [Next]_vars
    PROVE  [Tables!Next]_(Tables!vars)
<1>1. ASSUME NEW u \in Users, GetOrCreateUser(u) PROVE Tables!Know(u)
  <2>1. stored' = [stored EXCEPT ![u] = account[u]] /\ UNCHANGED <<bound, linked>>
    BY <1>1 DEF GetOrCreateUser
  <2>2. account[u] # Nil
    BY LinksAssumption DEF TypeOK
  <2>3. Known' = Known \cup {u}
    BY <2>1, <2>2 DEF Known, TypeOK
  <2> QED
    BY <2>1, <2>3 DEF Tables!Know
<1>2. ASSUME NEW u \in Users, NEW n \in Names, Rename(u, n) PROVE UNCHANGED Tables!vars
  BY <1>2 DEF Rename, Tables!vars, Known
<1>3. ASSUME NEW c \in Chats, NEW u \in Users, NEW a \in Addrs, RemoveSigner(c, u, a)
      PROVE  Tables!Next
  BY <1>3 DEF RemoveSigner, Tables!Next
<1>4. ASSUME NEW c \in Chats, NEW u \in Users, NEW a \in Addrs, AddSigner(c, u, a)
      PROVE  Tables!Next
  BY <1>4 DEF AddSigner, Tables!Next
<1>5. ASSUME NEW c \in Chats, NEW s \in Safes, LinkSafe(c, s) PROVE Tables!Next
  BY <1>5 DEF LinkSafe, Tables!Next
<1>6. CASE UNCHANGED tables
  BY <1>6 DEF tables, Tables!vars, Known
<1>7. CASE Command \/ Crash
  BY <1>6, <1>7 DEF Command, Crash, Refuse, Send, Request, Create, Stream, QueryChat,
     ValidateSetup, ValidateBalance, GetThreshold, ValidateAdmin, FindRecipient,
     GetLlamaTokenContract, ValidateStream, Found, NotFound
<1>8. CASE UNCHANGED vars
  BY <1>6, <1>8 DEF vars, tables
<1> QED
  BY <1>1, <1>2, <1>3, <1>4, <1>5, <1>7, <1>8 DEF Next, Tables!Next

(* In ChatTables nobody gets bound to an address he cannot sign with.       *)
LEMMA TablesStaySigned ==
    ASSUME Tables!TypeOK, Tables!Signed, [Tables!Next]_(Tables!vars)
    PROVE  Tables!Signed'
<1>1. ASSUME NEW c \in Chats, NEW u \in Users, NEW a \in Addrs, Tables!Add(c, u, a)
      PROVE  \A d \in Chats : bound'[d] \subseteq bound[d] \cup {<<u, a>>}
  BY <1>1 DEF Tables!Add, Tables!TypeOK
<1>2. ASSUME NEW c \in Chats, NEW u \in Users, NEW a \in Addrs, NEW b \in Addrs,
             Tables!Replace(c, u, a, b)
      PROVE  \A d \in Chats : bound'[d] \subseteq bound[d] \cup {<<u, b>>}
  BY <1>2 DEF Tables!Replace, Tables!TypeOK
<1>3. ASSUME NEW c \in Chats, NEW u \in Users, NEW a \in Addrs, Tables!Remove(c, u, a)
      PROVE  \A d \in Chats : bound'[d] \subseteq bound[d]
  BY <1>3 DEF Tables!Remove, Tables!TypeOK
<1>4. CASE UNCHANGED bound
  BY <1>4 DEF Tables!Signed
<1>5. ASSUME NEW u \in Users, NEW a \in Wallets[u],
             \A d \in Chats : bound'[d] \subseteq bound[d] \cup {<<u, a>>}
      PROVE  Tables!Signed'
  BY <1>5 DEF Tables!Signed
<1>6. CASE \E c \in Chats, u \in Users, a \in Addrs : Tables!Remove(c, u, a)
  BY <1>3, <1>6 DEF Tables!Signed
<1>7. CASE \E c \in Chats, u \in Users, a \in Addrs :
               Tables!Add(c, u, a) \/ \E b \in Addrs : Tables!Replace(c, u, a, b)
  BY <1>1, <1>2, <1>5, <1>7 DEF Tables!Add, Tables!Replace
<1> QED
  BY <1>4, <1>6, <1>7 DEF Tables!Next, Tables!Know, Tables!Link, Tables!vars

(* So are the rows a command has read.                                      *)
WalletInv ==
    /\ Tables!Signed
    /\ \A r \in cmd.rows : r[2] \in Wallets[r[1]]

(* Rows are read from the tables, and given back when the command ends.     *)
LEMMA WalletsKeep ==
    ASSUME TypeOK, WalletInv, [Next]_vars
    PROVE  WalletInv'
<1>1. Tables!Signed'
  BY StepsOfTables, TablesStaySigned DEF TypeOK, WalletInv
<1>2. cmd = IdleCmd \/ cmd \in Active
  BY NotIdle
<1>3. cmd'.rows \in {cmd.rows, {}} \cup {bound[c] : c \in Chats}
  <2>1. CASE UNCHANGED cmd
    BY <2>1
  <2>2. CASE Refuse
    BY <2>2 DEF Refuse, IdleCmd
  <2>3. ASSUME NEW a, NEW next, cmd \in Active, Found(a, next) \/ NotFound
        PROVE  cmd'.rows \in {bound[c] : c \in Chats}
    BY <2>3 DEF Found, NotFound, Active
  <2>4. CASE ValidateSetup \/ FindRecipient
    <3>1. cmd \in Active
      BY <2>4, <1>2 DEF ValidateSetup, FindRecipient, IdleCmd
    <3> QED
      BY <2>2, <2>3, <2>4, <3>1 DEF ValidateSetup, FindRecipient
  <2>5. CASE ValidateBalance \/ GetThreshold \/ ValidateAdmin
             \/ GetLlamaTokenContract \/ ValidateStream
    BY <1>2, <2>2, <2>5 DEF ValidateBalance, GetThreshold, ValidateAdmin,
       GetLlamaTokenContract, ValidateStream, Active, IdleCmd
  <2>6. CASE \E c \in Chats, u \in Users :
                 Request(c, u) \/ Create(c, u) \/ \E n \in Names : Stream(c, u, n)
    BY <2>6 DEF Request, Create, Stream, QueryChat, IdleCmd
  <2>7. CASE \E c \in Chats, s \in Safes : LinkSafe(c, s)
    BY <1>2, <2>7 DEF LinkSafe, Active, IdleCmd
  <2>8. CASE \/ \E u \in Users : GetOrCreateUser(u) \/ \E n \in Names : Rename(u, n)
             \/ \E c \in Chats, u \in Users, a \in Addrs :
                    RemoveSigner(c, u, a) \/ AddSigner(c, u, a)
    BY <2>1, <2>8 DEF GetOrCreateUser, Rename, RemoveSigner, AddSigner
  <2> QED
    BY <2>1, <2>2, <2>4, <2>5, <2>6, <2>7, <2>8 DEF Next, Command, Send, Crash, vars
<1> QED
  BY <1>1, <1>3 DEF WalletInv, Tables!Signed

(* Under the same assumption every link pays a wallet that its payee has    *)
(* signed with: the guarantee of the tables, which holds whatever requests  *)
(* overlap, carried through the lookup by name to the link.                 *)
THEOREM LinksPayOwnWallets ==
    ASSUME NoName \notin Names
    PROVE  Spec => []PaysOwnWallet
<1>1. Init => WalletInv
  BY DEF Init, WalletInv, Tables!Init, Tables!Signed, IdleCmd
<1>2. TypeOK /\ WalletInv /\ [Next]_vars => WalletInv'
  BY WalletsKeep
<1>3. TypeOK /\ CmdInv /\ WalletInv => PaysOwnWallet
  <2> SUFFICES ASSUME TypeOK, CmdInv, WalletInv, cmd.pc = "send" PROVE PaysOwnWallet
    BY DEF PaysOwnWallet
  <2>1. cmd \in Active /\ LookedUp
    BY NotIdle DEF LookedUp, IdleCmd
  <2>2. CASE cmd.kind = "stream"
    <3>1. PICK u \in Users : /\ <<u, cmd.to>> \in cmd.rows
                             /\ \E n \in held[u] : Alike(n, cmd.name)
      BY <2>1, <2>2 DEF CmdInv, PayeeInv
    <3> QED
      BY <2>2, <3>1 DEF WalletInv, PaysOwnWallet
  <2>3. CASE cmd.kind # "stream"
    <3>1. cmd.user \in Users /\ <<cmd.user, cmd.to>> \in cmd.rows
      BY <2>1, <2>3 DEF CmdInv, PayeeInv, Active
    <3> QED
      BY <2>3, <3>1 DEF WalletInv, PaysOwnWallet
  <2> QED
    BY <2>2, <2>3
<1> QED
  BY <1>1, <1>2, <1>3, TypeCorrect, PayeesAreKnown, PTL DEF Spec

-----------------------------------------------------------------------------
(* Whose Safe it is *)

CreatorInv == SafeInv /\ CreatorOwnsSafe /\ StepsInv

(* A step that reads or moves on within a running command.                  *)
LEMMA KeepsSafe ==
    ASSUME CreatorInv, cmd \in Active, cmd' \in Active, UNCHANGED linked,
           cmd'.kind = cmd.kind, cmd'.safe = cmd.safe, cmd'.chat = cmd.chat,
           cmd'.moved = cmd.moved, StepsInv',
           cmd'.kind = "create" => cmd'.pc # "send"
    PROVE  CreatorInv'
BY DEF CreatorInv, SafeInv, CreatorOwnsSafe, Running, Active

(* An ended command has no Safe.                                            *)
LEMMA RefuseSafe ==
    ASSUME Refuse
    PROVE  CreatorInv'
BY DEF Refuse, CreatorInv, SafeInv, CreatorOwnsSafe, StepsInv, Running, IdleCmd

(* Names and bindings do not matter to the Safe that was read.              *)
LEMMA TablesKeepSafe ==
    ASSUME CreatorInv, UNCHANGED <<cmd, linked>>
    PROVE  CreatorInv'
BY DEF CreatorInv, SafeInv, CreatorOwnsSafe, StepsInv, Running

(* If no POST /link came between them, Status asked for the owners of the   *)
(* Safe that the command had read.                                          *)
LEMMA AdminSafe ==
    ASSUME TypeOK, CreatorInv, ValidateAdmin
    PROVE  CreatorInv'
<1>1. cmd \in Active
  BY NotIdle DEF ValidateAdmin, IdleCmd
<1>2. ASSUME NEW owners \in StatusAnswers, cmd.to \in owners,
             cmd' = [cmd EXCEPT !.pc = "send"], UNCHANGED tables
      PROVE  CreatorInv'
  <2>1. /\ cmd'.pc = "send" /\ cmd'.kind = cmd.kind /\ cmd'.safe = cmd.safe
        /\ cmd'.chat = cmd.chat /\ cmd'.moved = cmd.moved /\ cmd'.to = cmd.to
    BY <1>1, <1>2 DEF Active
  <2>2. linked[cmd.chat] \in Safes /\ cmd.to \in Owners[linked[cmd.chat]]
    BY <1>2 DEF StatusAnswers
  <2>3. ~cmd.moved => cmd.safe = linked[cmd.chat]
    BY DEF CreatorInv, SafeInv, Running, ValidateAdmin
  <2>4. cmd.kind = "create"
    BY <1>1 DEF CreatorInv, StepsInv, Running, ValidateAdmin, Active
  <2> QED
    BY <1>2, <2>1, <2>2, <2>3, <2>4
    DEF CreatorInv, SafeInv, CreatorOwnsSafe, StepsInv, Running, tables
<1> QED
  BY <1>2, RefuseSafe DEF ValidateAdmin

(* Every step keeps the Safe that was read the chat's, unless it was moved.  *)
LEMMA CreatorKeeps ==
    ASSUME TypeOK, TypeOK', CreatorInv, [Next]_vars
    PROVE  CreatorInv'
<1>1. CASE UNCHANGED <<cmd, linked>>
  BY <1>1, TablesKeepSafe
<1>2. ASSUME NEW c \in Chats, NEW s \in Safes, LinkSafe(c, s) PROVE CreatorInv'
  <2>1. CASE cmd = IdleCmd
    <3>1. cmd' = cmd
      BY <1>2, <2>1, LinksAssumption DEF LinkSafe, IdleCmd
    <3> QED
      BY <2>1, <3>1 DEF CreatorInv, SafeInv, CreatorOwnsSafe, StepsInv, Running, IdleCmd
  <2>2. CASE cmd \in Active /\ cmd.chat # c
    <3>1. cmd' = cmd /\ linked'[cmd.chat] = linked[cmd.chat]
      BY <1>2, <2>2 DEF LinkSafe, Tables!Link, TypeOK, Tables!TypeOK, Active
    <3> QED
      BY <3>1 DEF CreatorInv, SafeInv, CreatorOwnsSafe, StepsInv, Running
  <2>3. CASE cmd \in Active /\ cmd.chat = c
    <3>1. /\ cmd'.pc = cmd.pc /\ cmd'.kind = cmd.kind /\ cmd'.safe = cmd.safe
          /\ cmd'.chat = cmd.chat /\ cmd'.to = cmd.to
          /\ cmd'.moved = (cmd.moved \/ linked[c] # s)
      BY <1>2, <2>3 DEF LinkSafe, Active
    <3>2. linked'[c] = s
      BY <1>2 DEF LinkSafe, Tables!Link, TypeOK, Tables!TypeOK
    <3> QED
      BY <2>3, <3>1, <3>2 DEF CreatorInv, SafeInv, CreatorOwnsSafe, StepsInv, Running
  <2> QED
    BY <2>1, <2>2, <2>3, NotIdle
<1>3. ASSUME NEW c \in Chats, NEW u \in Users, NEW n \in Names,
             NEW kind \in {"request", "create", "stream"},
             NEW next \in {"usernames", "recipient"},
             QueryChat(kind, c, u, n, next),
             next = "recipient" <=> kind = "stream"
      PROVE  CreatorInv'
  <2>1. /\ cmd'.pc = next /\ cmd'.kind = kind /\ cmd'.safe = linked[c]
        /\ cmd'.chat = c /\ UNCHANGED linked
    BY <1>3 DEF QueryChat, IdleCmd, tables
  <2> QED
    BY <1>3, <2>1 DEF CreatorInv, SafeInv, CreatorOwnsSafe, StepsInv, Running
<1>4. CASE Command
  <2>1. ASSUME NEW c \in Chats, NEW u \in Users, Request(c, u) \/ Create(c, u)
        PROVE  CreatorInv'
    BY <1>3, <2>1 DEF Request, Create, TypeOK
  <2>2. ASSUME NEW c \in Chats, NEW u \in Users, NEW n \in Names, Stream(c, u, n)
        PROVE  CreatorInv'
    BY <1>3, <2>2 DEF Stream
  <2>3. CASE ValidateSetup \/ ValidateBalance \/ GetThreshold \/ FindRecipient
             \/ GetLlamaTokenContract \/ ValidateStream
    <3>1. cmd \in Active
      BY <2>3, NotIdle DEF ValidateSetup, ValidateBalance, GetThreshold,
         FindRecipient, GetLlamaTokenContract, ValidateStream, IdleCmd
    <3>2. CASE Refuse
      BY <3>2, RefuseSafe
    <3>3. CASE ~Refuse
      <4>1. /\ cmd'.kind = cmd.kind /\ cmd'.safe = cmd.safe
            /\ cmd'.chat = cmd.chat /\ cmd'.moved = cmd.moved
            /\ UNCHANGED linked /\ cmd'.pc # "idle"
        BY <2>3, <3>1, <3>3 DEF ValidateSetup, ValidateBalance, GetThreshold,
           FindRecipient, GetLlamaTokenContract, ValidateStream, Found, NotFound, tables, Active
      <4>2. cmd' \in Active
        BY <4>1 DEF TypeOK, CmdState, Active, IdleCmd
      <4>3. StepsInv' /\ (cmd'.kind = "create" => cmd'.pc # "send")
        BY <2>3, <3>1, <3>3 DEF ValidateSetup, ValidateBalance, GetThreshold,
           FindRecipient, GetLlamaTokenContract, ValidateStream, Found, NotFound, Active,
           CreatorInv, StepsInv, Running
      <4> QED
        BY <3>1, <4>1, <4>2, <4>3, KeepsSafe
    <3> QED
      BY <3>2, <3>3
  <2> QED
    BY <1>4, <2>1, <2>2, <2>3, AdminSafe, RefuseSafe DEF Command, Send
<1> QED
  BY <1>1, <1>2, <1>4, RefuseSafe
  DEF Next, Crash, vars, GetOrCreateUser, Rename, RemoveSigner, AddSigner, Tables!Add, Tables!Replace, Tables!Remove

(* A /create that is answered links to a Safe of its sender, unless the     *)
(* chat was relinked while it ran.                                          *)
THEOREM CreatorsOwnTheSafe == Spec => []CreatorOwnsSafe
<1>1. Init => CreatorInv
  BY DEF Init, CreatorInv, SafeInv, CreatorOwnsSafe, StepsInv, Running, IdleCmd
<1>2. TypeOK /\ TypeOK' /\ CreatorInv /\ [Next]_vars => CreatorInv'
  BY CreatorKeeps
<1>3. CreatorInv => CreatorOwnsSafe
  BY DEF CreatorInv
<1> QED
  BY <1>1, <1>2, <1>3, TypeCorrect, PTL DEF Spec

-----------------------------------------------------------------------------
(* Who is not found *)

(* A lookup that ends in vain read no row with the name, but for those whose*)
(* address another member's entry of the map has.                           *)
LEMMA NotFoundIsTold ==
    ASSUME TypeOK, StepsInv, NotFound, cmd \in Active, BoundAreFound,
           \/ FindRecipient /\ SignersNamed = {}
           \/ ValidateSetup /\ \E m \in OwnerUsernames : AddressesNamed(m) = {}
    PROVE  BoundAreFound'
<1>1. /\ cmd'.kind = cmd.kind /\ cmd'.user = cmd.user /\ cmd'.name = cmd.name
      /\ cmd'.rows = bound[cmd.chat] /\ UNCHANGED stored
  BY DEF NotFound, Active, tables
<1> SUFFICES ASSUME NEW a \in Addrs, NEW u \in Users, <<u, a>> \in bound[cmd.chat],
                    Lower[stored[u]] = cmd.name
             PROVE  IF cmd.kind = "stream" THEN stored[u] # Lower[stored[u]]
                    ELSE \E v \in Users \ {u} : <<v, a>> \in bound[cmd.chat]
  BY <1>1 DEF BoundAreFound
<1>2. CASE FindRecipient /\ SignersNamed = {}
  <2>1. cmd.kind = "stream"
    BY <1>2 DEF FindRecipient, StepsInv, Running, Active
  <2>2. stored[u] # cmd.name
    BY <1>2 DEF SignersNamed
  <2> QED
    BY <2>1, <2>2
<1>3. CASE ValidateSetup /\ \E m \in OwnerUsernames : AddressesNamed(m) = {}
  <2>1. cmd.kind # "stream"
    BY <1>3 DEF ValidateSetup, StepsInv, Running, Active
  <2>2. PICK m \in OwnerUsernames : AddressesNamed(m) = {}
    BY <1>3
  <2>3. a \in DOMAIN m
    BY DEF OwnerUsernames
  <2>4. m[a] \in Users /\ <<m[a], a>> \in bound[cmd.chat]
    BY <2>3 DEF OwnerUsernames
  <2>5. m[a] # u
    BY <2>2, <2>3 DEF AddressesNamed
  <2> QED
    BY <2>1, <2>4, <2>5
<1> QED
  BY <1>2, <1>3

(* Whoever is bound in a chat is found there, but for a former name, for an *)
(* address that others share, and, by /stream, for a capital in the name:   *)
(* whatever requests race each other, and whatever is renamed or unbound.   *)
THEOREM BoundMembersAreFound == Spec => []BoundAreFound
<1>1. Init => BoundAreFound /\ StepsInv
  BY DEF Init, BoundAreFound, StepsInv, Running, IdleCmd
<1>2. TypeOK /\ StepsInv /\ StepsInv' /\ BoundAreFound /\ [Next]_vars => BoundAreFound'
  <2> SUFFICES ASSUME TypeOK, StepsInv, BoundAreFound, [Next]_vars, cmd'.pc = "unlinked"
               PROVE  BoundAreFound'
    BY DEF BoundAreFound
  <2>1. CASE UNCHANGED <<cmd, stored>>
    BY <2>1 DEF BoundAreFound
  <2>2. ASSUME NEW c \in Chats, NEW s \in Safes, LinkSafe(c, s) PROVE BoundAreFound'
    <3>1. /\ cmd'.pc = cmd.pc /\ cmd'.kind = cmd.kind
          /\ cmd'.name = cmd.name /\ cmd'.rows = cmd.rows /\ UNCHANGED stored
      BY <2>2, NotIdle DEF LinkSafe, Active, IdleCmd
    <3> QED
      BY <3>1 DEF BoundAreFound
  <2>3. ASSUME NEW u \in Users, GetOrCreateUser(u) PROVE FALSE
    BY <2>3 DEF GetOrCreateUser, Idle, IdleCmd
  <2>4. CASE ValidateSetup \/ FindRecipient
    <3>1. cmd \in Active
      BY <2>4, NotIdle DEF ValidateSetup, FindRecipient, IdleCmd
    <3>2. ASSUME NEW a, NEW next \in {"balance", "admin", "contracts"}, Found(a, next)
          PROVE  FALSE
      BY <3>1, <3>2 DEF Found, Active
    <3>3. ~Refuse
      BY DEF Refuse, IdleCmd
    <3>4. CASE ValidateSetup
      <4>1. PICK m \in OwnerUsernames : AddressesNamed(m) = {} /\ NotFound
        BY <3>2, <3>3, <3>4 DEF ValidateSetup
      <4> QED
        BY <3>1, <3>4, <4>1, NotFoundIsTold
    <3>5. CASE FindRecipient
      <4>1. SignersNamed = {} /\ NotFound
        BY <3>2, <3>3, <3>5 DEF FindRecipient
      <4> QED
        BY <3>1, <3>5, <4>1, NotFoundIsTold
    <3> QED
      BY <2>4, <3>4, <3>5
  <2>5. CASE Crash \/ (Command /\ ~(ValidateSetup \/ FindRecipient))
    <3>1. CASE ValidateBalance \/ GetThreshold \/ ValidateAdmin
               \/ GetLlamaTokenContract \/ ValidateStream
      <4>1. cmd \in Active
        BY <3>1, NotIdle DEF ValidateBalance, GetThreshold, ValidateAdmin,
           GetLlamaTokenContract, ValidateStream, IdleCmd
      <4>2. Refuse \/ \E next \in {"threshold", "currency", "send"} :
                          cmd' = [cmd EXCEPT !.pc = next]
        BY <3>1 DEF ValidateBalance, GetThreshold, ValidateAdmin,
           GetLlamaTokenContract, ValidateStream
      <4>3. ~Refuse
        BY DEF Refuse, IdleCmd
      <4> QED
        BY <4>1, <4>2, <4>3 DEF Active
    <3>2. ASSUME NEW c \in Chats, NEW u \in Users, Request(c, u) \/ Create(c, u)
          PROVE  FALSE
      BY <3>2 DEF Request, Create, QueryChat, IdleCmd
    <3>3. ASSUME NEW c \in Chats, NEW u \in Users, NEW n \in Names, Stream(c, u, n)
          PROVE  FALSE
      BY <3>3 DEF Stream, QueryChat, IdleCmd
    <3>4. CASE Send \/ Crash
      BY <3>4 DEF Send, Crash, Refuse, IdleCmd
    <3> QED
      BY <2>5, <3>1, <3>2, <3>3, <3>4 DEF Command
  <2> QED
    BY <2>1, <2>2, <2>3, <2>4, <2>5
    DEF Next, vars, Rename, RemoveSigner, AddSigner
<1>3. TypeOK /\ TypeOK' /\ CreatorInv /\ [Next]_vars => CreatorInv'
  BY CreatorKeeps
<1>4. Init => CreatorInv
  BY DEF Init, CreatorInv, SafeInv, CreatorOwnsSafe, StepsInv, Running, IdleCmd
<1>5. CreatorInv => StepsInv
  BY DEF CreatorInv
<1> QED
  BY <1>1, <1>2, <1>3, <1>4, <1>5, TypeCorrect, PTL DEF Spec
=============================================================================
