---------------------------- MODULE BindingProofs ----------------------------
(***************************************************************************)
(* Proofs about the addresses and Safes that end up in the tables.         *)
(***************************************************************************)
EXTENDS OnboardingProofs, FiniteSetTheorems

-----------------------------------------------------------------------------
(* What no step changes *)

(* A sign message and a signer row keep the chat and the user they were     *)
(* created for.                                                             *)
MsgsStay == /\ DOMAIN msgs \subseteq DOMAIN msgs'
            /\ \A j \in DOMAIN msgs : /\ msgs'[j].chat = msgs[j].chat
                                      /\ msgs'[j].user = msgs[j].user

SignersStay == /\ DOMAIN signers \subseteq DOMAIN signers'
               /\ \A i \in DOMAIN signers : /\ signers'[i].chat = signers[i].chat
                                            /\ signers'[i].user = signers[i].user

(* No step removes a row of sign_messages or signers, or gives it to        *)
(* another member of another chat.                                          *)
LEMMA RowsStay ==
    ASSUME ChatInv, [Next]_vars
    PROVE  MsgsStay /\ SignersStay
<1>1. msgs' = msgs => MsgsStay
    BY DEF MsgsStay
<1>2. signers' = signers => SignersStay
    BY DEF SignersStay
<1>3. CASE CreateMessage
  <2> DEFINE row == [chat |-> bot.chat, user |-> bot.user,
                     verified |-> FALSE, live |-> TRUE]
  <2>1. msgs' = msgs \/ msgs' = Append(msgs, row)
      BY <1>3 DEF CreateMessage
  <2>2. msgs \in Seq(MsgRow) /\ row \in MsgRow
      BY <1>3 DEF ChatInv, TypeOK, CreateMessage, MsgRow
  <2>3. MsgsStay
      BY <1>1, <2>1, <2>2, RowAppended DEF MsgsStay
  <2> QED
      BY <1>2, <1>3, <2>3 DEF CreateMessage
<1>4. CASE DeleteMessage
  <2> DEFINE row == [msgs[bot.msg] EXCEPT !.live = FALSE]
  <2>1. bot.msg \in DOMAIN msgs
      BY <1>4 DEF ChatInv, TypeOK, DeleteMessage
  <2>2. row \in MsgRow /\ row.chat = msgs[bot.msg].chat /\ row.user = msgs[bot.msg].user
      BY <2>1, MessageRows DEF ChatInv, MsgRow
  <2>3. msgs' = [msgs EXCEPT ![bot.msg] = row]
      BY <1>4, <2>1 DEF DeleteMessage
  <2> HIDE DEF row
  <2>4. MsgsStay
      BY <2>1, <2>2, <2>3, MessageSaved DEF ChatInv, MsgsStay
  <2> QED
      BY <1>2, <1>4, <2>4 DEF DeleteMessage
<1>5. CASE DeleteSigner
  <2>1. bot.signer = 0 \/ bot.signer \in DOMAIN signers
      BY DEF ChatInv, TypeOK
  <2>2. SignersStay
      BY <1>5, <2>1, MessageRows DEF DeleteSigner, ChatInv, TypeOK, SignerRow, SignersStay
  <2> QED
      BY <1>1, <1>5, <2>2 DEF DeleteSigner
<1>6. ASSUME NEW r \in Reqs, AddSignerSave(r)
      PROVE  MsgsStay /\ SignersStay
  <2> DEFINE q == reqs[r]
             m == msgs[q.msg]
             row == [chat |-> m.chat, user |-> m.user, addr |-> q.addr,
                     isSigner |-> q.isSigner, live |-> TRUE]
             old == [signers[q.signer] EXCEPT !.addr = q.addr,
                                       !.isSigner = q.isSigner, !.live = TRUE]
  <2>1. /\ signers' \in Seq(SignerRow)
        /\ DOMAIN signers \subseteq DOMAIN signers'
        /\ q.signer = 0 => row \in SignerRow /\ signers' = Append(signers, row)
        /\ q.signer # 0 =>
              /\ q.signer \in DOMAIN signers
              /\ old \in SignerRow
              /\ signers' \in {signers, [signers EXCEPT ![q.signer] = old]}
      BY <1>6, AddSignerSaveRows
  <2>2. q.signer = 0 => SignersStay
      BY <2>1, RowAppended DEF ChatInv, TypeOK, SignersStay
  <2>3. ASSUME q.signer # 0 PROVE SignersStay
    <3>1. signers[q.signer] \in SignerRow
        BY <2>1, <2>3, MessageRows DEF ChatInv
    <3>2. old.chat = signers[q.signer].chat /\ old.user = signers[q.signer].user
        BY <3>1 DEF SignerRow
    <3> HIDE DEF old
    <3> QED
        BY <2>1, <2>3, <3>2 DEF ChatInv, TypeOK, SignersStay
  <2>4. SignersStay
      BY <2>1, <2>2, <2>3
  <2>5. msgs' = msgs
      BY <1>6 DEF AddSignerSave
  <2> QED
      BY <1>1, <2>4, <2>5
<1>7. ASSUME NEW r \in Reqs, SaveVerified(r)
      PROVE  MsgsStay /\ SignersStay
  <2>1. reqs[r].msg \in DOMAIN msgs
      BY <1>7, InFlightKnown DEF SaveVerified
  <2>2. MsgsStay
      BY <1>7, <2>1, SaveVerifiedRows DEF ChatInv, MsgsStay
  <2>3. signers' = signers
      BY <1>7 DEF SaveVerified
  <2> QED
      BY <1>2, <2>2, <2>3
<1>8. CASE UNCHANGED vars
    BY <1>1, <1>2, <1>8 DEF vars
<1>9. CASE Bot
    BY <1>1, <1>2, <1>3, <1>4, <1>5, <1>9
    DEF Bot, GetOrCreateUser, SetupChat, UnlinkCommand, StartCommand, FindMessage,
        RemoveSigner
<1>10. ASSUME NEW r \in Reqs, Arrive(r) \/ Handle(r)
       PROVE  MsgsStay /\ SignersStay
  <2>1. CASE Arrive(r)
    <3>1. msgs' = msgs /\ signers' = signers
        BY <2>1 DEF Arrive, VerifyMessage, LinkSafe
    <3> QED
        BY <1>1, <1>2, <3>1
  <2>2. CASE AddSignerSave(r) \/ SaveVerified(r)
      BY <1>6, <1>7, <2>2
  <2>3. CASE Handle(r) /\ ~(AddSignerSave(r) \/ SaveVerified(r))
    <3>1. msgs' = msgs /\ signers' = signers
        BY <2>3 DEF Handle, LinkQueryChat, LinkSaveChat, LinkCheckOwner,
           AddSignerStatus, AddSignerFind, AddSignerCheck, LinkAnnounce
    <3> QED
        BY <1>1, <1>2, <3>1
  <2> QED
      BY <1>10, <2>1, <2>2, <2>3
<1>11. CASE Crash
    BY <1>1, <1>2, <1>11 DEF Crash
<1> QED
    BY <1>8, <1>9, <1>10, <1>11 DEF Next

(* A request keeps the message, the address and the pair it was posted with *)
(* until it is answered.                                                    *)
SameRequest(r) ==
    /\ reqs[r].pc # "idle"
    /\ reqs'[r].msg = reqs[r].msg /\ reqs'[r].kind = reqs[r].kind
    /\ reqs'[r].addr = reqs[r].addr
    /\ reqs'[r].safe = reqs[r].safe /\ reqs'[r].chain = reqs[r].chain

(* A step of request r's handler changes no other request, and keeps what   *)
(* r carries for as long as r is handled.                                   *)
LEMMA HandleKeepsRequest ==
    ASSUME ChatInv, NEW r \in Reqs, Handle(r)
    PROVE  /\ \A t \in Reqs \ {r} : reqs'[t] = reqs[t]
           /\ reqs'[r].pc # "idle" => SameRequest(r)
<1>1. reqs \in [Reqs -> ReqState] /\ reqs[r] \in ReqState
    BY DEF ChatInv, TypeOK
<1>2. reqs[r].pc # "idle"
    BY DEF Handle, LinkQueryChat, LinkSaveChat, LinkCheckOwner, AddSignerStatus,
       AddSignerFind, AddSignerCheck, AddSignerSave, LinkAnnounce, SaveVerified
<1> DEFINE Kept(q) ==
        \/ q = IdleReq
        \/ /\ q.msg = reqs[r].msg /\ q.kind = reqs[r].kind
           /\ q.addr = reqs[r].addr
           /\ q.safe = reqs[r].safe /\ q.chain = reqs[r].chain
<1>3. Kept(AfterAddSigner(reqs[r]))
    BY <1>1 DEF AfterAddSigner, ReqState
<1>4. (\A t \in Reqs \ {r} : reqs'[t] = reqs[t]) /\ Kept(reqs'[r])
  <2>1. CASE LinkQueryChat(r)
      BY <1>1, <2>1 DEF LinkQueryChat, ReqState
  <2>2. CASE LinkSaveChat(r)
      BY <1>1, <2>2 DEF LinkSaveChat, ReqState
  <2>3. CASE LinkCheckOwner(r)
    <3>1. PICK q \in {[reqs[r] EXCEPT !.pc = "status"], IdleReq} :
              reqs' = [reqs EXCEPT ![r] = q]
        BY <2>3 DEF LinkCheckOwner
    <3>2. Kept(q)
        BY <1>1 DEF ReqState
    <3> QED
        BY <1>1, <3>1, <3>2
  <2>4. CASE AddSignerStatus(r)
      BY <1>1, <2>4 DEF AddSignerStatus, ReqState
  <2>5. CASE AddSignerFind(r)
    <3>1. CASE reqs' = [reqs EXCEPT ![r] = AfterAddSigner(reqs[r])]
        BY <1>1, <1>3, <3>1
    <3>2. CASE \E i, f : reqs' = [reqs EXCEPT ![r].pc = "check", ![r].signer = i,
                                              ![r].force = f]
        BY <1>1, <3>2 DEF ReqState
    <3> QED
        BY <2>5, <3>1, <3>2 DEF AddSignerFind
  <2>6. CASE AddSignerCheck(r)
    <3>1. PICK q \in {[reqs[r] EXCEPT !.pc = "save"], AfterAddSigner(reqs[r])} :
              reqs' = [reqs EXCEPT ![r] = q]
        BY <2>6 DEF AddSignerCheck
    <3>2. Kept(q)
        BY <1>1, <1>3 DEF ReqState
    <3> QED
        BY <1>1, <3>1, <3>2
  <2>7. CASE AddSignerSave(r)
      BY <1>1, <1>3, <2>7 DEF AddSignerSave
  <2>8. CASE LinkAnnounce(r)
      BY <1>1, <2>8 DEF LinkAnnounce, ReqState
  <2>9. CASE SaveVerified(r)
      BY <1>1, <2>9 DEF SaveVerified
  <2> QED
      BY <2>1, <2>2, <2>3, <2>4, <2>5, <2>6, <2>7, <2>8, <2>9 DEF Handle
<1> QED
    BY <1>2, <1>4, IdleReqState DEF SameRequest

(* The steps of one request change no other.                                *)
LEMMA OthersStay ==
    ASSUME ChatInv, NEW t \in Reqs, Arrive(t) \/ Handle(t), NEW r \in Reqs \ {t}
    PROVE  reqs'[r] = reqs[r]
<1>1. CASE Arrive(t)
    BY <1>1 DEF Arrive, VerifyMessage, LinkSafe, ChatInv, TypeOK
<1> QED
    BY <1>1, HandleKeepsRequest

(* A request that is handled after a step carried the same before it, or    *)
(* has just arrived.                                                        *)
LEMMA RequestStays ==
    ASSUME ChatInv, [Next]_vars, NEW r \in Reqs, reqs'[r].pc # "idle"
    PROVE  SameRequest(r) \/ Arrive(r)
<1>1. CASE UNCHANGED reqs
    BY <1>1 DEF SameRequest
<1>2. ASSUME NEW t \in Reqs, Arrive(t)
      PROVE  SameRequest(r) \/ Arrive(r)
  <2>1. t # r => reqs'[r] = reqs[r]
      BY <1>2, OthersStay
  <2> QED
      BY <1>2, <2>1 DEF SameRequest
<1>3. ASSUME NEW t \in Reqs, Handle(t)
      PROVE  SameRequest(r)
    BY <1>3, HandleKeepsRequest DEF SameRequest
<1>4. CASE Crash
    BY <1>4, IdleReqState DEF Crash
<1>5. CASE Bot
    BY <1>1, <1>5 DEF Bot, GetOrCreateUser, SetupChat, UnlinkCommand, StartCommand,
       FindMessage, CreateMessage, RemoveSigner, DeleteSigner, DeleteMessage
<1> QED
    BY <1>1, <1>2, <1>3, <1>4, <1>5 DEF Next, vars

-----------------------------------------------------------------------------
(* The Safe and the chain of a chat are one request's. *)

LinkInv ==
    /\ LinkedPairRequested
    /\ \A r \in Reqs : reqs[r].pc # "idle" /\ reqs[r].kind = "link" =>
           <<reqs[r].safe, reqs[r].chain>> \in Requested

(* LinkInv holds before any request.                                        *)
LEMMA InitLinkInv == Init => LinkInv
BY IdleReqState DEF Init, LinkInv, LinkedPairRequested, LinkedPair

(* LinkInv is inductive: a chat's safe is only ever copied out of a /link   *)
(* request.                                                                 *)
LEMMA NextLinkInv ==
    ASSUME ChatInv, LinkInv, [Next]_vars
    PROVE  LinkInv'
<1>1. ASSUME NEW r \in Reqs, reqs'[r].pc # "idle", reqs'[r].kind = "link"
      PROVE  <<reqs'[r].safe, reqs'[r].chain>> \in Requested
  <2>1. CASE SameRequest(r)
      BY <1>1, <2>1 DEF SameRequest, LinkInv
  <2>2. CASE Arrive(r)
    <3>1. PICK i, a : \/ VerifyMessage(r, i, a)
                      \/ \E p \in LinkRequests : LinkSafe(r, i, a, p[1], p[2])
        BY <2>2 DEF Arrive
    <3>2. ~VerifyMessage(r, i, a)
        BY <1>1 DEF VerifyMessage, IdleReq, ChatInv, TypeOK
    <3>3. PICK p \in LinkRequests : LinkSafe(r, i, a, p[1], p[2])
        BY <3>1, <3>2
    <3>4. reqs'[r].safe = p[1] /\ reqs'[r].chain = GetSafeChain(p[2])
        BY <3>3 DEF LinkSafe, IdleReq, ChatInv, TypeOK
    <3> QED
        BY <3>4 DEF Requested
  <2> QED
      BY <1>1, <2>1, <2>2, RequestStays
<1>2. ASSUME NEW c \in Chats
      PROVE  \/ <<chats'[c].safe, chats'[c].chain>> = <<chats[c].safe, chats[c].chain>>
             \/ <<chats'[c].safe, chats'[c].chain>> \in Requested
  <2>1. CASE UNCHANGED chats
      BY <2>1
  <2>2. CASE SetupChat
      BY <2>2 DEF SetupChat, ChatInv, TypeOK, ChatRow
  <2>3. ASSUME NEW r \in Reqs, LinkSaveChat(r)
        PROVE  \/ <<chats'[c].safe, chats'[c].chain>> = <<chats[c].safe, chats[c].chain>>
               \/ <<chats'[c].safe, chats'[c].chain>> \in Requested
    <3> DEFINE row == [reqs[r].seen EXCEPT !.safe = reqs[r].safe,
                                           !.chain = reqs[r].chain]
               d == msgs[reqs[r].msg].chat
    <3>1. reqs[r].pc = "saveChat" /\ reqs[r].kind = "link" /\ reqs[r].seen \in ChatRow
        BY <2>3, InFlightKnown DEF LinkSaveChat, RequestOK
    <3>2. <<reqs[r].safe, reqs[r].chain>> \in Requested
        BY <3>1 DEF LinkInv
    <3>3. row.safe = reqs[r].safe /\ row.chain = reqs[r].chain
        BY <3>1 DEF ChatRow
    <3>4. chats' = chats \/ chats' = [chats EXCEPT ![d] = row]
        BY <2>3 DEF LinkSaveChat
    <3> HIDE DEF row, d
    <3>5. chats'[c] = chats[c] \/ chats'[c] = row
        BY <3>4 DEF ChatInv, TypeOK
    <3> QED
        BY <3>2, <3>3, <3>5
  <2> QED
      BY <2>1, <2>2, <2>3
      DEF Next, vars, Bot, GetOrCreateUser, UnlinkCommand, StartCommand, FindMessage,
          CreateMessage, RemoveSigner, DeleteSigner, DeleteMessage, Arrive, Handle,
          VerifyMessage, LinkSafe, LinkQueryChat, LinkCheckOwner, AddSignerStatus,
          AddSignerFind, AddSignerCheck, AddSignerSave, LinkAnnounce, SaveVerified,
          Crash
<1>3. \A c \in Chats : <<chats[c].safe, chats[c].chain>> \in {<<Nil, Nil>>} \cup Requested
    BY DEF LinkInv, LinkedPairRequested, LinkedPair
<1>4. \A c \in Chats : <<chats'[c].safe, chats'[c].chain>> \in {<<Nil, Nil>>} \cup Requested
    BY <1>2, <1>3
<1> QED
    BY <1>1, <1>4 DEF LinkInv, LinkedPairRequested, LinkedPair

(* Whatever number of /link requests race on one chat, the chat ends up     *)
(* with a Safe and a chain that were posted together.                       *)
THEOREM LinkIsRequested == Spec => []LinkedPairRequested
<1>1. Spec => [](ChatInv /\ LinkInv)
    BY InitChatInv, NextChatInv, InitLinkInv, NextLinkInv, PTL DEF Spec
<1>2. LinkInv => LinkedPairRequested
    BY DEF LinkInv
<1> QED
    BY <1>1, <1>2, PTL

-----------------------------------------------------------------------------
(* Every live binding is to an address its member signed with. *)

(* The signer row a request read is one of its member in its chat.          *)
OwnRow(r) ==
    LET m == msgs[reqs[r].msg]
    IN  reqs[r].signer # 0 => /\ signers[reqs[r].signer].chat = m.chat
                              /\ signers[reqs[r].signer].user = m.user

SignedInv ==
    /\ SignedWithOwnWallet
    /\ \A r \in Reqs : reqs[r].pc # "idle" =>
           reqs[r].addr \in Wallets[msgs[reqs[r].msg].user] /\ OwnRow(r)

(* Where a live signer row comes from: it was live before with the same     *)
(* address, or a request has just saved it for its member.                  *)
SavedBy(r, i) ==
    LET m == msgs[reqs[r].msg]
    IN  /\ AddSignerSave(r)
        /\ signers'[i].chat = m.chat /\ signers'[i].user = m.user
        /\ signers'[i].addr = reqs[r].addr
        /\ i = IF reqs[r].signer = 0 THEN Len(signers) + 1 ELSE reqs[r].signer

(* A live row of signers was live with the same address before the step,    *)
(* or a handler has just saved it.                                          *)
LEMMA LiveSigners ==
    ASSUME ChatInv, SignedInv, [Next]_vars,
           NEW i \in DOMAIN signers', signers'[i].live
    PROVE  \/ i \in DOMAIN signers /\ signers[i].live /\ signers'[i].addr = signers[i].addr
           \/ \E r \in Reqs : SavedBy(r, i)
<1>1. CASE UNCHANGED signers
    BY <1>1
<1>2. CASE DeleteSigner
  <2>1. bot.signer = 0 \/ bot.signer \in DOMAIN signers
      BY DEF ChatInv, TypeOK
  <2>2. CASE bot.signer = 0
      BY <1>2, <2>2 DEF DeleteSigner
  <2>3. CASE bot.signer \in DOMAIN signers
    <3>1. signers' = [signers EXCEPT ![bot.signer] =
                         [signers[bot.signer] EXCEPT !.live = FALSE]]
        BY <1>2, <2>3, MessageRows DEF DeleteSigner, ChatInv
    <3>2. signers[bot.signer] \in SignerRow
        BY <2>3, MessageRows DEF ChatInv
    <3> QED
        BY <2>3, <3>1, <3>2 DEF SignerRow, ChatInv, TypeOK
  <2> QED
      BY <2>1, <2>2, <2>3
<1>3. ASSUME NEW r \in Reqs, AddSignerSave(r)
      PROVE  \/ i \in DOMAIN signers /\ signers[i].live /\ signers'[i].addr = signers[i].addr
             \/ SavedBy(r, i)
  <2> DEFINE q == reqs[r]
             m == msgs[q.msg]
             row == [chat |-> m.chat, user |-> m.user, addr |-> q.addr,
                     isSigner |-> q.isSigner, live |-> TRUE]
             old == [signers[q.signer] EXCEPT !.addr = q.addr,
                                       !.isSigner = q.isSigner, !.live = TRUE]
  <2>1. /\ q.signer = 0 => row \in SignerRow /\ signers' = Append(signers, row)
        /\ q.signer # 0 =>
              /\ q.signer \in DOMAIN signers
              /\ old \in SignerRow
              /\ signers' \in {signers, [signers EXCEPT ![q.signer] = old]}
      BY <1>3, AddSignerSaveRows
  <2>2. signers \in Seq(SignerRow)
      BY DEF ChatInv, TypeOK
  <2>3. CASE q.signer = 0
    <3>1. row.chat = m.chat /\ row.user = m.user /\ row.addr = q.addr
        OBVIOUS
    <3>2. signers' = Append(signers, row) /\ row \in SignerRow
        BY <2>1, <2>3
    <3> HIDE DEF row
    <3>3. i \in DOMAIN signers => signers'[i] = signers[i]
        BY <2>2, <3>2, RowAppended
    <3>4. i \notin DOMAIN signers => i = Len(signers) + 1 /\ signers'[i] = row
        BY <2>2, <3>2, RowAppended
    <3> QED
        BY <1>3, <2>3, <3>1, <3>3, <3>4 DEF SavedBy
  <2>4. CASE q.signer # 0
    <3>1. signers[q.signer] \in SignerRow /\ q.signer \in DOMAIN signers
        BY <2>1, <2>4, MessageRows DEF ChatInv
    <3>2. old.chat = m.chat /\ old.user = m.user /\ old.addr = q.addr
        BY <1>3, <2>4, <3>1 DEF SignerRow, SignedInv, OwnRow, AddSignerSave
    <3>3. signers' = signers \/ signers' = [signers EXCEPT ![q.signer] = old]
        BY <2>1, <2>4
    <3> HIDE DEF old
    <3>4. i \in DOMAIN signers
        BY <3>3
    <3>5. signers'[i] = signers[i] \/ (i = q.signer /\ signers'[i] = old)
        BY <2>2, <3>3, <3>4
    <3> QED
        BY <1>3, <2>4, <3>2, <3>4, <3>5 DEF SavedBy
  <2> QED
      BY <2>3, <2>4
<1> QED
  BY <1>1, <1>2, <1>3
  DEF Next, vars, Bot, GetOrCreateUser, SetupChat, UnlinkCommand, StartCommand,
      FindMessage, CreateMessage, RemoveSigner, DeleteMessage, Arrive, Handle,
      VerifyMessage, LinkSafe, LinkQueryChat, LinkSaveChat, LinkCheckOwner,
      AddSignerStatus, AddSignerFind, AddSignerCheck, LinkAnnounce, SaveVerified,
      Crash

(* How a request comes to hold the id of a signer row.                      *)
RowRead(r) ==
    LET m == msgs[reqs[r].msg]
    IN  \/ reqs'[r].signer = 0
        \/ reqs[r].pc # "idle" /\ reqs'[r].signer = reqs[r].signer
        \/ AddSignerFind(r) /\ reqs'[r].signer \in First(SignersOf(m.chat, m.user))

(* A request under way holds no signer row, the one it held before, or      *)
(* one it has just read by the chat and user of its message.                *)
LEMMA HeldRow ==
    ASSUME ChatInv, [Next]_vars, NEW r \in Reqs, reqs'[r].pc # "idle"
    PROVE  RowRead(r)
<1> DEFINE m == msgs[reqs[r].msg]
<1>1. reqs \in [Reqs -> ReqState] /\ reqs[r] \in ReqState
    BY DEF ChatInv, TypeOK
<1>2. CASE UNCHANGED reqs
    BY <1>2 DEF RowRead
<1>3. ASSUME NEW t \in Reqs, t # r, Arrive(t) \/ Handle(t)
      PROVE  RowRead(r)
  <2>1. reqs'[r] = reqs[r]
      BY <1>1, <1>3, HandleKeepsRequest DEF Arrive, VerifyMessage, LinkSafe
  <2> QED
      BY <2>1, <1>2 DEF RowRead
<1>4. CASE Arrive(r)
  <2>1. ASSUME NEW i, NEW a, VerifyMessage(r, i, a) PROVE reqs'[r].signer = 0
      BY <1>1, <2>1 DEF VerifyMessage, IdleReq
  <2>2. ASSUME NEW i, NEW a, NEW p \in LinkRequests, LinkSafe(r, i, a, p[1], p[2])
        PROVE  reqs'[r].signer = 0
      BY <1>1, <2>2 DEF LinkSafe, IdleReq
  <2> QED
      BY <1>4, <2>1, <2>2 DEF Arrive, RowRead
<1>5. CASE Handle(r)
  <2>1. AfterAddSigner(reqs[r]).signer = 0 /\ IdleReq.signer = 0
      BY <1>1 DEF AfterAddSigner, IdleReq, ReqState
  <2>2. reqs[r].pc # "idle"
      BY <1>5 DEF Handle, LinkQueryChat, LinkSaveChat, LinkCheckOwner,
         AddSignerStatus, AddSignerFind, AddSignerCheck, AddSignerSave,
         LinkAnnounce, SaveVerified
  <2>3. CASE AddSignerFind(r)
    <3>1. CASE reqs' = [reqs EXCEPT ![r] = AfterAddSigner(reqs[r])]
        BY <1>1, <2>1, <3>1 DEF RowRead
    <3>2. CASE \E i \in {0} \cup First(SignersOf(m.chat, m.user)) : \E f :
                   reqs' = [reqs EXCEPT ![r].pc = "check", ![r].signer = i,
                                        ![r].force = f]
        BY <1>1, <2>3, <3>2 DEF ReqState, RowRead
    <3> QED
        BY <2>3, <3>1, <3>2 DEF AddSignerFind
  <2>4. CASE AddSignerCheck(r)
    <3>1. PICK q \in {[reqs[r] EXCEPT !.pc = "save"], AfterAddSigner(reqs[r])} :
              reqs' = [reqs EXCEPT ![r] = q]
        BY <2>4 DEF AddSignerCheck
    <3>2. q.signer \in {0, reqs[r].signer}
        BY <1>1, <2>1 DEF ReqState
    <3> QED
        BY <1>1, <2>2, <3>1, <3>2 DEF RowRead
  <2>5. CASE LinkCheckOwner(r)
    <3>1. PICK q \in {[reqs[r] EXCEPT !.pc = "status"], IdleReq} :
              reqs' = [reqs EXCEPT ![r] = q]
        BY <2>5 DEF LinkCheckOwner
    <3>2. q.signer \in {0, reqs[r].signer}
        BY <1>1, <2>1 DEF ReqState
    <3> QED
        BY <1>1, <2>2, <3>1, <3>2 DEF RowRead
  <2>6. CASE AddSignerSave(r) \/ SaveVerified(r)
      BY <1>1, <2>1, <2>6 DEF AddSignerSave, SaveVerified, RowRead
  <2>7. CASE LinkQueryChat(r) \/ LinkSaveChat(r) \/ AddSignerStatus(r) \/ LinkAnnounce(r)
      BY <1>1, <2>2, <2>7
      DEF LinkQueryChat, LinkSaveChat, AddSignerStatus, LinkAnnounce, ReqState, RowRead
  <2> QED
      BY <1>5, <2>3, <2>4, <2>5, <2>6, <2>7 DEF Handle
<1>6. CASE Crash
    BY <1>6, IdleReqState DEF Crash
<1>7. CASE Bot
    BY <1>2, <1>7 DEF Bot, GetOrCreateUser, SetupChat, UnlinkCommand, StartCommand,
       FindMessage, CreateMessage, RemoveSigner, DeleteSigner, DeleteMessage
<1>8. ASSUME NEW t \in Reqs, Arrive(t) \/ Handle(t)
      PROVE  RowRead(r)
  <2>1. CASE t = r
      BY <1>4, <1>5, <1>8, <2>1
  <2>2. CASE t # r
      BY <1>3, <1>8, <2>2
  <2> QED
      BY <2>1, <2>2
<1> QED
    BY <1>2, <1>6, <1>7, <1>8 DEF Next, vars

(* SignedInv holds before any request.                                      *)
LEMMA InitSignedInv == Init => SignedInv
BY IdleReqState DEF Init, SignedInv, SignedWithOwnWallet

(* SignedInv is inductive: what AddSigner saves is a wallet of the member   *)
(* the button was sent to.                                                  *)
LEMMA NextSignedInv ==
    ASSUME ChatInv, SignedInv, [Next]_vars
    PROVE  SignedInv'
<1>1. MsgsStay /\ SignersStay
    BY RowsStay
<1>2. ASSUME NEW r \in Reqs, reqs'[r].pc # "idle"
      PROVE  reqs'[r].addr \in Wallets[msgs'[reqs'[r].msg].user] /\ OwnRow(r)'
  <2>1. CASE SameRequest(r)
    <3>1. reqs[r].msg \in DOMAIN msgs /\ reqs[r].signer \in {0} \cup DOMAIN signers
        BY <2>1, InFlightKnown DEF SameRequest, RequestOK
    <3>2. reqs[r].addr \in Wallets[msgs[reqs[r].msg].user] /\ OwnRow(r)
        BY <2>1 DEF SameRequest, SignedInv
    <3>3. reqs'[r].addr \in Wallets[msgs'[reqs'[r].msg].user]
        BY <1>1, <2>1, <3>1, <3>2 DEF SameRequest, MsgsStay
    <3> DEFINE m == msgs[reqs[r].msg]
    <3>4. ASSUME reqs'[r].signer = 0 PROVE OwnRow(r)'
        BY <3>4 DEF OwnRow
    <3>5. ASSUME reqs'[r].signer \in DOMAIN signers,
                 signers[reqs'[r].signer].chat = m.chat,
                 signers[reqs'[r].signer].user = m.user
          PROVE  OwnRow(r)'
        BY <1>1, <2>1, <3>1, <3>5 DEF OwnRow, SameRequest, MsgsStay, SignersStay
    <3>6. \/ reqs'[r].signer = 0
          \/ reqs[r].pc # "idle" /\ reqs'[r].signer = reqs[r].signer
          \/ reqs'[r].signer \in SignersOf(m.chat, m.user)
        BY <1>2, HeldRow DEF First, RowRead
    <3>7. OwnRow(r)'
        BY <3>1, <3>2, <3>4, <3>5, <3>6 DEF OwnRow, SignersOf
    <3> QED
        BY <3>3, <3>7
  <2>2. CASE Arrive(r)
    <3>1. PICK i \in DOMAIN msgs, a \in Addrs :
              \/ VerifyMessage(r, i, a)
              \/ \E p \in LinkRequests : LinkSafe(r, i, a, p[1], p[2])
        BY <2>2 DEF Arrive
    <3>2. /\ a \in Wallets[msgs[i].user] /\ msgs' = msgs
          /\ reqs'[r].msg = i /\ reqs'[r].addr = a /\ reqs'[r].signer = 0
      <4>1. reqs \in [Reqs -> ReqState]
          BY DEF ChatInv, TypeOK
      <4>2. CASE VerifyMessage(r, i, a)
          BY <4>1, <4>2 DEF VerifyMessage, IdleReq
      <4>3. CASE \E p \in LinkRequests : LinkSafe(r, i, a, p[1], p[2])
          BY <4>1, <4>3 DEF LinkSafe, IdleReq
      <4> QED
          BY <3>1, <4>2, <4>3
    <3> QED
        BY <3>2 DEF OwnRow
  <2> QED
      BY <1>2, <2>1, <2>2, RequestStays
<1>3. ASSUME NEW i \in DOMAIN signers', signers'[i].live
      PROVE  signers'[i].addr \in Wallets[signers'[i].user]
  <2>1. CASE i \in DOMAIN signers /\ signers[i].live /\ signers'[i].addr = signers[i].addr
      BY <1>1, <2>1 DEF SignersStay, SignedInv, SignedWithOwnWallet
  <2>2. ASSUME NEW r \in Reqs, SavedBy(r, i)
        PROVE  signers'[i].addr \in Wallets[signers'[i].user]
      BY <2>2 DEF SavedBy, SignedInv, AddSignerSave
  <2> QED
      BY <1>3, <2>1, <2>2, LiveSigners
<1> QED
    BY <1>2, <1>3 DEF SignedInv, SignedWithOwnWallet

(* Every live binding is to an address its member signed with, whatever     *)
(* requests, commands and crashes interleave.                               *)
THEOREM BindingsAreSigned == Spec => []SignedWithOwnWallet
<1>1. Spec => [](ChatInv /\ SignedInv)
    BY InitChatInv, NextChatInv, InitSignedInv, NextSignedInv, PTL DEF Spec
<1>2. SignedInv => SignedWithOwnWallet
    BY DEF SignedInv
<1> QED
    BY <1>1, <1>2, PTL

-----------------------------------------------------------------------------
(* In a chat where requests never overlapped between AddSigner's read and   *)
(* its save, addresses are exclusive and every member has one row.          *)

(* Between the check and the save nobody else can take the address, and     *)
(* between the read and the save nobody else can create the member's row.   *)
ReadyToSave(r) ==
    LET m == msgs[reqs[r].msg]
    IN  /\ reqs[r].pc = "save" => HeldByOther(m.chat, m.user, reqs[r].addr) = {}
        /\ reqs[r].pc \in {"check", "save"} =>
               SignersOf(m.chat, m.user) \subseteq {reqs[r].signer}

(* The rows of chat c are as AddSigner means them to be, and the one request *)
(* that may be about to save another has not been overtaken.                *)
ExclusiveIn(c) ==
    /\ \A i, j \in DOMAIN signers :
           /\ signers[i].live /\ signers[j].live
           /\ signers[i].chat = c /\ signers[j].chat = c
           => /\ signers[i].addr = signers[j].addr => signers[i].user = signers[j].user
              /\ signers[i].user = signers[j].user => i = j
    /\ \A r, t \in Adding(c) : r = t
    /\ \A r \in Adding(c) : ReadyToSave(r)

ExclusiveInv == \A c \in Chats \ raced : ExclusiveIn(c)

(* ExclusiveInv holds before any request.                                   *)
LEMMA InitExclusiveInv == Init => ExclusiveInv
BY IdleReqState DEF Init, ExclusiveInv, ExclusiveIn, Adding

(* A chat in which requests have overlapped stays one.                      *)
LEMMA RacedStays ==
    ASSUME [Next]_vars
    PROVE  raced \subseteq raced'
BY DEF Next, vars, Bot, GetOrCreateUser, SetupChat, UnlinkCommand, StartCommand,
   FindMessage, CreateMessage, RemoveSigner, DeleteSigner, DeleteMessage, Arrive, Handle,
   VerifyMessage, LinkSafe, LinkQueryChat, LinkSaveChat, LinkCheckOwner, AddSignerStatus,
   AddSignerFind, AddSignerCheck, AddSignerSave, LinkAnnounce, SaveVerified, Crash

(* Where the states between the read of the member's row and its save come  *)
(* from.                                                                    *)
LEMMA ReachCheck ==
    ASSUME ChatInv, [Next]_vars, NEW r \in Reqs,
           reqs'[r].pc \in {"check", "save"}
    PROVE  LET m == msgs[reqs[r].msg]
           IN  /\ SameRequest(r)
               /\ reqs[r].pc \in {"find", "check", "save"}
               /\ reqs[r].pc = "find" =>
                      /\ AddSignerFind(r)
                      /\ Adding(m.chat) # {} => m.chat \in raced'
                      /\ signers' = signers /\ m.user \in users
                      /\ SignersOf(m.chat, m.user) = {} \/
                         reqs'[r].signer \in First(SignersOf(m.chat, m.user))
               /\ reqs[r].pc \in {"check", "save"} => reqs'[r].signer = reqs[r].signer
               /\ reqs'[r].pc = "save" =>
                      \/ reqs[r].pc = "save"
                      \/ /\ signers' = signers
                         /\ HeldByOther(m.chat, m.user, reqs[r].addr) = {}
               /\ ~AddSignerSave(r)
<1> DEFINE m == msgs[reqs[r].msg]
<1>1. reqs \in [Reqs -> ReqState] /\ reqs[r] \in ReqState
    BY DEF ChatInv, TypeOK
<1>2. ~Arrive(r)
  <2>1. ASSUME NEW i, NEW a, VerifyMessage(r, i, a) PROVE reqs'[r].pc = "status"
      BY <1>1, <2>1 DEF VerifyMessage, IdleReq
  <2>2. ASSUME NEW i, NEW a, NEW p \in LinkRequests, LinkSafe(r, i, a, p[1], p[2])
        PROVE  reqs'[r].pc = "chat"
      BY <1>1, <2>2 DEF LinkSafe, IdleReq
  <2> QED
      BY <2>1, <2>2 DEF Arrive
<1>3. SameRequest(r)
    BY <1>2, RequestStays
<1>4. \/ AddSignerFind(r)
      \/ AddSignerCheck(r)
      \/ reqs'[r] = reqs[r]
  <2>1. AfterAddSigner(reqs[r]).pc \notin {"check", "save"}
      BY <1>1 DEF AfterAddSigner, ReqState
  <2>2. CASE Handle(r)
    <3>1. ~LinkQueryChat(r) /\ ~LinkSaveChat(r) /\ ~AddSignerStatus(r) /\ ~LinkAnnounce(r)
        BY <1>1 DEF LinkQueryChat, LinkSaveChat, AddSignerStatus, LinkAnnounce, ReqState
    <3>2. ~LinkCheckOwner(r)
      <4>1. ASSUME NEW q \in {[reqs[r] EXCEPT !.pc = "status"], IdleReq},
                   reqs' = [reqs EXCEPT ![r] = q]
            PROVE  FALSE
          BY <1>1, <4>1, IdleReqState DEF ReqState
      <4> QED
          BY <4>1 DEF LinkCheckOwner
    <3>3. ~AddSignerSave(r)
        BY <1>1, <2>1 DEF AddSignerSave
    <3>4. ~SaveVerified(r)
        BY <1>1, IdleReqState DEF SaveVerified
    <3> QED
        BY <2>2, <3>1, <3>2, <3>3, <3>4 DEF Handle
  <2>3. ~Crash
      BY IdleReqState DEF Crash
  <2>4. Bot => UNCHANGED reqs
      BY DEF Bot, GetOrCreateUser, SetupChat, UnlinkCommand, StartCommand,
         FindMessage, CreateMessage, RemoveSigner, DeleteSigner, DeleteMessage
  <2>5. ASSUME NEW t \in Reqs, Arrive(t) \/ Handle(t)
        PROVE  Handle(r) \/ reqs'[r] = reqs[r]
      BY <1>2, <2>5, OthersStay
  <2> QED
      BY <2>2, <2>3, <2>4, <2>5 DEF Next, vars
<1>5. ~AddSignerSave(r)
  <2>1. AfterAddSigner(reqs[r]).pc \notin {"check", "save"}
      BY <1>1 DEF AfterAddSigner, ReqState
  <2> QED
      BY <1>1, <2>1 DEF AddSignerSave
<1>6. CASE reqs'[r] = reqs[r]
    BY <1>3, <1>5, <1>6
<1>7. CASE AddSignerFind(r)
  <2>1. reqs[r].pc = "find" /\ signers' = signers
      BY <1>7 DEF AddSignerFind
  <2>2. AfterAddSigner(reqs[r]).pc \notin {"check", "save"}
      BY <1>1 DEF AfterAddSigner, ReqState
  <2>3. /\ reqs'[r].pc = "check" /\ m.user \in users
        /\ Adding(m.chat) # {} => m.chat \in raced'
        /\ (SignersOf(m.chat, m.user) = {} \/
                         reqs'[r].signer \in First(SignersOf(m.chat, m.user)))
    <3>1. CASE reqs' = [reqs EXCEPT ![r] = AfterAddSigner(reqs[r])]
        BY <1>1, <2>2, <3>1
    <3>2. ASSUME NEW i, NEW f, reqs' = [reqs EXCEPT ![r].pc = "check", ![r].signer = i,
                                                    ![r].force = f]
          PROVE  reqs'[r].pc = "check" /\ reqs'[r].signer = i
        BY <1>1, <3>2 DEF ReqState
    <3>3. ASSUME NEW i \in First(SignersOf(m.chat, m.user)),
                 reqs' = [reqs EXCEPT ![r].pc = "check", ![r].signer = i,
                             ![r].force = \/ signers[i].addr # reqs[r].addr
                                          \/ signers[i].isSigner # reqs[r].isSigner]
          PROVE  reqs'[r].pc = "check" /\ reqs'[r].signer = i
      <4> DEFINE f == \/ signers[i].addr # reqs[r].addr
                      \/ signers[i].isSigner # reqs[r].isSigner
      <4>1. reqs' = [reqs EXCEPT ![r].pc = "check", ![r].signer = i, ![r].force = f]
          BY <3>3
      <4> HIDE DEF f
      <4> QED
          BY <3>2, <4>1
    <3>4. ASSUME reqs' = [reqs EXCEPT ![r].pc = "check", ![r].signer = 0,
                                      ![r].force = TRUE]
          PROVE  reqs'[r].pc = "check"
        BY <3>2, <3>4
    <3> QED
        BY <1>7, <3>1, <3>3, <3>4 DEF AddSignerFind
  <2> QED
      BY <1>3, <1>5, <1>7, <2>1, <2>3
<1>8. CASE AddSignerCheck(r)
  <2>1. reqs[r].pc = "check" /\ signers' = signers
      BY <1>8 DEF AddSignerCheck
  <2>2. AfterAddSigner(reqs[r]).pc \notin {"check", "save"}
      BY <1>1 DEF AfterAddSigner, ReqState
  <2>3. /\ HeldByOther(m.chat, m.user, reqs[r].addr) = {}
        /\ reqs' = [reqs EXCEPT ![r] = [reqs[r] EXCEPT !.pc = "save"]]
      BY <1>1, <1>8, <2>2 DEF AddSignerCheck
  <2>4. reqs'[r].signer = reqs[r].signer
      BY <1>1, <2>3 DEF ReqState
  <2> QED
      BY <1>3, <1>5, <2>1, <2>3, <2>4
<1> QED
    BY <1>4, <1>6, <1>7, <1>8

(* A step saves the row of one request.                                     *)
LEMMA OneSaves ==
    ASSUME ChatInv, NEW r \in Reqs, NEW t \in Reqs, AddSignerSave(r), AddSignerSave(t)
    PROVE  r = t
<1>1. reqs \in [Reqs -> ReqState] /\ reqs[r] \in ReqState
    BY DEF ChatInv, TypeOK
<1>2. AfterAddSigner(reqs[r]).pc # "save"
    BY <1>1 DEF AfterAddSigner, ReqState
<1>3. reqs'[r] = AfterAddSigner(reqs[r]) /\ reqs[r].pc = "save"
    BY <1>1 DEF AddSignerSave
<1>4. r # t => reqs'[r] = reqs[r]
    BY OthersStay DEF Handle
<1> QED
    BY <1>2, <1>3, <1>4

(* A request that starts to add alone in its chat is the only one there,    *)
(* unless the chat counts as raced from then on.                            *)
LEMMA AddingApart ==
    ASSUME ChatInv, [Next]_vars, NEW c \in Chats, c \notin raced',
           \A r, t \in Adding(c) : r = t
    PROVE  \A r, t \in Adding(c)' : r = t
<1> SUFFICES ASSUME NEW r \in Adding(c)', NEW t \in Adding(c)'
             PROVE  r = t
    OBVIOUS
<1>1. ASSUME NEW x \in Adding(c)'
      PROVE  /\ x \in Reqs /\ reqs'[x].pc \in {"check", "save"}
             /\ reqs[x].pc = "find" => AddSignerFind(x) /\ Adding(c) = {}
             /\ reqs[x].pc # "find" => x \in Adding(c)
  <2> DEFINE m == msgs[reqs[x].msg]
  <2>1. x \in Reqs /\ reqs'[x].pc \in {"check", "save"} /\ msgs'[reqs'[x].msg].chat = c
      BY DEF Adding
  <2>2. /\ SameRequest(x) /\ reqs[x].pc \in {"find", "check", "save"}
        /\ reqs[x].pc = "find" =>
              AddSignerFind(x) /\ (Adding(m.chat) # {} => m.chat \in raced')
      BY <2>1, ReachCheck
  <2>3. m.chat = c
      BY <2>1, <2>2, RowsStay, InFlightKnown DEF SameRequest, MsgsStay
  <2> QED
      BY <2>1, <2>2, <2>3 DEF Adding
<1>2. CASE reqs[r].pc # "find" /\ reqs[t].pc # "find"
    BY <1>1, <1>2
<1>3. CASE reqs[r].pc = "find" /\ reqs[t].pc = "find"
  <2>1. AddSignerFind(r) /\ AddSignerFind(t) /\ r \in Reqs /\ t \in Reqs
        /\ reqs'[t].pc \in {"check", "save"}
      BY <1>1, <1>3
  <2>2. r # t => reqs'[t] = reqs[t]
      BY <2>1, OthersStay DEF Handle
  <2> QED
      BY <1>3, <2>1, <2>2
<1>4. CASE reqs[r].pc = "find" /\ reqs[t].pc # "find"
    BY <1>1, <1>4
<1>5. CASE reqs[r].pc # "find" /\ reqs[t].pc = "find"
    BY <1>1, <1>5
<1> QED
    BY <1>2, <1>3, <1>4, <1>5

(* ExclusiveInv is inductive: no other handler saves a row of the chat      *)
(* between an address check and the save.                                   *)
LEMMA NextExclusiveInv ==
    ASSUME ChatInv, SignedInv, ExclusiveInv, [Next]_vars
    PROVE  ExclusiveInv'
<1> SUFFICES ASSUME NEW c \in Chats, c \notin raced'
             PROVE  ExclusiveIn(c)'
    BY DEF ExclusiveInv
<1>0. ExclusiveIn(c)
    BY RacedStays DEF ExclusiveInv
<1>1. MsgsStay /\ SignersStay
    BY RowsStay
<1>2. \A i \in DOMAIN signers', r \in Reqs :
          SavedBy(r, i) /\ signers'[i].chat = c => r \in Adding(c) /\ reqs[r].pc = "save"
    BY DEF SavedBy, AddSignerSave, Adding
<1>3. ASSUME NEW i \in DOMAIN signers', NEW j \in DOMAIN signers',
             signers'[i].live, signers'[j].live,
             signers'[i].chat = c, signers'[j].chat = c
      PROVE  /\ signers'[i].addr = signers'[j].addr => signers'[i].user = signers'[j].user
             /\ signers'[i].user = signers'[j].user => i = j
  <2> DEFINE Old(k) == k \in DOMAIN signers /\ signers[k].live
                       /\ signers'[k].addr = signers[k].addr
  <2>1. CASE Old(i) /\ Old(j)
      BY <1>0, <1>1, <1>3, <2>1 DEF SignersStay, ExclusiveIn
  <2>2. ASSUME NEW k \in DOMAIN signers', NEW l \in DOMAIN signers',
               NEW r \in Reqs, SavedBy(r, k), Old(l),
               signers'[k].chat = c, signers'[l].chat = c
        PROVE  /\ signers'[k].addr = signers'[l].addr => signers'[k].user = signers'[l].user
               /\ signers'[k].user = signers'[l].user => k = l
    <3> DEFINE m == msgs[reqs[r].msg]
    <3>1. reqs[r].pc = "save" /\ ReadyToSave(r)
        BY <1>0, <1>2, <2>2 DEF ExclusiveIn
    <3>2. /\ signers[l].chat = m.chat
          /\ signers'[l].user = signers[l].user
          /\ signers'[k].user = m.user /\ signers'[k].addr = reqs[r].addr
        BY <1>1, <2>2 DEF SavedBy, SignersStay
    <3>3. l \notin HeldByOther(m.chat, m.user, reqs[r].addr)
        BY <3>1 DEF ReadyToSave
    <3>4. signers'[k].addr = signers'[l].addr => signers'[k].user = signers'[l].user
        BY <2>2, <3>2, <3>3 DEF HeldByOther
    <3>5. l \in SignersOf(m.chat, m.user) => l = reqs[r].signer
        BY <3>1 DEF ReadyToSave
    <3>6. signers'[k].user = signers'[l].user => l = reqs[r].signer /\ l # 0
        BY <2>2, <3>2, <3>5, MessageRows DEF SignersOf, ChatInv
    <3>7. reqs[r].signer # 0 => k = reqs[r].signer
        BY <2>2 DEF SavedBy
    <3> QED
        BY <3>4, <3>6, <3>7
  <2>3. ASSUME NEW r \in Reqs, NEW t \in Reqs, SavedBy(r, i), SavedBy(t, j)
        PROVE  signers'[i].user = signers'[j].user /\ i = j
      BY <2>3, OneSaves DEF SavedBy
  <2>4. Old(i) \/ \E r \in Reqs : SavedBy(r, i)
      BY <1>3, LiveSigners
  <2>5. Old(j) \/ \E r \in Reqs : SavedBy(r, j)
      BY <1>3, LiveSigners
  <2> HIDE DEF Old
  <2> QED
      BY <1>3, <2>1, <2>2, <2>3, <2>4, <2>5
<1>4. ASSUME NEW r \in Adding(c)'
      PROVE  ReadyToSave(r)'
  <2> DEFINE m == msgs[reqs[r].msg]
             n == msgs'[reqs'[r].msg]
  <2>0. r \in Reqs /\ reqs'[r].pc \in {"check", "save"} /\ n.chat = c
      BY DEF Adding
  <2>1. /\ SameRequest(r)
        /\ reqs[r].pc \in {"find", "check", "save"}
        /\ reqs[r].pc = "find" =>
              /\ signers' = signers
              /\ SignersOf(m.chat, m.user) = {} \/
                 reqs'[r].signer \in First(SignersOf(m.chat, m.user))
        /\ reqs[r].pc \in {"check", "save"} => reqs'[r].signer = reqs[r].signer
        /\ reqs'[r].pc = "save" =>
              \/ reqs[r].pc = "save"
              \/ /\ signers' = signers
                 /\ HeldByOther(m.chat, m.user, reqs[r].addr) = {}
        /\ ~AddSignerSave(r)
      BY <2>0, ReachCheck
  <2>2. n.chat = m.chat /\ n.user = m.user /\ reqs'[r].addr = reqs[r].addr
      BY <1>1, <2>0, <2>1, InFlightKnown DEF SameRequest, MsgsStay
  <2>9. reqs[r].pc \in {"check", "save"} => r \in Adding(c) /\ ReadyToSave(r)
      BY <1>0, <2>0, <2>2 DEF Adding, ExclusiveIn
  <2>3. ASSUME NEW i \in DOMAIN signers', signers'[i].live, signers'[i].chat = n.chat
        PROVE  i \in DOMAIN signers /\ signers[i].live
               /\ signers[i].addr = signers'[i].addr
               /\ signers[i].chat = signers'[i].chat
               /\ signers[i].user = signers'[i].user
    <3>1. CASE reqs[r].pc = "find"
        BY <2>1, <2>3, <3>1
    <3>2. CASE reqs[r].pc \in {"check", "save"}
      <4>1. ASSUME NEW t \in Reqs, SavedBy(t, i) PROVE FALSE
        <5>1. t \in Adding(c) /\ r \in Adding(c)
            BY <1>2, <2>0, <2>3, <2>9, <3>2, <4>1
        <5> QED
            BY <1>0, <2>1, <4>1, <5>1 DEF SavedBy, ExclusiveIn
      <4> QED
          BY <1>1, <2>3, <4>1, LiveSigners DEF SignersStay
    <3> QED
        BY <2>1, <3>1, <3>2
  <2>4. reqs'[r].pc = "save" => HeldByOther(m.chat, m.user, reqs[r].addr) = {}
      BY <2>1, <2>9 DEF ReadyToSave
  <2>5. reqs'[r].pc = "save" =>
            \A i \in DOMAIN signers' :
                ~(/\ signers'[i].live /\ signers'[i].chat = n.chat
                  /\ signers'[i].user # n.user /\ signers'[i].addr = reqs'[r].addr)
      BY <2>2, <2>3, <2>4 DEF HeldByOther
  <2>6. SignersOf(m.chat, m.user) \subseteq {reqs'[r].signer}
    <3>1. CASE reqs[r].pc \in {"check", "save"}
        BY <2>1, <2>9, <3>1 DEF ReadyToSave
    <3>2. CASE reqs[r].pc = "find"
      <4>1. \A i, j \in SignersOf(m.chat, m.user) : i = j
          BY <1>0, <2>0, <2>2 DEF ExclusiveIn, SignersOf
      <4> QED
          BY <2>1, <3>2, <4>1 DEF First
    <3> QED
        BY <2>1, <3>1, <3>2
  <2>7. \A i \in DOMAIN signers' :
            signers'[i].live /\ signers'[i].chat = n.chat /\ signers'[i].user = n.user
            => i = reqs'[r].signer
      BY <2>2, <2>3, <2>6 DEF SignersOf
  <2> HIDE DEF m
  <2> QED
      BY <2>5, <2>7 DEF HeldByOther, SignersOf, ReadyToSave
<1>5. \A r, t \in Adding(c)' : r = t
    BY <1>0, AddingApart DEF ExclusiveIn
<1> QED
    BY <1>3, <1>4, <1>5 DEF ExclusiveIn

(* In one chat no two requests are between AddSigner's read of the member's *)
(* row and its save, as if it were one transaction. The code does not see   *)
(* to it: theorems that assume it say what it would take.                   *)
SignersApart == \A c \in Chats : \A r, t \in Adding(c) : r = t

(* The requests of no chat have overlapped there if none ever do.           *)
LEMMA NoneRaced ==
    ASSUME ChatInv, raced = {}, [Next]_vars, SignersApart'
    PROVE  raced' = {}
<1>1. CASE raced' = raced
    BY <1>1
<1>2. ASSUME NEW r \in Reqs, AddSignerFind(r), raced' # raced
      PROVE  FALSE
  <2>1. reqs[r].pc = "find" /\ reqs \in [Reqs -> ReqState] /\ msgs' = msgs
      BY <1>2 DEF AddSignerFind, ChatInv, TypeOK
  <2>2. PICK c \in Chats : c = msgs[reqs[r].msg].chat
      BY <2>1, InFlightKnown
  <2>3. /\ Adding(c) # {}
        /\ \E i, f : reqs' = [reqs EXCEPT ![r].pc = "check", ![r].signer = i,
                                          ![r].force = f]
      BY <1>2, <2>2 DEF AddSignerFind
  <2>4. reqs'[r].pc = "check" /\ reqs'[r].msg = reqs[r].msg
      BY <2>1, <2>3 DEF ReqState
  <2>5. PICK t \in Adding(c) : TRUE
      BY <2>3
  <2>6. t \in Reqs /\ t # r /\ reqs'[t] = reqs[t]
      BY <1>2, <2>1, <2>5, OthersStay DEF Adding, Handle
  <2>7. r \in Adding(c)' /\ t \in Adding(c)'
      BY <2>1, <2>2, <2>4, <2>5, <2>6 DEF Adding
  <2> QED
      BY <2>6, <2>7 DEF SignersApart
<1> QED
  BY <1>1, <1>2
  DEF Next, vars, Bot, GetOrCreateUser, SetupChat, UnlinkCommand, StartCommand,
      FindMessage, CreateMessage, RemoveSigner, DeleteSigner, DeleteMessage, Arrive,
      Handle, VerifyMessage, LinkSafe, LinkQueryChat, LinkSaveChat, LinkCheckOwner,
      AddSignerStatus, AddSignerCheck, AddSignerSave, LinkAnnounce, SaveVerified, Crash

(* If the requests of a chat take turns between AddSigner's read and its    *)
(* save, no two of its members are bound to one address, although the check *)
(* and the save are two statements: neither the bot and its crashes nor     *)
(* requests in other chats or elsewhere in a handler come between them.     *)
THEOREM AddressesExclusive == Spec /\ []SignersApart => []AddressUnique
<1> DEFINE Inv == ChatInv /\ SignedInv /\ ExclusiveInv /\ raced = {}
<1>1. Init => Inv
    BY InitChatInv, InitSignedInv, InitExclusiveInv DEF Init
<1>2. Inv /\ SignersApart' /\ [Next]_vars => Inv'
    BY NextChatInv, NextSignedInv, NextExclusiveInv, NoneRaced
<1>3. Inv => AddressUnique
    BY MessageRows DEF ChatInv, ExclusiveInv, ExclusiveIn, AddressUnique
<1> QED
    BY <1>1, <1>2, <1>3, PTL DEF Spec

-----------------------------------------------------------------------------
(* Whatever requests overlap, a step changes the binding of one member.     *)

(* The bindings of chat c that other rows than row k stand for.             *)
OtherRows(c, k) ==
    {<<signers[j].user, signers[j].addr>> :
        j \in {i \in DOMAIN signers : signers[i].live /\ signers[i].chat = c /\ i # k}}

PairOf(row) == <<row.user, row.addr>>

(* The bindings of a chat, seen from row k: those of the other rows, and    *)
(* its own if it is a live row of that chat.                                *)
LEMMA SeenFromRow ==
    ASSUME NEW c \in Chats, NEW k \in DOMAIN signers
    PROVE  LiveRows[c] = OtherRows(c, k) \cup
               (IF signers[k].live /\ signers[k].chat = c THEN {PairOf(signers[k])} ELSE {})
BY DEF LiveRows, OtherRows, PairOf

(* After row k was written over with a row of the same chat.                *)
LEMMA RowOverwritten ==
    ASSUME TypeOK, NEW k \in DOMAIN signers, NEW new \in SignerRow,
           new.chat = signers[k].chat, signers' = [signers EXCEPT ![k] = new],
           NEW c \in Chats
    PROVE  LiveRows'[c] = OtherRows(c, k) \cup
               (IF new.live /\ new.chat = c THEN {PairOf(new)} ELSE {})
<1>1. /\ DOMAIN signers' = DOMAIN signers /\ signers'[k] = new
      /\ \A i \in DOMAIN signers : i # k => signers'[i] = signers[i]
  BY DEF TypeOK
<1>2. OtherRows(c, k)' = OtherRows(c, k)
  BY <1>1 DEF OtherRows
<1>3. LiveRows'[c] = OtherRows(c, k)' \cup
          (IF signers'[k].live /\ signers'[k].chat = c THEN {PairOf(signers'[k])} ELSE {})
  BY <1>1 DEF LiveRows, OtherRows, PairOf
<1> QED
  BY <1>1, <1>2, <1>3

(* AddSigner goes on only for a user it has found.                          *)
KnownInv ==
    \A r \in Reqs : reqs[r].pc \in {"check", "save"} => msgs[reqs[r].msg].user \in users

(* KnownInv holds before any request.                                       *)
LEMMA InitKnownInv == Init => KnownInv
BY IdleReqState DEF Init, KnownInv

(* Nobody deletes a user.                                                   *)
LEMMA NextKnownInv ==
    ASSUME ChatInv, KnownInv, [Next]_vars
    PROVE  KnownInv'
<1> SUFFICES ASSUME NEW r \in Reqs, reqs'[r].pc \in {"check", "save"}
             PROVE  msgs'[reqs'[r].msg].user \in users'
  BY DEF KnownInv
<1> DEFINE m == msgs[reqs[r].msg]
<1>1. /\ SameRequest(r) /\ reqs[r].pc \in {"find", "check", "save"}
      /\ reqs[r].pc = "find" => m.user \in users
  BY ReachCheck
<1>2. m.user \in users
  BY <1>1 DEF KnownInv
<1>3. users \subseteq users'
  BY DEF Next, vars, Bot, GetOrCreateUser, SetupChat, UnlinkCommand, StartCommand,
     FindMessage, CreateMessage, RemoveSigner, DeleteSigner, DeleteMessage, Arrive, Handle,
     VerifyMessage, LinkSafe, LinkQueryChat, LinkSaveChat, LinkCheckOwner, AddSignerStatus,
     AddSignerFind, AddSignerCheck, AddSignerSave, LinkAnnounce, SaveVerified, Crash
<1>4. msgs'[reqs'[r].msg].user = m.user
  BY <1>1, RowsStay, InFlightKnown DEF SameRequest, MsgsStay
<1> QED
  BY <1>2, <1>3, <1>4

(* So writing over a row adds, replaces or removes one binding, or none.    *)
LEMMA OverwriteIsAllowed ==
    ASSUME TypeOK, NEW k \in DOMAIN signers, NEW new \in SignerRow,
           new.chat = signers[k].chat, new.user = signers[k].user,
           new.live => new.user \in users /\ new.addr \in Wallets[new.user],
           signers' = [signers EXCEPT ![k] = new], UNCHANGED <<users, chats>>
    PROVE  [Tables!Next]_(Tables!vars)
<1> DEFINE old  == signers[k]
           c    == old.chat
           rest == OtherRows(c, k)
<1>1. /\ c \in Chats /\ old.user \in Users /\ old.addr \in Addrs
      /\ new.addr \in Addrs
  BY MessageRows DEF SignerRow
<1>a. ASSUME NEW d \in Chats
      PROVE  /\ LiveRows[d] = OtherRows(d, k) \cup
                    (IF old.live /\ old.chat = d THEN {PairOf(old)} ELSE {})
             /\ LiveRows'[d] = OtherRows(d, k) \cup
                    (IF new.live /\ new.chat = d THEN {PairOf(new)} ELSE {})
  BY SeenFromRow, RowOverwritten
<1>2. LiveRows[c] = rest \cup (IF old.live THEN {PairOf(old)} ELSE {})
  BY <1>1, <1>a
<1>3. LiveRows'[c] = rest \cup (IF new.live THEN {PairOf(new)} ELSE {})
  BY <1>1, <1>a
<1>4. \A d \in Chats : d # c => LiveRows'[d] = LiveRows[d]
  BY <1>a
<1>5. LiveRows = [d \in Chats |-> LiveRows[d]] /\ LiveRows' = [d \in Chats |-> LiveRows'[d]]
  BY DEF LiveRows
<1>6. PairOf(old) = <<old.user, old.addr>> /\ PairOf(new) = <<old.user, new.addr>>
  BY DEF PairOf
<1> HIDE DEF rest
<1>7. ASSUME NEW S, LiveRows'[c] = S PROVE LiveRows' = [LiveRows EXCEPT ![c] = S]
  BY <1>1, <1>4, <1>5, <1>7
<1>b. UNCHANGED <<users, LinkedPair>>
  BY DEF LinkedPair
<1>8. CASE LiveRows'[c] = LiveRows[c]
  BY <1>b, <1>4, <1>5, <1>8 DEF Tables!vars
<1>9. CASE ~new.live /\ LiveRows'[c] # LiveRows[c]
  <2>1. PairOf(old) \in LiveRows[c] /\ LiveRows'[c] = LiveRows[c] \ {PairOf(old)}
    BY <1>2, <1>3, <1>9
  <2>2. Tables!Remove(c, old.user, old.addr)
    BY <1>b, <1>6, <1>7, <2>1 DEF Tables!Remove
  <2> QED
    BY <1>1, <2>2 DEF Tables!Next
<1>10. CASE new.live /\ LiveRows'[c] = LiveRows[c] \cup {PairOf(new)}
  <2>1. Tables!Add(c, old.user, new.addr)
    BY <1>b, <1>6, <1>7, <1>10 DEF Tables!Add
  <2> QED
    BY <1>1, <2>1 DEF Tables!Next
<1>11. CASE new.live /\ LiveRows'[c] # LiveRows[c] \cup {PairOf(new)}
  <2>1. /\ PairOf(old) \in LiveRows[c]
        /\ LiveRows'[c] = (LiveRows[c] \ {PairOf(old)}) \cup {PairOf(new)}
    BY <1>2, <1>3, <1>11
  <2>2. Tables!Replace(c, old.user, old.addr, new.addr)
    BY <1>b, <1>6, <1>7, <1>11, <2>1 DEF Tables!Replace
  <2> QED
    BY <1>1, <2>2 DEF Tables!Next
<1> QED
  BY <1>8, <1>9, <1>10, <1>11

(* A new row adds one binding.                                              *)
LEMMA AppendIsAllowed ==
    ASSUME TypeOK, NEW new \in SignerRow, new.live,
           new.user \in users, new.addr \in Wallets[new.user],
           signers' = Append(signers, new), UNCHANGED <<users, chats>>
    PROVE  Tables!Next
<1> DEFINE c == new.chat
<1>1. c \in Chats /\ new.user \in Users /\ new.addr \in Addrs
  BY DEF SignerRow
<1>2. /\ DOMAIN signers' = DOMAIN signers \cup {Len(signers) + 1}
      /\ \A i \in DOMAIN signers : signers'[i] = signers[i]
      /\ signers'[Len(signers) + 1] = new
  BY RowAppended DEF TypeOK
<1> DEFINE n == Len(signers) + 1
<1> HIDE DEF n
<1>3. LiveRows'[c] = LiveRows[c] \cup {<<new.user, new.addr>>}
  BY <1>1, <1>2 DEF LiveRows, n
<1>4. \A d \in Chats : d # c => LiveRows'[d] = LiveRows[d]
  BY <1>2 DEF LiveRows, n
<1>5. LiveRows = [d \in Chats |-> LiveRows[d]] /\ LiveRows' = [d \in Chats |-> LiveRows'[d]]
  BY DEF LiveRows
<1>6. LiveRows' = [LiveRows EXCEPT ![c] = @ \cup {<<new.user, new.addr>>}]
  BY <1>1, <1>3, <1>4, <1>5
<1>7. Tables!Add(c, new.user, new.addr)
  BY <1>6 DEF Tables!Add, LinkedPair
<1> QED
  BY <1>1, <1>7 DEF Tables!Next

(* The steps that write a signer row.                                       *)
LEMMA SaveIsAllowed ==
    ASSUME ChatInv, SignedInv, KnownInv, NEW r \in Reqs, AddSignerSave(r)
    PROVE  [Tables!Next]_(Tables!vars)
<1> DEFINE q == reqs[r]
           m == msgs[q.msg]
           row == [chat |-> m.chat, user |-> m.user, addr |-> q.addr,
                   isSigner |-> q.isSigner, live |-> TRUE]
           old == [signers[q.signer] EXCEPT !.addr = q.addr,
                                     !.isSigner = q.isSigner, !.live = TRUE]
<1>1. /\ q.signer = 0 => row \in SignerRow /\ signers' = Append(signers, row)
      /\ q.signer # 0 =>
            /\ q.signer \in DOMAIN signers
            /\ old \in SignerRow
            /\ signers' \in {signers, [signers EXCEPT ![q.signer] = old]}
  BY AddSignerSaveRows
<1>2. /\ q.addr \in Wallets[m.user] /\ OwnRow(r) /\ TypeOK
      /\ m.user \in users /\ UNCHANGED <<users, chats>>
  BY DEF SignedInv, KnownInv, AddSignerSave, ChatInv
<1>3. CASE q.signer = 0
  <2>1. row.live /\ row.addr = q.addr /\ row.user = m.user
    OBVIOUS
  <2>2. row \in SignerRow /\ signers' = Append(signers, row)
    BY <1>1, <1>3
  <2> HIDE DEF row
  <2> QED
    BY <1>2, <2>1, <2>2, AppendIsAllowed DEF Tables!vars
<1>4. CASE q.signer # 0
  <2>1. q.signer \in DOMAIN signers /\ signers[q.signer] \in SignerRow
    BY <1>1, <1>2, <1>4, MessageRows
  <2>2. /\ old.chat = signers[q.signer].chat /\ old.user = signers[q.signer].user
        /\ old.user = m.user /\ old.addr = q.addr
    BY <1>2, <1>4, <2>1 DEF OwnRow, SignerRow
  <2>3. old \in SignerRow
    BY <1>1, <1>4
  <2>4. signers' = signers \/ signers' = [signers EXCEPT ![q.signer] = old]
    BY <1>1, <1>4
  <2> HIDE DEF old
  <2>5. CASE signers' = signers
    BY <1>2, <2>5 DEF Tables!vars, LiveRows, LinkedPair
  <2>6. CASE signers' = [signers EXCEPT ![q.signer] = old]
    BY <1>2, <2>1, <2>2, <2>3, <2>6, OverwriteIsAllowed
  <2> QED
    BY <2>4, <2>5, <2>6
<1> QED
  BY <1>3, <1>4

LEMMA DeleteIsAllowed ==
    ASSUME ChatInv, DeleteSigner
    PROVE  [Tables!Next]_(Tables!vars)
<1>1. bot.signer = 0 \/ bot.signer \in DOMAIN signers
  BY DEF ChatInv, TypeOK
<1>0. UNCHANGED <<users, chats>>
  BY DEF DeleteSigner
<1>2. CASE bot.signer = 0
  BY <1>0, <1>2 DEF DeleteSigner, Tables!vars, LiveRows, LinkedPair
<1>3. CASE bot.signer \in DOMAIN signers
  <2> DEFINE new == [signers[bot.signer] EXCEPT !.live = FALSE]
  <2>1. signers[bot.signer] \in SignerRow /\ bot.signer # 0
    BY <1>3, MessageRows DEF ChatInv
  <2>2. /\ new \in SignerRow /\ ~new.live
        /\ new.chat = signers[bot.signer].chat /\ new.user = signers[bot.signer].user
    BY <2>1 DEF SignerRow
  <2>3. signers' = [signers EXCEPT ![bot.signer] = new]
    BY <2>1 DEF DeleteSigner
  <2> HIDE DEF new
  <2> QED
    BY <1>0, <1>3, <2>2, <2>3, OverwriteIsAllowed DEF ChatInv
<1> QED
  BY <1>1, <1>2, <1>3

(* The step of /link that writes the Safe: the pair of a request, or what   *)
(* the chat has already.                                                    *)
LEMMA LinkIsAllowed ==
    ASSUME ChatInv, LinkInv, NEW r \in Reqs, LinkSaveChat(r)
    PROVE  [Tables!Next]_(Tables!vars)
<1> DEFINE q == reqs[r]
           c == msgs[q.msg].chat
           row == [q.seen EXCEPT !.safe = q.safe, !.chain = q.chain]
<1>1. /\ q.pc = "saveChat" /\ q.kind = "link" /\ q.seen \in ChatRow
      /\ c \in Chats /\ chats \in [Chats -> ChatRow]
  BY InFlightKnown DEF LinkSaveChat, RequestOK, ChatInv, TypeOK
<1>2. <<q.safe, q.chain>> \in Requested
  BY <1>1 DEF LinkInv
<1>3. row.safe = q.safe /\ row.chain = q.chain
  BY <1>1 DEF ChatRow
<1>4. /\ chats' = chats \/ chats' = [chats EXCEPT ![c] = row]
      /\ UNCHANGED <<users, signers>>
  BY DEF LinkSaveChat
<1>5. LiveRows' = LiveRows
  BY <1>4 DEF LiveRows
<1> HIDE DEF row
<1>6. CASE chats' = chats
  BY <1>4, <1>5, <1>6 DEF Tables!vars, LinkedPair
<1>7. CASE chats' = [chats EXCEPT ![c] = row]
  <2>1. LinkedPair' = [LinkedPair EXCEPT ![c] = <<q.safe, q.chain>>]
    BY <1>1, <1>3, <1>7 DEF LinkedPair
  <2>2. Tables!Link(c, <<q.safe, q.chain>>)
    BY <1>4, <1>5, <2>1 DEF Tables!Link
  <2> QED
    BY <1>1, <1>2, <2>2 DEF Tables!Next
<1> QED
  BY <1>4, <1>6, <1>7

(* No other step changes what the tables show.                              *)
LEMMA NextIsAllowed ==
    ASSUME ChatInv, SignedInv, KnownInv, LinkInv, [Next]_vars
    PROVE  [Tables!Next]_(Tables!vars)
<1>1. CASE UNCHANGED <<users, chats, signers>>
  BY <1>1 DEF Tables!vars, LiveRows, LinkedPair
<1>2. ASSUME NEW cmd, NEW c, NEW u \in Users, GetOrCreateUser(cmd, c, u)
      PROVE  Tables!Next
  <2>1. Tables!Know(u)
    BY <1>2 DEF GetOrCreateUser, Tables!Know, LiveRows, LinkedPair
  <2> QED
    BY <2>1 DEF Tables!Next
<1>3. CASE SetupChat
  <2>1. LinkedPair' = LinkedPair
    BY <1>3 DEF SetupChat, LinkedPair, ChatInv, TypeOK, ChatRow
  <2> QED
    BY <1>3, <2>1 DEF SetupChat, Tables!vars, LiveRows
<1>4. CASE DeleteSigner
  BY <1>4, DeleteIsAllowed
<1>5. ASSUME NEW r \in Reqs, AddSignerSave(r) PROVE [Tables!Next]_(Tables!vars)
  BY <1>5, SaveIsAllowed
<1>6. ASSUME NEW r \in Reqs, LinkSaveChat(r) PROVE [Tables!Next]_(Tables!vars)
  BY <1>6, LinkIsAllowed
<1> QED
  BY <1>1, <1>2, <1>3, <1>4, <1>5, <1>6
  DEF Next, vars, Bot, UnlinkCommand, StartCommand,
      FindMessage, CreateMessage, RemoveSigner, DeleteMessage, Arrive, Handle,
      VerifyMessage, LinkSafe, LinkQueryChat, LinkCheckOwner,
      AddSignerStatus, AddSignerFind, AddSignerCheck, LinkAnnounce, SaveVerified,
      Crash

(* However many requests overlap, with /unlink and crashes between them:    *)
(* the tables bind, rebind and unbind one known member at a time, each to a *)
(* wallet of his own, and link one chat at a time to a pair that was        *)
(* posted.                                                                  *)
THEOREM TablesImplemented == Spec => TablesSpec
<1>1. Init => Tables!Init
  BY DEF Init, Tables!Init, LiveRows, LinkedPair
<1>2. ChatInv /\ SignedInv /\ KnownInv /\ LinkInv /\ [Next]_vars
      => [Tables!Next]_(Tables!vars)
  BY NextIsAllowed
<1>3. Spec => [](ChatInv /\ SignedInv /\ KnownInv /\ LinkInv)
  BY InitChatInv, NextChatInv, InitSignedInv, NextSignedInv, InitKnownInv, NextKnownInv,
     InitLinkInv, NextLinkInv, PTL DEF Spec
<1> QED
  BY <1>1, <1>2, <1>3, PTL DEF Spec, TablesSpec

-----------------------------------------------------------------------------
(* If such requests are apart, the tables implement MemberBinding.          *)

(* Every binding has one row.                                               *)
OneRow ==
    /\ AddressUnique
    /\ \A i, j \in DOMAIN signers :
           /\ signers[i].live /\ signers[j].live
           /\ signers[i].chat = signers[j].chat
           /\ signers[i].user = signers[j].user
           => i = j

(* The address that is found for a member is that of a row of his.          *)
FoundInRows ==
    \A c \in Chats, u \in Users :
        /\ BoundAddress[c][u] \in Addrs \cup {Nil}
        /\ \A a \in Addrs : <<u, a>> \in LiveRows[c] <=> BoundAddress[c][u] = a

LEMMA FoundIsBound == TypeOK /\ OneRow => FoundInRows
<1> SUFFICES ASSUME TypeOK, OneRow, NEW c \in Chats, NEW u \in Users
             PROVE  /\ BoundAddress[c][u] \in Addrs \cup {Nil}
                    /\ \A a \in Addrs : <<u, a>> \in LiveRows[c] <=> BoundAddress[c][u] = a
  BY DEF FoundInRows
<1> DEFINE rows == SignersOf(c, u)
           row == signers[CHOOSE i \in rows : i \in First(rows)]
<1>1. BoundAddress[c][u] = IF rows = {} THEN Nil ELSE row.addr
  BY DEF BoundAddress
<1>2. \A a : <<u, a>> \in LiveRows[c] <=> \E i \in rows : signers[i].addr = a
  BY DEF LiveRows, SignersOf
<1>3. CASE rows = {}
  BY <1>1, <1>2, <1>3, OnboardingAssumption
<1>4. ASSUME NEW k \in rows
      PROVE  BoundAddress[c][u] = signers[k].addr /\ signers[k].addr \in Addrs /\ rows = {k}
  <2>1. \A i \in rows : i = k
    BY <1>4 DEF OneRow, SignersOf
  <2>2. k \in DOMAIN signers /\ k \in Nat /\ signers[k].addr \in Addrs
    BY <1>4, MessageRows DEF SignersOf
  <2>3. \A i \in rows : i \in First(rows) <=> i = k
    BY <2>1, <2>2 DEF First
  <2>4. (CHOOSE i \in rows : i \in First(rows)) = k
    BY <1>4, <2>1, <2>3
  <2> QED
    BY <1>1, <1>4, <2>1, <2>2, <2>4
<1> HIDE DEF rows
<1>5. CASE rows # {}
  BY <1>2, <1>4, <1>5
<1> QED
  BY <1>3, <1>5

(* If the rows bind or unbind one member, so do the addresses found.        *)
LEMMA TablesAreBinding ==
    ASSUME TypeOK, OneRow, TypeOK', OneRow', [Tables!Next]_(Tables!vars)
    PROVE  [Binding!Next]_BoundAddress
<1>1. \A c \in Chats, u \in Users :
          /\ BoundAddress[c][u] \in Addrs \cup {Nil}
          /\ \A a \in Addrs : <<u, a>> \in LiveRows[c] <=> BoundAddress[c][u] = a
  BY FoundIsBound DEF FoundInRows
<1>2. \A c \in Chats, u \in Users :
          /\ BoundAddress'[c][u] \in Addrs \cup {Nil}
          /\ \A a \in Addrs : <<u, a>> \in LiveRows'[c] <=> BoundAddress'[c][u] = a
  <2>1. FoundInRows'
    BY FoundIsBound, PTL
  <2> QED
    BY <2>1 DEF FoundInRows
<1>3. Nil \notin Addrs
  BY OnboardingAssumption
<1>4. ASSUME NEW c \in Chats, NEW u \in Users,
             \A a \in Addrs : <<u, a>> \in LiveRows'[c] <=> <<u, a>> \in LiveRows[c]
      PROVE  BoundAddress'[c][u] = BoundAddress[c][u]
  <2> DEFINE now == BoundAddress[c][u]
             next == BoundAddress'[c][u]
  <2>1. now \in Addrs \cup {Nil} /\ next \in Addrs \cup {Nil}
    BY <1>1, <1>2
  <2>2. \A a \in Addrs : now = a <=> next = a
    BY <1>1, <1>2, <1>4
  <2> HIDE DEF now, next
  <2>3. now = next
    BY <1>3, <2>1, <2>2
  <2> QED
    BY <2>3 DEF now, next
<1>5. /\ BoundAddress = [c \in Chats |-> [u \in Users |-> BoundAddress[c][u]]]
      /\ BoundAddress' = [c \in Chats |-> [u \in Users |-> BoundAddress'[c][u]]]
  BY DEF BoundAddress
<1>6. ASSUME NEW c \in Chats, NEW u \in Users, NEW b,
             \A d \in Chats : d # c => LiveRows'[d] = LiveRows[d],
             \A v \in Users \ {u}, a \in Addrs :
                 <<v, a>> \in LiveRows'[c] <=> <<v, a>> \in LiveRows[c],
             BoundAddress'[c][u] = b
      PROVE  BoundAddress' = [BoundAddress EXCEPT ![c][u] = b]
  <2>1. \A d \in Chats, v \in Users :
            BoundAddress'[d][v] = IF d = c /\ v = u THEN b ELSE BoundAddress[d][v]
    BY <1>4, <1>6
  <2> QED
    BY <1>5, <2>1
<1>7. ASSUME NEW c \in Chats, NEW u \in Users, NEW a \in Addrs, <<u, a>> \in LiveRows'[c],
             \A v \in Users \ {u}, b \in Addrs :
                 <<v, b>> \in LiveRows'[c] <=> <<v, b>> \in LiveRows[c]
      PROVE  Binding!Free(c, u, a)
  <2>1. ASSUME NEW v \in Users \ {u}, BoundAddress[c][v] = a PROVE FALSE
    <3>1. <<v, a>> \in LiveRows'[c]
      BY <1>1, <1>7, <2>1
    <3> QED
      BY <1>7, <2>1, <3>1 DEF OneRow, AddressUnique, LiveRows
  <2> QED
    BY <2>1 DEF Binding!Free
<1>8. CASE UNCHANGED LiveRows
  BY <1>4, <1>5, <1>8
<1>9. ASSUME NEW c \in Chats, NEW u \in Users, NEW a \in Addrs, <<u, a>> \in LiveRows'[c],
             \A d \in Chats : d # c => LiveRows'[d] = LiveRows[d],
             \A v \in Users \ {u}, b \in Addrs :
                 <<v, b>> \in LiveRows'[c] <=> <<v, b>> \in LiveRows[c]
      PROVE  Binding!Next
  <2>1. BoundAddress'[c][u] = a
    BY <1>2, <1>9
  <2>2. Binding!Free(c, u, a)
    BY <1>7, <1>9
  <2>3. BoundAddress' = [BoundAddress EXCEPT ![c][u] = a]
    BY <1>6, <1>9, <2>1
  <2> QED
    BY <2>2, <2>3 DEF Binding!Next, Binding!Bind
<1>10. LiveRows = [d \in Chats |-> LiveRows[d]]
  BY DEF LiveRows
<1>11. ASSUME NEW c \in Chats, NEW u \in Users, NEW a \in Addrs, Tables!Add(c, u, a)
       PROVE  Binding!Next
  <2>1. /\ LiveRows'[c] = LiveRows[c] \cup {<<u, a>>}
        /\ \A d \in Chats : d # c => LiveRows'[d] = LiveRows[d]
    BY <1>10, <1>11 DEF Tables!Add
  <2> QED
    BY <1>9, <2>1
<1>12. ASSUME NEW c \in Chats, NEW u \in Users, NEW a \in Addrs, NEW b \in Addrs,
              Tables!Replace(c, u, a, b)
       PROVE  Binding!Next
  <2>1. /\ LiveRows'[c] = (LiveRows[c] \ {<<u, a>>}) \cup {<<u, b>>}
        /\ \A d \in Chats : d # c => LiveRows'[d] = LiveRows[d]
    BY <1>10, <1>12 DEF Tables!Replace
  <2> QED
    BY <1>9, <2>1
<1>13. ASSUME NEW c \in Chats, NEW u \in Users, NEW a \in Addrs, Tables!Remove(c, u, a)
       PROVE  Binding!Next
  <2>1. /\ <<u, a>> \in LiveRows[c]
        /\ LiveRows'[c] = LiveRows[c] \ {<<u, a>>}
        /\ \A d \in Chats : d # c => LiveRows'[d] = LiveRows[d]
    BY <1>10, <1>13 DEF Tables!Remove
  <2>2. BoundAddress[c][u] = a
    BY <1>1, <2>1
  <2>3. \A b \in Addrs : <<u, b>> \notin LiveRows'[c]
    BY <1>1, <2>1, <2>2
  <2>4. BoundAddress'[c][u] = Nil
    BY <1>2, <2>3
  <2>5. BoundAddress' = [BoundAddress EXCEPT ![c][u] = Nil]
    BY <1>6, <2>1, <2>4
  <2> QED
    BY <2>5 DEF Binding!Next, Binding!Unbind
<1>14. Tables!Next \/ UNCHANGED LiveRows
  BY DEF Tables!vars
<1> QED
  BY <1>8, <1>11, <1>12, <1>13, <1>14 DEF Tables!Next, Tables!Know, Tables!Link

(* If the requests of a chat take turns between AddSigner's read and its    *)
(* save, every step of all that runs binds one member to an address that is *)
(* free, unbinds one, or changes no binding.                                *)
THEOREM BindingImplemented == Spec /\ []SignersApart => BindingSpec
<1> DEFINE Inv == /\ ChatInv /\ SignedInv /\ KnownInv /\ LinkInv /\ ExclusiveInv
                  /\ raced = {}
<1>1. Init => Binding!Init
  BY DEF Init, Binding!Init, BoundAddress, SignersOf
<1>2. Init => Inv
  BY InitChatInv, InitSignedInv, InitKnownInv, InitLinkInv, InitExclusiveInv DEF Init
<1>3. Inv /\ SignersApart' /\ [Next]_vars => Inv'
  BY NextChatInv, NextSignedInv, NextKnownInv, NextLinkInv, NextExclusiveInv, NoneRaced
<1>5. Inv => OneRow
  BY MessageRows DEF ChatInv, ExclusiveInv, ExclusiveIn, OneRow, AddressUnique
<1>4. Inv /\ SignersApart' /\ [Next]_vars => [Binding!Next]_BoundAddress
  <2> SUFFICES ASSUME Inv, SignersApart', [Next]_vars
               PROVE  [Binding!Next]_BoundAddress
    OBVIOUS
  <2>1. OneRow /\ OneRow'
    BY <1>3, <1>5, PTL
  <2>2. TypeOK /\ TypeOK'
    BY <1>3 DEF ChatInv
  <2>3. [Tables!Next]_(Tables!vars)
    BY NextIsAllowed
  <2> QED
    BY <2>1, <2>2, <2>3, TablesAreBinding
<1> QED
  BY <1>1, <1>2, <1>3, <1>4, PTL DEF Spec, BindingSpec, Binding!Spec

-----------------------------------------------------------------------------
(* What /unlink leaves behind *)

(* While no request has been in flight since the /unlink began, the row it  *)
(* has read is its member's only one, and then there is none, unless the    *)
(* chat's requests overlapped before.                                       *)
UnlinkInv ==
    /\ alone => \A r \in Reqs : reqs[r].pc = "idle"
    /\ alone /\ bot.pc = "delSigner" /\ bot.chat \notin raced =>
           SignersOf(bot.chat, bot.user) \subseteq {bot.signer}
    /\ alone /\ bot.pc = "delMsg" /\ bot.chat \notin raced =>
           SignersOf(bot.chat, bot.user) = {}

(* No request saves a row while there is none.                              *)
LEMMA NobodySaves ==
    ASSUME UnlinkInv, alone
    PROVE  ~(\E r \in Reqs : Handle(r))
BY DEF UnlinkInv, Handle, LinkQueryChat, LinkSaveChat, LinkCheckOwner, AddSignerStatus,
       AddSignerFind, AddSignerCheck, AddSignerSave, LinkAnnounce, SaveVerified

LEMMA NextUnlinkInv ==
    ASSUME ChatInv, ExclusiveInv, UnlinkInv, [Next]_vars
    PROVE  UnlinkInv'
<1> SUFFICES ASSUME alone' PROVE UnlinkInv'
  BY DEF UnlinkInv
<1>1. CASE UNCHANGED vars
  BY <1>1 DEF vars, UnlinkInv, SignersOf
<1>2. CASE Crash
  BY <1>2 DEF Crash
<1>3. ASSUME NEW r \in Reqs, Arrive(r) PROVE FALSE
  BY <1>3 DEF Arrive, VerifyMessage, LinkSafe
<1>4. ASSUME NEW r \in Reqs, Handle(r) PROVE FALSE
  <2>1. alone
    BY <1>4 DEF Handle, LinkQueryChat, LinkSaveChat, LinkCheckOwner, AddSignerStatus,
                AddSignerFind, AddSignerCheck, AddSignerSave, LinkAnnounce, SaveVerified
  <2> QED
    BY <1>4, <2>1, NobodySaves
<1>5. CASE Bot
  <2>1. reqs' = reqs /\ raced' = raced
    BY <1>5 DEF Bot, GetOrCreateUser, SetupChat, UnlinkCommand, StartCommand,
       FindMessage, CreateMessage, RemoveSigner, DeleteSigner, DeleteMessage
  <2>2. bot \in BotState
    BY DEF ChatInv, TypeOK
  <2>3. CASE RemoveSigner
    <3>1. /\ alone /\ signers' = signers
          /\ bot'.pc = "delSigner" /\ bot'.chat = bot.chat /\ bot'.user = bot.user
          /\ \/ SignersOf(bot.chat, bot.user) = {}
             \/ bot'.signer \in First(SignersOf(bot.chat, bot.user))
      BY <2>2, <2>3 DEF RemoveSigner, BotState
    <3>2. ASSUME bot.chat \notin raced
          PROVE  \A i, j \in SignersOf(bot.chat, bot.user) : i = j
      <4>1. bot.chat \in Chats
        BY <2>3 DEF RemoveSigner, ChatInv, TypeOK
      <4>2. ExclusiveIn(bot.chat)
        BY <3>2, <4>1 DEF ExclusiveInv
      <4> QED
        BY <4>2 DEF ExclusiveIn, SignersOf
    <3>3. SignersOf(bot.chat, bot.user)' = SignersOf(bot.chat, bot.user)
      BY <3>1 DEF SignersOf
    <3>4. bot.chat \notin raced => SignersOf(bot.chat, bot.user) \subseteq {bot'.signer}
      BY <3>1, <3>2 DEF First
    <3> QED
      BY <2>1, <3>1, <3>3, <3>4 DEF UnlinkInv
  <2>4. CASE DeleteSigner
    <3>1. /\ alone /\ bot.pc = "delSigner"
          /\ bot'.pc = "delMsg" /\ bot'.chat = bot.chat /\ bot'.user = bot.user
      BY <2>2, <2>4 DEF DeleteSigner, BotState
    <3>2. bot.chat \notin raced => SignersOf(bot.chat, bot.user) \subseteq {bot.signer}
      BY <3>1 DEF UnlinkInv
    <3>3. bot.signer = 0 \/ bot.signer \in DOMAIN signers
      BY DEF ChatInv, TypeOK
    <3>4. bot.chat \notin raced => SignersOf(bot.chat, bot.user)' = {}
      <4>1. CASE bot.signer = 0
        <5>1. signers' = signers /\ 0 \notin DOMAIN signers
          BY <2>4, <4>1, MessageRows DEF DeleteSigner, ChatInv
        <5> QED
          BY <3>1, <3>2, <4>1, <5>1 DEF SignersOf
      <4>2. CASE bot.signer \in DOMAIN signers
        <5>1. signers[bot.signer] \in SignerRow /\ bot.signer # 0
          BY <4>2, MessageRows DEF ChatInv
        <5>2. /\ DOMAIN signers' = DOMAIN signers /\ ~signers'[bot.signer].live
              /\ \A i \in DOMAIN signers : i # bot.signer => signers'[i] = signers[i]
          BY <2>4, <4>2, <5>1 DEF DeleteSigner, SignerRow, ChatInv, TypeOK
        <5> QED
          BY <3>1, <3>2, <5>2 DEF SignersOf
      <4> QED
        BY <3>3, <4>1, <4>2
    <3> QED
      BY <2>1, <3>1, <3>4 DEF UnlinkInv, SignersOf
  <2>5. CASE UNCHANGED <<bot, signers, alone>>
    BY <2>1, <2>5 DEF UnlinkInv, SignersOf
  <2>7. ASSUME NEW i, NEW v \in BOOLEAN, UseMessage(i, v)
        PROVE  (alone' => alone) /\ bot'.pc \notin {"delSigner", "delMsg"}
    <3>1. bot' = [bot EXCEPT !.pc = "remove", !.msg = i] => bot'.pc = "remove"
      BY <2>2 DEF BotState
    <3>2. bot' = IdleBot => bot'.pc = "idle"
      BY DEF IdleBot
    <3>3. /\ bot' = [bot EXCEPT !.pc = "remove", !.msg = i] \/ bot' = IdleBot
          /\ alone' => alone
      BY <2>7, Zenon DEF UseMessage
    <3> QED
      BY <3>1, <3>2, <3>3
  <2>8. CASE FindMessage \/ CreateMessage
    <3>1. (alone' => alone) /\ bot'.pc \notin {"delSigner", "delMsg"}
      <4>1. \A i \in DOMAIN msgs : msgs[i].verified \in BOOLEAN
        BY MessageRows DEF ChatInv
      <4>2. CASE FindMessage
        <5>1. CASE bot' = [bot EXCEPT !.pc = "create"] /\ UNCHANGED alone
          BY <2>2, <5>1 DEF BotState
        <5>2. ASSUME NEW i \in MessagesOf(bot.chat, bot.user), UseMessage(i, msgs[i].verified)
              PROVE  (alone' => alone) /\ bot'.pc \notin {"delSigner", "delMsg"}
          BY <2>7, <4>1, <5>2 DEF MessagesOf
        <5> QED
          BY <4>2, <5>1, <5>2 DEF FindMessage, First
      <4>3. CASE CreateMessage
        BY <2>7, <4>3 DEF CreateMessage
      <4> QED
        BY <2>8, <4>2, <4>3
    <3> QED
      BY <2>1, <3>1 DEF UnlinkInv
  <2>9. CASE \E cmd \in {"setup", "link"}, c \in Chats, u \in Users : GetOrCreateUser(cmd, c, u)
    <3>1. alone' = alone /\ bot'.pc = "setup"
      BY <2>9 DEF GetOrCreateUser, IdleBot
    <3> QED
      BY <2>1, <3>1 DEF UnlinkInv
  <2>10. CASE SetupChat
    <3>1. alone' = alone /\ bot'.pc = "find"
      BY <2>2, <2>10 DEF SetupChat, BotState
    <3> QED
      BY <2>1, <3>1 DEF UnlinkInv
  <2>11. CASE \E c \in Chats, u \in Users : UnlinkCommand(c, u)
    <3>1. alone' = (InFlight = {}) /\ bot'.pc = "find"
      BY <2>11 DEF UnlinkCommand, IdleBot
    <3> QED
      BY <2>1, <3>1 DEF UnlinkInv, InFlight
  <2>12. ~DeleteMessage
    BY DEF DeleteMessage
  <2>13. CASE \E u \in Users : StartCommand(u)
    BY <2>5, <2>13 DEF StartCommand
  <2> QED
    BY <1>5, <2>3, <2>4, <2>8, <2>9, <2>10, <2>11, <2>12, <2>13 DEF Bot
<1> QED
  BY <1>1, <1>2, <1>3, <1>4, <1>5 DEF Next

(* An /unlink that no request overlapped leaves its member unbound, though  *)
(* it deletes one row only, in every chat where requests never overlapped   *)
(* between AddSigner's read and its save.                                   *)
THEOREM UnlinkedIsUnbound == Spec => UnlinkUnbinds
<1> DEFINE Inv == ChatInv /\ SignedInv /\ ExclusiveInv /\ UnlinkInv
<1>1. Init => Inv
  <2>1. Init => UnlinkInv
    BY DEF Init, UnlinkInv
  <2> QED
    BY <2>1, InitChatInv, InitSignedInv, InitExclusiveInv
<1>2. Inv /\ [Next]_vars => Inv'
  BY NextChatInv, NextSignedInv, NextExclusiveInv, NextUnlinkInv
<1>3. Inv /\ [Next]_vars =>
      [\A c \in Chats \ raced, u \in Users :
           bot.pc = "delMsg" /\ bot.chat = c /\ bot.user = u /\ alone =>
               SignersOf(c, u)' = {}]_vars
  <2> SUFFICES ASSUME Inv, Next, NEW c \in Chats \ raced, NEW u \in Users,
                      bot.pc = "delMsg", bot.chat = c, bot.user = u, alone
               PROVE  SignersOf(c, u)' = {}
    OBVIOUS
  <2>1. SignersOf(c, u) = {}
    BY DEF UnlinkInv
  <2>2. signers' = signers
    BY NobodySaves
    DEF Next, Bot, GetOrCreateUser, SetupChat, UnlinkCommand, StartCommand,
        FindMessage, CreateMessage, RemoveSigner, DeleteSigner, DeleteMessage,
        Arrive, VerifyMessage, LinkSafe, Crash
  <2> QED
    BY <2>1, <2>2 DEF SignersOf
<1> QED
  BY <1>1, <1>2, <1>3, PTL DEF Spec, UnlinkUnbinds

-----------------------------------------------------------------------------
(* Sign messages *)

(* The bot creates a message only when it has found none: those that have   *)
(* come back since were saved by a request, which marks them verified.      *)
MessageInv ==
    /\ OlderMessagesVerified
    /\ bot.pc = "create" =>
           \A i \in MessagesOf(bot.chat, bot.user) : msgs[i].verified

(* A live row of sign_messages was live before with the same mark, or is    *)
(* verified, or is the one the bot has just created.                        *)
LiveMessage(i) ==
    \/ i \in DOMAIN msgs /\ msgs'[i].verified
    \/ i \in DOMAIN msgs /\ msgs[i].live /\ msgs'[i].verified = msgs[i].verified

(* A row is new only if the bot created it, for its chat and its user.      *)
LEMMA NewMessage ==
    ASSUME ChatInv, CreateMessage
    PROVE  /\ DOMAIN msgs' \subseteq DOMAIN msgs \cup {Len(msgs) + 1}
           /\ \A i \in DOMAIN msgs : msgs'[i] = msgs[i] /\ i < Len(msgs) + 1
           /\ \A i \in DOMAIN msgs' \ DOMAIN msgs :
                  msgs'[i].chat = bot.chat /\ msgs'[i].user = bot.user
<1> DEFINE row == [chat |-> bot.chat, user |-> bot.user,
                   verified |-> FALSE, live |-> TRUE]
<1>1. msgs' = msgs \/ msgs' = Append(msgs, row)
  BY DEF CreateMessage
<1>2. msgs \in Seq(MsgRow) /\ row \in MsgRow
  BY DEF ChatInv, TypeOK, CreateMessage, MsgRow
<1>3. row.chat = bot.chat /\ row.user = bot.user
  OBVIOUS
<1>4. \A i \in DOMAIN msgs : i < Len(msgs) + 1
  BY <1>2
<1> HIDE DEF row
<1> QED
  BY <1>1, <1>2, <1>3, <1>4, RowAppended

LEMMA LiveMessages ==
    ASSUME ChatInv, [Next]_vars, ~CreateMessage
    PROVE  /\ DOMAIN msgs' = DOMAIN msgs
           /\ \A i \in DOMAIN msgs : msgs'[i].live => LiveMessage(i)
<1>1. CASE UNCHANGED msgs
  BY <1>1 DEF LiveMessage
<1>3. CASE DeleteMessage
  <2>1. bot.msg \in DOMAIN msgs /\ DOMAIN msgs' = DOMAIN msgs
    BY <1>3 DEF ChatInv, TypeOK, DeleteMessage
  <2>2. \A i \in DOMAIN msgs : i # bot.msg => msgs'[i] = msgs[i]
    BY <1>3, <2>1 DEF DeleteMessage, ChatInv, TypeOK
  <2>3. ~msgs'[bot.msg].live
    BY <1>3, <2>1, MessageRows DEF DeleteMessage, ChatInv, TypeOK, MsgRow
  <2> QED
    BY <2>1, <2>2, <2>3 DEF LiveMessage
<1>4. ASSUME NEW r \in Reqs, SaveVerified(r)
      PROVE  /\ DOMAIN msgs' = DOMAIN msgs
             /\ \A i \in DOMAIN msgs : msgs'[i].live => LiveMessage(i)
  <2> DEFINE k == reqs[r].msg
             row == [msgs[k] EXCEPT !.verified = TRUE, !.live = TRUE]
  <2>1. k \in DOMAIN msgs /\ msgs[k] \in MsgRow
    BY <1>4, InFlightKnown, MessageRows DEF SaveVerified, RequestOK, ChatInv
  <2>2. msgs' = msgs \/ msgs' = [msgs EXCEPT ![k] = row]
    BY <1>4 DEF SaveVerified, SaveRow
  <2>3. row.verified
    BY <2>1 DEF MsgRow
  <2> HIDE DEF row
  <2> QED
    BY <2>1, <2>2, <2>3 DEF ChatInv, TypeOK, LiveMessage
<1> QED
  BY <1>1, <1>3, <1>4
  DEF Next, vars, Bot, GetOrCreateUser, SetupChat, UnlinkCommand, StartCommand,
      FindMessage, RemoveSigner, DeleteSigner, Arrive, Handle, VerifyMessage,
      LinkSafe, LinkQueryChat, LinkSaveChat, LinkCheckOwner, AddSignerStatus,
      AddSignerFind, AddSignerCheck, AddSignerSave, LinkAnnounce, Crash

(* The bot is about to create a message only right after it found none.     *)
LEMMA AboutToCreate ==
    ASSUME ChatInv, [Next]_vars, bot'.pc = "create"
    PROVE  /\ ~CreateMessage
           /\ \/ bot' = bot
              \/ /\ FindMessage /\ MessagesOf(bot.chat, bot.user) = {}
                 /\ bot'.chat = bot.chat /\ bot'.user = bot.user
<1>1. bot \in BotState
  BY DEF ChatInv, TypeOK
<1>2. IdleBot.pc = "idle"
  BY DEF IdleBot
<1>3. ~CreateMessage
  BY <1>2 DEF CreateMessage, UseMessage
<1>4. CASE FindMessage
  <2>1. CASE bot' = [bot EXCEPT !.pc = "create"] /\ MessagesOf(bot.chat, bot.user) = {}
    BY <1>1, <1>3, <1>4, <2>1 DEF BotState
  <2>2. CASE \E i \in First(MessagesOf(bot.chat, bot.user)) : UseMessage(i, msgs[i].verified)
    <3>1. bot' = IdleBot \/ \E i \in Nat : bot' = [bot EXCEPT !.pc = "remove", !.msg = i]
      BY <2>2, MessageRows DEF UseMessage, First, MessagesOf, ChatInv
    <3>2. bot'.pc # "create"
      BY <1>1, <1>2, <3>1 DEF BotState
    <3> QED
      BY <3>2
  <2> QED
    BY <1>4, <2>1, <2>2 DEF FindMessage
<1>6. CASE \/ SetupChat \/ RemoveSigner \/ DeleteSigner \/ DeleteMessage
           \/ \E cmd \in {"setup", "link"}, c \in Chats, u \in Users :
                  GetOrCreateUser(cmd, c, u)
           \/ \E c \in Chats, u \in Users : UnlinkCommand(c, u)
  <2>1. bot'.pc # "create"
    BY <1>1, <1>2, <1>6
    DEF SetupChat, RemoveSigner, DeleteSigner, DeleteMessage, GetOrCreateUser,
        UnlinkCommand, BotState, IdleBot
  <2> QED
    BY <2>1
<1>7. CASE bot' = bot
  BY <1>3, <1>7
<1>8. CASE Crash
  BY <1>2, <1>8 DEF Crash
<1> QED
  BY <1>3, <1>4, <1>6, <1>7, <1>8
  DEF Next, vars, Bot, StartCommand, Arrive, Handle, VerifyMessage, LinkSafe,
      LinkQueryChat, LinkSaveChat, LinkCheckOwner, AddSignerStatus, AddSignerFind,
      AddSignerCheck, AddSignerSave, LinkAnnounce, SaveVerified

(* What brings an older message back marks it verified, and the newest is   *)
(* created when no other waits.                                             *)
LEMMA NextMessageInv ==
    ASSUME ChatInv, MessageInv, [Next]_vars
    PROVE  MessageInv'
<1>1. MsgsStay
  BY RowsStay
<1>2. ASSUME NEW i \in DOMAIN msgs', NEW j \in DOMAIN msgs', i < j,
             msgs'[i].chat = msgs'[j].chat, msgs'[i].user = msgs'[j].user,
             msgs'[i].live
      PROVE  msgs'[i].verified
  <2>1. CASE ~CreateMessage
    <3>1. i \in DOMAIN msgs /\ j \in DOMAIN msgs /\ LiveMessage(i)
      BY <1>2, <2>1, LiveMessages
    <3>2. msgs[i].chat = msgs[j].chat /\ msgs[i].user = msgs[j].user
      BY <1>1, <1>2, <3>1 DEF MsgsStay
    <3> QED
      BY <1>2, <3>1, <3>2 DEF LiveMessage, MessageInv, OlderMessagesVerified
  <2>2. CASE CreateMessage
    <3>1. /\ i \in DOMAIN msgs \cup {Len(msgs) + 1} /\ j \in DOMAIN msgs \cup {Len(msgs) + 1}
          /\ \A k \in DOMAIN msgs : msgs'[k] = msgs[k] /\ k < Len(msgs) + 1
          /\ \A k \in DOMAIN msgs' \ DOMAIN msgs :
                 msgs'[k].chat = bot.chat /\ msgs'[k].user = bot.user
      BY <2>2, NewMessage
    <3>2. Len(msgs) \in Nat /\ \A k \in DOMAIN msgs : k \in Nat
      BY Rows DEF ChatInv, TypeOK
    <3>3. i \in DOMAIN msgs
      BY <1>2, <3>1, <3>2
    <3>4. CASE j \in DOMAIN msgs
      BY <1>2, <3>1, <3>3, <3>4 DEF MessageInv, OlderMessagesVerified
    <3>5. CASE j \notin DOMAIN msgs
      <4>1. i \in MessagesOf(bot.chat, bot.user)
        BY <1>2, <3>1, <3>3, <3>5 DEF MessagesOf
      <4> QED
        BY <2>2, <3>1, <3>3, <4>1 DEF MessageInv, CreateMessage
    <3> QED
      BY <3>4, <3>5
  <2> QED
    BY <2>1, <2>2
<1>3. ASSUME bot'.pc = "create", NEW i \in DOMAIN msgs', msgs'[i].live,
             msgs'[i].chat = bot'.chat, msgs'[i].user = bot'.user
      PROVE  msgs'[i].verified
  <2>1. /\ ~CreateMessage
        /\ bot'.chat = bot.chat /\ bot'.user = bot.user
        /\ bot.pc = "create" \/ MessagesOf(bot.chat, bot.user) = {}
    BY <1>3, AboutToCreate
  <2>2. i \in DOMAIN msgs /\ LiveMessage(i)
    BY <1>3, <2>1, LiveMessages
  <2>3. msgs[i].live => i \in MessagesOf(bot.chat, bot.user)
    BY <1>1, <1>3, <2>1, <2>2 DEF MsgsStay, MessagesOf
  <2> QED
    BY <2>1, <2>2, <2>3 DEF LiveMessage, MessageInv
<1> QED
  BY <1>2, <1>3 DEF MessageInv, OlderMessagesVerified, MessagesOf

(* A set of which all elements are equal has at most one.                   *)
LEMMA AtMostOne ==
    ASSUME NEW S, \A i, j \in S : i = j
    PROVE  Cardinality(S) <= 1
<1>1. CASE S = {}
  BY <1>1, FS_EmptySet
<1>2. CASE S # {}
  <2>1. PICK x : S = {x}
    BY <1>2
  <2> QED
    BY <2>1, FS_Singleton
<1> QED
  BY <1>1, <1>2

(* Whatever requests save a message that /unlink deletes, and in whatever   *)
(* order: only the newest message of a member in a chat may be unverified.  *)
THEOREM OnlyNewestUnverified == Spec => []OlderMessagesVerified
<1>1. Init => ChatInv /\ MessageInv
  <2>1. Init => MessageInv
    BY DEF Init, MessageInv, OlderMessagesVerified, IdleBot
  <2> QED
    BY <2>1, InitChatInv
<1>2. ChatInv /\ MessageInv /\ [Next]_vars => (ChatInv /\ MessageInv)'
  BY NextChatInv, NextMessageInv
<1>3. MessageInv => OlderMessagesVerified
  BY DEF MessageInv
<1> QED
  BY <1>1, <1>2, <1>3, PTL DEF Spec

(* Whatever commands, deaths and revived rows come between, a member has    *)
(* one signer row in every chat whose requests never overlapped between     *)
(* AddSigner's read and its save.                                           *)
THEOREM SignersAreUnique == Spec => []OneSignerPerMember
<1>1. Init => ChatInv /\ SignedInv /\ ExclusiveInv
    BY InitChatInv, InitSignedInv, InitExclusiveInv
<1>2. ChatInv /\ SignedInv /\ ExclusiveInv /\ [Next]_vars
      => (ChatInv /\ SignedInv /\ ExclusiveInv)'
    BY NextChatInv, NextSignedInv, NextExclusiveInv
<1>3. ExclusiveInv => OneSignerPerMember
  <2> SUFFICES ASSUME ExclusiveInv, NEW c \in Chats \ raced, NEW u \in Users
               PROVE  Cardinality(SignersOf(c, u)) <= 1
    BY DEF OneSignerPerMember
  <2>1. \A i, j \in SignersOf(c, u) : i = j
    BY DEF ExclusiveInv, ExclusiveIn, SignersOf
  <2> QED
    BY <2>1, AtMostOne
<1> QED
    BY <1>1, <1>2, <1>3, PTL DEF Spec

-----------------------------------------------------------------------------
(* With one /link of a chat in flight, it checks the owners of its own Safe. *)

(* In one chat no two /link requests are in flight; the code does not see   *)
(* to that either.                                                          *)
LinksApart ==
    \A r, t \in InFlight :
        /\ reqs[r].kind = "link" /\ reqs[t].kind = "link"
        /\ msgs[reqs[r].msg].chat = msgs[reqs[t].msg].chat
        => r = t

(* What a /link request knows: the Safe it read is still that of the chat,  *)
(* then the Safe is its own, and then its address owns it.                  *)
LinkOwns(r) ==
    LET q == reqs[r]
        chat == chats[msgs[q.msg].chat]
    IN  q.pc # "idle" /\ q.kind = "link" =>
          /\ q.pc = "saveChat" =>
                q.seen.safe = chat.safe /\ q.seen.chain = chat.chain
          /\ q.pc \notin {"chat", "saveChat"} =>
                chat.safe = q.safe /\ chat.chain = q.chain
          /\ q.pc \notin {"chat", "saveChat", "owner"} =>
                q.addr \in Owners[<<q.safe, q.chain>>]

OwnsInv == \A r \in Reqs : LinkOwns(r)

(* Only LinkSafe's save changes the Safe of a chat.                         *)
LEMMA PairStays ==
    ASSUME ChatInv, [Next]_vars, NEW c \in Chats,
           \A r \in Reqs : LinkSaveChat(r) => msgs[reqs[r].msg].chat # c
    PROVE  chats'[c].safe = chats[c].safe /\ chats'[c].chain = chats[c].chain
<1>1. CASE UNCHANGED chats
  BY <1>1
<1>2. CASE SetupChat
  BY <1>2 DEF SetupChat, ChatInv, TypeOK, ChatRow
<1>3. ASSUME NEW r \in Reqs, LinkSaveChat(r)
      PROVE  chats'[c] = chats[c]
  BY <1>3 DEF LinkSaveChat, ChatInv, TypeOK
<1> QED
  BY <1>1, <1>2, <1>3
  DEF Next, vars, Bot, GetOrCreateUser, UnlinkCommand, StartCommand, FindMessage,
      CreateMessage, RemoveSigner, DeleteSigner, DeleteMessage, Arrive, Handle,
      VerifyMessage, LinkSafe, LinkQueryChat, LinkCheckOwner, AddSignerStatus,
      AddSignerFind, AddSignerCheck, AddSignerSave, LinkAnnounce, SaveVerified, Crash

(* After LinkSafe's save the chat has the Safe of the request, whether it   *)
(* was written or found to be the same.                                     *)
LEMMA SavedPair ==
    ASSUME ChatInv, NEW r \in Reqs, LinkOwns(r), LinkSaveChat(r)
    PROVE  LET chat == chats'[msgs[reqs[r].msg].chat]
           IN  chat.safe = reqs[r].safe /\ chat.chain = reqs[r].chain
<1> DEFINE q == reqs[r]
           c == msgs[q.msg].chat
           row == [q.seen EXCEPT !.safe = q.safe, !.chain = q.chain]
<1>1. /\ q.pc = "saveChat" /\ q.kind = "link" /\ q.seen \in ChatRow
      /\ c \in Chats /\ chats \in [Chats -> ChatRow]
  BY InFlightKnown DEF LinkSaveChat, RequestOK, ChatInv, TypeOK
<1>2. q.seen.safe = chats[c].safe /\ q.seen.chain = chats[c].chain
  BY <1>1 DEF LinkOwns
<1>3. row.safe = q.safe /\ row.chain = q.chain
  BY <1>1 DEF ChatRow
<1>4. IF q.seen.safe # q.safe \/ q.seen.chain # q.chain
      THEN chats' = [chats EXCEPT ![c] = row] ELSE chats' = chats
  BY DEF LinkSaveChat
<1> HIDE DEF row
<1>5. CASE q.seen.safe # q.safe \/ q.seen.chain # q.chain
  BY <1>1, <1>3, <1>4, <1>5
<1>6. CASE q.seen.safe = q.safe /\ q.seen.chain = q.chain
  BY <1>2, <1>4, <1>6
<1> QED
  BY <1>5, <1>6

(* A step of the request's own handler.                                     *)
LEMMA HandlerOwns ==
    ASSUME ChatInv, OwnsInv, [Next]_vars, NEW r \in Reqs, Handle(r),
           reqs'[r].pc # "idle", reqs'[r].kind = "link"
    PROVE  LinkOwns(r)'
<1> DEFINE q == reqs[r]
           c == msgs[q.msg].chat
<1>1. /\ SameRequest(r) /\ q.pc # "idle" /\ q.kind = "link" /\ LinkOwns(r)
  BY HandleKeepsRequest DEF SameRequest, OwnsInv
<1>2. q.msg \in DOMAIN msgs /\ c \in Chats /\ reqs \in [Reqs -> ReqState]
  BY <1>1, InFlightKnown DEF RequestOK, ChatInv, TypeOK
<1>3. /\ reqs'[r].msg = q.msg /\ reqs'[r].addr = q.addr
      /\ reqs'[r].safe = q.safe /\ reqs'[r].chain = q.chain
      /\ msgs'[reqs'[r].msg].chat = c
  BY <1>1, <1>2, RowsStay DEF SameRequest, MsgsStay
<1>4. CASE LinkQueryChat(r)
  <2>1. reqs'[r].pc = "saveChat" /\ reqs'[r].seen = chats[c] /\ chats' = chats
    BY <1>2, <1>4 DEF LinkQueryChat, ReqState
  <2> QED
    BY <1>3, <2>1 DEF LinkOwns
<1>5. CASE LinkSaveChat(r)
  <2>1. reqs'[r].pc = "owner"
    BY <1>2, <1>5 DEF LinkSaveChat, ReqState
  <2>2. chats'[c].safe = q.safe /\ chats'[c].chain = q.chain
    BY <1>1, <1>5, SavedPair
  <2> QED
    BY <1>3, <2>1, <2>2 DEF LinkOwns
<1>6. CASE LinkCheckOwner(r)
  <2>1. /\ q.pc = "owner" /\ chats' = chats
        /\ \E owners \in Status(c) : reqs' = [reqs EXCEPT ![r] =
              IF q.addr \in owners THEN [q EXCEPT !.pc = "status"] ELSE IdleReq]
    BY <1>6 DEF LinkCheckOwner
  <2>2. PICK owners \in Status(c) : reqs' = [reqs EXCEPT ![r] =
              IF q.addr \in owners THEN [q EXCEPT !.pc = "status"] ELSE IdleReq]
    BY <2>1
  <2>3. q.addr \in owners
    BY <1>2, <2>2, IdleReqState
  <2>4. reqs'[r].pc = "status"
    BY <1>2, <2>2, <2>3 DEF ReqState
  <2>5. owners = Owners[<<chats[c].safe, chats[c].chain>>]
    BY <2>2, <2>3 DEF Status
  <2>6. chats[c].safe = q.safe /\ chats[c].chain = q.chain
    BY <1>1, <2>1 DEF LinkOwns
  <2>7. q.addr \in Owners[<<q.safe, q.chain>>]
    BY <2>3, <2>5, <2>6
  <2> QED
    BY <1>3, <2>1, <2>4, <2>6, <2>7 DEF LinkOwns
<1>7. CASE ~(LinkQueryChat(r) \/ LinkSaveChat(r) \/ LinkCheckOwner(r))
  <2>1. q.pc \notin {"chat", "saveChat", "owner"} /\ chats' = chats
    BY <1>7 DEF Handle, AddSignerStatus, AddSignerFind, AddSignerCheck, AddSignerSave,
       LinkAnnounce, SaveVerified
  <2>2. /\ chats[c].safe = q.safe /\ chats[c].chain = q.chain
        /\ q.addr \in Owners[<<q.safe, q.chain>>]
    BY <1>1, <2>1 DEF LinkOwns
  <2>3. reqs'[r].pc # "saveChat"
    <3>0. q.pc \in {"find", "check", "save"} => AfterAddSigner(q).pc # "saveChat"
      BY AfterAddSignerOK
    <3>1. CASE AddSignerFind(r)
      <4>1. CASE reqs' = [reqs EXCEPT ![r] = AfterAddSigner(q)]
        BY <1>2, <3>0, <3>1, <4>1 DEF AddSignerFind
      <4>2. CASE reqs' = [reqs EXCEPT ![r].pc = "check", ![r].signer = 0,
                                      ![r].force = TRUE]
        BY <1>2, <4>2 DEF ReqState
      <4> DEFINE m == msgs[q.msg]
      <4>3. CASE \E i \in First(SignersOf(m.chat, m.user)) :
                    reqs' = [reqs EXCEPT ![r].pc = "check", ![r].signer = i,
                                ![r].force = \/ signers[i].addr # q.addr
                                             \/ signers[i].isSigner # q.isSigner]
        BY <1>2, <4>3 DEF ReqState
      <4> QED
        BY <3>1, <4>1, <4>2, <4>3 DEF AddSignerFind
    <3>2. CASE AddSignerCheck(r)
      <4>1. PICK n \in {[q EXCEPT !.pc = "save"], AfterAddSigner(q)} :
                reqs' = [reqs EXCEPT ![r] = n]
        BY <3>2 DEF AddSignerCheck
      <4>2. n.pc # "saveChat"
        BY <1>2, <3>0, <3>2 DEF AddSignerCheck, ReqState
      <4> QED
        BY <1>2, <4>1, <4>2
    <3>3. CASE AddSignerSave(r)
      BY <1>2, <3>0, <3>3 DEF AddSignerSave
    <3>4. CASE AddSignerStatus(r) \/ LinkAnnounce(r) \/ SaveVerified(r)
      BY <1>2, <3>4, IdleReqState DEF AddSignerStatus, LinkAnnounce, SaveVerified, ReqState
    <3> QED
      BY <1>7, <3>1, <3>2, <3>3, <3>4 DEF Handle
  <2> QED
    BY <1>3, <2>1, <2>2, <2>3 DEF LinkOwns
<1> QED
  BY <1>4, <1>5, <1>6, <1>7

(* Every step keeps the invariant: with one /link of the chat in flight,    *)
(* nothing else writes the chat's Safe between its steps.                   *)
LEMMA NextOwnsInv ==
    ASSUME LinksApart, ChatInv, OwnsInv, [Next]_vars
    PROVE  OwnsInv'
<1> SUFFICES ASSUME NEW r \in Reqs, reqs'[r].pc # "idle", reqs'[r].kind = "link"
             PROVE  LinkOwns(r)'
  BY DEF OwnsInv, LinkOwns
<1>1. CASE Handle(r)
  BY <1>1, HandlerOwns
<1>2. CASE Arrive(r)
  <2>1. PICK i, a : \/ VerifyMessage(r, i, a)
                    \/ \E p \in LinkRequests : LinkSafe(r, i, a, p[1], p[2])
    BY <1>2 DEF Arrive
  <2>2. CASE VerifyMessage(r, i, a)
    BY <2>2 DEF VerifyMessage, IdleReq, ChatInv, TypeOK
  <2>3. CASE \E p \in LinkRequests : LinkSafe(r, i, a, p[1], p[2])
    <3>1. reqs'[r].pc = "chat"
      BY <2>3 DEF LinkSafe, IdleReq, ChatInv, TypeOK
    <3> QED
      BY <3>1 DEF LinkOwns
  <2> QED
    BY <2>1, <2>2, <2>3
<1>3. CASE ~Handle(r) /\ ~Arrive(r)
  <2>1. reqs'[r] = reqs[r]
    <3>1. CASE Crash
      BY <3>1, IdleReqState DEF Crash
    <3>2. ASSUME NEW t \in Reqs, Arrive(t) \/ Handle(t)
          PROVE  reqs'[r] = reqs[r]
      BY <1>3, <3>2, OthersStay
    <3> QED
      BY <3>1, <3>2 DEF Next, vars, Bot, GetOrCreateUser, SetupChat,
         UnlinkCommand, StartCommand, FindMessage, CreateMessage, RemoveSigner,
         DeleteSigner, DeleteMessage
  <2>2. ASSUME NEW t \in Reqs, LinkSaveChat(t)
        PROVE  msgs[reqs[t].msg].chat # msgs[reqs[r].msg].chat
    <3>1. t # r
      BY <1>3, <2>2 DEF Handle
    <3>2. reqs[t].pc = "saveChat" /\ reqs[t].kind = "link"
      BY <2>2, InFlightKnown DEF LinkSaveChat, RequestOK
    <3> QED
      BY <2>1, <3>1, <3>2 DEF LinksApart, InFlight
  <2>3. reqs[r].msg \in DOMAIN msgs /\ msgs[reqs[r].msg].chat \in Chats
    BY <2>1, InFlightKnown DEF RequestOK
  <2>4. msgs'[reqs[r].msg].chat = msgs[reqs[r].msg].chat
    BY <2>3, RowsStay DEF MsgsStay
  <2>5. LinkOwns(r)
    BY DEF OwnsInv
  <2> DEFINE c == msgs[reqs[r].msg].chat
  <2>6. chats'[c].safe = chats[c].safe /\ chats'[c].chain = chats[c].chain
    BY <2>2, <2>3, PairStays
  <2> QED
    BY <2>1, <2>4, <2>5, <2>6 DEF LinkOwns
<1> QED
  BY <1>1, <1>2, <1>3

(* If the /link requests of a chat take turns, one that is not refused has  *)
(* linked the chat to its own Safe, and its address owns that Safe.         *)
THEOREM AcceptedLinksOwn == Spec /\ []LinksApart => []AcceptedLinkIsOwner
<1>1. Init => ChatInv /\ OwnsInv
  <2>1. Init => OwnsInv
    BY IdleReqState DEF Init, OwnsInv, LinkOwns
  <2> QED
    BY <2>1, InitChatInv
<1>2. ChatInv /\ OwnsInv /\ LinksApart /\ [Next]_vars => (ChatInv /\ OwnsInv)'
  BY NextChatInv, NextOwnsInv
<1>3. OwnsInv => AcceptedLinkIsOwner
  BY DEF OwnsInv, LinkOwns, AcceptedLinkIsOwner, InFlight
<1> QED
  BY <1>1, <1>2, <1>3, PTL DEF Spec
=============================================================================
