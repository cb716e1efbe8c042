-------------------------- MODULE OnboardingProofs --------------------------
(***************************************************************************)
(* Proofs, for every value of the constants, of what the runs of           *)
(* MCOnboarding check on small instances.                                  *)
(***************************************************************************)
EXTENDS Onboarding, SequenceTheorems, TLAPS

-----------------------------------------------------------------------------
(* Tables: ids are positions, and rows have the table's type.               *)

(* The ids of a table are its positions, and what they lead to is a row.    *)
LEMMA Rows ==
    ASSUME NEW S, NEW t \in Seq(S)
    PROVE  /\ DOMAIN t = 1..Len(t) /\ Len(t) \in Nat
           /\ \A i \in DOMAIN t : i \in Nat /\ i # 0 /\ t[i] \in S
OBVIOUS

(* Writing over a row keeps the table's type and its ids.                   *)
LEMMA RowReplaced ==
    ASSUME NEW S, NEW t \in Seq(S), NEW i \in DOMAIN t, NEW row \in S
    PROVE  /\ [t EXCEPT ![i] = row] \in Seq(S)
           /\ DOMAIN [t EXCEPT ![i] = row] = DOMAIN t
BY ExceptSeq, Rows

(* A new row gets the next id and leaves the others as they are.            *)
LEMMA RowAppended ==
    ASSUME NEW S, NEW t \in Seq(S), NEW row \in S
    PROVE  /\ Append(t, row) \in Seq(S)
           /\ DOMAIN Append(t, row) = DOMAIN t \cup {Len(t) + 1}
           /\ Len(t) + 1 \notin DOMAIN t
           /\ \A i \in DOMAIN t : Append(t, row)[i] = t[i]
           /\ Append(t, row)[Len(t) + 1] = row
OBVIOUS

(* The rows of the two tables have the fields their columns have.           *)
LEMMA MessageRows ==
    ASSUME TypeOK
    PROVE  /\ \A i \in DOMAIN msgs :
                  /\ i \in Nat /\ i # 0 /\ msgs[i] \in MsgRow
                  /\ msgs[i].chat \in Chats /\ msgs[i].user \in Users
                  /\ msgs[i].verified \in BOOLEAN /\ msgs[i].live \in BOOLEAN
           /\ \A i \in DOMAIN signers :
                  /\ i \in Nat /\ i # 0 /\ signers[i] \in SignerRow
                  /\ signers[i].chat \in Chats /\ signers[i].user \in Users
                  /\ signers[i].addr \in Addrs
                  /\ signers[i].isSigner \in BOOLEAN /\ signers[i].live \in BOOLEAN
<1>1. \A i \in DOMAIN msgs : i \in Nat /\ i # 0 /\ msgs[i] \in MsgRow
    BY Rows DEF TypeOK
<1>2. \A i \in DOMAIN signers : i \in Nat /\ i # 0 /\ signers[i] \in SignerRow
    BY Rows DEF TypeOK
<1> QED
    BY <1>1, <1>2 DEF MsgRow, SignerRow

-----------------------------------------------------------------------------
(* Type correctness, and why no handler meets a chat that is not set up.    *)

(* The type invariant is not inductive by itself: a button names a row of   *)
(* sign_messages because the command that sends it found or created the     *)
(* user and the chat the row refers to, and no LinkSafe takes the chat away *)
(* again, because the row it read and writes back was set up already.       *)
BotKnows ==
    bot.cmd \in {"setup", "link"} =>
        /\ bot.pc \in {"setup", "find", "create"} => bot.user \in users
        /\ bot.pc \in {"find", "create"} => chats[bot.chat].init

RequestKnows == \A r \in InFlight : chats[msgs[reqs[r].msg].chat].init

ChatInv == TypeOK /\ ChatBeforeHandler /\ RequestKnows /\ BotKnows

(* The invariant holds when the server starts on empty tables.              *)
LEMMA InitChatInv == Init => ChatInv
<1> SUFFICES ASSUME Init PROVE ChatInv
    OBVIOUS
<1> USE OnboardingAssumption
<1>1. IdleReq \in ReqState /\ IdleReq.pc = "idle"
    BY DEF IdleReq, ReqState
<1>2. IdleBot \in BotState
    BY DEF IdleBot, BotState
<1>3. InFlight = {}
    BY DEF Init, InFlight, IdleReq
<1>4. msgs = <<>> /\ msgs \in Seq(MsgRow) /\ signers \in Seq(SignerRow)
    BY DEF Init
<1>5. chats \in [Chats -> ChatRow]
    BY DEF Init, ChatRow
<1>6. TypeOK
    BY <1>1, <1>2, <1>3, <1>4, <1>5 DEF Init, TypeOK, IdleBot
<1> QED
    BY <1>3, <1>6 DEF Init, ChatInv, ChatBeforeHandler, RequestKnows, BotKnows,
                      IdleBot

(* What every step of the bot leaves alone or extends.                      *)
LEMMA GetOrCreateUserChatInv ==
    ASSUME ChatInv, NEW cmd \in {"setup", "link"}, NEW c \in Chats, NEW u \in Users,
           GetOrCreateUser(cmd, c, u)
    PROVE  ChatInv'
<1>1. bot' \in BotState /\ bot'.pc = "setup" /\ bot'.cmd = cmd /\ bot'.chat = c
      /\ bot'.user = u /\ bot'.signer = 0 /\ u \in users'
    BY DEF GetOrCreateUser, IdleBot, BotState
<1>2. users' \subseteq Users
    BY DEF ChatInv, TypeOK, GetOrCreateUser
<1>3. InFlight' = InFlight
    BY DEF InFlight, GetOrCreateUser
<1>4. TypeOK'
    BY <1>1, <1>2, <1>3, OnboardingAssumption
    DEF ChatInv, TypeOK, GetOrCreateUser, RequestOK
<1> QED
    BY <1>1, <1>3, <1>4 DEF ChatInv, GetOrCreateUser, ChatBeforeHandler, RequestKnows,
                      BotKnows

(* SetupChat sets up the chat the command comes from and no other.          *)
LEMMA SetupChatChatInv ==
    ASSUME ChatInv, SetupChat
    PROVE  ChatInv'
<1>1. bot.chat \in Chats /\ bot.user \in Users /\ bot \in BotState
    BY DEF ChatInv, TypeOK, SetupChat
<1>2. bot' \in BotState /\ bot'.pc = "find" /\ bot'.cmd = bot.cmd
      /\ bot'.chat = bot.chat /\ bot'.user = bot.user /\ bot'.signer = bot.signer
    BY <1>1 DEF SetupChat, BotState
<1>3. /\ chats' \in [Chats -> ChatRow]
      /\ \A c \in Chats : chats[c].init => chats'[c].init
      /\ chats'[bot.chat].init
    BY <1>1 DEF ChatInv, TypeOK, SetupChat, ChatRow
<1>4. InFlight' = InFlight
    BY DEF InFlight, SetupChat
<1>5. TypeOK'
    BY <1>1, <1>2, <1>3, <1>4 DEF ChatInv, TypeOK, SetupChat, RequestOK
<1>6. \A i \in DOMAIN msgs : msgs[i].chat \in Chats
    BY MessageRows DEF ChatInv
<1>7. ChatBeforeHandler'
    BY <1>3, <1>4, <1>6 DEF ChatInv, TypeOK, SetupChat, ChatBeforeHandler
<1>8. RequestKnows'
    BY <1>3, <1>4, <1>6 DEF ChatInv, TypeOK, SetupChat, RequestKnows, RequestOK
<1>9. BotKnows'
    BY <1>1, <1>2, <1>3 DEF ChatInv, SetupChat, BotKnows
<1> QED
    BY <1>5, <1>7, <1>8, <1>9 DEF ChatInv

(* /unlink starts with no row in hand and changes no table.                 *)
LEMMA UnlinkCommandChatInv ==
    ASSUME ChatInv, NEW c \in Chats, NEW u \in Users, UnlinkCommand(c, u)
    PROVE  ChatInv'
<1>1. bot' \in BotState /\ bot'.pc = "find" /\ bot'.cmd = "unlink"
      /\ bot'.chat = c /\ bot'.user = u /\ bot'.signer = 0
    BY DEF UnlinkCommand, IdleBot, BotState
<1>2. InFlight' = InFlight /\ alone' \in BOOLEAN
    BY DEF InFlight, UnlinkCommand
<1>3. TypeOK'
    BY <1>1, <1>2, OnboardingAssumption
    DEF ChatInv, TypeOK, UnlinkCommand, RequestOK
<1> QED
    BY <1>1, <1>2, <1>3 DEF ChatInv, UnlinkCommand, ChatBeforeHandler,
                            RequestKnows, BotKnows

(* A button is sent for a row of the table, and for a chat that is set up.  *)
LEMMA DeliverButton ==
    ASSUME NEW kind \in {"sign", "link"}, NEW c, NEW i, NEW D,
           buttons \subseteq {"sign", "link"} \X D,
           chats[c].init => i \in D,
           Deliver(kind, c, i)
    PROVE  /\ buttons' \subseteq {"sign", "link"} \X D
           /\ \A b \in buttons' : b \in buttons \/ (b = <<kind, i>> /\ chats[c].init)
BY DEF Deliver

(* /start sends buttons for rows of chats that are set up, and changes no   *)
(* table.                                                                   *)
LEMMA StartCommandChatInv ==
    ASSUME ChatInv, NEW u \in Users, StartCommand(u)
    PROVE  ChatInv'
<1>1. PICK i \in DOMAIN msgs : Deliver("sign", msgs[i].chat, i)
    BY DEF StartCommand
<1>2. /\ buttons' \subseteq {"sign", "link"} \X DOMAIN msgs
      /\ \A b \in buttons' : b \in buttons \/ (b = <<"sign", i>> /\ chats[msgs[i].chat].init)
    BY <1>1, DeliverButton DEF ChatInv, TypeOK
<1>3. InFlight' = InFlight
    BY DEF InFlight, StartCommand
<1>4. TypeOK'
    BY <1>2, <1>3 DEF ChatInv, TypeOK, StartCommand, RequestOK
<1> QED
    BY <1>2, <1>3, <1>4 DEF ChatInv, StartCommand, ChatBeforeHandler,
                            RequestKnows, BotKnows

(* Finding the message changes no table; a button is sent for the row it    *)
(* found only if the chat is set up.                                        *)
LEMMA FindMessageChatInv ==
    ASSUME ChatInv, FindMessage
    PROVE  ChatInv'
<1>1. bot \in BotState /\ bot.pc = "find" /\ bot.chat \in Chats /\ bot.user \in Users
    BY DEF ChatInv, TypeOK, FindMessage
<1>2. InFlight' = InFlight
    BY DEF InFlight, FindMessage
<1>3. CASE bot' = [bot EXCEPT !.pc = "create"] /\ UNCHANGED <<buttons, alone>>
  <2>1. bot' \in BotState /\ bot'.pc = "create" /\ bot'.cmd = bot.cmd
        /\ bot'.chat = bot.chat /\ bot'.user = bot.user /\ bot'.signer = bot.signer
      BY <1>1, <1>3 DEF BotState
  <2>2. TypeOK'
      BY <1>1, <1>2, <1>3, <2>1 DEF ChatInv, TypeOK, FindMessage, RequestOK
  <2> QED
      BY <1>1, <1>2, <1>3, <2>1, <2>2
      DEF ChatInv, FindMessage, ChatBeforeHandler, RequestKnows, BotKnows
<1>4. CASE \E i \in First(MessagesOf(bot.chat, bot.user)) :
               UseMessage(i, msgs[i].verified)
  <2>1. PICK i \in DOMAIN msgs : /\ msgs[i].chat = bot.chat
                                 /\ UseMessage(i, msgs[i].verified)
      BY <1>4 DEF First, MessagesOf
  <2>2. msgs[i].verified \in BOOLEAN /\ i \in Nat
      BY MessageRows DEF ChatInv
  <2>3. /\ bot' \in BotState /\ bot'.pc \in {"idle", "remove"}
        /\ bot'.signer \in {0} \cup DOMAIN signers
        /\ bot'.pc = "remove" => bot'.cmd = bot.cmd /\ bot'.chat = bot.chat
                                 /\ bot'.user = bot.user /\ bot'.msg = i
    <3>1. CASE bot' = IdleBot
        BY <3>1 DEF IdleBot, BotState
    <3>2. CASE bot' = [bot EXCEPT !.pc = "remove", !.msg = i]
        BY <1>1, <2>2, <3>2 DEF BotState, ChatInv, TypeOK
    <3> QED
        BY <2>1, <2>2, <3>1, <3>2 DEF UseMessage
  <2>4. alone' \in BOOLEAN
    <3>1. alone \in BOOLEAN
        BY DEF ChatInv, TypeOK
    <3>2. alone' = alone \/ alone' = (alone /\ msgs[i].verified)
        BY <2>1 DEF UseMessage
    <3> QED
        BY <3>1, <3>2, <2>2
  <2>5. /\ buttons' \subseteq {"sign", "link"} \X DOMAIN msgs
        /\ \A b \in buttons' : b \in buttons \/ (b[2] = i /\ chats[bot.chat].init)
    <3>1. CASE bot.cmd = "unlink"
        BY <2>1, <3>1 DEF UseMessage, ChatInv, TypeOK
    <3>2. CASE bot.cmd # "unlink"
      <4>1. Deliver(ButtonOf(bot.cmd), bot.chat, i)
          BY <2>1, <3>2 DEF UseMessage
      <4>2. ButtonOf(bot.cmd) \in {"sign", "link"}
          BY DEF ButtonOf
      <4>3. buttons \subseteq {"sign", "link"} \X DOMAIN msgs
          BY DEF ChatInv, TypeOK
      <4>4. /\ buttons' \subseteq {"sign", "link"} \X DOMAIN msgs
            /\ \A b \in buttons' : b \in buttons
                   \/ (b = <<ButtonOf(bot.cmd), i>> /\ chats[bot.chat].init)
          BY <4>1, <4>2, <4>3, DeliverButton
      <4> QED
          BY <4>4
    <3> QED
        BY <3>1, <3>2
  <2>6. TypeOK'
      BY <1>1, <1>2, <2>3, <2>4, <2>5 DEF ChatInv, TypeOK, FindMessage, RequestOK
  <2>7. ChatBeforeHandler' /\ RequestKnows'
      BY <1>2, <2>1, <2>5 DEF ChatInv, FindMessage, ChatBeforeHandler, RequestKnows
  <2>8. BotKnows'
      BY <2>3 DEF BotKnows
  <2> QED
      BY <2>6, <2>7, <2>8 DEF ChatInv
<1> QED
    BY <1>3, <1>4 DEF FindMessage

(* A new row of sign_messages extends the table, and its button is sent     *)
(* only if the chat is set up.                                              *)
LEMMA CreateMessageChatInv ==
    ASSUME ChatInv, CreateMessage
    PROVE  ChatInv'
<1> DEFINE i == Len(msgs) + 1
<1> DEFINE row == [chat |-> bot.chat, user |-> bot.user,
                   verified |-> FALSE, live |-> TRUE]
<1>1. bot \in BotState /\ bot.pc = "create" /\ bot.chat \in Chats /\ bot.user \in Users
    BY DEF ChatInv, TypeOK, CreateMessage
<1>2. row \in MsgRow
    BY <1>1 DEF MsgRow
<1>3. /\ msgs' \in Seq(MsgRow)
      /\ DOMAIN msgs \subseteq DOMAIN msgs'
      /\ \A j \in DOMAIN msgs : msgs'[j] = msgs[j]
    <2>1. msgs' = msgs \/ msgs' = Append(msgs, row)
        BY DEF CreateMessage
    <2>2. msgs \in Seq(MsgRow)
        BY DEF ChatInv, TypeOK
    <2> QED
        BY <1>2, <2>1, <2>2, RowAppended
<1>4. bot.cmd # "unlink" => /\ bot.user \in users /\ chats[bot.chat].init
                            /\ msgs' = Append(msgs, row)
  <2>1. bot.cmd \in {"setup", "link", "unlink"} \/ bot.cmd = Nil
      BY <1>1 DEF BotState
  <2>2. bot.cmd # Nil
      BY <1>1 DEF ChatInv, TypeOK
  <2>3. bot.cmd # "unlink" => bot.user \in users /\ chats[bot.chat].init
      BY <1>1, <2>1, <2>2 DEF ChatInv, BotKnows
  <2> QED
      BY <2>3 DEF CreateMessage
<1>5. bot.cmd # "unlink" => i \in DOMAIN msgs' /\ msgs'[i].chat = bot.chat
    BY <1>2, <1>4, RowAppended DEF ChatInv, TypeOK
<1>6. bot' = IdleBot
    BY DEF CreateMessage, UseMessage
<1>7. bot' \in BotState /\ bot'.pc = "idle" /\ bot'.signer = 0 /\ bot'.cmd = Nil
    BY <1>6 DEF IdleBot, BotState
<1>8. alone' \in BOOLEAN
    BY DEF CreateMessage, UseMessage, ChatInv, TypeOK
<1>9. /\ buttons' \subseteq {"sign", "link"} \X DOMAIN msgs'
      /\ \A b \in buttons' : b \in buttons
             \/ (b[2] = i /\ bot.cmd # "unlink" /\ chats[bot.chat].init)
    <2>1. CASE bot.cmd = "unlink"
        BY <1>3, <2>1 DEF CreateMessage, UseMessage, ChatInv, TypeOK
    <2>2. CASE bot.cmd # "unlink"
        <3>1. Deliver(ButtonOf(bot.cmd), bot.chat, i)
            BY <2>2 DEF CreateMessage, UseMessage
        <3>2. ButtonOf(bot.cmd) \in {"sign", "link"}
            BY DEF ButtonOf
        <3>3. buttons \subseteq {"sign", "link"} \X DOMAIN msgs'
            BY <1>3 DEF ChatInv, TypeOK
        <3> HIDE DEF i
        <3> QED
            BY <1>5, <2>2, <3>1, <3>2, <3>3, DeliverButton
    <2> QED
        BY <2>1, <2>2
<1>10. UNCHANGED <<users, chats, signers, reqs, raced>> /\ InFlight' = InFlight
    BY DEF InFlight, CreateMessage
<1> HIDE DEF i, row
<1>11. \A r \in InFlight : RequestOK(reqs[r])'
    BY <1>3, <1>10 DEF ChatInv, TypeOK, RequestOK
<1>12. TypeOK'
    BY <1>3, <1>7, <1>8, <1>9, <1>10, <1>11 DEF ChatInv, TypeOK
<1>13. ChatBeforeHandler'
    BY <1>3, <1>5, <1>9, <1>10 DEF ChatInv, TypeOK, ChatBeforeHandler
<1>14. RequestKnows'
    BY <1>3, <1>10 DEF ChatInv, TypeOK, RequestKnows, RequestOK
<1>15. BotKnows'
    BY <1>7 DEF BotKnows
<1> QED
    BY <1>12, <1>13, <1>14, <1>15 DEF ChatInv

(* RemoveSigner reads rows and writes none.                                 *)
LEMMA RemoveSignerChatInv ==
    ASSUME ChatInv, RemoveSigner
    PROVE  ChatInv'
<1>1. PICK i \in {0} \cup DOMAIN signers :
          bot' = [bot EXCEPT !.pc = "delSigner", !.signer = i]
    BY DEF RemoveSigner, First, SignersOf
<1>2. i \in Nat
    BY MessageRows DEF ChatInv
<1>3. bot' \in BotState /\ bot'.pc = "delSigner" /\ bot'.cmd = bot.cmd
      /\ bot'.chat = bot.chat /\ bot'.user = bot.user /\ bot'.msg = bot.msg
      /\ bot'.signer = i
    BY <1>1, <1>2 DEF ChatInv, TypeOK, BotState
<1>4. UNCHANGED <<users, chats, msgs, signers, buttons, reqs, alone, raced>>
      /\ InFlight' = InFlight
    BY DEF RemoveSigner, InFlight
<1>5. TypeOK'
    BY <1>3, <1>4 DEF ChatInv, TypeOK, RequestOK, RemoveSigner
<1> QED
    BY <1>3, <1>4, <1>5
    DEF ChatInv, ChatBeforeHandler, RequestKnows, BotKnows

(* Deleting a signer only marks its row.                                    *)
LEMMA DeleteSignerChatInv ==
    ASSUME ChatInv, DeleteSigner
    PROVE  ChatInv'
<1>1. bot' \in BotState /\ bot'.pc = "delMsg" /\ bot'.cmd = bot.cmd
      /\ bot'.chat = bot.chat /\ bot'.user = bot.user /\ bot'.msg = bot.msg
      /\ bot'.signer = 0
    BY DEF ChatInv, TypeOK, BotState, DeleteSigner
<1>2. signers' \in Seq(SignerRow) /\ DOMAIN signers' = DOMAIN signers
    <2>1. CASE bot.signer = 0
        BY <2>1 DEF DeleteSigner, ChatInv, TypeOK
    <2>2. CASE bot.signer # 0
        <3> DEFINE row == [signers[bot.signer] EXCEPT !.live = FALSE]
        <3>1. bot.signer \in DOMAIN signers
            BY <2>2 DEF ChatInv, TypeOK
        <3>2. row \in SignerRow
            BY <3>1, MessageRows DEF ChatInv, SignerRow
        <3>3. signers' = [signers EXCEPT ![bot.signer] = row]
            BY <2>2, <3>1 DEF DeleteSigner
        <3> QED
            BY <3>1, <3>2, <3>3, RowReplaced DEF ChatInv, TypeOK
    <2> QED
        BY <2>1, <2>2
<1>3. UNCHANGED <<users, chats, msgs, buttons, reqs, alone, raced>>
      /\ InFlight' = InFlight
    BY DEF DeleteSigner, InFlight
<1>4. TypeOK'
    BY <1>1, <1>2, <1>3 DEF ChatInv, TypeOK, RequestOK, DeleteSigner
<1> QED
    BY <1>1, <1>3, <1>4
    DEF ChatInv, ChatBeforeHandler, RequestKnows, BotKnows

(* Saving or deleting a sign message leaves its chat and its user alone.    *)
LEMMA MessageSaved ==
    ASSUME TypeOK, NEW i \in DOMAIN msgs, NEW row \in MsgRow,
           row.chat = msgs[i].chat, row.user = msgs[i].user,
           msgs' = [msgs EXCEPT ![i] = row]
    PROVE  /\ msgs' \in Seq(MsgRow)
           /\ DOMAIN msgs' = DOMAIN msgs
           /\ \A j \in DOMAIN msgs : /\ msgs'[j].chat = msgs[j].chat
                                     /\ msgs'[j].user = msgs[j].user
<1>1. msgs' \in Seq(MsgRow) /\ DOMAIN msgs' = DOMAIN msgs
    BY RowReplaced DEF TypeOK
<1>2. \A j \in DOMAIN msgs : msgs'[j] = IF j = i THEN row ELSE msgs[j]
    BY DEF TypeOK
<1> QED
    BY <1>1, <1>2

(* Deleting messages only marks their rows, so no id dangles.               *)
LEMMA DeleteMessageChatInv ==
    ASSUME ChatInv, DeleteMessage
    PROVE  ChatInv'
<1> DEFINE row == [msgs[bot.msg] EXCEPT !.live = FALSE]
<1>1. bot.msg \in DOMAIN msgs
    BY DEF ChatInv, TypeOK, DeleteMessage
<1>2. row \in MsgRow /\ row.chat = msgs[bot.msg].chat /\ row.user = msgs[bot.msg].user
    BY <1>1, MessageRows DEF ChatInv, MsgRow
<1>3. msgs' = [msgs EXCEPT ![bot.msg] = row]
    BY <1>1 DEF DeleteMessage
<1>4. /\ msgs' \in Seq(MsgRow)
      /\ DOMAIN msgs' = DOMAIN msgs
      /\ \A j \in DOMAIN msgs : msgs'[j].chat = msgs[j].chat
    BY <1>1, <1>2, <1>3, MessageSaved DEF ChatInv
<1>5. bot' \in BotState /\ bot'.pc = "idle" /\ bot'.signer = 0 /\ bot'.cmd = Nil
    BY DEF DeleteMessage, IdleBot, BotState
<1>6. UNCHANGED <<users, chats, signers, buttons, reqs, raced>> /\ InFlight' = InFlight
      /\ alone' = FALSE
    BY DEF DeleteMessage, InFlight
<1> HIDE DEF row
<1>7. TypeOK'
    BY <1>4, <1>5, <1>6 DEF ChatInv, TypeOK, RequestOK
<1>8. ChatBeforeHandler' /\ RequestKnows'
    BY <1>4, <1>6 DEF ChatInv, TypeOK, RequestOK, ChatBeforeHandler, RequestKnows
<1>9. BotKnows'
    BY <1>5 DEF BotKnows
<1> QED
    BY <1>7, <1>8, <1>9 DEF ChatInv

(* A step of request r: its local state becomes q, and the tables change    *)
(* only in ways that keep the ids and the chats that are set up.            *)
LEMMA RequestStepChatInv ==
    ASSUME ChatInv, NEW r \in Reqs, NEW q \in ReqState,
           reqs' = [reqs EXCEPT ![r] = q],
           q.pc # "idle" => RequestOK(q) /\ chats[msgs[q.msg].chat].init,
           q.pc = "saveChat" => q.seen.init,
           chats' \in [Chats -> ChatRow],
           \A c \in Chats : chats[c].init => chats'[c].init,
           msgs' \in Seq(MsgRow), DOMAIN msgs' = DOMAIN msgs,
           \A j \in DOMAIN msgs : msgs'[j].chat = msgs[j].chat,
           signers' \in Seq(SignerRow), DOMAIN signers \subseteq DOMAIN signers',
           alone' \in BOOLEAN, raced' \subseteq Chats,
           UNCHANGED <<users, buttons, bot>>
    PROVE  ChatInv'
<1>1. /\ reqs' \in [Reqs -> ReqState]
      /\ reqs'[r] = q
      /\ \A t \in Reqs \ {r} : reqs'[t] = reqs[t]
    BY DEF ChatInv, TypeOK
<1>2. \A t \in InFlight' : t \in Reqs /\ (t # r => t \in InFlight)
                           /\ (t = r => q.pc # "idle")
    BY <1>1 DEF InFlight
<1>3. \A t \in Reqs : reqs'[t].pc # "idle" => RequestOK(reqs'[t])
    BY <1>1, <1>2 DEF ChatInv, TypeOK, InFlight
<1>4. \A t \in InFlight' : RequestOK(reqs[t])'
    BY <1>2, <1>3 DEF RequestOK, InFlight
<1>5. TypeOK'
    BY <1>1, <1>4 DEF ChatInv, TypeOK
<1>6. \A j \in DOMAIN msgs : msgs[j].chat \in Chats
    BY MessageRows DEF ChatInv
<1>7. ChatBeforeHandler'
  <2>1. \A b \in buttons' : chats'[msgs'[b[2]].chat].init
      BY <1>6 DEF ChatInv, TypeOK, ChatBeforeHandler
  <2>2. \A t \in InFlight' : reqs'[t].pc = "saveChat" => reqs'[t].seen.init
      BY <1>1, <1>2 DEF ChatInv, ChatBeforeHandler
  <2> QED
      BY <2>1, <2>2 DEF ChatBeforeHandler
<1>8. RequestKnows'
  <2>1. \A t \in InFlight' : reqs'[t].msg \in DOMAIN msgs
      BY <1>4 DEF RequestOK
  <2>2. \A t \in InFlight' : chats[msgs[reqs'[t].msg].chat].init
      BY <1>1, <1>2 DEF ChatInv, RequestKnows
  <2> QED
      BY <1>6, <2>1, <2>2 DEF RequestKnows
<1>9. BotKnows'
  <2>1. bot.cmd \in {"setup", "link"} /\ bot.pc \in {"find", "create"} => bot.chat \in Chats
      BY DEF ChatInv, TypeOK
  <2> QED
      BY <2>1 DEF ChatInv, BotKnows
<1> QED
    BY <1>5, <1>7, <1>8, <1>9 DEF ChatInv

(* A request that arrives names a row its button was sent for.              *)
LEMMA ArriveChatInv ==
    ASSUME ChatInv, NEW r \in Reqs, Arrive(r)
    PROVE  ChatInv'
<1>0. \A n \in Nat : GetSafeChain(n) \in Chains
    BY DEF GetSafeChain, Chains
<1>1. PICK i \in DOMAIN msgs, a \in Addrs :
          \/ VerifyMessage(r, i, a)
          \/ \E p \in LinkRequests : LinkSafe(r, i, a, p[1], p[2])
    BY DEF Arrive
<1>2. i \in Nat
    BY MessageRows DEF ChatInv
<1>3. CASE VerifyMessage(r, i, a)
  <2> DEFINE q == [IdleReq EXCEPT !.pc = "status", !.kind = "sign",
                                  !.msg = i, !.addr = a]
  <2>1. q \in ReqState /\ q.pc # "saveChat" /\ q.msg = i
      BY <1>2 DEF IdleReq, ReqState
  <2>2. RequestOK(q)
      BY <2>1, OnboardingAssumption DEF RequestOK, IdleReq
  <2>3. chats[msgs[i].chat].init
      BY <1>3 DEF VerifyMessage, ChatInv, ChatBeforeHandler
  <2> QED
      BY <1>3, <2>1, <2>2, <2>3, RequestStepChatInv
      DEF VerifyMessage, ChatInv, TypeOK
<1>4. CASE \E p \in LinkRequests : LinkSafe(r, i, a, p[1], p[2])
  <2>1. PICK p \in LinkRequests : LinkSafe(r, i, a, p[1], p[2])
      BY <1>4
  <2> DEFINE q == [IdleReq EXCEPT
                      !.pc = "chat", !.kind = "link", !.msg = i, !.addr = a,
                      !.safe = p[1], !.chain = GetSafeChain(p[2])]
  <2>2. p[1] \in Safes /\ GetSafeChain(p[2]) \in Chains
      BY <1>0, OnboardingAssumption
  <2>3. q \in ReqState /\ q.pc # "saveChat" /\ q.msg = i
      BY <1>2, <2>2 DEF IdleReq, ReqState
  <2>4. RequestOK(q)
      BY <2>2, <2>3, OnboardingAssumption DEF RequestOK, IdleReq
  <2>5. chats[msgs[i].chat].init
      BY <2>1 DEF LinkSafe, ChatInv, ChatBeforeHandler
  <2> QED
      BY <2>1, <2>3, <2>4, <2>5, RequestStepChatInv DEF LinkSafe, ChatInv, TypeOK
<1> QED
    BY <1>1, <1>3, <1>4

(* What is known of a request that is in flight.                            *)
LEMMA InFlightKnown ==
    ASSUME ChatInv, NEW r \in Reqs, reqs[r].pc # "idle"
    PROVE  /\ reqs[r] \in ReqState
           /\ RequestOK(reqs[r])
           /\ chats[msgs[reqs[r].msg].chat].init
           /\ reqs[r].pc = "saveChat" => reqs[r].seen.init
           /\ msgs[reqs[r].msg].chat \in Chats
           /\ reqs[r].msg \in DOMAIN msgs
<1>1. r \in InFlight
    BY DEF InFlight
<1>2. reqs[r] \in ReqState /\ RequestOK(reqs[r])
    BY <1>1 DEF ChatInv, TypeOK
<1> QED
    BY <1>1, <1>2, MessageRows
    DEF ChatInv, RequestKnows, ChatBeforeHandler, RequestOK

(* A request that is not handled is of the requests' type.                  *)
LEMMA IdleReqState == IdleReq \in ReqState /\ IdleReq.pc = "idle"
BY DEF IdleReq, ReqState

(* A step that changes nothing but the local state of request r.            *)
LEMMA LocalStepChatInv ==
    ASSUME ChatInv, NEW r \in Reqs, NEW q \in ReqState,
           reqs' = [reqs EXCEPT ![r] = q],
           q.pc # "idle" => RequestOK(q) /\ chats[msgs[q.msg].chat].init,
           q.pc = "saveChat" => q.seen.init,
           UNCHANGED <<users, chats, msgs, signers, buttons, bot, alone>>,
           raced' \subseteq Chats
    PROVE  ChatInv'
BY RequestStepChatInv DEF ChatInv, TypeOK

(* LinkSafe reads the row of a chat that is set up.                         *)
LEMMA LinkQueryChatChatInv ==
    ASSUME ChatInv, NEW r \in Reqs, LinkQueryChat(r)
    PROVE  ChatInv'
<1> DEFINE q == [reqs[r] EXCEPT !.pc = "saveChat",
                                !.seen = chats[msgs[reqs[r].msg].chat]]
<1>1. reqs[r].pc = "chat"
    BY DEF LinkQueryChat
<1>2. chats[msgs[reqs[r].msg].chat] \in ChatRow
    BY <1>1, InFlightKnown DEF ChatInv, TypeOK
<1>3. q \in ReqState
    BY <1>1, <1>2, InFlightKnown DEF ReqState
<1>4. RequestOK(q)
    BY <1>1, <1>2, InFlightKnown DEF RequestOK, ReqState
<1>5. reqs' = [reqs EXCEPT ![r] = q]
    BY DEF LinkQueryChat, ChatInv, TypeOK
<1>6. q.msg = reqs[r].msg /\ q.pc # "idle" /\ q.seen = chats[msgs[reqs[r].msg].chat]
    BY <1>1, InFlightKnown DEF ReqState
<1>7. UNCHANGED <<users, chats, msgs, signers, buttons, bot, alone>>
      /\ raced' \subseteq Chats
    BY DEF LinkQueryChat, ChatInv, TypeOK
<1> HIDE DEF q
<1> QED
    BY <1>1, <1>3, <1>4, <1>5, <1>6, <1>7, InFlightKnown, LocalStepChatInv

(* LinkSafe writes back a row that was set up when it was read.             *)
LEMMA LinkSaveChatChatInv ==
    ASSUME ChatInv, NEW r \in Reqs, LinkSaveChat(r)
    PROVE  ChatInv'
<1> DEFINE q == [reqs[r] EXCEPT !.pc = "owner", !.seen = Nil]
           c == msgs[reqs[r].msg].chat
           row == [reqs[r].seen EXCEPT !.safe = reqs[r].safe,
                                       !.chain = reqs[r].chain]
<1>1. reqs[r].pc = "saveChat"
    BY DEF LinkSaveChat
<1>2. q \in ReqState /\ q.msg = reqs[r].msg /\ q.pc = "owner"
    BY <1>1, InFlightKnown DEF ReqState
<1>3. RequestOK(q)
    BY <1>1, InFlightKnown DEF RequestOK, ReqState
<1>4. reqs' = [reqs EXCEPT ![r] = q]
    BY DEF LinkSaveChat, ChatInv, TypeOK
<1>5. reqs[r].seen \in ChatRow /\ reqs[r].safe \in Safes /\ reqs[r].chain \in Chains
    BY <1>1, InFlightKnown DEF RequestOK
<1>6. reqs[r].seen.init
    BY <1>1, InFlightKnown
<1>7. row \in ChatRow /\ row.init
    BY <1>5, <1>6 DEF ChatRow
<1>8. chats' = chats \/ chats' = [chats EXCEPT ![c] = row]
    BY DEF LinkSaveChat
<1>9. UNCHANGED <<users, msgs, signers, buttons, bot, alone, raced>>
    BY DEF LinkSaveChat
<1> HIDE DEF q, c, row
<1>10. chats' \in [Chats -> ChatRow] /\ \A d \in Chats : chats[d].init => chats'[d].init
    BY <1>7, <1>8 DEF ChatInv, TypeOK
<1>11. chats[msgs[q.msg].chat].init
    BY <1>1, <1>2, InFlightKnown
<1> QED
    BY <1>2, <1>3, <1>4, <1>9, <1>10, <1>11, RequestStepChatInv
    DEF ChatInv, TypeOK

(* The handler goes on at pc, with the locals of AddSigner set as given.    *)
LEMMA LocalsChatInv ==
    ASSUME ChatInv, NEW r \in Reqs,
           NEW pc \in {"status", "find", "check", "save", "verify", "announce"},
           NEW isSigner \in BOOLEAN, NEW signer \in {0} \cup DOMAIN signers,
           NEW force \in BOOLEAN,
           reqs[r].pc \notin {"idle", "chat", "saveChat"},
           pc = "announce" => reqs[r].kind = "link",
           reqs' = [reqs EXCEPT ![r] = [reqs[r] EXCEPT
                       !.pc = pc, !.isSigner = isSigner, !.signer = signer,
                       !.force = force]],
           UNCHANGED <<users, chats, msgs, buttons, bot, alone, raced>>,
           signers' \in Seq(SignerRow), DOMAIN signers \subseteq DOMAIN signers'
    PROVE  ChatInv'
<1> DEFINE q == [reqs[r] EXCEPT !.pc = pc, !.isSigner = isSigner,
                                !.signer = signer, !.force = force]
<1>1. signer \in Nat
    BY MessageRows DEF ChatInv
<1>2. q \in ReqState /\ q.msg = reqs[r].msg /\ q.seen = reqs[r].seen /\ q.pc = pc
      /\ q.kind = reqs[r].kind /\ q.addr = reqs[r].addr /\ q.signer = signer
      /\ q.safe = reqs[r].safe /\ q.chain = reqs[r].chain
    BY <1>1, InFlightKnown DEF ReqState
<1>3. reqs' = [reqs EXCEPT ![r] = q]
    OBVIOUS
<1> HIDE DEF q
<1>4. RequestOK(q)
    BY <1>2, InFlightKnown DEF RequestOK
<1>5. chats[msgs[q.msg].chat].init
    BY <1>2, InFlightKnown
<1>6. q.pc = "saveChat" => q.seen.init
    BY <1>2
<1>7. /\ chats' \in [Chats -> ChatRow]
      /\ \A c \in Chats : chats[c].init => chats'[c].init
      /\ msgs' \in Seq(MsgRow) /\ DOMAIN msgs' = DOMAIN msgs
      /\ \A j \in DOMAIN msgs : msgs'[j].chat = msgs[j].chat
      /\ alone' \in BOOLEAN /\ raced' \subseteq Chats
    BY DEF ChatInv, TypeOK
<1> QED
    BY <1>2, <1>3, <1>4, <1>5, <1>6, <1>7, RequestStepChatInv

(* The owner check moves only its own request.                              *)
LEMMA LinkCheckOwnerChatInv ==
    ASSUME ChatInv, NEW r \in Reqs, LinkCheckOwner(r)
    PROVE  ChatInv'
<1>1. reqs[r].pc = "owner"
    BY DEF LinkCheckOwner
<1>2. PICK q \in {[reqs[r] EXCEPT !.pc = "status"], IdleReq} :
          reqs' = [reqs EXCEPT ![r] = q]
    BY DEF LinkCheckOwner
<1>3. /\ q \in ReqState /\ q.pc \in {"status", "idle"}
      /\ q.pc # "idle" => RequestOK(q) /\ q.msg = reqs[r].msg
  <2>1. CASE q = IdleReq
      BY <2>1, IdleReqState
  <2>2. CASE q = [reqs[r] EXCEPT !.pc = "status"]
    <3>1. q \in ReqState /\ q.pc = "status" /\ q.msg = reqs[r].msg
        BY <1>1, <2>2, InFlightKnown DEF ReqState
    <3>2. RequestOK(q)
        BY <1>1, <2>2, InFlightKnown DEF RequestOK, ReqState
    <3> QED
        BY <3>1, <3>2
  <2> QED
      BY <2>1, <2>2
<1>4. UNCHANGED <<users, chats, msgs, signers, buttons, bot, alone>>
      /\ raced' \subseteq Chats
    BY DEF LinkCheckOwner, ChatInv, TypeOK
<1>5. q.pc # "idle" => chats[msgs[q.msg].chat].init
    BY <1>1, <1>3, InFlightKnown
<1> QED
    BY <1>2, <1>3, <1>4, <1>5, LocalStepChatInv

(* The status check of AddSigner moves only its own request.                *)
LEMMA AddSignerStatusChatInv ==
    ASSUME ChatInv, NEW r \in Reqs, AddSignerStatus(r)
    PROVE  ChatInv'
<1>1. reqs[r].pc = "status"
    BY DEF AddSignerStatus
<1>2. PICK owners : reqs' = [reqs EXCEPT ![r].pc = "find",
                                         ![r].isSigner = (reqs[r].addr \in owners)]
    BY DEF AddSignerStatus
<1> DEFINE is == reqs[r].addr \in owners
           q == [reqs[r] EXCEPT !.pc = "find", !.isSigner = is]
<1>3. is \in BOOLEAN
    OBVIOUS
<1>4. reqs' = [reqs EXCEPT ![r] = q]
    BY <1>2 DEF ChatInv, TypeOK
<1> HIDE DEF is
<1>5. q \in ReqState /\ q.msg = reqs[r].msg /\ q.pc = "find"
    BY <1>1, <1>3, InFlightKnown DEF ReqState
<1>6. RequestOK(q)
    BY <1>1, InFlightKnown DEF RequestOK, ReqState
<1>7. UNCHANGED <<users, chats, msgs, signers, buttons, bot, alone>>
      /\ raced' \subseteq Chats
    BY DEF AddSignerStatus, ChatInv, TypeOK
<1>8. chats[msgs[q.msg].chat].init
    BY <1>1, <1>5, InFlightKnown
<1> HIDE DEF q
<1> QED
    BY <1>4, <1>5, <1>6, <1>7, <1>8, LocalStepChatInv

(* AddSigner has returned: every action that ends it.                       *)
LEMMA AfterAddSignerOK ==
    ASSUME ChatInv, NEW r \in Reqs, reqs[r].pc \in {"find", "check", "save"}
    PROVE  LET q == AfterAddSigner(reqs[r])
           IN  /\ q \in ReqState /\ q.pc \in {"verify", "announce"}
               /\ q.msg = reqs[r].msg /\ RequestOK(q)
               /\ chats[msgs[q.msg].chat].init
<1> DEFINE q == AfterAddSigner(reqs[r])
<1>1. reqs[r] \in ReqState /\ RequestOK(reqs[r])
    BY InFlightKnown
<1>2. q \in ReqState /\ q.pc \in {"verify", "announce"} /\ q.msg = reqs[r].msg
      /\ (q.pc = "announce" => reqs[r].kind = "link")
      /\ q.kind = reqs[r].kind /\ q.addr = reqs[r].addr /\ q.signer = 0
      /\ q.safe = reqs[r].safe /\ q.chain = reqs[r].chain
    BY <1>1 DEF AfterAddSigner, ReqState
<1> HIDE DEF q
<1>3. RequestOK(q)
    BY <1>1, <1>2 DEF RequestOK
<1>4. chats[msgs[q.msg].chat].init
    BY <1>2, InFlightKnown
<1> QED
    BY <1>2, <1>3, <1>4 DEF q

(* The read of the member's signer row moves only its own request.          *)
LEMMA AddSignerFindChatInv ==
    ASSUME ChatInv, NEW r \in Reqs, AddSignerFind(r)
    PROVE  ChatInv'
<1> DEFINE m == msgs[reqs[r].msg]
<1>1. reqs[r].pc = "find"
    BY DEF AddSignerFind
<1>2. UNCHANGED <<users, chats, msgs, signers, buttons, bot, alone>>
      /\ raced' \subseteq Chats
    BY <1>1, InFlightKnown DEF AddSignerFind, ChatInv, TypeOK
<1>3. CASE reqs' = [reqs EXCEPT ![r] = AfterAddSigner(reqs[r])]
  <2> DEFINE q == AfterAddSigner(reqs[r])
  <2>1. /\ q \in ReqState /\ q.pc \in {"verify", "announce"}
        /\ RequestOK(q) /\ chats[msgs[q.msg].chat].init
      BY <1>1, AfterAddSignerOK
  <2>2. reqs' = [reqs EXCEPT ![r] = q]
      BY <1>3
  <2> HIDE DEF q
  <2> QED
      BY <1>2, <2>1, <2>2, LocalStepChatInv
<1>4. CASE \E i \in {0} \cup DOMAIN signers, force \in BOOLEAN :
               reqs' = [reqs EXCEPT ![r].pc = "check", ![r].signer = i,
                                    ![r].force = force]
  <2>1. PICK i \in {0} \cup DOMAIN signers, force \in BOOLEAN :
               reqs' = [reqs EXCEPT ![r].pc = "check", ![r].signer = i,
                                    ![r].force = force]
      BY <1>4
  <2> DEFINE q == [reqs[r] EXCEPT !.pc = "check", !.signer = i, !.force = force]
  <2>2. i \in Nat
      BY MessageRows DEF ChatInv
  <2>3. q \in ReqState /\ q.msg = reqs[r].msg /\ q.pc = "check"
    <3>1. reqs[r] \in ReqState
        BY <1>1, InFlightKnown
    <3>2. force \in BOOLEAN
        OBVIOUS
    <3> QED
        BY <2>2, <3>1, <3>2 DEF ReqState
  <2>4. RequestOK(q)
      BY <1>1, InFlightKnown DEF RequestOK, ReqState
  <2>5. reqs' = [reqs EXCEPT ![r] = q]
      BY <2>1 DEF ChatInv, TypeOK
  <2>6. chats[msgs[q.msg].chat].init
      BY <1>1, <2>3, InFlightKnown
  <2> HIDE DEF q
  <2> QED
      BY <1>2, <2>3, <2>4, <2>5, <2>6, LocalStepChatInv
<1>5. ASSUME NEW i \in First(SignersOf(m.chat, m.user)),
             reqs' = [reqs EXCEPT ![r].pc = "check", ![r].signer = i,
                         ![r].force = \/ signers[i].addr # reqs[r].addr
                                      \/ signers[i].isSigner # reqs[r].isSigner]
      PROVE  ChatInv'
  <2>1. i \in DOMAIN signers
      BY DEF First, SignersOf
  <2> DEFINE force == \/ signers[i].addr # reqs[r].addr
                      \/ signers[i].isSigner # reqs[r].isSigner
  <2>2. force \in BOOLEAN
      OBVIOUS
  <2>3. reqs' = [reqs EXCEPT ![r].pc = "check", ![r].signer = i, ![r].force = force]
      BY <1>5
  <2> HIDE DEF force
  <2> QED
      BY <1>4, <2>1, <2>2, <2>3
<1> QED
    BY <1>3, <1>4, <1>5 DEF AddSignerFind

(* The read of the address's holder moves only its own request.             *)
LEMMA AddSignerCheckChatInv ==
    ASSUME ChatInv, NEW r \in Reqs, AddSignerCheck(r)
    PROVE  ChatInv'
<1>1. reqs[r].pc = "check"
    BY DEF AddSignerCheck
<1>2. UNCHANGED <<users, chats, msgs, signers, buttons, bot, alone>>
      /\ raced' \subseteq Chats
    BY DEF AddSignerCheck, ChatInv, TypeOK
<1>3. PICK q \in {[reqs[r] EXCEPT !.pc = "save"], AfterAddSigner(reqs[r])} :
          reqs' = [reqs EXCEPT ![r] = q]
    BY DEF AddSignerCheck
<1>4. /\ q \in ReqState /\ q.pc # "saveChat"
      /\ RequestOK(q) /\ chats[msgs[q.msg].chat].init
  <2>1. CASE q = AfterAddSigner(reqs[r])
      BY <1>1, <2>1, AfterAddSignerOK
  <2>2. CASE q = [reqs[r] EXCEPT !.pc = "save"]
    <3>1. q \in ReqState /\ q.pc = "save" /\ q.msg = reqs[r].msg
        BY <1>1, <2>2, InFlightKnown DEF ReqState
    <3>2. RequestOK(q)
        BY <1>1, <2>2, InFlightKnown DEF RequestOK, ReqState
    <3> QED
        BY <1>1, <3>1, <3>2, InFlightKnown
  <2> QED
      BY <2>1, <2>2
<1> QED
    BY <1>2, <1>3, <1>4, LocalStepChatInv

(* Save of a row that was read leaves the ids and the table's type alone.   *)
LEMMA SaveRowOK ==
    ASSUME NEW S, NEW t \in Seq(S), NEW i \in DOMAIN t, NEW row \in S
    PROVE  \A s \in SaveRow(t, i, row) : s \in Seq(S) /\ DOMAIN s = DOMAIN t
<1>1. [t EXCEPT ![i] = row] \in Seq(S) /\ DOMAIN [t EXCEPT ![i] = row] = DOMAIN t
    BY RowReplaced
<1> QED
    BY <1>1 DEF SaveRow

(* What AddSigner writes to signers: a new row of the member, or the row it *)
(* read with another address, of the same chat and user.                    *)
LEMMA AddSignerSaveRows ==
    ASSUME ChatInv, NEW r \in Reqs, AddSignerSave(r)
    PROVE  LET q == reqs[r]
               m == msgs[q.msg]
               row == [chat |-> m.chat, user |-> m.user, addr |-> q.addr,
                       isSigner |-> q.isSigner, live |-> TRUE]
               old == [signers[q.signer] EXCEPT !.addr = q.addr,
                                         !.isSigner = q.isSigner, !.live = TRUE]
           IN  /\ signers' \in Seq(SignerRow)
               /\ DOMAIN signers \subseteq DOMAIN signers'
               /\ q.signer = 0 => row \in SignerRow /\ signers' = Append(signers, row)
               /\ q.signer # 0 =>
                     /\ q.signer \in DOMAIN signers
                     /\ old \in SignerRow
                     /\ signers' \in {signers, [signers EXCEPT ![q.signer] = old]}
<1> DEFINE q == reqs[r]
           m == msgs[q.msg]
           row == [chat |-> m.chat, user |-> m.user, addr |-> q.addr,
                   isSigner |-> q.isSigner, live |-> TRUE]
           old == [signers[q.signer] EXCEPT !.addr = q.addr,
                                     !.isSigner = q.isSigner, !.live = TRUE]
<1>1. q \in ReqState /\ RequestOK(q)
    BY InFlightKnown DEF AddSignerSave
<1>2. q.addr \in Addrs /\ q.isSigner \in BOOLEAN /\ q.signer \in {0} \cup DOMAIN signers
      /\ m \in MsgRow
    BY <1>1, MessageRows DEF RequestOK, ReqState, ChatInv
<1>3. signers \in Seq(SignerRow)
    BY DEF ChatInv, TypeOK
<1>4. row \in SignerRow
    BY <1>2 DEF SignerRow, MsgRow
<1>5. /\ q.signer = 0 => signers' = Append(signers, row)
      /\ q.signer # 0 => signers' \in SaveRow(signers, q.signer, old)
    BY DEF AddSignerSave
<1>6. CASE q.signer = 0
    BY <1>3, <1>4, <1>5, <1>6, RowAppended
<1>7. CASE q.signer # 0
  <2>1. q.signer \in DOMAIN signers
      BY <1>2, <1>7
  <2>2. old \in SignerRow
    <3>1. signers[q.signer] \in SignerRow
        BY <2>1, MessageRows DEF ChatInv
    <3> QED
        BY <1>2, <3>1 DEF SignerRow
  <2> HIDE DEF old
  <2>3. signers' \in SaveRow(signers, q.signer, old)
      BY <1>5, <1>7
  <2>4. signers' \in {signers, [signers EXCEPT ![q.signer] = old]}
      BY <2>3 DEF SaveRow
  <2>5. signers' \in Seq(SignerRow) /\ DOMAIN signers' = DOMAIN signers
      BY <1>3, <2>1, <2>2, <2>3, SaveRowOK
  <2> QED
      BY <1>7, <2>1, <2>2, <2>4, <2>5 DEF old
<1> QED
    BY <1>6, <1>7

(* AddSigner saves a row of the chat and user of its message.               *)
LEMMA AddSignerSaveChatInv ==
    ASSUME ChatInv, NEW r \in Reqs, AddSignerSave(r)
    PROVE  ChatInv'
<1> DEFINE q == AfterAddSigner(reqs[r])
<1>1. reqs[r].pc = "save"
    BY DEF AddSignerSave
<1>2. UNCHANGED <<users, chats, msgs, buttons, bot, alone, raced>>
    BY DEF AddSignerSave
<1>3. reqs' = [reqs EXCEPT ![r] = q]
    BY DEF AddSignerSave
<1>4. /\ q \in ReqState /\ q.pc # "saveChat"
      /\ RequestOK(q) /\ chats[msgs[q.msg].chat].init
    BY <1>1, AfterAddSignerOK
<1>5. signers' \in Seq(SignerRow) /\ DOMAIN signers \subseteq DOMAIN signers'
    BY AddSignerSaveRows
<1>6. /\ chats' \in [Chats -> ChatRow]
      /\ \A c \in Chats : chats[c].init => chats'[c].init
      /\ msgs' \in Seq(MsgRow) /\ DOMAIN msgs' = DOMAIN msgs
      /\ \A j \in DOMAIN msgs : msgs'[j].chat = msgs[j].chat
      /\ alone' \in BOOLEAN /\ raced' \subseteq Chats
    BY <1>2 DEF ChatInv, TypeOK
<1> HIDE DEF q
<1> QED
    BY <1>2, <1>3, <1>4, <1>5, <1>6, RequestStepChatInv

(* The announcement after /link changes no table.                           *)
LEMMA LinkAnnounceChatInv ==
    ASSUME ChatInv, NEW r \in Reqs, LinkAnnounce(r)
    PROVE  ChatInv'
<1> DEFINE q == [reqs[r] EXCEPT !.pc = "verify"]
<1>1. reqs[r].pc = "announce"
    BY DEF LinkAnnounce
<1>2. q \in ReqState /\ q.msg = reqs[r].msg /\ q.pc = "verify"
    BY <1>1, InFlightKnown DEF ReqState
<1>3. RequestOK(q)
    BY <1>1, InFlightKnown DEF RequestOK, ReqState
<1>4. reqs' = [reqs EXCEPT ![r] = q]
    BY DEF LinkAnnounce, ChatInv, TypeOK
<1>5. UNCHANGED <<users, chats, msgs, signers, buttons, bot, alone>>
      /\ raced' \subseteq Chats
    BY DEF LinkAnnounce, ChatInv, TypeOK
<1>6. chats[msgs[q.msg].chat].init
    BY <1>1, <1>2, InFlightKnown
<1> HIDE DEF q
<1> QED
    BY <1>2, <1>3, <1>4, <1>5, <1>6, LocalStepChatInv

(* Step 5.0 keeps every message's chat and user.                            *)
LEMMA SaveVerifiedRows ==
    ASSUME TypeOK, NEW r \in Reqs, SaveVerified(r), reqs[r].msg \in DOMAIN msgs
    PROVE  /\ msgs' \in Seq(MsgRow) /\ DOMAIN msgs' = DOMAIN msgs
           /\ \A j \in DOMAIN msgs : /\ msgs'[j].chat = msgs[j].chat
                                     /\ msgs'[j].user = msgs[j].user
<1> DEFINE i == reqs[r].msg
           row == [msgs[i] EXCEPT !.verified = TRUE, !.live = TRUE]
<1>1. row \in MsgRow /\ row.chat = msgs[i].chat /\ row.user = msgs[i].user
    BY MessageRows DEF MsgRow
<1>2. msgs' = msgs \/ msgs' = [msgs EXCEPT ![i] = row]
    BY DEF SaveVerified, SaveRow
<1> HIDE DEF row
<1>3. CASE msgs' = msgs
    BY <1>3 DEF TypeOK
<1>4. CASE msgs' = [msgs EXCEPT ![i] = row]
    BY <1>1, <1>4, MessageSaved
<1> QED
    BY <1>2, <1>3, <1>4

(* Marking a message verified keeps its chat and user.                      *)
LEMMA SaveVerifiedChatInv ==
    ASSUME ChatInv, NEW r \in Reqs, SaveVerified(r)
    PROVE  ChatInv'
<1>1. reqs[r].pc = "verify"
    BY DEF SaveVerified
<1>2. /\ msgs' \in Seq(MsgRow) /\ DOMAIN msgs' = DOMAIN msgs
      /\ \A j \in DOMAIN msgs : msgs'[j].chat = msgs[j].chat
    BY <1>1, InFlightKnown, SaveVerifiedRows DEF ChatInv
<1>3. reqs' = [reqs EXCEPT ![r] = IdleReq]
    BY DEF SaveVerified
<1>4. UNCHANGED <<users, chats, signers, buttons, bot, alone, raced>>
    BY DEF SaveVerified
<1> QED
    BY <1>2, <1>3, <1>4, IdleReqState, RequestStepChatInv DEF ChatInv, TypeOK

(* A restart loses the requests and the command, and keeps the tables.      *)
LEMMA CrashChatInv ==
    ASSUME ChatInv, Crash
    PROVE  ChatInv'
<1>1. bot' \in BotState /\ bot'.pc = "idle" /\ bot'.signer = 0 /\ bot'.cmd = Nil
    BY DEF Crash, IdleBot, BotState
<1>2. reqs' \in [Reqs -> ReqState] /\ InFlight' = {}
    BY IdleReqState DEF Crash, InFlight
<1>3. UNCHANGED <<users, chats, msgs, signers, buttons, raced>> /\ alone' = FALSE
    BY DEF Crash
<1>4. TypeOK'
    BY <1>1, <1>2, <1>3 DEF ChatInv, TypeOK
<1>5. BotKnows'
    BY <1>1, OnboardingAssumption DEF BotKnows
<1> QED
    BY <1>2, <1>3, <1>4, <1>5 DEF ChatInv, ChatBeforeHandler, RequestKnows

(* ChatInv is inductive: one lemma for each action.                         *)
LEMMA NextChatInv ==
    ASSUME ChatInv, [Next]_vars
    PROVE  ChatInv'
<1>1. CASE UNCHANGED vars
    BY <1>1 DEF vars, ChatInv, TypeOK, ChatBeforeHandler, RequestKnows, BotKnows,
                InFlight, RequestOK
<1>2. CASE Bot
    BY <1>2, GetOrCreateUserChatInv, SetupChatChatInv, UnlinkCommandChatInv,
       StartCommandChatInv, FindMessageChatInv, CreateMessageChatInv,
       RemoveSignerChatInv, DeleteSignerChatInv, DeleteMessageChatInv DEF Bot
<1>3. ASSUME NEW r \in Reqs, Arrive(r) PROVE ChatInv'
    BY <1>3, ArriveChatInv
<1>4. ASSUME NEW r \in Reqs, Handle(r) PROVE ChatInv'
    BY <1>4, LinkQueryChatChatInv, LinkSaveChatChatInv, LinkCheckOwnerChatInv,
       AddSignerStatusChatInv, AddSignerFindChatInv, AddSignerCheckChatInv,
       AddSignerSaveChatInv, LinkAnnounceChatInv, SaveVerifiedChatInv DEF Handle
<1>5. CASE Crash
    BY <1>5, CrashChatInv
<1> QED
    BY <1>1, <1>2, <1>3, <1>4, <1>5 DEF Next

(* Every reachable state satisfies ChatInv.                                 *)
LEMMA ChatInvHolds == Spec => []ChatInv
BY InitChatInv, NextChatInv, PTL DEF Spec

(* The rows and the state of every handler keep their types: in particular, *)
(* no handler works on a message or a signer that has no row.               *)
THEOREM TypeCorrect == Spec => []TypeOK
<1>1. Spec => []ChatInv
    BY ChatInvHolds
<1>2. ChatInv => TypeOK
    BY DEF ChatInv
<1> QED
    BY <1>1, <1>2, PTL

(* No button and no handler for a chat that is not set up; LinkSafe never   *)
(* writes back a row it read before the chat was set up.                    *)
THEOREM ChatsAreSetUp == Spec => []ChatBeforeHandler
<1>1. Spec => []ChatInv
    BY ChatInvHolds
<1>2. ChatInv => ChatBeforeHandler
    BY DEF ChatInv
<1> QED
    BY <1>1, <1>2, PTL
=============================================================================
