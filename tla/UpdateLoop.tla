----------------------------- MODULE UpdateLoop -----------------------------
(***************************************************************************)
(* How updates get from Telegram through the bot loop of main.go.          *)
(*                                                                         *)
(* Telegram numbers the updates and keeps them until a getUpdates request  *)
(* with a larger offset confirms them. A goroutine of the bot library      *)
(* (GetUpdatesChan) fetches them in batches and puts them one by one into  *)
(* a buffered channel; its next request confirms all it has put there. The *)
(* loop takes them out, drops what is no command, runs the command and     *)
(* sends the reply; a reply that cannot be sent is a log.Panic. The        *)
(* process may die anywhere; Docker restarts it, and it begins with what   *)
(* was not confirmed.                                                      *)
(*                                                                         *)
(* Updates are taken, buffered and fetched in the order of their numbers,  *)
(* so each of these sets is an interval and its last number stands for it. *)
(***************************************************************************)
EXTENDS Integers

CONSTANTS
    Commands,    \* the updates that are commands: a message or callback with "/"
    Unsendable,  \* those whose reply Telegram refuses, however often it is sent
    Limit,       \* updates in an answer of getUpdates (100)
    Buffer,      \* the capacity of the channel (100)
    MaxUpdates,  \* bound: updates that are posted
    MaxDeaths    \* bound: deaths of the process other than by Unsendable

Updates == 1 .. MaxUpdates

ASSUME UpdateLoopAssumption ==
    /\ MaxUpdates \in Nat
    /\ Commands \subseteq Updates
    /\ Unsendable \subseteq Commands
    /\ Limit \in Nat \ {0}
    /\ Buffer \in Nat \ {0}
    /\ MaxDeaths \in Nat

VARIABLES
    posted,     \* the last update Telegram has
    confirmed,  \* the last update Telegram was told to forget
    fetched,    \* the last update the library has read
    offset,     \* the last one it has put into the channel: config.Offset - 1
    taken,      \* the last one the loop has taken out of it
    pc,         \* where the loop is: "down" while the process does not run
    done,       \* history: the updates answered or dropped
    lost,       \* history: those the process took with it, confirmed
    deaths      \* the number of deaths that MaxDeaths bounds

history == <<done, lost>>
vars == <<posted, confirmed, fetched, offset, taken, pc, history, deaths>>

Init ==
    /\ posted = 0
    /\ confirmed = 0
    /\ fetched = 0 /\ offset = 0 /\ taken = 0
    /\ pc = "down"
    /\ done = {} /\ lost = {}
    /\ deaths = 0

-----------------------------------------------------------------------------
(* Telegram and the library *)

Post ==
    /\ posted < MaxUpdates
    /\ posted' = posted + 1
    /\ UNCHANGED <<confirmed, fetched, offset, taken, pc, history, deaths>>

(* Mutant: the library asks for everything there is.                        *)
AnswerAll == posted

(* What getUpdates answers: what comes after the offset, up to the limit.   *)
Answer == IF posted < offset + Limit THEN posted ELSE offset + Limit

(* Mutant: the request confirms what it is going to answer.                 *)
ConfirmAnswer == confirmed' = Answer

(* The offset confirms what was put into the channel before. After a start  *)
(* it is 0 and confirms nothing (here offset = confirmed).                  *)
ConfirmOffset == confirmed' = offset

(* getUpdates is answered; it is called when the last batch is in the       *)
(* channel.                                                                 *)
Poll ==
    /\ pc # "down"
    /\ offset = fetched
    /\ ConfirmOffset
    /\ fetched' = Answer
    /\ UNCHANGED <<posted, offset, taken, pc, history, deaths>>

(* The request reaches Telegram but its answer is lost; it is repeated.     *)
PollUnanswered ==
    /\ pc # "down"
    /\ offset = fetched
    /\ ConfirmOffset
    /\ UNCHANGED <<posted, fetched, offset, taken, pc, history, deaths>>

(* Mutant: the channel takes any number of updates.                         *)
HasRoomAlways == TRUE

HasRoom == offset - taken < Buffer

Enqueue ==
    /\ pc # "down"
    /\ offset < fetched
    /\ HasRoom
    /\ offset' = offset + 1
    /\ UNCHANGED <<posted, confirmed, fetched, taken, pc, history, deaths>>

-----------------------------------------------------------------------------
(* The loop *)

(* Mutant: the last update waits for another one.                           *)
HasFurtherUpdate == taken + 1 < offset

HasUpdate == taken < offset

(* Mutant: older updates are passed over.                                   *)
NextLatest == offset

NextUpdate == taken + 1

(* Take the next update; drop it unless it is a command.                    *)
Receive ==
    LET u == NextUpdate
    IN  /\ pc = "range"
        /\ HasUpdate
        /\ taken' = u
        /\ \/ /\ u \in Commands
              /\ pc' = "command"
              /\ UNCHANGED done
           \/ /\ u \notin Commands
              /\ done' = done \cup {u}
              /\ UNCHANGED pc
        /\ UNCHANGED <<posted, confirmed, fetched, offset, lost, deaths>>

(* The switch: the command reads and writes what the other modules model.   *)
RunCommand ==
    /\ pc = "command"
    /\ pc' = "reply"
    /\ UNCHANGED <<posted, confirmed, fetched, offset, taken, history, deaths>>

Reply ==
    /\ pc = "reply"
    /\ taken \notin Unsendable
    /\ pc' = "range"
    /\ done' = done \cup {taken}
    /\ UNCHANGED <<posted, confirmed, fetched, offset, taken, lost, deaths>>

-----------------------------------------------------------------------------
(* The process *)

Start ==
    /\ pc = "down"
    /\ pc' = "range"
    /\ UNCHANGED <<posted, confirmed, fetched, offset, taken, history, deaths>>

(* Mutant: the offset is kept.                                              *)
DieKeepOffset ==
    /\ pc' = "down"
    /\ fetched' = confirmed /\ taken' = confirmed
    /\ lost' = lost \cup (1 .. confirmed \ done)
    /\ UNCHANGED <<posted, confirmed, offset, done>>

(* The channel and the batch are gone; what was confirmed will not come     *)
(* again.                                                                   *)
Die ==
    /\ pc' = "down"
    /\ fetched' = confirmed /\ offset' = confirmed /\ taken' = confirmed
    /\ lost' = lost \cup (1 .. confirmed \ done)
    /\ UNCHANGED <<posted, confirmed, done>>

(* Telegram refuses the reply, now and whenever it is sent again.           *)
Panic ==
    /\ pc = "reply"
    /\ taken \in Unsendable
    /\ Die
    /\ UNCHANGED deaths

(* Any other death: a request of bot.Send that fails once, a panic in a     *)
(* command or a handler, the end of the container.                          *)
Crash ==
    /\ pc # "down"
    /\ deaths < MaxDeaths
    /\ Die
    /\ deaths' = deaths + 1

Next ==
    \/ Post
    \/ Poll \/ PollUnanswered \/ Enqueue
    \/ Receive \/ RunCommand \/ Reply
    \/ Start \/ Panic \/ Crash

(* The library polls and fills the channel in a loop of its own, the bot    *)
(* loop takes what there is, services answer in the end, and Docker starts  *)
(* the process whenever it is down ("restart: always").                     *)
Fairness ==
    /\ WF_vars(Poll) /\ WF_vars(Enqueue)
    /\ WF_vars(Receive) /\ WF_vars(RunCommand) /\ WF_vars(Reply)
    /\ WF_vars(Start)

Spec == Init /\ [][Next]_vars /\ Fairness

-----------------------------------------------------------------------------
(* Properties *)

(* The counters follow each other from Telegram to the loop, and a command  *)
(* is in hand when it is being handled.                                     *)
TypeOK ==
    /\ posted \in 0 .. MaxUpdates
    /\ confirmed \in 0 .. offset
    /\ offset \in 0 .. fetched
    /\ fetched \in 0 .. posted
    /\ taken \in 0 .. offset
    /\ pc \in {"down", "range", "command", "reply"}
    /\ pc \in {"command", "reply"} => taken \in Commands
    /\ done \subseteq Updates
    /\ lost \subseteq Updates
    /\ deaths \in Nat

(* An update is answered or dropped for the first time only when all older  *)
(* ones were answered, dropped or lost. A start may handle the last of them *)
(* once more, after newer ones: it is overtaken by less than a batch.       *)
SettledInOrder ==
    /\ \A u, v \in Updates : u < v /\ v \in done => u \in done \cup lost
    /\ pc \in {"command", "reply"} => \A v \in done : v < taken + Limit

(* Nothing vanishes while the process lives: an update Telegram has         *)
(* forgotten was answered or dropped, is in the channel or in hand, or went *)
(* down with the process.                                                   *)
NothingVanishes ==
    \A u \in 1 .. confirmed :
        \/ u \in done \cup lost
        \/ u \in taken + 1 .. offset
        \/ u = taken /\ pc \in {"command", "reply"}

(* A death costs at most the updates of a full channel and the one in hand. *)
LossIsBounded ==
    confirmed - taken <= Buffer

(* The last update the loop is through with: not yet the one in hand.       *)
Through == IF pc \in {"command", "reply"} THEN taken - 1 ELSE taken

Promise == INSTANCE Delivery WITH at <- Through

(* Seen from outside, updates are settled one after the other; a death      *)
(* repeats at most one batch and loses at most the channel and the update   *)
(* in hand, and nothing but a death does.                                   *)
DeliverySpec == Promise!Spec

(* Every update before the first unsendable reply is answered or dropped in *)
(* the end, unless a death took it. (Those after it may wait for ever: the  *)
(* process may die of the same reply each time it is started.)              *)
AllSettled ==
    \A u \in Updates :
        (\A p \in Unsendable : u < p) => (posted >= u ~> u \in done \cup lost)
=============================================================================
