# Verification of voyage-tg-server

TLA+ models of the Telegram bot server in this repository, TLC runs that check
them on small instances, and TLAPS proofs of the properties that matter most
for every instance. All line numbers are of the sources beside this directory.

## 1. The system

One Go process runs two things side by side (`main.go:74` and `main.go:90`):

* the **bot loop**: it takes Telegram updates one at a time from a channel that
  a goroutine of the bot library fills, runs the command and sends one reply;
* an **HTTP server** for the web front end: one goroutine per request.

They share a Postgres database (through gorm) and three outside services (Safe
client and transaction services, The Graph, Telegram). There is no lock and no
transaction: every database statement is atomic by itself, and what lies
between two statements can be interleaved with the other actors. A reply that
Telegram refuses is a `log.Panic` (`main.go:291`); Docker restarts the process.

| Component | State it keeps | Operations | Where |
|---|---|---|---|
| Onboarding | tables `users`, `chats`, `sign_messages`, `signers` | `/setup`, `/link`, `/unlink`, `/start`; `POST /verify`, `POST /link` | `main.go`, `service/setup.go`, `service/verifier.go`, `http_server/controllers/onboarding.go` |
| Leaderboard | `chats.last_confirm_nonce`, `signers.points` | `/leaderboard` | `transaction/history/handler.go`, `service/verifier.go` |
| Queue listing | three fields of `QueuedHandler` during one reply | `/queue` | `transaction/queue/handler.go` |
| Bot loop and delivery | offset of the library, channel, the update in hand | poll, enqueue, receive, reply, panic, restart | `main.go`, bot library (external) |
| Links | fields and locals of one command, from reads of three tables | `/request`, `/create`, `/stream` | `transaction/builder`, `contracts/handlers/llamaHandler.go` |
| Numbers of a stream | none in the server; the batches it hands out and what their execution leaves in the contracts | encoding of `/stream`, `POST /safe/encode` | `contracts/handlers`, `controllers/safe.go`, `controllers/utils.go` |
| Notification of signing requests | fields of a `QueuedHandler` during one alert | `POST /notification/request` | `controllers/notification.go`, `transaction/queue/handler.go` |
| Notification service, one-time scripts | task list; `signers` | never called in the repository | `service/notification.go`, `service/one_time_scripts` |
| Balances, links, help, buttons, configuration | none | formatting | `service/safe.go`, `service/helper.go`, `service/buttons.go`, `config` |

How they interact: Onboarding writes the rows (`chats`, `signers`) that
Leaderboard reads and writes back as a whole, and that queue, request, create
and stream commands read. UpdateLoop decides which commands reach the others,
in which order, and which are run again after a death.

What is hard here: check-then-save over several statements (`AddSigner`,
`LinkSafe`); full-row saves of rows read earlier (`Save(&signer)`,
`Save(chat)`); deaths between two statements of one command, with the command
delivered again; services whose failures are dropped (`QuerySafeData`) or end
the command half way (`/leaderboard`); a parser with state that only some
inputs reset (`/queue`); members recognised by a user name that is stored once
and may be empty (`/request`, `/create`, `/stream`), or whose address another
member's entry of a Go map has taken; counts of signatures that are older than
the signatures; unsigned subtraction; floats cut off to integers that may not
hold them. `PROJECT.json` lists the hazards with their lines and the properties
aimed at them.

What makes each component correct:

* Onboarding: an address belongs to at most one member of a chat and a member
  has at most one, if requests do not overlap in `AddSigner`; if they do, every
  step still changes one binding of one member; a member is bound only to an address he signed with;
  `/unlink` unbinds; a chat's Safe and chain were requested together, by one of
  the Safe's owners; nobody is handed a button for a chat that is not set up.
* Leaderboard: every outgoing transfer is rewarded, once; no points are lost.
* Queue listing and alerts: the reply has one line per transaction or conflict,
  in order; who is asked for a signature has not given it, and nobody is told
  that a transaction needs none while one is missing.
* Links: a link pays its sender, or the member who was named, and is a link to
  a Safe the sender owns where that is checked; a bound member is found.
* Numbers of a stream: a stream pays in proportion to what was named, and its
  deposit covers it likewise (both by ten: section 5), no allowance is left behind, and
  numbers that an int64 cannot hold do no harm.
* Bot loop: no update vanishes or is first handled before an older one, a death
  repeats less than a batch, and each is settled in the end.

## 2. Modules

### Onboarding.tla (with MemberBinding.tla, ChatTables.tla, MCOnboarding.tla)

State: `users`, `chats`, `msgs`, `signers` are the four tables, the last two as
sequences of rows whose position is the row's id; soft deletion (`gorm.Model`)
clears `live`. `buttons` are the links sent in direct messages, from which the
front end makes its requests. `bot` and `reqs[r]` are the locals of the command
and of the HTTP requests in flight, each with a `pc`.

A step is one database statement, together with reads next to it that commute
with everything other actors write.

| Action | Code |
|---|---|
| `GetOrCreateUser`, `SetupChat` | `SetupChat`, at the head of `/link` and `/setup` (setup.go 13-23, 101-110; the administrator check main.go 203-220) |
| `FindMessage`, `CreateMessage`, `UseMessage`, `Deliver` | `GetOrCreateSignMessage` (112-126) and what the command does next: `SendVerifyButton`, `SendLinkButton` (verifier.go 85-143), or `/unlink` |
| `UnlinkCommand`, `RemoveSigner`, `DeleteSigner`, `DeleteMessage` | `/unlink` (main.go 239-245, setup.go 128-140) |
| `StartCommand` | the buttons of `/start` (main.go 137-142) |
| `VerifyMessage`, `LinkSafe` | a request that passed validation and found its message (onboarding.go 94-143, 162-221) |
| `LinkQueryChat`, `LinkSaveChat`, `LinkCheckOwner` | `LinkSafe` 4.0-4.3 |
| `AddSignerStatus`, `AddSignerFind`, `AddSignerCheck`, `AddSignerSave` | `AddSigner` (setup.go 25-79) |
| `LinkAnnounce`, `SaveVerified` | the message in the chat, and step 5.0 of both handlers |
| `Crash` | the process dies; the database and the buttons stay |

What the environment may do: any account may send any command in any chat; the
Safe service answers with the owners (`Owners`) or not at all (`Status`, as
`QuerySafeData` drops its error); `Wallets[u]` are the wallets account u can
sign with. What `Save` does to a row that was soft-deleted in the meantime is in
`SaveRow`: the UPDATE of gorm v1.24.3 (go.mod:18) matches live rows only, and
where it matched none the row is inserted with every column it was read with;
the result is the row brought back, or, if the database refuses the insert (the
error is dropped), the tables as they were; a step may do either. Whether the
schema has foreign keys is a constant (`ForeignKeys`): the migration is commented
out, and the tables are not in the repository. `raced` is history: the chats in
which two requests were, at some moment, both between `AddSigner`'s read and its
save (`Adding`). Requests that fail
validation change nothing and are left out; the front end posts a verify link
to `/verify` and a setup link to `/link`. `Owners` does not change.

There are two abstract specifications. `MemberBinding` is the promise:
`bound[c][u]`, `Bind` to a free address, `Unbind`; its refinement mapping is
`BoundAddress`, what a `First` finds, and the tables implement it
(`BindingSpec`) while the requests of a chat do not overlap in `AddSigner`.
`ChatTables` is what the tables promise their readers whatever overlaps
(`TablesSpec`): `known` accounts stay known; `linked[c]`, Safe and chain, changes
to a pair that was posted; `bound[c]` is a set of pairs of a member and an
address, and a step adds, replaces or removes one, with a wallet of its member,
whom the bot knows. The mapping is `users`, `LinkedPair` and `LiveRows`.

### Leaderboard.tla (with MCLeaderboard.tla)

State: the chat row (Safe and nonce), the signer rows (address and points) of
one chat, the command in progress (`bot`: Safe, page, floor, updatedNonce, the
rewards still to give, the row read by `UpdatePoints`), and two kinds of HTTP
request that write the same rows back: `FindBinding`/`SaveBinding`
(`AddSigner`) and `QueryChat`/`SaveChat` (`LinkSafe` 4.0-4.2), which may move
the chat to another of `Safes`. `Execute(s)` is the progress of Safe s.
`FetchHistory` may get a page, or an answer that decodes as an empty one;
`FetchTransaction` may get the details, an answer without them, or an error,
which ends the command (`ReturnError`). `begun`, `done`, `missed`, `foreign`,
`ledger`, `raced`, `undone` (and `bot.astray`) are history variables: they
record what was rewarded and what went wrong, and no action reads them except
to bound the failures. `foreign` are the transfers that were below the nonce
already when it was written next to their Safe: a relinked chat keeps the nonce
of its former Safe (`SaveChat`), and a command that began before a relink writes
the nonce of the Safe it began with (`UpdateLastConfirmedNonce`, `astray`).
`/unlink`, which gives up a row with its points, is no writer here: it is a command
of the same bot loop, and what it discards is its purpose.

### QueueListing.tla (with MCQueueListing.tla)

`ListTransaction`, `ListConflictHeader` and `ListConflict` are one result of the
page each. `queued` and `block` are the environment: they produce pages in the
format of the Safe service (a header, the transactions of the block, the last
one marked `End`; a block has at least two transactions). `handler` is the
code's state, `reply` the lines, `due` the lines the page asks for.
`HandleTransaction` and `HandleResult` follow handler.go 145-183 and 217-249.

`signed` is what the service knows. The list counts the signatures given when it
was fetched (`Early`); `HandleConfirmations` (87-143) fetches the details later,
when the line is written, and owners sign in between (`Sign`). `asked` is the
last request for signatures that a line or an alert made: the transaction, how
many confirmations are missing, modulo `Word` (a small power of two stands for
2^64), and which owners are named, who are those bound to a user name. The
details may be an error page, which decodes as nobody (`Details`), or not come at
all, and then nothing is asked. `NotifyRequestSign` is the alert of the
notification endpoint, for any transaction at any time; it counts the signatures
in the details, as its answer has no count. Left out are alerts in a chat that
was relinked since the transaction was proposed, those for a transaction the
service does not know (an empty alert is sent), and whether the alert arrives.

### UpdateLoop.tla (with Delivery.tla, MCUpdateLoop.tla)

Telegram's queue, the library's poller and the loop. All of them handle
updates in the order of their numbers, so counters stand for the sets:
`confirmed <= offset <= fetched <= posted` and `taken <= offset`. The library is
not in the repository; `Poll`, `Enqueue`, `Answer` follow how `GetUpdatesChan`
is used (`main.go:85-90`) and the Bot API: a request confirms the updates
before its offset, the library moves its offset as it fills the channel.
`Receive` drops what is no command; `RunCommand` is the switch; `Panic` is the
`log.Panic` on a reply Telegram refuses whenever it is sent; `Crash` any other
death. After a death the counters fall back to `confirmed`, and what was
confirmed and not settled is `lost`.

`Delivery` is the abstract specification (`DeliverySpec`): the bot is through
with the updates up to `at` and settles the next one; a death moves `at` back by
at most a batch, or forward by at most a channel and the update in hand, over
updates that are lost unless they were settled before. Polls, batches, offset
and channel are not in it. The mapping of `at` is `Through`.

### Links.tla (with MCLinks.tla)

The three commands that answer with a link, as readers of tables that the HTTP
handlers change while a command waits for a service. `cmd` holds the fields of
`RequestHandler`/`CreateHandler` and the locals of `/stream`: `safe` is the
Safe of the chat row read at the start, `name` what is compared with the stored
names, `rows` the bindings that the lookup read (the keys of the Go map) and
`to` the address it picked. Safe and chain are one value (Onboarding's
`LinkedPairRequested`). `GetOrCreateUser`, `AddSigner`, `RemoveSigner` and
`LinkSafe` are the steps of `ChatTables`, which Onboarding implements whatever
requests overlap: Links is composed with what the tables promise, not with their
implementation, and a step that Onboarding may take is one that the commands
here are exposed to. `GetOrCreateUser` and `RemoveSigner` are commands of the
same bot loop, and wait for the one in progress (`Idle`). So two
members may share an address, and `OwnerUsernames` is any map from addresses to
one of their members, as the last row read wins. A member may have two
addresses, and the command takes either (a Go map is walked in any order). A
lookup that finds nobody ends in the state `unlinked`. `account` and `held` are
Telegram's side; `stored` is `users.user_name`, which `signers.name` is a copy
of (`setup.go:44`) and which is never written again. `Available` is an
assumption: a name that was given up is not taken by another account.

### StreamNumbers.tla (with MCStreamNumbers.tla)

`CreateStream` is the computation that `/stream` and `POST /safe/encode` share:
the amount is printed with six digits (`Printed`), shifted by the decimals of
the token and cut off (`SerializeBalance`), and goes through an int64
(`ToInt64`) into the words of `approve` and `deposit` (`EncodeFunc`, modulo
2^256); the rate is the amount times 10e20 by the seconds of the period
(`GetTotalSeconds`), cut off and converted the same way. LlamaPay takes a rate by
twenty digits: `PayScale` is the rate that pays an amount unit in one second, and
the code's 10e20 is ten times that (`RateScale`). Go leaves open what
int64 makes of a float it cannot hold: `platform` is amd64 or arm64 and decides
it (`Outside`). `Stream` takes whatever `ParseFloat` accepts, the infinities and
NaN included; `GetEncodedApproveDepositCreateStream` finite numbers. `Execute`
is a Safe that signs a batch, once or again: the token and LlamaPay are external
and modelled by the arguments they can be given and the amounts they move; a
batch of which one call fails changes nothing. Amounts are counted in a unit
`Fine` times finer than a printed digit, and a digit is `Up[t]/Down[t]` units of
token t. The last five variables are history: what was named, what the streams
pay for it, and which tokens have a batch whose numbers did not fit. Left out are
the rounding of float64 itself and the sign of zero.

## 3. Runs

| Run | Instance | What it shows |
|---|---|---|
| OnboardingLinked | 2 members, 1 chat, 2 addresses, 1 Safe posted, 1 request at a time, up to 2 messages and 2 signer rows; foreign keys | `AddressUnique`, `AcceptedLinkIsOwner`, and `BindingSpec`: the tables implement `MemberBinding` |
| OnboardingConcurrent | 2 members, 2 `/verify` in flight, up to 2 messages and 2 signer rows; foreign keys | under every race `OlderMessagesVerified`, `SignedWithOwnWallet`, and `TablesSpec`: the tables implement `ChatTables`, here where bindings race; `OneSignerPerMember` and `UnlinkUnbinds` where no requests overlapped in `AddSigner` |
| OnboardingRelink | 1 member, 2 concurrent `POST /link` for two Safes on two chains, 1 message and 1 signer row; no foreign keys | `TypeOK`; `LinkedPairRequested`: Safe and chain are never mixed; `TablesSpec`, here where the saves of chat rows race; `ChatBeforeHandler`, also for a message that `/unlink` created in a chat that was never set up |
| Leaderboard | 1 member, 2 Safes of 4 transactions each (one is no transfer), page of 2, 1 failure, 3 requests | `TypeOK`; `NoneSkipped`: the nonce passes no transfer that was not rewarded, but for the named exceptions; `RewardedAgainOnlyIfUndone`; `RowsKept` |
| QueueListing | 5 transactions: a transfer, a policy change, a creation, 2 rejections; 3 owners, 2 late signatures | `TypeOK`, `RepliesInFull`, `NothingInvented`; `AskedUntilSigned`: no line that asks for no confirmation is about an incomplete transaction; `AskedWithinNeed`: nobody is named who had signed, and only a transaction with more signatures than it needs is asked more for than it needs |
| UpdateLoop | 5 updates, batches and channel of 2, 2 deaths, the last reply unsendable | `TypeOK`; `SettledInOrder`: first settled in order, and what a start handles again was overtaken by less than a batch; `NothingVanishes`, `LossIsBounded`; `DeliverySpec`: the loop implements `Delivery`; and the liveness property `AllSettled` |
| OnboardingAddressTaken | 2 requests at a time | `AddressUnique` is violated: check 1.1 and `Save` are two statements |
| OnboardingVerifiedUnbound | 1 request at a time | `VerifiedMeansBound` is violated: `AddSigner` refuses an address that another member holds, and step 5.0 marks the message as verified all the same |
| QueueSwallows | 4 transactions, a block without a rejection | `OthersAreListed` is violated: the conflict never ends |
| Links | 2 members, 2 addresses, 2 Safes, 3 user names of which one in two spellings | `TypeOK`, `PaysRequester`, `StreamPaysNamed`: the right member is paid; `PaysOwnWallet`: on a wallet he has signed with; `CreatorOwnsSafe`: a `/create` is for a Safe of its sender, unless the chat was relinked meanwhile; `BoundAreFound`: a bound member is turned away only for the reasons the property names |
| LinksNameless | as Links, with accounts that have no user name | `PaysRequester` is violated: empty names are equal, and a `/create` goes through with another account's address and ownership |
| StreamNumbers | 2 tokens (more, and fewer, decimals than are printed), 8 amounts and 4 periods from below zero to too large and not finite, both platforms, 2 links, each token's batches executed up to twice | `TypeOK`; `PaysTenfold` and `FundedForATenth`: streams pay ten times what was named, and deposits last for a tenth of the periods; `NoAllowanceLeft`, `UnfitIsRefused` |

`AddressUnique` holds with one request at a time and fails with two: the pair of
runs shows that the race is the only cause. Two concurrent `/verify` of one member
create two rows, of which `/unlink` deletes one; `OneSignerPerMember` and
`UnlinkUnbinds` name that race (`raced`) and hold wherever it never happened.

**Bounds.** Two members are enough for every property about an address and its
other holder, and two requests for every race of a check with a save. Two sign
messages let a member unlink and link again while an old request is in flight;
two signer rows let both members be bound, or one of them twice. `MaxMsgs` and
`MaxSigners` stop further inserts and change nothing else. In Leaderboard a page
of 2 of 4 transactions holds two transfers of one Safe and loses one of the
other; two Safes are what a relink needs, and three requests bind a member and
relink twice. One member has the two writers of a row that race. `MaxAborts`
bounds the failures, `MaxRequests` the requests, `MaxTxs` the Safes. In
QueueListing 5 transactions allow two blocks, or one with something before and
after it; two late signatures (`MaxLate`) complete a transaction that lacked two, or exceed the
threshold. In StreamNumbers `Bound64`, `Bound216` and `Word` are small and
ordered as 2^63, 2^216 and 2^256; the largest amount exceeds `Bound64` as a
deposit and as a rate; two links (`MaxLinks`) and two batches of a
token (`MaxBatches`) are what a batch before another needs. In Links two members and two spellings of one name are what a
comparison can confuse, and two Safes with different owners what a relink can
exchange; one chat is enough, as every lookup is within one. In UpdateLoop 5 updates exceed batch, channel and hand together,
and `MaxDeaths` bounds the deaths (a fair behaviour could otherwise die for
ever); those by an unsendable reply are not bounded.

**Deadlock** is checked except in QueueListing, where a page ends, and in
StreamNumbers, where the bounded links and batches do. (Elsewhere
`/start`, `/unlink` or another request are always possible.)

**Fairness.** Onboarding, Leaderboard, QueueListing, Links and StreamNumbers are
checked for safety only and state none. UpdateLoop has weak fairness of `Poll` and `Enqueue` (the
library's goroutine is a loop that retries), of `Receive`, `RunCommand` and
`Reply` (the loop takes what there is; a service answers or fails in the end, as
does `bot.Send`), and of `Start` (`restart: "always"` in
docker-compose.yaml). There is none for `Post`, `Crash`, `Panic` and lost
answers.

## 4. Proofs

All proofs are checked by tlapm without assumptions other than the named ASSUME
of each module and, where stated, the assumption of the theorem.

* **OnboardingProofs**: `TypeCorrect` (`TypeOK` is inductive: the ids that
  locals and buttons hold are ids of rows, as rows are never removed) and
  `ChatsAreSetUp`. The latter needs more than `ChatBeforeHandler`: a command
  past `SetupChat` has its chat, and a row that a `/link` read from an
  initialised chat is still the row of an initialised chat when it is saved.
* **BindingProofs**: `LinkIsRequested`, with the strengthening that the row a
  request holds to write back is itself a requested pair;
  `BindingsAreSigned`, with the strengthening that requests hold an address of
  the member of their message, that a signer row a request is about to write
  over is that member's, and that this is so of deleted rows too, as `Save` may
  bring them back. `TablesImplemented`, the refinement `TablesSpec`; two
  actions write signer rows, and seen from the row they write every one of their
  steps adds, replaces or removes one pair, of an account that is known
  (`KnownInv`); the save of a chat row, however old, links a requested pair.
  `OnlyNewestUnverified`: the bot creates a message only after it found none, and
  what is brought back afterwards is brought back verified. `SignersAreUnique`
  and `UnlinkedIsUnbound`, of the chats outside `raced`: no row is created while
  another request holds that it found none, and the bot only deletes; so the one
  row `RemoveSigner` has read is the only one. All these have no hypothesis.
  While no two requests of a chat are between `AddSigner`'s read and its save
  (`SignersApart`; then `raced` stays empty): `AddressesExclusive`, which needs
  that a request that passed check 1.1 still finds the address free when it
  saves; `BindingImplemented`, the refinement `BindingSpec`: where rows are
  unique what is found is what is bound, and a step of `ChatTables` between two
  such states is one of `MemberBinding`. While no two `/link` of a chat are in
  flight (`LinksApart`): `AcceptedLinksOwn`, with what a `/link` in flight knows
  of its chat's Safe and its own address at each of its steps.
* **MemberBindingProofs**: the promise itself is exclusive.
* **LeaderboardProofs**: `LeaderboardTypes`. `NoTransferSkipped`, for any number
  of Safes and relinks: everything of a Safe up to the stored nonce, and up to
  every copy of it a request may write back next to that Safe, is in `done`,
  `missed` or `foreign`; and for the command in progress, everything up to
  `updatedNonce` was handled or is still on its page or in hand.
  `NoTransferSkippedAtHome`: with one Safe nothing is `foreign`. `RewardedOnce`:
  a transfer that was begun as often as the cuts allow has been passed by the
  nonce (and by the floor of the command in progress), or the command in
  progress is past it and will write a nonce above it; the nonce it will write is
  above its floor and above the rest of its page (`OnceInv`, `AheadInv`).
  `RowsAreKept`: a row held to be written back is still the row in the table,
  unless its member is in `raced`, and no two requests hold one member's row
  (`RowsInv`).
* **QueueProofs**: `QueueTypes`; `QueueIsListed`: the handler's count and
  rejection equal those of the block while one is listed, and are reset outside;
  `NothingIsInvented`: a transaction is queued, then perhaps kept, then perhaps
  written, and never two of these; `AskedUntilComplete` (`AskedUntilSigned`) and
  `RequestsStayWithinNeed` (`AskedWithinNeed`), from one invariant (`AskInv`): a
  count is never above the signatures of now, nor, unless the details are an
  error page, below those at the fetch of the list; and a difference modulo
  `Word` of two numbers below it wraps only if the count exceeds the threshold.
* **LinksProofs**: `TypeCorrect`; `LinksPayTheRight` and `StreamsPayTheNamed`,
  under the assumption that every account has a user name: no two accounts have
  had one name, and stored names were their members' (`MembersInv`), so a lookup
  finds an address of the sender or of the one named, however many share it, and
  `CmdInv` keeps that along the steps of the three commands;
  `CreatorsOwnTheSafe`, from `SafeInv`: the Safe that was read is the chat's as
  long as it was not relinked; `BoundMembersAreFound`; and, again with user names,
  `LinksPayOwnWallets`, which uses the composition: every step of Links is one of
  `ChatTables` (`StepsOfTables`), which keep bindings signed (`TablesStaySigned`),
  and so are the rows a command has read (`WalletInv`).
* **StreamProofs**: `StreamTypes`, `StreamsAreFundedForATenth`, `StreamsPayTenfold`,
  `AllowancesAreTaken`, `UnfitNumbersAreRefused`, for every scale, token and
  sequence of batches. Each batch is `Sound`: if its numbers fit and its words
  are small enough to be executed, they are the numbers themselves, and the
  inequalities of one batch add up over all.
* **UpdateLoopProofs**: `LoopTypes`, `UpdatesInOrder`, `UpdatesAccounted`,
  `LossBounded`, from one invariant: everything up to `taken` is settled but for
  the update in hand, updates were first settled in order (`FirstInOrder`), and
  the channel is within its capacity.
  `DeliveryImplemented`, the refinement `DeliverySpec`: what was taken by a death
  is up to `confirmed` and no further from it than the loop was, and what was
  settled is within a batch of `confirmed` (`DeathInv`, `DeliveryInv`; the second
  half of `SettledInOrder` is from there); every step of the library is a stutter of `Delivery`, and those
  of the loop settle the one update after `Through`.

Every property of a passing run but `AllSettled` is proved; `AllSettled` is
liveness under fairness, which is out of the prover's reach, and stays with TLC.

Two hypotheses are about behaviours the code allows but does not ensure:
`SignersApart` and `LinksApart` say what would have to be exclusive for the
promise to hold, one transaction, or one lock per chat, around each of the two
stretches. They leave crashes, the bot, other chats and every other overlap in
the same chat alone, and that one of them is needed is what
OnboardingAddressTaken shows. OnboardingLinked checks `AddressUnique`,
`AcceptedLinkIsOwner` and `BindingSpec` with one request at a time, which
satisfies both. That every account has a user name (Links) is true of Links and
false of LinksNameless.

## 5. Findings

The four violation runs; `PROJECT.json` quotes the lines. Two further, which no
document of the repository speaks of and so no run refutes:

* The factor 10e20 (`llamaHandler.go:136`, `controllers/safe.go:94`) is 10^21, while LlamaPay
  takes rates by 20 digits: a stream pays ten times what was named, and its deposit
  lasts for a tenth of the period. `PaysTenfold` and `FundedForATenth` state it as
  it is. That LlamaPay's scale is 10^20 is not in the repository either.
* LinkSafe's message names the signer's wallet as the Safe that was set
  (`onboarding.go:248`).

Known limits of the code that the properties state as exceptions:

* Leaderboard: transfers that left the first page of the history, or whose
  details came as an error page, are passed over (`missed`); so are those of a
  relinked chat that are below the nonce of its former Safe (`foreign`); the
  Safe's transaction with nonce 0 is never rewarded; a failure or a death during
  `/leaderboard` rewards again what was rewarded before it; the overlap of
  `UpdatePoints` and `AddSigner` loses one of the two (`raced`).
* Onboarding: two requests that overlap in `AddSigner` may leave a member two rows,
  of which `/unlink` deletes the first (`raced`); a `/link` that is refused leaves
  the chat linked to the Safe it named.
* Queue listing: the unsigned difference of `handler.go:110` wraps when an owner
  signs beyond the threshold, and then almost 2^64 confirmations are asked for;
  a line whose details came as an error page names nobody.
* Links: a `/create` during a relink may be for a Safe whose owners were not
  asked (`moved`); a member who shares his address may be told that he linked
  none; `/stream` does not find a member whose stored name has a capital.
* Numbers of a stream: the test for a rate of zero (`llamaHandler.go:33`)
  compares pointers and never holds, so a stream that pays nothing is prepared
  like any other (`PaysTenfold` tolerates less than one unit of the rate a
  second); a deposit may fall short of the stream by half a printed digit
  and a unit of the token; on arm64 a number that an int64 cannot hold is
  replaced by the nearest one, and the batch can be executed (`unfit`).
* Bot loop: an update after an unsendable reply may starve.

## 6. Not modelled, and why

* Signature and message parsing (SIWE library), HTML and Markdown wording, token
  amounts in texts, buttons, help, configuration and wiring: formatting without
  state. `/info`, `/balance` and the queries of `service/safe.go`
  only format what a service answers; `PingSafe` warns the chat that the service
  is down; `GetSafeUsers` lists rows and changes none.
* `service/notification.go` and `service/one_time_scripts` are called by nothing
  in the repository, nor are `QueueTransaction`, `GenerateQueueLink` and
  `AddSafeWallet`: there is no caller to say in which states they run.
* Of the alerts: those in a chat that was relinked since (the button then leads
  to the present Safe), those for an unknown transaction, and failing sends.
* float64 rounding, and the sign of a zero, in StreamNumbers.
* Errors of the database other than a row that is not found, a foreign key, and
  the insert of a deleted row: the code drops most of them and goes on. One has an
  effect of its own: `llamaHandler.go:185-188` tells only `ErrRecordNotFound` from
  success, so another error leaves the recipient empty, and a stream to address 0
  is prepared. (Links has the lookup find or not find the row.)
* Several chats that share rows: no statement but `/start` crosses chats.
  Account names matter only in Links.

## 7. Plan

Done: all components above with a module, their abstract specifications, and the
proofs of section 4. What could follow:

1. **Composition** of UpdateLoop with Onboarding's commands: what running a
   command again after a death does to the tables. Onboarding's `Crash` followed
   by the same command covers the cases one by one; the composition would bound
   how many there are. Onboarding and Links are composed, through `ChatTables`.
2. **Alerts across Safes**: QueueListing with a chat that is relinked, so that an
   alert's details, button and Safe may be of different Safes.
3. **The scripts and the notification service**, should anything start to call
   them: `service/one_time_scripts` as a further writer of `signers` next to
   `RemoveSigner` and `AddSigner`.
