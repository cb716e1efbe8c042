---------------------------- MODULE StreamNumbers ----------------------------
(***************************************************************************)
(* The numbers of a Llama stream: from the amount and the period that a    *)
(* member names to the words of the three calls, and what they come to     *)
(* when the Safe signs them.                                               *)
(*                                                                         *)
(* /stream and POST /safe/encode compute alike: the amount is printed with *)
(* six digits and shifted by the token's decimals for approve and deposit, *)
(* multiplied by 10e20 and divided by the seconds for createStream; both   *)
(* go through int64, whatever they are, into a word of the ABI. The Safe   *)
(* executes the three calls together or not at all. The token and the      *)
(* contract of LlamaPay are modelled by the arguments they can be given;   *)
(* LlamaPay takes a rate by twenty digits, so that 10^20 pays one token a  *)
(* second.                                                                 *)
(*                                                                         *)
(* Amounts are counted in units finer than a printed digit; the rounding   *)
(* of float64 itself (a 2^53rd) is not modelled, nor is the sign of zero.  *)
(***************************************************************************)
EXTENDS Integers

CONSTANTS
    Tokens,        \* tokens that LlamaPay has a contract for
    Up, Down,      \* a printed digit of token t is Up[t] / Down[t] of its units
    Fine,          \* amount units in a printed digit
    PayScale,      \* the rate with which LlamaPay pays an amount unit in one second
    SecondsPerDay, \* 86400
    Amounts,       \* the amounts that are named, in amount units
    Periods,       \* the numbers of days, months and years that are named
    Bound64,       \* 2^63
    Bound216,      \* 2^216: rates end here
    Word,          \* 2^256
    Supply,        \* Supply[t]: what the Safe has of token t
    MaxLinks,      \* bound: links handed out
    MaxBatches     \* bound: batches executed

ASSUME StreamAssumption ==
    /\ Up \in [Tokens -> Nat \ {0}] /\ Down \in [Tokens -> Nat \ {0}]
    /\ Fine \in Nat \ {0} /\ PayScale \in Nat \ {0} /\ SecondsPerDay \in Nat \ {0}
    /\ Amounts \subseteq Int /\ Periods \subseteq Int
    /\ Bound64 \in Nat \ {0} /\ Bound216 \in Nat /\ Word \in Nat
    /\ Bound64 <= Bound216 /\ Bound216 + Bound64 <= Word
    /\ Supply \in [Tokens -> Nat]
    /\ \A t \in Tokens : Supply[t] < Word - Bound64
    /\ MaxLinks \in Nat /\ MaxBatches \in Nat

VARIABLES
    platform,   \* what the server was built for: it decides what int64 makes of a large float
    prepared,   \* the batches handed out as a link or as an answer
    links,      \* how many
    funds,      \* funds[t]: token t in the Safe
    allowance,  \* allowance[t]: what LlamaPay may still take
    deposited,  \* deposited[t]: what it has taken
    batches,    \* history: how many batches of t were executed
    named,      \* history: the amounts they name, together
    seconds,    \* history: the lengths of the periods they name, together
    owed,       \* history: what the streams pay in those periods, in parts of a rate unit
    unfit       \* history: tokens with an executed batch whose numbers did not fit

sums == <<batches, named, seconds, owed, unfit>>
vars == <<platform, prepared, links, funds, allowance, deposited, sums>>

-----------------------------------------------------------------------------
(* Floats and integers                                                      *)

Finite(n) == [kind |-> "finite", n |-> n]
Infinity(sign) == [kind |-> "infinite", n |-> sign]
NaN == [kind |-> "nan", n |-> 0]

Abs(n) == IF n < 0 THEN -n ELSE n
Sign(n) == IF n < 0 THEN -1 ELSE 1

(* A quotient cut off towards zero, as the conversion to an integer does.   *)
Truncated(n, d) == IF n < 0 THEN -((-n) \div d) ELSE n \div d

InInt64(n) == -Bound64 <= n /\ n < Bound64

(* A float that int64 cannot hold: amd64 makes the least number of all such *)
(* values, arm64 the nearest one, and 0 of no number.                       *)
Outside(x) ==
    IF platform = "amd64" \/ x.n < 0 THEN -Bound64
    ELSE IF x.kind = "nan" THEN 0 ELSE Bound64 - 1

(* Mutant: what does not fit is made to fit.                                *)
ToInt64Nearest(x) ==
    IF x.kind = "finite" /\ InInt64(x.n) THEN x.n
    ELSE IF x.n < 0 THEN -Bound64 ELSE Bound64 - 1

ToInt64(x) == IF x.kind = "finite" /\ InInt64(x.n) THEN x.n ELSE Outside(x)

(* Mutant: the sign is kept.                                                *)
EncodeSigned(n) == n

(* The ABI encoder takes any integer modulo the word.                       *)
EncodeFunc(n) == n % Word

-----------------------------------------------------------------------------
(* The handler                                                              *)

Spoken == {Infinity(1), Infinity(-1), NaN}

(* What strconv.ParseFloat returns: a number, or one of its other words.    *)
ParseFloat(numbers) == {Finite(n) : n \in numbers} \cup Spoken

DaysIn == [day |-> 1, mon |-> 30, yea |-> 365]

(* Mutant: only years are told from days.                                   *)
GetTotalSecondsDaily(duration, period) ==
    [period EXCEPT !.n = IF period.kind = "finite"
                         THEN @ * SecondsPerDay * (IF duration = "yea" THEN 365 ELSE 1) ELSE @]

GetTotalSeconds(duration, period) ==
    [period EXCEPT !.n = IF period.kind = "finite"
                         THEN @ * DaysIn[duration] * SecondsPerDay ELSE @]

(* "%f": the nearest number of six digits; at half way either of the two,   *)
(* as the float is a little to one side. The words that are no number do    *)
(* not parse as a decimal: the error is dropped, and zero is taken.         *)
Printed(amount) ==
    IF amount.kind = "finite"
    THEN LET below == amount.n \div Fine
         IN  {p \in {below, below + 1} : 2 * Abs(p * Fine - amount.n) <= Fine}
    ELSE {0}

(* Shift by the decimals of the token; a fraction of its unit is cut off    *)
(* when the float becomes an int64.                                         *)
SerializeBalance(t, digits) == Finite(Truncated(digits * Up[t], Down[t]))

(* The rate the code gives a stream of one amount unit in one second: 10e20 *)
(* is ten times 10^20.                                                      *)
RateScale == 10 * PayScale

(* Mutant: the rate is rounded up.                                          *)
AmountPerSecUp(amount, total) ==
    IF amount.kind = "finite" /\ total.kind = "finite" /\ total.n # 0
    THEN Finite(1 + Truncated(Sign(total.n) * amount.n * RateScale, Abs(total.n)))
    ELSE NaN

(* amount * 10e20 / seconds, cut off when the float becomes an int64. A     *)
(* division by zero, or of what is no number, is no error.                  *)
AmountPerSec(amount, total) ==
    IF amount.kind = "finite" /\ total.kind = "finite" /\ total.n # 0
    THEN Finite(Truncated(Sign(total.n) * amount.n * RateScale, Abs(total.n)))
    ELSE IF amount.kind = "finite" /\ total.kind = "infinite" THEN Finite(0)
    ELSE IF \/ amount.kind = "infinite" /\ total.kind = "finite"
            \/ amount.kind = "finite" /\ total = Finite(0) /\ amount.n # 0
    THEN Infinity(Sign(amount.n) * Sign(total.n))
    ELSE NaN

(* Mutant: the deposit leaves out what the last printed digit is.           *)
GetDepositLess(value) == EncodeFunc(ToInt64(Finite(2 * (value.n \div 2))))

GetApprove(value) == EncodeFunc(ToInt64(value))
GetDeposit(value) == EncodeFunc(ToInt64(value))
GetCreateStream(rate) == EncodeFunc(ToInt64(rate))

(* Were the numbers of the request held by an int64?                        *)
Fits(value, rate) == rate.kind = "finite" /\ InInt64(rate.n) /\ InInt64(value.n)

(* CreateStream: the three calls. The test for a rate of zero compares two  *)
(* pointers and never holds, so there are always three.                     *)
CreateStream(t, amount, total, digits) ==
    LET value == SerializeBalance(t, digits)
        rate == AmountPerSec(amount, total)
    IN  [token |-> t, approve |-> GetApprove(value), deposit |-> GetDeposit(value),
         rate |-> GetCreateStream(rate), fits |-> Fits(value, rate)]

-----------------------------------------------------------------------------
Init ==
    /\ platform \in {"amd64", "arm64"}
    /\ prepared = {} /\ links = 0
    /\ funds = Supply
    /\ allowance = [t \in Tokens |-> 0] /\ deposited = allowance
    /\ batches = allowance /\ named = allowance /\ seconds = allowance /\ owed = allowance
    /\ unfit = {}

(* What is named: the amount, and the length of the period. In an endless   *)
(* period nothing falls due.                                                *)
Amount(amount, period) == IF period.kind = "finite" THEN Abs(amount.n) ELSE 0

Length(duration, period) ==
    IF period.kind = "finite" THEN Abs(period.n) * DaysIn[duration] * SecondsPerDay ELSE 0

HandOut(t, amount, period, duration) ==
    /\ links < MaxLinks
    /\ links' = links + 1
    /\ \E digits \in Printed(amount) :
           LET batch == CreateStream(t, amount, GetTotalSeconds(duration, period), digits)
           IN  prepared' = prepared \cup
                   {[calls |-> batch, amount |-> Amount(amount, period),
                     length |-> Length(duration, period)]}
    /\ UNCHANGED <<platform, funds, allowance, deposited, sums>>

(* /stream: period and amount are what ParseFloat accepts; a duration that  *)
(* starts with none of the three words is refused, as are (in Links) an     *)
(* unknown recipient and a token that the Safe or LlamaPay does not have.   *)
Stream ==
    \E t \in Tokens, amount \in ParseFloat(Amounts), period \in ParseFloat(Periods),
       duration \in DOMAIN DaysIn : HandOut(t, amount, period, duration)

(* POST /safe/encode: the same from a JSON body, whose numbers are finite;  *)
(* the front end gives the token as it has it from LlamaPay.                *)
GetEncodedApproveDepositCreateStream ==
    \E t \in Tokens, amount \in Amounts, period \in Periods, duration \in DOMAIN DaysIn :
        HandOut(t, Finite(amount), Finite(period), duration)

(* The Safe executes the batch of a link, as often as its owners sign it:   *)
(* the token approves any amount, LlamaPay takes a deposit that is allowed  *)
(* and there, and a rate that is a uint216; or nothing is done.             *)
Execute(b) ==
    LET t == b.calls.token
        taken == b.calls.deposit
    IN  /\ batches[t] < MaxBatches
        /\ taken <= b.calls.approve /\ taken <= funds[t]
        /\ b.calls.rate < Bound216
        /\ funds' = [funds EXCEPT ![t] = @ - taken]
        /\ allowance' = [allowance EXCEPT ![t] = b.calls.approve - taken]
        /\ deposited' = [deposited EXCEPT ![t] = @ + taken]
        /\ batches' = [batches EXCEPT ![t] = @ + 1]
        /\ named' = [named EXCEPT ![t] = @ + b.amount]
        /\ seconds' = [seconds EXCEPT ![t] = @ + b.length]
        /\ owed' = [owed EXCEPT ![t] = @ + b.calls.rate * b.length]
        /\ unfit' = unfit \cup (IF b.calls.fits THEN {} ELSE {t})
        /\ UNCHANGED <<platform, prepared, links>>

Next ==
    \/ Stream
    \/ GetEncodedApproveDepositCreateStream
    \/ \E b \in prepared : Execute(b)

Spec == Init /\ [][Next]_vars

-----------------------------------------------------------------------------
(* Properties *)

Calls == [token: Tokens, approve: 0 .. Word - 1, deposit: 0 .. Word - 1,
          rate: 0 .. Word - 1, fits: BOOLEAN]

Batch == [calls: Calls, amount: Nat, length: Nat]

(* Every call has words of the ABI for arguments, and what was taken from   *)
(* the Safe is what LlamaPay has.                                           *)
TypeOK ==
    /\ platform \in {"amd64", "arm64"}
    /\ prepared \subseteq Batch /\ links \in Nat
    /\ funds \in [Tokens -> Nat] /\ deposited \in [Tokens -> Nat]
    /\ \A t \in Tokens : funds[t] + deposited[t] = Supply[t]
    /\ allowance \in [Tokens -> Nat]
    /\ batches \in [Tokens -> Nat] /\ named \in [Tokens -> Nat]
    /\ seconds \in [Tokens -> Nat] /\ owed \in [Tokens -> Nat]
    /\ unfit \subseteq Tokens

(* What the deposits of a token pay for at LlamaPay's scale, and the        *)
(* tolerance of half a printed digit and one unit of the token a batch: all *)
(* in parts of a rate unit and of a unit of the token.                      *)
Cover(t) ==
    PayScale * Fine * (2 * Down[t] * (deposited[t] + batches[t]) + Up[t] * batches[t])

(* The deposits of a token cover its streams for a tenth of the periods     *)
(* they name: what the streams take in all of them is up to ten times the   *)
(* cover. (Unless a batch was executed whose numbers did not fit.)          *)
FundedForATenth ==
    \A t \in Tokens \ unfit : 2 * Up[t] * owed[t] <= 10 * Cover(t)

(* The streams pay ten times the amounts that were named in the periods     *)
(* that were named: never more, and less by no more than one unit of the    *)
(* rate a second, which a rate of zero is within.                           *)
PaysTenfold ==
    \A t \in Tokens \ unfit :
        /\ owed[t] <= 10 * (named[t] * PayScale)
        /\ 10 * (named[t] * PayScale) <= owed[t] + seconds[t]

(* Whatever was named, LlamaPay takes all it was allowed to: no batch, and  *)
(* no batch executed twice or after another, leaves an allowance behind.    *)
NoAllowanceLeft == \A t \in Tokens : allowance[t] = 0

(* On amd64 a batch whose numbers did not fit is never executed: the least  *)
(* int64 becomes a word that is no uint216 and more than any deposit.       *)
UnfitIsRefused == platform = "amd64" => unfit = {}
=============================================================================
