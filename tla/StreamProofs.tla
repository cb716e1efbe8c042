----------------------------- MODULE StreamProofs -----------------------------
(* Proofs about StreamNumbers.                                              *)
EXTENDS StreamNumbers, TLAPS

-----------------------------------------------------------------------------
(* Integers *)

(* An integer quotient and its remainder.                                   *)
LEMMA Quotient ==
    ASSUME NEW n \in Nat, NEW d \in Nat \ {0}
    PROVE  /\ n \div d \in Nat
           /\ (n \div d) * d <= n
           /\ n < (n \div d) * d + d
OBVIOUS

(* A truncated quotient that is not negative is the nearest from below to   *)
(* the quotient without its sign.                                           *)
LEMMA TruncatedFromBelow ==
    ASSUME NEW n \in Int, NEW d \in Nat \ {0}
    PROVE  /\ Truncated(n, d) \in Int
           /\ Truncated(n, d) >= 0 =>
                  /\ Truncated(n, d) * d <= Abs(n)
                  /\ Abs(n) < Truncated(n, d) * d + d
<1>1. CASE n >= 0
  <2>1. Truncated(n, d) = n \div d /\ Abs(n) = n
    BY <1>1 DEF Truncated, Abs
  <2> QED  BY <1>1, <2>1, Quotient
<1>2. CASE n < 0
  <2>1. Truncated(n, d) = -((-n) \div d) /\ Abs(n) = -n /\ -n \in Nat
    BY <1>2 DEF Truncated, Abs
  <2>2. /\ (-n) \div d \in Nat
        /\ -n < ((-n) \div d) * d + d
    BY <2>1, Quotient
  <2>3. ASSUME Truncated(n, d) >= 0
        PROVE  Truncated(n, d) = 0 /\ (-n) \div d = 0
    BY <2>1, <2>2, <2>3
  <2> QED  BY <2>1, <2>2, <2>3
<1> QED  BY <1>1, <1>2

(* The sign of a product.                                                   *)
LEMMA Products ==
    ASSUME NEW a \in Nat, NEW b \in Nat
    PROVE  a * b \in Nat
OBVIOUS

LEMMA RateScaleIsPositive == ASSUME StreamAssumption PROVE RateScale \in Nat \ {0}
<1>1. PayScale \in Nat \ {0}
  BY DEF StreamAssumption
<1> QED  BY <1>1 DEF RateScale

LEMMA Monotone ==
    ASSUME NEW a \in Nat, NEW b \in Int, NEW c \in Int, b <= c
    PROVE  a * b <= a * c
OBVIOUS

(* An integer of 64 bits whose word is small enough is not negative, and    *)
(* is its word.                                                             *)
LEMMA Words ==
    ASSUME StreamAssumption, NEW n \in Int, InInt64(n)
    PROVE  /\ EncodeFunc(n) \in 0 .. Word - 1
           /\ n >= 0 => EncodeFunc(n) = n
           /\ n < 0 => EncodeFunc(n) = n + Word
<1>1. Word \in Nat /\ Bound64 \in Nat /\ Bound216 \in Nat
      /\ Bound64 > 0 /\ Bound64 <= Bound216 /\ Bound216 + Bound64 <= Word
      /\ -Bound64 <= n /\ n < Bound64
  BY DEF StreamAssumption, InInt64
<1>2. Word > n /\ n + Word >= 0
  BY <1>1
<1>3. CASE n >= 0
  BY <1>1, <1>2, <1>3 DEF EncodeFunc
<1>4. CASE n < 0
  <2>1. n % Word = n + Word
    BY <1>1, <1>2, <1>4
  <2> QED  BY <1>1, <1>2, <1>4, <2>1 DEF EncodeFunc
<1> QED  BY <1>3, <1>4

-----------------------------------------------------------------------------
(* The numbers of the handler *)

Float == [kind: {"finite", "infinite", "nan"}, n: Int]

LEMMA Conversions ==
    ASSUME StreamAssumption, NEW x \in Float
    PROVE  /\ ToInt64(x) \in Int /\ InInt64(ToInt64(x))
           /\ x.kind = "finite" /\ InInt64(x.n) => ToInt64(x) = x.n
           /\ platform = "amd64" /\ ~(x.kind = "finite" /\ InInt64(x.n)) => ToInt64(x) = -Bound64
<1>1. Bound64 \in Nat /\ Bound64 > 0 /\ x.n \in Int
  BY DEF StreamAssumption, Float
<1> QED  BY <1>1 DEF ToInt64, Outside, InInt64

LEMMA Totals ==
    ASSUME StreamAssumption, NEW duration \in DOMAIN DaysIn, NEW period \in ParseFloat(Periods)
    PROVE  /\ GetTotalSeconds(duration, period) \in Float
           /\ GetTotalSeconds(duration, period).kind = period.kind
           /\ Length(duration, period) \in Nat
           /\ period.kind = "finite" =>
                  Abs(GetTotalSeconds(duration, period).n) = Length(duration, period)
<1> DEFINE days == DaysIn[duration]
<1>1. days \in Nat
  BY DEF DaysIn
<1>2. SecondsPerDay \in Nat /\ Periods \subseteq Int
  BY DEF StreamAssumption
<1>3. days * SecondsPerDay \in Nat
  BY <1>1, <1>2, Products
<1> HIDE DEF days
<1>4. CASE period \in Spoken
  BY <1>4 DEF Spoken, Infinity, NaN, GetTotalSeconds, Float, Length
<1>5. ASSUME NEW n \in Periods, period = Finite(n)
      PROVE  /\ GetTotalSeconds(duration, period) \in Float
             /\ GetTotalSeconds(duration, period).kind = period.kind
             /\ Length(duration, period) \in Nat
             /\ Abs(GetTotalSeconds(duration, period).n) = Length(duration, period)
  <2>1. n \in Int /\ period.kind = "finite" /\ period.n = n
    BY <1>2, <1>5 DEF Finite
  <2>2. GetTotalSeconds(duration, period) = [kind |-> "finite", n |-> n * days * SecondsPerDay]
    BY <1>5 DEF Finite, GetTotalSeconds, days
  <2>3. Length(duration, period) = Abs(n) * days * SecondsPerDay
    BY <2>1 DEF Length, days
  <2>4. /\ n * days * SecondsPerDay = n * (days * SecondsPerDay)
        /\ Abs(n) * days * SecondsPerDay = Abs(n) * (days * SecondsPerDay)
        /\ Abs(n) \in Nat
    BY <1>1, <1>2, <2>1 DEF Abs
  <2> DEFINE k == days * SecondsPerDay
  <2>5. k \in Nat
    BY <1>3
  <2> HIDE DEF k
  <2>6. n * k \in Int /\ Abs(n) * k \in Nat /\ Abs(n * k) = Abs(n) * k
    BY <2>1, <2>5 DEF Abs
  <2>7. Abs(n * days * SecondsPerDay) = Abs(n) * days * SecondsPerDay
        /\ n * days * SecondsPerDay \in Int /\ Abs(n) * days * SecondsPerDay \in Nat
    BY <2>4, <2>6 DEF k
  <2> QED  BY <2>1, <2>2, <2>3, <2>7 DEF Float
<1> QED  BY <1>4, <1>5 DEF ParseFloat, Spoken, Infinity, NaN

LEMMA Amounts64 ==
    ASSUME StreamAssumption, NEW amount \in ParseFloat(Amounts), NEW digits \in Printed(amount)
    PROVE  amount \in Float /\ digits \in Int
<1>1. Amounts \subseteq Int /\ Fine \in Nat \ {0}
  BY DEF StreamAssumption
<1>2. amount \in Float
  BY <1>1 DEF ParseFloat, Finite, Spoken, Infinity, NaN, Float
<1>3. amount.n \div Fine \in Int
  BY <1>1, <1>2 DEF Float
<1> QED  BY <1>2, <1>3 DEF Printed

(* A rate that fits and is not negative pays the amount in the period, but  *)
(* for a unit a second.                                                     *)
LEMMA RateBounds ==
    ASSUME StreamAssumption,
           NEW amount \in ParseFloat(Amounts), NEW period \in ParseFloat(Periods),
           NEW duration \in DOMAIN DaysIn
    PROVE  LET rate == AmountPerSec(amount, GetTotalSeconds(duration, period))
               a == Amount(amount, period)
               length == Length(duration, period)
           IN  /\ rate \in Float
               /\ a \in Nat
               /\ rate.kind = "finite" => amount.kind = "finite"
               /\ rate.kind = "finite" /\ rate.n >= 0 =>
                      /\ rate.n * length <= a * RateScale
                      /\ a * RateScale <= rate.n * length + length
<1> DEFINE total == GetTotalSeconds(duration, period)
           rate == AmountPerSec(amount, total)
           a == Amount(amount, period)
           length == Length(duration, period)
<1>1. /\ total \in Float /\ length \in Nat /\ total.kind = period.kind
      /\ period.kind = "finite" => Abs(total.n) = length
  BY Totals
<1>2. amount \in Float /\ RateScale \in Nat \ {0}
  BY RateScaleIsPositive DEF StreamAssumption, ParseFloat, Finite, Spoken, Infinity, NaN, Float
<1>3. a \in Nat
  BY <1>2 DEF Amount, Abs, Float
<1> HIDE DEF total, length
<1>4. CASE amount.kind = "finite" /\ total.kind = "finite" /\ total.n # 0
  <2> DEFINE m == Sign(total.n) * amount.n * RateScale
             s == Abs(total.n)
  <2>1. amount.n \in Int /\ total.n \in Int
    BY <1>1, <1>2 DEF Float
  <2>2. s \in Nat \ {0} /\ s = length /\ a = Abs(amount.n)
    BY <1>1, <1>4, <2>1 DEF Abs, Amount
  <2>3. m \in Int /\ Abs(m) = Abs(amount.n) * RateScale
    <3>1. CASE total.n < 0
      <4>1. m = -(amount.n * RateScale)
        BY <1>2, <2>1, <3>1 DEF Sign
      <4> QED  BY <1>2, <2>1, <4>1 DEF Abs
    <3>2. CASE total.n >= 0
      <4>1. m = amount.n * RateScale
        BY <1>2, <2>1, <3>2 DEF Sign
      <4> QED  BY <1>2, <2>1, <4>1 DEF Abs
    <3> QED  BY <2>1, <3>1, <3>2
  <2>4. rate = Finite(Truncated(m, s))
    BY <1>4 DEF AmountPerSec
  <2> HIDE DEF m, s
  <2>5. rate.kind = "finite" /\ rate.n = Truncated(m, s)
    BY <2>4 DEF Finite
  <2> HIDE DEF rate, a
  <2>6. /\ rate.n \in Int
        /\ rate.n >= 0 => /\ rate.n * s <= Abs(m)
                          /\ Abs(m) < rate.n * s + s
    BY <2>2, <2>3, <2>5, TruncatedFromBelow
  <2>7. rate \in Float
    BY <2>4, <2>5, <2>6 DEF Finite, Float
  <2>8. rate.n >= 0 => /\ rate.n * length <= a * RateScale
                       /\ a * RateScale <= rate.n * length + length
    <3>1. Abs(m) = a * RateScale /\ Abs(m) \in Int /\ rate.n * s \in Int
      BY <2>2, <2>3, <2>6 DEF Abs
    <3> QED  BY <2>2, <2>6, <3>1
  <2> QED  BY <1>3, <1>4, <2>7, <2>8 DEF rate, a, total, length
<1>5. CASE amount.kind = "finite" /\ total.kind = "infinite"
  <2>1. rate = Finite(0) /\ a = 0 /\ length = 0
    BY <1>1, <1>5 DEF AmountPerSec, Amount, Length, length
  <2> QED  BY <1>2, <1>3, <1>5, <2>1 DEF Finite, Float, total, length
<1>6. CASE ~(amount.kind = "finite" /\ total.kind = "finite" /\ total.n # 0)
           /\ ~(amount.kind = "finite" /\ total.kind = "infinite")
  <2>1. rate = Infinity(Sign(amount.n) * Sign(total.n)) \/ rate = NaN
    BY <1>6 DEF AmountPerSec
  <2>2. Sign(amount.n) * Sign(total.n) \in Int
    BY DEF Sign
  <2> QED  BY <1>3, <2>1, <2>2 DEF Infinity, NaN, Float, total, length
<1> QED  BY <1>4, <1>5, <1>6

(* A deposit that fits and is not negative covers the amount, but for half  *)
(* a printed digit and a unit of the token.                                 *)
LEMMA ValueBounds ==
    ASSUME StreamAssumption, NEW t \in Tokens,
           NEW amount \in ParseFloat(Amounts), NEW period \in ParseFloat(Periods),
           NEW digits \in Printed(amount)
    PROVE  LET value == SerializeBalance(t, digits)
           IN  /\ value \in Float /\ value.kind = "finite"
               /\ amount.kind = "finite" /\ value.n >= 0 =>
                      2 * (Up[t] * Amount(amount, period)) <=
                          Fine * (2 * (Down[t] * (value.n + 1)) + Up[t])
<1> DEFINE p == digits * Up[t]
           v == Truncated(p, Down[t])
           a == Amount(amount, period)
<1>1. amount \in Float /\ digits \in Int
  BY Amounts64
<1>2. Up[t] \in Nat \ {0} /\ Down[t] \in Nat \ {0} /\ Fine \in Nat \ {0}
  BY DEF StreamAssumption
<1>3. p \in Int /\ Abs(p) = Abs(digits) * Up[t] /\ Abs(digits) \in Nat
  BY <1>1, <1>2 DEF Abs
<1> HIDE DEF p
<1>4. /\ v \in Int
      /\ v >= 0 => Abs(p) < v * Down[t] + Down[t]
  BY <1>2, <1>3, TruncatedFromBelow
<1>5. SerializeBalance(t, digits) = Finite(v)
  BY DEF SerializeBalance, p
<1> HIDE DEF v
<1>6. ASSUME amount.kind = "finite", v >= 0
      PROVE  2 * (Up[t] * a) <= Fine * (2 * (Down[t] * (v + 1)) + Up[t])
  <2>1. amount.n \in Int /\ 2 * Abs(digits * Fine - amount.n) <= Fine
    BY <1>1, <1>6 DEF Float, Printed
  <2>2. a \in Nat /\ a <= Abs(amount.n)
    BY <2>1 DEF Amount, Abs
  <2>3. 2 * a <= 2 * (Abs(digits) * Fine) + Fine
    <3>1. digits * Fine \in Int /\ Abs(digits * Fine) = Abs(digits) * Fine
      BY <1>1, <1>2 DEF Abs
    <3>2. Abs(amount.n) <= Abs(digits * Fine) + Abs(digits * Fine - amount.n)
      BY <2>1, <3>1 DEF Abs
    <3>3. Abs(digits) * Fine \in Int /\ Abs(digits * Fine - amount.n) \in Int /\ Abs(amount.n) \in Int
      BY <2>1, <3>1 DEF Abs
    <3> QED  BY <1>2, <2>1, <2>2, <3>1, <3>2, <3>3
  <2> DEFINE q == Abs(digits)
             u == Up[t]
             d == Down[t]
  <2>4. q \in Nat /\ u \in Nat /\ d \in Nat /\ q * u < v * d + d
    BY <1>2, <1>3, <1>4, <1>6
  <2> HIDE DEF q, u, d, a
  <2>5. u * (2 * a) <= u * (2 * (q * Fine) + Fine)
    <3>1. 2 * a \in Int /\ 2 * (q * Fine) + Fine \in Int
      BY <1>2, <2>2, <2>4
    <3> QED  BY <2>3, <2>4, <3>1, Monotone DEF q
  <2>6. u * (2 * (q * Fine) + Fine) = Fine * (2 * (q * u) + u)
    BY <1>2, <2>4
  <2>7. Fine * (2 * (q * u) + u) <= Fine * (2 * (d * (v + 1)) + u)
    <3>1. d * (v + 1) = v * d + d /\ v * d + d \in Int /\ q * u \in Int
      BY <1>4, <2>4
    <3>2. 2 * (q * u) + u <= 2 * (d * (v + 1)) + u
      BY <2>4, <3>1
    <3>3. 2 * (q * u) + u \in Int /\ 2 * (d * (v + 1)) + u \in Int
      BY <2>4, <3>1
    <3> QED  BY <1>2, <3>2, <3>3, Monotone
  <2>8. u * (2 * a) = 2 * (u * a)
    BY <2>2, <2>4
  <2>9. /\ 2 * (u * a) \in Int
        /\ Fine * (2 * (q * u) + u) \in Int
        /\ Fine * (2 * (d * (v + 1)) + u) \in Int
    BY <1>2, <1>4, <2>2, <2>4
  <2> QED  BY <2>5, <2>6, <2>7, <2>8, <2>9 DEF u, d, a
<1>7. Finite(v) \in Float /\ Finite(v).kind = "finite" /\ Finite(v).n = v
  BY <1>4 DEF Finite, Float
<1> QED  BY <1>5, <1>6, <1>7

-----------------------------------------------------------------------------
(* The batches that are handed out *)

(* What LlamaPay would execute pays what is named and deposits enough for   *)
(* it, or has numbers that did not fit; on amd64 it does not execute those. *)
Sound(b) ==
    LET c == b.calls
        t == c.token
        accepted == c.rate < Bound216 /\ c.deposit < Word - Bound64
    IN  /\ b \in Batch
        /\ c.approve = c.deposit
        /\ c.fits /\ accepted =>
               /\ c.rate * b.length <= b.amount * RateScale
               /\ b.amount * RateScale <= c.rate * b.length + b.length
               /\ 2 * (Up[t] * b.amount) <= Fine * (2 * (Down[t] * (c.deposit + 1)) + Up[t])
        /\ platform = "amd64" /\ ~c.fits => ~accepted

LEMMA BatchesAreSound ==
    ASSUME StreamAssumption, NEW t \in Tokens,
           NEW amount \in ParseFloat(Amounts), NEW period \in ParseFloat(Periods),
           NEW duration \in DOMAIN DaysIn, NEW digits \in Printed(amount)
    PROVE  Sound([calls |-> CreateStream(t, amount, GetTotalSeconds(duration, period), digits),
                  amount |-> Amount(amount, period), length |-> Length(duration, period)])
<1> DEFINE total == GetTotalSeconds(duration, period)
           value == SerializeBalance(t, digits)
           rate == AmountPerSec(amount, total)
           a == Amount(amount, period)
           length == Length(duration, period)
           v == ToInt64(value)
           r == ToInt64(rate)
           calls == [token |-> t, approve |-> EncodeFunc(v), deposit |-> EncodeFunc(v),
                     rate |-> EncodeFunc(r), fits |-> Fits(value, rate)]
           b == [calls |-> calls, amount |-> a, length |-> length]
<1>1. CreateStream(t, amount, total, digits) = calls
  BY DEF CreateStream, GetApprove, GetDeposit, GetCreateStream
<1>2. /\ rate \in Float /\ a \in Nat
      /\ rate.kind = "finite" => amount.kind = "finite"
      /\ rate.kind = "finite" /\ rate.n >= 0 =>
             /\ rate.n * length <= a * RateScale
             /\ a * RateScale <= rate.n * length + length
  BY RateBounds
<1>3. /\ value \in Float /\ value.kind = "finite"
      /\ amount.kind = "finite" /\ value.n >= 0 =>
             2 * (Up[t] * a) <= Fine * (2 * (Down[t] * (value.n + 1)) + Up[t])
  BY ValueBounds
<1>4. length \in Nat
  BY Totals
<1> HIDE DEF total, value, rate, a, length
<1>5. /\ v \in Int /\ InInt64(v) /\ (InInt64(value.n) => v = value.n)
      /\ platform = "amd64" /\ ~InInt64(value.n) => v = -Bound64
  BY <1>3, Conversions
<1>6. /\ r \in Int /\ InInt64(r) /\ (rate.kind = "finite" /\ InInt64(rate.n) => r = rate.n)
      /\ platform = "amd64" /\ ~(rate.kind = "finite" /\ InInt64(rate.n)) => r = -Bound64
  BY <1>2, Conversions
<1> HIDE DEF v, r
<1>7. /\ EncodeFunc(v) \in 0 .. Word - 1 /\ EncodeFunc(r) \in 0 .. Word - 1
      /\ (v >= 0 => EncodeFunc(v) = v) /\ (v < 0 => EncodeFunc(v) = v + Word)
      /\ (r >= 0 => EncodeFunc(r) = r) /\ (r < 0 => EncodeFunc(r) = r + Word)
  BY <1>5, <1>6, Words
<1>8. /\ Bound64 \in Nat /\ Bound64 > 0 /\ Bound216 \in Nat /\ Word \in Nat
      /\ Bound216 + Bound64 <= Word
  BY DEF StreamAssumption
<1> DEFINE accepted == EncodeFunc(r) < Bound216 /\ EncodeFunc(v) < Word - Bound64
<1>9. b \in Batch
  <2>1. Fits(value, rate) \in BOOLEAN
    BY DEF Fits
  <2>2. calls \in Calls
    BY <1>7, <2>1 DEF Calls
  <2> QED  BY <1>2, <1>4, <2>2 DEF Batch
<1>10. ASSUME accepted
       PROVE  r >= 0 /\ v >= 0
  BY <1>5, <1>6, <1>7, <1>8, <1>10 DEF InInt64
<1>11. ASSUME Fits(value, rate), accepted
       PROVE  /\ EncodeFunc(r) * length <= a * RateScale
              /\ a * RateScale <= EncodeFunc(r) * length + length
              /\ 2 * (Up[t] * a) <= Fine * (2 * (Down[t] * (EncodeFunc(v) + 1)) + Up[t])
  <2>1. /\ rate.kind = "finite" /\ r = rate.n /\ v = value.n
    BY <1>5, <1>6, <1>11 DEF Fits
  <2>2. EncodeFunc(r) = rate.n /\ EncodeFunc(v) = value.n /\ rate.n >= 0 /\ value.n >= 0
    BY <1>7, <1>10, <1>11, <2>1
  <2> QED  BY <1>2, <1>3, <2>1, <2>2
<1>12. ASSUME platform = "amd64", ~Fits(value, rate)
       PROVE  ~accepted
  <2>1. v = -Bound64 \/ r = -Bound64
    BY <1>5, <1>6, <1>12 DEF Fits
  <2> QED  BY <1>8, <1>10, <2>1
<1> HIDE DEF accepted
<1>13. Sound(b)
  BY <1>9, <1>11, <1>12 DEF Sound, accepted
<1> QED  BY <1>1, <1>13 DEF total, a, length

-----------------------------------------------------------------------------
(* The inductive invariant *)

(* FundedForATenth and PaysTenfold, at the scale that the rates are made by.*)
CoveredAtRateScale ==
    \A t \in Tokens \ unfit :
        2 * Up[t] * owed[t] <=
            RateScale * Fine * (2 * Down[t] * (deposited[t] + batches[t]) + Up[t] * batches[t])

NamedAtRateScale ==
    \A t \in Tokens \ unfit :
        /\ owed[t] <= named[t] * RateScale
        /\ named[t] * RateScale <= owed[t] + seconds[t]

StreamInv ==
    /\ TypeOK
    /\ \A b \in prepared : Sound(b)
    /\ NoAllowanceLeft
    /\ UnfitIsRefused
    /\ CoveredAtRateScale
    /\ NamedAtRateScale

LEMMA InitStreams == ASSUME StreamAssumption, Init PROVE StreamInv
<1>1. TypeOK
  BY DEF Init, TypeOK, StreamAssumption
<1>2. CoveredAtRateScale /\ NamedAtRateScale
  <2> SUFFICES ASSUME NEW t \in Tokens
               PROVE  /\ 2 * Up[t] * owed[t] <=
                             RateScale * Fine * (2 * Down[t] * (deposited[t] + batches[t])
                                                 + Up[t] * batches[t])
                      /\ owed[t] <= named[t] * RateScale
                      /\ named[t] * RateScale <= owed[t] + seconds[t]
    BY DEF CoveredAtRateScale, NamedAtRateScale
  <2>1. Up[t] \in Nat /\ Down[t] \in Nat /\ RateScale \in Nat /\ Fine \in Nat
    BY RateScaleIsPositive DEF StreamAssumption
  <2>2. owed[t] = 0 /\ named[t] = 0 /\ seconds[t] = 0 /\ deposited[t] = 0 /\ batches[t] = 0
    BY DEF Init
  <2>3. RateScale * Fine \in Nat
    BY <2>1
  <2> QED  BY <2>1, <2>2, <2>3
<1> QED  BY <1>1, <1>2 DEF Init, StreamInv, NoAllowanceLeft, UnfitIsRefused

(* A sound batch is handed out; the sums stay.                              *)
LEMMA NextHandOut ==
    ASSUME StreamAssumption, StreamInv, NEW t \in Tokens,
           NEW amount \in ParseFloat(Amounts), NEW period \in ParseFloat(Periods),
           NEW duration \in DOMAIN DaysIn, HandOut(t, amount, period, duration)
    PROVE  StreamInv'
<1>1. PICK digits \in Printed(amount) :
          prepared' = prepared \cup
              {[calls |-> CreateStream(t, amount, GetTotalSeconds(duration, period), digits),
                amount |-> Amount(amount, period), length |-> Length(duration, period)]}
  BY DEF HandOut
<1>2. UNCHANGED <<platform, funds, allowance, deposited, batches, named, seconds, owed, unfit>>
  BY DEF HandOut, sums
<1>3. \A b \in prepared' : Sound(b)
  BY <1>1, BatchesAreSound DEF StreamInv
<1>4. (\A b \in prepared : Sound(b))'
  BY <1>2, <1>3 DEF Sound
<1>5. TypeOK'
  <2>1. prepared' \subseteq Batch
    BY <1>3 DEF Sound
  <2>2. links' \in Nat
    BY DEF HandOut, StreamInv, TypeOK
  <2> QED  BY <1>2, <2>1, <2>2 DEF StreamInv, TypeOK
<1>6. NoAllowanceLeft' /\ UnfitIsRefused' /\ CoveredAtRateScale' /\ NamedAtRateScale'
  BY <1>2 DEF StreamInv, NoAllowanceLeft, UnfitIsRefused, CoveredAtRateScale, NamedAtRateScale
<1> QED  BY <1>4, <1>5, <1>6 DEF StreamInv

(* What one more batch adds to the sums.                                    *)
LEMMA OneMoreBatch ==
    ASSUME NEW u \in Nat, NEW d \in Nat, NEW scale \in Nat, NEW fine \in Nat,
           NEW o \in Nat, NEW dep \in Nat, NEW k \in Nat,
           2 * u * o <= scale * fine * (2 * d * (dep + k) + u * k),
           NEW paid \in Nat, NEW a \in Nat, NEW taken \in Nat,
           paid <= a * scale,
           2 * (u * a) <= fine * (2 * (d * (taken + 1)) + u)
    PROVE  2 * u * (o + paid) <= scale * fine * (2 * d * ((dep + taken) + (k + 1)) + u * (k + 1))
<1> DEFINE before == 2 * d * (dep + k) + u * k
           more == 2 * (d * (taken + 1)) + u
<1>1. before \in Nat /\ more \in Nat
  <2>1. 2 * d * (dep + k) \in Nat /\ u * k \in Nat /\ d * (taken + 1) \in Nat
    BY Products
  <2> QED  BY <2>1
<1>2. 2 * d * ((dep + taken) + (k + 1)) + u * (k + 1) = before + more
  OBVIOUS
<1> HIDE DEF before, more
<1>3. scale * fine * (before + more) = scale * fine * before + scale * (fine * more)
  BY <1>1
<1>4. 2 * u * (o + paid) = 2 * u * o + (2 * u) * paid
  OBVIOUS
<1>5. (2 * u) * paid <= (2 * u) * (a * scale)
  BY Monotone
<1>6. (2 * u) * (a * scale) = scale * (2 * (u * a))
  OBVIOUS
<1>7. scale * (2 * (u * a)) <= scale * (fine * more)
  <2>1. 2 * (u * a) \in Int /\ fine * more \in Int /\ 2 * (u * a) <= fine * more
    BY <1>1 DEF more
  <2> QED  BY <2>1, Monotone
<1>8. 2 * u * o <= scale * fine * before
  BY DEF before
<1>9. /\ 2 * u * o \in Int /\ (2 * u) * paid \in Int /\ (2 * u) * (a * scale) \in Int
      /\ scale * (2 * (u * a)) \in Int /\ scale * (fine * more) \in Int
      /\ scale * fine * before \in Int
  BY <1>1
<1>10. 2 * u * (o + paid) <= scale * fine * (before + more)
  BY <1>3, <1>4, <1>5, <1>6, <1>7, <1>8, <1>9
<1> QED  BY <1>2, <1>10

(* A batch that is executed was sound, and adds what it names.              *)
LEMMA NextExecute ==
    ASSUME StreamAssumption, StreamInv, NEW b \in prepared, Execute(b)
    PROVE  StreamInv'
<1> DEFINE c == b.calls
           t == c.token
           paid == c.rate * b.length
<1>1. /\ Sound(b) /\ b \in Batch /\ c \in Calls /\ t \in Tokens
      /\ c.rate \in Nat /\ c.deposit \in Nat /\ c.approve \in Nat
      /\ b.amount \in Nat /\ b.length \in Nat
  <2>1. Sound(b) /\ b \in Batch
    BY DEF StreamInv, Sound
  <2>2. c \in Calls /\ b.amount \in Nat /\ b.length \in Nat
    BY <2>1 DEF Batch
  <2>3. Word \in Nat
    BY DEF StreamAssumption
  <2> QED  BY <2>1, <2>2, <2>3 DEF Calls
<1>2. /\ funds \in [Tokens -> Nat] /\ deposited \in [Tokens -> Nat]
      /\ allowance \in [Tokens -> Nat] /\ batches \in [Tokens -> Nat]
      /\ named \in [Tokens -> Nat] /\ seconds \in [Tokens -> Nat] /\ owed \in [Tokens -> Nat]
      /\ \A x \in Tokens : funds[x] + deposited[x] = Supply[x]
      /\ Supply \in [Tokens -> Nat]
  BY DEF StreamInv, TypeOK, StreamAssumption
<1>3. /\ c.deposit <= funds[t] /\ c.rate < Bound216 /\ c.approve = c.deposit
      /\ funds' = [funds EXCEPT ![t] = @ - c.deposit]
      /\ allowance' = [allowance EXCEPT ![t] = c.approve - c.deposit]
      /\ deposited' = [deposited EXCEPT ![t] = @ + c.deposit]
      /\ batches' = [batches EXCEPT ![t] = @ + 1]
      /\ named' = [named EXCEPT ![t] = @ + b.amount]
      /\ seconds' = [seconds EXCEPT ![t] = @ + b.length]
      /\ owed' = [owed EXCEPT ![t] = @ + paid]
      /\ unfit' = unfit \cup (IF c.fits THEN {} ELSE {t})
      /\ platform' = platform /\ prepared' = prepared /\ links' = links
  BY <1>1 DEF Execute, Sound
<1>4. c.rate < Bound216 /\ c.deposit < Word - Bound64
  <2>1. funds[t] <= Supply[t] /\ funds[t] \in Nat /\ Supply[t] \in Nat
    BY <1>1, <1>2
  <2>2. Supply[t] < Word - Bound64 /\ Word \in Nat /\ Bound64 \in Nat
    BY <1>1 DEF StreamAssumption
  <2> QED  BY <1>1, <1>3, <2>1, <2>2
<1>5. paid \in Nat
  BY <1>1, Products
<1>6. c.fits =>
          /\ paid <= b.amount * RateScale
          /\ b.amount * RateScale <= paid + b.length
          /\ 2 * (Up[t] * b.amount) <= Fine * (2 * (Down[t] * (c.deposit + 1)) + Up[t])
  BY <1>1, <1>4 DEF Sound
<1>7. platform = "amd64" => c.fits
  BY <1>1, <1>4 DEF Sound
<1> HIDE DEF c, t, paid
<1>8. TypeOK'
  <2>1. \A x \in Tokens : funds'[x] + deposited'[x] = Supply[x]
    BY <1>1, <1>2, <1>3
  <2>2. /\ funds' \in [Tokens -> Nat] /\ deposited' \in [Tokens -> Nat]
        /\ allowance' \in [Tokens -> Nat] /\ batches' \in [Tokens -> Nat]
        /\ named' \in [Tokens -> Nat] /\ seconds' \in [Tokens -> Nat] /\ owed' \in [Tokens -> Nat]
    BY <1>1, <1>2, <1>3, <1>5
  <2>3. unfit' \subseteq Tokens
    BY <1>1, <1>3 DEF StreamInv, TypeOK
  <2> QED  BY <1>3, <2>1, <2>2, <2>3 DEF StreamInv, TypeOK
<1>9. (\A x \in prepared : Sound(x))'
  BY <1>3 DEF StreamInv, Sound
<1>10. NoAllowanceLeft'
  BY <1>1, <1>2, <1>3 DEF StreamInv, NoAllowanceLeft
<1>11. UnfitIsRefused'
  BY <1>3, <1>7 DEF StreamInv, UnfitIsRefused
<1>12. ASSUME NEW x \in Tokens \ unfit'
       PROVE  /\ 2 * Up[x] * owed'[x] <=
                     RateScale * Fine * (2 * Down[x] * (deposited'[x] + batches'[x])
                                         + Up[x] * batches'[x])
              /\ owed'[x] <= named'[x] * RateScale
              /\ named'[x] * RateScale <= owed'[x] + seconds'[x]
  <2>1. /\ 2 * Up[x] * owed[x] <=
               RateScale * Fine * (2 * Down[x] * (deposited[x] + batches[x]) + Up[x] * batches[x])
        /\ owed[x] <= named[x] * RateScale
        /\ named[x] * RateScale <= owed[x] + seconds[x]
    BY <1>3 DEF StreamInv, CoveredAtRateScale, NamedAtRateScale
  <2>2. /\ Up[x] \in Nat /\ Down[x] \in Nat /\ RateScale \in Nat /\ Fine \in Nat
    BY RateScaleIsPositive DEF StreamAssumption
  <2>3. CASE x # t
    BY <1>1, <1>2, <1>3, <2>1, <2>3
  <2>4. CASE x = t
    <3>1. c.fits
      BY <1>3, <2>4
    <3>2. /\ owed'[x] = owed[x] + paid
          /\ deposited'[x] = deposited[x] + c.deposit
          /\ batches'[x] = batches[x] + 1
          /\ named'[x] = named[x] + b.amount
          /\ seconds'[x] = seconds[x] + b.length
      BY <1>1, <1>2, <1>3, <2>4
    <3>3. /\ owed[x] \in Nat /\ deposited[x] \in Nat /\ batches[x] \in Nat
          /\ named[x] \in Nat /\ seconds[x] \in Nat
      BY <1>2
    <3>4. 2 * Up[x] * (owed[x] + paid) <=
              RateScale * Fine * (2 * Down[x] * ((deposited[x] + c.deposit) + (batches[x] + 1))
                                  + Up[x] * (batches[x] + 1))
      BY <1>1, <1>5, <1>6, <2>1, <2>2, <2>4, <3>1, <3>3, OneMoreBatch
    <3>5. (named[x] + b.amount) * RateScale = named[x] * RateScale + b.amount * RateScale
      BY <1>1, <2>2, <3>3
    <3>6. named[x] * RateScale \in Nat /\ b.amount * RateScale \in Nat
      BY <1>1, <2>2, <3>3, Products
    <3> QED  BY <1>1, <1>5, <1>6, <2>1, <3>1, <3>2, <3>3, <3>4, <3>5, <3>6
  <2> QED  BY <2>3, <2>4
<1>13. CoveredAtRateScale' /\ NamedAtRateScale'
  BY <1>12 DEF CoveredAtRateScale, NamedAtRateScale
<1> QED  BY <1>8, <1>9, <1>10, <1>11, <1>13 DEF StreamInv

LEMMA NextStreams == ASSUME StreamAssumption, StreamInv, [Next]_vars PROVE StreamInv'
<1>1. CASE Stream
  BY <1>1, NextHandOut DEF Stream
<1>2. CASE GetEncodedApproveDepositCreateStream
  BY <1>2, NextHandOut DEF GetEncodedApproveDepositCreateStream, ParseFloat
<1>3. ASSUME NEW b \in prepared, Execute(b)
      PROVE  StreamInv'
  BY <1>3, NextExecute
<1>4. CASE UNCHANGED vars
  <2>1. UNCHANGED <<platform, prepared, links, funds, allowance, deposited,
                    batches, named, seconds, owed, unfit>>
    BY <1>4 DEF vars, sums
  <2> QED  BY <2>1 DEF StreamInv, TypeOK, Sound, NoAllowanceLeft, UnfitIsRefused, CoveredAtRateScale,
                       NamedAtRateScale
<1> QED  BY <1>1, <1>2, <1>3, <1>4 DEF Next

LEMMA StreamInvariant == Spec => []StreamInv
<1>1. Init => StreamInv
  BY StreamAssumption, InitStreams
<1>2. StreamInv /\ [Next]_vars => StreamInv'
  BY StreamAssumption, NextStreams
<1> QED  BY <1>1, <1>2, PTL DEF Spec

-----------------------------------------------------------------------------
(* The numbers are words, and the Safe and LlamaPay share the supply.       *)
THEOREM StreamTypes == Spec => []TypeOK
<1>1. StreamInv => TypeOK
  BY DEF StreamInv
<1> QED  BY <1>1, StreamInvariant, PTL

(* A rate unit of the code is ten of LlamaPay's.                            *)
LEMMA Tenfold ==
    ASSUME StreamAssumption, NEW n \in Nat, NEW m \in Nat
    PROVE  /\ n * RateScale = 10 * (n * PayScale)
           /\ RateScale * Fine * m = 10 * (PayScale * Fine * m)
<1>1. PayScale \in Nat /\ Fine \in Nat
  BY DEF StreamAssumption
<1>2. RateScale = 10 * PayScale
  BY DEF RateScale
<1>3. n * (10 * PayScale) = 10 * (n * PayScale)
  BY <1>1
<1>4. (10 * PayScale) * Fine * m = 10 * (PayScale * Fine * m)
  BY <1>1
<1> QED  BY <1>2, <1>3, <1>4

(* What /stream and POST /safe/encode deposit covers what their streams     *)
(* take in a tenth of the periods, for every token and sequence of batches: *)
(* in all of them they take up to ten times as much.                        *)
THEOREM StreamsAreFundedForATenth == Spec => []FundedForATenth
<1>1. StreamInv => FundedForATenth
  <2> SUFFICES ASSUME StreamInv, NEW t \in Tokens \ unfit
               PROVE  2 * Up[t] * owed[t] <= 10 * Cover(t)
    BY DEF FundedForATenth
  <2> DEFINE m == 2 * Down[t] * (deposited[t] + batches[t]) + Up[t] * batches[t]
  <2>1. 2 * Up[t] * owed[t] <= RateScale * Fine * m
    BY DEF StreamInv, CoveredAtRateScale
  <2>2. m \in Nat
    <3>1. Up[t] \in Nat /\ Down[t] \in Nat
      BY StreamAssumption DEF StreamAssumption
    <3>2. deposited[t] \in Nat /\ batches[t] \in Nat
      BY DEF StreamInv, TypeOK
    <3> QED  BY <3>1, <3>2
  <2> HIDE DEF m
  <2>3. RateScale * Fine * m = 10 * (PayScale * Fine * m)
    BY <2>2, Tenfold, StreamAssumption
  <2> QED  BY <2>1, <2>3 DEF Cover, m
<1> QED  BY <1>1, StreamInvariant, PTL

(* Streams pay ten times what the member named in the period he named.      *)
THEOREM StreamsPayTenfold == Spec => []PaysTenfold
<1>1. StreamInv => PaysTenfold
  <2> SUFFICES ASSUME StreamInv, NEW t \in Tokens \ unfit
               PROVE  /\ owed[t] <= 10 * (named[t] * PayScale)
                      /\ 10 * (named[t] * PayScale) <= owed[t] + seconds[t]
    BY DEF PaysTenfold
  <2>1. owed[t] <= named[t] * RateScale /\ named[t] * RateScale <= owed[t] + seconds[t]
    BY DEF StreamInv, NamedAtRateScale
  <2>2. named[t] \in Nat
    BY DEF StreamInv, TypeOK
  <2>3. named[t] * RateScale = 10 * (named[t] * PayScale)
    BY <2>2, Tenfold, StreamAssumption
  <2> QED  BY <2>1, <2>3
<1> QED  BY <1>1, StreamInvariant, PTL

(* Approve and deposit are of one number, whatever became of it.            *)
THEOREM AllowancesAreTaken == Spec => []NoAllowanceLeft
<1>1. StreamInv => NoAllowanceLeft
  BY DEF StreamInv
<1> QED  BY <1>1, StreamInvariant, PTL

(* On amd64, numbers that did not fit are refused by the contracts.         *)
THEOREM UnfitNumbersAreRefused == Spec => []UnfitIsRefused
<1>1. StreamInv => UnfitIsRefused
  BY DEF StreamInv
<1> QED  BY <1>1, StreamInvariant, PTL
=============================================================================
