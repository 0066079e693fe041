-------------------------- MODULE LatencyHistogram --------------------------
(***************************************************************************)
(* metrics::LatencyHistogram: samples, and percentiles by the nearest rank *)
(* ceil((p / 100.0) * n), computed in doubles.                             *)
(*                                                                         *)
(* The order of the samples only matters to the sort, so samples is the    *)
(* number of samples of each value.                                        *)
(*                                                                         *)
(* A positive double is [bits |-> b, scale |-> e]: the binary fraction     *)
(* 0.b times 2^e, where b has Precision bits and starts with 1.  Each      *)
(* operation is exact and then rounded to nearest, ties to even, as IEEE   *)
(* 754 prescribes.  Sequences of bits keep every number TLC meets small.   *)
(***************************************************************************)
EXTENDS Integers, Sequences, FiniteSetsExt

CONSTANTS Fast, Slow,   \* two latencies, Fast < Slow
          MaxSamples,   \* bound on the number of samples
          MaxSlow       \* bound on the number of slow ones

ASSUME LatencyAssumption == Fast \in Nat /\ Slow \in Nat /\ Fast < Slow

VARIABLE samples

histogramVars == <<samples>>

Latency == {Fast, Slow}
count(s) == s[Fast] + s[Slow]

Precision == 53  \* of a double
Digit == 8       \* bits that are multiplied or divided together

-----------------------------------------------------------------------------
(***************************************************************************)
(* Doubles.                                                                *)
(***************************************************************************)
Zeros(n) == [k \in 1 .. n |-> 0]

\* The bits of a natural number, most significant first.
Bits(n) == LET len == CHOOSE k \in 0 .. 31 : 2 ^ k > n /\ (k = 0 \/ 2 ^ (k - 1) <= n)
           IN  [k \in 1 .. len |-> (n \div 2 ^ (len - k)) % 2]

\* One more than the number with these bits: there is a 0 among them.
Increment(b) ==
  LET last == Max({k \in DOMAIN b : b[k] = 0})
  IN  [k \in DOMAIN b |-> IF k < last THEN b[k] ELSE IF k = last THEN 1 ELSE 0]

\* The double nearest to 0.b times 2^e; sticky if b has lost a remainder.
Rounded(b, e, sticky) ==
  LET first == Min({k \in DOMAIN b : b[k] = 1})
      long == SubSeq(b, first, Len(b)) \o Zeros(Precision + 1)
      kept == SubSeq(long, 1, Precision)
      more == sticky \/ \E k \in Precision + 2 .. Len(long) : long[k] = 1
      up == long[Precision + 1] = 1 /\ (more \/ kept[Precision] = 1)
      scale == e - first + 1
  IN  IF ~up THEN [bits |-> kept, scale |-> scale]
      ELSE IF \A k \in DOMAIN kept : kept[k] = 1
           THEN [bits |-> <<1>> \o Zeros(Precision - 1), scale |-> scale + 1]
           ELSE [bits |-> Increment(kept), scale |-> scale]

\* The number with these bits; bits in groups of Digit bits, and back.
Number(b) ==
  LET value[k \in 0 .. Len(b)] == IF k = 0 THEN 0 ELSE 2 * value[k - 1] + b[k]
  IN  value[Len(b)]
Digits(b) ==
  LET n == (Len(b) + Digit - 1) \div Digit
      padded == b \o Zeros(n * Digit - Len(b))
  IN  [j \in 1 .. n |-> Number(SubSeq(padded, Digit * (j - 1) + 1, Digit * j))]
BitsOf(digits) ==
  [k \in 1 .. Digit * Len(digits) |->
     (digits[(k - 1) \div Digit + 1] \div 2 ^ (Digit - 1 - ((k - 1) % Digit))) % 2]

\* x / d for a small natural d: long division, one digit a step.
Quotient(x, d) ==
  LET b == Digits(x.bits \o Zeros(Precision))
      division[k \in 0 .. Len(b)] ==
        IF k = 0 THEN [rest |-> 0, digits |-> <<>>]
        ELSE LET before == division[k - 1]
                 n == before.rest * 2 ^ Digit + b[k]
             IN  [rest |-> n % d, digits |-> Append(before.digits, n \div d)]
      q == division[Len(b)]
  IN  Rounded(BitsOf(q.digits), x.scale, q.rest # 0)

\* x * n for a small natural n: multiplication with a carry, from the last digit.
Product(x, n) ==
  LET b == Digits(x.bits)
      multiplication[k \in 1 .. Len(b) + 1] ==
        IF k = Len(b) + 1 THEN [carry |-> 0, digits |-> <<>>]
        ELSE LET after == multiplication[k + 1]
                 m == after.carry + b[k] * n
             IN  [carry |-> m \div 2 ^ Digit, digits |-> <<m % 2 ^ Digit>> \o after.digits]
      p == multiplication[1]
      high == Bits(p.carry)
  IN  Rounded(high \o BitsOf(p.digits), x.scale + Len(high), FALSE)

\* std::ceil of a positive double below 2^31.
Ceil(x) ==
  LET whole == IF x.scale <= 0 THEN 0 ELSE Number(SubSeq(x.bits, 1, x.scale))
      fraction == \E k \in DOMAIN x.bits : k > x.scale /\ x.bits[k] = 1
  IN  IF fraction THEN whole + 1 ELSE whole

\* The double of the decimal literal num / den.
Literal(num, den) ==
  Quotient([bits |-> Bits(num), scale |-> Len(Bits(num))], den)

-----------------------------------------------------------------------------
HistogramInit == samples = [v \in Latency |-> 0]

record(v) ==
  /\ count(samples) < MaxSamples /\ (v = Slow => samples[Slow] < MaxSlow)
  /\ samples' = [samples EXCEPT ![v] = @ + 1]

clear == samples' = [v \in Latency |-> 0]

HistogramNext == (\E v \in Latency : record(v)) \/ clear

HistogramSpec == HistogramInit /\ [][HistogramNext]_histogramVars

min(s) == IF count(s) = 0 THEN 0 ELSE Min({v \in Latency : s[v] > 0})
max(s) == IF count(s) = 0 THEN 0 ELSE Max({v \in Latency : s[v] > 0})

\* sorted[k] of the samples s; NoSample is beyond the end of the vector.
NoSample == -1
sorted(s, k) ==
  CASE k < s[Fast] -> Fast
    [] k >= s[Fast] /\ k < count(s) -> Slow
    [] OTHER -> NoSample

\* p / 100.0, and the rank of p among n samples.
Ratio(num, den) == Quotient(Literal(num, den), 100)

\* The conversion to std::size_t without std::ceil.
rankFloor(ratio, n) ==
  LET x == Product(ratio, n)
  IN  Ceil([x EXCEPT !.bits = [k \in DOMAIN @ |-> IF k > x.scale THEN 0 ELSE @[k]]])
\* The division by 100 is one of integers, before the product.
rankByHundreds(ratio, n) ==
  IF n < 100 THEN 0 ELSE Ceil(Product(ratio, (n \div 100) * 100))
rank(ratio, n) == Ceil(Product(ratio, n))

\* The rank is taken for an index.
indexFromOne(r) == r
index(r) == (IF r = 0 THEN 1 ELSE r) - 1

\* The percentiles the class names, and those its tests ask for besides.
Literals ==
  << <<-10, 1>>, <<0, 1>>, <<25, 1>>, <<50, 1>>, <<75, 1>>, <<95, 1>>, <<99, 1>>, <<999, 10>>,
     <<100, 1>>, <<150, 1>> >>
Clamped(k) == Literals[k][1] <= 0 \/ Literals[k][1] >= 100 * Literals[k][2]
Ratios ==
  [k \in {j \in DOMAIN Literals : ~Clamped(j)} |-> Ratio(Literals[k][1], Literals[k][2])]

\* percentile() of the k-th of them, for the samples s.
percentile(s, k) ==
  IF count(s) = 0 THEN 0
  ELSE IF Literals[k][1] <= 0 THEN min(s)
  ELSE IF Literals[k][1] >= 100 * Literals[k][2] THEN max(s)
  ELSE sorted(s, index(rank(Ratios[k], count(s))))

-----------------------------------------------------------------------------
\* The nearest rank in exact arithmetic, and whether p percent of n is whole.
NearestRank(num, den, n) == (num * n + 100 * den - 1) \div (100 * den)
Whole(num, den, n) == (num * n) % (100 * den) = 0

\* The rank of each percentile among n samples is the nearest, or one more where
\* the exact product is whole and p is no whole number.
NearestRanks(n) ==
  \A k \in DOMAIN Ratios :
    LET num == Literals[k][1]  den == Literals[k][2]
        r == rank(Ratios[k], n)
    IN  \/ r = NearestRank(num, den, n)
        \/ den # 1 /\ Whole(num, den, n) /\ r = NearestRank(num, den, n) + 1

(***************************************************************************)
(* The rank percentile() computes in doubles is the nearest rank of        *)
(* docs/metrics.md, except that it may be one too high where p percent of  *)
(* the samples is a whole number: the product then lies just above it.     *)
(* Of the percentiles here only p999 is exposed, at 1000 and 2000 samples, *)
(* where it selects the 1000th sample instead of the 999th.                *)
(***************************************************************************)
RankIsNearest == count(samples) > 0 => NearestRanks(count(samples))

(***************************************************************************)
(* sorted[index] is never out of range, whatever the rounding: percentiles *)
(* are samples, lie between min() and max(), and do not decrease with p.   *)
(***************************************************************************)
PercentilesOrdered ==
  /\ count(samples) > 0 =>
       \A k \in DOMAIN Literals : \E v \in Latency : samples[v] > 0 /\ percentile(samples, k) = v
  /\ \A k \in 1 .. Len(Literals) - 1 : percentile(samples, k) <= percentile(samples, k + 1)

(***************************************************************************)
(* One more slow sample never lowers a percentile, and one more fast       *)
(* sample never raises one, also where the rounding moves the rank.        *)
(***************************************************************************)
PercentilesFollow ==
  [][\A k \in DOMAIN Literals :
       LET before == percentile(samples, k)
           after == percentile(samples', k)
       IN  /\ samples'[Slow] > samples[Slow] => after >= before
           /\ samples'[Fast] > samples[Fast] /\ count(samples) > 0 => after <= before]_histogramVars

=============================================================================
