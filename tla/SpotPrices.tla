------------------------------ MODULE SpotPrices ------------------------------
(* What the optimizer computes from the spot prices of a day (calculations.c *)
(* and consumption_analysis.c). A day has Hours hours of PerHour slots, and  *)
(* its prices are a sequence that may be shorter or longer: one price an     *)
(* hour, a day of 23 or 25 hours, a day of which only a part is stored.      *)
(* Prices are integers, and a quotient is compared by its numerator. Solar   *)
(* gains are left out.                                                       *)
EXTENDS Integers, Sequences, FiniteSetsExt, SequencesExt

CONSTANTS
  Hours,    \* 24
  PerHour,  \* HOURLY: slots of an hour, 4
  Window,   \* PROFILE_WINDOW_BUCKETS
  Near      \* prices that differ by less are taken for equal: 0.0001 SEK

ASSUME PriceConstants ==
  /\ {Hours, PerHour, Window, Near} \subseteq Nat \ {0}
  /\ Window <= Hours * PerHour

Buckets == Hours * PerHour  \* PROFILE_BUCKETS, 96

SumOf(prices, slots) == LET Price(i) == prices[i] IN MapThenSumSet(Price, slots)
Total(prices) == SumOf(prices, DOMAIN prices)

-----------------------------------------------------------------------------
(* calc_results_create: a report has Buckets entries of one slot each, or    *)
(* Hours entries of PerHour slots.                                           *)

Kinds == {"quarterly", "hourly"}
Interval(kind) == IF kind = "quarterly" THEN 1 ELSE PerHour
Count(kind) == Buckets \div Interval(kind)
Entries(kind) == 0..(Count(kind) - 1)

\* "count must not be more than available spots"; the average is of count times
\* interval of them, and reads on behind the last where there are fewer.
Fits(prices, kind) == Count(kind) <= Len(prices)
OverReads(prices) == Len(prices) < Buckets

EntrySum(prices, kind, i) ==
  SumOf(prices, (i * Interval(kind) + 1)..Min({(i + 1) * Interval(kind), Len(prices)}))

\* Mutant: the sum of an entry is taken for its price.
CheapnessOfSum(prices, sum, kind, i) ==
  LET price   == 4 * Buckets * EntrySum(prices, kind, i)
      average == sum
  IN  CASE price > 5 * average -> "expensive"
        [] price <= 5 * average /\ price < 3 * average -> "cheap"
        [] OTHER -> "average"

\* A quarter more, or less, than the average, sum / Buckets; the price of entry
\* i is its sum divided by the number of prices in it. An entry without prices
\* has 0 / 0, which is neither.
Cheapness(prices, sum, kind, i) ==
  LET among   == Min({Interval(kind), Len(prices) - i * Interval(kind)})
      price   == 4 * Buckets * EntrySum(prices, kind, i)
      average == among * sum
  IN  CASE among <= 0 -> "average"
        [] among > 0 /\ price > 5 * average -> "expensive"
        [] among > 0 /\ price <= 5 * average /\ price < 3 * average -> "cheap"
        [] OTHER -> "average"

-----------------------------------------------------------------------------
(* consumption_analysis.c.                                                   *)

\* Mutant: the price of the bucket's end.
SpotAtEnd(prices, bucket) ==
  IF prices = <<>> THEN 0
  ELSE LET index == ((bucket + 1) * Len(prices)) \div Buckets
       IN  prices[IF index >= Len(prices) THEN Len(prices) ELSE index + 1]

\* spot_at_bucket
SpotAtBucket(prices, bucket) ==
  IF prices = <<>> THEN 0
  ELSE LET index == (bucket * Len(prices)) \div Buckets
       IN  prices[IF index >= Len(prices) THEN Len(prices) ELSE index + 1]

\* The score of a window of best_price_window: its prices, which are given in
\* parts of unit, and a hundredth of what is used in it.
Score(prices, unit, trend, start) ==
  LET Bucket(b) == 100 * SpotAtBucket(prices, b) + unit * trend[b]
  IN  MapThenSumSet(Bucket, start..(start + Window - 1))

\* Mutant: the last window is passed over.
BestWindowShort(prices, unit, trend) ==
  LET score == [start \in 0..(Buckets - Window) |-> Score(prices, unit, trend, start)]
      Better(best, start) == IF score[start] < score[best] THEN start ELSE best
  IN  FoldLeft(Better, 0, [i \in 1..(Buckets - Window - 1) |-> i])

\* best_price_window
BestWindow(prices, unit, trend) ==
  LET score == [start \in 0..(Buckets - Window) |-> Score(prices, unit, trend, start)]
      Better(best, start) == IF score[start] < score[best] THEN start ELSE best
  IN  FoldLeft(Better, 0, [i \in 1..(Buckets - Window) |-> i])

NearTop(prices, top, i) == prices[i] - prices[top] \in (1 - Near)..(Near - 1)

\* minmax_price_windows, with slots counted from 0: the first slot with the
\* best price, which is the highest (sign 1) or the lowest (sign -1), and what
\* lies next to it and is near it.
Period(prices, sign) ==
  LET Better(i, j) == sign * prices[i] > sign * prices[j]
      top == CHOOSE i \in DOMAIN prices :
               /\ \A j \in DOMAIN prices : ~Better(j, i)
               /\ \A j \in 1..(i - 1) : Better(i, j)
  IN  [start |-> Min({i \in 1..top : \A j \in i..top : NearTop(prices, top, j)}) - 1,
       end   |-> Max({i \in top..Len(prices) : \A j \in top..i : NearTop(prices, top, j)})]

MaxPeriod(prices) == Period(prices, 1)
MinPeriod(prices) == Period(prices, -1)

-----------------------------------------------------------------------------
(* estimate_tomorrow_spots: today's prices, and those of the same weekday a  *)
(* week and two weeks ago, with their weights (weather_similarity).          *)

Used(history) == {h \in DOMAIN history : history[h] # <<>>}

\* The average of the history, times its weight and what Lengths gives.
Lengths(history) ==
  LET Length(h) == Len(history[h]) IN FoldSet(LAMBDA h, n : Length(h) * n, 1, Used(history))

Level(history, weights) ==
  LET Part(h) == weights[h] * Total(history[h]) * (Lengths(history) \div Len(history[h]))
  IN  MapThenSumSet(Part, Used(history))

\* The price of a slot (from 0) in the history, times its weight.
SlotPrice(history, weights, slot, count) ==
  LET Part(h) == weights[h] * history[h][((slot * Len(history[h])) \div count) + 1]
  IN  MapThenSumSet(Part, Used(history))

\* Mutant: the level of the history is taken without the weights.
EstimateUnweighted(today, history, weights) ==
  LET count == Len(today)
      level == Level(history, [h \in DOMAIN weights |-> 1])
      unit  == 20 * count * level
  IN  [unit |-> unit,
       prices |-> [i \in 1..count |->
          13 * SlotPrice(history, weights, i - 1, count) * Total(today) * Lengths(history)
            + 7 * today[i] * count * level]]

\* The estimate, in parts of unit: 0.65 of the history, brought to today's
\* level if its own is positive, and 0.35 of today.
Estimate(today, history, weights) ==
  LET count  == Len(today)
      level  == Level(history, weights)
      Weight(h) == weights[h]
      weight == MapThenSumSet(Weight, Used(history))
      At(i)  == SlotPrice(history, weights, i - 1, count)
  IN  IF level > 0
      THEN [unit |-> 20 * count * level,
            prices |-> [i \in 1..count |-> 13 * At(i) * Total(today) * Lengths(history)
                                             + 7 * today[i] * count * level]]
      ELSE [unit |-> 20 * weight,
            prices |-> [i \in 1..count |-> 13 * At(i) + 7 * today[i] * weight]]
=============================================================================
