------------------------------- MODULE Ageing -------------------------------
(***************************************************************************)
(* From the open bills of a company to the receivables and payables card:  *)
(* ageing.ts on the Bridge (what is uploaded) and ageingCard of the view   *)
(* model (what the owner reads).  Amounts are paise, Dr negative.          *)
(***************************************************************************)
EXTENDS Integers, Sequences, FiniteSets, FiniteSetsExt, SequencesExt

CONSTANTS
  OTHERS_PARTY,            \* the long tail, by a name no party has
  NO_NAME,                 \* the empty party column of a wrong method
  TOP_PARTY_COUNT,         \* parties that keep a row of their own
  CARD_PARTIES,            \* of which the card shows so many
  MAX_PLAUSIBLE_AGE_DAYS,
  BUCKETS                  \* upper limits of the overdue buckets, in days, in order

Sides == {"receivable", "payable"}

\* A bill: [party, days, credit, paise, advance, group].

-----------------------------------------------------------------------------
(* ageing.ts *)

\* An advance belongs on the other side: money received for goods still owed.
classify(bill) ==
  CASE bill.group = "debtor"   -> IF bill.advance THEN "payable" ELSE "receivable"
    [] bill.group = "creditor" -> IF bill.advance THEN "receivable" ELSE "payable"
    [] OTHER                   -> "neither"

\* The age of an undated bill is not an age: no claim is made about it.
plausibleAge(days) == IF days \in 0 .. MAX_PLAUSIBLE_AGE_DAYS THEN days ELSE 0

\* 0 is "not due", the last bucket is open-ended.
bucketFor(bill) ==
  LET overdue == plausibleAge(bill.days) - bill.credit
  IN  IF overdue <= 0 THEN 0 ELSE 1 + Cardinality({i \in DOMAIN BUCKETS : overdue > BUCKETS[i]})

Bucket(bill) == IF bill.advance THEN 0 ELSE bucketFor(bill)

\* The open bills of one side, at their places in the list.
billsForSide(bills, side) ==
  Restrict(bills, {i \in DOMAIN bills : bills[i].paise # 0 /\ classify(bills[i]) = side})

\* Rows without names, or none of whose parties is in a group we know: a method
\* that does not resolve on this Tally, and not a company that is owed nothing.
assertBillsLookSane(bills) ==
  LET named == {i \in DOMAIN bills : bills[i].party # NO_NAME}
  IN  bills # <<>> =>
        /\ named # {}
        /\ 2 * Cardinality(named) >= Len(bills)
        /\ \E i \in DOMAIN bills : bills[i].group # "other"

Magnitude(n) == IF n < 0 THEN -n ELSE n

PaiseOf(bills, I) == MapThenSumSet(LAMBDA i : bills[i].paise, I)

Figure(bills, I) == [paise |-> PaiseOf(bills, I), count |-> Cardinality(I)]

\* Parties by exposure, and by name where that is the same.
KeptParties(bills) ==
  LET parties == {bills[i].party : i \in DOMAIN bills}
      exposure == [p \in parties |->
        MapThenSumSet(LAMBDA i : Magnitude(bills[i].paise), {i \in DOMAIN bills : bills[i].party = p})]
      Before(q, p) == exposure[q] > exposure[p] \/ (exposure[q] = exposure[p] /\ q < p)
  IN  {p \in parties : Cardinality({q \in parties : Before(q, p)}) < TOP_PARTY_COUNT}

\* A mutant: the totals are summed from the parties that are left.
aggregateAgeingTruncated(bills) ==
  LET kept == KeptParties(bills)
      In(b) == {i \in DOMAIN bills : Bucket(bills[i]) = b /\ bills[i].party \in kept}
      buckets == {Bucket(bills[i]) : i \in DOMAIN bills}
      cells == {<<bills[i].party, Bucket(bills[i])>> : i \in {j \in DOMAIN bills : bills[j].party \in kept}}
  IN  [totals |-> [b \in buckets |-> Figure(bills, In(b))],
       rows |-> [cell \in cells |-> Figure(bills, {i \in In(cell[2]) : bills[i].party = cell[1]})]]

\* Totals over every bill, before the long tail is folded into OTHERS_PARTY.
aggregateAgeing(bills) ==
  LET kept == KeptParties(bills)
      Shown(i) == IF bills[i].party \in kept THEN bills[i].party ELSE OTHERS_PARTY
      In(b) == {i \in DOMAIN bills : Bucket(bills[i]) = b}
      buckets == {Bucket(bills[i]) : i \in DOMAIN bills}
      cells == {<<Shown(i), Bucket(bills[i])>> : i \in DOMAIN bills}
  IN  [totals |-> [b \in buckets |-> Figure(bills, In(b))],
       rows |-> [cell \in cells |-> Figure(bills, {i \in In(cell[2]) : Shown(i) = cell[1]})]]

-----------------------------------------------------------------------------
(* ageingCard: the headline from the totals, never from the rows. *)

Flip(side) == IF side = "receivable" THEN -1 ELSE 1

\* An advance must not launder an overdue debt into a green card: without a
\* positive book the overdue amount is judged alone.
Tone(total, overdue) ==
  CASE total > 0 /\ 2 * overdue > total -> "bad"
    [] total > 0 /\ 5 * overdue > total -> "warn"
    [] total <= 0 /\ overdue > 0        -> "bad"
    [] OTHER                            -> "good"

ageingCard(agg, side) ==
  LET amount == [b \in DOMAIN agg.totals |-> Flip(side) * agg.totals[b].paise]
      total == MapThenSumSet(LAMBDA b : amount[b], DOMAIN amount)
      overdue == MapThenSumSet(LAMBDA b : amount[b], DOMAIN amount \ {0})
      parties == {cell[1] : cell \in DOMAIN agg.rows}
      partyTotal == [p \in parties |->
        Flip(side) * MapThenSumSet(LAMBDA cell : agg.rows[cell].paise, {cell \in DOMAIN agg.rows : cell[1] = p})]
      worst == [p \in parties |-> Max({cell[2] : cell \in {x \in DOMAIN agg.rows : x[1] = p}})]
      Before(p, q) ==
        p # OTHERS_PARTY /\ (q = OTHERS_PARTY \/ partyTotal[p] > partyTotal[q])
      ranked == SetToSortSeq(parties, Before)
  IN  [total |-> total, overdue |-> overdue, buckets |-> amount, tone |-> Tone(total, overdue),
       topParties |-> [i \in 1 .. Min({Len(ranked), CARD_PARTIES}) |->
         [name |-> ranked[i], amount |-> partyTotal[ranked[i]], worst |-> worst[ranked[i]]]]]
=============================================================================
