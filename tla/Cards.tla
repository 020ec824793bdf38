-------------------------------- MODULE Cards --------------------------------
(***************************************************************************)
(* The cards of the dashboard, as viewmodel/cards.ts computes them from    *)
(* the rows of one company.  Amounts are paise, Dr negative.  A ledger or  *)
(* stock row is [name, parent, closing]; a revenue row [period, group,     *)
(* parent, amount]; a group row [group, parent, closing, isRevenue].       *)
(***************************************************************************)
EXTENDS Integers, Sequences, FiniteSets, FiniteSetsExt, SequencesExt

CONSTANTS
  TOP,           \* the parent of a primary group: the empty string
  CASH_GROUPS,   \* the groups whose name says cash
  SALES_GROUPS,  \* the names that are exactly the sales group
  STOCK_GROUPS   \* stock groups the card shows

Sum(rows, Paise(_)) == MapThenSumSet(Paise, rows)

Abs(n) == IF n < 0 THEN -n ELSE n

-----------------------------------------------------------------------------
(* Ledgers and stock: assets are flipped, a duty owed is not. *)

Ranked(rows, Key(_)) == SetToSortSeq(rows, LAMBDA a, b : Key(a) > Key(b))

cashBankCard(rows) ==
  LET Held(r) == -r.closing
      accounts == Ranked(rows, Held)
      total == Sum(rows, Held)
  IN  [total |-> total,
       accounts |-> [i \in DOMAIN accounts |->
         [name |-> accounts[i].name, balance |-> Held(accounts[i]),
          isCash |-> accounts[i].parent \in CASH_GROUPS]],
       tone |-> CASE total < 0 -> "bad" [] total = 0 -> "neutral" [] OTHER -> "good"]

dutiesTaxesCard(rows) ==
  LET Owed(r) == r.closing
      total == Sum(rows, Owed)
  IN  [total |-> total,
       ledgers |-> Ranked(rows, LAMBDA r : Abs(Owed(r))),
       tone |-> IF total < 0 THEN "good" ELSE "neutral"]

\* A share is a slice of a positive whole: a fraction <<part, whole>>.
stockCard(rows) ==
  LET Held(r) == -r.closing
      total == Sum(rows, Held)
      groups == Ranked(rows, Held)
      Share(paise) == IF total > 0 /\ paise > 0 THEN <<Min({paise, total}), total>> ELSE <<0, 1>>
  IN  [total |-> total,
       groups |-> [i \in 1 .. Min({Len(groups), STOCK_GROUPS}) |->
         [name |-> groups[i].name, value |-> Held(groups[i]), share |-> Share(Held(groups[i]))]]]

-----------------------------------------------------------------------------
(* Groups: a closing balance already contains that of the groups below. *)

\* A mutant: parents are taken to form a tree.
isOnParentCycleTree(name, parentOf) == FALSE

\* Parents can be edited by the user, so following them may lead back.
isOnParentCycle(name, parentOf) ==
  LET up[k \in 0 .. Cardinality(DOMAIN parentOf)] ==
        IF k = 0 THEN name
        ELSE IF up[k - 1] \in DOMAIN parentOf THEN parentOf[up[k - 1]] ELSE TOP
  IN  \E k \in 1 .. Cardinality(DOMAIN parentOf) : up[k] = name

ParentOf(rows) == [g \in {r.group : r \in rows} |-> (CHOOSE r \in rows : r.group = g).parent]

\* Contained in another row of the same pull: presence, not depth, decides.
Contained(name, parentOf) ==
  parentOf[name] # TOP /\ parentOf[name] \in DOMAIN parentOf /\ ~isOnParentCycle(name, parentOf)

\* The rows of one month that are in no other row of it.
topLevel(rows) == {r \in rows : ~Contained(r.group, ParentOf(rows))}

Periods(rows) == {r.period : r \in rows}

InPeriod(rows, period) == {r \in rows : r.period = period}

topLevelRevenuePaise(rows) ==
  MapThenSumSet(LAMBDA p : Sum(topLevel(InPeriod(rows, p)), LAMBDA r : r.amount), Periods(rows))

\* The two latest months there are rows of.
splitPeriods(rows) ==
  LET Latest(periods) == IF periods = {} THEN {} ELSE {Max(periods)}
      cur == Latest(Periods(rows))
      prev == Latest(Periods(rows) \ cur)
  IN  [current |-> {r \in rows : r.period \in cur}, previous |-> {r \in rows : r.period \in prev}]

\* Which way the figure went, where half a rupee is nothing and half a percent
\* is no change.
formatDelta(current, previous) ==
  CASE Abs(previous) < 50 /\ Abs(current) < 50          -> "no change"
    [] Abs(previous) < 50                               -> IF current > 0 THEN "new, up" ELSE "new, down"
    [] 200 * Abs(current - previous) < Abs(previous)    -> "no change"
    [] OTHER                                            -> IF current > previous THEN "up" ELSE "down"

profitCard(current, previous) ==
  LET p1 == topLevelRevenuePaise(current)
      p0 == topLevelRevenuePaise(previous)
  IN  [current |-> p1, previous |-> p0, delta |-> formatDelta(p1, p0),
       tone |-> CASE p1 < 0 -> "bad" [] p1 >= 0 /\ p1 > p0 -> "good" [] OTHER -> "neutral"]

\* The sales group by its exact name, so that a group below it is not added.
salesTrendCard(rows) ==
  LET sales == {r \in rows : r.group \in SALES_GROUPS}
      periods == SetToSortSeq(Periods(sales), <)
      points == [i \in DOMAIN periods |-> Sum(InPeriod(sales, periods[i]), LAMBDA r : r.amount)]
      n == Len(points)
  IN  [points |-> points,
       peak |-> IF n = 0 THEN 0 ELSE Max({points[i] : i \in 1 .. n}),
       tone |-> CASE n < 2 -> "neutral" [] n >= 2 /\ points[n] >= points[n - 1] -> "good" [] OTHER -> "warn"]

\* The balance sheet: roots, and for every group its children.  A group whose
\* parent was not pulled, or on a cycle of parents, is a root rather than lost.
balanceSheetTree(rows) ==
  LET sheet == {r \in rows : ~r.isRevenue}
      parentOf == ParentOf(sheet)
  IN  [roots |-> {g \in DOMAIN parentOf : ~Contained(g, parentOf)},
       children |-> [p \in DOMAIN parentOf |->
         {g \in DOMAIN parentOf : parentOf[g] = p /\ Contained(g, parentOf)}]]
=============================================================================
