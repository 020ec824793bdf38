------------------------------- MODULE Figures -------------------------------
(***************************************************************************)
(* From the books in Tally to the figures the owner reads, over days.  The *)
(* Bridge probes the installation with the books of whichever company it   *)
(* is syncing, keeps the verdicts for every company and the days to come,  *)
(* and reads all later books in the dialect they name (ensureQuirks,       *)
(* extractSection and ageingSection of cycle.ts).                          *)
(***************************************************************************)
EXTENDS Dialect

CONSTANTS
  Companies,
  Installations,  \* Tallys there are
  Books,          \* states of the books of a company
  Mishaps,        \* what may go wrong with the requests of a probe
  MaxTrades,      \* bound: how often books change
  MaxDay          \* bound: days

\* A Tally answers in one of the ways the code knows of.
ASSUME InstallationsAssumption ==
  \A t \in Installations : t.numValue \in {"magnitude", "debit+", "debit-"} /\ t.stockDebit \in BOOLEAN

\* Books are finite, and count in paise.
ASSUME BooksAssumption ==
  \A b \in Books :
    /\ IsFiniteSet(DOMAIN b.closing) /\ \A g \in DOMAIN b.closing : b.closing[g] \in Int
    /\ IsFiniteSet(b.stock) /\ b.stock \subseteq [name : STRING, parent : STRING, closing : Int]

VARIABLES
  tally,    \* the installation
  books,    \* of every company
  trades,
  day,
  quirks,   \* the store's row of verdicts, or Absent
  probedOn, \* what they were judged by of the books, as far as that could be read
  pulling,  \* the company whose sections are being asked for, or Absent
  shown     \* what a cycle showed or why it refused, with the books it read, until the next one

vars == <<tally, books, trades, day, quirks, probedOn, pulling, shown>>

Nothing == [refused |-> Absent, cards |-> Absent, of |-> Absent, by |-> Absent, probedOn |-> Absent, age |-> 0]

Init ==
  /\ tally \in Installations
  /\ books \in [Companies -> Books]
  /\ trades = 0
  /\ day = 0
  /\ quirks = Absent
  /\ probedOn = Absent
  /\ pulling = Absent
  /\ shown = Nothing

\* The accountant works, at any time.
Trade(c) ==
  /\ trades < MaxTrades
  /\ \E b \in Books \ {books[c]} : books' = [books EXCEPT ![c] = b]
  /\ trades' = trades + 1
  /\ UNCHANGED <<tally, day, quirks, probedOn, pulling, shown>>

\* A cycle counts for the day it began on, however long it takes.
NextDay ==
  /\ day < MaxDay
  /\ pulling = Absent
  /\ day' = day + 1
  /\ UNCHANGED <<tally, books, trades, quirks, probedOn, pulling, shown>>

-----------------------------------------------------------------------------
\* Stock that arrives as a positive magnitude is turned Dr-negative again.
stockRows(quirk, rows) ==
  IF quirk.stockValueSign = "positive_magnitude"
    THEN {[r EXCEPT !.closing = -r.closing] : r \in rows}
    ELSE rows

\* The bills by the method the quirks name, or Absent: the request failed, a row
\* was refused, or the rows name nobody we know.
ageingSection(installation, quirk, book, side) ==
  LET bills == billsRequest(installation, book, quirk.billsVariant)
      lost == installation.bills[quirk.billsVariant] = "fails"
              \/ (installation.bills[quirk.billsVariant] = "torn" /\ book.bills # <<>>)
  IN  IF lost \/ ~assertBillsLookSane(bills) THEN Absent
      ELSE aggregateAgeing(billsForSide(bills, side))

\* The payload of every section, in the dialect the quirks name.
extractSection(installation, quirk, book) ==
  LET groups == groupsRequest(installation, book)
  IN  [group_balance |->
         {[group |-> g, parent |-> TOP, closing |-> groups[g], isRevenue |-> g \in Revenue] : g \in DOMAIN groups},
       cash_bank |-> cashBankRequest(installation, book, quirk.useGroupBankFunctions),
       duties_taxes |-> dutiesTaxesRequest(installation, book),
       ageing_receivable |-> ageingSection(installation, quirk, book, "receivable"),
       ageing_payable |-> ageingSection(installation, quirk, book, "payable"),
       stock_value |-> stockRows(quirk, stockRequest(installation, book)),
       period_revenue |-> revenueRequest(installation, book)]

\* The cards from the newest payload of every section.
buildCompanyCards(sections) ==
  LET revenue == splitPeriods(sections.period_revenue)
  IN  [cashBank |-> cashBankCard(sections.cash_bank),
       dutiesTaxes |-> dutiesTaxesCard(sections.duties_taxes),
       receivables |-> ageingCard(sections.ageing_receivable, "receivable"),
       payables |-> ageingCard(sections.ageing_payable, "payable"),
       stock |-> stockCard(sections.stock_value),
       profit |-> profitCard(revenue.current, revenue.previous),
       salesTrend |-> salesTrendCard(sections.period_revenue),
       balanceSheet |-> balanceSheetTree(sections.group_balance)]

Refusal(c, why) == [Nothing EXCEPT !.refused = why, !.of = books[c]]

\* What a probe had to judge by: no stock if that request failed, and not the rows
\* that were refused.
Legible(book, mishap) ==
  [closing |-> book.closing,
   stock |-> IF Fails(mishap, "stock") THEN {} ELSE Accepted(book.stock, mishap)]

\* The verdicts that are kept, or a new probe; a probe that throws ends the cycle
\* and leaves the ones there are.
ensureQuirks(c) ==
  /\ pulling = Absent
  /\ IF ~shouldReprobe(quirks, day)
       THEN pulling' = c /\ shown' = Nothing /\ UNCHANGED <<quirks, probedOn>>
       ELSE \E mishap \in Mishaps :
              LET probed == probeCapabilities(tally, books[c], day, mishap)
              IN  IF probed.refused # Absent
                    THEN shown' = Refusal(c, probed.refused) /\ UNCHANGED <<quirks, probedOn, pulling>>
                    ELSE /\ quirks' = probed
                         /\ probedOn' = Legible(books[c], mishap)
                         /\ pulling' = c
                         /\ shown' = Nothing
  /\ UNCHANGED <<tally, books, trades, day>>

\* The sections are pulled, sealed and shown; one that cannot be had, this time or
\* with this Tally, loses the pull.
Extract ==
  /\ pulling # Absent
  /\ LET sections == extractSection(tally, quirks, books[pulling])
         unreadable == Absent \in {sections.ageing_receivable, sections.ageing_payable}
     IN  \E lost \in BOOLEAN :
           shown' = IF lost \/ unreadable
                    THEN Refusal(pulling, "section")
                    ELSE [refused |-> Absent, cards |-> buildCompanyCards(sections), of |-> books[pulling],
                          by |-> quirks, probedOn |-> probedOn, age |-> day - quirks.probedAt]
  /\ pulling' = Absent
  /\ UNCHANGED <<tally, books, trades, day, quirks, probedOn>>

Next == NextDay \/ Extract \/ \E c \in Companies : Trade(c) \/ ensureQuirks(c)

Spec == Init /\ [][Next]_vars

-----------------------------------------------------------------------------
(* Properties *)

Published == shown.cards # Absent

Opposed(installation, book) ==
  {g \in DOMAIN book.closing \cap (Debits \cup Credits) :
     /\ Abs(book.closing[g]) >= MIN_EVIDENCE
     /\ amount(installation, book.closing[g], TRUE) # book.closing[g]}

\* A group on the wrong side of its own book: a credit cash balance, say.
Odd(book) ==
  {g \in DOMAIN book.closing \cap (Debits \cup Credits) :
     Abs(book.closing[g]) >= MIN_EVIDENCE /\ (book.closing[g] < 0) # (g \in Debits)}

\* Where $$NumValue is signed, one side of every book arrives on the other, and no
\* figure of it may be shown: a book that was probed with two balances turned over
\* and none odd is refused.  And no mere oddity of one group stops a Tally that
\* counts the way the code assumes (signs.ts).
CollapseNeverPublished ==
  /\ Published /\ Odd(shown.probedOn) = {}
       => Cardinality(Opposed(tally, shown.probedOn)) < 2
  /\ shown.refused = "inverted"
       => tally.numValue # "magnitude" \/ Cardinality(Odd(shown.of)) > 1

Total(rows) == Sum(rows, LAMBDA r : r.closing)

\* Books, or what could be read of them, of which the stock is an asset, and so is the group that holds it.
StockIsAsset(book) ==
  /\ \A r \in book.stock : r.closing <= 0
  /\ LET held == Closing(book.closing, "Stock-in-Hand") IN held = Absent \/ held <= 0

\* The group that holds the stock is there, and worth mentioning.
Telling(book) ==
  LET held == Closing(book.closing, "Stock-in-Hand") IN held # Absent /\ held <= -MIN_EVIDENCE

\* The stock card has the sign of the stock in the books, unless the probe the
\* dialect comes from could not tell it, and then for a day at most: its request for
\* the stock failed, or what it could read of the books has no stock, no group to
\* compare it with, or groups that arrive signed (flavour.ts, stocksign.ts, and the
\* shorter age of shouldReprobe).
StockRightWayRound ==
  Published /\ StockIsAsset(shown.of) /\ StockIsAsset(shown.probedOn)
    => \/ shown.cards.stock.total = -Total(shown.of.stock)
       \/ /\ shown.by.stockValueSign = "unknown"
          /\ Total(shown.probedOn.stock) > -MIN_EVIDENCE \/ ~Telling(shown.probedOn) \/ tally.numValue = "debit-"
          /\ shown.age <= DAYS_UNRESOLVED

Receivable(book) ==
  -MapThenSumSet(LAMBDA i : book.bills[i].paise,
                 {i \in DOMAIN book.bills : classify(book.bills[i]) = "receivable"})

\* What is owed is not reported as nothing, or as anything but what it is, by
\* verdicts of an earlier day: a company that had no debtors when the default was
\* adopted is probed again when there are some (flavour.ts).
NoSilentZero ==
  Published /\ shown.age > 0 /\ tally.numValue = "magnitude"
    => shown.cards.receivables.total = Receivable(shown.of)
=============================================================================
