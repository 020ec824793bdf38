------------------------------- MODULE Dialect -------------------------------
(***************************************************************************)
(* What an installation of Tally answers, and how the Bridge finds out.    *)
(* The TDL expressions of requests.ts are written without a Tally at hand: *)
(* whether $$NumValue is a magnitude, whether $$IsDebit resolves on a      *)
(* stock group, which collection returns the bills and which functions     *)
(* name the bank groups differs between installations.  flavour.ts puts    *)
(* every request to the open company once and judges the answers by the    *)
(* group balances, and keeps the verdicts as the "quirks".  Any of these   *)
(* requests may fail, and any row of an answer may be refused by the codec.*)
(***************************************************************************)
EXTENDS Cards, Ageing

CONSTANTS
  Absent,              \* no verdict, no such row
  RENAMED_DEBTORS,   \* what a user may call the reserved group Sundry Debtors
  SPIKE_A_VARIANTS,  \* ways to ask for the bills, in order; the first is the default
  DAYS_UNRESOLVED,   \* verdicts are kept so many days while the stock sign is open,
  DAYS_RESOLVED      \* and so many otherwise

\* What is absent is no figure and no reason to refuse.
ASSUME AbsentAssumption == Absent \notin Int /\ Absent \notin {"no groups", "inverted", "no bills", "section"}

\* Verdicts are kept for whole days.
ASSUME DaysAssumption == DAYS_UNRESOLVED \in Nat /\ DAYS_RESOLVED \in Nat

(***************************************************************************)
(* An installation:                                                        *)
(*   numValue   what $$NumValue returns: "magnitude", or signed with       *)
(*              "debit+" or "debit-"                                       *)
(*   stockDebit, bankFunctions, primaryMethod, groupTest                   *)
(*              whether $$IsDebit on a stock group, $$GroupBank,           *)
(*              $_PrimaryGroup, and $$IsLedOfGrp on a party resolve        *)
(*   bills      for every variant: "named", "some", "blank", "none",       *)
(*              "torn" (rows the codec refuses) or "fails"                 *)
(* The books of a company: closing balances of the reserved groups there   *)
(* are, rows of ledgers (cash, bank, duties) and of stock, and open bills. *)
(***************************************************************************)

NumValue(tally, n) ==
  CASE tally.numValue = "magnitude" -> Abs(n)
    [] tally.numValue = "debit+"    -> -n
    [] tally.numValue = "debit-"    -> n

\* expr.amount: if $$IsDebit:X then -$$NumValue:X else $$NumValue:X
amount(tally, n, isDebitResolves) ==
  IF isDebitResolves /\ n < 0 THEN -NumValue(tally, n) ELSE NumValue(tally, n)

Answered(tally, rows, resolves) ==
  {[r EXCEPT !.closing = amount(tally, r.closing, resolves)] : r \in rows}

groupsRequest(tally, books) ==
  [g \in DOMAIN books.closing |-> amount(tally, books.closing[g], TRUE)]

\* The groups of $IsRevenue, for the one month a pull is about.
Revenue == {"Sales Accounts", "Purchase Accounts", "Direct Incomes", "Indirect Incomes",
            "Direct Expenses", "Indirect Expenses"}

revenueRequest(tally, books) ==
  {[period |-> 1, group |-> g, parent |-> TOP, amount |-> amount(tally, books.closing[g], TRUE)] :
     g \in Revenue \cap DOMAIN books.closing}

stockRequest(tally, books) == Answered(tally, books.stock, tally.stockDebit)

cashBankRequest(tally, books, useGroupBankFunctions) ==
  LET resolves == IF useGroupBankFunctions THEN tally.bankFunctions ELSE tally.primaryMethod
  IN  Answered(tally, {r \in books.cashBank : resolves \/ r.parent \in CASH_GROUPS}, TRUE)

\* What may go wrong with the requests of one probe: those that fail ("groups", "bank",
\* "stock" or a variant; malformed groups are as good as none, and so are the bills of a
\* variant whose rows are all refused), and the names of the rows the codec refuses in
\* the answers to "bank" and "stock".
Fails(mishap, request) == request \in mishap.lost

Accepted(rows, mishap) == {r \in rows : r.name \notin mishap.refused}

dutiesTaxesRequest(tally, books) == Answered(tally, books.duties, TRUE)

\* The bills of both sides; with the wrong party method a row has no party and
\* is in no group.
billsRequest(tally, books, variant) ==
  LET Nameless(bill) == [bill EXCEPT !.party = NO_NAME, !.group = "other"]
      Row(i) ==
        LET bill == [books.bills[i] EXCEPT !.paise = amount(tally, books.bills[i].paise, TRUE)]
        IN  CASE tally.bills[variant] = "blank" \/ (tally.bills[variant] = "some" /\ i > 1) -> Nameless(bill)
              [] tally.groupTest -> bill
              [] OTHER           -> [bill EXCEPT !.group = "other"]
  IN  IF tally.bills[variant] \in {"named", "some", "blank"}
        THEN [i \in DOMAIN books.bills |-> Row(i)]
        ELSE <<>>

-----------------------------------------------------------------------------
(* signs.ts and stocksign.ts *)

Debits == {"Cash-in-Hand", "Stock-in-Hand", "Fixed Assets", "Purchase Accounts",
           "Direct Expenses", "Indirect Expenses"}
Credits == {"Sales Accounts", "Direct Incomes", "Indirect Incomes"}

MIN_EVIDENCE == 100

\* A mutant: only a book that is wrong throughout is taken for an inverted one.
checkGroupSignConventionGlobal(groups) ==
  LET signals == {g \in DOMAIN groups \cap (Debits \cup Credits) : Abs(groups[g]) >= MIN_EVIDENCE}
      Agrees(g) == (groups[g] < 0) = (g \in Debits)
  IN  CASE signals # {} /\ (\A g \in signals : Agrees(g)) -> "ok"
        [] Cardinality(signals) >= 2 /\ (\A g \in signals : ~Agrees(g)) -> "inverted"
        [] OTHER -> "unknown"

\* $$NumValue with a sign does not invert the book, it takes one class of groups
\* over to the other: a wrong group within a class is the book's own.
checkGroupSignConvention(groups) ==
  LET signals == {g \in DOMAIN groups \cap (Debits \cup Credits) : Abs(groups[g]) >= MIN_EVIDENCE}
      Agrees(g) == (groups[g] < 0) = (g \in Debits)
      AllAgree(class) == class # {} /\ \A g \in class : Agrees(g)
      AllDisagree(class) == class # {} /\ \A g \in class : ~Agrees(g)
      debits == signals \cap Debits
      credits == signals \cap Credits
      Inverted(class, other) == Cardinality(class) >= 2 /\ AllDisagree(class) /\ AllAgree(other)
  IN  CASE AllAgree(signals) -> "ok"
        [] Cardinality(signals) >= 2 /\ AllDisagree(signals) -> "inverted"
        [] Inverted(debits, credits) \/ Inverted(credits, debits) -> "inverted"
        [] OTHER -> "unknown"

\* The value of the stock against the group that must hold it; a reference that
\* is absent, immaterial or itself the wrong way round judges nothing.
checkStockSignConvention(stockRows, stockInHand) ==
  LET stockSum == Sum(stockRows, LAMBDA r : r.closing)
  IN  CASE Abs(stockSum) < MIN_EVIDENCE                           -> "unknown"
        [] stockInHand = Absent                                     -> "unknown"
        [] stockInHand # Absent /\ stockInHand > -MIN_EVIDENCE      -> "unknown"
        [] OTHER -> IF stockSum < 0 THEN "dr_negative" ELSE "positive_magnitude"

-----------------------------------------------------------------------------
(* flavour.ts: one probe of an installation with the books of one company. *)

Closing(groups, g) == IF g \in DOMAIN groups THEN groups[g] ELSE Absent

\* A debtors group under a name of the user's own is found by its primary group.
DebtorsBalance(tally, groups) ==
  CASE "Sundry Debtors" \in DOMAIN groups -> groups["Sundry Debtors"]
    [] "Sundry Debtors" \notin DOMAIN groups /\ tally.primaryMethod -> Closing(groups, RENAMED_DEBTORS)
    [] OTHER -> Absent

\* What the group balances say, and the probes are judged by: Absent, whereupon the
\* probe throws, if they cannot be had or there are none.
fetchGroupOracle(tally, books, mishap) ==
  LET groups == groupsRequest(tally, books)
      debtors == DebtorsBalance(tally, groups)
  IN  IF Fails(mishap, "groups") \/ DOMAIN groups = {} THEN Absent ELSE
      [primaryGroupPopulated |-> tally.primaryMethod,
       debtorsHaveBalance |-> IF debtors = Absent THEN Absent ELSE debtors # 0,
       bankGroupHasBalance |-> Closing(groups, "Bank Accounts") \notin {Absent, 0},
       stockInHandClosing |-> Closing(groups, "Stock-in-Hand"),
       signs |-> checkGroupSignConvention(groups)]

\* A request that fails counts as functions that do not resolve.
probeBankFunctions(tally, books, oracle, mishap) ==
  /\ ~Fails(mishap, "bank")
  /\ Accepted(cashBankRequest(tally, books, TRUE), mishap) # {} \/ ~oracle.bankGroupHasBalance

\* A variant that returns bills, at least half of them with a party.
Resolves(tally, books, variant) ==
  LET bills == billsRequest(tally, books, variant)
      named == {i \in DOMAIN bills : bills[i].party # NO_NAME}
  IN  bills # <<>> /\ named # {} /\ 2 * Cardinality(named) >= Len(bills)

\* The first that answers and resolves; the default where there is nothing to be found;
\* Absent where bills there must be are not found.
probeBillsVariant(tally, books, oracle, mishap) ==
  LET found == {i \in DOMAIN SPIKE_A_VARIANTS : /\ ~Fails(mishap, SPIKE_A_VARIANTS[i])
                                                /\ Resolves(tally, books, SPIKE_A_VARIANTS[i])}
  IN  CASE found # {} -> SPIKE_A_VARIANTS[Min(found)]
        [] found = {} /\ oracle.debtorsHaveBalance = FALSE -> SPIKE_A_VARIANTS[1]
        [] OTHER -> Absent

\* A request that fails decides nothing, a row that is refused is no evidence.
probeStockSign(tally, books, oracle, mishap) ==
  IF Fails(mishap, "stock") THEN "unknown"
  ELSE checkStockSignConvention(Accepted(stockRequest(tally, books), mishap), oracle.stockInHandClosing)

\* The quirks, or the reason to refuse this Tally.
probeCapabilities(tally, books, today, mishap) ==
  LET oracle == fetchGroupOracle(tally, books, mishap)
      variant == probeBillsVariant(tally, books, oracle, mishap)
      Refuse(why) == [refused |-> why]
  IN  IF oracle = Absent THEN Refuse("no groups")
      ELSE IF oracle.signs = "inverted" THEN Refuse("inverted")
      ELSE IF variant = Absent THEN Refuse("no bills")
      ELSE [refused |-> Absent,
            useGroupBankFunctions |-> probeBankFunctions(tally, books, oracle, mishap),
            billsVariant |-> variant,
            amountSigns |-> oracle.signs,
            stockValueSign |-> probeStockSign(tally, books, oracle, mishap),
            probedAt |-> today]

\* A mutant: verdicts are kept as long whether or not the stock sign is open.
shouldReprobePatient(quirks, today) == quirks = Absent \/ today - quirks.probedAt > DAYS_RESOLVED

shouldReprobe(quirks, today) ==
  \/ quirks = Absent
  \/ today - quirks.probedAt >
       (IF quirks.stockValueSign = "unknown" THEN DAYS_UNRESOLVED ELSE DAYS_RESOLVED)
=============================================================================
