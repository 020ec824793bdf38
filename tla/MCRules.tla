------------------------------- MODULE MCRules -------------------------------
(***************************************************************************)
(* The rules that turn the books into figures, for small sets of questions *)
(* and the one rule Rules leaves out, the canonical form.                  *)
(* The dialect of a Tally is judged once and used for days, so Figures     *)
(* runs beside them, for a few installations and states of the books.      *)
(***************************************************************************)
EXTENDS Rules, Canonical

CONSTANTS name1, name2, amount1, amount2   \* cells of a table

-----------------------------------------------------------------------------
(* The gate: two companies, and counters that go back or are no numbers *)

MCGuids == {"g1", "g2"}

MCAlterIds == {NaN} \cup (-1 .. 2)

-----------------------------------------------------------------------------
(* The wire: tables of two rows; "p" is a parent or party, possibly blank. *)

MCTables ==
  LET Texts == {name1, name2, Blank}
  IN  {<<<<n, p, amount1>>, <<name2, q, amount2>>>> : n, p, q \in Texts} \cup
      {<<<<n, amount1, p>>, <<name2, amount2, q>>>> : n, p, q \in Texts} \cup
      {<<<<p, amount1>>, <<q, amount2>>>> : p, q \in Texts}

MCAmounts == {amount1, amount2}

-----------------------------------------------------------------------------
(* Open bills: two debtors, a creditor and a party of another group. *)

GroupOf == <<"debtor", "debtor", "creditor", "other">>

BillsOver(parties, terms, amounts) ==
  {[party |-> p, days |-> t[1], credit |-> t[2], paise |-> n, advance |-> a, group |-> GroupOf[p]] :
     p \in parties, t \in terms, n \in amounts, a \in BOOLEAN}

MCBillLists ==
  LET all == BillsOver(1 .. 4, {<<-1, 0>>, <<30, 30>>, <<31, 30>>, <<45, 0>>, <<101, 0>>, <<101, -1>>}, {-5, 0, 3})
      few == BillsOver(1 .. 3, {<<10, 30>>, <<45, 0>>}, {-7, 2})
  IN  BoundedSeq(all, 2) \cup [1 .. 3 -> few]

-----------------------------------------------------------------------------
(* A chart of three groups, any of which may be under any. *)

MCGroups == {"Sales Accounts", "Exports", "Freight"}

MCOwn == [g \in MCGroups |-> CASE g = "Sales Accounts" -> 1 [] g = "Exports" -> 10 [] OTHER -> -100]

-----------------------------------------------------------------------------
(* Payloads of two rows, from a Tally that writes and orders them as it likes. *)

MCFields == <<"amount", "billCount", "name">>

AmountTexts ==
  {[sign |-> s, whole |-> w, frac |-> f, other |-> FALSE] :
     s \in {"", "+", "-"}, w \in {<<>>, <<0>>, <<7>>, <<0, 7>>, <<2, 0>>},
     f \in {<<>>, <<5>>, <<0, 5>>, <<5, 0>>, <<4, 7>>, <<4, 8>>, <<0, 0, 5>>}}
  \cup {[sign |-> "", whole |-> <<7>>, frac |-> <<5>>, other |-> TRUE]}

TwoRows(first, second) == <<[name |-> 1, amount |-> first], [name |-> 2, amount |-> second]>>

Hashes ==
  LET Fixed(frac) == [sign |-> "-", whole |-> <<0>>, frac |-> frac, other |-> FALSE]
      once == <<"name", "amount", "billCount">>
  IN  UNION {[about : {"hash"}, route : {"plain", "stock", "ageing"},
              rows : {TwoRows(a, Fixed(<<0, 0>>))},
              others : {TwoRows(b, Fixed(<<>>)), Reverse(TwoRows(b, Fixed(<<>>)))},
              built : {<<once, once>>, <<once, Reverse(once)>>}] :
             a \in AmountTexts, b \in {x \in AmountTexts : x.sign # "+" /\ x.whole \in {<<0>>, <<7>>}}}

\* What an amount says, if it is one.
Worth(text) ==
  IF text.other \/ text.whole = <<>> \/ Len(text.frac) > 2 THEN Absent
  ELSE (IF text.sign = "-" THEN -1 ELSE 1)
       * (100 * Number(text.whole)
          + (CASE Len(text.frac) = 0 -> 0 [] Len(text.frac) = 1 -> 10 * text.frac[1]
               [] OTHER -> Number(text.frac)))

\* Half of the hundredth of the largest power of two whose cents a float can tell.
ExactInRupees == 100 * 2 ^ (MANTISSA - 8)

\* Two pulls hash alike exactly if they say the same figures, in whatever order
\* and form Tally wrote them; what a card reads is what Tally said, to the paisa,
\* or there is no payload; and a total is exact or there is none (canonical.ts,
\* and the amounts of cycle.ts and ageing.ts).  Ageing amounts go through floats,
\* and are held to it up to ExactInRupees.
SameFiguresSameHash ==
  asked # None /\ asked.about = "hash" =>
    LET first == PayloadRows(asked.route, asked.rows)
        second == PayloadRows(asked.route, asked.others)
        hash == contentHashOf(Payload(first, asked.built[1]))
        again == contentHashOf(Payload(second, asked.built[2]))
        Held(row) == IF Worth(row.amount) = Absent THEN Absent
                     ELSE IF asked.route = "stock" THEN -Worth(row.amount) ELSE Worth(row.amount)
        Said(rows) == {<<r.name, Held(r)>> : r \in {x \in Range(rows) : Held(x) # Absent}}
        Exact(rows) == asked.route = "ageing" => \A x \in Said(rows) : Magn(x[2]) <= ExactInRupees
        paise == paiseOf(first)
    IN  /\ hash # Thrown /\ again # Thrown /\ Exact(asked.rows) /\ Exact(asked.others) =>
             (hash = again <=> Said(asked.rows) = Said(asked.others))
        /\ hash # Thrown /\ Exact(asked.rows) =>
             /\ {<<first[i].name, paise[i]>> : i \in DOMAIN first} = Said(asked.rows)
             /\ sumPaise(paise) \in {Thrown, MapThenSumSet(LAMBDA x : x[2], Said(asked.rows))}

-----------------------------------------------------------------------------
(* Recovery: sheets of three words, two of which are asked back. *)

MCPositions == <<1, 3>>

MCTyped == UNION {[1 .. n -> 0 .. WORDS - 1 \cup {Misspelt}] : n \in PHRASE - 1 .. PHRASE}

MCRosters ==
  {NoRoster} \cup [version : 0 .. 2, devices : {<<>>, <<<<"d1", "k1">>>>, <<<<"d1", "k1">>, <<"d1", "k1">>>>,
                                                <<<<"d1", "k1">>, <<"d1", "k2">>>>}]

MCMyKey == [high |-> <<1, 2>>, low |-> 1]

MCKeys == {MCMyKey, [MCMyKey EXCEPT !.low = 0]}

MCMemories == {NoRoster, 0, 1, 2}

-----------------------------------------------------------------------------
(* Installations and books for Figures. *)

MCBuckets == <<5, 20>>

MCVariants == <<"Bills $PartyName", "Bills $LedgerName", "Bill $..Name">>

Usual ==
  [numValue |-> "magnitude", stockDebit |-> TRUE, bankFunctions |-> TRUE, primaryMethod |-> TRUE,
   groupTest |-> TRUE, bills |-> [v \in {MCVariants[i] : i \in 1 .. 3} |-> "named"]]

BillsBy(first, second, third) ==
  [Usual EXCEPT !.bills = (MCVariants[1] :> first) @@ (MCVariants[2] :> second) @@ (MCVariants[3] :> third)]

MCInstallations ==
  {Usual,
   [Usual EXCEPT !.stockDebit = FALSE],
   [Usual EXCEPT !.numValue = "debit+"], [Usual EXCEPT !.numValue = "debit+", !.stockDebit = FALSE],
   [Usual EXCEPT !.numValue = "debit-"], [Usual EXCEPT !.numValue = "debit-", !.stockDebit = FALSE],
   [Usual EXCEPT !.bankFunctions = FALSE], [Usual EXCEPT !.primaryMethod = FALSE],
   [Usual EXCEPT !.groupTest = FALSE],
   BillsBy("none", "named", "named"), BillsBy("blank", "some", "named"), BillsBy("torn", "fails", "blank")}

NewBooks ==
  [closing |-> [g \in {"Cash-in-Hand", "Sundry Debtors", "Bank Accounts", "Sales Accounts"} |-> 0],
   cashBank |-> {}, duties |-> {}, stock |-> {}, bills |-> <<>>]

Row(n, p, paise) == [name |-> n, parent |-> p, closing |-> paise]

OpenBill(party, paise) ==
  [party |-> party, days |-> 40, credit |-> 30, paise |-> paise, advance |-> FALSE, group |-> GroupOf[party]]

Trading ==
  [closing |-> ("Cash-in-Hand" :> -500) @@ ("Bank Accounts" :> -700) @@ ("Stock-in-Hand" :> -400)
               @@ ("Purchase Accounts" :> -800) @@ ("Sales Accounts" :> 900)
               @@ ("Indirect Incomes" :> 300) @@ ("Sundry Debtors" :> -600),
   cashBank |-> {Row("Cash", "Cash-in-Hand", -500), Row("Bank", "Bank Accounts", -700)},
   duties |-> {Row("GST", "Duties & Taxes", 200)},
   stock |-> {Row("Rice", "", -300), Row("Dal", "", -100)},
   bills |-> <<OpenBill(1, -400), OpenBill(2, -200), OpenBill(3, 150)>>]

\* The stock was hardly ever journalled, the cash box is overdrawn, and the debtors are
\* in a group of another name.
Careless ==
  [Trading EXCEPT
     !.closing = ("Cash-in-Hand" :> 500) @@ ("Stock-in-Hand" :> -50) @@ ("Purchase Accounts" :> -800)
                 @@ ("Sales Accounts" :> 900) @@ ("Indirect Incomes" :> 300) @@ ("Trade Debtors" :> -600),
     !.cashBank = {Row("Cash", "Cash-in-Hand", 500)}]

\* Sold for cash: nobody owes anything, and there is one account on the credit side.
OverTheCounter ==
  [Trading EXCEPT
     !.closing = ("Cash-in-Hand" :> -500) @@ ("Stock-in-Hand" :> -400) @@ ("Sales Accounts" :> 900)
                 @@ ("Sundry Debtors" :> 0),
     !.cashBank = {Row("Cash", "Cash-in-Hand", -500)},
     !.bills = <<>>]

MCBooks == {NewBooks, Trading, Careless, OverTheCounter}

\* All went well; the answer of one kind was lost; rows of stock, some or all, and a
\* ledger were refused.
MCMishaps ==
  {[lost |-> lost, refused |-> {}] : lost \in {{}, {"groups"}, {"bank"}, {"stock"}, {MCVariants[1]}}} \cup
  {[lost |-> {}, refused |-> names] : names \in {{"Rice"}, {"Rice", "Dal"}, {"Cash", "Bank"}}}

-----------------------------------------------------------------------------
MCQuestions == Questions \cup Hashes

MCInit ==
  \/ asked = None /\ Init
  \/ /\ asked \in MCQuestions
     /\ tally = Absent /\ books = Absent /\ trades = 0 /\ day = 0
     /\ quirks = Absent /\ probedOn = Absent /\ pulling = Absent /\ shown = Nothing

MCNext == asked = None /\ Next /\ UNCHANGED asked

MCSpec == MCInit /\ [][MCNext]_<<vars, asked>>
=============================================================================
