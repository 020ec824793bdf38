-------------------------------- MODULE Rules --------------------------------
(***************************************************************************)
(* Questions to the pure rules that turn the books into figures, and what  *)
(* is to be said of their answers.  A question is an initial state in      *)
(* which nothing else happens.                                             *)
(***************************************************************************)
EXTENDS Figures, SyncGate, Vault, Wire

CONSTANTS
  Guids, AlterIds,               \* companies, and the counters a probe may report
  Tables, Amounts,               \* what Tally prints, and the amounts in it
  BillLists,                     \* lists of open bills
  Groups, Own,                   \* a chart of accounts, and what is booked in each group
  MyKey, Keys, Typed,            \* recovery keys, mine among them; what may be typed
  Rosters, Memories              \* what the server sends back, and what is remembered

VARIABLE asked   \* the question, or None

-----------------------------------------------------------------------------
(* The gate *)

Watermarks == [guid : Guids, mst : AlterIds, vch : AlterIds]

\* A counter is a number, of which a garbled one is not a number.
ASSUME GateAssumption == NaN \notin Int /\ AlterIds \subseteq Int \cup {NaN} /\ None \notin Watermarks

Gates == [about : {"gate"}, stored : Watermarks \cup {None}, current : Watermarks]

\* A watermark vouches for a half of the books when both numbers describing that
\* half are the same count of the same company.
Counts(n) == n # NaN /\ n \in Nat

Comparable(stored, current) ==
  /\ stored # None
  /\ stored.guid = current.guid
  /\ \A n \in {stored.mst, stored.vch, current.mst, current.vch} : Counts(n)
  /\ current.mst >= stored.mst
  /\ current.vch >= stored.vch

Needed(stored, current) ==
  IF ~Comparable(stored, current) THEN SECTIONS
  ELSE UNION { IF current.mst = stored.mst THEN {} ELSE MASTER_SECTIONS,
               IF current.vch = stored.vch THEN {} ELSE VOUCHER_SECTIONS }

\* The gate asks Tally for exactly the sections whose half of the books may
\* have changed: nothing is missed (a garbled or rewound counter included) and
\* an idle company costs no request (gate.ts).
GateAsksForWhatMoved ==
  asked # None /\ asked.about = "gate" =>
    LET decision == decideGate(asked.stored, asked.current)
    IN  /\ decision.sections = Needed(asked.stored, asked.current)
        /\ (decision.action = "skip") = (Needed(asked.stored, asked.current) = {})

-----------------------------------------------------------------------------
(* The wire *)

\* Every row of a table has a cell in each column; amounts are one column of it, and
\* told apart from each other, from a blank and from the two halves of a text.
ASSUME TablesAssumption ==
  /\ Blank \notin Amounts
  /\ \A table \in Tables :
       /\ table \in Seq(Seq(UNION {Range(row) : row \in Range(table)})) \ {<<>>}
       /\ \A i \in DOMAIN table : DOMAIN table[i] = DOMAIN table[1]
       /\ \E c \in DOMAIN table[1] :
            /\ \A i \in DOMAIN table, j \in DOMAIN table[1] : table[i][j] \in Amounts <=> j = c
            /\ \A i, k \in DOMAIN table : table[i][c] = table[k][c] => i = k
       /\ \A i \in DOMAIN table, j \in DOMAIN table[1] :
            <<table[i][j], "head">> \notin Amounts /\ <<table[i][j], "tail">> \notin Amounts

NoStray == [row |-> 0, column |-> 0, tag |-> 0]

\* A text may contain a tag that was asked for, or the next one.
Wires ==
  UNION {[about : {"wire"}, table : {t}, omits : BOOLEAN,
          stray : {NoStray} \cup
                  {s \in [row : DOMAIN t, column : DOMAIN t[1], tag : 1 .. Len(t[1]) + 1] :
                     t[s.row][s.column] \notin Amounts \cup {Blank}}] : t \in Tables}

AmountColumn(table) == CHOOSE c \in DOMAIN table[1] : table[1][c] \in Amounts

\* A party whose name contains one of our field tags, or a blank field that Tally
\* leaves out, costs the section and never moves an amount: it stays in its
\* column, is there once, and beside the first column of its own row unless the
\* tag is in another text of it (codec.ts).
AmountsNeverShift ==
  asked # None /\ asked.about = "wire" =>
    LET table == asked.table
        amount1st == AmountColumn(table)
        rows == xmlTagResponseToRows(Answer(table, asked.stray, asked.omits), Len(table[1]))
        Where(a) == {x \in (DOMAIN rows) \X (DOMAIN table[1]) : rows[x[1]][x[2]] = a}
    IN  \/ rows = Refused
        \/ /\ \A k \in DOMAIN table : \E i \in DOMAIN rows : Where(table[k][amount1st]) = {<<i, amount1st>>}
           /\ asked.stray.column \in {0, 1} =>
                /\ Len(rows) = Len(table)
                /\ \A i \in DOMAIN rows : rows[i][amount1st] = table[i][amount1st]
           /\ asked.stray = NoStray => rows = table

-----------------------------------------------------------------------------
(* Open bills *)

\* A bill is of a party in one of the groups we know or in another; days and credit
\* may be any numbers.
ASSUME BillsAssumption ==
  \A bills \in BillLists :
    bills \in Seq([party : {bills[i].party : i \in DOMAIN bills}, days : Int, credit : Int, paise : Int,
                  advance : BOOLEAN, group : {"debtor", "creditor", "other"}])

\* Ages and the limits of the buckets are numbers of days.
ASSUME AgeAssumption == MAX_PLAUSIBLE_AGE_DAYS \in Nat /\ BUCKETS \in Seq(Int)

Ageings == [about : {"ageing"}, bills : BillLists]

\* Every open bill of a debtor or creditor is on one side of the ageing and in
\* one bucket of it, whatever the long tail is folded into: nothing is lost
\* between the bills, the totals, the rows and the card; what is overdue there is
\* what is past its credit period, by an age that can be one, and no advance; and
\* an overdue debt is never shown in green because an advance outweighs it
\* (ageing.ts, ageingCard).
AgeingConserved ==
  asked # None /\ asked.about = "ageing" =>
    LET bills == asked.bills
        open == {i \in DOMAIN bills : bills[i].group # "other" /\ bills[i].paise # 0}
        agg == [s \in Sides |-> aggregateAgeing(billsForSide(bills, s))]
        card == [s \in Sides |-> ageingCard(agg[s], s)]
        Count(s) == MapThenSumSet(LAMBDA b : agg[s].totals[b].count, DOMAIN agg[s].totals)
        In(s, b) == {cell \in DOMAIN agg[s].rows : cell[2] = b}
        Late(i) == ~bills[i].advance /\ plausibleAge(bills[i].days) > bills[i].credit
        OverdueOf(group) == PaiseOf(bills, {i \in open : bills[i].group = group /\ Late(i)})
    IN  /\ Count("receivable") + Count("payable") = Cardinality(open)
        /\ card["payable"].total - card["receivable"].total = PaiseOf(bills, open)
        /\ card["receivable"].overdue = -OverdueOf("debtor")
        /\ card["payable"].overdue = OverdueOf("creditor")
        /\ \A s \in Sides : \A b \in DOMAIN agg[s].totals :
             /\ agg[s].totals[b].paise = MapThenSumSet(LAMBDA c : agg[s].rows[c].paise, In(s, b))
             /\ agg[s].totals[b].count = MapThenSumSet(LAMBDA c : agg[s].rows[c].count, In(s, b))
        /\ \A s \in Sides : card[s].overdue > 0 /\ card[s].tone = "good" => card[s].overdue < card[s].total

-----------------------------------------------------------------------------
(* Charts of accounts, of which a pull sees a part. *)

\* Groups of the user's, and what was booked in each itself, in paise.
ASSUME ChartAssumption == IsFiniteSet(Groups) /\ TOP \notin Groups /\ \A g \in Groups : Own[g] \in Int

Charts == [about : {"chart"}, parent : [Groups -> Groups \cup {TOP}], pulled : SUBSET Groups]

\* The groups reached from some, through a relation between them: the least set of
\* groups with those in it and with all that a member of it leads to.
Closure(from, onward) ==
  {g \in Groups : \A S \in SUBSET Groups :
     from \subseteq S /\ (\A h \in S \cap DOMAIN onward : onward[h] \subseteq S) => g \in S}

\* A company whose groups are a forest has one profit however deep they are.  And
\* although parents can be edited into a cycle and a pull may lack some, the balance
\* sheet places every group that was pulled exactly once below a root, and what the
\* profit adds up are the rows of those roots: no group is left out of it, although
\* one of a cycle, or above a hole of the pull, may be counted with another's
\* (topLevelRevenuePaise and balanceSheetTree of cards.ts).
GroupsCountedOnce ==
  asked # None /\ asked.about = "chart" =>
    LET below == [g \in Groups |-> {h \in Groups : asked.parent[h] = g}]
        Within(g) == Closure({g}, below)
        forest == \A g \in Groups : \A h \in below[g] : g \notin Within(h)
        closed == \A g \in asked.pulled : Within(g) \subseteq asked.pulled
        Rows(month, groups) ==
          {[period |-> month, group |-> g, parent |-> asked.parent[g],
            amount |-> MapThenSumSet(LAMBDA h : Own[h], Within(g))] : g \in groups}
        split == splitPeriods(Rows(1, Groups) \cup Rows(2, asked.pulled))
        profit == profitCard(split.current, split.previous)
        tree == balanceSheetTree({[group |-> g, parent |-> asked.parent[g], isRevenue |-> FALSE] :
                                    g \in asked.pulled})
    IN  /\ forest /\ closed /\ asked.pulled # {} =>
             /\ profit.current = MapThenSumSet(LAMBDA h : Own[h], asked.pulled)
             /\ profit.previous = MapThenSumSet(LAMBDA h : Own[h], Groups)
             /\ profit.delta = "up" => profit.current > profit.previous
        /\ asked.pulled # {} => {r.group : r \in topLevel(split.current)} = tree.roots
        /\ Closure(tree.roots, tree.children) = asked.pulled
        /\ \A g \in asked.pulled :
             Cardinality({p \in asked.pulled : g \in tree.children[p]}) = (IF g \in tree.roots THEN 0 ELSE 1)

-----------------------------------------------------------------------------
(* Recovery: a sheet, what an owner made of it, and what the server sent back. *)

\* Keys fit the sheet, what is typed are words, and a roster lists devices.
ASSUME RecoveryAssumption ==
  /\ PHRASE \in Nat \ {0} /\ WORDS \in Nat /\ Misspelt \notin Int
  /\ VERIFY_WORD_POSITIONS \in Seq(1 .. PHRASE)
  /\ MyKey \in RecoveryKeys /\ Keys \subseteq RecoveryKeys
  /\ Typed \subseteq Seq((0 .. WORDS - 1) \cup {Misspelt})
  /\ \A r \in Rosters \ {NoRoster} : r.version \in Int /\ r.devices \in Seq(Range(r.devices))
  /\ Memories \subseteq Nat \cup {NoRoster} /\ NoRoster \notin Nat

Recoveries ==
  LET Sent == {[wrapUnderRecoveryKey(i, k, r) EXCEPT !.kind = kind] :
                 i \in {"mine"}, k \in Keys, r \in Rosters, kind \in {"recovery", "pass"}}
      Ask(inputs) == [about : {"recovery"}, input : inputs, blob : Sent, memory : Memories]
  IN  Ask([by : {"words"}, typed : Typed]) \cup
      Ask([by : {"code"}, code : [whole : BOOLEAN, key : Keys]])

\* Nobody gets in by a checksum that happens to fit.  Where the seal is sound and made
\* for this sheet, its owner gets in unless what is inside cannot be used, and is then
\* told to get help and not to check the sheet; anyone else is told to check it.  A
\* seal that is damaged, of another kind or for another sheet the code cannot tell
\* from a wrong sheet: the owner of the right one is sent back to it for nothing
\* (recovery.ts:290).  And who has passed the challenge has those two words right.
RecoveryTellsTheTruth ==
  asked # None /\ asked.about = "recovery" =>
    LET sheet == makeRecoverySheet(MyKey)
        words == asked.input.by = "words"
        parsed == IF words THEN parseRecoveryWords(asked.input.typed) ELSE parseRecoveryQr(asked.input.code)
        outcome == attemptRecovery(parsed, asked.blob, asked.memory)
        right == IF words THEN asked.input.typed = sheet.words ELSE asked.input.code = sheet.code
        mine == asked.blob.kind = "recovery" /\ asked.blob.under = MyKey
        roster == asked.blob.bundle.roster
        serves == /\ roster # NoRoster /\ asked.memory # NoRoster
                  /\ roster.version >= Max({1, asked.memory}) /\ roster.devices # <<>>
                  /\ Cardinality(Range(roster.devices)) = Len(roster.devices)
        answers == [i \in DOMAIN VERIFY_WORD_POSITIONS |-> asked.input.typed[VERIFY_WORD_POSITIONS[i]]]
        others == 1 .. PHRASE \ Range(VERIFY_WORD_POSITIONS)
    IN  /\ mine => /\ outcome.ok <=> right /\ serves
                   /\ ~outcome.ok => (outcome.action = "get help" <=> right)
        /\ right /\ ~mine => ~outcome.ok /\ outcome.action = "check the sheet"
        /\ words /\ Len(asked.input.typed) = PHRASE /\ (\A i \in others : asked.input.typed[i] = sheet.words[i]) =>
             (challengePassed(sheet, answers) <=> parsed.ok /\ parsed.key = MyKey)

-----------------------------------------------------------------------------
Questions == Gates \cup Wires \cup Ageings \cup Charts \cup Recoveries

Asked == asked \in Questions /\ [][UNCHANGED asked]_asked
=============================================================================
