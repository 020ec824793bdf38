----------------------------- MODULE RulesProofs -----------------------------
(***************************************************************************)
(* What the rules that turn the books into figures are proved to do, for   *)
(* every set of companies, books, bills and sheets the constants may name: *)
(* Tally is asked for exactly what may have changed; a verdict on the      *)
(* dialect of an installation is kept only while it is true of it, so that *)
(* stock is shown the right way round and no collapse is published; no     *)
(* open bill is lost on the way to the card, and no group is counted       *)
(* twice; recovery says what went wrong; and no tag that Tally leaves out, *)
(* nor one that stands in a text, moves an amount to another field or row. *)
(***************************************************************************)
EXTENDS Rules, SumLemmas, SequenceTheorems, TLAPS

-----------------------------------------------------------------------------
(* The dialect of an installation, and what is published in it *)

\* The magnitude of a figure is a figure that is not negative.
LEMMA AbsIs == \A n \in Int : Abs(n) \in Int /\ Abs(n) >= 0 /\ (Abs(n) = n \/ Abs(n) = -n)
BY DEF Abs

\* A figure arrives as it is or turned over.
LEMMA AmountTurns ==
  ASSUME NEW t \in Installations, NEW n \in Int
  PROVE  /\ amount(t, n, TRUE) \in {n, -n}
         /\ t.numValue = "magnitude" => amount(t, n, TRUE) = n
         /\ t.numValue = "debit+" => amount(t, n, TRUE) = IF n < 0 THEN n ELSE -n
         /\ t.numValue = "debit-" => amount(t, n, TRUE) = IF n < 0 THEN -n ELSE n
BY InstallationsAssumption DEF amount, NumValue, Abs

\* What is read off a book without figures in question.
Figured(closing) ==
  {g \in DOMAIN closing \cap (Debits \cup Credits) : Abs(closing[g]) >= MIN_EVIDENCE}

\* The groups that arrive are those of the book, worth mentioning when they are.
LEMMA GroupsArrive ==
  ASSUME NEW t \in Installations, NEW b \in Books
  PROVE  /\ DOMAIN groupsRequest(t, b) = DOMAIN b.closing
         /\ \A g \in DOMAIN b.closing : groupsRequest(t, b)[g] = amount(t, b.closing[g], TRUE)
         /\ Figured(groupsRequest(t, b)) = Figured(b.closing)
         /\ IsFiniteSet(Figured(b.closing))
<1>1. \A g \in DOMAIN b.closing : b.closing[g] \in Int /\ groupsRequest(t, b)[g] \in {b.closing[g], -b.closing[g]}
  BY BooksAssumption, AmountTurns DEF groupsRequest
<1>2. \A g \in DOMAIN b.closing : Abs(groupsRequest(t, b)[g]) = Abs(b.closing[g])
  BY <1>1 DEF Abs
<1>3. DOMAIN groupsRequest(t, b) = DOMAIN b.closing
        /\ \A g \in DOMAIN b.closing : groupsRequest(t, b)[g] = amount(t, b.closing[g], TRUE)
  BY DEF groupsRequest
<1>4. Figured(groupsRequest(t, b)) = Figured(b.closing)
  BY <1>2, <1>3 DEF Figured
<1>5. Figured(b.closing) \subseteq DOMAIN b.closing
  BY DEF Figured
<1> QED
  BY <1>3, <1>4, <1>5, BooksAssumption, FS_Subset

\* Two elements and two more.
LEMMA AtLeastTwo ==
  ASSUME NEW S, IsFiniteSet(S), NEW P \in SUBSET S, Cardinality(P) >= 2
  PROVE  Cardinality(S) >= 2 /\ P # {}
<1>1. IsFiniteSet(P) /\ Cardinality(P) <= Cardinality(S) /\ Cardinality(P) \in Nat /\ Cardinality(S) \in Nat
  BY FS_Subset, FS_CardinalityType
<1>2. P # {}
  BY FS_EmptySet
<1> QED
  BY <1>1, <1>2

Off(groups, g) == (groups[g] < 0) # (g \in Debits)

\* The judgement on the signs, in three cases.
LEMMA SignsJudged ==
  ASSUME NEW groups
  PROVE  LET signals == Figured(groups)
             off == {g \in signals : Off(groups, g)}
         IN  /\ checkGroupSignConvention(groups) = "inverted" =>
                  \/ Cardinality(signals) >= 2 /\ off = signals
                  \/ Cardinality(signals \cap Debits) >= 2 /\ signals \cap Debits \subseteq off
                  \/ Cardinality(signals \cap Credits) >= 2 /\ signals \cap Credits \subseteq off
             /\ \A class \in {Debits, Credits} :
                  /\ Cardinality(signals \cap class) >= 2 /\ Cardinality(signals) >= 2 /\ signals \cap class # {}
                  /\ off = signals \cap class
                  => checkGroupSignConvention(groups) = "inverted"
<1> DEFINE signals == Figured(groups)
           off == {g \in signals : Off(groups, g)}
           Agrees(g) == (groups[g] < 0) = (g \in Debits)
           AllAgree(class) == class # {} /\ \A g \in class : Agrees(g)
           AllDisagree(class) == class # {} /\ \A g \in class : ~Agrees(g)
           debits == signals \cap Debits
           credits == signals \cap Credits
           Inverted(class, other) == Cardinality(class) >= 2 /\ AllDisagree(class) /\ AllAgree(other)
           inverted == (Cardinality(signals) >= 2 /\ AllDisagree(signals)) \/ Inverted(debits, credits) \/ Inverted(credits, debits)
<1>1. (checkGroupSignConvention(groups) = "inverted") <=> ~AllAgree(signals) /\ inverted
  BY DEF checkGroupSignConvention, Figured
<1>2. signals = debits \cup credits /\ debits \cap credits = {}
  BY DEF Figured, Debits, Credits
<1>3. \A g \in signals : Agrees(g) <=> g \notin off
  BY DEF Off
<1> HIDE DEF signals, Agrees
<1>4. inverted => \/ Cardinality(signals) >= 2 /\ off = signals
                  \/ Cardinality(debits) >= 2 /\ debits \subseteq off
                  \/ Cardinality(credits) >= 2 /\ credits \subseteq off
  BY <1>2, <1>3
<1>5. Cardinality(signals) >= 2 /\ Cardinality(debits) >= 2 /\ debits # {} /\ off = debits => ~AllAgree(signals) /\ inverted
  <2>1. CASE credits = {}
    BY <1>2, <1>3, <2>1
  <2>2. CASE credits # {}
    BY <1>2, <1>3, <2>2
  <2> QED BY <2>1, <2>2
<1>6. Cardinality(signals) >= 2 /\ Cardinality(credits) >= 2 /\ credits # {} /\ off = credits => ~AllAgree(signals) /\ inverted
  <2>1. CASE debits = {}
    BY <1>2, <1>3, <2>1
  <2>2. CASE debits # {}
    BY <1>2, <1>3, <2>2
  <2> QED BY <2>1, <2>2
<1> HIDE DEF AllAgree, AllDisagree, Inverted, inverted, debits, credits, off
<1>7. /\ checkGroupSignConvention(groups) = "inverted" =>
                  \/ Cardinality(signals) >= 2 /\ off = signals
                  \/ Cardinality(debits) >= 2 /\ debits \subseteq off
                  \/ Cardinality(credits) >= 2 /\ credits \subseteq off
      /\ Cardinality(debits) >= 2 /\ Cardinality(signals) >= 2 /\ debits # {} /\ off = debits
           => checkGroupSignConvention(groups) = "inverted"
      /\ Cardinality(credits) >= 2 /\ Cardinality(signals) >= 2 /\ credits # {} /\ off = credits
           => checkGroupSignConvention(groups) = "inverted"
  BY <1>1, <1>4, <1>5, <1>6
<1> QED
  BY <1>7 DEF signals, off, debits, credits, Agrees

\* A Tally that is not refused turns over at most one group of a book without oddities.
LEMMA NotInverted ==
  ASSUME NEW t \in Installations, NEW b \in Books, Odd(b) = {},
         checkGroupSignConvention(groupsRequest(t, b)) # "inverted"
  PROVE  Cardinality(Opposed(t, b)) < 2
<1> DEFINE groups == groupsRequest(t, b)
           signals == Figured(b.closing)
           off == {g \in signals : Off(groups, g)}
<1>1. /\ DOMAIN groups = DOMAIN b.closing
      /\ \A g \in DOMAIN b.closing : groups[g] = amount(t, b.closing[g], TRUE) /\ b.closing[g] \in Int
      /\ Figured(groups) = signals /\ IsFiniteSet(signals)
  BY GroupsArrive, BooksAssumption
<1>2. signals \subseteq DOMAIN b.closing /\ \A g \in signals : (b.closing[g] < 0) = (g \in Debits)
  BY DEF Odd, Figured
<1>3. \A g \in signals : b.closing[g] # 0
  BY <1>1 DEF Figured, Abs, MIN_EVIDENCE
<1>4. signals \subseteq Debits \cup Credits /\ Debits \cap Credits = {}
  BY DEF Figured, Debits, Credits
<1>5. \A class \in {Debits, Credits} :
        /\ Cardinality(signals \cap class) >= 2 /\ Cardinality(signals) >= 2 /\ signals \cap class # {}
        /\ off = signals \cap class
        => FALSE
  <2> HIDE DEF groups
  <2> QED
    BY <1>1, SignsJudged DEF groups
<1>6. Opposed(t, b) = {g \in signals : groups[g] # b.closing[g]}
  BY <1>1 DEF Opposed, Figured
<1> HIDE DEF groups, signals
<1>7. \A class \in {Debits, Credits} : Opposed(t, b) = signals \cap class => off = signals \cap class
  <2> SUFFICES ASSUME NEW class \in {Debits, Credits}, Opposed(t, b) = signals \cap class
               PROVE  off = signals \cap class
    OBVIOUS
  <2> SUFFICES ASSUME NEW g \in signals PROVE Off(groups, g) <=> g \in class
    OBVIOUS
  <2>1. groups[g] \in {b.closing[g], -b.closing[g]} /\ b.closing[g] \in Int
    BY <1>1, <1>2, AmountTurns
  <2>2. g \in class <=> groups[g] # b.closing[g]
    BY <1>6
  <2>3. (groups[g] < 0) = (b.closing[g] < 0) <=> groups[g] = b.closing[g]
    BY <1>3, <2>1
  <2> QED
    BY <1>2, <2>2, <2>3 DEF Off
<1>8. Opposed(t, b) \in {{}, signals \cap Debits, signals \cap Credits}
  <2>1. CASE t.numValue = "magnitude"
    <3>1. \A g \in signals : groups[g] = b.closing[g]
      BY <1>1, <1>2, <2>1, AmountTurns
    <3> QED BY <1>6, <3>1
  <2>2. CASE t.numValue = "debit+"
    <3>1. \A g \in signals : groups[g] = IF b.closing[g] < 0 THEN b.closing[g] ELSE -b.closing[g]
      BY <1>1, <1>2, <2>2, AmountTurns
    <3>2. \A g \in signals : b.closing[g] \in Int /\ b.closing[g] # 0 /\ (b.closing[g] < 0 <=> g \in Debits)
      BY <1>1, <1>2, <1>3
    <3>3. \A g \in signals : g \in Debits <=> g \notin Credits
      BY <1>4
    <3>4. \A g \in signals : groups[g] # b.closing[g] <=> g \in Credits
      BY <3>1, <3>2, <3>3
    <3> QED BY <1>6, <3>4
  <2>3. CASE t.numValue = "debit-"
    <3>1. \A g \in signals : groups[g] = IF b.closing[g] < 0 THEN -b.closing[g] ELSE b.closing[g]
      BY <1>1, <1>2, <2>3, AmountTurns
    <3>2. \A g \in signals : b.closing[g] \in Int /\ b.closing[g] # 0 /\ (b.closing[g] < 0 <=> g \in Debits)
      BY <1>1, <1>2, <1>3
    <3>3. \A g \in signals : g \in Debits <=> g \notin Credits
      BY <1>4
    <3>4. \A g \in signals : groups[g] # b.closing[g] <=> g \in Debits
      BY <3>1, <3>2, <3>3
    <3> QED BY <1>6, <3>4
  <2> QED
    BY <2>1, <2>2, <2>3, InstallationsAssumption
<1>9. \A class \in {Debits, Credits} : Opposed(t, b) = signals \cap class => Cardinality(Opposed(t, b)) < 2
  <2> SUFFICES ASSUME NEW class \in {Debits, Credits}, Opposed(t, b) = signals \cap class,
                      ~ Cardinality(Opposed(t, b)) < 2
               PROVE  FALSE
    OBVIOUS
  <2> DEFINE part == signals \cap class
  <2>1. part \in SUBSET signals
    OBVIOUS
  <2>2. IsFiniteSet(part) /\ Cardinality(part) \in Nat
    BY <1>1, <2>1, FS_Subset, FS_CardinalityType
  <2>3. Cardinality(part) >= 2
    BY <2>2
  <2> HIDE DEF part
  <2>4. Cardinality(signals) >= 2 /\ part # {}
    BY <1>1, <2>1, <2>3, AtLeastTwo
  <2> QED
    BY <1>5, <1>7, <2>3, <2>4 DEF part
<1>10. Cardinality({}) < 2
  BY FS_EmptySet
<1> QED
  BY <1>8, <1>9, <1>10

\* Where figures are magnitudes, it takes two odd groups to be refused.
LEMMA InvertedIsOdd ==
  ASSUME NEW t \in Installations, NEW b \in Books, t.numValue = "magnitude",
         checkGroupSignConvention(groupsRequest(t, b)) = "inverted"
  PROVE  Cardinality(Odd(b)) > 1
<1> DEFINE groups == groupsRequest(t, b)
           signals == Figured(b.closing)
           off == {g \in signals : Off(groups, g)}
<1>1. /\ \A g \in DOMAIN b.closing : groups[g] = b.closing[g]
      /\ Figured(groups) = signals /\ IsFiniteSet(signals) /\ signals \subseteq DOMAIN b.closing
  BY GroupsArrive, BooksAssumption, AmountTurns DEF Figured
<1>2. off = Odd(b)
  BY <1>1 DEF Odd, Off, Figured
<1>3. \E P \in SUBSET off : Cardinality(P) >= 2
  <2> HIDE DEF groups
  <2>1. \/ Cardinality(signals) >= 2 /\ off = signals
        \/ Cardinality(signals \cap Debits) >= 2 /\ signals \cap Debits \subseteq off
        \/ Cardinality(signals \cap Credits) >= 2 /\ signals \cap Credits \subseteq off
    BY <1>1, SignsJudged DEF groups
  <2> HIDE DEF off, signals
  <2> QED
    BY <2>1
<1>4. IsFiniteSet(off)
  BY <1>1, FS_Subset
<1>5. IsFiniteSet(Odd(b)) /\ Cardinality(Odd(b)) \in Nat
  BY <1>2, <1>4, FS_CardinalityType
<1> QED
  BY <1>2, <1>3, <1>5, AtLeastTwo

\* The closing balances of rows.
LEMMA SumOfClosing ==
  ASSUME NEW S, IsFiniteSet(S)
  PROVE  Total(S) = SumFunctionOnSet([r \in S |-> r.closing], S)
<1> DEFINE f == [r \in S |-> r.closing]
           M(g) == g = [s \in SUBSET S |-> IF s = {} THEN 0 ELSE FirstOf(s).closing + g[RestOf(s)]]
<1>1. \A g : M(g) <=> AddsUp(g, f, S)
  <2>1. \A s \in SUBSET S : s # {} => FirstOf(s) \in S
    BY RestSmaller
  <2> QED BY <2>1 DEF AddsUp
<1>2. Total(S) = (CHOOSE g : M(g))[S]
  BY DEF Total, Sum, MapThenSumSet, MapThenFoldSet, FirstOf, RestOf
<1> HIDE DEF M, f
<1>3. \E g : M(g)
  BY <1>1, AddsUpExists
<1>4. AddsUp(CHOOSE g : M(g), f, S)
  BY <1>1, <1>3
<1> QED BY <1>2, <1>4, SumIs DEF f

\* The same, turned over.
LEMMA SumOfHeld ==
  ASSUME NEW S, IsFiniteSet(S)
  PROVE  Sum(S, LAMBDA r : -r.closing) = SumFunctionOnSet([r \in S |-> -r.closing], S)
<1> DEFINE f == [r \in S |-> -r.closing]
           M(g) == g = [s \in SUBSET S |-> IF s = {} THEN 0 ELSE -FirstOf(s).closing + g[RestOf(s)]]
<1>1. \A g : M(g) <=> AddsUp(g, f, S)
  <2>1. \A s \in SUBSET S : s # {} => FirstOf(s) \in S
    BY RestSmaller
  <2> QED BY <2>1 DEF AddsUp
<1>2. Sum(S, LAMBDA r : -r.closing) = (CHOOSE g : M(g))[S]
  BY DEF Sum, MapThenSumSet, MapThenFoldSet, FirstOf, RestOf
<1> HIDE DEF M, f
<1>3. \E g : M(g)
  BY <1>1, AddsUpExists
<1>4. AddsUp(CHOOSE g : M(g), f, S)
  BY <1>1, <1>3
<1> QED BY <1>2, <1>4, SumIs DEF f

StockRows == [name : STRING, parent : STRING, closing : Int]

\* The value of stock is a figure.
LEMMA TotalType ==
  ASSUME NEW rows, IsFiniteSet(rows), rows \subseteq StockRows
  PROVE  /\ Total(rows) \in Int
         /\ (\A r \in rows : r.closing <= 0) => Total(rows) <= 0
<1> DEFINE f == [r \in rows |-> r.closing]
<1>1. \A r \in rows : f[r] \in Int /\ f[r] = r.closing
  BY DEF StockRows
<1>2. Total(rows) = SumFunctionOnSet(f, rows)
  BY SumOfClosing
<1> HIDE DEF f
<1>3. Total(rows) \in Int
  BY <1>1, <1>2, FiguresType
<1>4. (\A r \in rows : r.closing <= 0) => Total(rows) <= 0
  BY <1>1, <1>2, FiguresNotPositive
<1> QED
  BY <1>3, <1>4

\* The card turns the value over.
LEMMA CardTurns ==
  ASSUME NEW rows, IsFiniteSet(rows), rows \subseteq StockRows
  PROVE  stockCard(rows).total = -Total(rows)
<1> DEFINE f == [r \in rows |-> r.closing]
           g == [r \in rows |-> -r.closing]
<1>1. \A r \in rows : f[r] \in Int /\ g[r] = -f[r]
  BY DEF StockRows
<1>2. Total(rows) = SumFunctionOnSet(f, rows) /\ Sum(rows, LAMBDA r : -r.closing) = SumFunctionOnSet(g, rows)
  BY SumOfClosing, SumOfHeld
<1>3. stockCard(rows).total = Sum(rows, LAMBDA r : -r.closing)
  BY DEF stockCard
<1> HIDE DEF f, g
<1>4. SumFunctionOnSet(g, rows) = -SumFunctionOnSet(f, rows)
  BY <1>1, FiguresNegate
<1> QED
  BY <1>2, <1>3, <1>4

\* Rows of stock, turned over or not.
Flipped(rows, turned) == {[r EXCEPT !.closing = IF turned THEN -r.closing ELSE r.closing] : r \in rows}

\* The value of rows that are turned over is turned over.
LEMMA FlippedTotal ==
  ASSUME NEW rows, IsFiniteSet(rows), rows \subseteq StockRows, NEW turned \in BOOLEAN
  PROVE  /\ IsFiniteSet(Flipped(rows, turned))
         /\ Flipped(rows, turned) \subseteq StockRows
         /\ Total(Flipped(rows, turned)) = IF turned THEN -Total(rows) ELSE Total(rows)
<1> DEFINE h == [r \in rows |-> [r EXCEPT !.closing = IF turned THEN -r.closing ELSE r.closing]]
           flipped == Flipped(rows, turned)
           f == [r \in rows |-> r.closing]
           arrived == [r \in rows |-> IF turned THEN -r.closing ELSE r.closing]
           g == [r \in flipped |-> r.closing]
<1>1. flipped = {h[r] : r \in rows}
  BY DEF Flipped
<1>2. \A r \in rows : h[r] \in StockRows /\ h[r].closing = arrived[r] /\ arrived[r] \in Int /\ f[r] \in Int /\ f[r] = r.closing
  BY DEF StockRows
<1>3. \A x, y \in rows : h[x] = h[y] => x = y
  <2> SUFFICES ASSUME NEW x \in rows, NEW y \in rows, h[x] = h[y] PROVE x = y
    OBVIOUS
  <2>1. x \in StockRows /\ y \in StockRows
    OBVIOUS
  <2>2. h[x].name = x.name /\ h[x].parent = x.parent /\ h[y].name = y.name /\ h[y].parent = y.parent
    BY <2>1 DEF StockRows
  <2>3. x.closing = y.closing
    <3>1. arrived[x] = arrived[y]
      <4>1. h[x].closing = arrived[x] /\ h[y].closing = arrived[y]
        BY <1>2
      <4> HIDE DEF h, arrived
      <4> QED
        BY <4>1
    <3>2. x.closing \in Int /\ y.closing \in Int
      BY <2>1 DEF StockRows
    <3> QED BY <3>1, <3>2
  <2>4. x.name = y.name /\ x.parent = y.parent
    <3> HIDE DEF h
    <3> QED BY <2>2
  <2> QED
    BY <2>1, <2>3, <2>4 DEF StockRows
<1>4. \A r \in rows : g[h[r]] = arrived[r]
  BY <1>1, <1>2
<1>5. turned => \A r \in rows : f[r] \in Int /\ arrived[r] = -f[r]
  BY <1>2
<1>6. ~turned => \A r \in rows : f[r] \in Int /\ arrived[r] = f[r]
  BY <1>2
<1>7. Total(rows) = SumFunctionOnSet(f, rows)
  BY SumOfClosing
<1> HIDE DEF h, f, arrived
<1>8. IsFiniteSet(flipped) /\ SumFunctionOnSet(g, flipped) = SumFunctionOnSet(arrived, rows)
  <2> HIDE DEF g, flipped
  <2> QED
    BY <1>1, <1>2, <1>3, <1>4, FiguresRenamed
<1>9. Total(flipped) = SumFunctionOnSet(g, flipped)
  BY <1>8, SumOfClosing
<1>10. flipped \subseteq StockRows
  BY <1>1, <1>2
<1>11. SumFunctionOnSet(arrived, rows) = IF turned THEN -SumFunctionOnSet(f, rows) ELSE SumFunctionOnSet(f, rows)
  <2>1. CASE turned
    BY <1>5, <2>1, FiguresNegate
  <2>2. CASE ~turned
    BY <1>6, <2>2, FiguresSame
  <2> QED
    BY <2>1, <2>2
<1> HIDE DEF g, flipped
<1>12. IsFiniteSet(flipped) /\ flipped \subseteq StockRows /\ Total(flipped) = IF turned THEN -Total(rows) ELSE Total(rows)
  BY <1>7, <1>8, <1>9, <1>10, <1>11
<1> QED
  BY <1>12 DEF flipped

\* A Tally turns the value of all stock over, or of none.
Turned(t) == amount(t, -1, t.stockDebit) = 1

\* Stock that is an asset arrives the same way throughout.
LEMMA RowsArrive ==
  ASSUME NEW t \in Installations, NEW rows, rows \subseteq StockRows, \A r \in rows : r.closing <= 0
  PROVE  Answered(t, rows, t.stockDebit) = Flipped(rows, Turned(t))
<1>1. \A r \in rows : r.closing \in Int /\ r.closing <= 0
  BY DEF StockRows
<1> DEFINE same == IF t.stockDebit THEN t.numValue = "debit-" ELSE t.numValue # "debit-"
<1>2. \A n \in Int : n <= 0 => amount(t, n, t.stockDebit) = IF same THEN -n ELSE n
  <2> SUFFICES ASSUME NEW n \in Int, n <= 0 PROVE amount(t, n, t.stockDebit) = IF same THEN -n ELSE n
    OBVIOUS
  <2>1. NumValue(t, n) = IF t.numValue = "debit-" THEN n ELSE -n
    BY InstallationsAssumption DEF NumValue, Abs
  <2>2. t.stockDebit \in BOOLEAN
    BY InstallationsAssumption
  <2>3. CASE n = 0
    BY <2>1, <2>2, <2>3 DEF amount
  <2>4. CASE n < 0
    <3>1. CASE t.stockDebit
      BY <2>1, <2>4, <3>1 DEF amount
    <3>2. CASE ~t.stockDebit
      BY <2>1, <2>2, <2>4, <3>2 DEF amount
    <3> QED
      BY <3>1, <3>2
  <2> QED
    BY <2>3, <2>4
<1>3. Turned(t) = same
  BY <1>2 DEF Turned
<1> HIDE DEF same
<1> QED
  BY <1>1, <1>2, <1>3 DEF Answered, Flipped

\* The same of all the stock of a company.
LEMMA StockArrives ==
  ASSUME NEW t \in Installations, NEW b \in Books, StockIsAsset(b)
  PROVE  stockRequest(t, b) = Flipped(b.stock, Turned(t))
<1>1. b.stock \subseteq StockRows
  BY BooksAssumption DEF StockRows
<1>2. \A r \in b.stock : r.closing <= 0
  BY DEF StockIsAsset
<1> QED
  BY <1>1, <1>2, RowsArrive DEF stockRequest

\* A row keeps its name on the way, by which it is refused or not.
LEMMA AcceptedArrive ==
  ASSUME NEW t, NEW mishap, NEW rows, rows \subseteq StockRows
  PROVE  Accepted(Answered(t, rows, t.stockDebit), mishap) = Answered(t, Accepted(rows, mishap), t.stockDebit)
<1> DEFINE arrived(r) == [r EXCEPT !.closing = amount(t, r.closing, t.stockDebit)]
<1>1. \A r \in rows : arrived(r).name = r.name
  BY DEF StockRows
<1>2. Answered(t, rows, t.stockDebit) = {arrived(r) : r \in rows}
  BY DEF Answered
<1>3. Answered(t, Accepted(rows, mishap), t.stockDebit) = {arrived(r) : r \in Accepted(rows, mishap)}
  BY DEF Answered
<1> HIDE DEF arrived
<1> QED
  BY <1>1, <1>2, <1>3 DEF Accepted

\* The quirk turns all rows over, or none.
LEMMA QuirkTurns ==
  ASSUME NEW quirk, NEW rows, rows \subseteq StockRows
  PROVE  stockRows(quirk, rows) = Flipped(rows, quirk.stockValueSign = "positive_magnitude")
<1>1. \A r \in rows : [r EXCEPT !.closing = r.closing] = r
  BY DEF StockRows
<1>2. {[r EXCEPT !.closing = r.closing] : r \in rows} = rows
  BY <1>1
<1> QED
  BY <1>2 DEF stockRows, Flipped

\* Rows that were told apart were told apart rightly; otherwise there was nothing to tell them by.
LEMMA RowsJudged ==
  ASSUME NEW t \in Installations, NEW b \in Books,
         NEW rows, IsFiniteSet(rows), rows \subseteq StockRows, \A r \in rows : r.closing <= 0
  PROVE  LET sign == checkStockSignConvention(Answered(t, rows, t.stockDebit),
                                              Closing(groupsRequest(t, b), "Stock-in-Hand"))
         IN  /\ sign = "positive_magnitude" <=> sign # "unknown" /\ Turned(t)
             /\ sign = "unknown" =>
                  Total(rows) > -MIN_EVIDENCE \/ ~Telling(b) \/ t.numValue = "debit-"
<1> DEFINE arrived == Answered(t, rows, t.stockDebit)
           hand == Closing(groupsRequest(t, b), "Stock-in-Hand")
           held == Closing(b.closing, "Stock-in-Hand")
           sum == Total(arrived)
           sign == checkStockSignConvention(arrived, hand)
<1>2. arrived = Flipped(rows, Turned(t)) /\ Turned(t) \in BOOLEAN
  BY RowsArrive DEF Turned
<1>3. Total(rows) \in Int /\ Total(rows) <= 0
  BY TotalType
<1>4. sum = IF Turned(t) THEN -Total(rows) ELSE Total(rows)
  BY <1>2, <1>3, FlippedTotal
<1>5. sign = IF Abs(sum) < MIN_EVIDENCE \/ hand = Absent \/ hand > -MIN_EVIDENCE THEN "unknown"
             ELSE IF sum < 0 THEN "dr_negative" ELSE "positive_magnitude"
  BY DEF checkStockSignConvention, Total
<1> HIDE DEF arrived, sign, sum, hand
<1>6. sign = "positive_magnitude" <=> sign # "unknown" /\ Turned(t)
  BY <1>2, <1>3, <1>4, <1>5 DEF Abs, MIN_EVIDENCE
<1>7. hand = IF held = Absent THEN Absent ELSE amount(t, held, TRUE)
  BY GroupsArrive, BooksAssumption, AbsentAssumption DEF Closing, hand
<1>8. ASSUME t.numValue # "debit-", Telling(b) PROVE hand # Absent /\ hand \in Int /\ hand <= -MIN_EVIDENCE
  <2>1. held # Absent /\ held <= -MIN_EVIDENCE
    BY <1>8 DEF Telling
  <2>2. held \in Int
    BY <2>1, BooksAssumption DEF Closing
  <2>3. amount(t, held, TRUE) = held
    <3> HIDE DEF held
    <3>1. t.numValue \in {"magnitude", "debit+"}
      BY <1>8, InstallationsAssumption
    <3>2. held < 0
      BY <2>1, <2>2 DEF MIN_EVIDENCE
    <3> QED
      BY <2>2, <3>1, <3>2, AmountTurns
  <2> QED
    BY <1>7, <2>1, <2>2, <2>3
<1>9. sign = "unknown" => Total(rows) > -MIN_EVIDENCE \/ ~Telling(b) \/ t.numValue = "debit-"
  <2> SUFFICES ASSUME sign = "unknown", Telling(b), t.numValue # "debit-" PROVE Total(rows) > -MIN_EVIDENCE
    OBVIOUS
  <2>1. hand # Absent /\ hand \in Int /\ hand <= -MIN_EVIDENCE
    BY <1>8
  <2>2. Abs(sum) < MIN_EVIDENCE
    BY <1>5, <2>1 DEF MIN_EVIDENCE
  <2> QED
    BY <1>2, <1>3, <1>4, <2>2 DEF Abs, MIN_EVIDENCE
<1> QED
  BY <1>6, <1>9 DEF sign, arrived, hand

\* What could be read of the stock is some of it.
LEMMA LegibleStock ==
  ASSUME NEW b \in Books, NEW mishap
  PROVE  LET stock == Legible(b, mishap).stock
         IN  stock \subseteq b.stock /\ stock \subseteq StockRows /\ IsFiniteSet(stock)
<1>1. b.stock \subseteq StockRows /\ IsFiniteSet(b.stock)
  BY BooksAssumption DEF StockRows
<1>2. Legible(b, mishap).stock \subseteq b.stock
  BY DEF Legible, Accepted
<1> QED
  BY <1>1, <1>2, FS_Subset

\* A probe that tells the value of the stock tells it rightly; one that does not had
\* nothing to tell it by that it could read.
LEMMA StockJudged ==
  ASSUME NEW t \in Installations, NEW b \in Books, NEW mishap, NEW oracle,
         StockIsAsset(Legible(b, mishap)),
         oracle.stockInHandClosing = Closing(groupsRequest(t, b), "Stock-in-Hand")
  PROVE  LET sign == probeStockSign(t, b, oracle, mishap)
             legible == Legible(b, mishap)
         IN  /\ sign = "positive_magnitude" <=> sign # "unknown" /\ Turned(t)
             /\ sign = "unknown" =>
                  Total(legible.stock) > -MIN_EVIDENCE \/ ~Telling(legible) \/ t.numValue = "debit-"
<1> DEFINE legible == Legible(b, mishap)
           sign == probeStockSign(t, b, oracle, mishap)
           hand == Closing(groupsRequest(t, b), "Stock-in-Hand")
<1>1. /\ legible.closing = b.closing
      /\ legible.stock = IF Fails(mishap, "stock") THEN {} ELSE Accepted(b.stock, mishap)
  BY DEF Legible
<1>2. legible.stock \subseteq StockRows /\ IsFiniteSet(legible.stock)
  BY LegibleStock
<1>3. \A r \in legible.stock : r.closing <= 0
  BY DEF StockIsAsset
<1>4. CASE Fails(mishap, "stock")
  <2>1. sign = "unknown"
    BY <1>4 DEF probeStockSign
  <2>2. Total(legible.stock) = 0
    <3>1. Total({}) = SumFunctionOnSet([r \in {} |-> r.closing], {})
      BY SumOfClosing, FS_EmptySet
    <3> QED
      BY <1>1, <1>4, <3>1, SumEmpty
  <2> HIDE DEF sign, legible
  <2> QED
    BY <2>1, <2>2 DEF MIN_EVIDENCE, sign, legible
<1>5. CASE ~Fails(mishap, "stock")
  <2>1. Accepted(stockRequest(t, b), mishap) = Answered(t, legible.stock, t.stockDebit)
    <3>1. b.stock \subseteq StockRows
      BY BooksAssumption DEF StockRows
    <3> QED
      BY <1>1, <1>5, <3>1, AcceptedArrive DEF stockRequest
  <2>2. sign = checkStockSignConvention(Answered(t, legible.stock, t.stockDebit), hand)
    BY <1>5, <2>1 DEF probeStockSign
  <2>3. Telling(b) <=> Telling(legible)
    BY <1>1 DEF Telling
  <2> HIDE DEF sign, legible, hand
  <2>4. /\ sign = "positive_magnitude" <=> sign # "unknown" /\ Turned(t)
        /\ sign = "unknown" =>
             Total(legible.stock) > -MIN_EVIDENCE \/ ~Telling(b) \/ t.numValue = "debit-"
    BY <1>2, <1>3, <2>2, RowsJudged DEF hand
  <2> QED
    BY <2>3, <2>4 DEF sign, legible
<1> QED
  BY <1>4, <1>5

\* What the groups say, if they could be had.
LEMMA OracleIs ==
  ASSUME NEW t, NEW b, NEW mishap, fetchGroupOracle(t, b, mishap) # Absent
  PROVE  /\ fetchGroupOracle(t, b, mishap).signs = checkGroupSignConvention(groupsRequest(t, b))
         /\ fetchGroupOracle(t, b, mishap).stockInHandClosing = Closing(groupsRequest(t, b), "Stock-in-Hand")
BY DEF fetchGroupOracle

\* A probe that does not refuse a Tally.
LEMMA ProbeAccepts ==
  ASSUME NEW t, NEW b, NEW d, NEW mishap, probeCapabilities(t, b, d, mishap).refused = Absent
  PROVE  /\ checkGroupSignConvention(groupsRequest(t, b)) # "inverted"
         /\ fetchGroupOracle(t, b, mishap) # Absent
         /\ probeCapabilities(t, b, d, mishap).probedAt = d
         /\ probeCapabilities(t, b, d, mishap).stockValueSign
              = probeStockSign(t, b, fetchGroupOracle(t, b, mishap), mishap)
<1> DEFINE signs == checkGroupSignConvention(groupsRequest(t, b))
           oracle == fetchGroupOracle(t, b, mishap)
           variant == probeBillsVariant(t, b, oracle, mishap)
           quirk == [refused |-> Absent,
                     useGroupBankFunctions |-> probeBankFunctions(t, b, oracle, mishap),
                     billsVariant |-> variant,
                     amountSigns |-> oracle.signs,
                     stockValueSign |-> probeStockSign(t, b, oracle, mishap),
                     probedAt |-> d]
           probed == probeCapabilities(t, b, d, mishap)
<1>1. oracle # Absent => oracle.signs = signs
  BY OracleIs
<1> HIDE DEF oracle, signs, variant
<1>2. \/ probed = [refused |-> "no groups"]
      \/ probed = [refused |-> "inverted"]
      \/ probed = [refused |-> "no bills"]
      \/ oracle # Absent /\ oracle.signs # "inverted" /\ probed = quirk
  BY DEF probeCapabilities, oracle, variant
<1>3. oracle # Absent /\ oracle.signs # "inverted" /\ probed = quirk
  <2> HIDE DEF probed, quirk
  <2>1. probed.refused = Absent
    BY DEF probed
  <2>2. \A why \in {"no groups", "inverted", "no bills"} : probed # [refused |-> why]
    <3> SUFFICES ASSUME NEW why \in {"no groups", "inverted", "no bills"}, probed = [refused |-> why] PROVE FALSE
      OBVIOUS
    <3>1. probed.refused = why
      OBVIOUS
    <3> QED
      BY <2>1, <3>1, AbsentAssumption
  <2> QED
    BY <1>2, <2>2
<1>4. /\ oracle # Absent /\ signs # "inverted" /\ probed.probedAt = d
      /\ probed.stockValueSign = probeStockSign(t, b, oracle, mishap)
  <2> HIDE DEF probed
  <2> QED
    BY <1>1, <1>3
<1> QED
  BY <1>4 DEF signs, oracle

-----------------------------------------------------------------------------
(* The machine: verdicts that are used are those of a probe, not too old.  *)

KeptDays(quirk) == IF quirk.stockValueSign = "unknown" THEN DAYS_UNRESOLVED ELSE DAYS_RESOLVED

Judged ==
  \E d \in 0 .. day, book \in Books, mishap \in Mishaps :
    /\ quirks = probeCapabilities(tally, book, d, mishap)
    /\ quirks.refused = Absent
    /\ probedOn = Legible(book, mishap)

VerdictsKept ==
  /\ tally \in Installations
  /\ books \in [Companies -> Books]
  /\ day \in Nat
  /\ pulling \in Companies \cup {Absent}
  /\ quirks # Absent => Judged
  /\ pulling # Absent => Judged /\ day - quirks.probedAt <= KeptDays(quirks)

\* Verdicts that were judged carry the day they were judged.
LEMMA JudgedAt == day \in Nat /\ Judged => quirks.probedAt \in 0 .. day
BY ProbeAccepts DEF Judged

\* Nothing has been judged in the initial state.
LEMMA InitKept == Init => VerdictsKept
BY DEF Init, VerdictsKept

\* Every step keeps the verdicts it uses; the probe that makes new ones is of the day.
LEMMA StepKept == VerdictsKept /\ [Next]_vars => VerdictsKept'
<1> SUFFICES ASSUME VerdictsKept, [Next]_vars PROVE VerdictsKept'
  OBVIOUS
<1>1. ASSUME UNCHANGED <<tally, day, quirks, probedOn, pulling>>, books' \in [Companies -> Books]
      PROVE  VerdictsKept'
  BY <1>1 DEF VerdictsKept, Judged, KeptDays
<1>2. CASE NextDay
  <2>1. day' = day + 1 /\ pulling = Absent /\ UNCHANGED <<tally, books, quirks, probedOn, pulling>>
    BY <1>2 DEF NextDay
  <2>2. Judged => Judged'
    BY <2>1 DEF Judged, VerdictsKept
  <2> QED
    BY <2>1, <2>2 DEF VerdictsKept
<1>3. CASE Extract
  <2>1. pulling' = Absent /\ UNCHANGED <<tally, books, day, quirks, probedOn>>
    BY <1>3 DEF Extract
  <2>2. Judged => Judged'
    BY <2>1 DEF Judged
  <2> QED
    BY <2>1, <2>2 DEF VerdictsKept
<1>4. ASSUME NEW c \in Companies, Trade(c) PROVE VerdictsKept'
  <2>1. UNCHANGED <<tally, day, quirks, probedOn, pulling>>
    BY <1>4 DEF Trade
  <2>2. books' \in [Companies -> Books]
    BY <1>4 DEF Trade, VerdictsKept
  <2> QED
    BY <1>1, <2>1, <2>2
<1>5. ASSUME NEW c \in Companies, ensureQuirks(c) PROVE VerdictsKept'
  <2> DEFINE probed(mishap) == probeCapabilities(tally, books[c], day, mishap)
  <2>1. UNCHANGED <<tally, books, day>> /\ books' \in [Companies -> Books]
    BY <1>5 DEF ensureQuirks, VerdictsKept
  <2>2. CASE ~shouldReprobe(quirks, day)
    <3>1. pulling' = c /\ UNCHANGED <<quirks, probedOn>>
      BY <1>5, <2>2 DEF ensureQuirks
    <3>2. Judged /\ Judged'
      BY <2>1, <2>2, <3>1 DEF VerdictsKept, Judged, shouldReprobe
    <3>3. day - quirks.probedAt <= KeptDays(quirks)
      <4>1. ~ (day - quirks.probedAt > KeptDays(quirks))
        BY <2>2 DEF shouldReprobe, KeptDays
      <4>2. quirks.probedAt \in Int /\ day \in Int /\ KeptDays(quirks) \in Int
        BY <3>2, JudgedAt, DaysAssumption DEF VerdictsKept, KeptDays
      <4> QED
        BY <4>1, <4>2
    <3> QED
      BY <2>1, <3>1, <3>2, <3>3 DEF VerdictsKept, KeptDays
  <2>3. CASE shouldReprobe(quirks, day) /\ UNCHANGED <<quirks, probedOn, pulling>>
    BY <1>1, <2>1, <2>3
  <2>4. ASSUME NEW mishap \in Mishaps, probed(mishap).refused = Absent,
               quirks' = probed(mishap), probedOn' = Legible(books[c], mishap), pulling' = c
        PROVE  VerdictsKept'
    <3>1. quirks' = probed(mishap) /\ probedOn' = Legible(books[c], mishap) /\ pulling' = c
      BY <2>4
    <3>2. probed(mishap).probedAt = day /\ books[c] \in Books /\ day \in Nat
      BY <2>4, ProbeAccepts DEF VerdictsKept
    <3>3. Judged'
      <4>1. /\ quirks' = probeCapabilities(tally', books[c], day', mishap) /\ quirks'.refused = Absent
            /\ books[c] \in Books /\ probedOn' = Legible(books[c], mishap)
        BY <2>1, <2>4, <3>1, <3>2
      <4>2. day' \in 0 .. day'
        BY <2>1, <3>2
      <4> QED
        BY <4>1, <4>2 DEF Judged
    <3>4. day' - quirks'.probedAt <= KeptDays(quirks')
      <4>1. day' - quirks'.probedAt = 0
        BY <2>1, <3>1, <3>2
      <4> HIDE DEF probed
      <4> QED
        BY <4>1, DaysAssumption DEF KeptDays
    <3> QED
      BY <2>1, <3>1, <3>3, <3>4 DEF VerdictsKept, KeptDays
  <2>5. CASE shouldReprobe(quirks, day)
    <3>1. PICK mishap \in Mishaps :
            IF probed(mishap).refused # Absent
              THEN UNCHANGED <<quirks, probedOn, pulling>>
              ELSE quirks' = probed(mishap) /\ probedOn' = Legible(books[c], mishap) /\ pulling' = c
      BY <1>5, <2>5 DEF ensureQuirks
    <3> HIDE DEF probed
    <3> QED
      BY <2>3, <2>4, <2>5, <3>1
  <2> QED
    BY <2>2, <2>5
<1>6. CASE UNCHANGED vars
  BY <1>1, <1>6 DEF vars, VerdictsKept
<1> QED
  BY <1>2, <1>3, <1>4, <1>5, <1>6 DEF Next

\* The verdicts a pull goes by are those of a probe that refused nothing, and of a
\* day that is not too long ago.
THEOREM VerdictsAlwaysKept == Spec => []VerdictsKept
BY InitKept, StepKept, PTL DEF Spec

-----------------------------------------------------------------------------
(* What is published *)

\* A step that publishes nothing new.
LEMMA ShownKept == UNCHANGED <<tally, shown>> => (CollapseNeverPublished => CollapseNeverPublished')
                                                  /\ (StockRightWayRound => StockRightWayRound')
BY DEF CollapseNeverPublished, StockRightWayRound, Published

\* A step after which nothing is published.
LEMMA NothingShown == shown' = Nothing => CollapseNeverPublished' /\ StockRightWayRound'
<1>1. Nothing.refused = Absent /\ Nothing.cards = Absent
  BY DEF Nothing
<1> QED
  BY <1>1, AbsentAssumption DEF CollapseNeverPublished, StockRightWayRound, Published

\* Only a pull and a probe show anything.
LEMMA OnlyPullsShow ==
  ASSUME VerdictsKept, [Next]_vars
  PROVE  \/ UNCHANGED <<tally, shown>>
         \/ shown' = Nothing
         \/ Extract
         \/ \E c \in Companies, mishap \in Mishaps :
              LET probed == probeCapabilities(tally, books[c], day, mishap)
              IN  probed.refused # Absent /\ shown' = Refusal(c, probed.refused) /\ tally' = tally
<1>1. CASE NextDay
  BY <1>1 DEF NextDay
<1>2. ASSUME NEW c \in Companies, Trade(c) PROVE UNCHANGED <<tally, shown>>
  BY <1>2 DEF Trade
<1>3. ASSUME NEW c \in Companies, ensureQuirks(c)
      PROVE  \/ shown' = Nothing
             \/ \E mishap \in Mishaps :
                  LET probed == probeCapabilities(tally, books[c], day, mishap)
                  IN  probed.refused # Absent /\ shown' = Refusal(c, probed.refused) /\ tally' = tally
  BY <1>3 DEF ensureQuirks
<1>4. CASE UNCHANGED vars
  BY <1>4 DEF vars
<1> QED
  BY <1>1, <1>2, <1>3, <1>4 DEF Next

\* A refusal shows no card.
LEMMA RefusalIs ==
  ASSUME NEW c, NEW why
  PROVE  Refusal(c, why).refused = why /\ Refusal(c, why).cards = Absent /\ Refusal(c, why).of = books[c]
BY DEF Refusal, Nothing

\* The reason for which a probe refuses a Tally.
LEMMA ProbeRefuses ==
  ASSUME NEW t, NEW b, NEW d, NEW mishap, probeCapabilities(t, b, d, mishap).refused = "inverted"
  PROVE  checkGroupSignConvention(groupsRequest(t, b)) = "inverted"
<1> DEFINE signs == checkGroupSignConvention(groupsRequest(t, b))
           oracle == fetchGroupOracle(t, b, mishap)
           probed == probeCapabilities(t, b, d, mishap)
<1>1. oracle # Absent => oracle.signs = signs
  BY OracleIs
<1> HIDE DEF oracle, signs
<1>2. \/ probed = [refused |-> "no groups"]
      \/ probed = [refused |-> "no bills"]
      \/ oracle # Absent /\ oracle.signs = "inverted"
      \/ probed.refused = Absent
  BY DEF probeCapabilities, oracle
<1>3. \A why \in {"no groups", "no bills"} : probed # [refused |-> why]
  <2> HIDE DEF probed
  <2> SUFFICES ASSUME NEW why \in {"no groups", "no bills"}, probed = [refused |-> why] PROVE FALSE
    OBVIOUS
  <2>1. probed.refused = why
    OBVIOUS
  <2>2. probed.refused = "inverted"
    BY DEF probed
  <2> QED
    BY <2>1, <2>2
<1>4. oracle # Absent /\ oracle.signs = "inverted"
  BY <1>2, <1>3, AbsentAssumption
<1> QED
  BY <1>1, <1>4 DEF signs

\* A pull shows a refusal, or the cards of the company by the verdicts that are kept.
LEMMA PullShows ==
  ASSUME Extract
  PROVE  /\ tally' = tally
         /\ \/ shown' = Refusal(pulling, "section")
            \/ /\ shown'.refused = Absent
               /\ shown'.cards = buildCompanyCards(extractSection(tally, quirks, books[pulling]))
               /\ shown'.of = books[pulling] /\ shown'.by = quirks /\ shown'.probedOn = probedOn
               /\ shown'.age = day - quirks.probedAt
<1> DEFINE sections == extractSection(tally, quirks, books[pulling])
           cards == buildCompanyCards(sections)
           result == [refused |-> Absent, cards |-> cards, of |-> books[pulling],
                      by |-> quirks, probedOn |-> probedOn, age |-> day - quirks.probedAt]
<1>1. tally' = tally /\ (shown' = Refusal(pulling, "section") \/ shown' = result)
  BY DEF Extract
<1> HIDE DEF sections, cards
<1>2. /\ result.refused = Absent /\ result.cards = cards /\ result.of = books[pulling]
      /\ result.by = quirks /\ result.probedOn = probedOn /\ result.age = day - quirks.probedAt
  OBVIOUS
<1> QED
  BY <1>1, <1>2 DEF cards, sections

\* No step publishes a collapsed book, or refuses one that merely has an odd group.
LEMMA StepCollapse == VerdictsKept /\ CollapseNeverPublished /\ [Next]_vars => CollapseNeverPublished'
<1> SUFFICES ASSUME VerdictsKept, CollapseNeverPublished, [Next]_vars PROVE CollapseNeverPublished'
  OBVIOUS
<1>1. CASE UNCHANGED <<tally, shown>>
  BY <1>1, ShownKept
<1>0. CASE shown' = Nothing
  BY <1>0, NothingShown
<1>2. ASSUME NEW c \in Companies, NEW why, shown' = Refusal(c, why), tally' = tally,
             why = "inverted" => \E mishap \in Mishaps : why = probeCapabilities(tally, books[c], day, mishap).refused
      PROVE  CollapseNeverPublished'
  <2>1. shown'.refused = why /\ shown'.cards = Absent /\ shown'.of = books[c]
    BY <1>2, RefusalIs
  <2>2. why = "inverted" /\ tally.numValue = "magnitude" => Cardinality(Odd(books[c])) > 1
    <3>1. tally \in Installations /\ books[c] \in Books
      BY DEF VerdictsKept
    <3> QED
      BY <1>2, <3>1, ProbeRefuses, InvertedIsOdd
  <2> QED
    BY <1>2, <2>1, <2>2 DEF CollapseNeverPublished, Published
<1>3. CASE Extract
  <2>1. tally' = tally /\ pulling \in Companies /\ Judged
    BY <1>3, PullShows DEF VerdictsKept, Extract
  <2>2. CASE shown' = Refusal(pulling, "section")
    BY <1>2, <2>1, <2>2
  <2>3. CASE /\ shown'.refused = Absent
             /\ shown'.probedOn = probedOn
    <3>1. Odd(probedOn) = {} => Cardinality(Opposed(tally, probedOn)) < 2
      <4>1. PICK d \in 0 .. day, book \in Books, mishap \in Mishaps :
              /\ quirks = probeCapabilities(tally, book, d, mishap) /\ quirks.refused = Absent
              /\ probedOn = Legible(book, mishap)
        BY <2>1 DEF Judged
      <4>2. tally \in Installations /\ probedOn.closing = book.closing
        BY <4>1 DEF Legible, VerdictsKept
      <4>3. checkGroupSignConvention(groupsRequest(tally, book)) # "inverted"
        BY <4>1, ProbeAccepts
      <4>4. Odd(book) = {} => Cardinality(Opposed(tally, book)) < 2
        BY <4>2, <4>3, NotInverted
      <4>5. Odd(probedOn) = Odd(book) /\ Opposed(tally, probedOn) = Opposed(tally, book)
        BY <4>2 DEF Odd, Opposed
      <4> QED
        BY <4>4, <4>5
    <3> QED
      BY <2>1, <2>3, <3>1, AbsentAssumption DEF CollapseNeverPublished
  <2> QED
    BY <1>3, <2>2, <2>3, PullShows
<1> QED
  BY <1>0, <1>1, <1>2, <1>3, OnlyPullsShow

\* One side of the books that arrives on the other is never shown, and an odd group
\* does not stop a Tally that counts as the code assumes.
THEOREM CollapseIsNeverPublished == Spec => []CollapseNeverPublished
<1>1. Init => CollapseNeverPublished
  <2> SUFFICES ASSUME Init PROVE CollapseNeverPublished
    OBVIOUS
  <2>1. shown.refused = Absent /\ shown.cards = Absent
    BY DEF Init, Nothing
  <2> QED
    BY <2>1, AbsentAssumption DEF CollapseNeverPublished, Published
<1> QED
  BY <1>1, StepCollapse, VerdictsAlwaysKept, PTL DEF Spec

\* The stock of a card is that of the books, by verdicts that could tell.
LEMMA StockOfCard ==
  ASSUME NEW t \in Installations, NEW b \in Books, NEW book \in Books, NEW d, NEW mishap, NEW quirk,
         quirk = probeCapabilities(t, book, d, mishap), quirk.refused = Absent,
         NEW judgedOn, judgedOn = Legible(book, mishap), StockIsAsset(b), StockIsAsset(judgedOn)
  PROVE  \/ buildCompanyCards(extractSection(t, quirk, b)).stock.total = -Total(b.stock)
         \/ /\ quirk.stockValueSign = "unknown"
            /\ Total(judgedOn.stock) > -MIN_EVIDENCE \/ ~Telling(judgedOn) \/ t.numValue = "debit-"
<1> DEFINE oracle == fetchGroupOracle(t, book, mishap)
           arrived == stockRequest(t, b)
           turned == quirk.stockValueSign = "positive_magnitude"
           rows == stockRows(quirk, arrived)
<1>1. quirk.stockValueSign = probeStockSign(t, book, oracle, mishap) /\ oracle # Absent
  BY ProbeAccepts
<1>2. oracle.stockInHandClosing = Closing(groupsRequest(t, book), "Stock-in-Hand")
  BY <1>1, OracleIs
<1>3. /\ turned <=> quirk.stockValueSign # "unknown" /\ Turned(t)
      /\ quirk.stockValueSign = "unknown" =>
           Total(judgedOn.stock) > -MIN_EVIDENCE \/ ~Telling(judgedOn) \/ t.numValue = "debit-"
  <2> HIDE DEF oracle
  <2> QED
    BY <1>1, <1>2, StockJudged
<1>4. IsFiniteSet(b.stock) /\ b.stock \subseteq StockRows /\ Total(b.stock) \in Int /\ Turned(t) \in BOOLEAN
  BY BooksAssumption, TotalType DEF StockRows, Turned
<1>5. /\ IsFiniteSet(arrived) /\ arrived \subseteq StockRows
      /\ Total(arrived) = IF Turned(t) THEN -Total(b.stock) ELSE Total(b.stock)
  BY <1>4, StockArrives, FlippedTotal
<1>6. /\ IsFiniteSet(rows) /\ rows \subseteq StockRows
      /\ Total(rows) = IF turned THEN -Total(arrived) ELSE Total(arrived)
  <2>1. rows = Flipped(arrived, turned)
    <3> HIDE DEF arrived
    <3> QED BY <1>5, QuirkTurns
  <2> HIDE DEF arrived, rows
  <2> QED
    BY <1>5, <2>1, FlippedTotal
<1>7. buildCompanyCards(extractSection(t, quirk, b)).stock = stockCard(rows)
  BY DEF buildCompanyCards, extractSection
<1>8. stockCard(rows).total = -Total(rows)
  <2> HIDE DEF rows
  <2> QED BY <1>6, CardTurns
<1> HIDE DEF rows, arrived, oracle
<1>9. CASE quirk.stockValueSign = "unknown"
  BY <1>3, <1>9
<1>10. CASE quirk.stockValueSign # "unknown"
  <2>1. Total(rows) = Total(b.stock)
    BY <1>3, <1>4, <1>5, <1>6, <1>10
  <2> QED
    BY <1>7, <1>8, <2>1
<1> QED
  BY <1>9, <1>10

\* No step shows stock the wrong way round by a verdict that could have been had.
LEMMA StepStock == VerdictsKept /\ StockRightWayRound /\ [Next]_vars => StockRightWayRound'
<1> SUFFICES ASSUME VerdictsKept, StockRightWayRound, [Next]_vars PROVE StockRightWayRound'
  OBVIOUS
<1>1. CASE UNCHANGED <<tally, shown>>
  BY <1>1, ShownKept
<1>0. CASE shown' = Nothing
  BY <1>0, NothingShown
<1>2. ASSUME NEW c, NEW why, shown' = Refusal(c, why) PROVE StockRightWayRound'
  BY <1>2, RefusalIs DEF StockRightWayRound, Published
<1>3. CASE Extract
  <2>1. tally' = tally /\ pulling \in Companies /\ Judged /\ day - quirks.probedAt <= KeptDays(quirks)
    BY <1>3, PullShows DEF VerdictsKept, Extract
  <2>2. CASE shown' = Refusal(pulling, "section")
    BY <1>2, <2>2
  <2>3. CASE /\ shown'.cards = buildCompanyCards(extractSection(tally, quirks, books[pulling]))
             /\ shown'.of = books[pulling] /\ shown'.by = quirks /\ shown'.probedOn = probedOn
             /\ shown'.age = day - quirks.probedAt
    <3> DEFINE cards == buildCompanyCards(extractSection(tally, quirks, books[pulling]))
    <3>1. books[pulling] \in Books /\ tally \in Installations
      BY <2>1 DEF VerdictsKept
    <3>2. StockIsAsset(books[pulling]) /\ StockIsAsset(probedOn)
            => \/ cards.stock.total = -Total(books[pulling].stock)
               \/ /\ quirks.stockValueSign = "unknown"
                  /\ Total(probedOn.stock) > -MIN_EVIDENCE \/ ~Telling(probedOn) \/ tally.numValue = "debit-"
      BY <2>1, <3>1, StockOfCard DEF Judged
    <3> HIDE DEF cards
    <3>3. shown'.cards = cards
      BY <2>3 DEF cards
    <3>4. quirks.stockValueSign = "unknown" => day - quirks.probedAt <= DAYS_UNRESOLVED
      BY <2>1 DEF KeptDays
    <3> QED
      BY <2>1, <2>3, <3>2, <3>3, <3>4 DEF StockRightWayRound
  <2> QED
    BY <1>3, <2>2, <2>3, PullShows
<1> QED
  BY <1>0, <1>1, <1>2, <1>3, OnlyPullsShow

\* The stock card has the sign of the stock in the books, unless the probe it was judged
\* by could not tell it, its request failed or the books said nothing, and then for the
\* shorter of the two periods at most.
THEOREM StockStaysRightWayRound == Spec => []StockRightWayRound
<1>1. Init => StockRightWayRound
  BY DEF Init, Nothing, StockRightWayRound, Published
<1> QED
  BY <1>1, StepStock, VerdictsAlwaysKept, PTL DEF Spec

-----------------------------------------------------------------------------
(* The gate *)

\* A counter that can be compared is a natural number; < is that of the numbers.
LEMMA CountersCompare ==
  ASSUME NEW m \in AlterIds, NEW n \in AlterIds
  PROVE  /\ usable(m) <=> Counts(m)
         /\ Counts(m) /\ Counts(n) => (Less(m, n) <=> m < n) /\ m \in Nat /\ n \in Nat
BY GateAssumption DEF usable, Counts, Less

\* The decision is void exactly where the watermark cannot be compared.
LEMMA VoidIs ==
  ASSUME NEW stored \in Watermarks \cup {None}, NEW current \in Watermarks
  PROVE  Void(stored, current) <=> ~Comparable(stored, current)
<1>1. CASE stored = None
  BY <1>1 DEF Void, Comparable
<1>2. CASE stored # None
  <2>1. stored \in Watermarks
    BY <1>2
  <2>2. stored.mst \in AlterIds /\ stored.vch \in AlterIds /\ current.mst \in AlterIds /\ current.vch \in AlterIds
    BY <2>1 DEF Watermarks
  <2>3. Usable(stored) /\ Usable(current) <=> \A n \in {stored.mst, stored.vch, current.mst, current.vch} : Counts(n)
    BY <2>2, CountersCompare DEF Usable
  <2>4. ASSUME Usable(stored), Usable(current)
        PROVE  /\ Less(current.mst, stored.mst) <=> ~ current.mst >= stored.mst
               /\ Less(current.vch, stored.vch) <=> ~ current.vch >= stored.vch
    BY <2>2, <2>4, CountersCompare DEF Usable
  <2> QED
    BY <1>2, <2>3, <2>4 DEF Void, Comparable
<1> QED
  BY <1>1, <1>2

\* For every two watermarks the gate asks for exactly what may have moved.
LEMMA DecisionIsNeed ==
  ASSUME NEW stored \in Watermarks \cup {None}, NEW current \in Watermarks
  PROVE  /\ decideGate(stored, current).sections = Needed(stored, current)
         /\ (decideGate(stored, current).action = "skip") = (Needed(stored, current) = {})
<1>1. SECTIONS # {} /\ MASTER_SECTIONS # {} /\ VOUCHER_SECTIONS # {}
  BY DEF SECTIONS, MASTER_SECTIONS, VOUCHER_SECTIONS
<1>2. CASE ~Comparable(stored, current)
  BY <1>1, <1>2, VoidIs DEF decideGate, Needed, Full
<1>3. CASE Comparable(stored, current)
  <2> DEFINE masters == current.mst # stored.mst
             vouchers == current.vch # stored.vch
  <2>1. /\ stored.mst \in AlterIds /\ stored.vch \in AlterIds /\ current.mst \in AlterIds /\ current.vch \in AlterIds
        /\ Counts(stored.mst) /\ Counts(stored.vch) /\ Counts(current.mst) /\ Counts(current.vch)
    BY <1>3 DEF Comparable, Watermarks
  <2>2. (Less(stored.mst, current.mst) <=> masters) /\ (Less(stored.vch, current.vch) <=> vouchers)
    BY <1>3, <2>1, CountersCompare DEF Comparable
  <2>3. decideGate(stored, current) =
          IF masters /\ vouchers THEN Full
          ELSE IF masters THEN Partial(MASTER_SECTIONS)
          ELSE IF vouchers THEN Partial(VOUCHER_SECTIONS) ELSE Skip
    BY <1>3, <2>2, VoidIs DEF decideGate
  <2>4. Needed(stored, current) =
          IF masters /\ vouchers THEN SECTIONS
          ELSE IF masters THEN MASTER_SECTIONS
          ELSE IF vouchers THEN VOUCHER_SECTIONS ELSE {}
    <3>1. Needed(stored, current) = UNION {IF ~masters THEN {} ELSE MASTER_SECTIONS, IF ~vouchers THEN {} ELSE VOUCHER_SECTIONS}
      BY <1>3 DEF Needed
    <3>2. MASTER_SECTIONS \cup VOUCHER_SECTIONS = SECTIONS
      BY DEF SECTIONS, MASTER_SECTIONS, VOUCHER_SECTIONS
    <3> HIDE DEF masters, vouchers
    <3> QED
      BY <3>1, <3>2
  <2> HIDE DEF masters, vouchers
  <2>5. CASE masters /\ vouchers
    BY <1>1, <2>3, <2>4, <2>5 DEF Full
  <2>6. CASE masters /\ ~vouchers
    BY <1>1, <2>3, <2>4, <2>6 DEF Partial
  <2>7. CASE ~masters /\ vouchers
    BY <1>1, <2>3, <2>4, <2>7 DEF Partial
  <2>8. CASE ~masters /\ ~vouchers
    BY <1>1, <2>3, <2>4, <2>8 DEF Skip
  <2> QED
    BY <2>5, <2>6, <2>7, <2>8
<1> QED
  BY <1>2, <1>3

\* Whatever is remembered and whatever a probe reports, garbled or rewound, Tally is
\* asked for exactly the sections that may have changed.
THEOREM GateIsExact == Asked => []GateAsksForWhatMoved
<1>1. asked \in Questions => GateAsksForWhatMoved
  <2> SUFFICES ASSUME asked \in Questions, asked.about = "gate"
               PROVE  LET decision == decideGate(asked.stored, asked.current)
                      IN  /\ decision.sections = Needed(asked.stored, asked.current)
                          /\ (decision.action = "skip") = (Needed(asked.stored, asked.current) = {})
    BY DEF GateAsksForWhatMoved
  <2>1. asked \in Gates
    BY DEF Questions, Wires, Ageings, Charts, Recoveries
  <2>2. asked.stored \in Watermarks \cup {None} /\ asked.current \in Watermarks
    BY <2>1 DEF Gates
  <2> QED
    BY <2>2, DecisionIsNeed
<1>2. GateAsksForWhatMoved /\ UNCHANGED asked => GateAsksForWhatMoved'
  BY DEF GateAsksForWhatMoved
<1> QED
  BY <1>1, <1>2, PTL DEF Asked

-----------------------------------------------------------------------------
(* Open bills *)

\* The paise of some places of a list.
LEMMA SumOfPaise ==
  ASSUME NEW L, NEW I, IsFiniteSet(I)
  PROVE  /\ PaiseOf(L, I) = SumFunctionOnSet([i \in I |-> L[i].paise], I)
         /\ MapThenSumSet(LAMBDA i : L[i].paise, I) = PaiseOf(L, I)
<1> DEFINE f == [i \in I |-> L[i].paise]
           M(g) == g = [s \in SUBSET I |-> IF s = {} THEN 0 ELSE L[FirstOf(s)].paise + g[RestOf(s)]]
<1>1. \A g : M(g) <=> AddsUp(g, f, I)
  <2>1. \A s \in SUBSET I : s # {} => FirstOf(s) \in I
    BY RestSmaller
  <2> QED BY <2>1 DEF AddsUp
<1>2. PaiseOf(L, I) = (CHOOSE g : M(g))[I]
  BY DEF PaiseOf, MapThenSumSet, MapThenFoldSet, FirstOf, RestOf
<1>3. MapThenSumSet(LAMBDA i : L[i].paise, I) = PaiseOf(L, I)
  BY DEF PaiseOf
<1> HIDE DEF M, f
<1>4. \E g : M(g)
  BY <1>1, AddsUpExists
<1>5. AddsUp(CHOOSE g : M(g), f, I)
  BY <1>1, <1>4
<1> QED BY <1>2, <1>3, <1>5, SumIs DEF f

\* The counts of some figures.
LEMMA SumOfCounts ==
  ASSUME NEW L, NEW I, IsFiniteSet(I)
  PROVE  MapThenSumSet(LAMBDA i : L[i].count, I) = SumFunctionOnSet([i \in I |-> L[i].count], I)
<1> DEFINE f == [i \in I |-> L[i].count]
           M(g) == g = [s \in SUBSET I |-> IF s = {} THEN 0 ELSE L[FirstOf(s)].count + g[RestOf(s)]]
<1>1. \A g : M(g) <=> AddsUp(g, f, I)
  <2>1. \A s \in SUBSET I : s # {} => FirstOf(s) \in I
    BY RestSmaller
  <2> QED BY <2>1 DEF AddsUp
<1>2. MapThenSumSet(LAMBDA i : L[i].count, I) = (CHOOSE g : M(g))[I]
  BY DEF MapThenSumSet, MapThenFoldSet, FirstOf, RestOf
<1> HIDE DEF M, f
<1>3. \E g : M(g)
  BY <1>1, AddsUpExists
<1>4. AddsUp(CHOOSE g : M(g), f, I)
  BY <1>1, <1>3
<1> QED BY <1>2, <1>4, SumIs DEF f

\* A list of bills that can be added up.
Billed(L) == IsFiniteSet(DOMAIN L) /\ \A i \in DOMAIN L : L[i].paise \in Int

\* The paise of bills that can be added up are a figure.
LEMMA PaiseType ==
  ASSUME NEW L, Billed(L), NEW I \in SUBSET DOMAIN L
  PROVE  PaiseOf(L, I) \in Int /\ IsFiniteSet(I) /\ Cardinality(I) \in Nat
<1> DEFINE f == [i \in I |-> L[i].paise]
<1>1. IsFiniteSet(I) /\ \A i \in I : f[i] \in Int
  BY FS_Subset DEF Billed
<1>2. PaiseOf(L, I) = SumFunctionOnSet(f, I)
  BY <1>1, SumOfPaise
<1> HIDE DEF f
<1> QED
  BY <1>1, <1>2, FiguresType, FS_CardinalityType

\* Two parts of a list without a bill in common.
LEMMA PaiseOfTwo ==
  ASSUME NEW L, Billed(L), NEW I \in SUBSET DOMAIN L, NEW J \in SUBSET DOMAIN L, I \cap J = {}
  PROVE  /\ PaiseOf(L, I \cup J) = PaiseOf(L, I) + PaiseOf(L, J)
         /\ Cardinality(I \cup J) = Cardinality(I) + Cardinality(J)
<1> DEFINE both == I \cup J
           f == [i \in both |-> L[i].paise]
           fI == [i \in I |-> L[i].paise]
           fJ == [i \in J |-> L[i].paise]
<1>1. IsFiniteSet(I) /\ IsFiniteSet(J) /\ IsFiniteSet(both)
  BY FS_Subset DEF Billed
<1>2. \A i \in both : f[i] \in Int
  BY DEF Billed
<1>3. PaiseOf(L, both) = SumFunctionOnSet(f, both)
  BY <1>1, SumOfPaise
<1>4. PaiseOf(L, I) = SumFunctionOnSet(fI, I) /\ PaiseOf(L, J) = SumFunctionOnSet(fJ, J)
  BY <1>1, SumOfPaise
<1>5. \A i \in I : f[i] \in Int /\ fI[i] = f[i]
  BY <1>2
<1>6. \A i \in J : f[i] \in Int /\ fJ[i] = f[i]
  BY <1>2
<1>7. both \ I = J /\ I \subseteq both
  OBVIOUS
<1> HIDE DEF f, fI, fJ, both
<1>8. SumFunctionOnSet(f, both) = SumFunctionOnSet(f, I) + SumFunctionOnSet(f, J)
  BY <1>1, <1>2, <1>7, FiguresSplit
<1>9. SumFunctionOnSet(fI, I) = SumFunctionOnSet(f, I) /\ SumFunctionOnSet(fJ, J) = SumFunctionOnSet(f, J)
  BY <1>1, <1>5, <1>6, FiguresSame
<1>10. Cardinality(I \cup J) = Cardinality(I) + Cardinality(J)
  <2>1. Cardinality(I \cup J) = Cardinality(I) + Cardinality(J) - Cardinality(I \cap J)
    BY <1>1, FS_Union
  <2>2. Cardinality(I) \in Nat /\ Cardinality(J) \in Nat /\ Cardinality(I \cap J) = 0
    BY <1>1, FS_EmptySet, FS_CardinalityType
  <2> QED
    BY <2>1, <2>2
<1> QED
  BY <1>3, <1>4, <1>8, <1>9, <1>10 DEF both

\* Bills fall into classes by k; the figures are of those in B, all of which are in "all".
BillsClassed(L, k, B, class, figures, all) ==
  /\ Billed(L) /\ IsFiniteSet(B)
  /\ \A b \in B : /\ class[b] \in SUBSET DOMAIN L
                  /\ \A i \in DOMAIN L : i \in class[b] <=> k[i] = b
                  /\ figures[b] = Figure(L, class[b])
  /\ all \in SUBSET DOMAIN L /\ \A i \in DOMAIN L : i \in all <=> k[i] \in B

\* The figures of some classes of bills add up to those of the bills in them.
LEMMA ClassesAddUp ==
  ASSUME NEW L, NEW k, NEW B, NEW class, NEW figures, NEW all, BillsClassed(L, k, B, class, figures, all)
  PROVE  /\ PaiseOf(figures, B) = PaiseOf(L, all)
         /\ MapThenSumSet(LAMBDA b : figures[b].count, B) = Cardinality(all)
<1> /\ Billed(L) /\ IsFiniteSet(B)
    /\ \A b \in B : /\ class[b] \in SUBSET DOMAIN L
                    /\ \A i \in DOMAIN L : i \in class[b] <=> k[i] = b
                    /\ figures[b] = Figure(L, class[b])
    /\ all \in SUBSET DOMAIN L /\ \A i \in DOMAIN L : i \in all <=> k[i] \in B
  BY DEF BillsClassed
<1> DEFINE D == DOMAIN L
           f == [i \in D |-> L[i].paise]
           one == [i \in D |-> 1]
           g == [b \in B |-> figures[b].paise]
           n == [b \in B |-> figures[b].count]
           fall == [i \in all |-> L[i].paise]
<1>1. IsFiniteSet(D) /\ (\A i \in D : f[i] \in Int) /\ (\A i \in D : one[i] \in Int /\ one[i] = 1)
  BY DEF Billed
<1>2. \A b \in B : figures[b].paise = PaiseOf(L, class[b]) /\ figures[b].count = Cardinality(class[b])
  <2> SUFFICES ASSUME NEW b \in B
               PROVE  figures[b].paise = PaiseOf(L, class[b]) /\ figures[b].count = Cardinality(class[b])
    OBVIOUS
  <2>1. figures[b] = Figure(L, class[b])
    OBVIOUS
  <2> QED
    BY <2>1 DEF Figure
<1>3. \A b \in B : g[b] = SumFunctionOnSet(f, class[b]) /\ n[b] = SumFunctionOnSet(one, class[b])
  <2> SUFFICES ASSUME NEW b \in B PROVE g[b] = SumFunctionOnSet(f, class[b]) /\ n[b] = SumFunctionOnSet(one, class[b])
    OBVIOUS
  <2> DEFINE I == class[b]
             fI == [i \in I |-> L[i].paise]
  <2>1. I \subseteq D /\ IsFiniteSet(I)
    BY <1>1, FS_Subset
  <2>2. g[b] = PaiseOf(L, I) /\ n[b] = Cardinality(I)
    BY <1>2
  <2>3. \A i \in I : f[i] \in Int /\ fI[i] = f[i]
    BY <1>1, <2>1
  <2>4. PaiseOf(L, I) = SumFunctionOnSet(fI, I)
    BY <2>1, SumOfPaise
  <2>5. \A i \in I : one[i] = 1
    BY <2>1
  <2> HIDE DEF f, fI, one, I, g, n
  <2>6. SumFunctionOnSet(fI, I) = SumFunctionOnSet(f, I)
    BY <2>1, <2>3, FiguresSame
  <2>7. SumFunctionOnSet(one, I) = Cardinality(I)
    BY <2>1, <2>5, FiguresCount
  <2> QED
    BY <2>2, <2>4, <2>6, <2>7 DEF I
<1>4. SumFunctionOnSet(g, B) = SumFunctionOnSet(f, all) /\ SumFunctionOnSet(n, B) = SumFunctionOnSet(one, all)
  <2>1. \A b \in B : class[b] \in SUBSET D /\ \A x \in D : x \in class[b] <=> k[x] = b
    OBVIOUS
  <2>2. \A b \in B : g[b] = SumFunctionOnSet(f, class[b])
    BY <1>3
  <2>3. \A b \in B : n[b] = SumFunctionOnSet(one, class[b])
    BY <1>3
  <2>4. all \in SUBSET D /\ \A x \in D : x \in all <=> k[x] \in B
    OBVIOUS
  <2> HIDE DEF f, g, n, one, D
  <2>5. Classed(f, D, k, B, class, g, all) /\ Classed(one, D, k, B, class, n, all)
    BY <1>1, <2>1, <2>2, <2>3, <2>4 DEF Classed
  <2> QED
    BY <2>5, FiguresByClass
<1>5. PaiseOf(figures, B) = SumFunctionOnSet(g, B)
      /\ MapThenSumSet(LAMBDA b : figures[b].count, B) = SumFunctionOnSet(n, B)
  BY SumOfPaise, SumOfCounts
<1>6. IsFiniteSet(all)
  BY <1>1, FS_Subset
<1>7. SumFunctionOnSet(one, all) = Cardinality(all)
  <2>1. \A i \in all : one[i] = 1
    OBVIOUS
  <2> HIDE DEF one
  <2> QED
    BY <1>6, <2>1, FiguresCount
<1>8. PaiseOf(L, all) = SumFunctionOnSet(f, all)
  <2>1. \A i \in all : f[i] \in Int /\ fall[i] = f[i]
    BY <1>1
  <2>2. PaiseOf(L, all) = SumFunctionOnSet(fall, all)
    BY <1>6, SumOfPaise
  <2> HIDE DEF f, fall
  <2> QED
    BY <1>6, <2>1, <2>2, FiguresSame
<1> HIDE DEF f, one, g, n
<1> QED
  BY <1>4, <1>5, <1>7, <1>8

\* The totals of an ageing: a bucket for every bill, and in some of them the bills of those.
LEMMA TotalsAddUp ==
  ASSUME NEW L, Billed(L)
  PROVE  LET totals == aggregateAgeing(L).totals
         IN  /\ DOMAIN totals = {Bucket(L[i]) : i \in DOMAIN L}
             /\ IsFiniteSet(DOMAIN totals)
             /\ \A b \in DOMAIN totals :
                  /\ totals[b] = Figure(L, {i \in DOMAIN L : Bucket(L[i]) = b})
                  /\ totals[b].paise \in Int
             /\ \A B \in SUBSET DOMAIN totals : \A all \in SUBSET DOMAIN L :
                  (\A i \in DOMAIN L : i \in all <=> Bucket(L[i]) \in B)
                  => /\ PaiseOf(totals, B) = PaiseOf(L, all)
                     /\ MapThenSumSet(LAMBDA b : totals[b].count, B) = Cardinality(all)
<1> DEFINE totals == aggregateAgeing(L).totals
           D == DOMAIN L
           k == [i \in D |-> Bucket(L[i])]
           class == [b \in DOMAIN totals |-> {i \in D : Bucket(L[i]) = b}]
<1>1. totals = [b \in {Bucket(L[i]) : i \in D} |-> Figure(L, {i \in D : Bucket(L[i]) = b})]
  BY DEF aggregateAgeing
<1> HIDE DEF totals
<1>2. DOMAIN totals = {k[i] : i \in D} /\ DOMAIN totals = {Bucket(L[i]) : i \in D}
  BY <1>1
<1>3. IsFiniteSet(D)
  BY DEF Billed
<1>4. IsFiniteSet(DOMAIN totals)
  <2> HIDE DEF k
  <2> QED
    BY <1>2, <1>3, ImageFinite
<1>5. \A b \in DOMAIN totals :
        /\ class[b] \in SUBSET D
        /\ \A i \in D : i \in class[b] <=> k[i] = b
        /\ totals[b] = Figure(L, class[b])
  BY <1>1
<1>6. ASSUME NEW b \in DOMAIN totals PROVE totals[b].paise \in Int
  <2> DEFINE I == class[b]
  <2>1. I \in SUBSET D /\ totals[b] = Figure(L, I)
    BY <1>5
  <2> HIDE DEF I, totals
  <2>2. totals[b].paise = PaiseOf(L, I)
    BY <2>1 DEF Figure
  <2> QED
    BY <2>1, <2>2, PaiseType
<1>7. ASSUME NEW B \in SUBSET DOMAIN totals, NEW all \in SUBSET D, \A i \in D : i \in all <=> Bucket(L[i]) \in B
      PROVE  /\ PaiseOf(totals, B) = PaiseOf(L, all)
             /\ MapThenSumSet(LAMBDA b : totals[b].count, B) = Cardinality(all)
  <2>1. IsFiniteSet(B)
    BY <1>4, FS_Subset
  <2>2. \A i \in D : i \in all <=> k[i] \in B
    BY <1>7
  <2>3. \A b \in B :
          /\ class[b] \in SUBSET DOMAIN L
          /\ \A i \in DOMAIN L : i \in class[b] <=> k[i] = b
          /\ totals[b] = Figure(L, class[b])
    BY <1>5
  <2> HIDE DEF k, class
  <2>4. BillsClassed(L, k, B, class, totals, all)
    BY <1>7, <2>1, <2>2, <2>3 DEF BillsClassed
  <2> QED
    BY <2>4, ClassesAddUp
<1>8. \A b \in DOMAIN totals : totals[b] = Figure(L, {i \in D : Bucket(L[i]) = b})
  BY <1>1
<1>9. /\ DOMAIN totals = {Bucket(L[i]) : i \in DOMAIN L}
      /\ IsFiniteSet(DOMAIN totals)
      /\ \A b \in DOMAIN totals :
           /\ totals[b] = Figure(L, {i \in DOMAIN L : Bucket(L[i]) = b})
           /\ totals[b].paise \in Int
      /\ \A B \in SUBSET DOMAIN totals : \A all \in SUBSET DOMAIN L :
           (\A i \in DOMAIN L : i \in all <=> Bucket(L[i]) \in B)
           => /\ PaiseOf(totals, B) = PaiseOf(L, all)
              /\ MapThenSumSet(LAMBDA b : totals[b].count, B) = Cardinality(all)
  BY <1>2, <1>4, <1>6, <1>7, <1>8
<1> QED
  BY <1>9 DEF totals

\* The rows of a bucket, whatever is folded into one of them, are its bills.
LEMMA RowsAddUp ==
  ASSUME NEW L, Billed(L), NEW b \in DOMAIN aggregateAgeing(L).totals
  PROVE  LET agg == aggregateAgeing(L)
             cells == {cell \in DOMAIN agg.rows : cell[2] = b}
         IN  /\ agg.totals[b].paise = MapThenSumSet(LAMBDA c : agg.rows[c].paise, cells)
             /\ agg.totals[b].count = MapThenSumSet(LAMBDA c : agg.rows[c].count, cells)
<1> DEFINE rows == aggregateAgeing(L).rows
           D == DOMAIN L
           kept == KeptParties(L)
           named == [i \in D |-> IF L[i].party \in kept THEN L[i].party ELSE OTHERS_PARTY]
           k == [i \in D |-> <<named[i], Bucket(L[i])>>]
           cells == {cell \in DOMAIN rows : cell[2] = b}
           class == [cell \in DOMAIN rows |-> {i \in D : Bucket(L[i]) = cell[2] /\ named[i] = cell[1]}]
           all == {i \in D : Bucket(L[i]) = b}
<1>1. rows = [cell \in {<<named[i], Bucket(L[i])>> : i \in D} |->
                Figure(L, {i \in D : Bucket(L[i]) = cell[2] /\ named[i] = cell[1]})]
  <2> DEFINE Shown(i) == IF L[i].party \in kept THEN L[i].party ELSE OTHERS_PARTY
             cells2 == {<<Shown(i), Bucket(L[i])>> : i \in D}
  <2>1. rows = [cell \in cells2 |-> Figure(L, {i \in {j \in D : Bucket(L[j]) = cell[2]} : Shown(i) = cell[1]})]
    BY DEF aggregateAgeing
  <2>2. \A i \in D : Shown(i) = named[i]
    OBVIOUS
  <2> HIDE DEF Shown, named, rows
  <2>3. cells2 = {<<named[i], Bucket(L[i])>> : i \in D}
    BY <2>2
  <2>4. \A cell : {i \in {j \in D : Bucket(L[j]) = cell[2]} : Shown(i) = cell[1]}
                    = {i \in D : Bucket(L[i]) = cell[2] /\ named[i] = cell[1]}
    BY <2>2
  <2> QED
    BY <2>1, <2>3, <2>4
<1> HIDE DEF rows, named
<1>2. DOMAIN rows = {k[i] : i \in D}
  BY <1>1
<1>3. IsFiniteSet(D)
  BY DEF Billed
<1>4. IsFiniteSet(DOMAIN rows)
  <2> HIDE DEF k
  <2> QED
    BY <1>2, <1>3, ImageFinite
<1>5. IsFiniteSet(cells)
  BY <1>4, FS_Subset
<1>6. \A cell \in cells :
        /\ class[cell] \in SUBSET D
        /\ \A i \in D : i \in class[cell] <=> k[i] = cell
        /\ rows[cell] = Figure(L, class[cell])
  <2> SUFFICES ASSUME NEW cell \in cells
               PROVE  /\ class[cell] \in SUBSET D
                      /\ \A i \in D : i \in class[cell] <=> k[i] = cell
                      /\ rows[cell] = Figure(L, class[cell])
    OBVIOUS
  <2>1. cell \in DOMAIN rows /\ \E i \in D : cell = <<named[i], Bucket(L[i])>>
    BY <1>2
  <2>2. cell = <<cell[1], cell[2]>>
    BY <2>1
  <2>3. class[cell] = {i \in D : Bucket(L[i]) = cell[2] /\ named[i] = cell[1]}
    BY <2>1
  <2>4. rows[cell] = Figure(L, class[cell])
    BY <1>1, <2>1, <2>3
  <2>5. \A i \in D : k[i] = <<named[i], Bucket(L[i])>>
    OBVIOUS
  <2> HIDE DEF class, k, cells
  <2> QED
    BY <2>2, <2>3, <2>4, <2>5
<1>7. all \in SUBSET D /\ \A i \in D : i \in all <=> k[i] \in cells
  BY <1>2
<1>8. PaiseOf(rows, cells) = PaiseOf(L, all) /\ MapThenSumSet(LAMBDA c : rows[c].count, cells) = Cardinality(all)
  <2> HIDE DEF class, k, cells, all
  <2>1. BillsClassed(L, k, cells, class, rows, all)
    BY <1>5, <1>6, <1>7 DEF BillsClassed
  <2> QED
    BY <2>1, ClassesAddUp
<1>9. MapThenSumSet(LAMBDA c : rows[c].paise, cells) = PaiseOf(rows, cells)
  BY DEF PaiseOf
<1>10. aggregateAgeing(L).totals[b] = Figure(L, all)
  BY TotalsAddUp
<1>11. aggregateAgeing(L).totals[b].paise = PaiseOf(L, all) /\ aggregateAgeing(L).totals[b].count = Cardinality(all)
  BY <1>10 DEF Figure
<1> HIDE DEF all
<1>12. /\ aggregateAgeing(L).totals[b].paise = MapThenSumSet(LAMBDA c : rows[c].paise, cells)
       /\ aggregateAgeing(L).totals[b].count = MapThenSumSet(LAMBDA c : rows[c].count, cells)
  BY <1>8, <1>9, <1>11
<1> QED
  BY <1>12 DEF rows

\* The bills of one side, and those of them that are past their credit period.
OnSide(bills, s) == {i \in DOMAIN bills : bills[i].paise # 0 /\ classify(bills[i]) = s}
Overdue(bills, s) == {i \in OnSide(bills, s) : Bucket(bills[i]) # 0}

\* Bills of which everything is of the type it should be.
Bills(bills) ==
  /\ IsFiniteSet(DOMAIN bills)
  /\ \A i \in DOMAIN bills : /\ bills[i].paise \in Int /\ bills[i].days \in Int /\ bills[i].credit \in Int
                             /\ bills[i].advance \in BOOLEAN
                             /\ bills[i].group \in {"debtor", "creditor", "other"}

\* Only what is past its credit period by an age that can be one, and no advance, is overdue.
LEMMA OverdueIsLate ==
  ASSUME NEW bill, bill.days \in Int, bill.credit \in Int, bill.advance \in BOOLEAN
  PROVE  Bucket(bill) # 0 <=> ~bill.advance /\ plausibleAge(bill.days) > bill.credit
<1> DEFINE age == plausibleAge(bill.days)
<1>1. age \in Int
  BY AgeAssumption DEF plausibleAge
<1>2. bucketFor(bill) = IF age - bill.credit <= 0 THEN 0
                        ELSE 1 + Cardinality({i \in DOMAIN BUCKETS : age - bill.credit > BUCKETS[i]})
  BY DEF bucketFor
<1>3. Cardinality({i \in DOMAIN BUCKETS : age - bill.credit > BUCKETS[i]}) \in Nat
  <2>1. DOMAIN BUCKETS = 1 .. Len(BUCKETS) /\ Len(BUCKETS) \in Nat
    BY AgeAssumption
  <2>2. IsFiniteSet(DOMAIN BUCKETS)
    BY <2>1, FS_Interval
  <2>3. IsFiniteSet({i \in DOMAIN BUCKETS : age - bill.credit > BUCKETS[i]})
    BY <2>2, FS_Subset
  <2> QED
    BY <2>3, FS_CardinalityType
<1> HIDE DEF age
<1>4. bucketFor(bill) # 0 <=> age > bill.credit
  BY <1>1, <1>2, <1>3
<1> QED
  BY <1>4 DEF Bucket, age

\* The bills of one side are those of the list, at their places.
LEMMA SideOfBills ==
  ASSUME NEW bills, Bills(bills), NEW s
  PROVE  LET L == billsForSide(bills, s)
         IN  /\ Billed(L) /\ DOMAIN L = OnSide(bills, s)
             /\ \A i \in DOMAIN L : L[i] = bills[i]
             /\ \A I \in SUBSET DOMAIN L : PaiseOf(L, I) = PaiseOf(bills, I)
<1> DEFINE L == billsForSide(bills, s)
<1>1. DOMAIN L = OnSide(bills, s) /\ \A i \in DOMAIN L : L[i] = bills[i]
  BY DEF billsForSide, Restrict, OnSide
<1> HIDE DEF L
<1>2. OnSide(bills, s) \subseteq DOMAIN bills
  BY DEF OnSide
<1>3. Billed(L)
  BY <1>1, <1>2, FS_Subset DEF Bills, Billed
<1>4. ASSUME NEW I \in SUBSET DOMAIN L PROVE PaiseOf(L, I) = PaiseOf(bills, I)
  <2> DEFINE f == [i \in I |-> L[i].paise]
             g == [i \in I |-> bills[i].paise]
  <2>1. IsFiniteSet(I) /\ \A i \in I : f[i] \in Int
    BY <1>3, FS_Subset DEF Billed
  <2>2. \A i \in I : g[i] = f[i]
    BY <1>1
  <2>3. PaiseOf(L, I) = SumFunctionOnSet(f, I) /\ PaiseOf(bills, I) = SumFunctionOnSet(g, I)
    BY <2>1, SumOfPaise
  <2> HIDE DEF f, g
  <2> QED
    BY <2>1, <2>2, <2>3, FiguresSame
<1> QED
  BY <1>1, <1>3, <1>4 DEF L

\* The headline of a card, from the bills.
LEMMA CardOfBills ==
  ASSUME NEW L, Billed(L), NEW s \in Sides
  PROVE  LET card == ageingCard(aggregateAgeing(L), s)
             late == {i \in DOMAIN L : Bucket(L[i]) # 0}
         IN  /\ card.total = Flip(s) * PaiseOf(L, DOMAIN L)
             /\ card.overdue = Flip(s) * PaiseOf(L, late)
             /\ card.tone = Tone(card.total, card.overdue)
<1> DEFINE totals == aggregateAgeing(L).totals
           card == ageingCard(aggregateAgeing(L), s)
           late == {i \in DOMAIN L : Bucket(L[i]) # 0}
           due == DOMAIN totals \ {0}
           shownAs == [b \in DOMAIN totals |-> Flip(s) * totals[b].paise]
<1>1. /\ card.total = SumFunctionOnSet(shownAs, DOMAIN totals)
      /\ card.overdue = SumFunctionOnSet(shownAs, due)
      /\ card.tone = Tone(card.total, card.overdue)
  BY DEF ageingCard, MapThenSumSet, SumFunctionOnSet, FoldFunctionOnSet
<1> HIDE DEF totals, card
<1>2. /\ DOMAIN totals = {Bucket(L[i]) : i \in DOMAIN L} /\ IsFiniteSet(DOMAIN totals)
      /\ \A b \in DOMAIN totals : totals[b].paise \in Int
      /\ \A B \in SUBSET DOMAIN totals : \A all \in SUBSET DOMAIN L :
           (\A i \in DOMAIN L : i \in all <=> Bucket(L[i]) \in B) => PaiseOf(totals, B) = PaiseOf(L, all)
  BY TotalsAddUp DEF totals
<1>3. PaiseOf(totals, DOMAIN totals) = PaiseOf(L, DOMAIN L)
  <2>1. \A i \in DOMAIN L : i \in DOMAIN L <=> Bucket(L[i]) \in DOMAIN totals
    BY <1>2
  <2> QED
    BY <1>2, <2>1
<1>4. PaiseOf(totals, due) = PaiseOf(L, late)
  <2>1. \A i \in DOMAIN L : i \in late <=> Bucket(L[i]) \in due
    BY <1>2
  <2>2. due \in SUBSET DOMAIN totals /\ late \in SUBSET DOMAIN L
    OBVIOUS
  <2> HIDE DEF due, late
  <2> QED
    BY <1>2, <2>1, <2>2
<1>5. ASSUME NEW B \in SUBSET DOMAIN totals PROVE SumFunctionOnSet(shownAs, B) = Flip(s) * PaiseOf(totals, B)
  <2> DEFINE f == [b \in B |-> totals[b].paise]
  <2>1. IsFiniteSet(B) /\ \A b \in B : f[b] \in Int
    BY <1>2, FS_Subset
  <2>2. PaiseOf(totals, B) = SumFunctionOnSet(f, B)
    BY <2>1, SumOfPaise
  <2>3. \A b \in B : shownAs[b] = Flip(s) * f[b]
    OBVIOUS
  <2> HIDE DEF f, shownAs
  <2>4. SumFunctionOnSet(f, B) \in Int
    BY <2>1, FiguresType
  <2>5. CASE s = "receivable"
    <3>1. \A b \in B : f[b] \in Int /\ shownAs[b] = -f[b]
      BY <2>1, <2>3, <2>5 DEF Flip
    <3>2. SumFunctionOnSet(shownAs, B) = -SumFunctionOnSet(f, B)
      BY <2>1, <3>1, FiguresNegate
    <3> QED
      BY <2>2, <2>4, <2>5, <3>2 DEF Flip
  <2>6. CASE s # "receivable"
    <3>1. \A b \in B : f[b] \in Int /\ shownAs[b] = f[b]
      BY <2>1, <2>3, <2>6 DEF Flip
    <3>2. SumFunctionOnSet(shownAs, B) = SumFunctionOnSet(f, B)
      BY <2>1, <3>1, FiguresSame
    <3> QED
      BY <2>2, <2>4, <2>6, <3>2 DEF Flip
  <2> QED
    BY <2>5, <2>6
<1>6. /\ SumFunctionOnSet(shownAs, DOMAIN totals) = Flip(s) * PaiseOf(L, DOMAIN L)
      /\ SumFunctionOnSet(shownAs, due) = Flip(s) * PaiseOf(L, late)
  <2>1. due \in SUBSET DOMAIN totals /\ DOMAIN totals \in SUBSET DOMAIN totals
    OBVIOUS
  <2> HIDE DEF due, late, shownAs
  <2> QED
    BY <1>3, <1>4, <1>5, <2>1
<1>7. card.total = Flip(s) * PaiseOf(L, DOMAIN L) /\ card.overdue = Flip(s) * PaiseOf(L, late)
      /\ card.tone = Tone(card.total, card.overdue)
  BY <1>1, <1>6
<1> QED
  BY <1>7 DEF card

\* The same, from the whole list.
LEMMA CardOfSide ==
  ASSUME NEW bills, Bills(bills), NEW s \in Sides
  PROVE  LET agg == aggregateAgeing(billsForSide(bills, s))
             card == ageingCard(agg, s)
         IN  /\ card.total = Flip(s) * PaiseOf(bills, OnSide(bills, s))
             /\ card.overdue = Flip(s) * PaiseOf(bills, Overdue(bills, s))
             /\ card.tone = Tone(card.total, card.overdue)
             /\ MapThenSumSet(LAMBDA b : agg.totals[b].count, DOMAIN agg.totals) = Cardinality(OnSide(bills, s))
<1> DEFINE L == billsForSide(bills, s)
           card == ageingCard(aggregateAgeing(L), s)
           late == {i \in DOMAIN L : Bucket(L[i]) # 0}
           totals == aggregateAgeing(L).totals
<1>1. /\ Billed(L) /\ DOMAIN L = OnSide(bills, s)
      /\ \A i \in DOMAIN L : L[i] = bills[i]
      /\ \A I \in SUBSET DOMAIN L : PaiseOf(L, I) = PaiseOf(bills, I)
  BY SideOfBills
<1> HIDE DEF L
<1>2. late = Overdue(bills, s)
  BY <1>1 DEF Overdue
<1>3. /\ card.total = Flip(s) * PaiseOf(L, DOMAIN L)
      /\ card.overdue = Flip(s) * PaiseOf(L, late)
      /\ card.tone = Tone(card.total, card.overdue)
  BY <1>1, CardOfBills
<1>4. PaiseOf(L, DOMAIN L) = PaiseOf(bills, DOMAIN L) /\ PaiseOf(L, late) = PaiseOf(bills, late)
  BY <1>1
<1>5. MapThenSumSet(LAMBDA b : totals[b].count, DOMAIN totals) = Cardinality(DOMAIN L)
  <2>1. DOMAIN totals = {Bucket(L[i]) : i \in DOMAIN L}
    BY <1>1, TotalsAddUp
  <2>2. \A i \in DOMAIN L : i \in DOMAIN L <=> Bucket(L[i]) \in DOMAIN totals
    BY <2>1
  <2>3. \A B \in SUBSET DOMAIN totals : \A all \in SUBSET DOMAIN L :
          (\A i \in DOMAIN L : i \in all <=> Bucket(L[i]) \in B)
          => MapThenSumSet(LAMBDA b : totals[b].count, B) = Cardinality(all)
    BY <1>1, TotalsAddUp
  <2> HIDE DEF totals
  <2> QED
    BY <2>2, <2>3
<1> HIDE DEF late
<1>6. /\ card.total = Flip(s) * PaiseOf(bills, OnSide(bills, s))
      /\ card.overdue = Flip(s) * PaiseOf(bills, Overdue(bills, s))
      /\ card.tone = Tone(card.total, card.overdue)
  BY <1>1, <1>2, <1>3, <1>4
<1>7. MapThenSumSet(LAMBDA b : totals[b].count, DOMAIN totals) = Cardinality(OnSide(bills, s))
  BY <1>1, <1>5
<1> QED
  BY <1>6, <1>7 DEF L

\* The open bills of debtors and creditors are on one side each.
LEMMA SidesOfBills ==
  ASSUME NEW bills, Bills(bills)
  PROVE  /\ {i \in DOMAIN bills : bills[i].group # "other" /\ bills[i].paise # 0}
              = OnSide(bills, "receivable") \cup OnSide(bills, "payable")
         /\ OnSide(bills, "receivable") \cap OnSide(bills, "payable") = {}
<1>1. ASSUME NEW i \in DOMAIN bills
      PROVE  /\ bills[i].group # "other" <=> classify(bills[i]) \in {"receivable", "payable"}
             /\ classify(bills[i]) = "receivable" => classify(bills[i]) # "payable"
  <2>1. bills[i].group \in {"debtor", "creditor", "other"}
    BY DEF Bills
  <2> QED
    BY <2>1 DEF classify
<1> QED
  BY <1>1 DEF OnSide

\* The overdue bills of a side are those of the one group, past their credit period.
LEMMA OverdueOfSide ==
  ASSUME NEW bills, Bills(bills), NEW s \in Sides
  PROVE  Overdue(bills, s) =
           {i \in DOMAIN bills : /\ bills[i].group # "other" /\ bills[i].paise # 0
                                 /\ bills[i].group = (IF s = "receivable" THEN "debtor" ELSE "creditor")
                                 /\ ~bills[i].advance /\ plausibleAge(bills[i].days) > bills[i].credit}
<1>1. ASSUME NEW i \in DOMAIN bills
      PROVE  Bucket(bills[i]) # 0 <=> ~bills[i].advance /\ plausibleAge(bills[i].days) > bills[i].credit
  <2>1. bills[i].days \in Int /\ bills[i].credit \in Int /\ bills[i].advance \in BOOLEAN
    BY DEF Bills
  <2> QED
    BY <2>1, OverdueIsLate
<1>2. ASSUME NEW i \in DOMAIN bills, ~bills[i].advance
      PROVE  classify(bills[i]) = s <=> bills[i].group = (IF s = "receivable" THEN "debtor" ELSE "creditor")
  <2>1. bills[i].group \in {"debtor", "creditor", "other"}
    BY DEF Bills
  <2> QED
    BY <1>2, <2>1 DEF classify, Sides
<1>3. \A i \in DOMAIN bills : bills[i].group = (IF s = "receivable" THEN "debtor" ELSE "creditor") => bills[i].group # "other"
  OBVIOUS
<1> QED
  BY <1>1, <1>2, <1>3 DEF Overdue, OnSide

\* A card in green shows less overdue than there is.
LEMMA GreenIsNotOverdue ==
  ASSUME NEW total \in Int, NEW overdue \in Int, overdue > 0, Tone(total, overdue) = "good"
  PROVE  overdue < total
<1>1. CASE total > 0
  BY <1>1 DEF Tone
<1>2. CASE total <= 0
  BY <1>2 DEF Tone
<1> QED
  BY <1>1, <1>2

\* AgeingConserved, of every list of bills: between the bills, the totals, the rows
\* and the card nothing is lost, and nothing overdue is shown in green.
THEOREM AgeingIsConserved == Asked => []AgeingConserved
<1>1. asked \in Questions => AgeingConserved
  <2> SUFFICES ASSUME asked \in Questions, asked # None, asked.about = "ageing" PROVE AgeingConserved
    BY DEF AgeingConserved
  <2>1. asked \in Ageings
    BY DEF Questions, Wires, Gates, Charts, Recoveries
  <2> DEFINE bills == asked.bills
             open == {i \in DOMAIN bills : bills[i].group # "other" /\ bills[i].paise # 0}
             agg == [s \in Sides |-> aggregateAgeing(billsForSide(bills, s))]
             card == [s \in Sides |-> ageingCard(agg[s], s)]
             Count(s) == MapThenSumSet(LAMBDA b : agg[s].totals[b].count, DOMAIN agg[s].totals)
             In(s, b) == {cell \in DOMAIN agg[s].rows : cell[2] = b}
             Late(i) == ~bills[i].advance /\ plausibleAge(bills[i].days) > bills[i].credit
             OverdueOf(group) == PaiseOf(bills, {i \in open : bills[i].group = group /\ Late(i)})
  <2>2. Bills(bills)
    <3>1. bills \in BillLists
      BY <2>1 DEF Ageings
    <3>2. bills \in Seq([party : {bills[i].party : i \in DOMAIN bills}, days : Int, credit : Int, paise : Int,
                         advance : BOOLEAN, group : {"debtor", "creditor", "other"}])
      BY <3>1, BillsAssumption
    <3> HIDE DEF bills
    <3>3. DOMAIN bills = 1 .. Len(bills) /\ Len(bills) \in Nat
      BY <3>2
    <3>4. IsFiniteSet(DOMAIN bills)
      BY <3>3, FS_Interval
    <3>5. ASSUME NEW i \in DOMAIN bills
          PROVE  /\ bills[i].paise \in Int /\ bills[i].days \in Int /\ bills[i].credit \in Int
                 /\ bills[i].advance \in BOOLEAN
                 /\ bills[i].group \in {"debtor", "creditor", "other"}
      <4> DEFINE T == [party : {bills[j].party : j \in DOMAIN bills}, days : Int, credit : Int, paise : Int,
                       advance : BOOLEAN, group : {"debtor", "creditor", "other"}]
      <4>1. bills \in Seq(T)
        BY <3>2
      <4> HIDE DEF T
      <4>2. bills[i] \in T
        BY <3>3, <4>1
      <4> QED
        BY <4>2 DEF T
    <3> QED
      BY <3>4, <3>5 DEF Bills
  <2>3. \A s \in Sides : agg[s] = aggregateAgeing(billsForSide(bills, s)) /\ card[s] = ageingCard(agg[s], s)
    OBVIOUS
  <2> HIDE DEF bills, agg, card
  <2>4. \A s \in Sides :
          /\ card[s].total = Flip(s) * PaiseOf(bills, OnSide(bills, s))
          /\ card[s].overdue = Flip(s) * PaiseOf(bills, Overdue(bills, s))
          /\ card[s].tone = Tone(card[s].total, card[s].overdue)
          /\ Count(s) = Cardinality(OnSide(bills, s))
    <3> SUFFICES ASSUME NEW s \in Sides
                 PROVE  /\ card[s].total = Flip(s) * PaiseOf(bills, OnSide(bills, s))
                        /\ card[s].overdue = Flip(s) * PaiseOf(bills, Overdue(bills, s))
                        /\ card[s].tone = Tone(card[s].total, card[s].overdue)
                        /\ Count(s) = Cardinality(OnSide(bills, s))
      OBVIOUS
    <3>1. agg[s] = aggregateAgeing(billsForSide(bills, s)) /\ card[s] = ageingCard(agg[s], s)
      BY <2>3
    <3>2. LET a == aggregateAgeing(billsForSide(bills, s))
              c == ageingCard(a, s)
          IN  /\ c.total = Flip(s) * PaiseOf(bills, OnSide(bills, s))
              /\ c.overdue = Flip(s) * PaiseOf(bills, Overdue(bills, s))
              /\ c.tone = Tone(c.total, c.overdue)
              /\ MapThenSumSet(LAMBDA b : a.totals[b].count, DOMAIN a.totals) = Cardinality(OnSide(bills, s))
      BY <2>2, CardOfSide
    <3>3. Count(s) = Cardinality(OnSide(bills, s))
      BY <3>1, <3>2
    <3> QED
      BY <3>1, <3>2, <3>3
  <2> DEFINE R == OnSide(bills, "receivable")
             P == OnSide(bills, "payable")
  <2>5. R \in SUBSET DOMAIN bills /\ P \in SUBSET DOMAIN bills /\ open = R \cup P /\ R \cap P = {}
    BY <2>2, SidesOfBills DEF OnSide
  <2>6. \A s \in Sides : Overdue(bills, s) \in SUBSET DOMAIN bills
    BY DEF Overdue, OnSide
  <2>7. Billed(bills)
    BY <2>2 DEF Bills, Billed
  <2>8. /\ PaiseOf(bills, open) = PaiseOf(bills, R) + PaiseOf(bills, P)
        /\ Cardinality(open) = Cardinality(R) + Cardinality(P)
        /\ PaiseOf(bills, R) \in Int /\ PaiseOf(bills, P) \in Int
    <3> HIDE DEF open, R, P
    <3> QED
      BY <2>5, <2>7, PaiseOfTwo, PaiseType
  <2>9. "receivable" \in Sides /\ "payable" \in Sides /\ Flip("receivable") = -1 /\ Flip("payable") = 1
    BY DEF Sides, Flip
  <2>10. Count("receivable") + Count("payable") = Cardinality(open)
    BY <2>4, <2>8, <2>9
  <2>11. card["payable"].total - card["receivable"].total = PaiseOf(bills, open)
    <3>1. card["payable"].total = Flip("payable") * PaiseOf(bills, P)
          /\ card["receivable"].total = Flip("receivable") * PaiseOf(bills, R)
      BY <2>4, <2>9
    <3> HIDE DEF open, R, P
    <3> QED
      BY <2>8, <2>9, <3>1
  <2>12. {i \in open : bills[i].group = "debtor" /\ Late(i)} = Overdue(bills, "receivable")
         /\ {i \in open : bills[i].group = "creditor" /\ Late(i)} = Overdue(bills, "payable")
    <3>1. Overdue(bills, "receivable") =
            {i \in DOMAIN bills : /\ bills[i].group # "other" /\ bills[i].paise # 0
                                  /\ bills[i].group = "debtor"
                                  /\ ~bills[i].advance /\ plausibleAge(bills[i].days) > bills[i].credit}
      BY <2>2, <2>9, OverdueOfSide
    <3>2. Overdue(bills, "payable") =
            {i \in DOMAIN bills : /\ bills[i].group # "other" /\ bills[i].paise # 0
                                  /\ bills[i].group = "creditor"
                                  /\ ~bills[i].advance /\ plausibleAge(bills[i].days) > bills[i].credit}
      BY <2>2, <2>9, OverdueOfSide
    <3> QED
      BY <3>1, <3>2
  <2>13. OverdueOf("debtor") = PaiseOf(bills, Overdue(bills, "receivable"))
         /\ OverdueOf("creditor") = PaiseOf(bills, Overdue(bills, "payable"))
    BY <2>12
  <2>14. \A s \in Sides : PaiseOf(bills, Overdue(bills, s)) \in Int /\ PaiseOf(bills, OnSide(bills, s)) \in Int
    <3> SUFFICES ASSUME NEW s \in Sides
                 PROVE  PaiseOf(bills, Overdue(bills, s)) \in Int /\ PaiseOf(bills, OnSide(bills, s)) \in Int
      OBVIOUS
    <3>1. Overdue(bills, s) \in SUBSET DOMAIN bills /\ OnSide(bills, s) \in SUBSET DOMAIN bills
      BY DEF Overdue, OnSide
    <3> QED
      BY <2>7, <3>1, PaiseType
  <2>15. card["receivable"].overdue = -OverdueOf("debtor") /\ card["payable"].overdue = OverdueOf("creditor")
    <3>1. card["receivable"].overdue = Flip("receivable") * PaiseOf(bills, Overdue(bills, "receivable"))
          /\ card["payable"].overdue = Flip("payable") * PaiseOf(bills, Overdue(bills, "payable"))
      BY <2>4, <2>9
    <3>2. PaiseOf(bills, Overdue(bills, "receivable")) \in Int /\ PaiseOf(bills, Overdue(bills, "payable")) \in Int
      BY <2>9, <2>14
    <3> HIDE DEF OverdueOf
    <3> QED
      BY <2>9, <2>13, <3>1, <3>2
  <2>16. ASSUME NEW s \in Sides, NEW b \in DOMAIN agg[s].totals
         PROVE  /\ agg[s].totals[b].paise = MapThenSumSet(LAMBDA c : agg[s].rows[c].paise, In(s, b))
                /\ agg[s].totals[b].count = MapThenSumSet(LAMBDA c : agg[s].rows[c].count, In(s, b))
    <3> DEFINE L == billsForSide(bills, s)
    <3>1. Billed(L)
      BY <2>2, SideOfBills
    <3>2. agg[s] = aggregateAgeing(L)
      BY <2>3
    <3> HIDE DEF L
    <3>3. b \in DOMAIN aggregateAgeing(L).totals
      BY <2>16, <3>2
    <3>4. LET a == aggregateAgeing(L)
              cells == {cell \in DOMAIN a.rows : cell[2] = b}
          IN  /\ a.totals[b].paise = MapThenSumSet(LAMBDA c : a.rows[c].paise, cells)
              /\ a.totals[b].count = MapThenSumSet(LAMBDA c : a.rows[c].count, cells)
      BY <3>1, <3>3, RowsAddUp
    <3> QED
      BY <3>2, <3>4
  <2>17. ASSUME NEW s \in Sides, card[s].overdue > 0, card[s].tone = "good" PROVE card[s].overdue < card[s].total
    <3>1. card[s].overdue \in Int /\ card[s].total \in Int
      <4>1. /\ card[s].overdue = Flip(s) * PaiseOf(bills, Overdue(bills, s))
            /\ card[s].total = Flip(s) * PaiseOf(bills, OnSide(bills, s))
        BY <2>4
      <4>2. PaiseOf(bills, Overdue(bills, s)) \in Int /\ PaiseOf(bills, OnSide(bills, s)) \in Int
        BY <2>14
      <4>3. Flip(s) \in Int
        BY DEF Flip
      <4> QED
        BY <4>1, <4>2, <4>3
    <3>2. Tone(card[s].total, card[s].overdue) = "good"
      BY <2>4, <2>17
    <3> QED
      BY <2>17, <3>1, <3>2, GreenIsNotOverdue
  <2>18. /\ Count("receivable") + Count("payable") = Cardinality(open)
         /\ card["payable"].total - card["receivable"].total = PaiseOf(bills, open)
         /\ card["receivable"].overdue = -OverdueOf("debtor")
         /\ card["payable"].overdue = OverdueOf("creditor")
         /\ \A s \in Sides : \A b \in DOMAIN agg[s].totals :
              /\ agg[s].totals[b].paise = MapThenSumSet(LAMBDA c : agg[s].rows[c].paise, In(s, b))
              /\ agg[s].totals[b].count = MapThenSumSet(LAMBDA c : agg[s].rows[c].count, In(s, b))
         /\ \A s \in Sides : card[s].overdue > 0 /\ card[s].tone = "good" => card[s].overdue < card[s].total
    <3> HIDE DEF Count, open, OverdueOf, In
    <3> QED
      BY <2>10, <2>11, <2>15, <2>16, <2>17
  <2> QED
    BY <2>18 DEF AgeingConserved, bills, agg, card
<1>2. asked \in Questions /\ UNCHANGED asked => (asked \in Questions)'
  OBVIOUS
<1> QED
  BY <1>1, <1>2, PTL DEF Asked

-----------------------------------------------------------------------------
(* Recovery *)

\* A checksum is a bit.
LEMMA ChecksumType == ASSUME NEW key \in RecoveryKeys PROVE Checksum(key) \in {0, 1}
<1> DEFINE h == key.high
           I == DOMAIN key.high
           f == [i \in I |-> (2 * i + 1) * key.high[i]]
           sum == MapThenSumSet(LAMBDA i : (2 * i + 1) * key.high[i], I)
           M(g) == g = [s \in SUBSET I |-> IF s = {} THEN 0 ELSE (2 * FirstOf(s) + 1) * key.high[FirstOf(s)] + g[RestOf(s)]]
<1>1. key.low \in Int /\ key.high \in [1 .. PHRASE - 1 -> 0 .. WORDS - 1]
  BY RecoveryAssumption DEF RecoveryKeys
<1>2. IsFiniteSet(I)
  <2>1. I = 1 .. PHRASE - 1 /\ PHRASE - 1 \in Nat
    BY <1>1, RecoveryAssumption
  <2> QED
    BY <2>1, FS_Interval
<1>3. \A i \in I : f[i] \in Int
  <2> SUFFICES ASSUME NEW i \in I PROVE f[i] \in Int
    OBVIOUS
  <2>1. i \in Int /\ key.high[i] \in Int
    BY <1>1, RecoveryAssumption
  <2> QED
    BY <2>1
<1>4. \A g : M(g) <=> AddsUp(g, f, I)
  <2>1. \A s \in SUBSET I : s # {} => FirstOf(s) \in I
    BY RestSmaller
  <2> QED BY <2>1 DEF AddsUp
<1>5. sum = (CHOOSE g : M(g))[I]
  BY DEF MapThenSumSet, MapThenFoldSet, FirstOf, RestOf
<1>6. Checksum(key) = ((key.low + sum) \div 2) % 2
  BY DEF Checksum
<1> HIDE DEF M, f, I, sum
<1>7. \E g : M(g)
  BY <1>2, <1>4, AddsUpExists
<1>8. AddsUp(CHOOSE g : M(g), f, I)
  BY <1>4, <1>7
<1>9. sum \in Int
  BY <1>2, <1>3, <1>5, <1>8, SumIs, FiguresType
<1>10. \A n \in Int : (n \div 2) % 2 \in {0, 1}
  OBVIOUS
<1>11. key.low + sum \in Int
  BY <1>1, <1>9
<1> QED
  BY <1>6, <1>10, <1>11

\* The words of a key: as many as there are on a sheet, each in the list.
LEMMA WordsOfKey ==
  ASSUME NEW key \in RecoveryKeys
  PROVE  LET words == entropyToMnemonic(key)
         IN  /\ words \in Seq(0 .. WORDS - 1) /\ Len(words) = PHRASE
             /\ Front(words) = key.high /\ Last(words) = 2 * key.low + Checksum(key)
<1> DEFINE elt == 2 * key.low + Checksum(key)
           W == 0 .. WORDS - 1
           words == Append(key.high, elt)
           n == PHRASE - 1
<1>1. PICK high \in [1 .. PHRASE - 1 -> 0 .. WORDS - 1], low \in 0 .. WORDS \div 2 - 1 : key = [high |-> high, low |-> low]
  BY DEF RecoveryKeys
<1>2. key.high = high /\ key.low = low
  BY <1>1
<1>3. n \in Nat /\ high \in [1 .. n -> W]
  BY RecoveryAssumption
<1>4. high \in Seq(W) /\ Len(high) = n
  <2> HIDE DEF W, n
  <2> QED
    BY <1>3
<1>5. elt \in W
  <2>1. low \in Nat /\ low <= WORDS \div 2 - 1 /\ WORDS \in Nat
    BY RecoveryAssumption
  <2>2. \A c \in {0, 1} : 2 * low + c \in 0 .. WORDS - 1
    <3>1. 2 * (WORDS \div 2) <= WORDS
      BY <2>1
    <3> QED
      BY <2>1, <3>1
  <2> QED
    BY <1>2, <2>2, ChecksumType
<1> HIDE DEF elt, W
<1>6. /\ words \in Seq(W) /\ Len(words) = n + 1
      /\ \A i \in 1 .. n : words[i] = high[i]
      /\ words[n + 1] = elt
  BY <1>2, <1>4, <1>5, AppendProperties
<1> HIDE DEF words
<1>7. Front(words) = high
  <2>1. Front(words) = SubSeq(words, 1, n)
    BY <1>3, <1>6 DEF Front
  <2>2. \A i \in 1 .. n : words[i] \in W
    BY <1>3, <1>4, <1>6
  <2>3. SubSeq(words, 1, n) \in Seq(W) /\ Len(SubSeq(words, 1, n)) = n
        /\ \A i \in 1 .. n : SubSeq(words, 1, n)[i] = words[i]
    <3>1. 1 \in Int /\ n \in Int /\ (IF 1 <= n THEN n - 1 + 1 ELSE 0) = n /\ n - 1 + 1 = n
          /\ \A i \in 1 .. n : 1 + i - 1 = i
      BY <1>3
    <3> HIDE DEF n
    <3> QED
      BY <2>2, <3>1, SubSeqProperties
  <2> QED
    BY <1>4, <1>6, <2>1, <2>3, SeqEqual
<1>8. Last(words) = elt
  BY <1>6 DEF Last
<1>9. n + 1 = PHRASE
  BY RecoveryAssumption
<1> QED
  BY <1>2, <1>6, <1>7, <1>8, <1>9 DEF words, elt, W, entropyToMnemonic

\* The words of a key are read as that key; and only they are.
LEMMA WordsRoundTrip ==
  ASSUME NEW key \in RecoveryKeys, NEW typed
  PROVE  LET parsed == parseRecoveryWords(typed)
         IN  parsed.ok /\ parsed.key = key <=> typed = entropyToMnemonic(key)
<1> DEFINE words == entropyToMnemonic(key)
           parsed == parseRecoveryWords(typed)
<1>1. /\ words \in Seq(0 .. WORDS - 1) /\ Len(words) = PHRASE
      /\ Front(words) = key.high /\ Last(words) = 2 * key.low + Checksum(key)
  BY WordsOfKey
<1>2. PICK high \in [1 .. PHRASE - 1 -> 0 .. WORDS - 1], low \in 0 .. WORDS \div 2 - 1 : key = [high |-> high, low |-> low]
  BY DEF RecoveryKeys
<1>3. mnemonicToEntropy(words) = key
  <2>1. \A l \in Int : \A c \in {0, 1} : (2 * l + c) \div 2 = l
    OBVIOUS
  <2>2. key.low \in Int
    BY <1>2, RecoveryAssumption
  <2>3. Last(words) \div 2 = key.low
    BY <1>1, <2>1, <2>2, ChecksumType
  <2> HIDE DEF words
  <2>4. mnemonicToEntropy(words) = [high |-> key.high, low |-> key.low]
    BY <1>1, <2>3 DEF mnemonicToEntropy
  <2> QED
    BY <1>2, <2>4
<1>4. validateMnemonic(words)
  BY <1>3 DEF validateMnemonic
<1>5. Misspelt \notin {words[i] : i \in DOMAIN words}
  <2> HIDE DEF words
  <2>1. \A i \in DOMAIN words : words[i] \in 0 .. WORDS - 1
    <3> DEFINE W == 0 .. WORDS - 1
    <3>1. words \in Seq(W)
      BY <1>1
    <3> HIDE DEF W
    <3>2. \A i \in DOMAIN words : words[i] \in W
      BY <3>1, LenProperties, ElementOfSeq
    <3> QED
      BY <3>2 DEF W
  <2> QED
    BY <2>1, RecoveryAssumption
<1>6. parseRecoveryWords(words) = [ok |-> TRUE, key |-> key]
  <2> HIDE DEF words
  <2> QED
    BY <1>1, <1>3, <1>4, <1>5 DEF parseRecoveryWords
<1>7. ASSUME parsed.ok, parsed.key = key PROVE typed = words
  <2>1. parsed = [ok |-> TRUE, key |-> mnemonicToEntropy(typed)] /\ validateMnemonic(typed)
    BY <1>7 DEF parseRecoveryWords, Reject
  <2>2. mnemonicToEntropy(typed) = key
    BY <1>7, <2>1
  <2> QED
    BY <2>1, <2>2 DEF validateMnemonic
<1>8. ASSUME typed = words PROVE parsed.ok /\ parsed.key = key
  BY <1>6, <1>8
<1> QED
  BY <1>7, <1>8

\* The greater of two.
LEMMA GreaterOfTwo == ASSUME NEW m \in Int, NEW n \in Int PROVE Max({m, n}) = IF m >= n THEN m ELSE n
<1> DEFINE S == {m, n}
           greater == IF m >= n THEN m ELSE n
<1>1. greater \in S /\ (\A y \in S : greater >= y) /\ \A x \in S : (\A y \in S : x >= y) => x = greater
  OBVIOUS
<1>2. Max(S) \in S /\ \A y \in S : Max(S) >= y
  <2> HIDE DEF S, greater
  <2> QED
    BY <1>1 DEF Max
<1> QED
  BY <1>1, <1>2

\* No two places of a sequence hold the same when it holds as much as it has places.
LEMMA NoneTwice ==
  ASSUME NEW seq, seq \in Seq(Range(seq))
  PROVE  IsInjective(seq) <=> Cardinality(Range(seq)) = Len(seq)
<1> DEFINE D == 1 .. Len(seq)
           R == Range(seq)
<1>0. seq \in Seq(R) /\ R = {seq[i] : i \in DOMAIN seq}
  BY DEF Range
<1> HIDE DEF R
<1>1. Len(seq) \in Nat /\ DOMAIN seq = D /\ seq \in [D -> R]
  BY <1>0, LenProperties
<1>2. IsFiniteSet(D) /\ Cardinality(D) = Len(seq)
  BY <1>1, FS_Interval
<1>3. R = {seq[i] : i \in D}
  BY <1>0, <1>1
<1> HIDE DEF D
<1>4. seq \in Surjection(D, R)
  BY <1>1, <1>3 DEF Surjection
<1>5. Cardinality(R) = Cardinality(D) <=> seq \in Injection(D, R)
  BY <1>2, <1>4, FS_Surjection
<1>6. seq \in Injection(D, R) <=> IsInjective(seq)
  BY <1>1 DEF Injection, IsInjective
<1> QED
  BY <1>2, <1>5, <1>6 DEF R

\* Which rosters are usable, said with the greater of two versions and by counting.
LEMMA WhatServes ==
  ASSUME NEW roster \in Rosters, NEW memory \in Memories
  PROVE  decodes(roster) /\ acceptRosterVersion(memory, roster.version)
         <=> /\ roster # NoRoster /\ memory # NoRoster
             /\ roster.version >= Max({1, memory}) /\ roster.devices # <<>>
             /\ Cardinality(Range(roster.devices)) = Len(roster.devices)
<1>1. CASE roster = NoRoster
  BY <1>1 DEF decodes
<1>2. CASE memory = NoRoster
  BY <1>2 DEF acceptRosterVersion
<1>3. CASE roster # NoRoster /\ memory # NoRoster
  <2>1. roster.version \in Int /\ roster.devices \in Seq(Range(roster.devices)) /\ memory \in Nat
    BY <1>3, RecoveryAssumption
  <2>2. IsInjective(roster.devices) <=> Cardinality(Range(roster.devices)) = Len(roster.devices)
    BY <2>1, NoneTwice
  <2>3. Max({1, memory}) = IF 1 >= memory THEN 1 ELSE memory
    BY <2>1, GreaterOfTwo
  <2>4. roster.version >= Max({1, memory}) <=> roster.version >= 1 /\ (memory = 0 \/ roster.version >= memory)
    BY <2>1, <2>3
  <2> QED
    BY <1>3, <2>2, <2>4 DEF decodes, acceptRosterVersion, ROSTER_FIRST_VERSION
<1> QED
  BY <1>1, <1>2, <1>3

\* Nobody gets in by a checksum that happens to fit; with a sound seal made for the sheet
\* its owner gets in unless what is inside cannot be used, and is then not sent back to
\* the sheet, with any other seal the sheet is blamed, right or wrong; and who has passed
\* the challenge has those words right.
THEOREM RecoveryIsHonest == Asked => []RecoveryTellsTheTruth
<1>1. asked \in Questions => RecoveryTellsTheTruth
  <2> SUFFICES ASSUME asked \in Questions, asked # None, asked.about = "recovery" PROVE RecoveryTellsTheTruth
    BY DEF RecoveryTellsTheTruth
  <2> DEFINE sheet == makeRecoverySheet(MyKey)
             words == asked.input.by = "words"
             parsed == IF words THEN parseRecoveryWords(asked.input.typed) ELSE parseRecoveryQr(asked.input.code)
             outcome == attemptRecovery(parsed, asked.blob, asked.memory)
             right == IF words THEN asked.input.typed = sheet.words ELSE asked.input.code = sheet.code
             mine == asked.blob.kind = "recovery" /\ asked.blob.under = MyKey
             roster == asked.blob.bundle.roster
             serves == /\ roster # NoRoster /\ asked.memory # NoRoster
                       /\ roster.version >= Max({1, asked.memory}) /\ roster.devices # <<>>
                       /\ Cardinality(Range(roster.devices)) = Len(roster.devices)
             answers == [i \in DOMAIN VERIFY_WORD_POSITIONS |-> asked.input.typed[VERIFY_WORD_POSITIONS[i]]]
             others == 1 .. PHRASE \ Range(VERIFY_WORD_POSITIONS)
             opened == openIdentity(asked.blob, parsed.key, asked.memory)
  <2>1. asked \in Recoveries
    BY DEF Questions, Wires, Gates, Ageings, Charts
  <2>2. /\ roster \in Rosters /\ asked.memory \in Memories
        /\ \/ words /\ asked.input.typed \in Typed
           \/ ~words /\ asked.input.code \in [whole : BOOLEAN, key : Keys]
    <3> DEFINE Sent == {[wrapUnderRecoveryKey(i, k, r) EXCEPT !.kind = kind] :
                          i \in {"mine"}, k \in Keys, r \in Rosters, kind \in {"recovery", "pass"}}
               ByWords == [by : {"words"}, typed : Typed]
               ByCode == [by : {"code"}, code : [whole : BOOLEAN, key : Keys]]
    <3>1. \/ asked \in [about : {"recovery"}, input : ByWords, blob : Sent, memory : Memories]
          \/ asked \in [about : {"recovery"}, input : ByCode, blob : Sent, memory : Memories]
      BY <2>1 DEF Recoveries
    <3> HIDE DEF Sent, ByWords, ByCode
    <3>2. asked.input \in ByWords \cup ByCode /\ asked.blob \in Sent /\ asked.memory \in Memories
      BY <3>1
    <3>3. asked.input \in ByWords => words /\ asked.input.typed \in Typed
      BY DEF ByWords
    <3>4. asked.input \in ByCode => ~words /\ asked.input.code \in [whole : BOOLEAN, key : Keys]
      <4> DEFINE Codes == [whole : BOOLEAN, key : Keys]
      <4>1. ByCode = [by : {"code"}, code : Codes]
        BY DEF ByCode
      <4> HIDE DEF Codes
      <4>2. asked.input \in ByCode => asked.input.by = "code" /\ asked.input.code \in Codes
        BY <4>1
      <4> QED
        BY <4>2 DEF Codes
    <3>5. roster \in Rosters
      <4>1. PICK k \in Keys, r \in Rosters, kind \in {"recovery", "pass"} :
              asked.blob = [wrapUnderRecoveryKey("mine", k, r) EXCEPT !.kind = kind]
        BY <3>2 DEF Sent
      <4>2. wrapUnderRecoveryKey("mine", k, r).bundle.roster = r
        BY DEF wrapUnderRecoveryKey
      <4>3. asked.blob.bundle = wrapUnderRecoveryKey("mine", k, r).bundle
        BY <4>1 DEF wrapUnderRecoveryKey
      <4> QED
        BY <4>2, <4>3
    <3> QED
      BY <3>2, <3>3, <3>4, <3>5
  <2>3. sheet.words = entropyToMnemonic(MyKey) /\ sheet.code = [whole |-> TRUE, key |-> MyKey]
    BY DEF makeRecoverySheet
  <2>4. MyKey \in RecoveryKeys
    BY RecoveryAssumption
  <2> HIDE DEF sheet, words
  <2>5. right <=> parsed.ok /\ parsed.key = MyKey
    <3>1. CASE words
      <4>1. parsed = parseRecoveryWords(asked.input.typed) /\ (right <=> asked.input.typed = entropyToMnemonic(MyKey))
        BY <2>3, <3>1
      <4>2. LET read == parseRecoveryWords(asked.input.typed)
            IN  read.ok /\ read.key = MyKey <=> asked.input.typed = entropyToMnemonic(MyKey)
        BY <2>4, WordsRoundTrip
      <4> QED
        BY <4>1, <4>2
    <3>2. CASE ~words
      <4> DEFINE code == asked.input.code
      <4>1. PICK whole \in BOOLEAN, key \in Keys : code = [whole |-> whole, key |-> key]
        <5>1. code \in [whole : BOOLEAN, key : Keys]
          BY <2>2, <3>2
        <5> HIDE DEF code
        <5> QED
          BY <5>1
      <4>2. parsed = parseRecoveryQr(code) /\ (right <=> code = [whole |-> TRUE, key |-> MyKey])
        BY <2>3, <3>2
      <4> HIDE DEF code, right, parsed
      <4>3. right <=> whole /\ key = MyKey
        BY <4>1, <4>2
      <4>4. parsed = IF whole THEN [ok |-> TRUE, key |-> key] ELSE [ok |-> FALSE, by |-> "length"]
        BY <4>1, <4>2 DEF parseRecoveryQr, Reject
      <4>5. parsed.ok = whole /\ (whole => parsed.key = key)
        BY <4>4
      <4> QED
        BY <4>3, <4>5
    <3> QED
      BY <3>1, <3>2
  <2>6. serves <=> decodes(roster) /\ acceptRosterVersion(asked.memory, roster.version)
    BY <2>2, WhatServes
  <2> HIDE DEF right, parsed, serves
  <2>7. \/ ~parsed.ok /\ outcome.ok = FALSE /\ outcome.action = "check the sheet"
        \/ parsed.ok /\ ~opened.ok /\ outcome.ok = FALSE
           /\ outcome.action = (IF opened.by = "roster" THEN "get help" ELSE "check the sheet")
        \/ parsed.ok /\ opened.ok /\ outcome = opened
    <3> HIDE DEF opened
    <3>1. outcome = CASE ~parsed.ok -> [ok |-> FALSE, action |-> "check the sheet"]
                      [] parsed.ok /\ ~opened.ok ->
                           [ok |-> FALSE, action |-> IF opened.by = "roster" THEN "get help" ELSE "check the sheet"]
                      [] OTHER -> opened
      BY DEF attemptRecovery, opened
    <3> HIDE DEF outcome
    <3>2. CASE ~parsed.ok
      BY <3>1, <3>2
    <3>3. CASE parsed.ok /\ ~opened.ok
      BY <3>1, <3>3
    <3>4. CASE parsed.ok /\ opened.ok
      BY <3>1, <3>4
    <3> QED
      BY <3>2, <3>3, <3>4
  <2>8. \/ (asked.blob.kind # "recovery" \/ asked.blob.under # parsed.key) /\ opened.ok = FALSE /\ opened.by = "unwrap"
        \/ asked.blob.kind = "recovery" /\ asked.blob.under = parsed.key /\ serves /\ opened.ok = TRUE
        \/ /\ asked.blob.kind = "recovery" /\ asked.blob.under = parsed.key /\ ~serves
           /\ opened.ok = FALSE /\ opened.by = "roster"
    BY <2>6 DEF openIdentity, Reject
  <2> HIDE DEF opened, outcome
  <2>9. mine => /\ outcome.ok <=> right /\ serves
                /\ ~outcome.ok => (outcome.action = "get help" <=> right)
    BY <2>5, <2>7, <2>8
  <2>10. right /\ ~mine => ~outcome.ok /\ outcome.action = "check the sheet"
    BY <2>5, <2>7, <2>8
  <2>11. ASSUME words, Len(asked.input.typed) = PHRASE, \A i \in others : asked.input.typed[i] = sheet.words[i]
         PROVE  challengePassed(sheet, answers) <=> parsed.ok /\ parsed.key = MyKey
    <3> DEFINE typed == asked.input.typed
               P == VERIFY_WORD_POSITIONS
    <3>1. P \in Seq(1 .. PHRASE) /\ DOMAIN P = 1 .. Len(P) /\ Len(P) \in Nat /\ \A i \in DOMAIN P : P[i] \in 1 .. PHRASE
      BY RecoveryAssumption
    <3>2. Len(answers) = Len(P) /\ DOMAIN answers = DOMAIN P /\ \A i \in DOMAIN P : answers[i] = typed[P[i]]
      BY <3>1
    <3> HIDE DEF answers
    <3>3. challengePassed(sheet, answers) <=> \A i \in DOMAIN P : typed[P[i]] = sheet.words[P[i]]
      BY <3>2 DEF challengePassed
    <3>4. (\A i \in DOMAIN P : typed[P[i]] = sheet.words[P[i]]) <=> \A j \in 1 .. PHRASE : typed[j] = sheet.words[j]
      <4>1. \A j \in 1 .. PHRASE : j \in others \/ \E i \in DOMAIN P : j = P[i]
        BY DEF Range
      <4> HIDE DEF others, typed, P
      <4> QED
        BY <2>11, <3>1, <4>1 DEF typed
    <3>5. (\A j \in 1 .. PHRASE : typed[j] = sheet.words[j]) <=> typed = sheet.words
      <4> DEFINE W == (0 .. WORDS - 1) \cup {Misspelt}
      <4>1. typed \in Seq(W) /\ Len(typed) = PHRASE
        BY <2>2, <2>11, RecoveryAssumption
      <4>2. sheet.words \in Seq(W) /\ Len(sheet.words) = PHRASE
        <5> DEFINE V == 0 .. WORDS - 1
        <5>1. sheet.words \in Seq(V) /\ Len(sheet.words) = PHRASE
          BY <2>3, <2>4, WordsOfKey
        <5>2. V \subseteq W
          OBVIOUS
        <5> HIDE DEF V, W
        <5> QED
          BY <5>1, <5>2, SeqMonotonic
      <4> HIDE DEF W, typed
      <4> QED
        BY <4>1, <4>2, SeqEqual
    <3>6. typed = sheet.words <=> parsed.ok /\ parsed.key = MyKey
      BY <2>5, <2>11 DEF right
    <3> QED
      BY <3>3, <3>4, <3>5, <3>6
  <2>12. /\ mine => /\ outcome.ok <=> right /\ serves
                    /\ ~outcome.ok => (outcome.action = "get help" <=> right)
         /\ right /\ ~mine => ~outcome.ok /\ outcome.action = "check the sheet"
         /\ words /\ Len(asked.input.typed) = PHRASE /\ (\A i \in others : asked.input.typed[i] = sheet.words[i]) =>
              (challengePassed(sheet, answers) <=> parsed.ok /\ parsed.key = MyKey)
    <3> HIDE DEF mine, answers, others
    <3> QED
      BY <2>9, <2>10, <2>11
  <2> QED
    BY <2>12 DEF RecoveryTellsTheTruth, sheet, words, right, parsed, serves, outcome
<1>2. asked \in Questions /\ UNCHANGED asked => (asked \in Questions)'
  OBVIOUS
<1> QED
  BY <1>1, <1>2, PTL DEF Asked

-----------------------------------------------------------------------------
(* Charts of accounts *)

\* Numbers up to a bound have a least one.
LEMMA LeastNumber == ASSUME NEW n \in Nat, NEW K \in SUBSET (0 .. n), K # {} PROVE \E k \in K : \A j \in K : k <= j
<1> DEFINE N == 0 .. n
           F == {0 .. k : k \in K}
<1>1. IsFiniteSet(N) /\ F \in SUBSET SUBSET N /\ F # {}
  <2>1. \A k \in K : k \in 0 .. n /\ 0 .. k \subseteq 0 .. n
    OBVIOUS
  <2>2. IsFiniteSet(N)
    BY FS_Interval
  <2>3. F # {}
    OBVIOUS
  <2> QED
    BY <2>1, <2>2, <2>3
<1>2. PICK T \in F : \A U \in F : U \subseteq T => U = T
  <2> HIDE DEF F, N
  <2> QED
    BY <1>1, LeastSet
<1>3. PICK k \in K : T = 0 .. k
  OBVIOUS
<1>4. ASSUME NEW j \in K PROVE k <= j
  <2> SUFFICES ASSUME j < k PROVE FALSE
    OBVIOUS
  <2>1. 0 .. j \subseteq 0 .. k /\ k \in 0 .. k /\ k \notin 0 .. j
    OBVIOUS
  <2>2. 0 .. j \in F
    OBVIOUS
  <2> QED
    BY <1>2, <1>3, <2>1, <2>2
<1> QED
  BY <1>4

\* What is closed contains what is reached, and that is closed itself.
LEMMA ClosureIs ==
  ASSUME NEW from \in SUBSET Groups, NEW onward, \A g \in DOMAIN onward : onward[g] \subseteq Groups
  PROVE  /\ Closure(from, onward) \subseteq Groups
         /\ from \subseteq Closure(from, onward)
         /\ \A g \in Closure(from, onward) \cap DOMAIN onward : onward[g] \subseteq Closure(from, onward)
         /\ \A S \in SUBSET Groups :
              from \subseteq S /\ (\A h \in S \cap DOMAIN onward : onward[h] \subseteq S) => Closure(from, onward) \subseteq S
BY DEF Closure

\* Walking up from a group, as far as n parents.
Climbs(up, name, parentOf, n) ==
  up = [k \in 0 .. n |-> IF k = 0 THEN name
                         ELSE IF up[k - 1] \in DOMAIN parentOf THEN parentOf[up[k - 1]] ELSE TOP]

\* Every step of w is one to the parent.
Ascends(w, name, parentOf, m) ==
  /\ w[0] = name
  /\ \A k \in 1 .. m : w[k] = IF w[k - 1] \in DOMAIN parentOf THEN parentOf[w[k - 1]] ELSE TOP

\* There is one way to walk up.
LEMMA ClimbsOnce ==
  ASSUME NEW name, NEW parentOf, NEW n \in Nat, NEW m \in Nat, NEW u, NEW w,
         Climbs(u, name, parentOf, n), m <= n, Ascends(w, name, parentOf, m)
  PROVE  \A k \in 0 .. m : w[k] = u[k]
<1> DEFINE K == {k \in 0 .. m : w[k] # u[k]}
<1>1. ASSUME K # {} PROVE FALSE
  <2>1. PICK k \in K : \A j \in K : k <= j
    <3> HIDE DEF K
    <3>1. K \in SUBSET (0 .. m)
      BY DEF K
    <3> QED
      BY <1>1, <3>1, LeastNumber
  <2>6. w[0] = name
    BY DEF Ascends
  <2>2. \A j \in 0 .. m : u[j] = IF j = 0 THEN name ELSE IF u[j - 1] \in DOMAIN parentOf THEN parentOf[u[j - 1]] ELSE TOP
    BY DEF Climbs
  <2>3. k # 0
    BY <2>2, <2>6
  <2>4. k - 1 \in 0 .. m /\ k - 1 \notin K /\ k \in 1 .. m
    BY <2>1, <2>3
  <2>5. w[k - 1] = u[k - 1]
    BY <2>4
  <2> QED
    BY <2>2, <2>3, <2>4, <2>5 DEF Ascends
<1> QED
  BY <1>1

\* One can walk up as far as one likes.
LEMMA ClimbsExists == ASSUME NEW name, NEW parentOf, NEW n \in Nat PROVE \E up : Climbs(up, name, parentOf, n)
<1> DEFINE K == {k \in 0 .. n : ~ \E up : Climbs(up, name, parentOf, k)}
<1>1. ASSUME K # {} PROVE FALSE
  <2>1. PICK m \in K : \A j \in K : m <= j
    <3> HIDE DEF K
    <3>1. K \in SUBSET (0 .. n)
      BY DEF K
    <3> QED
      BY <1>1, <3>1, LeastNumber
  <2>2. CASE m = 0
    <3> DEFINE up == [k \in 0 .. 0 |-> name]
    <3>1. up = [k \in 0 .. 0 |-> IF k = 0 THEN name
                                ELSE IF up[k - 1] \in DOMAIN parentOf THEN parentOf[up[k - 1]] ELSE TOP]
      OBVIOUS
    <3> HIDE DEF up
    <3>2. Climbs(up, name, parentOf, m)
      BY <2>2, <3>1 DEF Climbs
    <3> QED
      BY <3>2
  <2>3. CASE m # 0
    <3>1. m - 1 \in 0 .. n /\ m - 1 \notin K /\ m \in Nat
      BY <2>1, <2>3
    <3>2. PICK u : Climbs(u, name, parentOf, m - 1)
      BY <3>1
    <3> DEFINE Next1(x) == IF x \in DOMAIN parentOf THEN parentOf[x] ELSE TOP
               up == [k \in 0 .. m |-> IF k = 0 THEN name ELSE Next1(u[k - 1])]
    <3>3. \A k \in 0 .. m - 1 : u[k] = IF k = 0 THEN name ELSE Next1(u[k - 1])
      BY <3>2 DEF Climbs
    <3> HIDE DEF Next1
    <3>4. \A k \in 0 .. m : k # 0 => k - 1 \in 0 .. m - 1 /\ up[k - 1] = u[k - 1]
      BY <3>1, <3>3
    <3>5. up = [k \in 0 .. m |-> IF k = 0 THEN name ELSE Next1(up[k - 1])]
      BY <3>4
    <3> HIDE DEF up
    <3>6. Climbs(up, name, parentOf, m)
      BY <3>5 DEF Climbs, Next1
    <3> QED
      BY <3>6
  <2> QED
    BY <2>2, <2>3
<1>2. n \notin K
  BY <1>1
<1> QED
  BY <1>2

\* What isOnParentCycle looks for.
LEMMA CycleIs ==
  ASSUME NEW name, NEW parentOf, IsFiniteSet(DOMAIN parentOf)
  PROVE  \E up : /\ Climbs(up, name, parentOf, Cardinality(DOMAIN parentOf))
                 /\ isOnParentCycle(name, parentOf) <=> \E k \in 1 .. Cardinality(DOMAIN parentOf) : up[k] = name
<1> DEFINE n == Cardinality(DOMAIN parentOf)
           M(up) == up = [k \in 0 .. n |-> IF k = 0 THEN name
                                ELSE IF up[k - 1] \in DOMAIN parentOf THEN parentOf[up[k - 1]] ELSE TOP]
<1>1. isOnParentCycle(name, parentOf) <=> \E k \in 1 .. n : (CHOOSE up : M(up))[k] = name
  BY DEF isOnParentCycle
<1>2. \A up : M(up) <=> Climbs(up, name, parentOf, n)
  BY DEF Climbs
<1>3. n \in Nat
  BY FS_CardinalityType
<1> HIDE DEF M, n
<1>4. \E up : M(up)
  BY <1>2, <1>3, ClimbsExists
<1>5. Climbs(CHOOSE up : M(up), name, parentOf, n)
  BY <1>2, <1>4
<1>6. \E up : Climbs(up, name, parentOf, n) /\ (isOnParentCycle(name, parentOf) <=> \E k \in 1 .. n : up[k] = name)
  BY <1>1, <1>5
<1> QED
  BY <1>6 DEF n

\* Who never leaves some groups on the way up goes round in a circle.
LEMMA NeverOutIsCycle ==
  ASSUME NEW parentOf, IsFiniteSet(DOMAIN parentOf), NEW X \in SUBSET DOMAIN parentOf, X # {},
         \A x \in X : parentOf[x] \in X
  PROVE  \E x \in X : isOnParentCycle(x, parentOf)
<1> DEFINE n == Cardinality(DOMAIN parentOf)
<1>1. IsFiniteSet(X) /\ Cardinality(X) <= n /\ n \in Nat
  BY FS_Subset, FS_CardinalityType
<1> HIDE DEF n
<1>2. PICK x \in X : TRUE
  OBVIOUS
<1>3. PICK u : Climbs(u, x, parentOf, n)
  BY <1>1, ClimbsExists
<1>4. \A k \in 0 .. n : u[k] = IF k = 0 THEN x ELSE IF u[k - 1] \in DOMAIN parentOf THEN parentOf[u[k - 1]] ELSE TOP
  BY <1>3 DEF Climbs
<1>5. \A k \in 0 .. n : u[k] \in X
  <2> DEFINE K == {k \in 0 .. n : u[k] \notin X}
  <2>1. ASSUME K # {} PROVE FALSE
    <3>1. PICK k \in K : \A j \in K : k <= j
      <4> HIDE DEF K
      <4>1. K \in SUBSET (0 .. n)
        BY DEF K
      <4> QED
        BY <1>1, <2>1, <4>1, LeastNumber
    <3>2. k # 0
      BY <1>1, <1>4
    <3>3. k - 1 \in 0 .. n /\ k - 1 \notin K
      BY <3>1, <3>2, <1>1
    <3>4. u[k - 1] \in X
      BY <3>3
    <3> QED
      BY <1>4, <3>2, <3>4
  <2> QED
    BY <2>1
<1>6. PICK i \in 0 .. n, j \in 0 .. n : i < j /\ u[i] = u[j]
  <2> DEFINE N == 0 .. n
  <2>1. IsFiniteSet(N) /\ Cardinality(N) = n + 1
    <3>1. Cardinality(0 .. n) = IF 0 > n THEN 0 ELSE n - 0 + 1
      BY <1>1, FS_Interval
    <3> QED
      BY <1>1, <3>1, FS_Interval
  <2>2. Cardinality(X) \in Nat /\ Cardinality(X) < Cardinality(N)
    BY <1>1, <2>1, FS_CardinalityType
  <2> DEFINE f == [k \in N |-> u[k]]
  <2>3. f \in [N -> X]
    BY <1>5
  <2> HIDE DEF N, f
  <2>4. \E a, b \in N : a # b /\ f[a] = f[b]
    BY <1>1, <2>1, <2>2, <2>3, FS_PigeonHole
  <2>5. PICK a \in N, b \in N : a # b /\ f[a] = f[b]
    BY <2>4
  <2>6. u[a] = u[b] /\ a \in 0 .. n /\ b \in 0 .. n
    BY <2>5 DEF f, N
  <2>7. a < b \/ b < a
    BY <2>5, <2>6, <1>1
  <2> QED
    BY <2>6, <2>7
<1> DEFINE y == u[i]
           m == j - i
           w == [k \in 0 .. m |-> u[i + k]]
<1>7. m \in Nat /\ m \in 1 .. n
  BY <1>1, <1>6
<1>8. w[0] = y /\ w[m] = y
  BY <1>1, <1>6, <1>7
<1>9. \A k \in 1 .. m : w[k] = IF w[k - 1] \in DOMAIN parentOf THEN parentOf[w[k - 1]] ELSE TOP
  <2> SUFFICES ASSUME NEW k \in 1 .. m
               PROVE  w[k] = IF w[k - 1] \in DOMAIN parentOf THEN parentOf[w[k - 1]] ELSE TOP
    OBVIOUS
  <2>1. k \in 0 .. m /\ k - 1 \in 0 .. m /\ i + k \in 0 .. n /\ i + k # 0 /\ (i + k) - 1 = i + (k - 1)
    BY <1>1, <1>6, <1>7
  <2>2. w[k] = u[i + k] /\ w[k - 1] = u[i + (k - 1)]
    BY <2>1
  <2> HIDE DEF w
  <2> QED
    BY <1>4, <2>1, <2>2
<1>10. y \in X
  BY <1>5
<1> HIDE DEF w, m, y
<1>11. PICK up : /\ Climbs(up, y, parentOf, Cardinality(DOMAIN parentOf))
                 /\ isOnParentCycle(y, parentOf) <=> \E k \in 1 .. Cardinality(DOMAIN parentOf) : up[k] = y
  BY CycleIs, Zenon
<1>14. Climbs(up, y, parentOf, n) /\ (isOnParentCycle(y, parentOf) <=> \E k \in 1 .. n : up[k] = y)
  BY <1>11 DEF n
<1>15. Ascends(w, y, parentOf, m)
  BY <1>8, <1>9 DEF Ascends
<1>12. \A k \in 0 .. m : w[k] = up[k]
  BY <1>1, <1>7, <1>14, <1>15, ClimbsOnce
<1>13. up[m] = y
  BY <1>7, <1>8, <1>12
<1> QED
  BY <1>7, <1>10, <1>13, <1>14

\* Charts: every group has a parent, which is a group or the top.
Parents == [Groups -> Groups \cup {TOP}]

\* The parents that a pull of some groups knows of.
Known(parent, pulled) == [g \in pulled |-> parent[g]]

\* Groups, and those right below each.
Below(parent) == [g \in Groups |-> {h \in Groups : parent[h] = g}]

\* A group with all below it.
Within(parent, g) == Closure({g}, Below(parent))

\* What a pull knows of the parents.
LEMMA ParentOfRows ==
  ASSUME NEW parent, NEW pulled, NEW rows, \A r \in rows : r.group \in pulled /\ r.parent = parent[r.group],
         \A g \in pulled : \E r \in rows : r.group = g
  PROVE  ParentOf(rows) = Known(parent, pulled)
<1>1. {r.group : r \in rows} = pulled
  OBVIOUS
<1>2. \A g \in pulled : (CHOOSE r \in rows : r.group = g).parent = parent[g]
  <2> SUFFICES ASSUME NEW g \in pulled PROVE (CHOOSE r \in rows : r.group = g).parent = parent[g]
    OBVIOUS
  <2>1. \E r \in rows : r.group = g
    OBVIOUS
  <2>2. (CHOOSE r \in rows : r.group = g) \in rows /\ (CHOOSE r \in rows : r.group = g).group = g
    BY <2>1
  <2> QED
    BY <2>2
<1> QED
  BY <1>1, <1>2 DEF ParentOf, Known

\* A group is contained in another when its parent was pulled and it is on no cycle.
LEMMA ContainedIs ==
  ASSUME NEW parent \in Parents, NEW pulled \in SUBSET Groups, NEW g \in pulled
  PROVE  Contained(g, Known(parent, pulled)) <=> parent[g] \in pulled /\ ~isOnParentCycle(g, Known(parent, pulled))
<1>1. TOP \notin pulled
  BY ChartAssumption
<1>2. DOMAIN Known(parent, pulled) = pulled /\ Known(parent, pulled)[g] = parent[g]
  BY DEF Known
<1> QED
  BY <1>1, <1>2 DEF Contained

\* The tree of a pull.
LEMMA TreeIs ==
  ASSUME NEW parent \in Parents, NEW pulled \in SUBSET Groups
  PROVE  LET tree == balanceSheetTree({[group |-> g, parent |-> parent[g], isRevenue |-> FALSE] : g \in pulled})
             In(g) == Contained(g, Known(parent, pulled))
         IN  /\ tree.roots = {g \in pulled : ~In(g)}
             /\ tree.children = [p \in pulled |-> {g \in pulled : parent[g] = p /\ In(g)}]
<1> DEFINE rows == {[group |-> g, parent |-> parent[g], isRevenue |-> FALSE] : g \in pulled}
           sheet == {r \in rows : ~r.isRevenue}
           known == Known(parent, pulled)
<1>1. /\ \A r \in rows : r.group \in pulled /\ r.parent = parent[r.group] /\ r.isRevenue = FALSE
      /\ \A g \in pulled : \E r \in rows : r.group = g
  <2>1. ASSUME NEW g \in pulled PROVE \E r \in rows : r.group = g
    <3>1. [group |-> g, parent |-> parent[g], isRevenue |-> FALSE] \in rows
      OBVIOUS
    <3>2. [group |-> g, parent |-> parent[g], isRevenue |-> FALSE].group = g
      OBVIOUS
    <3> QED
      BY <3>1, <3>2
  <2>2. ASSUME NEW r \in rows PROVE r.group \in pulled /\ r.parent = parent[r.group] /\ r.isRevenue = FALSE
    <3>1. PICK g \in pulled : r = [group |-> g, parent |-> parent[g], isRevenue |-> FALSE]
      OBVIOUS
    <3> QED
      BY <3>1
  <2> QED
    BY <2>1, <2>2
<1> HIDE DEF rows
<1>2. ParentOf(sheet) = known
  BY <1>1, ParentOfRows
<1>3. DOMAIN known = pulled /\ \A g \in pulled : known[g] = parent[g]
  BY DEF Known
<1>4. balanceSheetTree(rows) =
        [roots |-> {g \in DOMAIN known : ~Contained(g, known)},
         children |-> [p \in DOMAIN known |-> {g \in DOMAIN known : known[g] = p /\ Contained(g, known)}]]
  BY <1>2 DEF balanceSheetTree
<1> HIDE DEF known
<1>5. /\ balanceSheetTree(rows).roots = {g \in pulled : ~Contained(g, known)}
      /\ balanceSheetTree(rows).children = [p \in pulled |-> {g \in pulled : parent[g] = p /\ Contained(g, known)}]
  BY <1>3, <1>4
<1> QED
  BY <1>5 DEF rows, known

\* Every group that was pulled is reached from a root: whatever is not would be on
\* a way up that never ends, and so some of it on a cycle.
LEMMA TreeReachesAll ==
  ASSUME NEW parent \in Parents, NEW pulled \in SUBSET Groups
  PROVE  LET tree == balanceSheetTree({[group |-> g, parent |-> parent[g], isRevenue |-> FALSE] : g \in pulled})
         IN  Closure(tree.roots, tree.children) = pulled
<1> DEFINE tree == balanceSheetTree({[group |-> g, parent |-> parent[g], isRevenue |-> FALSE] : g \in pulled})
           known == Known(parent, pulled)
           reached == Closure(tree.roots, tree.children)
           lost == pulled \ reached
<1>1. /\ tree.roots = {g \in pulled : ~Contained(g, known)}
      /\ tree.children = [p \in pulled |-> {g \in pulled : parent[g] = p /\ Contained(g, known)}]
  BY TreeIs
<1> HIDE DEF tree
<1>2. tree.roots \in SUBSET pulled /\ DOMAIN tree.children = pulled /\ \A g \in pulled : tree.children[g] \subseteq pulled
  BY <1>1
<1>3. /\ tree.roots \subseteq reached
      /\ \A g \in reached \cap pulled : tree.children[g] \subseteq reached
      /\ reached \subseteq pulled
  <2>1. tree.roots \in SUBSET Groups /\ \A g \in DOMAIN tree.children : tree.children[g] \subseteq Groups
    BY <1>2
  <2>2. /\ tree.roots \subseteq reached
        /\ \A g \in reached \cap DOMAIN tree.children : tree.children[g] \subseteq reached
        /\ \A S \in SUBSET Groups :
             tree.roots \subseteq S /\ (\A h \in S \cap DOMAIN tree.children : tree.children[h] \subseteq S) => reached \subseteq S
    BY <2>1, ClosureIs
  <2> HIDE DEF reached
  <2> QED
    BY <1>2, <2>2
<1> HIDE DEF reached
<1>4. ASSUME lost # {} PROVE FALSE
  <2>1. \A g \in lost : Contained(g, known) /\ parent[g] \in pulled /\ ~isOnParentCycle(g, known)
    BY <1>1, <1>3, ContainedIs
  <2>2. \A g \in lost : parent[g] \in lost
    BY <1>1, <1>3, <2>1
  <2>3. DOMAIN known = pulled /\ \A g \in pulled : known[g] = parent[g]
    BY DEF Known
  <2>4. IsFiniteSet(DOMAIN known)
    BY <2>3, ChartAssumption, FS_Subset
  <2> HIDE DEF known, lost
  <2>5. lost \in SUBSET DOMAIN known /\ \A g \in lost : known[g] \in lost
    BY <2>2, <2>3 DEF lost
  <2>6. \E g \in lost : isOnParentCycle(g, known)
    BY <1>4, <2>4, <2>5, NeverOutIsCycle
  <2> QED
    BY <2>1, <2>6
<1>5. reached = pulled
  BY <1>3, <1>4
<1> QED
  BY <1>5 DEF reached, tree

\* A group is below one group of the tree, or a root.
LEMMA TreePlacesOnce ==
  ASSUME NEW parent \in Parents, NEW pulled \in SUBSET Groups, NEW g \in pulled
  PROVE  LET tree == balanceSheetTree({[group |-> h, parent |-> parent[h], isRevenue |-> FALSE] : h \in pulled})
         IN  Cardinality({p \in pulled : g \in tree.children[p]}) = (IF g \in tree.roots THEN 0 ELSE 1)
<1> DEFINE tree == balanceSheetTree({[group |-> h, parent |-> parent[h], isRevenue |-> FALSE] : h \in pulled})
           known == Known(parent, pulled)
           over == {p \in pulled : g \in tree.children[p]}
<1>1. /\ tree.roots = {h \in pulled : ~Contained(h, known)}
      /\ tree.children = [p \in pulled |-> {h \in pulled : parent[h] = p /\ Contained(h, known)}]
  BY TreeIs
<1> HIDE DEF tree, known
<1>2. CASE Contained(g, known)
  <2>1. over = {parent[g]}
    BY <1>1, <1>2, ContainedIs DEF known
  <2>2. Cardinality(over) = 1
    BY <2>1, FS_Singleton
  <2> QED
    BY <1>1, <1>2, <2>2 DEF tree
<1>3. CASE ~Contained(g, known)
  <2>1. over = {}
    BY <1>1, <1>3
  <2>2. Cardinality(over) = 0
    BY <2>1, FS_EmptySet
  <2> QED
    BY <1>1, <1>3, <2>2 DEF tree
<1> QED
  BY <1>2, <1>3

\* A group and all below it, and nothing else.
LEMMA WithinIs ==
  ASSUME NEW parent \in Parents, NEW g \in Groups
  PROVE  /\ Within(parent, g) \subseteq Groups /\ g \in Within(parent, g)
         /\ \A x \in Groups : parent[x] \in Within(parent, g) => x \in Within(parent, g)
         /\ \A x \in Within(parent, g) : x = g \/ parent[x] \in Within(parent, g)
         /\ \A S \in SUBSET Groups : g \in S /\ (\A x \in Groups : parent[x] \in S => x \in S) => Within(parent, g) \subseteq S
<1> DEFINE W == Within(parent, g)
           from == {g}
           onward == Below(parent)
<1>1. DOMAIN onward = Groups /\ \A h \in Groups : onward[h] = {x \in Groups : parent[x] = h}
  BY DEF Below
<1> HIDE DEF onward
<1>2. from \in SUBSET Groups /\ \A h \in DOMAIN onward : onward[h] \subseteq Groups
  BY <1>1
<1>3. W = Closure(from, onward)
  BY DEF Within, onward
<1> HIDE DEF W, from
<1>4. /\ W \subseteq Groups /\ from \subseteq W
      /\ \A h \in W \cap DOMAIN onward : onward[h] \subseteq W
      /\ \A S \in SUBSET Groups : from \subseteq S /\ (\A h \in S \cap DOMAIN onward : onward[h] \subseteq S) => W \subseteq S
  BY <1>2, <1>3, ClosureIs
<1>5. g \in W
  BY <1>4 DEF from
<1>6. \A x \in Groups : parent[x] \in W => x \in W
  BY <1>1, <1>4
<1>7. ASSUME NEW S \in SUBSET Groups, g \in S, \A x \in Groups : parent[x] \in S => x \in S PROVE W \subseteq S
  <2>1. from \subseteq S
    BY <1>7 DEF from
  <2>2. \A h \in S \cap DOMAIN onward : onward[h] \subseteq S
    BY <1>1, <1>7
  <2> QED
    BY <1>4, <2>1, <2>2
<1>8. \A x \in W : x = g \/ parent[x] \in W
  <2> DEFINE S == {x \in W : x = g \/ parent[x] \in W}
  <2>1. S \in SUBSET Groups /\ g \in S /\ \A x \in Groups : parent[x] \in S => x \in S
    BY <1>4, <1>5, <1>6
  <2> HIDE DEF S
  <2>2. W \subseteq S
    BY <1>7, <2>1
  <2> QED
    BY <2>2 DEF S
<1> QED
  BY <1>4, <1>5, <1>6, <1>7, <1>8 DEF W

\* In a forest nothing is on a cycle.
Forest(parent) == \A g \in Groups : \A h \in Below(parent)[g] : g \notin Within(parent, h)

\* A walk up that comes back comes through the group below the one it comes to.
LEMMA ForestHasNoCycle ==
  ASSUME NEW parent \in Parents, NEW pulled \in SUBSET Groups, Forest(parent), NEW y \in pulled
  PROVE  ~isOnParentCycle(y, Known(parent, pulled))
<1> DEFINE known == Known(parent, pulled)
           n == Cardinality(DOMAIN known)
<1>1. DOMAIN known = pulled /\ (\A g \in pulled : known[g] = parent[g]) /\ TOP \notin Groups
  BY ChartAssumption DEF Known
<1>2. IsFiniteSet(DOMAIN known) /\ n \in Nat
  BY <1>1, ChartAssumption, FS_Subset, FS_CardinalityType
<1> HIDE DEF known
<1>3. PICK u : Climbs(u, y, known, Cardinality(DOMAIN known))
               /\ (isOnParentCycle(y, known) <=> \E k \in 1 .. Cardinality(DOMAIN known) : u[k] = y)
  BY <1>2, CycleIs, Zenon
<1>4. \A k \in 0 .. n : u[k] = IF k = 0 THEN y ELSE IF u[k - 1] \in DOMAIN known THEN known[u[k - 1]] ELSE TOP
  BY <1>3 DEF Climbs
<1>5. ASSUME NEW k \in 1 .. n, u[k] = y PROVE FALSE
  <2> HIDE DEF n
  <2> DEFINE K == {m \in 1 .. k : u[m] \in Within(parent, y)}
  <2>1. /\ Within(parent, y) \subseteq Groups /\ y \in Within(parent, y)
        /\ \A x \in Groups : parent[x] \in Within(parent, y) => x \in Within(parent, y)
    BY WithinIs
  <2>2. K \in SUBSET (0 .. n) /\ k \in K
    BY <1>2, <1>5, <2>1
  <2>3. PICK m \in K : \A j \in K : m <= j
    <3> HIDE DEF K
    <3> QED
      BY <1>2, <2>2, LeastNumber
  <2>4. m \in 1 .. k /\ u[m] \in Within(parent, y) /\ m \in 0 .. n /\ m # 0 /\ m - 1 \in 0 .. n
    BY <1>2, <2>2, <2>3
  <2>5. u[m - 1] \in pulled /\ u[m] = parent[u[m - 1]]
    BY <1>1, <1>4, <2>1, <2>4
  <2>6. m = 1
    <3> SUFFICES ASSUME m # 1 PROVE FALSE
      OBVIOUS
    <3>1. m - 1 \in 1 .. k /\ m - 1 \notin K
      BY <1>2, <2>3, <2>4
    <3>2. u[m - 1] \in Within(parent, y)
      BY <2>1, <2>4, <2>5
    <3> QED
      BY <3>1, <3>2
  <2>7. u[0] = y /\ u[1] = parent[y] /\ u[1] \in Within(parent, y)
    BY <1>2, <1>4, <2>4, <2>5, <2>6
  <2>8. y \in Below(parent)[parent[y]] /\ parent[y] \in Groups
    BY <2>1, <2>7 DEF Below
  <2> QED
    BY <2>7, <2>8 DEF Forest
<1> QED
  BY <1>3, <1>5 DEF known

\* What was booked in some groups.
OwnOf(X) == SumFunctionOnSet(Own, X)

\* It is a figure, and what the rows of the property are summed from.
LEMMA OwnIs ==
  ASSUME NEW X \in SUBSET Groups
  PROVE  /\ MapThenSumSet(LAMBDA h : Own[h], X) = OwnOf(X)
         /\ OwnOf(X) \in Int /\ IsFiniteSet(X)
<1>1. IsFiniteSet(X) /\ \A h \in X : Own[h] \in Int
  BY ChartAssumption, FS_Subset
<1>2. OwnOf(X) \in Int
  BY <1>1, FiguresType DEF OwnOf
<1>3. MapThenSumSet(LAMBDA h : Own[h], X) = OwnOf(X)
  BY DEF MapThenSumSet, SumFunctionOnSet, FoldFunctionOnSet, OwnOf
<1> QED
  BY <1>1, <1>2, <1>3

\* The groups of a pull that are in no other group of it.
RootsOf(parent, pulled) == {g \in pulled : parent[g] \notin pulled}

\* A pull with every group below one that was pulled.
Whole(parent, pulled) == Forest(parent) /\ \A g \in pulled : Within(parent, g) \subseteq pulled

\* In a whole pull what is contained is what is no root.
LEMMA RootsAre ==
  ASSUME NEW parent \in Parents, NEW pulled \in SUBSET Groups, Whole(parent, pulled)
  PROVE  {g \in pulled : ~Contained(g, Known(parent, pulled))} = RootsOf(parent, pulled)
<1>1. \A g \in pulled : Contained(g, Known(parent, pulled)) <=> parent[g] \in pulled
  BY ContainedIs, ForestHasNoCycle DEF Whole
<1> QED
  BY <1>1 DEF RootsOf

\* Every group is below a root, and below no other.
LEMMA RootsDivide ==
  ASSUME NEW parent \in Parents, NEW pulled \in SUBSET Groups, Whole(parent, pulled)
  PROVE  /\ \A h \in pulled : \E g \in RootsOf(parent, pulled) : h \in Within(parent, g)
         /\ \A g1, g2 \in RootsOf(parent, pulled) : \A h \in Within(parent, g1) \cap Within(parent, g2) : g1 = g2
<1> DEFINE roots == RootsOf(parent, pulled)
           W(g) == Within(parent, g)
<1>1. roots \subseteq pulled /\ \A g \in roots : parent[g] \notin pulled
  BY DEF RootsOf
<1>2. \A g \in Groups : /\ W(g) \subseteq Groups /\ g \in W(g)
                        /\ \A x \in Groups : parent[x] \in W(g) => x \in W(g)
                        /\ \A x \in W(g) : x = g \/ parent[x] \in W(g)
                        /\ \A S \in SUBSET Groups : g \in S /\ (\A x \in Groups : parent[x] \in S => x \in S) => W(g) \subseteq S
  BY WithinIs
<1>3. \A g \in pulled : W(g) \subseteq pulled
  BY DEF Whole
<1>4. \A h \in pulled : \E g \in roots : h \in W(g)
  <2> DEFINE tree == balanceSheetTree({[group |-> g, parent |-> parent[g], isRevenue |-> FALSE] : g \in pulled})
             In(g) == Contained(g, Known(parent, pulled))
             S == {h \in pulled : \E g \in roots : h \in W(g)}
  <2>1. Closure(tree.roots, tree.children) = pulled
    BY TreeReachesAll
  <2>2. tree.roots = {g \in pulled : ~In(g)} /\ tree.children = [p \in pulled |-> {g \in pulled : parent[g] = p /\ In(g)}]
    BY TreeIs
  <2> HIDE DEF tree
  <2>3. tree.roots = roots
    BY <2>2, RootsAre
  <2> HIDE DEF roots, W
  <2>4. tree.roots \in SUBSET Groups /\ DOMAIN tree.children = pulled
        /\ \A p \in DOMAIN tree.children : tree.children[p] \subseteq Groups
    BY <1>1, <2>2, <2>3
  <2>5. roots \subseteq S
    BY <1>1, <1>2
  <2>6. \A h \in S \cap DOMAIN tree.children : tree.children[h] \subseteq S
    <3> SUFFICES ASSUME NEW h \in S, NEW c \in pulled, parent[c] = h PROVE c \in S
      BY <2>2, <2>4
    <3>1. PICK g \in roots : h \in W(g)
      OBVIOUS
    <3>2. c \in W(g)
      BY <1>1, <1>2, <3>1
    <3> QED
      BY <3>2
  <2>7. S \in SUBSET Groups
    OBVIOUS
  <2> HIDE DEF S
  <2>8. Closure(tree.roots, tree.children) \subseteq S
    BY <2>3, <2>4, <2>5, <2>6, <2>7, ClosureIs
  <2> QED
    BY <2>1, <2>8 DEF S
<1>5. ASSUME NEW g1 \in roots, NEW g2 \in roots, g1 # g2, NEW h \in W(g1) \cap W(g2) PROVE FALSE
  <2> DEFINE A == {x \in W(g1) : x \notin W(g2)}
  <2> HIDE DEF roots, W
  <2>1. g1 \in Groups /\ g2 \in Groups /\ W(g1) \subseteq pulled /\ W(g2) \subseteq pulled
        /\ parent[g1] \notin pulled /\ parent[g2] \notin pulled
    BY <1>1, <1>3
  <2>2. g1 \in A
    BY <1>2, <1>5, <2>1
  <2>3. ASSUME NEW x \in Groups, parent[x] \in A PROVE x \in A
    <3>1. x \in W(g1)
      BY <1>2, <2>1, <2>3
    <3>2. x # g2
      BY <2>1, <2>3
    <3> QED
      BY <1>2, <2>1, <2>3, <3>1, <3>2
  <2>4. A \in SUBSET Groups
    BY <1>2, <2>1
  <2> HIDE DEF A
  <2>5. W(g1) \subseteq A
    BY <1>2, <2>1, <2>2, <2>3, <2>4
  <2> QED
    BY <1>5, <2>5 DEF A
<1> QED
  BY <1>4, <1>5

\* What the roots contain adds up to what was booked in the groups of the pull.
LEMMA RootsAddUp ==
  ASSUME NEW parent \in Parents, NEW pulled \in SUBSET Groups, Whole(parent, pulled)
  PROVE  SumFunctionOnSet([g \in RootsOf(parent, pulled) |-> OwnOf(Within(parent, g))], RootsOf(parent, pulled)) = OwnOf(pulled)
<1> DEFINE roots == RootsOf(parent, pulled)
           class == [g \in roots |-> Within(parent, g)]
           sums == [g \in roots |-> OwnOf(Within(parent, g))]
           k == [h \in pulled |-> CHOOSE g \in roots : h \in Within(parent, g)]
<1>1. roots \subseteq pulled
  BY DEF RootsOf
<1>2. IsFiniteSet(pulled) /\ IsFiniteSet(roots) /\ \A h \in pulled : Own[h] \in Int
  BY <1>1, ChartAssumption, FS_Subset
<1>3. /\ \A h \in pulled : \E g \in roots : h \in Within(parent, g)
      /\ \A g1, g2 \in roots : \A h \in Within(parent, g1) \cap Within(parent, g2) : g1 = g2
  BY RootsDivide
<1>4. \A h \in pulled : k[h] \in roots /\ h \in Within(parent, k[h])
  BY <1>3
<1>5. \A g \in roots : Within(parent, g) \subseteq pulled
  BY <1>1 DEF Whole
<1> HIDE DEF roots, k
<1>6. \A g \in roots : class[g] \in SUBSET pulled /\ \A h \in pulled : h \in class[g] <=> k[h] = g
  BY <1>3, <1>4, <1>5
<1>7. \A g \in roots : sums[g] = SumFunctionOnSet(Own, class[g])
  BY DEF OwnOf
<1> HIDE DEF class, sums
<1>8. Classed(Own, pulled, k, roots, class, sums, pulled)
  BY <1>2, <1>4, <1>6, <1>7 DEF Classed
<1>9. SumFunctionOnSet(sums, roots) = SumFunctionOnSet(Own, pulled)
  BY <1>8, FiguresByClass
<1> QED
  BY <1>9 DEF sums, roots, OwnOf

\* The row of a group in a month: with it comes what was booked below it.
RowOf(parent, month, g) ==
  [period |-> month, group |-> g, parent |-> parent[g], amount |-> MapThenSumSet(LAMBDA h : Own[h], Within(parent, g))]

RowsOf(parent, month, groups) == {RowOf(parent, month, g) : g \in groups}

\* What rows amount to.
LEMMA SumOfAmounts ==
  ASSUME NEW S, IsFiniteSet(S)
  PROVE  Sum(S, LAMBDA r : r.amount) = SumFunctionOnSet([r \in S |-> r.amount], S)
<1> DEFINE f == [r \in S |-> r.amount]
           M(g) == g = [s \in SUBSET S |-> IF s = {} THEN 0 ELSE FirstOf(s).amount + g[RestOf(s)]]
<1>1. \A g : M(g) <=> AddsUp(g, f, S)
  <2>1. \A s \in SUBSET S : s # {} => FirstOf(s) \in S
    BY RestSmaller
  <2> QED BY <2>1 DEF AddsUp
<1>2. Sum(S, LAMBDA r : r.amount) = (CHOOSE g : M(g))[S]
  BY DEF Sum, MapThenSumSet, MapThenFoldSet, FirstOf, RestOf
<1> HIDE DEF M, f
<1>3. \E g : M(g)
  BY <1>1, AddsUpExists
<1>4. AddsUp(CHOOSE g : M(g), f, S)
  BY <1>1, <1>3
<1> QED BY <1>2, <1>4, SumIs DEF f

\* The rows of one month.
LEMMA RowsAre ==
  ASSUME NEW parent \in Parents, NEW month, NEW groups \in SUBSET Groups
  PROVE  /\ \A r \in RowsOf(parent, month, groups) :
              /\ r.period = month /\ r.group \in groups /\ r.parent = parent[r.group]
              /\ r = RowOf(parent, month, r.group) /\ r.amount = OwnOf(Within(parent, r.group))
         /\ \A g \in groups : /\ RowOf(parent, month, g) \in RowsOf(parent, month, groups)
                              /\ RowOf(parent, month, g).group = g
                              /\ RowOf(parent, month, g).amount = OwnOf(Within(parent, g))
<1>1. ASSUME NEW g \in groups
      PROVE  /\ RowOf(parent, month, g) \in RowsOf(parent, month, groups)
             /\ RowOf(parent, month, g).group = g
             /\ RowOf(parent, month, g).amount = OwnOf(Within(parent, g))
             /\ RowOf(parent, month, g).period = month /\ RowOf(parent, month, g).parent = parent[g]
  <2>1. Within(parent, g) \in SUBSET Groups
    BY WithinIs
  <2>2. MapThenSumSet(LAMBDA h : Own[h], Within(parent, g)) = OwnOf(Within(parent, g))
    BY <2>1, OwnIs
  <2>3. /\ RowOf(parent, month, g).group = g /\ RowOf(parent, month, g).period = month
        /\ RowOf(parent, month, g).parent = parent[g]
        /\ RowOf(parent, month, g).amount = MapThenSumSet(LAMBDA h : Own[h], Within(parent, g))
    BY DEF RowOf
  <2> QED
    BY <2>2, <2>3 DEF RowsOf
<1>2. \A r \in RowsOf(parent, month, groups) : \E g \in groups : r = RowOf(parent, month, g)
  BY DEF RowsOf
<1> QED
  BY <1>1, <1>2

\* A month of a whole pull comes to what was booked in its groups.
LEMMA ProfitOfMonth ==
  ASSUME NEW parent \in Parents, NEW pulled \in SUBSET Groups, Whole(parent, pulled), pulled # {}, NEW month
  PROVE  topLevelRevenuePaise(RowsOf(parent, month, pulled)) = OwnOf(pulled)
<1> DEFINE rows == RowsOf(parent, month, pulled)
           roots == RootsOf(parent, pulled)
           top == topLevel(rows)
           months == {month}
           f == [g \in roots |-> OwnOf(Within(parent, g))]
           h == [g \in roots |-> RowOf(parent, month, g)]
           amounts == [r \in top |-> r.amount]
<1>1. /\ \A r \in rows : /\ r.period = month /\ r.group \in pulled /\ r.parent = parent[r.group]
                         /\ r = RowOf(parent, month, r.group) /\ r.amount = OwnOf(Within(parent, r.group))
      /\ \A g \in pulled : /\ RowOf(parent, month, g) \in rows /\ RowOf(parent, month, g).group = g
                           /\ RowOf(parent, month, g).amount = OwnOf(Within(parent, g))
  BY RowsAre
<1> HIDE DEF rows
<1>2. Periods(rows) = months /\ InPeriod(rows, month) = rows
  BY <1>1 DEF Periods, InPeriod
<1>3. top = {h[g] : g \in roots}
  <2>1. ParentOf(rows) = Known(parent, pulled)
    BY <1>1, ParentOfRows
  <2>2. top = {r \in rows : ~Contained(r.group, Known(parent, pulled))}
    BY <2>1 DEF topLevel
  <2>3. \A g \in pulled : ~Contained(g, Known(parent, pulled)) <=> g \in roots
    <3>1. {g \in pulled : ~Contained(g, Known(parent, pulled))} = roots
      BY RootsAre
    <3> HIDE DEF roots
    <3> QED
      BY <3>1
  <2>4. roots \subseteq pulled
    BY DEF RootsOf
  <2> HIDE DEF top, roots
  <2> QED
    BY <1>1, <2>2, <2>3, <2>4
<1>4. roots \subseteq pulled /\ IsFiniteSet(roots)
  BY ChartAssumption, FS_Subset DEF RootsOf
<1>5. \A g \in roots : f[g] \in Int
  <2> SUFFICES ASSUME NEW g \in roots PROVE OwnOf(Within(parent, g)) \in Int
    OBVIOUS
  <2>1. Within(parent, g) \in SUBSET Groups
    BY <1>4, WithinIs
  <2> QED
    BY <2>1, OwnIs
<1>6. SumFunctionOnSet(f, roots) = OwnOf(pulled)
  BY RootsAddUp
<1> HIDE DEF roots, top
<1>7. \A g \in roots : amounts[h[g]] = f[g]
  BY <1>1, <1>3, <1>4
<1>8. \A g1, g2 \in roots : h[g1] = h[g2] => g1 = g2
  BY <1>1, <1>4
<1> HIDE DEF f, h
<1>9. IsFiniteSet(top) /\ SumFunctionOnSet(amounts, top) = SumFunctionOnSet(f, roots)
  <2> HIDE DEF amounts
  <2> QED
    BY <1>3, <1>4, <1>5, <1>7, <1>8, FiguresRenamed
<1>10. Sum(top, LAMBDA r : r.amount) = OwnOf(pulled)
  BY <1>6, <1>9, SumOfAmounts
<1>11. topLevelRevenuePaise(rows) = Sum(top, LAMBDA r : r.amount)
  <2> DEFINE one == [p \in months |-> Sum(topLevel(InPeriod(rows, p)), LAMBDA r : r.amount)]
             M(g) == g = [s \in SUBSET months |->
                            IF s = {} THEN 0
                            ELSE Sum(topLevel(InPeriod(rows, FirstOf(s))), LAMBDA r : r.amount) + g[RestOf(s)]]
  <2>1. \A g : M(g) <=> AddsUp(g, one, months)
    <3>1. \A s \in SUBSET months : s # {} => FirstOf(s) \in months
      BY RestSmaller
    <3> QED BY <3>1 DEF AddsUp
  <2>2. topLevelRevenuePaise(rows) = (CHOOSE g : M(g))[months]
    BY <1>2 DEF topLevelRevenuePaise, MapThenSumSet, MapThenFoldSet, FirstOf, RestOf
  <2>3. one[month] = Sum(top, LAMBDA r : r.amount)
    BY <1>2 DEF top
  <2> HIDE DEF M, one
  <2>4. IsFiniteSet(months) /\ IsFiniteSet({}) /\ month \notin {} /\ {} \cup {month} = months
    BY FS_Singleton, FS_EmptySet
  <2>5. \E g : M(g)
    BY <2>1, <2>4, AddsUpExists
  <2>6. AddsUp(CHOOSE g : M(g), one, months)
    BY <2>1, <2>5
  <2>7. topLevelRevenuePaise(rows) = SumFunctionOnSet(one, months)
    BY <2>2, <2>4, <2>6, SumIs
  <2>8. one[month] \in Int
    BY <1>10, <2>3, OwnIs
  <2>9. SumFunctionOnSet(one, months) = one[month] + SumFunctionOnSet(one, {})
    BY <2>4, <2>8, FiguresAdd
  <2> QED
    BY <2>3, <2>7, <2>8, <2>9, SumEmpty
<1> QED
  BY <1>10, <1>11 DEF rows

\* The two months of the question.
LEMMA MonthsAre ==
  ASSUME NEW parent \in Parents, NEW pulled \in SUBSET Groups, pulled # {}
  PROVE  splitPeriods(RowsOf(parent, 1, Groups) \cup RowsOf(parent, 2, pulled))
           = [current |-> RowsOf(parent, 2, pulled), previous |-> RowsOf(parent, 1, Groups)]
<1> DEFINE first == RowsOf(parent, 1, Groups)
           second == RowsOf(parent, 2, pulled)
           rows == first \cup second
           Latest(periods) == IF periods = {} THEN {} ELSE {Max(periods)}
           cur == Latest(Periods(rows))
           prev == Latest(Periods(rows) \ cur)
<1>1. (\A r \in first : r.period = 1) /\ \A r \in second : r.period = 2
  BY RowsAre
<1>2. first # {} /\ second # {}
  BY RowsAre DEF RowsOf
<1> HIDE DEF first, second
<1>3. Periods(rows) = {1, 2}
  BY <1>1, <1>2 DEF Periods
<1>4. Max({1, 2}) = 2 /\ Max({1}) = 1
  <2>1. {1, 1} = {1}
    OBVIOUS
  <2>2. Max({1, 2}) = 2 /\ Max({1, 1}) = 1
    BY GreaterOfTwo
  <2> QED
    BY <2>1, <2>2
<1>5. cur = {2}
  BY <1>3, <1>4
<1>6. prev = {1}
  <2>1. {1, 2} \ {2} = {1}
    OBVIOUS
  <2> HIDE DEF cur
  <2> QED
    BY <1>3, <1>4, <1>5, <2>1
<1>7. splitPeriods(rows) = [current |-> {r \in rows : r.period \in cur}, previous |-> {r \in rows : r.period \in prev}]
  BY DEF splitPeriods
<1> HIDE DEF cur, prev
<1>8. {r \in rows : r.period \in cur} = second /\ {r \in rows : r.period \in prev} = first
  BY <1>1, <1>5, <1>6
<1> QED
  BY <1>7, <1>8 DEF first, second

\* GroupsCountedOnce, of every chart of accounts: what a group contains is counted
\* with it and not again, and no group that was pulled is lost from the tree.
THEOREM GroupsAreCountedOnce == Asked => []GroupsCountedOnce
<1>1. asked \in Questions => GroupsCountedOnce
  <2> SUFFICES ASSUME asked \in Questions, asked # None, asked.about = "chart" PROVE GroupsCountedOnce
    BY DEF GroupsCountedOnce
  <2>1. asked \in Charts
    BY DEF Questions, Wires, Gates, Ageings, Recoveries
  <2> DEFINE parent == asked.parent
             pulled == asked.pulled
             below == [g \in Groups |-> {h \in Groups : parent[h] = g}]
             W(g) == Closure({g}, below)
             forest == \A g \in Groups : \A h \in below[g] : g \notin W(h)
             closed == \A g \in pulled : W(g) \subseteq pulled
             Rows(month, groups) ==
               {[period |-> month, group |-> g, parent |-> parent[g],
                 amount |-> MapThenSumSet(LAMBDA h : Own[h], W(g))] : g \in groups}
             split == splitPeriods(Rows(1, Groups) \cup Rows(2, pulled))
             profit == profitCard(split.current, split.previous)
             tree == balanceSheetTree({[group |-> g, parent |-> parent[g], isRevenue |-> FALSE] : g \in pulled})
  <2>2. parent \in Parents /\ pulled \in SUBSET Groups
    BY <2>1 DEF Charts, Parents
  <2>3. below = Below(parent) /\ \A g : W(g) = Within(parent, g)
    BY DEF Below, Within
  <2>4. Closure(tree.roots, tree.children) = pulled
    BY <2>2, TreeReachesAll
  <2>5. \A g \in pulled : Cardinality({p \in pulled : g \in tree.children[p]}) = (IF g \in tree.roots THEN 0 ELSE 1)
    BY <2>2, TreePlacesOnce
  <2>6. ASSUME pulled # {}
        PROVE  split.current = RowsOf(parent, 2, pulled) /\ split.previous = RowsOf(parent, 1, Groups)
    <3>1. Rows(1, Groups) = RowsOf(parent, 1, Groups) /\ Rows(2, pulled) = RowsOf(parent, 2, pulled)
      <4>1. ASSUME NEW month, NEW g \in Groups
            PROVE  [period |-> month, group |-> g, parent |-> parent[g], amount |-> MapThenSumSet(LAMBDA h : Own[h], W(g))]
                     = RowOf(parent, month, g)
        <5> DEFINE X == Within(parent, g)
        <5>1. W(g) = X /\ X \in SUBSET Groups
          BY <2>2, <2>3, WithinIs
        <5> HIDE DEF X, W
        <5>2. MapThenSumSet(LAMBDA h : Own[h], X) = OwnOf(X)
          BY <5>1, OwnIs
        <5>3. MapThenSumSet(LAMBDA h : Own[h], W(g)) = OwnOf(X)
          BY <5>1, <5>2
        <5>4. RowOf(parent, month, g) =
                [period |-> month, group |-> g, parent |-> parent[g], amount |-> MapThenSumSet(LAMBDA h : Own[h], X)]
          BY DEF RowOf, X
        <5> QED
          BY <5>2, <5>3, <5>4
      <4> HIDE DEF W
      <4>2. ASSUME NEW month, NEW groups \in SUBSET Groups PROVE Rows(month, groups) = RowsOf(parent, month, groups)
        BY <4>1 DEF RowsOf
      <4>3. Groups \in SUBSET Groups /\ pulled \in SUBSET Groups
        BY <2>2
      <4> HIDE DEF Rows, parent, pulled
      <4>4. Rows(1, Groups) = RowsOf(parent, 1, Groups)
        BY ONLY <4>2, <4>3
      <4>5. Rows(2, pulled) = RowsOf(parent, 2, pulled)
        BY ONLY <4>2, <4>3
      <4> QED
        BY ONLY <4>4, <4>5
    <3> HIDE DEF Rows, W, below, parent, pulled
    <3>2. splitPeriods(RowsOf(parent, 1, Groups) \cup RowsOf(parent, 2, pulled))
            = [current |-> RowsOf(parent, 2, pulled), previous |-> RowsOf(parent, 1, Groups)]
      BY <2>2, <2>6, MonthsAre
    <3>3. split = splitPeriods(RowsOf(parent, 1, Groups) \cup RowsOf(parent, 2, pulled))
      BY <3>1
    <3> HIDE DEF split
    <3> QED
      BY <3>2, <3>3
  <2>7. ASSUME pulled # {} PROVE {r.group : r \in topLevel(split.current)} = tree.roots
    <3> DEFINE rows == RowsOf(parent, 2, pulled)
               In(g) == Contained(g, Known(parent, pulled))
    <3> HIDE DEF Rows, W, below, split, parent, pulled
    <3>1. split.current = rows
      BY <2>6, <2>7
    <3>2. /\ \A r \in rows : r.group \in pulled /\ r.parent = parent[r.group]
          /\ \A g \in pulled : \E r \in rows : r.group = g
      BY <2>2, RowsAre
    <3>3. tree.roots = {g \in pulled : ~In(g)}
      BY <2>2, TreeIs
    <3> HIDE DEF rows, tree
    <3>4. topLevel(rows) = {r \in rows : ~In(r.group)}
      BY <3>2, ParentOfRows DEF topLevel
    <3> HIDE DEF In
    <3> QED
      BY <3>1, <3>2, <3>3, <3>4
  <2>8. ASSUME forest, closed, pulled # {}
        PROVE  /\ profit.current = MapThenSumSet(LAMBDA h : Own[h], pulled)
               /\ profit.previous = MapThenSumSet(LAMBDA h : Own[h], Groups)
               /\ profit.delta = "up" => profit.current > profit.previous
    <3>1. Forest(parent)
      BY <2>8, Zenon DEF Forest, Below, Within
    <3>2. Whole(parent, pulled)
      BY <2>3, <2>8, <3>1 DEF Whole
    <3>3. Whole(parent, Groups) /\ Groups # {}
      BY <2>2, <2>8, <3>1, WithinIs DEF Whole
    <3> HIDE DEF Rows, W, below, forest, closed, parent, pulled, split
    <3>4. split.current = RowsOf(parent, 2, pulled) /\ split.previous = RowsOf(parent, 1, Groups)
      BY <2>6, <2>8
    <3> DEFINE p1 == topLevelRevenuePaise(split.current)
               p0 == topLevelRevenuePaise(split.previous)
    <3>5. p1 = OwnOf(pulled) /\ p0 = OwnOf(Groups)
      BY <2>2, <2>8, <3>2, <3>3, <3>4, ProfitOfMonth
    <3>6. profit.current = p1 /\ profit.previous = p0 /\ profit.delta = formatDelta(p1, p0)
      BY DEF profitCard
    <3> HIDE DEF p1, p0, profit
    <3>7. p1 \in Int /\ p0 \in Int
      BY <2>2, <3>5, OwnIs
    <3>8. formatDelta(p1, p0) = "up" => p1 > p0
      BY <3>7 DEF formatDelta, Abs
    <3> QED
      BY <2>2, <3>5, <3>6, <3>8, OwnIs
  <2> QED
    BY <2>4, <2>5, <2>7, <2>8 DEF GroupsCountedOnce
<1>2. asked \in Questions /\ UNCHANGED asked => (asked \in Questions)'
  OBVIOUS
<1> QED
  BY <1>1, <1>2, PTL DEF Asked

-----------------------------------------------------------------------------
(* The wire: how an answer is cut *)

\* g cuts what the places of a set hold, for every set of the first n places.
CutsUp(g, tokens, n) ==
  g = [s \in SUBSET (1 .. n) |->
         IF s = {} THEN <<>> ELSE Placed(g[s \ {Max(s)}], tokens[Max(s)])]

\* The greatest of the first n numbers is n, in whatever company.
LEMMA GreatestOfFirst ==
  ASSUME NEW n \in Nat \ {0}, NEW s \in SUBSET (1 .. n), n \in s
  PROVE  Max(s) = n
<1>1. n \in s /\ (\A y \in s : n >= y) /\ \A x \in s : (\A y \in s : x >= y) => x = n
  OBVIOUS
<1>2. Max(s) \in s /\ \A y \in s : Max(s) >= y
  BY <1>1 DEF Max
<1> QED
  BY <1>1, <1>2

\* Something cuts the places of every answer.
LEMMA CutsUpExists == ASSUME NEW tokens, NEW N \in Nat PROVE \E g : CutsUp(g, tokens, N)
<1> DEFINE K == {n \in 0 .. N : ~ \E g : CutsUp(g, tokens, n)}
<1>1. ASSUME K # {} PROVE FALSE
  <2>1. PICK n \in K : \A m \in K : n <= m
    BY <1>1, LeastNumber
  <2>2. n # 0
    <3> SUFFICES ASSUME n = 0 PROVE FALSE
      OBVIOUS
    <3> DEFINE g == [s \in SUBSET (1 .. n) |-> <<>>]
    <3>1. \A s \in SUBSET (1 .. n) : s = {}
      OBVIOUS
    <3>2. CutsUp(g, tokens, n)
      BY <3>1 DEF CutsUp
    <3> QED
      BY <2>1, <3>2
  <2>3. n - 1 \in 0 .. N /\ n - 1 \notin K
    BY <2>1, <2>2
  <2>4. PICK f : CutsUp(f, tokens, n - 1)
    BY <2>3
  <2> DEFINE body(h, s) == IF s = {} THEN <<>> ELSE Placed(h[s \ {Max(s)}], tokens[Max(s)])
             g == [s \in SUBSET (1 .. n) |-> IF n \in s THEN Placed(f[s \ {n}], tokens[n]) ELSE f[s]]
  <2>5. ASSUME NEW s \in SUBSET (1 .. n - 1) PROVE s \in SUBSET (1 .. n) /\ n \notin s /\ g[s] = f[s] /\ f[s] = body(f, s)
    <3>1. s \in SUBSET (1 .. n) /\ n \notin s
      OBVIOUS
    <3> QED
      BY <2>4, <3>1 DEF CutsUp
  <2>6. ASSUME NEW s \in SUBSET (1 .. n) PROVE g[s] = body(g, s)
    <3>1. CASE n \in s
      <4>1. Max(s) = n /\ s # {} /\ s \ {n} \in SUBSET (1 .. n - 1)
        BY <2>2, <3>1, GreatestOfFirst
      <4>2. g[s \ {n}] = f[s \ {n}]
        BY <2>5, <4>1
      <4>3. g[s] = Placed(f[s \ {n}], tokens[n])
        BY <3>1
      <4> HIDE DEF g
      <4> QED
        BY <4>1, <4>2, <4>3
    <3>2. CASE n \notin s
      <4>1. s \in SUBSET (1 .. n - 1)
        BY <3>2
      <4>2. s \ {Max(s)} \in SUBSET (1 .. n - 1)
        BY <4>1
      <4>3. g[s] = f[s] /\ f[s] = body(f, s) /\ g[s \ {Max(s)}] = f[s \ {Max(s)}]
        BY <2>5, <4>1, <4>2
      <4> HIDE DEF g
      <4> QED
        BY <4>3
    <3> QED
      BY <3>1, <3>2
  <2>7. g = [s \in SUBSET (1 .. n) |-> g[s]]
    OBVIOUS
  <2>8. CutsUp(g, tokens, n)
    <3> HIDE DEF g
    <3> QED
      BY <2>6, <2>7 DEF CutsUp
  <2> QED
    BY <2>1, <2>8
<1>2. N \notin K
  BY <1>1
<1> QED
  BY <1>2

\* What is cut depends on the places cut alone.
LEMMA CutsUpOnce ==
  ASSUME NEW N \in Nat, NEW n, n \in Nat, N <= n, NEW f, NEW g, NEW tokens, NEW others,
         CutsUp(f, tokens, N), CutsUp(g, others, n), \A i \in 1 .. N : tokens[i] = others[i]
  PROVE  f[1 .. N] = g[1 .. N]
<1> DEFINE K == {m \in 0 .. N : \E s \in SUBSET (1 .. m) : f[s] # g[s]}
<1>1. ASSUME K # {} PROVE FALSE
  <2>1. PICK m \in K : \A k \in K : m <= k
    BY <1>1, LeastNumber
  <2>2. PICK s \in SUBSET (1 .. m) : f[s] # g[s]
    BY <2>1
  <2>3. s \in SUBSET (1 .. N) /\ s \in SUBSET (1 .. n)
    OBVIOUS
  <2>4. f[s] = (IF s = {} THEN <<>> ELSE Placed(f[s \ {Max(s)}], tokens[Max(s)]))
    BY <2>3 DEF CutsUp
  <2>5. g[s] = (IF s = {} THEN <<>> ELSE Placed(g[s \ {Max(s)}], others[Max(s)]))
    BY <2>3 DEF CutsUp
  <2>6. s # {} /\ m # 0
    BY <2>2, <2>4, <2>5
  <2>7. m - 1 \in 0 .. N /\ m - 1 \notin K
    BY <2>1, <2>6
  <2>8. \A r \in SUBSET (1 .. m - 1) : f[r] = g[r]
    BY <2>7
  <2>9. m \in s
    <3> SUFFICES ASSUME m \notin s PROVE FALSE
      OBVIOUS
    <3>1. s \in SUBSET (1 .. m - 1)
      OBVIOUS
    <3> QED
      BY <2>2, <2>8, <3>1
  <2>10. Max(s) = m /\ s \ {m} \in SUBSET (1 .. m - 1)
    BY <2>6, <2>9, GreatestOfFirst
  <2>11. f[s \ {m}] = g[s \ {m}] /\ tokens[m] = others[m]
    BY <2>6, <2>8, <2>10
  <2> QED
    BY <2>2, <2>4, <2>5, <2>6, <2>10, <2>11
<1>2. N \notin K
  BY <1>1
<1> QED
  BY <1>2

\* Cut is what cuts all places.
LEMMA CutIs ==
  ASSUME NEW S, NEW tokens \in Seq(S), NEW g, CutsUp(g, tokens, Len(tokens))
  PROVE  Cut(tokens) = g[1 .. Len(tokens)]
<1> DEFINE c == CHOOSE h : CutsUp(h, tokens, Len(tokens))
<1>1. DOMAIN tokens = 1 .. Len(tokens)
  OBVIOUS
<1>2. Cut(tokens) = c[1 .. Len(tokens)]
  BY <1>1 DEF Cut, FoldLeft, MapThenFoldSet, CutsUp
<1>3. CutsUp(c, tokens, Len(tokens))
  OBVIOUS
<1> HIDE DEF c
<1>4. Len(tokens) \in Nat /\ Len(tokens) <= Len(tokens)
  OBVIOUS
<1>5. c[1 .. Len(tokens)] = g[1 .. Len(tokens)]
  BY <1>3, <1>4, CutsUpOnce
<1> QED
  BY <1>2, <1>5

\* One token more is placed after those before it.
LEMMA CutAppend ==
  ASSUME NEW S, NEW tokens \in Seq(S), NEW t \in S
  PROVE  Cut(Append(tokens, t)) = Placed(Cut(tokens), t)
<1> DEFINE n == Len(tokens)
           m == n + 1
           more == Append(tokens, t)
<1>1. more \in Seq(S) /\ Len(more) = m /\ more[m] = t /\ n \in Nat /\ m \in Nat \ {0} /\ n <= m
  OBVIOUS
<1>2. \A i \in 1 .. n : tokens[i] = more[i]
  OBVIOUS
<1>3. m \in 1 .. m /\ 1 .. m \in SUBSET (1 .. m) /\ (1 .. m) \ {m} = 1 .. n
  OBVIOUS
<1> HIDE DEF n, m, more
<1>4. PICK f : CutsUp(f, tokens, n)
  BY <1>1, CutsUpExists
<1>5. PICK g : CutsUp(g, more, m)
  BY <1>1, CutsUpExists
<1>6. f[1 .. n] = g[1 .. n]
  BY <1>1, <1>2, <1>4, <1>5, CutsUpOnce
<1>7. Cut(tokens) = f[1 .. n] /\ Cut(more) = g[1 .. m]
  BY <1>1, <1>4, <1>5, CutIs DEF n
<1>8. Max(1 .. m) = m
  BY <1>1, <1>3, GreatestOfFirst
<1>9. g[1 .. m] = Placed(g[1 .. n], t)
  BY <1>1, <1>3, <1>5, <1>8 DEF CutsUp
<1> QED
  BY <1>6, <1>7, <1>9 DEF more

\* Nothing is cut into nothing.
LEMMA CutNothing == Cut(<<>>) = <<>>
<1>1. <<>> \in Seq({}) /\ Len(<<>>) = 0
  OBVIOUS
<1>2. PICK g : CutsUp(g, <<>>, 0)
  BY CutsUpExists
<1>3. Cut(<<>>) = g[1 .. 0]
  BY <1>1, <1>2, CutIs
<1>4. 1 .. 0 = {}
  OBVIOUS
<1> QED
  BY <1>2, <1>3, <1>4 DEF CutsUp

\* g joins the first n of some sequences.
Joins(g, seqs, n) == g = [i \in 1 .. n |-> IF i = 1 THEN seqs[i] ELSE g[i - 1] \o seqs[i]]

\* Something joins any of them.
LEMMA JoinsExists == ASSUME NEW seqs, NEW N \in Nat PROVE \E g : Joins(g, seqs, N)
<1> DEFINE K == {n \in 0 .. N : ~ \E g : Joins(g, seqs, n)}
<1>1. ASSUME K # {} PROVE FALSE
  <2>1. PICK n \in K : \A m \in K : n <= m
    BY <1>1, LeastNumber
  <2>2. n # 0
    <3> SUFFICES ASSUME n = 0 PROVE FALSE
      OBVIOUS
    <3> DEFINE g == [i \in 1 .. n |-> <<>>]
    <3>1. Joins(g, seqs, n)
      BY DEF Joins
    <3> QED
      BY <2>1, <3>1
  <2>3. n - 1 \in 0 .. N /\ n - 1 \notin K
    BY <2>1, <2>2
  <2>4. PICK f : Joins(f, seqs, n - 1)
    BY <2>3
  <2> DEFINE g == [i \in 1 .. n |-> IF i = n THEN (IF i = 1 THEN seqs[i] ELSE f[i - 1] \o seqs[i]) ELSE f[i]]
  <2>5. ASSUME NEW i \in 1 .. n PROVE g[i] = IF i = 1 THEN seqs[i] ELSE g[i - 1] \o seqs[i]
    <3>1. i # 1 => i - 1 \in 1 .. n /\ i - 1 # n /\ g[i - 1] = f[i - 1]
      OBVIOUS
    <3>2. CASE i = n
      BY <3>1, <3>2
    <3>3. CASE i # n
      <4>1. i \in 1 .. n - 1
        BY <3>3
      <4>2. f[i] = IF i = 1 THEN seqs[i] ELSE f[i - 1] \o seqs[i]
        BY <2>4, <4>1 DEF Joins
      <4>3. g[i] = f[i]
        BY <3>3
      <4> HIDE DEF g
      <4> QED
        BY <3>1, <4>2, <4>3
    <3> QED
      BY <3>2, <3>3
  <2>6. g = [i \in 1 .. n |-> g[i]]
    OBVIOUS
  <2>7. Joins(g, seqs, n)
    <3> HIDE DEF g
    <3> QED
      BY <2>5, <2>6 DEF Joins
  <2> QED
    BY <2>1, <2>7
<1>2. N \notin K
  BY <1>1
<1> QED
  BY <1>2

\* What is joined depends on the sequences joined alone.
LEMMA JoinsOnce ==
  ASSUME NEW N \in Nat, NEW n \in Nat, N <= n, NEW seqs, NEW others, \A i \in 1 .. N : seqs[i] = others[i]
  PROVE  \A f, g : Joins(f, seqs, N) /\ Joins(g, others, n) /\ N # 0 => f[N] = g[N]
<1> SUFFICES ASSUME NEW f, NEW g, Joins(f, seqs, N), Joins(g, others, n), N # 0 PROVE f[N] = g[N]
  OBVIOUS
<1> DEFINE K == {m \in 0 .. N : m # 0 /\ f[m] # g[m]}
<1>1. ASSUME K # {} PROVE FALSE
  <2>1. PICK m \in K : \A k \in K : m <= k
    BY <1>1, LeastNumber
  <2>2. m \in 1 .. N /\ m \in 1 .. n /\ f[m] # g[m]
    OBVIOUS
  <2>3. f[m] = IF m = 1 THEN seqs[m] ELSE f[m - 1] \o seqs[m]
    BY <2>2 DEF Joins
  <2>4. g[m] = IF m = 1 THEN others[m] ELSE g[m - 1] \o others[m]
    BY <2>2 DEF Joins
  <2>5. m # 1
    BY <2>2, <2>3, <2>4
  <2>6. m - 1 \in 0 .. N /\ m - 1 # 0 /\ m - 1 \notin K
    BY <2>1, <2>5
  <2>7. f[m - 1] = g[m - 1]
    BY <2>6
  <2> QED
    BY <2>2, <2>3, <2>4, <2>5, <2>7
<1>2. N \notin K
  BY <1>1
<1> QED
  BY <1>2

\* Joined sequences are one.
LEMMA JoinsType ==
  ASSUME NEW S, NEW seqs \in Seq(Seq(S)), NEW g, Joins(g, seqs, Len(seqs))
  PROVE  \A i \in 1 .. Len(seqs) : g[i] \in Seq(S)
<1> DEFINE N == Len(seqs)
           K == {m \in 0 .. N : m # 0 /\ g[m] \notin Seq(S)}
<1>1. N \in Nat /\ \A i \in 1 .. N : seqs[i] \in Seq(S)
  OBVIOUS
<1>2. \A i \in 1 .. N : g[i] = IF i = 1 THEN seqs[i] ELSE g[i - 1] \o seqs[i]
  BY DEF Joins
<1> HIDE DEF N
<1>3. ASSUME K # {} PROVE FALSE
  <2>1. PICK m \in K : \A k \in K : m <= k
    BY <1>1, <1>3, LeastNumber
  <2>2. m \in 1 .. N /\ g[m] \notin Seq(S)
    BY <1>1
  <2>3. m # 1
    BY <1>1, <1>2, <2>2
  <2>4. m - 1 \in 0 .. N /\ m - 1 # 0 /\ m - 1 \notin K
    BY <1>1, <2>1, <2>2, <2>3
  <2>5. g[m - 1] \in Seq(S) /\ seqs[m] \in Seq(S)
    BY <1>1, <2>2, <2>4
  <2>6. g[m - 1] \o seqs[m] \in Seq(S)
    BY <2>5
  <2> QED
    BY <1>2, <2>2, <2>3, <2>6
<1>4. \A m \in 0 .. N : m \notin K
  BY <1>3
<1> QED
  BY <1>1, <1>4 DEF N

\* One sequence more is joined to those before it; none make an empty one.
LEMMA FlattenAppend ==
  ASSUME NEW S, NEW seqs, seqs \in Seq(Seq(S)), NEW s, s \in Seq(S)
  PROVE  /\ FlattenSeq(seqs) \in Seq(S)
         /\ FlattenSeq(Append(seqs, s)) = FlattenSeq(seqs) \o s
         /\ seqs = <<>> => FlattenSeq(seqs) = <<>>
<1> DEFINE n == Len(seqs)
           m == n + 1
           more == Append(seqs, s)
           upTo == CHOOSE h : Joins(h, seqs, n)
           past == CHOOSE h : Joins(h, more, m)
<1>1. more \in Seq(Seq(S)) /\ Len(more) = m /\ more[m] = s /\ n \in Nat /\ m \in Nat \ {0} /\ n <= m /\ m - 1 = n
  OBVIOUS
<1>2. \A i \in 1 .. n : seqs[i] = more[i]
  OBVIOUS
<1>3. FlattenSeq(seqs) = (IF n = 0 THEN seqs ELSE upTo[n]) /\ FlattenSeq(more) = past[m]
  <2>1. FlattenSeq(seqs) = (IF n = 0 THEN seqs ELSE upTo[n])
    BY DEF FlattenSeq, Joins
  <2>2. FlattenSeq(more) = (IF Len(more) = 0 THEN more ELSE (CHOOSE h : Joins(h, more, Len(more)))[Len(more)])
    BY DEF FlattenSeq, Joins
  <2> HIDE DEF n, m, more
  <2>3. Len(more) = m /\ m # 0
    BY <1>1
  <2> QED
    BY <2>1, <2>2, <2>3
<1>4. n = 0 <=> seqs = <<>>
  OBVIOUS
<1> HIDE DEF n, m, more
<1>5. Joins(upTo, seqs, n) /\ Joins(past, more, m)
  BY <1>1, JoinsExists
<1> HIDE DEF upTo, past
<1>6. n # 0 => upTo[n] = past[n]
  <2>1. n \in Nat /\ m \in Nat /\ n <= m
    BY <1>1
  <2> QED
    BY ONLY <2>1, <1>2, <1>5, JoinsOnce
<1>7. \A i \in 1 .. n : upTo[i] \in Seq(S)
  BY <1>5, JoinsType DEF n
<1>8. past[m] = IF m = 1 THEN s ELSE past[n] \o s
  <2>1. m \in 1 .. m
    BY <1>1
  <2>2. past[m] = IF m = 1 THEN more[m] ELSE past[m - 1] \o more[m]
    BY <1>5, <2>1 DEF Joins
  <2> QED
    BY <1>1, <2>2
<1>9. CASE n = 0
  <2>1. seqs = <<>> /\ m = 1 /\ FlattenSeq(seqs) = <<>>
    BY <1>1, <1>3, <1>4, <1>9
  <2>2. <<>> \o s = s /\ <<>> \in Seq(S)
    OBVIOUS
  <2> QED
    BY <1>3, <1>8, <2>1, <2>2 DEF more
<1>10. CASE n # 0
  <2>1. n \in 1 .. n /\ m # 1
    BY <1>1, <1>10
  <2> QED
    BY <1>3, <1>4, <1>6, <1>7, <1>8, <1>10, <2>1 DEF more
<1> QED
  BY <1>9, <1>10

-----------------------------------------------------------------------------
(* The wire: what placing a token does *)

\* Rows of tokens; none is empty.
RowsOver(S) == Seq(Seq(S) \ {<<>>})

\* The token ends up behind the last one, or in a row of its own.
LEMMA PlacedIs ==
  ASSUME NEW S, NEW R \in RowsOver(S), NEW t \in S
  PROVE  /\ Placed(R, t) \in RowsOver(S)
         /\ \/ /\ R # <<>> /\ t.tag > R[Len(R)][Len(R[Len(R)])].tag
               /\ Len(Placed(R, t)) = Len(R)
               /\ \A k \in 1 .. Len(R) - 1 : Placed(R, t)[k] = R[k]
               /\ Placed(R, t)[Len(R)] = Append(R[Len(R)], t)
            \/ /\ R = <<>> \/ ~(t.tag > R[Len(R)][Len(R[Len(R)])].tag)
               /\ Placed(R, t) = Append(R, <<t>>)
<1> DEFINE n == Len(R)
           last == R[n]
           A == Seq(S) \ {<<>>}
<1>1. R \in Seq(A) /\ n \in Nat
  BY DEF RowsOver
<1>2. <<t>> \in A
  OBVIOUS
<1>3. CASE R = <<>> \/ ~(t.tag > last[Len(last)].tag)
  <2>1. Placed(R, t) = Append(R, <<t>>)
    BY <1>3 DEF Placed, Last
  <2>2. Append(R, <<t>>) \in Seq(A)
    BY <1>1, <1>2
  <2> QED
    BY <1>3, <2>1, <2>2 DEF RowsOver
<1>4. CASE R # <<>> /\ t.tag > last[Len(last)].tag
  <2>1. n # 0 /\ last \in Seq(S)
    BY <1>1, <1>4
  <2>2. Append(last, t) \in A
    <3>1. Append(last, t) \in Seq(S) /\ Len(Append(last, t)) = Len(last) + 1 /\ Len(last) \in Nat
      BY <2>1
    <3>2. Len(<<>>) = 0
      OBVIOUS
    <3> QED
      BY <3>1, <3>2
  <2> DEFINE front == Front(R)
             more == Append(last, t)
  <2>3. front \in Seq(A) /\ Len(front) = n - 1 /\ \A k \in 1 .. n - 1 : front[k] = R[k]
    <3>1. front = SubSeq(R, 1, n - 1) /\ n - 1 \in Int /\ \A k \in 1 .. n - 1 : R[k] \in A
      BY <1>1, <2>1 DEF Front
    <3> HIDE DEF front, A, n
    <3>2. /\ front \in Seq(A)
          /\ Len(front) = IF 1 <= n - 1 THEN (n - 1) - 1 + 1 ELSE 0
          /\ \A k \in 1 .. (n - 1) - 1 + 1 : front[k] = R[1 + k - 1]
      BY <3>1, SubSeqProperties
    <3> QED
      BY <1>1, <2>1, <3>2
  <2>4. Placed(R, t) = Append(front, more)
    BY <1>4 DEF Placed, Last
  <2> HIDE DEF front, more, A
  <2>5. more \in A
    BY <2>2 DEF more
  <2>6. /\ Append(front, more) \in Seq(A)
        /\ Len(Append(front, more)) = n
        /\ \A k \in 1 .. n - 1 : Append(front, more)[k] = front[k]
        /\ Append(front, more)[n] = more
    BY <1>1, <2>1, <2>3, <2>5
  <2> QED
    BY <1>4, <2>3, <2>4, <2>6 DEF RowsOver, A, more
<1> QED
  BY <1>3, <1>4

\* A place in the rows.
At(R, k, p) == k \in DOMAIN R /\ p \in DOMAIN R[k]

\* The tokens before it keep their place.
LEMMA PlacedKeeps ==
  ASSUME NEW S, NEW R \in RowsOver(S), NEW t \in S
  PROVE  /\ \A k, p : At(R, k, p) => At(Placed(R, t), k, p) /\ Placed(R, t)[k][p] = R[k][p]
         /\ \E x, y : /\ At(Placed(R, t), x, y)
                      /\ ~At(R, x, y)
                      /\ Placed(R, t)[x][y] = t
                      /\ \A k, p : At(Placed(R, t), k, p) => At(R, k, p) \/ (k = x /\ p = y)
<1> DEFINE P == Placed(R, t)
           n == Len(R)
           last == R[n]
           m == Len(last)
<1>1. n \in Nat /\ DOMAIN R = 1 .. n /\ \A k \in 1 .. n : R[k] \in Seq(S) /\ R[k] # <<>>
  BY DEF RowsOver
<1>2. CASE R # <<>> /\ Len(P) = n /\ (\A k \in 1 .. n - 1 : P[k] = R[k]) /\ P[n] = Append(last, t) /\ P \in RowsOver(S)
  <2>1. n # 0 /\ last \in Seq(S) /\ m \in Nat /\ DOMAIN last = 1 .. m
    BY <1>1, <1>2
  <2>2. DOMAIN P[n] = 1 .. m + 1 /\ P[n][m + 1] = t /\ \A p \in 1 .. m : P[n][p] = last[p]
    BY <1>2, <2>1
  <2>3. DOMAIN P = 1 .. n
    BY <1>2 DEF RowsOver
  <2> HIDE DEF P, m, n
  <2>4. \A k \in 1 .. n : k \in 1 .. n - 1 \/ k = n
    BY <1>1
  <2>5. \A p \in 1 .. m + 1 : p \in 1 .. m \/ p = m + 1
    BY <2>1
  <2>6. n \in 1 .. n /\ m + 1 \in 1 .. m + 1 /\ m + 1 \notin 1 .. m /\ 1 .. m \subseteq 1 .. m + 1
    BY <1>1, <2>1
  <2>7. ASSUME NEW k, NEW p, At(R, k, p) PROVE At(P, k, p) /\ P[k][p] = R[k][p]
    BY <1>1, <1>2, <2>1, <2>2, <2>3, <2>4, <2>6, <2>7 DEF At
  <2>8. At(P, n, m + 1) /\ ~At(R, n, m + 1) /\ P[n][m + 1] = t
    BY <1>1, <2>1, <2>2, <2>3, <2>6 DEF At
  <2>9. ASSUME NEW k, NEW p, At(P, k, p) PROVE At(R, k, p) \/ (k = n /\ p = m + 1)
    BY <1>1, <1>2, <2>1, <2>2, <2>3, <2>4, <2>5, <2>9 DEF At
  <2> QED
    BY <2>7, <2>8, <2>9 DEF P
<1>3. CASE P = Append(R, <<t>>)
  <2>1. DOMAIN P = 1 .. n + 1 /\ P[n + 1] = <<t>> /\ \A k \in 1 .. n : P[k] = R[k]
    BY <1>1, <1>3 DEF RowsOver
  <2>2. DOMAIN <<t>> = {1} /\ <<t>>[1] = t
    OBVIOUS
  <2> HIDE DEF P, n
  <2>3. (\A k \in 1 .. n + 1 : k \in 1 .. n \/ k = n + 1) /\ n + 1 \in 1 .. n + 1 /\ n + 1 \notin 1 .. n /\ 1 .. n \subseteq 1 .. n + 1
    BY <1>1
  <2>4. ASSUME NEW k, NEW p, At(R, k, p) PROVE At(P, k, p) /\ P[k][p] = R[k][p]
    BY <1>1, <2>1, <2>3, <2>4 DEF At
  <2>5. At(P, n + 1, 1) /\ ~At(R, n + 1, 1) /\ P[n + 1][1] = t
    BY <1>1, <2>1, <2>2, <2>3 DEF At
  <2>6. ASSUME NEW k, NEW p, At(P, k, p) PROVE At(R, k, p) \/ (k = n + 1 /\ p = 1)
    BY <1>1, <2>1, <2>2, <2>3, <2>6 DEF At
  <2> QED
    BY <2>4, <2>5, <2>6 DEF P
<1> QED
  BY <1>2, <1>3, PlacedIs

\* A value is held once, under a tag; or not at all.
OnceAt(R, a, c) ==
  \E x, y : /\ At(R, x, y) /\ R[x][y].tag = c /\ R[x][y].value = a
            /\ \A k, p : At(R, k, p) /\ R[k][p].value = a => k = x /\ p = y

Nowhere(R, a) == \A k, p : At(R, k, p) => R[k][p].value # a

\* A token adds its value and moves none.
LEMMA PlacedHolds ==
  ASSUME NEW S, NEW R \in RowsOver(S), NEW t \in S, NEW a, NEW c
  PROVE  /\ t.value # a /\ OnceAt(R, a, c) => OnceAt(Placed(R, t), a, c)
         /\ t.value # a /\ Nowhere(R, a) => Nowhere(Placed(R, t), a)
         /\ t.value = a /\ t.tag = c /\ Nowhere(R, a) => OnceAt(Placed(R, t), a, c)
<1> DEFINE P == Placed(R, t)
<1>1. \A k, p : At(R, k, p) => At(P, k, p) /\ P[k][p] = R[k][p]
  BY PlacedKeeps
<1>2. PICK x, y : At(P, x, y) /\ ~At(R, x, y) /\ P[x][y] = t /\ \A k, p : At(P, k, p) => At(R, k, p) \/ (k = x /\ p = y)
  BY PlacedKeeps
<1> HIDE DEF P
<1>3. ASSUME t.value # a, OnceAt(R, a, c) PROVE OnceAt(P, a, c)
  <2>1. PICK u, v : At(R, u, v) /\ R[u][v].tag = c /\ R[u][v].value = a
                    /\ \A k, p : At(R, k, p) /\ R[k][p].value = a => k = u /\ p = v
    BY <1>3 DEF OnceAt
  <2>2. At(P, u, v) /\ P[u][v] = R[u][v]
    BY <1>1, <2>1
  <2>3. ASSUME NEW k, NEW p, At(P, k, p), P[k][p].value = a PROVE k = u /\ p = v
    BY <1>1, <1>2, <1>3, <2>1, <2>3
  <2> QED
    BY <2>1, <2>2, <2>3 DEF OnceAt
<1>4. ASSUME t.value # a, Nowhere(R, a) PROVE Nowhere(P, a)
  BY <1>1, <1>2, <1>4 DEF Nowhere
<1>5. ASSUME t.value = a, t.tag = c, Nowhere(R, a) PROVE OnceAt(P, a, c)
  <2>1. ASSUME NEW k, NEW p, At(P, k, p), P[k][p].value = a PROVE k = x /\ p = y
    BY <1>1, <1>2, <1>5, <2>1 DEF Nowhere
  <2> QED
    BY <1>2, <1>5, <2>1 DEF OnceAt
<1> QED
  BY <1>3, <1>4, <1>5 DEF P

\* In each row the tags rise.
Rising(R) == \A k \in DOMAIN R : \A p, q \in DOMAIN R[k] : p < q => R[k][p].tag < R[k][q].tag

\* A row is cut where they do not.
LEMMA PlacedRises ==
  ASSUME NEW S, \A t \in S : t.tag \in Int, NEW R \in RowsOver(S), NEW t \in S, Rising(R)
  PROVE  Rising(Placed(R, t))
<1> DEFINE P == Placed(R, t)
           n == Len(R)
           last == R[n]
           m == Len(last)
<1>1. n \in Nat /\ DOMAIN R = 1 .. n /\ \A k \in 1 .. n : R[k] \in Seq(S) /\ R[k] # <<>>
  BY DEF RowsOver
<1>2. CASE /\ R # <<>> /\ t.tag > last[m].tag /\ Len(P) = n
           /\ (\A k \in 1 .. n - 1 : P[k] = R[k]) /\ P[n] = Append(last, t) /\ P \in RowsOver(S)
  <2>1. n # 0 /\ last \in Seq(S) /\ m \in Nat \ {0} /\ DOMAIN last = 1 .. m
    BY <1>1, <1>2
  <2>2. DOMAIN P[n] = 1 .. m + 1 /\ P[n][m + 1] = t /\ \A p \in 1 .. m : P[n][p] = last[p]
    BY <1>2, <2>1
  <2>3. DOMAIN P = 1 .. n /\ n \in 1 .. n
    BY <1>1, <1>2, <2>1 DEF RowsOver
  <2>4. \A p \in 1 .. m : last[p] \in S /\ last[p].tag \in Int
    BY <2>1
  <2>5. \A p, q \in 1 .. m : p < q => last[p].tag < last[q].tag
    BY <1>1, <2>1, <2>3 DEF Rising
  <2>6. \A p \in 1 .. m : last[p].tag <= last[m].tag
    BY <2>1, <2>4, <2>5
  <2> HIDE DEF P, m, n, last
  <2>7. ASSUME NEW p \in 1 .. m + 1, NEW q \in 1 .. m + 1, p < q PROVE P[n][p].tag < P[n][q].tag
    <3>1. p \in 1 .. m /\ P[n][p] = last[p]
      BY <2>1, <2>2, <2>7
    <3>2. CASE q \in 1 .. m
      BY <2>2, <2>5, <2>7, <3>1, <3>2
    <3>3. CASE q = m + 1
      <4>1. P[n][q].tag = t.tag /\ t.tag \in Int /\ last[m].tag \in Int /\ last[p].tag \in Int
        BY <2>1, <2>2, <2>4, <3>1, <3>3
      <4> QED
        BY <1>2, <2>6, <3>1, <4>1
    <3> QED
      BY <2>1, <3>2, <3>3
  <2>8. ASSUME NEW k \in 1 .. n, k # n, NEW p \in DOMAIN P[k], NEW q \in DOMAIN P[k], p < q PROVE P[k][p].tag < P[k][q].tag
    <3>1. P[k] = R[k]
      BY <1>1, <1>2, <2>8
    <3> QED
      BY <1>1, <2>8, <3>1 DEF Rising
  <2> QED
    BY <2>2, <2>3, <2>7, <2>8 DEF Rising, P
<1>3. CASE P = Append(R, <<t>>)
  <2>1. DOMAIN P = 1 .. n + 1 /\ P[n + 1] = <<t>> /\ \A k \in 1 .. n : P[k] = R[k]
    BY <1>1, <1>3 DEF RowsOver
  <2>2. DOMAIN <<t>> = {1} /\ \A p, q \in {1} : ~(p < q)
    OBVIOUS
  <2> HIDE DEF P, n
  <2>3. ASSUME NEW k \in 1 .. n + 1, NEW p \in DOMAIN P[k], NEW q \in DOMAIN P[k], p < q PROVE P[k][p].tag < P[k][q].tag
    <3>1. k \in 1 .. n
      <4> SUFFICES ASSUME k = n + 1 PROVE FALSE
        BY <1>1
      <4> QED
        BY <2>1, <2>2, <2>3
    <3> QED
      BY <1>1, <2>1, <2>3, <3>1 DEF Rising
  <2> QED
    BY <2>1, <2>3 DEF Rising, P
<1> QED
  BY <1>2, <1>3, PlacedIs

\* A row that cannot be accepted, whatever still comes.
Condemned(R, width) ==
  \E k \in DOMAIN R : \/ R[k][1].tag # 1
                      \/ k < Len(R) /\ width >= 2 /\ Len(R[k]) < 2

\* Nothing makes up for it.
LEMMA PlacedCondemns ==
  ASSUME NEW S, NEW R \in RowsOver(S), NEW t \in S, NEW width, Condemned(R, width)
  PROVE  Condemned(Placed(R, t), width)
<1> DEFINE P == Placed(R, t)
           n == Len(R)
<1>1. n \in Nat /\ DOMAIN R = 1 .. n /\ \A k \in 1 .. n : R[k] \in Seq(S) /\ R[k] # <<>>
  BY DEF RowsOver
<1>2. PICK k \in 1 .. n : R[k][1].tag # 1 \/ (k < n /\ width >= 2 /\ Len(R[k]) < 2)
  BY <1>1 DEF Condemned
<1>3. At(R, k, 1)
  BY <1>1 DEF At
<1>4. k \in DOMAIN P /\ P[k][1] = R[k][1]
  BY <1>3, PlacedKeeps DEF At
<1>5. k < n => P[k] = R[k] /\ n <= Len(P)
  <2>1. CASE Len(P) = n /\ \A l \in 1 .. n - 1 : P[l] = R[l]
    BY <1>1, <2>1
  <2>2. CASE P = Append(R, <<t>>)
    <3>1. Len(P) = n + 1 /\ \A l \in 1 .. n : P[l] = R[l]
      BY <1>1, <2>2 DEF RowsOver
    <3> QED
      BY <1>1, <3>1
  <2> QED
    BY <2>1, <2>2, PlacedIs
<1>6. Len(P) \in Nat
  BY PlacedIs DEF RowsOver
<1> QED
  <2> HIDE DEF P
  <2>1. CASE R[k][1].tag # 1
    BY <1>4, <2>1 DEF Condemned, P
  <2>2. CASE k < n /\ width >= 2 /\ Len(R[k]) < 2
    <3>1. P[k] = R[k] /\ k < Len(P)
      BY <1>1, <1>5, <1>6, <2>2
    <3> QED
      BY <1>4, <2>2, <3>1 DEF Condemned, P
  <2> QED
    BY <1>2, <2>1, <2>2

-----------------------------------------------------------------------------
(* The wire: what Tally prints of a table *)

Width(q) == Len(q.table[1])
Home(q) == AmountColumn(q.table)

\* Texts, and the halves of a text that is torn by a tag.
Pieces(q) ==
  LET Texts == {q.table[x[1]][x[2]] : x \in (DOMAIN q.table) \X (DOMAIN q.table[1])}
  IN  Texts \cup {<<x, "head">> : x \in Texts} \cup {<<x, "tail">> : x \in Texts}

Tokens(q) == [tag : Nat, value : Pieces(q)]

\* What is known of the table of a question.
LEMMA TableIs ==
  ASSUME NEW q \in Wires
  PROVE  /\ Len(q.table) \in Nat \ {0} /\ DOMAIN q.table = 1 .. Len(q.table)
         /\ Width(q) \in Nat \ {0} /\ \A i \in DOMAIN q.table : DOMAIN q.table[i] = 1 .. Width(q)
         /\ Home(q) \in 1 .. Width(q)
         /\ \A i \in DOMAIN q.table, j \in 1 .. Width(q) :
              /\ q.table[i][j] \in Amounts <=> j = Home(q)
              /\ <<q.table[i][j], "head">> \notin Amounts /\ <<q.table[i][j], "tail">> \notin Amounts
         /\ \A i, k \in DOMAIN q.table : q.table[i][Home(q)] = q.table[k][Home(q)] => i = k
         /\ q.omits \in BOOLEAN
<1> DEFINE table == q.table
           S == UNION {Range(row) : row \in Range(table)}
<1>1. table \in Tables /\ q.omits \in BOOLEAN
  BY DEF Wires
<1>2. table \in Seq(Seq(S)) /\ table # <<>>
  BY <1>1, TablesAssumption
<1> HIDE DEF S
<1>3. Len(table) \in Nat \ {0} /\ DOMAIN table = 1 .. Len(table) /\ table[1] \in Seq(S)
  BY <1>2
<1>4. Len(table[1]) \in Nat /\ DOMAIN table[1] = 1 .. Len(table[1])
  BY <1>3
<1>5. PICK c \in DOMAIN table[1] :
        /\ \A i \in DOMAIN table, j \in DOMAIN table[1] : table[i][j] \in Amounts <=> j = c
        /\ \A i, k \in DOMAIN table : table[i][c] = table[k][c] => i = k
  BY <1>1, TablesAssumption
<1>6. \A j \in DOMAIN table[1] : table[1][j] \in Amounts <=> j = c
  BY <1>3, <1>5
<1>7. Home(q) = c
  BY <1>5, <1>6 DEF Home, AmountColumn
<1>8. /\ \A i \in DOMAIN table : DOMAIN table[i] = DOMAIN table[1]
      /\ \A i \in DOMAIN table, j \in DOMAIN table[1] :
           <<table[i][j], "head">> \notin Amounts /\ <<table[i][j], "tail">> \notin Amounts
  BY <1>1, TablesAssumption
<1>9. Width(q) = Len(table[1]) /\ DOMAIN table[1] = 1 .. Width(q)
  BY <1>4 DEF Width
<1>10. Width(q) # 0
  BY <1>4, <1>5, <1>9
<1>11. \A i \in DOMAIN table : DOMAIN table[i] = 1 .. Width(q)
  BY <1>8, <1>9
<1> HIDE DEF table
<1>12. ASSUME NEW i \in DOMAIN table, NEW j \in 1 .. Width(q)
       PROVE  /\ table[i][j] \in Amounts <=> j = c
              /\ <<table[i][j], "head">> \notin Amounts /\ <<table[i][j], "tail">> \notin Amounts
  <2>1. j \in DOMAIN table[1]
    BY <1>9
  <2>2. table[i][j] \in Amounts <=> j = c
    BY <1>5, <2>1
  <2> QED
    BY <1>8, <2>1, <2>2
<1>13. Width(q) \in Nat \ {0} /\ c \in 1 .. Width(q)
  BY <1>4, <1>5, <1>9, <1>10
<1> QED
  BY <1>1, <1>3, <1>5, <1>7, <1>11, <1>12, <1>13 DEF table

\* A tag stands in a text that is no amount, and may be the next that was not asked for.
LEMMA StrayIs ==
  ASSUME NEW q \in Wires
  PROVE  \/ q.stray = NoStray
         \/ /\ q.stray.row \in DOMAIN q.table /\ q.stray.column \in 1 .. Width(q) \ {Home(q)}
            /\ q.stray.tag \in 1 .. Width(q) + 1
<1>1. \/ q.stray = NoStray
      \/ /\ q.stray \in [row : DOMAIN q.table, column : DOMAIN q.table[1], tag : 1 .. Len(q.table[1]) + 1]
         /\ q.table[q.stray.row][q.stray.column] \notin Amounts
  BY DEF Wires
<1>2. CASE q.stray \in [row : DOMAIN q.table, column : DOMAIN q.table[1], tag : 1 .. Len(q.table[1]) + 1]
           /\ q.table[q.stray.row][q.stray.column] \notin Amounts
  <2>1. q.stray.row \in DOMAIN q.table /\ q.stray.column \in DOMAIN q.table[1] /\ q.stray.tag \in 1 .. Len(q.table[1]) + 1
    BY <1>2
  <2>2. DOMAIN q.table[1] = 1 .. Width(q)
    BY TableIs
  <2>3. q.stray.column # Home(q)
    BY <1>2, <2>1, <2>2, TableIs
  <2> QED
    BY <2>1, <2>2, <2>3 DEF Width
<1> QED
  BY <1>1, <1>2

CellOf(q, i, j) == Cell(q.table, q.stray, q.omits, i, j)

\* A cell is left out, printed, or torn in two.
LEMMA CellIs ==
  ASSUME NEW q \in Wires, NEW i \in DOMAIN q.table, NEW j \in 1 .. Width(q)
  PROVE  /\ CellOf(q, i, j) \in Seq(Tokens(q))
         /\ \/ CellOf(q, i, j) = <<>> /\ q.table[i][j] = Blank /\ j # Home(q)
            \/ /\ CellOf(q, i, j) = <<[tag |-> j, value |-> q.table[i][j]]>>
               /\ [tag |-> j, value |-> q.table[i][j]] \in Tokens(q)
            \/ /\ q.stray # NoStray /\ q.stray.column = j /\ j # Home(q) /\ q.stray.tag \in 1 .. Width(q) + 1
               /\ [tag |-> j, value |-> <<q.table[i][j], "head">>] \in Tokens(q)
               /\ [tag |-> q.stray.tag, value |-> <<q.table[i][j], "tail">>] \in Tokens(q)
               /\ CellOf(q, i, j) = <<[tag |-> j, value |-> <<q.table[i][j], "head">>],
                                      [tag |-> q.stray.tag, value |-> <<q.table[i][j], "tail">>]>>
<1> DEFINE text == q.table[i][j]
           whole == [tag |-> j, value |-> text]
           head == [tag |-> j, value |-> <<text, "head">>]
           tail == [tag |-> q.stray.tag, value |-> <<text, "tail">>]
<1>1. j \in DOMAIN q.table[1] /\ j \in Nat
  BY TableIs
<1>2. text \in Pieces(q) /\ <<text, "head">> \in Pieces(q) /\ <<text, "tail">> \in Pieces(q)
  <2>1. <<i, j>> \in (DOMAIN q.table) \X (DOMAIN q.table[1]) /\ q.table[<<i, j>>[1]][<<i, j>>[2]] = text
    BY <1>1
  <2> QED
    BY <2>1 DEF Pieces
<1>3. whole \in Tokens(q) /\ head \in Tokens(q)
  BY <1>1, <1>2 DEF Tokens
<1>4. CASE q.omits /\ text = Blank
  <2>1. CellOf(q, i, j) = <<>> /\ <<>> \in Seq(Tokens(q))
    BY <1>4 DEF CellOf, Cell
  <2>2. j # Home(q)
    <3>1. text \notin Amounts
      BY <1>4, TablesAssumption
    <3> QED
      BY <3>1, TableIs
  <2> QED
    BY <1>4, <2>1, <2>2
<1>5. CASE ~(q.omits /\ text = Blank) /\ ~(q.stray.row = i /\ q.stray.column = j)
  <2>1. CellOf(q, i, j) = <<whole>>
    BY <1>5 DEF CellOf, Cell, Printed
  <2>2. <<whole>> \in Seq(Tokens(q))
    BY <1>3
  <2> QED
    BY <1>3, <2>1, <2>2
<1>6. CASE ~(q.omits /\ text = Blank) /\ q.stray.row = i /\ q.stray.column = j
  <2>1. q.stray # NoStray
    BY <1>1, <1>6 DEF NoStray
  <2>2. j # Home(q) /\ q.stray.tag \in 1 .. Width(q) + 1
    BY <1>6, <2>1, StrayIs
  <2>3. q.stray.tag \in Nat /\ q.stray.tag # 0
    BY <2>2, TableIs
  <2>4. CellOf(q, i, j) = <<head, tail>>
    BY <1>6, <2>3 DEF CellOf, Cell, Printed
  <2>5. tail \in Tokens(q)
    BY <1>2, <2>3 DEF Tokens
  <2>6. <<head, tail>> \in Seq(Tokens(q))
    <3> HIDE DEF head, tail
    <3> QED
      BY <1>3, <2>5
  <2> QED
    BY <1>3, <1>6, <2>1, <2>2, <2>4, <2>5, <2>6
<1> QED
  BY <1>4, <1>5, <1>6

\* The answer up to a cell of a line.
Before(q, i) == FlattenSeq([k \in 1 .. i - 1 |-> Line(q.table, q.stray, q.omits, k)])
Begun(q, i, j) == FlattenSeq([l \in 1 .. j |-> CellOf(q, i, l)])
UpTo(q, i, j) == Before(q, i) \o Begun(q, i, j)

\* A line grows by its cells.
LEMMA LineGrows ==
  ASSUME NEW q \in Wires, NEW i \in DOMAIN q.table, NEW j \in 1 .. Width(q)
  PROVE  /\ Begun(q, i, j - 1) \in Seq(Tokens(q))
         /\ Begun(q, i, j) = Begun(q, i, j - 1) \o CellOf(q, i, j)
         /\ Begun(q, i, j) \in Seq(Tokens(q))
         /\ Begun(q, i, 0) = <<>>
<1> DEFINE S == Tokens(q)
           C(l) == CellOf(q, i, l)
           before == [l \in 1 .. j - 1 |-> C(l)]
           upto == [l \in 1 .. j |-> C(l)]
<1>1. Width(q) \in Nat /\ \A l \in 1 .. Width(q) : C(l) \in Seq(S)
  BY TableIs, CellIs
<1> HIDE DEF C, S
<1>2. before \in Seq(Seq(S)) /\ C(j) \in Seq(S)
  BY <1>1
<1>3. upto = Append(before, C(j))
  BY <1>1
<1>4. FlattenSeq(upto) = FlattenSeq(before) \o C(j) /\ FlattenSeq(before) \in Seq(S)
  <2> HIDE DEF before, upto
  <2> QED
    BY <1>2, <1>3, FlattenAppend
<1>5. FlattenSeq(upto) \in Seq(S)
  <2> HIDE DEF before, upto
  <2> QED
    BY <1>2, <1>4
<1>6. Begun(q, i, 0) = <<>>
  <2> DEFINE none == [l \in 1 .. 0 |-> C(l)]
  <2>1. none = <<>> /\ <<>> \in Seq(Seq(S)) /\ <<>> \in Seq(S)
    OBVIOUS
  <2>2. FlattenSeq(<<>>) = <<>>
    BY <2>1, FlattenAppend
  <2>3. FlattenSeq(none) = <<>>
    <3> HIDE DEF none
    <3> QED
      BY <2>1, <2>2
  <2> QED
    BY <2>3 DEF Begun, C
<1> QED
  BY <1>4, <1>5, <1>6 DEF Begun, C, S

\* A line is all of its cells.
LEMMA LineIs ==
  ASSUME NEW q \in Wires, NEW i \in DOMAIN q.table
  PROVE  Line(q.table, q.stray, q.omits, i) = Begun(q, i, Width(q)) /\ Begun(q, i, Width(q)) \in Seq(Tokens(q))
<1>1. Width(q) \in 1 .. Width(q) /\ DOMAIN q.table[i] = 1 .. Width(q)
  BY TableIs
<1> QED
  BY <1>1, LineGrows DEF Line, Begun, CellOf

\* An answer grows by its lines.
LEMMA AnswerGrows ==
  ASSUME NEW q \in Wires, NEW i \in DOMAIN q.table
  PROVE  /\ Before(q, i) \in Seq(Tokens(q))
         /\ Before(q, i + 1) = Before(q, i) \o Begun(q, i, Width(q))
         /\ Before(q, i + 1) \in Seq(Tokens(q))
         /\ Before(q, 1) = <<>>
<1> DEFINE S == Tokens(q)
           L(k) == Line(q.table, q.stray, q.omits, k)
           before == [k \in 1 .. i - 1 |-> L(k)]
           upto == [k \in 1 .. i |-> L(k)]
<1>1. i \in 1 .. Len(q.table) /\ Len(q.table) \in Nat /\ i \in Nat \ {0} /\ i + 1 - 1 = i
  BY TableIs
<1>2. ASSUME NEW k \in 1 .. Len(q.table) PROVE L(k) \in Seq(S)
  <2>1. k \in DOMAIN q.table
    BY TableIs
  <2> QED
    BY <2>1, LineIs
<1> HIDE DEF L, S
<1>3. before \in Seq(Seq(S)) /\ L(i) \in Seq(S)
  BY <1>1, <1>2
<1>4. upto = Append(before, L(i))
  BY <1>1
<1>5. FlattenSeq(upto) = FlattenSeq(before) \o L(i) /\ FlattenSeq(before) \in Seq(S)
  <2> HIDE DEF before, upto
  <2> QED
    BY <1>3, <1>4, FlattenAppend
<1>6. FlattenSeq(upto) \in Seq(S)
  <2> HIDE DEF before, upto
  <2> QED
    BY <1>3, <1>5
<1>7. Before(q, 1) = <<>>
  <2> DEFINE none == [k \in 1 .. 1 - 1 |-> L(k)]
  <2>1. none = <<>> /\ <<>> \in Seq(Seq(S)) /\ <<>> \in Seq(S)
    OBVIOUS
  <2>2. FlattenSeq(<<>>) = <<>>
    BY <2>1, FlattenAppend
  <2>3. FlattenSeq(none) = <<>>
    <3> HIDE DEF none
    <3> QED
      BY <2>1, <2>2
  <2> QED
    BY <2>3 DEF Before, L
<1>8. Before(q, i + 1) = FlattenSeq(upto) /\ Before(q, i) = FlattenSeq(before) /\ L(i) = Begun(q, i, Width(q))
  BY <1>1, LineIs DEF Before, L
<1> QED
  <2> HIDE DEF before, upto
  <2> QED
    BY <1>5, <1>6, <1>7, <1>8 DEF S

\* The answer is what has been printed when the last line is done.
LEMMA AnswerIs ==
  ASSUME NEW q \in Wires
  PROVE  /\ UpTo(q, 1, 0) = <<>>
         /\ Answer(q.table, q.stray, q.omits) = UpTo(q, Len(q.table), Width(q))
         /\ \A i \in DOMAIN q.table :
              /\ UpTo(q, i + 1, 0) = UpTo(q, i, Width(q))
              /\ \A j \in 1 .. Width(q) :
                   /\ UpTo(q, i, j - 1) \in Seq(Tokens(q))
                   /\ UpTo(q, i, j) = UpTo(q, i, j - 1) \o CellOf(q, i, j)
<1> DEFINE S == Tokens(q)
           n == Len(q.table)
           w == Width(q)
<1>1. n \in Nat \ {0} /\ DOMAIN q.table = 1 .. n /\ 1 \in 1 .. n /\ n \in 1 .. n /\ w \in Nat \ {0} /\ 1 \in 1 .. w /\ w \in 1 .. w
  BY TableIs
<1>2. UpTo(q, 1, 0) = <<>>
  <2>1. Before(q, 1) = <<>> /\ Begun(q, 1, 0) = <<>>
    BY <1>1, AnswerGrows, LineGrows
  <2> QED
    BY <2>1 DEF UpTo
<1>3. ASSUME NEW i \in DOMAIN q.table PROVE UpTo(q, i + 1, 0) = UpTo(q, i, w)
  <2>1. Before(q, i + 1) = UpTo(q, i, w) /\ Before(q, i + 1) \in Seq(S)
    BY AnswerGrows DEF UpTo
  <2>2. FlattenSeq([l \in 1 .. 0 |-> CellOf(q, i + 1, l)]) = <<>>
    <3> DEFINE none == [l \in 1 .. 0 |-> CellOf(q, i + 1, l)]
    <3>1. none = <<>> /\ <<>> \in Seq(Seq(S)) /\ <<>> \in Seq(S)
      OBVIOUS
    <3>2. FlattenSeq(<<>>) = <<>>
      BY <3>1, FlattenAppend
    <3> HIDE DEF none
    <3>3. FlattenSeq(none) = <<>>
      BY <3>1, <3>2
    <3> QED
      BY <3>3 DEF none
  <2>3. \A s \in Seq(S) : s \o <<>> = s
    OBVIOUS
  <2> QED
    BY <2>1, <2>2, <2>3 DEF UpTo, Begun
<1>4. ASSUME NEW i \in DOMAIN q.table, NEW j \in 1 .. w
      PROVE  UpTo(q, i, j - 1) \in Seq(S) /\ UpTo(q, i, j) = UpTo(q, i, j - 1) \o CellOf(q, i, j)
  <2> DEFINE a == Before(q, i)
             b == Begun(q, i, j - 1)
             c == CellOf(q, i, j)
  <2>1. a \in Seq(S) /\ b \in Seq(S) /\ c \in Seq(S) /\ Begun(q, i, j) = b \o c
    BY AnswerGrows, LineGrows, CellIs
  <2>2. UpTo(q, i, j - 1) = a \o b /\ UpTo(q, i, j) = a \o (b \o c)
    BY <2>1 DEF UpTo
  <2> HIDE DEF a, b, S
  <2>3. a \o b \in Seq(S) /\ a \o (b \o c) = (a \o b) \o c
    <3> HIDE DEF c
    <3> QED
      BY <2>1
  <2> QED
    BY <2>2, <2>3
<1>5. Answer(q.table, q.stray, q.omits) = UpTo(q, n, w)
  <2>1. Answer(q.table, q.stray, q.omits) = Before(q, n + 1)
    <3>1. n + 1 - 1 = n
      BY <1>1
    <3> QED
      BY <1>1, <3>1 DEF Answer, Before
  <2> QED
    BY <1>1, <2>1, AnswerGrows DEF UpTo
<1> QED
  BY <1>2, <1>3, <1>4, <1>5

-----------------------------------------------------------------------------
(* The wire: what has been read when a cell has been printed *)

\* A row holds the amount of its line once that is printed, and without a stray tag
\* what is in the table and no more.
Complete(q, row, i, j) ==
  /\ j >= Home(q) =>
       /\ row[Len(row)].tag >= Home(q)
       /\ \E p \in DOMAIN row : row[p] = [tag |-> Home(q), value |-> q.table[i][Home(q)]]
  /\ q.stray = NoStray =>
       /\ \A p \in DOMAIN row : row[p].tag \in 1 .. j /\ row[p].value = q.table[i][row[p].tag]
       /\ \A l \in 1 .. j : q.table[i][l] # Blank => \E p \in DOMAIN row : row[p].tag = l

\* The rows are the lines, as far as they are printed.
Kept(q, R, i, j) ==
  /\ \A k \in 1 .. i - 1 : Complete(q, R[k], k, Width(q))
  /\ \/ Len(R) = i /\ j >= 1 /\ Complete(q, R[i], i, j)
     \/ Len(R) = i - 1 /\ j < Home(q) /\ \A l \in 1 .. j : q.table[i][l] = Blank

\* The amounts that are printed are held once each, in their column.
Printed1st(q, R, i, j) ==
  \A k \in DOMAIN q.table :
    /\ k < i \/ (k = i /\ j >= Home(q)) => OnceAt(R, q.table[k][Home(q)], Home(q))
    /\ ~(k < i \/ (k = i /\ j >= Home(q))) => Nowhere(R, q.table[k][Home(q)])

ReadTo(q, R, i, j) ==
  /\ R \in RowsOver(Tokens(q))
  /\ Rising(R)
  /\ Printed1st(q, R, i, j)
  /\ q.stray.column \in {0, 1} => Condemned(R, Width(q)) \/ Kept(q, R, i, j)

\* A token that is no amount leaves the amounts where they are.
LEMMA AmountsStay ==
  ASSUME NEW q \in Wires, NEW R \in RowsOver(Tokens(q)), NEW i, NEW j, Printed1st(q, R, i, j),
         NEW t \in Tokens(q), t.value \notin Amounts
  PROVE  Printed1st(q, Placed(R, t), i, j)
<1> SUFFICES ASSUME NEW k \in DOMAIN q.table
             PROVE  /\ k < i \/ (k = i /\ j >= Home(q)) => OnceAt(Placed(R, t), q.table[k][Home(q)], Home(q))
                    /\ ~(k < i \/ (k = i /\ j >= Home(q))) => Nowhere(Placed(R, t), q.table[k][Home(q)])
  BY DEF Printed1st
<1> DEFINE a == q.table[k][Home(q)]
<1>1. a \in Amounts
  BY TableIs
<1>2. t.value # a
  BY <1>1
<1>3. (OnceAt(R, a, Home(q)) => OnceAt(Placed(R, t), a, Home(q))) /\ (Nowhere(R, a) => Nowhere(Placed(R, t), a))
  BY <1>2, PlacedHolds
<1> QED
  BY <1>3 DEF Printed1st

\* An amount is held when it has been printed.
LEMMA AmountComes ==
  ASSUME NEW q \in Wires, NEW R \in RowsOver(Tokens(q)), NEW i \in DOMAIN q.table,
         Printed1st(q, R, i, Home(q) - 1),
         NEW t \in Tokens(q), t = [tag |-> Home(q), value |-> q.table[i][Home(q)]]
  PROVE  Printed1st(q, Placed(R, t), i, Home(q))
<1> DEFINE H == Home(q)
<1>1. H \in Nat /\ i \in Nat /\ ~(H - 1 >= H) /\ H >= H
  BY TableIs
<1>2. ASSUME NEW k \in DOMAIN q.table, k # i
      PROVE  /\ k < i => OnceAt(Placed(R, t), q.table[k][H], H)
             /\ ~(k < i) => Nowhere(Placed(R, t), q.table[k][H])
  <2>1. t.value # q.table[k][H]
    BY <1>2, TableIs
  <2>2. (k < i => OnceAt(R, q.table[k][H], H)) /\ (~(k < i) => Nowhere(R, q.table[k][H]))
    BY <1>2 DEF Printed1st
  <2> QED
    BY <2>1, <2>2, PlacedHolds
<1>3. OnceAt(Placed(R, t), q.table[i][H], H)
  <2>1. ~(i < i) /\ t.value = q.table[i][H] /\ t.tag = H
    BY <1>1
  <2>2. Nowhere(R, q.table[i][H])
    BY <1>1, <2>1 DEF Printed1st
  <2> QED
    BY <2>1, <2>2, PlacedHolds
<1> QED
  BY <1>1, <1>2, <1>3 DEF Printed1st

\* A cell beside the amounts changes nothing about them.
LEMMA AmountsBeside ==
  ASSUME NEW q \in Wires, NEW R, NEW i, NEW j \in 1 .. Width(q), j # Home(q), Printed1st(q, R, i, j - 1)
  PROVE  Printed1st(q, R, i, j)
<1>1. j - 1 >= Home(q) <=> j >= Home(q)
  BY TableIs
<1> QED
  BY <1>1 DEF Printed1st

\* A blank that is left out leaves the rows what they are.
LEMMA BlankKeeps ==
  ASSUME NEW q \in Wires, NEW R, NEW i \in DOMAIN q.table, NEW j \in 1 .. Width(q), j # Home(q),
         q.table[i][j] = Blank, Kept(q, R, i, j - 1)
  PROVE  Kept(q, R, i, j)
<1>1. j - 1 >= Home(q) <=> j >= Home(q)
  BY TableIs
<1>2. j \in Nat \ {0} /\ 1 .. j - 1 \subseteq 1 .. j /\ \A l \in 1 .. j : l \in 1 .. j - 1 \/ l = j
  BY TableIs
<1>3. CASE Len(R) = i /\ j - 1 >= 1 /\ Complete(q, R[i], i, j - 1)
  <2>1. Complete(q, R[i], i, j)
    BY <1>1, <1>2, <1>3 DEF Complete
  <2> QED
    BY <1>2, <1>3, <2>1 DEF Kept
<1>4. CASE Len(R) = i - 1 /\ j - 1 < Home(q) /\ \A l \in 1 .. j - 1 : q.table[i][l] = Blank
  <2>1. j < Home(q)
    BY <1>2, <1>4, TableIs
  <2> QED
    BY <1>2, <1>4, <2>1 DEF Kept
<1> QED
  BY <1>3, <1>4 DEF Kept

\* A line begins a row of its own: the line before it went as far as its amount.
LEMMA LineBegins ==
  ASSUME NEW q \in Wires, NEW R \in RowsOver(Tokens(q)), NEW i \in DOMAIN q.table, NEW t \in Tokens(q),
         Len(R) = i - 1, \A k \in 1 .. i - 1 : Complete(q, R[k], k, Width(q)), t.tag <= Home(q)
  PROVE  Placed(R, t) = Append(R, <<t>>)
<1>1. i \in Nat \ {0} /\ Home(q) \in Nat /\ Width(q) >= Home(q) /\ t.tag \in Nat
  BY TableIs DEF Tokens
<1>2. CASE i = 1
  <2>1. R = <<>>
    BY <1>2 DEF RowsOver
  <2> QED
    BY <2>1, PlacedIs
<1>3. CASE i # 1
  <2>1. i - 1 \in 1 .. i - 1
    BY <1>1, <1>3
  <2>2. R[i - 1][Len(R[i - 1])].tag >= Home(q)
    BY <1>1, <2>1 DEF Complete
  <2>3. R[i - 1] \in Seq(Tokens(q)) /\ R[i - 1] # <<>>
    BY <2>1 DEF RowsOver
  <2>4. R[i - 1][Len(R[i - 1])] \in Tokens(q)
    BY <2>3
  <2>5. R[i - 1][Len(R[i - 1])].tag \in Nat
    BY <2>4 DEF Tokens
  <2>6. ~(t.tag > R[Len(R)][Len(R[Len(R)])].tag)
    BY <1>1, <2>2, <2>5
  <2> QED
    BY <2>6, PlacedIs
<1> QED
  BY <1>2, <1>3

\* A cell that is printed goes into the row of its line, or into one that is refused.
LEMMA CellKeeps ==
  ASSUME NEW q \in Wires, NEW R \in RowsOver(Tokens(q)), NEW i \in DOMAIN q.table, NEW j \in 1 .. Width(q),
         NEW t \in Tokens(q), t = [tag |-> j, value |-> q.table[i][j]], Kept(q, R, i, j - 1)
  PROVE  Condemned(Placed(R, t), Width(q)) \/ Kept(q, Placed(R, t), i, j)
<1> DEFINE P == Placed(R, t)
           H == Home(q)
<1>1. i \in Nat \ {0} /\ j \in Nat \ {0} /\ H \in Nat \ {0} /\ t.tag = j /\ t.value = q.table[i][j]
  BY TableIs
<1>2. 1 .. j - 1 \subseteq 1 .. j /\ j \in 1 .. j /\ \A l \in 1 .. j : l \in 1 .. j - 1 \/ l = j
  BY <1>1
<1>3. \A k \in 1 .. i - 1 : Complete(q, R[k], k, Width(q))
  BY DEF Kept
<1>4. CASE Len(R) = i - 1 /\ j - 1 < H /\ \A l \in 1 .. j - 1 : q.table[i][l] = Blank
  <2>1. j <= H
    BY <1>1, <1>4
  <2>2. P = Append(R, <<t>>)
    BY <1>1, <1>3, <1>4, <2>1, LineBegins
  <2>3. Len(P) = i /\ P[i] = <<t>> /\ \A k \in 1 .. i - 1 : P[k] = R[k]
    BY <1>1, <1>4, <2>2 DEF RowsOver
  <2> DEFINE row == <<t>>
  <2>4. DOMAIN row = {1} /\ Len(row) = 1 /\ row[1] = t
    OBVIOUS
  <2> HIDE DEF row
  <2>5. j >= H => j = H
    BY <1>1, <2>1
  <2>6. Complete(q, row, i, j)
    BY <1>1, <1>2, <1>4, <2>4, <2>5 DEF Complete
  <2> HIDE DEF P
  <2>7. Kept(q, P, i, j)
    BY <1>1, <1>3, <2>3, <2>6 DEF Kept, row
  <2> QED
    BY <2>7 DEF P
<1>5. CASE Len(R) = i /\ j - 1 >= 1 /\ Complete(q, R[i], i, j - 1)
  <2> DEFINE row == R[i]
             m == Len(row)
  <2>1. row \in Seq(Tokens(q)) /\ row # <<>> /\ R # <<>> /\ DOMAIN R = 1 .. i
    BY <1>1, <1>5 DEF RowsOver
  <2>2. m \in Nat /\ DOMAIN row = 1 .. m
    BY <2>1
  <2>3. CASE /\ Len(P) = Len(R) /\ \A k \in 1 .. Len(R) - 1 : P[k] = R[k]
             /\ P[Len(R)] = Append(R[Len(R)], t)
    <3> DEFINE more == Append(row, t)
    <3>1. Len(P) = i /\ P[i] = more /\ \A k \in 1 .. i - 1 : P[k] = R[k]
      BY <1>5, <2>3
    <3>2. /\ DOMAIN more = 1 .. m + 1 /\ Len(more) = m + 1 /\ more[m + 1] = t
          /\ \A p \in 1 .. m : more[p] = row[p] /\ p \in 1 .. m + 1
          /\ \A p \in 1 .. m + 1 : p \in 1 .. m \/ p = m + 1
          /\ m + 1 \in 1 .. m + 1
      BY <2>1, <2>2
    <3> HIDE DEF more, m
    <3>3. ASSUME j >= H PROVE more[Len(more)].tag >= H /\ \E p \in DOMAIN more : more[p] = [tag |-> H, value |-> q.table[i][H]]
      <4>1. CASE j = H
        BY <1>1, <3>2, <3>3, <4>1
      <4>2. CASE j # H
        <5>1. j - 1 >= H
          BY <1>1, <3>3, <4>2
        <5>2. PICK p \in DOMAIN row : row[p] = [tag |-> H, value |-> q.table[i][H]]
          BY <1>5, <5>1 DEF Complete
        <5> QED
          BY <1>1, <2>2, <3>2, <3>3, <5>2
      <4> QED
        BY <4>1, <4>2
    <3>4. ASSUME q.stray = NoStray
          PROVE  /\ \A p \in DOMAIN more : more[p].tag \in 1 .. j /\ more[p].value = q.table[i][more[p].tag]
                 /\ \A l \in 1 .. j : q.table[i][l] # Blank => \E p \in DOMAIN more : more[p].tag = l
      <4>1. /\ \A p \in DOMAIN row : row[p].tag \in 1 .. j - 1 /\ row[p].value = q.table[i][row[p].tag]
            /\ \A l \in 1 .. j - 1 : q.table[i][l] # Blank => \E p \in DOMAIN row : row[p].tag = l
        BY <1>5, <3>4 DEF Complete
      <4>2. ASSUME NEW p \in DOMAIN more PROVE more[p].tag \in 1 .. j /\ more[p].value = q.table[i][more[p].tag]
        BY <1>1, <1>2, <2>2, <3>2, <4>1
      <4>3. ASSUME NEW l \in 1 .. j, q.table[i][l] # Blank PROVE \E p \in DOMAIN more : more[p].tag = l
        <5>1. CASE l = j
          BY <1>1, <3>2, <5>1
        <5>2. CASE l \in 1 .. j - 1
          <6>1. PICK p \in DOMAIN row : row[p].tag = l
            BY <4>1, <4>3, <5>2
          <6> QED
            BY <2>2, <3>2, <6>1
        <5> QED
          BY <1>2, <5>1, <5>2
      <4> QED
        BY <4>2, <4>3
    <3>5. Complete(q, more, i, j)
      BY <3>3, <3>4 DEF Complete
    <3> HIDE DEF P
    <3>6. Kept(q, P, i, j)
      BY <1>1, <1>3, <3>1, <3>5 DEF Kept
    <3> QED
      BY <3>6 DEF P
  <2>4. CASE P = Append(R, <<t>>)
    <3>1. DOMAIN P = 1 .. i + 1 /\ P[i + 1] = <<t>> /\ i + 1 \in 1 .. i + 1
      BY <1>1, <1>5, <2>4 DEF RowsOver
    <3>2. <<t>>[1] = t
      OBVIOUS
    <3>3. j # 1
      BY <1>1, <1>5
    <3> HIDE DEF P
    <3>4. P[i + 1][1].tag # 1
      BY <1>1, <3>1, <3>2, <3>3
    <3> QED
      BY <3>1, <3>4 DEF Condemned, P
  <2> QED
    BY <2>3, <2>4, PlacedIs
<1> QED
  BY <1>4, <1>5 DEF Kept

\* A tag in a text of the first column loses its row, or only that text.
LEMMA TornKeeps ==
  ASSUME NEW q \in Wires, NEW R \in RowsOver(Tokens(q)), NEW i \in DOMAIN q.table,
         NEW head \in Tokens(q), NEW tail \in Tokens(q), head.tag = 1,
         q.stray # NoStray, Home(q) # 1, Kept(q, R, i, 0)
  PROVE  \/ Condemned(Placed(Placed(R, head), tail), Width(q))
         \/ Kept(q, Placed(Placed(R, head), tail), i, 1)
<1> DEFINE P == Placed(R, head)
           Q == Placed(P, tail)
           one == <<head>>
<1>1. i \in Nat \ {0} /\ Home(q) \in Nat /\ Home(q) >= 2 /\ Width(q) >= 2 /\ tail.tag \in Nat /\ ~(1 >= Home(q)) /\ ~(0 >= 1)
  BY TableIs DEF Tokens
<1>2. Len(R) = i - 1 /\ \A k \in 1 .. i - 1 : Complete(q, R[k], k, Width(q))
  BY <1>1 DEF Kept
<1>3. P = Append(R, one)
  BY <1>1, <1>2, LineBegins
<1>4. one \in Seq(Tokens(q)) /\ one # <<>> /\ Len(one) = 1 /\ one[1] = head
  OBVIOUS
<1> HIDE DEF one
<1>5. Len(P) = i /\ P[i] = one /\ (\A k \in 1 .. i - 1 : P[k] = R[k]) /\ P \in RowsOver(Tokens(q)) /\ P # <<>>
  BY <1>1, <1>2, <1>3, <1>4 DEF RowsOver
<1> HIDE DEF P
<1>6. CASE Len(Q) = Len(P) /\ (\A k \in 1 .. Len(P) - 1 : Q[k] = P[k]) /\ Q[Len(P)] = Append(P[Len(P)], tail)
  <2>1. Len(Q) = i /\ \A k \in 1 .. i - 1 : Q[k] = R[k]
    BY <1>1, <1>5, <1>6
  <2>2. Complete(q, Q[i], i, 1)
    BY <1>1 DEF Complete
  <2> HIDE DEF Q
  <2>3. Kept(q, Q, i, 1)
    BY <1>1, <1>2, <2>1, <2>2 DEF Kept
  <2> QED
    BY <2>3 DEF Q, P
<1>7. CASE Q = Append(P, <<tail>>)
  <2>1. DOMAIN Q = 1 .. i + 1 /\ Len(Q) = i + 1 /\ Q[i] = one /\ i \in 1 .. i + 1 /\ i < i + 1 /\ 1 < 2
    BY <1>1, <1>5, <1>7 DEF RowsOver
  <2> HIDE DEF Q
  <2>2. Condemned(Q, Width(q))
    BY <1>1, <1>4, <2>1 DEF Condemned
  <2> QED
    BY <2>2 DEF Q, P
<1> QED
  BY <1>5, <1>6, <1>7, PlacedIs

-----------------------------------------------------------------------------
(* The wire: what is read of an answer *)

\* One cell more has been read.
LEMMA CellRead ==
  ASSUME NEW q \in Wires, NEW s \in Seq(Tokens(q)), NEW i \in DOMAIN q.table, NEW j \in 1 .. Width(q),
         ReadTo(q, Cut(s), i, j - 1)
  PROVE  ReadTo(q, Cut(s \o CellOf(q, i, j)), i, j)
<1> DEFINE R == Cut(s)
           text == q.table[i][j]
           N == Cut(s \o CellOf(q, i, j))
           Early == q.stray.column \in {0, 1}
<1>1. j \in Nat \ {0} /\ (text \in Amounts <=> j = Home(q)) /\ <<text, "head">> \notin Amounts /\ <<text, "tail">> \notin Amounts
  BY TableIs
<1>2. \A t \in Tokens(q) : t.tag \in Int
  BY DEF Tokens
<1>3. /\ R \in RowsOver(Tokens(q)) /\ Rising(R) /\ Printed1st(q, R, i, j - 1)
      /\ Early => Condemned(R, Width(q)) \/ Kept(q, R, i, j - 1)
  BY DEF ReadTo
<1>4. CASE CellOf(q, i, j) = <<>> /\ text = Blank /\ j # Home(q)
  <2>1. N = R
    BY <1>4
  <2>2. Printed1st(q, R, i, j)
    BY <1>3, <1>4, AmountsBeside
  <2>3. Kept(q, R, i, j - 1) => Kept(q, R, i, j)
    BY <1>4, BlankKeeps
  <2> HIDE DEF R, N
  <2>4. ReadTo(q, N, i, j)
    BY <1>3, <2>1, <2>2, <2>3 DEF ReadTo
  <2> QED
    BY <2>4 DEF N
<1>5. ASSUME NEW t \in Tokens(q), t = [tag |-> j, value |-> text], CellOf(q, i, j) = <<t>>
      PROVE  ReadTo(q, N, i, j)
  <2> DEFINE P == Placed(R, t)
  <2>1. N = P
    <3>1. s \o <<t>> = Append(s, t)
      OBVIOUS
    <3> QED
      BY <1>5, <3>1, CutAppend
  <2> HIDE DEF R, N
  <2>2. P \in RowsOver(Tokens(q)) /\ Rising(P)
    BY <1>2, <1>3, PlacedIs, PlacedRises
  <2>3. Printed1st(q, P, i, j)
    <3>1. CASE j = Home(q)
      BY <1>3, <1>5, <3>1, AmountComes
    <3>2. CASE j # Home(q)
      <4>1. t.value \notin Amounts
        BY <1>1, <1>5, <3>2
      <4>2. Printed1st(q, P, i, j - 1)
        BY <1>3, <4>1, AmountsStay
      <4> HIDE DEF P
      <4> QED
        BY <3>2, <4>2, AmountsBeside
    <3> QED
      BY <3>1, <3>2
  <2>4. Early => Condemned(P, Width(q)) \/ Kept(q, P, i, j)
    BY <1>3, <1>5, CellKeeps, PlacedCondemns
  <2> HIDE DEF P
  <2> QED
    BY <2>1, <2>2, <2>3, <2>4 DEF ReadTo
<1>6. ASSUME NEW head \in Tokens(q), NEW tail \in Tokens(q), j # Home(q), q.stray # NoStray, q.stray.column = j,
             head = [tag |-> j, value |-> <<text, "head">>], tail.value = <<text, "tail">>,
             CellOf(q, i, j) = <<head, tail>>
      PROVE  ReadTo(q, N, i, j)
  <2> DEFINE P == Placed(R, head)
             Q == Placed(P, tail)
  <2>1. N = Q
    <3> DEFINE most == Append(s, head)
    <3>1. most \in Seq(Tokens(q)) /\ s \o <<head, tail>> = Append(most, tail)
      OBVIOUS
    <3>2. Cut(most) = P
      BY CutAppend
    <3> HIDE DEF most, P
    <3>3. Cut(Append(most, tail)) = Placed(Cut(most), tail)
      BY <3>1, CutAppend
    <3>4. N = Cut(Append(most, tail))
      BY <1>6, <3>1
    <3> QED
      BY <3>2, <3>3, <3>4
  <2> HIDE DEF R, N
  <2>2. P \in RowsOver(Tokens(q)) /\ Rising(P)
    BY <1>2, <1>3, PlacedIs, PlacedRises
  <2>3. Printed1st(q, P, i, j - 1)
    BY <1>1, <1>3, <1>6, AmountsStay
  <2>4. Condemned(R, Width(q)) => Condemned(P, Width(q))
    BY <1>3, PlacedCondemns
  <2>5. Early => j = 1
    BY <1>1, <1>6
  <2>6. Early /\ Kept(q, R, i, j - 1) => Condemned(Q, Width(q)) \/ Kept(q, Q, i, j)
    BY <1>3, <1>6, <2>5, TornKeeps
  <2> HIDE DEF P
  <2>7. Q \in RowsOver(Tokens(q)) /\ Rising(Q)
    BY <1>2, <2>2, PlacedIs, PlacedRises
  <2>8. Printed1st(q, Q, i, j - 1)
    BY <1>1, <1>6, <2>2, <2>3, AmountsStay
  <2>9. Condemned(P, Width(q)) => Condemned(Q, Width(q))
    BY <2>2, PlacedCondemns
  <2> HIDE DEF Q
  <2>10. Printed1st(q, Q, i, j)
    BY <1>6, <2>8, AmountsBeside
  <2> QED
    BY <1>3, <2>1, <2>4, <2>6, <2>7, <2>9, <2>10 DEF ReadTo
<1> QED
  <2>1. CASE CellOf(q, i, j) = <<[tag |-> j, value |-> text]>> /\ [tag |-> j, value |-> text] \in Tokens(q)
    <3> DEFINE t == [tag |-> j, value |-> text]
    <3> HIDE DEF N
    <3>1. ReadTo(q, N, i, j)
      BY <1>5, <2>1
    <3> QED
      BY <3>1 DEF N
  <2>2. CASE /\ q.stray # NoStray /\ q.stray.column = j /\ j # Home(q)
             /\ [tag |-> j, value |-> <<text, "head">>] \in Tokens(q)
             /\ [tag |-> q.stray.tag, value |-> <<text, "tail">>] \in Tokens(q)
             /\ CellOf(q, i, j) = <<[tag |-> j, value |-> <<text, "head">>],
                                    [tag |-> q.stray.tag, value |-> <<text, "tail">>]>>
    <3> DEFINE head == [tag |-> j, value |-> <<text, "head">>]
               tail == [tag |-> q.stray.tag, value |-> <<text, "tail">>]
    <3>1. head = [tag |-> j, value |-> <<text, "head">>] /\ tail.value = <<text, "tail">>
      OBVIOUS
    <3>2. head \in Tokens(q) /\ tail \in Tokens(q) /\ CellOf(q, i, j) = <<head, tail>>
      BY <2>2
    <3> HIDE DEF head, tail, N
    <3>3. ReadTo(q, N, i, j)
      BY <1>6, <2>2, <3>1, <3>2
    <3> QED
      BY <3>3 DEF N
  <2>3. CellOf(q, i, j) = <<>> /\ text = Blank /\ j # Home(q) => ReadTo(q, Cut(s \o CellOf(q, i, j)), i, j)
    BY <1>4
  <2> QED
    BY <2>1, <2>2, <2>3, CellIs

\* Nothing has been read before the first cell, and a line that is done is the
\* beginning of the next.
LEMMA LineRead ==
  ASSUME NEW q \in Wires
  PROVE  /\ ReadTo(q, <<>>, 1, 0)
         /\ \A R : \A i \in DOMAIN q.table : ReadTo(q, R, i, Width(q)) => ReadTo(q, R, i + 1, 0)
<1>1. Home(q) \in Nat \ {0} /\ Width(q) \in Nat /\ Width(q) >= Home(q) /\ 0 < Home(q) /\ DOMAIN q.table = 1 .. Len(q.table)
  BY TableIs
<1>2. ReadTo(q, <<>>, 1, 0)
  <2>1. <<>> \in RowsOver(Tokens(q)) /\ Len(<<>>) = 0 /\ DOMAIN <<>> = {}
    BY DEF RowsOver
  <2>2. \A a : Nowhere(<<>>, a)
    BY <2>1 DEF Nowhere, At
  <2>3. Printed1st(q, <<>>, 1, 0)
    <3> SUFFICES ASSUME NEW k \in DOMAIN q.table PROVE ~(k < 1) /\ ~(0 >= Home(q))
      BY <2>2 DEF Printed1st
    <3> QED
      BY <1>1
  <2>4. Kept(q, <<>>, 1, 0)
    BY <1>1, <2>1 DEF Kept
  <2>5. Rising(<<>>)
    BY <2>1 DEF Rising
  <2> QED
    BY <2>1, <2>3, <2>4, <2>5 DEF ReadTo
<1>3. ASSUME NEW R, NEW i \in DOMAIN q.table, ReadTo(q, R, i, Width(q)) PROVE ReadTo(q, R, i + 1, 0)
  <2>1. i \in Nat /\ (i + 1) - 1 = i /\ ~(0 >= Home(q)) /\ ~(Width(q) < Home(q))
    BY <1>1
  <2>2. Printed1st(q, R, i + 1, 0)
    <3> SUFFICES ASSUME NEW k \in DOMAIN q.table
                 PROVE  (k < i + 1 \/ (k = i + 1 /\ 0 >= Home(q))) <=> (k < i \/ (k = i /\ Width(q) >= Home(q)))
      BY <1>3 DEF Printed1st, ReadTo
    <3> QED
      BY <1>1, <2>1
  <2>3. Kept(q, R, i, Width(q)) => Kept(q, R, i + 1, 0)
    <3> SUFFICES ASSUME Kept(q, R, i, Width(q)) PROVE Kept(q, R, i + 1, 0)
      OBVIOUS
    <3>1. Len(R) = i /\ Complete(q, R[i], i, Width(q)) /\ \A k \in 1 .. i - 1 : Complete(q, R[k], k, Width(q))
      BY <2>1 DEF Kept
    <3>2. \A k \in 1 .. i : k \in 1 .. i - 1 \/ k = i
      BY <2>1
    <3>3. \A k \in 1 .. i : Complete(q, R[k], k, Width(q))
      BY <3>1, <3>2
    <3>4. \A l \in 1 .. 0 : q.table[i + 1][l] = Blank
      OBVIOUS
    <3> QED
      BY <1>1, <2>1, <3>1, <3>3, <3>4 DEF Kept
  <2> QED
    BY <1>3, <2>2, <2>3 DEF ReadTo
<1> QED
  BY <1>2, <1>3

\* The whole answer is read.
LEMMA AnswerRead ==
  ASSUME NEW q \in Wires
  PROVE  ReadTo(q, Cut(Answer(q.table, q.stray, q.omits)), Len(q.table), Width(q))
<1> DEFINE n == Len(q.table)
           w == Width(q)
           Done(i, j) == ReadTo(q, Cut(UpTo(q, i, j)), i, j)
<1>1. n \in Nat \ {0} /\ w \in Nat \ {0} /\ DOMAIN q.table = 1 .. n
  BY TableIs
<1>2. ASSUME NEW i \in 1 .. n, NEW j \in 1 .. w, Done(i, j - 1) PROVE Done(i, j)
  <2>1. UpTo(q, i, j - 1) \in Seq(Tokens(q)) /\ UpTo(q, i, j) = UpTo(q, i, j - 1) \o CellOf(q, i, j)
    BY <1>1, AnswerIs
  <2> QED
    BY <1>1, <1>2, <2>1, CellRead
<1>3. Done(1, 0)
  BY AnswerIs, CutNothing, LineRead
<1>4. ASSUME NEW i \in 1 .. n, Done(i, w) PROVE Done(i + 1, 0)
  <2> DEFINE R == Cut(UpTo(q, i, w))
  <2>1. UpTo(q, i + 1, 0) = UpTo(q, i, w)
    BY <1>1, AnswerIs
  <2>2. ReadTo(q, R, i, w) /\ i \in DOMAIN q.table
    BY <1>1, <1>4
  <2> HIDE DEF R
  <2>3. ReadTo(q, R, i + 1, 0)
    BY <2>2, LineRead
  <2> QED
    BY <2>1, <2>3 DEF R
<1> HIDE DEF Done, n, w
<1>5. ASSUME NEW i \in 1 .. n, Done(i, 0) PROVE Done(i, w)
  <2> DEFINE K == {j \in 0 .. w : ~Done(i, j)}
  <2>1. ASSUME K # {} PROVE FALSE
    <3>1. PICK j \in K : \A m \in K : j <= m
      <4>1. K \in SUBSET (0 .. w)
        OBVIOUS
      <4> HIDE DEF K
      <4> QED
        BY <1>1, <2>1, <4>1, LeastNumber
    <3>2. j # 0 /\ j \in 1 .. w
      BY <1>1, <1>5
    <3>3. j - 1 \in 0 .. w /\ j - 1 < j
      BY <1>1, <3>2
    <3>4. Done(i, j - 1)
      BY <1>1, <3>1, <3>3
    <3> QED
      BY <1>2, <3>2, <3>4
  <2> QED
    BY <1>1, <2>1
<1>6. \A i \in 1 .. n : Done(i, 0)
  <2> DEFINE K == {i \in 1 .. n : ~Done(i, 0)}
  <2>1. ASSUME K # {} PROVE FALSE
    <3>1. PICK i \in K : \A m \in K : i <= m
      <4>1. K \in SUBSET (0 .. n)
        BY <1>1
      <4> HIDE DEF K
      <4> QED
        BY <1>1, <2>1, <4>1, LeastNumber
    <3>2. i # 1
      BY <1>3
    <3>3. i - 1 \in 1 .. n /\ i - 1 < i /\ (i - 1) + 1 = i
      BY <1>1, <3>2
    <3>4. Done(i - 1, 0)
      BY <1>1, <3>1, <3>3
    <3> QED
      BY <1>4, <1>5, <3>3, <3>4
  <2> QED
    BY <2>1
<1>7. Done(n, w)
  BY <1>1, <1>5, <1>6
<1> QED
  BY <1>7, AnswerIs DEF Done, n, w

\* A row that is accepted has in each column what stood under its tag, or a blank.
LEMMA RowReads ==
  ASSUME NEW S, \A t \in S : t.tag \in Int, NEW R \in RowsOver(S), Rising(R), NEW k \in DOMAIN R, NEW width,
         ~rejectionReason(R[k], width)
  PROVE  /\ \A p \in DOMAIN R[k] : /\ R[k][p].tag \in 1 .. width
                                   /\ Columns(R[k], width)[R[k][p].tag] = R[k][p].value
         /\ \A c \in 1 .. width : (\A p \in DOMAIN R[k] : R[k][p].tag # c) => Columns(R[k], width)[c] = Blank
         /\ DOMAIN Columns(R[k], width) = 1 .. width
<1> DEFINE row == R[k]
<1>1. row \in Seq(S) /\ \A p \in DOMAIN row : row[p].tag \in Int /\ p \in Int
  BY DEF RowsOver
<1>2. \A p, r \in DOMAIN row : p < r => row[p].tag < row[r].tag
  BY DEF Rising
<1>3. \A p, r \in DOMAIN row : row[p].tag = row[r].tag => p = r
  BY <1>1, <1>2
<1>4. \A p \in DOMAIN row : row[p].tag \in 1 .. width
  BY DEF rejectionReason
<1> HIDE DEF row
<1>5. ASSUME NEW p \in DOMAIN row PROVE Columns(row, width)[row[p].tag] = row[p].value
  <2>1. (CHOOSE r \in DOMAIN row : row[r].tag = row[p].tag) = p
    BY <1>3
  <2> QED
    BY <1>4, <2>1 DEF Columns
<1> QED
  BY <1>4, <1>5 DEF row, Columns

\* A table is its rows, and a row its cells.
LEMMA TableListed ==
  ASSUME NEW q \in Wires
  PROVE  /\ q.table = [i \in DOMAIN q.table |-> q.table[i]]
         /\ \A i \in DOMAIN q.table : q.table[i] = [c \in DOMAIN q.table[i] |-> q.table[i][c]]
<1> DEFINE S == UNION {Range(row) : row \in Range(q.table)}
<1>1. q.table \in Seq(Seq(S))
  BY TablesAssumption DEF Wires
<1> HIDE DEF S
<1> QED
  BY <1>1

\* Blank fields, and texts that contain our own tags, move no amount.
THEOREM AmountsStayInPlace == Asked => []AmountsNeverShift
<1>1. asked \in Questions => AmountsNeverShift
  <2> SUFFICES ASSUME asked \in Questions, asked # None, asked.about = "wire" PROVE AmountsNeverShift
    BY DEF AmountsNeverShift
  <2> DEFINE q == asked
             n == Len(q.table)
             w == Width(q)
             H == Home(q)
             R == Cut(Answer(q.table, q.stray, q.omits))
             rejected == {k \in DOMAIN R : rejectionReason(R[k], w)}
             rows == [k \in DOMAIN R \ rejected |-> Columns(R[k], w)]
             Where(a) == {x \in (DOMAIN rows) \X (DOMAIN q.table[1]) : rows[x[1]][x[2]] = a}
  <2>1. q \in Wires
    BY DEF Questions, Gates, Ageings, Charts, Recoveries
  <2>2. /\ n \in Nat \ {0} /\ DOMAIN q.table = 1 .. n /\ w \in Nat \ {0} /\ H \in 1 .. w /\ 1 \in DOMAIN q.table
        /\ \A k \in DOMAIN q.table : DOMAIN q.table[k] = 1 .. w
        /\ \A k \in DOMAIN q.table : q.table[k][H] \in Amounts
    <3>1. /\ Len(q.table) \in Nat \ {0} /\ DOMAIN q.table = 1 .. Len(q.table)
          /\ Width(q) \in Nat \ {0} /\ Home(q) \in 1 .. Width(q)
          /\ \A k \in DOMAIN q.table : DOMAIN q.table[k] = 1 .. Width(q)
      BY <2>1, TableIs
    <3>2. \A k \in DOMAIN q.table : q.table[k][Home(q)] \in Amounts
      BY <2>1, <3>1, TableIs
    <3> QED
      BY <3>1, <3>2
  <2>3. ReadTo(q, R, n, w)
    BY <2>1, AnswerRead
  <2>4. xmlTagResponseToRows(Answer(q.table, q.stray, q.omits), w) = IF rejected # {} THEN Refused ELSE rows
    BY DEF xmlTagResponseToRows, parseTagRows
  <2>5. ASSUME rejected = {}
        PROVE  /\ \A k \in DOMAIN q.table : \E i \in DOMAIN rows : Where(q.table[k][H]) = {<<i, H>>}
               /\ q.stray.column \in {0, 1} =>
                    /\ Len(rows) = n
                    /\ \A i \in DOMAIN rows : rows[i][H] = q.table[i][H]
               /\ q.stray = NoStray => rows = q.table
    <3>1. /\ R \in RowsOver(Tokens(q)) /\ Rising(R) /\ Printed1st(q, R, n, w)
          /\ q.stray.column \in {0, 1} => Condemned(R, w) \/ Kept(q, R, n, w)
      BY <2>3 DEF ReadTo
    <3>2. \A t \in Tokens(q) : t.tag \in Int
      BY DEF Tokens
    <3> HIDE DEF R
    <3>3. \A k \in DOMAIN R : ~rejectionReason(R[k], w)
      BY <2>5
    <3>4. DOMAIN rows = DOMAIN R /\ \A k \in DOMAIN R : rows[k] = Columns(R[k], w)
      BY <2>5
    <3>5. DOMAIN R = 1 .. Len(R) /\ Len(R) \in Nat
      BY <3>1 DEF RowsOver
    <3> HIDE DEF rejected, rows
    <3>6. ASSUME NEW k \in DOMAIN R
          PROVE  /\ \A p \in DOMAIN R[k] : R[k][p].tag \in 1 .. w /\ rows[k][R[k][p].tag] = R[k][p].value
                 /\ \A c \in 1 .. w : (\A p \in DOMAIN R[k] : R[k][p].tag # c) => rows[k][c] = Blank
                 /\ DOMAIN rows[k] = 1 .. w
      <4>1. ~rejectionReason(R[k], w) /\ rows[k] = Columns(R[k], w)
        BY <3>3, <3>4
      <4> HIDE DEF w
      <4> QED
        BY <3>1, <3>2, <4>1, RowReads
    <3>7. ~Condemned(R, w)
      BY <3>3 DEF Condemned, rejectionReason
    <3> HIDE DEF w, n, H
    <3>8. ASSUME NEW k \in DOMAIN q.table PROVE \E i \in DOMAIN rows : Where(q.table[k][H]) = {<<i, H>>}
      <4> DEFINE a == q.table[k][H]
      <4>1. OnceAt(R, a, H)
        <5>1. k < n \/ (k = n /\ w >= H)
          BY <2>2
        <5> QED
          BY <3>1, <5>1 DEF Printed1st, H
      <4>2. a \in Amounts /\ a # Blank
        BY <2>2, TablesAssumption
      <4> HIDE DEF a
      <4>3. PICK x, y : /\ At(R, x, y) /\ R[x][y].tag = H /\ R[x][y].value = a
                        /\ \A i, p : At(R, i, p) /\ R[i][p].value = a => i = x /\ p = y
        BY <4>1 DEF OnceAt
      <4>4. x \in DOMAIN rows /\ rows[x][H] = a
        BY <3>4, <3>6, <4>3 DEF At
      <4>5. ASSUME NEW i \in DOMAIN rows, NEW c \in 1 .. w, rows[i][c] = a PROVE i = x /\ c = H
        <5>1. PICK p \in DOMAIN R[i] : R[i][p].tag = c
          BY <3>4, <3>6, <4>2, <4>5
        <5>2. At(R, i, p) /\ R[i][p].value = a
          BY <3>4, <3>6, <4>5, <5>1 DEF At
        <5> QED
          BY <4>3, <5>1, <5>2
      <4>6. DOMAIN q.table[1] = 1 .. w /\ H \in 1 .. w
        BY <2>2
      <4>7. Where(a) = {<<x, H>>}
        <5>1. <<x, H>> \in Where(a)
          BY <4>4, <4>6
        <5>2. ASSUME NEW z \in Where(a) PROVE z = <<x, H>>
          <6>1. z[1] \in DOMAIN rows /\ z[2] \in 1 .. w /\ z = <<z[1], z[2]>> /\ rows[z[1]][z[2]] = a
            BY <4>6
          <6> QED
            BY <4>5, <6>1
        <5> QED
          BY <5>1, <5>2
      <4> HIDE DEF Where
      <4> QED
        BY <4>4, <4>7 DEF a
    <3>9. ASSUME q.stray.column \in {0, 1}
          PROVE  Len(R) = n /\ \A k \in 1 .. n : Complete(q, R[k], k, w)
      <4>1. Kept(q, R, n, w)
        BY <3>1, <3>7, <3>9
      <4>2. ~(w < H)
        BY <2>2
      <4>3. Len(R) = n /\ Complete(q, R[n], n, w) /\ \A k \in 1 .. n - 1 : Complete(q, R[k], k, w)
        BY <4>1, <4>2 DEF Kept, w, H
      <4>4. \A k \in 1 .. n : k \in 1 .. n - 1 \/ k = n
        BY <2>2
      <4> QED
        BY <4>3, <4>4
    <3>10. ASSUME q.stray.column \in {0, 1}
           PROVE  Len(rows) = n /\ \A i \in DOMAIN rows : rows[i][H] = q.table[i][H]
      <4>1. DOMAIN rows = 1 .. n
        BY <3>4, <3>5, <3>9, <3>10
      <4>2. Len(rows) = n
        BY <2>2, <4>1
      <4>3. ASSUME NEW i \in DOMAIN rows PROVE rows[i][H] = q.table[i][H]
        <5>1. i \in 1 .. n /\ i \in DOMAIN R
          BY <3>4, <4>1
        <5>2. Complete(q, R[i], i, w) /\ w >= H
          BY <2>2, <3>9, <3>10, <5>1
        <5>3. PICK p \in DOMAIN R[i] : R[i][p] = [tag |-> H, value |-> q.table[i][H]]
          BY <5>2 DEF Complete, H
        <5>4. R[i][p].tag = H /\ R[i][p].value = q.table[i][H]
          BY <5>3
        <5> QED
          BY <3>6, <5>1, <5>4
      <4> QED
        BY <4>2, <4>3
    <3>11. ASSUME q.stray = NoStray PROVE rows = q.table
      <4>1. q.stray.column \in {0, 1}
        BY <3>11 DEF NoStray
      <4>2. DOMAIN rows = 1 .. n
        BY <3>4, <3>5, <3>9, <4>1
      <4>3. ASSUME NEW i \in 1 .. n PROVE rows[i] = q.table[i]
        <5>1. i \in DOMAIN R /\ i \in DOMAIN q.table
          BY <2>2, <3>4, <4>2
        <5>2. Complete(q, R[i], i, w)
          BY <3>9, <4>1
        <5>3. /\ \A p \in DOMAIN R[i] : R[i][p].tag \in 1 .. w /\ R[i][p].value = q.table[i][R[i][p].tag]
              /\ \A l \in 1 .. w : q.table[i][l] # Blank => \E p \in DOMAIN R[i] : R[i][p].tag = l
          BY <3>11, <5>2 DEF Complete
        <5>4. ASSUME NEW c \in 1 .. w PROVE rows[i][c] = q.table[i][c]
          <6>1. CASE \E p \in DOMAIN R[i] : R[i][p].tag = c
            BY <3>6, <5>1, <5>3, <6>1
          <6>2. CASE \A p \in DOMAIN R[i] : R[i][p].tag # c
            BY <3>6, <5>1, <5>3, <6>2
          <6> QED
            BY <6>1, <6>2
        <5>5. rows[i] = [c \in 1 .. w |-> rows[i][c]]
          BY <3>4, <5>1 DEF Columns
        <5>6. q.table[i] = [c \in 1 .. w |-> q.table[i][c]]
          BY <2>1, <2>2, <5>1, TableListed
        <5> QED
          BY <5>4, <5>5, <5>6
      <4>4. rows = [i \in 1 .. n |-> rows[i]]
        BY <4>2 DEF rows
      <4>5. q.table = [i \in 1 .. n |-> q.table[i]]
        BY <2>1, <2>2, TableListed
      <4> QED
        BY <4>3, <4>4, <4>5
    <3> QED
      BY <3>8, <3>10, <3>11
  <2> HIDE DEF R, rejected, rows
  <2> QED
    BY <2>4, <2>5 DEF AmountsNeverShift, Width, Home
<1>2. asked \in Questions /\ UNCHANGED asked => (asked \in Questions)'
  OBVIOUS
<1> QED
  BY <1>1, <1>2, PTL DEF Asked
=============================================================================
