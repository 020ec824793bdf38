------------------------------ MODULE SyncGate ------------------------------
(***************************************************************************)
(* The AlterID gate of packages/sync/src/gate.ts: from the watermark kept  *)
(* for a company and the AlterIDs Tally just reported, which sections must *)
(* be pulled.  A watermark is a record [guid, mst, vch]; an AlterID is a   *)
(* JavaScript number, so it may be NaN, which no comparison orders.        *)
(***************************************************************************)
EXTENDS Integers

CONSTANTS NaN,    \* the number a garbled probe column parses to
          None    \* "no row": what getWatermark returns for a new company

SECTIONS == {"company", "group_balance", "cash_bank", "duties_taxes",
             "ageing_receivable", "ageing_payable", "stock_value",
             "period_revenue"}

VOUCHER_SECTIONS == SECTIONS \ {"company"}

MASTER_SECTIONS == {"company", "group_balance", "cash_bank", "duties_taxes",
                    "stock_value"}

\* JavaScript's < on numbers: false as soon as either side is NaN.
Less(a, b) == a # NaN /\ b # NaN /\ a < b

usable(n) == n # NaN /\ n >= 0

Usable(w) == usable(w.mst) /\ usable(w.vch)

\* A mutant: the naive reading of the counters, in which one that moved
\* backward is merely "not newer".
VoidForwardOnly(stored, current) ==
  stored = None \/ ~Usable(current) \/ ~Usable(stored) \/ stored.guid # current.guid

Void(stored, current) ==
  \/ stored = None
  \/ ~Usable(current) \/ ~Usable(stored)
  \/ stored.guid # current.guid
  \/ Less(current.mst, stored.mst) \/ Less(current.vch, stored.vch)

Full    == [action |-> "full",    sections |-> SECTIONS]
Skip    == [action |-> "skip",    sections |-> {}]
Partial(sections) == [action |-> "partial", sections |-> sections]

decideGate(stored, current) ==
  IF Void(stored, current) THEN Full
  ELSE LET mastersMoved  == Less(stored.mst, current.mst)
           vouchersMoved == Less(stored.vch, current.vch)
       IN  CASE mastersMoved /\ vouchersMoved  -> Full
             [] mastersMoved /\ ~vouchersMoved -> Partial(MASTER_SECTIONS)
             [] ~mastersMoved /\ vouchersMoved -> Partial(VOUCHER_SECTIONS)
             [] OTHER                          -> Skip

shouldUpload(storedHash, currentHash) == storedHash # currentHash
=============================================================================
