---------------------------- MODULE MCSyncCycle ----------------------------
(***************************************************************************)
(* Instances of SyncCycle.  Every behaviour has one of the budgets of its  *)
(* run: what may disturb it, and how often.                                *)
(***************************************************************************)
EXTENDS SyncCycle, TLC

Quiet == [kind \in Disturbances |-> 0]

\* One section that a master edit changes too and one that it does not.
MCSections == {"cash_bank", "ageing_receivable"}
MCMasterShows == {"cash_bank"}

\* "company" comes from the probe and not from the extraction.
ProbeSections == {"company", "cash_bank"}
OneSection == {"cash_bank"}

\* Lost answers, late and failed uploads, refusals up to the abandoned row,
\* crashes and restarts, restored backups, a clock set back, midnight, repairs.
SafetyBudgets ==
  { ("voucher" :> 2 @@ "ackLost" :> 1 @@ "late" :> 1 @@ "unreachable" :> 1) @@ Quiet,
    ("voucher" :> 1 @@ "master" :> 1 @@ "refuse" :> 1 @@ "unreachable" :> 2) @@ Quiet,
    ("voucher" :> 2 @@ "crash" :> 1 @@ "close" :> 1 @@ "ackLost" :> 1) @@ Quiet,
    ("voucher" :> 2 @@ "backup" :> 1 @@ "restore" :> 1 @@ "ackLost" :> 1) @@ Quiet,
    ("voucher" :> 2 @@ "clockBack" :> 1 @@ "ackLost" :> 1 @@ "unreachable" :> 1) @@ Quiet,
    ("voucher" :> 2 @@ "midnight" :> 1 @@ "unreachable" :> 1 @@ "refuse" :> 1) @@ Quiet,
    ("voucher" :> 2 @@ "rebuild" :> 2 @@ "late" :> 1) @@ Quiet }

\* Failed uploads of two companies that share the loop, the outbox and the drain.
CompaniesBudgets ==
  { ("voucher" :> 1 @@ "master" :> 1 @@ "refuse" :> 1) @@ Quiet,
    ("voucher" :> 1 @@ "late" :> 1 @@ "close" :> 1) @@ Quiet,
    ("voucher" :> 1 @@ "crash" :> 1 @@ "ackLost" :> 1) @@ Quiet,
    ("unreachable" :> 2 @@ "refuse" :> 1) @@ Quiet }

\* The owner's repair button: between pulls and in the midst of one, whole or cut
\* short, with what the gate cannot see before it, between and after.
RepairsBudgets ==
  { ("voucher" :> 1 @@ "rebuild" :> 1 @@ "ackLost" :> 1) @@ Quiet,
    ("rebuild" :> 1 @@ "halfRebuild" :> 1 @@ "crash" :> 1) @@ Quiet,
    ("voucher" :> 1 @@ "revert" :> 1 @@ "rebuild" :> 1) @@ Quiet,
    ("delete" :> 1 @@ "rebuild" :> 1 @@ "refuse" :> 1) @@ Quiet,
    ("voucher" :> 1 @@ "midRebuild" :> 1 @@ "rebuild" :> 1) @@ Quiet }

TogetherBudgets == CompaniesBudgets \cup RepairsBudgets

RevertsBudgets == { ("voucher" :> 1 @@ "revert" :> 1 @@ "unreachable" :> 1) @@ Quiet }

BlindBudgets == { ("voucher" :> 1) @@ Quiet }

QuietBudgets == { Quiet }
=============================================================================
