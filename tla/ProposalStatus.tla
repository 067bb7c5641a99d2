--------------------------- MODULE ProposalStatus ---------------------------
(* The status vocabulary of a proposal (models.py, ProposalStatus) and the    *)
(* status classes the workflow tests for.  DRAFT, PENDING ... are the enum's  *)
(* members; PENDING stands for PENDING_APPROVAL.  No code path of the data    *)
(* workflow ever assigns EXPIRED, it is only tested for.                      *)

Status == {"DRAFT", "PENDING", "APPROVED", "APPLYING", "COMMITTED",
           "FAILED", "STALE", "REJECTED", "EXPIRED"}

\* Holders whose dead lease any proposal may take over (acquire_apply_lease).
TerminalHolder == {"COMMITTED", "FAILED", "STALE", "REJECTED", "EXPIRED"}

\* ProposalService.edit accepts a proposal in these statuses only.
Editable == Status \ {"APPROVED", "APPLYING", "COMMITTED", "REJECTED", "EXPIRED"}

\* ProposalService.reject accepts a proposal in these statuses only.
Rejectable == Status \ {"APPLYING", "COMMITTED", "REJECTED"}

\* _redeliver_existing_receipt and _apply_under_lease accept these.
Resumable == {"APPROVED", "APPLYING"}
=============================================================================
