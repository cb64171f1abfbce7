---------------------------- MODULE OfflineThreads ----------------------------
(***************************************************************************)
(* The three stores of the offline core that take no lock, used by several *)
(* threads at once.  They share nothing, so a behaviour exercises one of   *)
(* them: cast says which.                                                  *)
(***************************************************************************)
EXTENDS AuditLedger, SwitchThreads, ApprovalThreads

VARIABLE cast

threadVars == <<cast, auditLedgerVars, switchVars, approvalVars>>

Init ==
  /\ cast \in {"ledger", "switch", "approval"}
  /\ AuditInit /\ SwitchInit /\ ApprovalInit

LedgerThreadStep ==
  \/ \E t \in Writers : AppendStep(t)
  \/ \E e \in Exporters : ExportStep(e)
  \/ Edit

Next ==
  /\ \/ /\ cast = "ledger" /\ LedgerThreadStep
        /\ UNCHANGED <<switchVars, approvalVars>>
     \/ /\ cast = "switch" /\ SwitchThreadStep
        /\ UNCHANGED <<auditLedgerVars, approvalVars>>
     \/ /\ cast = "approval" /\ ApprovalThreadStep
        /\ UNCHANGED <<auditLedgerVars, switchVars>>
  /\ UNCHANGED cast

Spec == Init /\ [][Next]_threadVars
=============================================================================
