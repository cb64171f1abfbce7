----------------------------- MODULE AuditTrail -----------------------------
(***************************************************************************)
(* What the gateway sees of platform_core/audit_ledger.py: append() either *)
(* returns, with the row in memory and in the JSONL file, or raises.       *)
(* append() adds the row to the in-memory list before it writes the file,  *)
(* so a raise may leave the row in memory only; a backend that refuses the *)
(* write outright leaves it nowhere.                                       *)
(***************************************************************************)
CONSTANT AuditFaults   \* the ways an append may raise: "refused", "file"

VARIABLES
  records,   \* rows in the in-memory list
  journal    \* rows in the JSONL file, the durable copy

auditVars == <<records, journal>>

AuditAssumption == AuditFaults \subseteq {"refused", "file"}

ASSUME AuditAssumption

AuditInit == records = {} /\ journal = {}

Appends(row) ==
  /\ records' = records \cup {row}
  /\ journal' = journal \cup {row}

AppendRaises(row) ==
  /\ \E fault \in AuditFaults :
       records' = IF fault = "file" THEN records \cup {row} ELSE records
  /\ UNCHANGED journal
=============================================================================
