----------------------------- MODULE AuditLedger -----------------------------
(***************************************************************************)
(* The hash-chained audit ledger (platform_core/audit_ledger.py) as it is  *)
(* when several threads use one instance: append() and export_worm() take  *)
(* no lock, so each of their reads and writes is a step of its own.        *)
(* (AuditTrail is append() as the gateway, a single caller, sees it.)      *)
(*                                                                         *)
(* SHA-256 is taken to be injective: the hash of a record is the record's  *)
(* own content, <<seq, prev_hash, body>>.                                  *)
(***************************************************************************)
EXTENDS Naturals, SequencesExt

CONSTANTS
  Writers,    \* one append() each; the body of its record is the writer
  Exporters,  \* one export_worm() each
  Edited,     \* the body of a record edited in place
  MaxEdits    \* bound on the edits

VARIABLES
  recs,     \* _records: sequence of [seq, prev, body, hash]
  frozen,   \* _frozen_hashes
  lines,    \* the JSONL file
  w,        \* [Writers -> [pc, seq, prev]], append() with its locals
  x,        \* [Exporters -> [pc, records, head, valid]], export_worm()
  edits,    \* history: the indices of the records edited in place
  overlap   \* history: whether two appends were under way at once

\* An edit changes the body it edits.
LedgerAssumption == Edited \notin Writers

ASSUME LedgerAssumption

auditLedgerVars == <<recs, frozen, lines, w, x, edits, overlap>>

NoHash == <<>>   \* the empty string

ComputeHash(r) == <<r.seq, r.prev, r.body>>

HeadHash == IF recs = <<>> THEN NoHash ELSE Last(recs).hash

AuditInit ==
  /\ recs = <<>> /\ frozen = <<>> /\ lines = <<>>
  /\ w = [t \in Writers |-> [pc |-> "idle", seq |-> 0, prev |-> NoHash]]
  /\ x = [e \in Exporters |-> [pc |-> "idle", records |-> <<>>, head |-> NoHash,
                               valid |-> "unread"]]
  /\ edits = {} /\ overlap = FALSE

Appending(t) == w[t].pc \notin {"idle", "returned", "raised"}

-----------------------------------------------------------------------------
\* append()

ReadLength(t) ==
  /\ w[t].pc = "idle"
  /\ w' = [w EXCEPT ![t].pc = "length", ![t].seq = Len(recs)]
  /\ overlap' = (overlap \/ \E u \in Writers : Appending(u))
  /\ UNCHANGED <<recs, frozen, lines, x, edits>>

ReadHead(t) ==
  /\ w[t].pc = "length"
  /\ w' = [w EXCEPT ![t].pc = "head", ![t].prev = HeadHash]
  /\ UNCHANGED <<recs, frozen, lines, x, edits, overlap>>

RecordOf(t) ==
  LET r == [seq |-> w[t].seq, prev |-> w[t].prev, body |-> t] IN
  [seq |-> r.seq, prev |-> r.prev, body |-> r.body, hash |-> ComputeHash(r)]

\* Variant: the record is stored at its seq instead of appended.
AppendRecord_AtSeq(t) ==
  /\ w[t].pc = "head"
  /\ recs' = SubSeq(recs, 1, w[t].seq) \o <<RecordOf(t)>>
  /\ w' = [w EXCEPT ![t].pc = "recorded"]
  /\ UNCHANGED <<frozen, lines, x, edits, overlap>>

AppendRecord(t) ==
  /\ w[t].pc = "head"
  /\ recs' = Append(recs, RecordOf(t))
  /\ w' = [w EXCEPT ![t].pc = "recorded"]
  /\ UNCHANGED <<frozen, lines, x, edits, overlap>>

Freeze(t) ==
  /\ w[t].pc = "recorded"
  /\ frozen' = Append(frozen, RecordOf(t).hash)
  /\ w' = [w EXCEPT ![t].pc = "frozen"]
  /\ UNCHANGED <<recs, lines, x, edits, overlap>>

\* The file, or an error of it that append() lets through.
WriteLine(t) ==
  /\ w[t].pc = "frozen"
  /\ \/ /\ lines' = Append(lines, RecordOf(t))
        /\ w' = [w EXCEPT ![t].pc = "returned"]
     \/ w' = [w EXCEPT ![t].pc = "raised"] /\ UNCHANGED lines
  /\ UNCHANGED <<recs, frozen, x, edits, overlap>>

-----------------------------------------------------------------------------
\* verify_chain().  It compares with _frozen_hashes by index, and raises an
\* IndexError when a concurrent append has not frozen its record yet.

Linked(i) ==
  /\ recs[i].seq = i - 1
  /\ recs[i].prev = IF i = 1 THEN NoHash ELSE recs[i - 1].hash
  /\ recs[i].hash = ComputeHash(recs[i])

\* Variant: the frozen hashes are not compared.
Sound_Recomputed(i) == Linked(i)

Sound(i) == Linked(i) /\ recs[i].hash = frozen[i]

VerifyChain ==
  LET ahead == Min({Len(recs), Len(frozen)}) IN
  IF \/ \E i \in 1..ahead : ~Sound(i)
     \/ ahead < Len(recs) /\ ~Linked(ahead + 1)
    THEN "false"
  ELSE IF ahead < Len(recs) THEN "IndexError" ELSE "true"

\* export_worm(): the records, then the head, then the verdict, then the file.
\* (The digest is over the exported records: it follows them.)
Snapshot(e) ==
  /\ x[e].pc = "idle"
  /\ x' = [x EXCEPT ![e].pc = "copied", ![e].records = recs]
  /\ UNCHANGED <<recs, frozen, lines, w, edits, overlap>>

\* Variant: the head is the last frozen hash.
SealHead_Frozen(e) ==
  /\ x[e].pc = "copied"
  /\ x' = [x EXCEPT ![e].pc = "headed",
                    ![e].head = IF frozen = <<>> THEN NoHash ELSE Last(frozen)]
  /\ UNCHANGED <<recs, frozen, lines, w, edits, overlap>>

SealHead(e) ==
  /\ x[e].pc = "copied"
  /\ x' = [x EXCEPT ![e].pc = "headed", ![e].head = HeadHash]
  /\ UNCHANGED <<recs, frozen, lines, w, edits, overlap>>

SealVerdict(e) ==
  /\ x[e].pc = "headed"
  /\ x' = [x EXCEPT ![e].valid = VerifyChain,
                    ![e].pc = IF VerifyChain = "IndexError" THEN "raised" ELSE "sealed"]
  /\ UNCHANGED <<recs, frozen, lines, w, edits, overlap>>

\* Someone edits a record object in place (try_mutate is the API that refuses
\* to), at rest; a careful one recomputes its hash as well.
Edit ==
  /\ \A t \in Writers : ~Appending(t)
  /\ Cardinality(edits) < MaxEdits
  /\ \E i \in DOMAIN recs \ edits, rehash \in BOOLEAN :
       LET r == [recs[i] EXCEPT !.body = Edited] IN
       /\ recs' = [recs EXCEPT ![i] =
                     IF rehash THEN [r EXCEPT !.hash = ComputeHash(r)] ELSE r]
       /\ edits' = edits \cup {i}
  /\ UNCHANGED <<frozen, lines, w, x, overlap>>

AppendStep(t) ==
  ReadLength(t) \/ ReadHead(t) \/ AppendRecord(t) \/ Freeze(t) \/ WriteLine(t)

ExportStep(e) == Snapshot(e) \/ SealHead(e) \/ SealVerdict(e)

-----------------------------------------------------------------------------
\* Threads cannot lose a record: what append() returned is in the ledger, is
\* frozen and is on file (audit_ledger.py:79, no lock).
ReturnedIsKept ==
  \A t \in Writers :
    w[t].pc = "returned" =>
      /\ \E i \in DOMAIN recs : recs[i].seq = w[t].seq
                                /\ (recs[i].body = t \/ i \in edits)
      /\ RecordOf(t).hash \in Range(frozen)
      /\ RecordOf(t) \in Range(lines)

\* verify_chain raises no false alarm and misses no edit: "false" means an edit
\* or two appends that overlapped, and an edit never verifies.
VerifyIsTruthful ==
  /\ VerifyChain = "false" => edits # {} \/ overlap
  /\ edits # {} => VerifyChain # "true"

\* The head a sealed export names, read after its records, is not older than they
\* are, unless appends overlapped or the ledger was edited (audit_ledger.py:137).
SealCoversItsRecords ==
  \A e \in Exporters : x[e].pc = "sealed" =>
    \/ x[e].records = <<>>
    \/ edits # {} \/ overlap
    \/ x[e].head # NoHash /\ x[e].head[1] >= Last(x[e].records).seq
=============================================================================
