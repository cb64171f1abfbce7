----------------------------- MODULE ThreadProofs -----------------------------
(***************************************************************************)
(* What the three offline stores that take no lock promise to any number   *)
(* of threads.                                                             *)
(***************************************************************************)
EXTENDS OfflineThreads, FiniteSetTheorems, SequenceTheorems, TLAPS

(***************************************************************************)
(* The kill switch.  What a change past each point has met, and what the   *)
(* field of the engaging actor holds after the last engage() that named it. *)
(***************************************************************************)
SwitchStages == {"idle", "engaged", "named", "tested", "released", "logged", "audited",
                 "returned", "refused"}

\* disengage() has taken the flag down and not yet cleared the name.
PastDown(d) == d \in Disengages /\ pc[d] \in {"released", "logged", "audited"}

\* The name of engage() e was cleared by a disengage() that it overlapped.
Cleared(e) == \E d \in Disengages : pc[d] = "returned" /\ <<e, d>> \in met

SwitchTypes == pc \in [Changes -> SwitchStages]

\* Who is where, and what the flag's engage() calls have met.
Meetings ==
  /\ \A c \in Changes :
       /\ pc[c] \in {"engaged", "named"} => c \in Engages
       /\ pc[c] \in {"tested", "released"} => c \in Disengages
  /\ \A e \in up : e \in Engages /\ pc[e] # "idle"
  /\ \A e \in Engages, d \in Disengages : Under(e) /\ Under(d) => <<e, d>> \in met
  /\ \A e \in up, d \in Disengages : PastDown(d) => <<e, d>> \in met

\* What follows for the engage() that named itself last.
LastNamed ==
  namer \in Changes =>
    /\ namer \in Engages /\ pc[namer] \notin {"idle", "engaged"}
    /\ namer \in up => engagedBy = Actor(namer) \/ Cleared(namer)
    /\ \A c \in Disengages :
         pc[c] = "tested" /\ namer \in up /\ Actor(namer) = Actor(c) =>
           <<namer, c>> \in met \/ Cleared(namer)

SwitchInv ==
  SwitchTypes /\ Meetings /\ namer \in Changes \cup {NoOperator} /\ LastNamed

\* No change is both an engage() and a disengage().
LEMMA EitherKind ==
  /\ Engages \cap Disengages = {} /\ Engages \subseteq Changes /\ Disengages \subseteq Changes
  /\ Engages' = Engages /\ Disengages' = Disengages
  BY DEF Engages, Disengages

LEMMA InitSwitch == SwitchInit => SwitchInv
<1> SUFFICES ASSUME SwitchInit PROVE SwitchInv
  OBVIOUS
<1>1. SwitchTypes
  BY SwitchAssumption DEF SwitchInit, SwitchTypes, SwitchStages
<1>2. \A c \in Changes : pc[c] = "idle"
  BY DEF SwitchInit
<1> QED
  BY <1>1, <1>2, SwitchAssumption, EitherKind
     DEF SwitchInit, SwitchInv, Meetings, LastNamed, Under, PastDown

\* A change that moves leaves the others where they are.
LEMMA GoesMovesOne ==
  ASSUME SwitchTypes, NEW c \in Changes, NEW from, NEW to \in SwitchStages,
         Goes(c, from, to)
  PROVE  /\ pc[c] = from /\ pc'[c] = to
         /\ pc' \in [Changes -> SwitchStages]
         /\ \A d \in Changes \ {c} : pc'[d] = pc[d]
  BY DEF SwitchTypes, Goes

LEMMA EngageInv ==
  ASSUME SwitchInv, NEW c \in Changes, Engage(c)
  PROVE  SwitchInv'
<1> USE EitherKind DEF SwitchInv
<1>1. /\ pc[c] = "idle" /\ pc'[c] = "engaged"
      /\ pc' \in [Changes -> SwitchStages]
      /\ \A d \in Changes \ {c} : pc'[d] = pc[d]
  BY GoesMovesOne DEF Engage, SwitchStages
<1>2. /\ c \in Engages /\ up' = up \cup {c} /\ UNCHANGED <<engagedBy, namer>>
      /\ met' = met \cup {<<c, d>> : d \in {r \in Disengages : Under(r)}}
  BY DEF Engage
<1>3. met \subseteq met' /\ \A d \in Disengages : Under(d) => <<c, d>> \in met'
  BY <1>2
<1>4. /\ \A d \in Disengages : Under(d)' = Under(d) /\ PastDown(d)' = PastDown(d)
      /\ \A d \in Disengages : PastDown(d) => Under(d)
      /\ \A e \in Engages \ {c} : Under(e)' = Under(e)
  BY <1>1, <1>2 DEF Under, PastDown
<1>5. Meetings'
  BY <1>1, <1>2, <1>3, <1>4 DEF Meetings
<1>6. LastNamed'
  BY <1>1, <1>2, <1>3 DEF LastNamed, Cleared, Actor
<1> QED
  BY <1>1, <1>2, <1>5, <1>6 DEF SwitchTypes

\* The engage() that names itself meets whoever is past its test.
LEMMA NameEngagerInv ==
  ASSUME SwitchInv, NEW c \in Changes, NameEngager(c)
  PROVE  SwitchInv'
<1> USE EitherKind DEF SwitchInv
<1>1. /\ pc[c] = "engaged" /\ pc'[c] = "named"
      /\ pc' \in [Changes -> SwitchStages]
      /\ \A d \in Changes \ {c} : pc'[d] = pc[d]
  BY GoesMovesOne DEF NameEngager, SwitchStages
<1>2. /\ c \in Engages /\ engagedBy' = Actor(c) /\ namer' = c
      /\ UNCHANGED <<up, met>>
  BY <1>1 DEF NameEngager, Meetings
<1>3. \A d \in Changes : Under(d)' = Under(d) /\ PastDown(d)' = PastDown(d)
  BY <1>1, <1>2 DEF Under, PastDown
<1>4. Meetings'
  BY <1>1, <1>2, <1>3 DEF Meetings
<1>5. \A d \in Disengages : pc'[d] = "tested" => <<c, d>> \in met'
  BY <1>1, <1>2 DEF Meetings, Under
<1>6. LastNamed'
  BY <1>1, <1>2, <1>5 DEF LastNamed, Actor
<1> QED
  BY <1>1, <1>2, <1>4, <1>6 DEF SwitchTypes

\* A release that passes its test has met the engage() it could not compare with.
LEMMA TestReleaseInv ==
  ASSUME SwitchInv, NEW c \in Changes, TestRelease(c)
  PROVE  SwitchInv'
<1> USE EitherKind DEF SwitchInv
<1>1. c \in Disengages /\ UNCHANGED <<engagedBy, up, namer>>
  BY DEF TestRelease
<1>2. CASE Goes(c, "idle", "refused") /\ met' = met
  <2>1. /\ pc[c] = "idle" /\ pc'[c] = "refused"
        /\ pc' \in [Changes -> SwitchStages]
        /\ \A d \in Changes \ {c} : pc'[d] = pc[d]
    BY <1>2, GoesMovesOne DEF SwitchStages
  <2>2. \A d \in Changes : Under(d)' = Under(d) /\ PastDown(d)' = PastDown(d)
    BY <2>1 DEF Under, PastDown
  <2>3. Meetings'
    BY <1>1, <1>2, <2>1, <2>2 DEF Meetings
  <2>4. LastNamed'
    BY <1>1, <1>2, <2>1 DEF LastNamed, Cleared, Actor
  <2> QED
    BY <1>1, <2>1, <2>3, <2>4 DEF SwitchTypes
<1>3. CASE /\ Goes(c, "idle", "tested") /\ Actor(c) # engagedBy
           /\ met' = met \cup {<<e, c>> : e \in {n \in Engages : Under(n)}}
  <2>1. /\ pc[c] = "idle" /\ pc'[c] = "tested"
        /\ pc' \in [Changes -> SwitchStages]
        /\ \A d \in Changes \ {c} : pc'[d] = pc[d]
    BY <1>3, GoesMovesOne DEF SwitchStages
  <2>2. /\ \A e \in Engages : Under(e)' = Under(e)
        /\ \A d \in Disengages \ {c} : Under(d)' = Under(d)
        /\ \A d \in Disengages : PastDown(d)' = PastDown(d)
    BY <1>1, <2>1 DEF Under, PastDown
  <2>3. met \subseteq met' /\ \A e \in Engages : Under(e) => <<e, c>> \in met'
    BY <1>3
  <2>4. Meetings'
    BY <1>1, <2>1, <2>2, <2>3 DEF Meetings
  <2>5. Cleared(namer) => Cleared(namer)'
    BY <1>1, <2>1, <2>3 DEF Cleared
  <2>6. LastNamed'
    BY <1>1, <1>3, <2>1, <2>3, <2>5 DEF LastNamed, Actor
  <2> QED
    BY <1>1, <2>1, <2>4, <2>6 DEF SwitchTypes
<1> QED
  <2>1. CASE ~engaged \/ Actor(c) = engagedBy
    <3>1. Goes(c, "idle", "refused")
      BY <2>1 DEF TestRelease
    <3>2. pc'[c] = "refused"
      BY <3>1, GoesMovesOne DEF SwitchStages
    <3> QED
      BY <1>2, <3>1, <3>2 DEF TestRelease
  <2>2. CASE engaged /\ Actor(c) # engagedBy
    <3>1. Goes(c, "idle", "tested")
      BY <2>2 DEF TestRelease
    <3>2. pc'[c] = "tested"
      BY <3>1, GoesMovesOne DEF SwitchStages
    <3> QED
      BY <1>3, <2>2, <3>1, <3>2 DEF TestRelease
  <2> QED
    BY <2>1, <2>2

\* The flag is down: no engage() stands, whatever it met.
LEMMA TakeDownInv ==
  ASSUME SwitchInv, NEW c \in Changes, TakeDown(c)
  PROVE  SwitchInv'
<1> USE EitherKind DEF SwitchInv
<1>1. /\ pc[c] = "tested" /\ pc'[c] = "released"
      /\ pc' \in [Changes -> SwitchStages]
      /\ \A d \in Changes \ {c} : pc'[d] = pc[d]
  BY GoesMovesOne DEF TakeDown, SwitchStages
<1>2. c \in Disengages /\ up' = {} /\ UNCHANGED <<engagedBy, namer, met>>
  BY <1>1 DEF TakeDown, Meetings
<1>3. \A d \in Changes : Under(d)' = Under(d)
  BY <1>1 DEF Under
<1>4. Meetings'
  BY <1>1, <1>2, <1>3 DEF Meetings
<1>5. LastNamed'
  BY <1>1, <1>2 DEF LastNamed
<1> QED
  BY <1>1, <1>2, <1>4, <1>5 DEF SwitchTypes

\* The list and the audit row touch neither flag nor name.
LEMMA LogAndAuditInv ==
  ASSUME SwitchInv, NEW c \in Changes, LogChange(c) \/ AuditChange(c)
  PROVE  SwitchInv'
<1> USE EitherKind DEF SwitchInv
<1>1. PICK from \in {"named", "released", "logged"}, to \in {"logged", "audited"} :
        Goes(c, from, to)
  BY DEF LogChange, AuditChange
<1>2. /\ pc[c] = from /\ pc'[c] = to
      /\ pc' \in [Changes -> SwitchStages]
      /\ \A d \in Changes \ {c} : pc'[d] = pc[d]
  BY <1>1, GoesMovesOne DEF SwitchStages
<1>3. UNCHANGED <<engagedBy, up, namer, met>>
  BY DEF LogChange, AuditChange
<1>4. \A d \in Changes : Under(d)' = Under(d)
  BY <1>2 DEF Under
<1>5. \A d \in Changes : PastDown(d)' => PastDown(d)
  BY <1>2, <1>3 DEF PastDown, LogChange, AuditChange, Goes, Meetings
<1>6. Meetings'
  BY <1>2, <1>3, <1>4, <1>5 DEF Meetings
<1>7. LastNamed'
  BY <1>2, <1>3 DEF LastNamed, Cleared, Actor
<1> QED
  BY <1>2, <1>3, <1>6, <1>7 DEF SwitchTypes

\* A disengage() that clears the name met the engage() that stands: it had taken
\* the flag down before that engage() put it up again.
LEMMA FinishInv ==
  ASSUME SwitchInv, NEW c \in Changes, Finish(c)
  PROVE  SwitchInv'
<1> USE EitherKind DEF SwitchInv
<1>1. /\ pc[c] = "audited" /\ pc'[c] = "returned"
      /\ pc' \in [Changes -> SwitchStages]
      /\ \A d \in Changes \ {c} : pc'[d] = pc[d]
  BY GoesMovesOne DEF Finish, SwitchStages
<1>2. UNCHANGED <<up, namer, met>> /\ (c \notin Disengages => engagedBy' = engagedBy)
  BY DEF Finish
<1>3. \A d \in Changes : (Under(d)' => Under(d)) /\ (PastDown(d)' => PastDown(d))
  BY <1>1 DEF Under, PastDown
<1>4. Meetings'
  BY <1>1, <1>2, <1>3 DEF Meetings
<1>5. Cleared(namer) => Cleared(namer)'
  BY <1>1, <1>2 DEF Cleared
<1>6. c \in Disengages /\ namer \in up => Cleared(namer)'
  BY <1>1, <1>2 DEF Cleared, Meetings, PastDown
<1>7. LastNamed'
  BY <1>1, <1>2, <1>5, <1>6 DEF LastNamed, Actor
<1> QED
  BY <1>1, <1>2, <1>4, <1>7 DEF SwitchTypes

LEMMA SwitchKeepsInv == SwitchInv /\ SwitchThreadStep => SwitchInv'
  BY EngageInv, NameEngagerInv, TestReleaseInv, TakeDownInv, LogAndAuditInv, FinishInv
     DEF SwitchThreadStep, SwitchStep

LEMMA SwitchStutters == SwitchInv /\ UNCHANGED switchVars => SwitchInv'
  BY DEF switchVars, SwitchInv, SwitchTypes, Meetings, LastNamed, Cleared, PastDown, Under

\* A flag that its own engager takes down: the test was escaped by an overlap.
LEMMA TakeDownMet ==
  ASSUME SwitchInv, NEW c \in Changes, TakeDown(c), namer \in up, Actor(namer) = Actor(c)
  PROVE  \E d \in Disengages : <<namer, d>> \in met /\ (d = c \/ pc[d] = "returned")
<1>1. pc[c] = "tested" /\ c \in Disengages
  BY DEF TakeDown, Goes, SwitchInv, Meetings
<1>2. namer \in Changes
  BY EitherKind DEF SwitchInv, Meetings
<1>3. <<namer, c>> \in met \/ Cleared(namer)
  BY <1>1, <1>2 DEF SwitchInv, LastNamed
<1> QED
  BY <1>1, <1>3 DEF Cleared
-----------------------------------------------------------------------------
(***************************************************************************)
(* The approval.  Once a consume() has succeeded the status stays consumed *)
(* until an approve() that tested it earlier writes over it.               *)
(***************************************************************************)
ApprovalStages == {"idle", "refused", "tested", "named", "approved", "consumed"}

Used == \E u \in Consumers : at[u] = "consumed"

ApprovalInv ==
  /\ at \in [Reviewers \cup Consumers -> ApprovalStages]
  /\ Used => status = "consumed" \/ reopened # {}

LEMMA InitApproval == ApprovalInit => ApprovalInv
  BY DEF ApprovalInit, ApprovalInv, ApprovalStages, Used

\* Short of consume()'s write, no thread comes to be at "consumed".
LEMMA MovesUseNothing ==
  ASSUME ApprovalInv, NEW t \in Reviewers \cup Consumers, NEW from,
         NEW to \in ApprovalStages \ {"consumed"}, Moves(t, from, to)
  PROVE  at' \in [Reviewers \cup Consumers -> ApprovalStages] /\ (Used' => Used)
  BY DEF ApprovalInv, Moves, Used

LEMMA ApprovalKeepsInv == ApprovalInv /\ ApprovalThreadStep => ApprovalInv'
<1> SUFFICES ASSUME ApprovalInv, ApprovalThreadStep PROVE ApprovalInv'
  OBVIOUS
<1> DEFINE StillTyped == at' \in [Reviewers \cup Consumers -> ApprovalStages]
<1>1. ASSUME NEW t \in Reviewers, TestPending(t) PROVE ApprovalInv'
  <2>1. StillTyped /\ (Used' => Used)
    BY <1>1, MovesUseNothing DEF TestPending, ApprovalStages
  <2> QED
    BY <1>1, <2>1 DEF TestPending, ApprovalInv
<1>2. ASSUME NEW t \in Reviewers, NameReviewer(t) PROVE ApprovalInv'
  <2>1. StillTyped /\ (Used' => Used)
    BY <1>2, MovesUseNothing DEF NameReviewer, ApprovalStages
  <2> QED
    BY <1>2, <2>1 DEF NameReviewer, ApprovalInv
<1>3. ASSUME NEW t \in Reviewers, WriteApproved(t) PROVE ApprovalInv'
  <2>1. StillTyped /\ (Used' => Used)
    BY <1>3, MovesUseNothing DEF WriteApproved, ApprovalStages
  <2>2. Used => reopened' # {}
    BY <1>3 DEF WriteApproved, ApprovalInv
  <2> QED
    BY <2>1, <2>2 DEF ApprovalInv
<1>4. ASSUME NEW t \in Consumers, TestApproved(t) PROVE ApprovalInv'
  <2>1. StillTyped /\ (Used' => Used)
    BY <1>4, MovesUseNothing DEF TestApproved, ApprovalStages
  <2> QED
    BY <1>4, <2>1 DEF TestApproved, ApprovalInv
<1>5. ASSUME NEW t \in Consumers, WriteConsumed(t) PROVE ApprovalInv'
  BY <1>5 DEF WriteConsumed, Moves, ApprovalInv, ApprovalStages
<1> QED
  BY <1>1, <1>2, <1>3, <1>4, <1>5 DEF ApprovalThreadStep

LEMMA ApprovalStutters == ApprovalInv /\ UNCHANGED approvalVars => ApprovalInv'
  BY DEF approvalVars, ApprovalInv, Used

\* The test of a second consume() passes only over a reopened approval.
LEMMA TestPassesReopened ==
  ASSUME ApprovalInv, NEW t \in Consumers, TestApproved(t), at'[t] = "tested", Used
  PROVE  reopened # {}
<1>1. status = "approved"
  BY DEF TestApproved, Moves, ApprovalInv
<1> QED
  BY <1>1 DEF ApprovalInv
-----------------------------------------------------------------------------
(***************************************************************************)
(* The audit ledger.  A hash holds the hash before it, so that no set of   *)
(* hashes is closed under hashing that the provers could be told of: the   *)
(* types are over some set H, which a step may widen.                      *)
(***************************************************************************)
AppendStages == {"idle", "length", "head", "recorded", "frozen", "returned", "raised"}
ExportStages == {"idle", "copied", "headed", "sealed", "raised"}
Verdicts     == {"unread", "true", "false", "IndexError"}

Records(H) == [seq : Nat, prev : H, body : Writers \cup {Edited}, hash : H]

LedgerTypes(H) ==
  /\ NoHash \in H
  /\ recs \in Seq(Records(H))
  /\ frozen \in Seq(H)
  /\ lines \in Seq(Records(H))
  /\ w \in [Writers -> [pc : AppendStages, seq : Nat, prev : H]]
  /\ x \in [Exporters -> [pc : ExportStages, records : Seq(Records(H)), head : H,
                          valid : Verdicts]]
  /\ overlap \in BOOLEAN

\* What append() has done for a writer past each point.
KeptFor(t) ==
  /\ w[t].pc \in {"recorded", "frozen", "returned", "raised"} =>
       \E i \in DOMAIN recs : recs[i].seq = w[t].seq /\ (recs[i].body = t \/ i \in edits)
  /\ w[t].pc \in {"frozen", "returned", "raised"} =>
       \E i \in DOMAIN frozen : frozen[i] = RecordOf(t).hash
  /\ w[t].pc = "returned" => \E i \in DOMAIN lines : lines[i] = RecordOf(t)

\* An edit shows, and no frozen hash is of an edited record.
EditsShow ==
  /\ \A i \in edits : i \in DOMAIN recs /\ recs[i].body = Edited
  /\ \A i \in DOMAIN frozen : frozen[i][3] \in Writers

\* What the one append() under way has read and written.
AppendLineage(t) ==
  /\ w[t].pc \in {"length", "head"} => w[t].seq = Len(recs)
  /\ w[t].pc = "head" => w[t].prev = HeadHash
  /\ w[t].pc = "recorded" => /\ Len(recs) = Len(frozen) + 1
                             /\ recs[Len(recs)] = RecordOf(t)

\* What an export has read: a prefix of the ledger, then a head no older.
ExportLineage(e) ==
  x[e].records # <<>> =>
    /\ x[e].pc \in {"copied", "headed", "sealed"} =>
         /\ Len(x[e].records) <= Len(recs)
         /\ x[e].records[Len(x[e].records)].seq = Len(x[e].records) - 1
    /\ x[e].pc \in {"headed", "sealed"} =>
         x[e].head # NoHash /\ x[e].head[1] >= Len(x[e].records) - 1

InOrder ==
  /\ \A t, u \in Writers : Appending(t) /\ Appending(u) => t = u
  /\ \A i \in DOMAIN recs : Linked(i)
  /\ \A i \in DOMAIN recs \cap DOMAIN frozen : recs[i].hash = frozen[i]
  /\ \A t \in Writers : AppendLineage(t)
  /\ (\A t \in Writers : w[t].pc # "recorded") => Len(recs) = Len(frozen)
  /\ \A e \in Exporters : ExportLineage(e)

LedgerInv ==
  /\ \E H : LedgerTypes(H)
  /\ \A t \in Writers : KeptFor(t)
  /\ EditsShow
  /\ ~overlap /\ edits = {} => InOrder

LEMMA InitLedger == AuditInit => LedgerInv
<1> SUFFICES ASSUME AuditInit PROVE LedgerInv
  OBVIOUS
<1>1. LedgerTypes({NoHash})
  BY EmptySeq DEF AuditInit, LedgerTypes, AppendStages, ExportStages, Verdicts
<1>2. recs = <<>> /\ frozen = <<>> /\ lines = <<>> /\ edits = {}
  BY DEF AuditInit
<1>3. \A t \in Writers : w[t].pc = "idle"
  BY DEF AuditInit
<1>4. \A e \in Exporters : x[e].records = <<>>
  BY DEF AuditInit
<1>5. DOMAIN recs = {} /\ DOMAIN frozen = {} /\ Len(recs) = Len(frozen)
  BY <1>2
<1>6. InOrder
  BY <1>3, <1>4, <1>5 DEF InOrder, Appending, AppendLineage, ExportLineage
<1> QED
  BY <1>1, <1>2, <1>3, <1>5, <1>6 DEF LedgerInv, KeptFor, EditsShow

\* More hashes do no harm.
LEMMA TypesWiden ==
  ASSUME NEW G, NEW H, G \subseteq H, LedgerTypes(G)
  PROVE  LedgerTypes(H)
<1>1. \A s \in Seq(Records(G)) : s \in Seq(Records(H))
  <2>1. Records(G) \subseteq Records(H)
    BY DEF Records
  <2> QED
    BY <2>1
<1>2. \A s \in Seq(G) : s \in Seq(H)
  OBVIOUS
<1>3. \A t \in Writers : w[t] \in [pc : AppendStages, seq : Nat, prev : H]
  BY DEF LedgerTypes
<1>4. \A e \in Exporters :
        x[e] \in [pc : ExportStages, records : Seq(Records(H)), head : H, valid : Verdicts]
  BY <1>1 DEF LedgerTypes
<1> QED
  BY <1>1, <1>2, <1>3, <1>4 DEF LedgerTypes

\* A writer that reads or writes leaves the other writers as they were.
LEMMA WriterMoves ==
  ASSUME NEW H, LedgerTypes(H), NEW t \in Writers, NEW to \in AppendStages,
         w' = [w EXCEPT ![t].pc = to]
  PROVE  /\ w' \in [Writers -> [pc : AppendStages, seq : Nat, prev : H]]
         /\ w'[t].pc = to /\ w'[t].seq = w[t].seq /\ w'[t].prev = w[t].prev
         /\ \A u \in Writers \ {t} : w'[u] = w[u]
  BY DEF LedgerTypes

LEMMA HeadIsTyped ==
  ASSUME NEW H, LedgerTypes(H)
  PROVE  HeadHash \in H
<1>1. CASE recs = <<>>
  BY <1>1 DEF HeadHash, LedgerTypes
<1>2. CASE recs # <<>>
  <2>1. recs[Len(recs)] \in Records(H)
    BY <1>2 DEF LedgerTypes
  <2> QED
    BY <1>2, <2>1 DEF HeadHash, Last, Records
<1> QED
  BY <1>1, <1>2

LEMMA ReadLengthInv ==
  ASSUME LedgerInv, NEW t \in Writers, ReadLength(t)
  PROVE  LedgerInv'
<1>1. PICK H : LedgerTypes(H)
  BY DEF LedgerInv
<1>2. /\ w' \in [Writers -> [pc : AppendStages, seq : Nat, prev : H]]
      /\ w[t].pc = "idle" /\ w'[t].pc = "length" /\ w'[t].seq = Len(recs)
      /\ \A u \in Writers \ {t} : w'[u] = w[u]
  <2>1. Len(recs) \in Nat
    BY <1>1 DEF LedgerTypes
  <2> QED
    BY <1>1, <2>1 DEF LedgerTypes, ReadLength, AppendStages
<1>3. UNCHANGED <<recs, frozen, lines, x, edits>>
  BY DEF ReadLength
<1>4. LedgerTypes(H)'
  BY <1>1, <1>2, <1>3 DEF LedgerTypes, ReadLength
<1>5. \A u \in Writers : KeptFor(u)'
  BY <1>2, <1>3 DEF LedgerInv, KeptFor, RecordOf
<1>6. EditsShow'
  BY <1>3 DEF LedgerInv, EditsShow
<1>7. ~overlap' /\ edits' = {} => InOrder'
  <2> SUFFICES ASSUME ~overlap', edits' = {} PROVE InOrder'
    OBVIOUS
  <2>1. InOrder /\ \A u \in Writers : ~Appending(u)
    BY <1>3 DEF ReadLength, LedgerInv
  <2>2. \A u \in Writers : Appending(u)' => u = t
    BY <1>2, <2>1 DEF Appending
  <2>3. \A u \in Writers : AppendLineage(u)'
    <3>1. \A u \in Writers \ {t} : w'[u].pc \notin {"length", "head", "recorded"}
      BY <2>2 DEF Appending
    <3> QED
      BY <1>2, <1>3, <3>1 DEF AppendLineage
  <2>4. Len(recs') = Len(frozen')
    BY <1>3, <2>1 DEF InOrder, Appending
  <2> QED
    BY <1>3, <2>1, <2>2, <2>3, <2>4 DEF InOrder, Linked, ExportLineage
<1> QED
  BY <1>4, <1>5, <1>6, <1>7 DEF LedgerInv

LEMMA ReadHeadInv ==
  ASSUME LedgerInv, NEW t \in Writers, ReadHead(t)
  PROVE  LedgerInv'
<1>1. PICK H : LedgerTypes(H)
  BY DEF LedgerInv
<1>2. HeadHash \in H
  BY <1>1, HeadIsTyped
<1>3. /\ w' \in [Writers -> [pc : AppendStages, seq : Nat, prev : H]]
      /\ w[t].pc = "length" /\ w'[t].pc = "head"
      /\ w'[t].seq = w[t].seq /\ w'[t].prev = HeadHash
      /\ \A u \in Writers \ {t} : w'[u] = w[u]
  BY <1>1, <1>2 DEF LedgerTypes, ReadHead, AppendStages
<1>4. UNCHANGED <<recs, frozen, lines, x, edits, overlap>>
  BY DEF ReadHead
<1>5. LedgerTypes(H)'
  BY <1>1, <1>3, <1>4 DEF LedgerTypes
<1>6. \A u \in Writers : KeptFor(u)'
  BY <1>3, <1>4 DEF LedgerInv, KeptFor, RecordOf
<1>7. EditsShow'
  BY <1>4 DEF LedgerInv, EditsShow
<1>8. ~overlap' /\ edits' = {} => InOrder'
  <2> SUFFICES ASSUME ~overlap', edits' = {} PROVE InOrder'
    OBVIOUS
  <2>1. InOrder
    BY <1>4 DEF LedgerInv
  <2>2. \A u \in Writers : Appending(u)' => u = t
    BY <1>3, <2>1 DEF Appending, InOrder
  <2>3. \A u \in Writers : AppendLineage(u)'
    <3>1. \A u \in Writers \ {t} : w'[u].pc \notin {"length", "head", "recorded"}
      BY <2>2 DEF Appending
    <3>2. w'[t].seq = Len(recs)
      BY <1>3, <2>1 DEF InOrder, AppendLineage
    <3> QED
      BY <1>3, <1>4, <3>1, <3>2 DEF AppendLineage, HeadHash
  <2>4. (\A u \in Writers : w'[u].pc # "recorded") => Len(recs') = Len(frozen')
    BY <1>3, <1>4, <2>1 DEF InOrder
  <2> QED
    BY <1>4, <2>1, <2>2, <2>3, <2>4 DEF InOrder, Linked, ExportLineage
<1> QED
  BY <1>5, <1>6, <1>7, <1>8 DEF LedgerInv

\* The new record goes to the end, under a seq and a hash that append() read
\* before: the length and the head of now when it was alone.
LEMMA AppendRecordInv ==
  ASSUME LedgerInv, NEW t \in Writers, AppendRecord(t)
  PROVE  LedgerInv'
<1> DEFINE r == RecordOf(t)
<1>1. PICK H : LedgerTypes(H)
  BY DEF LedgerInv
<1>2. PICK G : LedgerTypes(G) /\ r.hash \in G
  <2>1. LedgerTypes(H \cup {r.hash})
    BY <1>1, TypesWiden
  <2> QED
    BY <2>1
<1>3. /\ w' \in [Writers -> [pc : AppendStages, seq : Nat, prev : G]]
      /\ w[t].pc = "head" /\ w'[t].pc = "recorded"
      /\ w'[t].seq = w[t].seq /\ w'[t].prev = w[t].prev
      /\ \A u \in Writers \ {t} : w'[u] = w[u]
  BY <1>2, WriterMoves DEF AppendRecord, AppendStages
<1>4. UNCHANGED <<frozen, lines, x, edits, overlap>>
  BY DEF AppendRecord
<1>5. r \in Records(G) /\ r.seq = w[t].seq /\ r.body = t /\ r' = r
  BY <1>2, <1>3 DEF RecordOf, Records, LedgerTypes, ComputeHash
<1>6. /\ recs' \in Seq(Records(G)) /\ Len(recs') = Len(recs) + 1
      /\ DOMAIN recs' = DOMAIN recs \cup {Len(recs) + 1}
      /\ recs'[Len(recs) + 1] = r
      /\ \A i \in DOMAIN recs : recs'[i] = recs[i]
  <2> HIDE DEF r
  <2>1. recs \in Seq(Records(G)) /\ recs' = Append(recs, r)
    BY <1>2 DEF LedgerTypes, AppendRecord, r
  <2> QED
    BY <2>1, <1>5
<1>7. Len(recs) \in Nat /\ DOMAIN recs = 1 .. Len(recs)
  BY <1>1 DEF LedgerTypes
<1>8. LedgerTypes(G)'
  BY <1>2, <1>3, <1>4, <1>6 DEF LedgerTypes
<1>9. \A u \in Writers : KeptFor(u)'
  <2>1. ASSUME NEW u \in Writers \ {t} PROVE KeptFor(u)'
    <3>1. w'[u] = w[u] /\ RecordOf(u)' = RecordOf(u) /\ KeptFor(u)
      BY <1>3 DEF RecordOf, LedgerInv
    <3> QED
      BY <1>4, <1>6, <3>1 DEF KeptFor
  <2>2. KeptFor(t)'
    BY <1>3, <1>5, <1>6 DEF KeptFor
  <2> QED
    BY <2>1, <2>2
<1>10. EditsShow'
  BY <1>4, <1>6 DEF LedgerInv, EditsShow
<1>11. ~overlap' /\ edits' = {} => InOrder'
  <2> SUFFICES ASSUME ~overlap', edits' = {} PROVE InOrder'
    OBVIOUS
  <2>1. InOrder
    BY <1>4 DEF LedgerInv
  <2>2. w[t].seq = Len(recs) /\ w[t].prev = HeadHash
    BY <1>3, <2>1 DEF InOrder, AppendLineage
  <2>3. \A u \in Writers : Appending(u)' => u = t
    BY <1>3, <2>1 DEF Appending, InOrder
  <2>4. Len(recs) = Len(frozen)
    BY <1>3, <2>1 DEF InOrder, Appending
  <2>5. \A u \in Writers : AppendLineage(u)'
    <3>1. \A u \in Writers \ {t} : w'[u].pc \notin {"length", "head", "recorded"}
      BY <2>3 DEF Appending
    <3>2. AppendLineage(t)'
      BY <1>3, <1>4, <1>5, <1>6, <2>4 DEF AppendLineage
    <3> QED
      BY <3>1, <3>2 DEF AppendLineage
  <2>6. ASSUME NEW i \in DOMAIN recs', i = Len(recs) + 1 PROVE Linked(i)'
    <3>1. recs'[i] = r /\ r.hash = ComputeHash(r) /\ r.seq = i - 1
      BY <1>5, <1>6, <1>7, <2>2, <2>6 DEF RecordOf, ComputeHash
    <3>2. r.prev = IF i = 1 THEN NoHash ELSE recs'[i - 1].hash
      <4>1. r.prev = HeadHash
        BY <2>2 DEF RecordOf
      <4>2. CASE recs = <<>>
        BY <1>7, <2>6, <4>1, <4>2 DEF HeadHash
      <4>3. CASE recs # <<>>
        <5>1. Len(recs) \in DOMAIN recs /\ i # 1 /\ i - 1 = Len(recs)
          BY <1>1, <1>7, <2>6, <4>3 DEF LedgerTypes
        <5> QED
          BY <1>6, <4>1, <4>3, <5>1 DEF HeadHash, Last
      <4> QED
        BY <4>2, <4>3
    <3> QED
      BY <3>1, <3>2 DEF Linked, ComputeHash
  <2>7. \A i \in DOMAIN recs' : Linked(i)'
    <3>1. ASSUME NEW i \in DOMAIN recs PROVE Linked(i)'
      <4>1. Linked(i) /\ recs'[i] = recs[i] /\ i \in Nat
        BY <1>6, <1>7, <2>1 DEF InOrder
      <4>2. i # 1 => recs'[i - 1] = recs[i - 1]
        BY <1>6, <1>7
      <4> QED
        BY <4>1, <4>2 DEF Linked, ComputeHash
    <3> QED
      BY <1>6, <2>6, <3>1
  <2>8. \A i \in DOMAIN recs' \cap DOMAIN frozen' : recs'[i].hash = frozen'[i]
    <3>1. DOMAIN frozen = 1 .. Len(frozen)
      BY <1>1 DEF LedgerTypes
    <3> QED
      BY <1>4, <1>6, <1>7, <2>1, <2>4, <3>1 DEF InOrder
  <2>9. \A e \in Exporters : ExportLineage(e)'
    <3> SUFFICES ASSUME NEW e \in Exporters PROVE ExportLineage(e)'
      OBVIOUS
    <3>1. ExportLineage(e) /\ Len(x[e].records) \in Nat
      BY <1>1, <2>1 DEF InOrder, LedgerTypes
    <3> QED
      BY <1>4, <1>6, <1>7, <3>1 DEF ExportLineage
  <2> QED
    BY <1>3, <2>3, <2>5, <2>7, <2>8, <2>9 DEF InOrder
<1> QED
  BY <1>8, <1>9, <1>10, <1>11 DEF LedgerInv

LEMMA FreezeInv ==
  ASSUME LedgerInv, NEW t \in Writers, Freeze(t)
  PROVE  LedgerInv'
<1> DEFINE h == RecordOf(t).hash
<1>1. PICK H : LedgerTypes(H)
  BY DEF LedgerInv
<1>2. PICK G : LedgerTypes(G) /\ h \in G
  <2>1. LedgerTypes(H \cup {h})
    BY <1>1, TypesWiden
  <2> QED
    BY <2>1
<1>3. /\ w' \in [Writers -> [pc : AppendStages, seq : Nat, prev : G]]
      /\ w[t].pc = "recorded" /\ w'[t].pc = "frozen"
      /\ w'[t].seq = w[t].seq /\ w'[t].prev = w[t].prev
      /\ \A u \in Writers \ {t} : w'[u] = w[u]
  BY <1>2, WriterMoves DEF Freeze, AppendStages
<1>4. UNCHANGED <<recs, lines, x, edits, overlap>>
  BY DEF Freeze
<1>5. h[3] = t /\ RecordOf(t)' = RecordOf(t)
  BY <1>3 DEF RecordOf, ComputeHash
<1>6. /\ frozen' \in Seq(G) /\ Len(frozen') = Len(frozen) + 1
      /\ DOMAIN frozen' = DOMAIN frozen \cup {Len(frozen) + 1}
      /\ frozen'[Len(frozen) + 1] = h
      /\ \A i \in DOMAIN frozen : frozen'[i] = frozen[i]
  <2>1. frozen \in Seq(G) /\ frozen' = Append(frozen, h) /\ h \in G
    BY <1>2 DEF LedgerTypes, Freeze
  <2> HIDE DEF h
  <2> QED
    BY <2>1
<1>7. LedgerTypes(G)'
  BY <1>2, <1>3, <1>4, <1>6 DEF LedgerTypes
<1>8. \A u \in Writers : KeptFor(u)'
  <2>1. ASSUME NEW u \in Writers \ {t} PROVE KeptFor(u)'
    <3>1. w'[u] = w[u] /\ RecordOf(u)' = RecordOf(u) /\ KeptFor(u)
      BY <1>3 DEF RecordOf, LedgerInv
    <3> QED
      BY <1>4, <1>6, <3>1 DEF KeptFor
  <2>2. KeptFor(t)'
    BY <1>3, <1>4, <1>5, <1>6 DEF LedgerInv, KeptFor
  <2> QED
    BY <2>1, <2>2
<1>9. EditsShow'
  BY <1>4, <1>5, <1>6 DEF LedgerInv, EditsShow
<1>10. ~overlap' /\ edits' = {} => InOrder'
  <2> SUFFICES ASSUME ~overlap', edits' = {} PROVE InOrder'
    OBVIOUS
  <2>1. InOrder
    BY <1>4 DEF LedgerInv
  <2>2. \A u \in Writers : Appending(u)' => u = t
    BY <1>3, <2>1 DEF Appending, InOrder
  <2>3. Len(recs) = Len(frozen) + 1 /\ recs[Len(recs)] = RecordOf(t)
    BY <1>3, <2>1 DEF InOrder, AppendLineage
  <2>4. \A u \in Writers : AppendLineage(u)'
    <3>1. \A u \in Writers : w'[u].pc \notin {"length", "head", "recorded"}
      BY <1>3, <2>2 DEF Appending
    <3> QED
      BY <3>1 DEF AppendLineage
  <2>5. \A i \in DOMAIN recs' \cap DOMAIN frozen' : recs'[i].hash = frozen'[i]
    BY <1>4, <1>6, <2>1, <2>3 DEF InOrder
  <2> QED
    BY <1>3, <1>4, <1>6, <2>1, <2>2, <2>3, <2>4, <2>5 DEF InOrder, Linked, ExportLineage
<1> QED
  BY <1>7, <1>8, <1>9, <1>10 DEF LedgerInv

LEMMA WriteLineInv ==
  ASSUME LedgerInv, NEW t \in Writers, WriteLine(t)
  PROVE  LedgerInv'
<1> DEFINE r == RecordOf(t)
<1>1. PICK H : LedgerTypes(H)
  BY DEF LedgerInv
<1>2. PICK G : LedgerTypes(G) /\ r.hash \in G
  <2>1. LedgerTypes(H \cup {r.hash})
    BY <1>1, TypesWiden
  <2> QED
    BY <2>1
<1>3. /\ w' \in [Writers -> [pc : AppendStages, seq : Nat, prev : G]]
      /\ w[t].pc = "frozen" /\ w'[t].pc \in {"returned", "raised"}
      /\ w'[t].seq = w[t].seq /\ w'[t].prev = w[t].prev
      /\ \A u \in Writers \ {t} : w'[u] = w[u]
  BY <1>2, WriterMoves DEF WriteLine, AppendStages
<1>4. UNCHANGED <<recs, frozen, x, edits, overlap>>
  BY DEF WriteLine
<1>5. r \in Records(G) /\ r' = r
  BY <1>2, <1>3 DEF RecordOf, Records, LedgerTypes, ComputeHash
<1>6. /\ lines' \in Seq(Records(G))
      /\ \A i \in DOMAIN lines : i \in DOMAIN lines' /\ lines'[i] = lines[i]
      /\ w'[t].pc = "returned" => \E i \in DOMAIN lines' : lines'[i] = r
  <2> HIDE DEF r
  <2>1. lines \in Seq(Records(G))
    BY <1>2 DEF LedgerTypes
  <2>2. CASE lines' = Append(lines, r)
    <3>1. /\ lines' \in Seq(Records(G))
          /\ DOMAIN lines' = 1 .. Len(lines) + 1 /\ DOMAIN lines = 1 .. Len(lines)
          /\ Len(lines) \in Nat
          /\ lines'[Len(lines) + 1] = r
          /\ \A i \in 1 .. Len(lines) : lines'[i] = lines[i]
      BY <1>5, <2>1, <2>2
    <3> QED
      BY <3>1
  <2>3. CASE lines' = lines /\ w' = [w EXCEPT ![t].pc = "raised"]
    BY <1>2, <2>1, <2>3, WriterMoves DEF AppendStages
  <2> QED
    BY <2>2, <2>3 DEF WriteLine, r
<1>7. LedgerTypes(G)'
  BY <1>2, <1>3, <1>4, <1>6 DEF LedgerTypes
<1>8. \A u \in Writers : KeptFor(u)'
  <2>1. ASSUME NEW u \in Writers \ {t} PROVE KeptFor(u)'
    <3>1. w'[u] = w[u] /\ RecordOf(u)' = RecordOf(u) /\ KeptFor(u)
      BY <1>3 DEF RecordOf, LedgerInv
    <3> QED
      BY <1>4, <1>6, <3>1 DEF KeptFor
  <2>2. KeptFor(t)'
    BY <1>3, <1>4, <1>5, <1>6 DEF LedgerInv, KeptFor
  <2> QED
    BY <2>1, <2>2
<1>9. EditsShow'
  BY <1>4 DEF LedgerInv, EditsShow
<1>10. ~overlap' /\ edits' = {} => InOrder'
  <2> SUFFICES ASSUME ~overlap', edits' = {} PROVE InOrder'
    OBVIOUS
  <2>1. InOrder
    BY <1>4 DEF LedgerInv
  <2>2. \A u \in Writers : ~Appending(u)'
    BY <1>3, <2>1 DEF Appending, InOrder
  <2>3. Len(recs) = Len(frozen)
    BY <1>3, <2>1 DEF InOrder, Appending
  <2>4. \A u \in Writers : AppendLineage(u)'
    BY <2>2 DEF Appending, AppendLineage
  <2> QED
    BY <1>4, <2>1, <2>2, <2>3, <2>4 DEF InOrder, Linked, ExportLineage
<1> QED
  BY <1>7, <1>8, <1>9, <1>10 DEF LedgerInv

\* An export writes nothing but its own readings.
LEMMA ExporterMoves ==
  ASSUME LedgerInv, NEW H, LedgerTypes(H), NEW e \in Exporters,
         UNCHANGED <<recs, frozen, lines, w, edits, overlap>>,
         x' \in [Exporters -> [pc : ExportStages, records : Seq(Records(H)), head : H,
                               valid : Verdicts]],
         \A d \in Exporters \ {e} : x'[d] = x[d],
         InOrder => ExportLineage(e)'
  PROVE  LedgerInv'
<1>1. LedgerTypes(H)'
  BY DEF LedgerTypes
<1>2. \A u \in Writers : KeptFor(u)'
  BY DEF LedgerInv, KeptFor, RecordOf
<1>3. EditsShow'
  BY DEF LedgerInv, EditsShow
<1>4. ~overlap' /\ edits' = {} => InOrder'
  <2> SUFFICES ASSUME ~overlap', edits' = {} PROVE InOrder'
    OBVIOUS
  <2>1. InOrder
    BY DEF LedgerInv
  <2>2. \A d \in Exporters : ExportLineage(d)'
    <3>1. ASSUME NEW d \in Exporters \ {e} PROVE ExportLineage(d)'
      BY <2>1, <3>1 DEF InOrder, ExportLineage
    <3> QED
      BY <2>1, <3>1
  <2>3. \A u \in Writers : AppendLineage(u)'
    BY <2>1 DEF InOrder, AppendLineage, HeadHash, RecordOf
  <2> QED
    BY <2>1, <2>2, <2>3 DEF InOrder, Appending, Linked
<1> QED
  BY <1>1, <1>2, <1>3, <1>4 DEF LedgerInv

LEMMA SnapshotInv ==
  ASSUME LedgerInv, NEW e \in Exporters, Snapshot(e)
  PROVE  LedgerInv'
<1>1. PICK H : LedgerTypes(H)
  BY DEF LedgerInv
<1>2. /\ x' \in [Exporters -> [pc : ExportStages, records : Seq(Records(H)), head : H,
                               valid : Verdicts]]
      /\ x'[e].pc = "copied" /\ x'[e].records = recs
      /\ \A d \in Exporters \ {e} : x'[d] = x[d]
  <2> DEFINE X == [pc : ExportStages, records : Seq(Records(H)), head : H, valid : Verdicts]
             seal == [x[e] EXCEPT !.pc = "copied", !.records = recs]
  <2>1. x \in [Exporters -> X] /\ recs \in Seq(Records(H))
    BY <1>1 DEF LedgerTypes
  <2>2. seal \in X /\ seal.pc = "copied" /\ seal.records = recs
    BY <2>1 DEF ExportStages
  <2>3. x' = [x EXCEPT ![e] = seal]
    BY <2>1 DEF Snapshot
  <2> HIDE DEF X, seal
  <2>4. x' \in [Exporters -> X] /\ x'[e] = seal /\ \A d \in Exporters \ {e} : x'[d] = x[d]
    BY <2>1, <2>2, <2>3
  <2> QED
    BY <2>2, <2>4 DEF X
<1>3. InOrder => ExportLineage(e)'
  <2> SUFFICES ASSUME InOrder, recs # <<>> PROVE ExportLineage(e)'
    BY <1>2 DEF ExportLineage
  <2>1. Len(recs) \in DOMAIN recs /\ Len(recs) \in Nat
    BY <1>1 DEF LedgerTypes
  <2>2. recs[Len(recs)].seq = Len(recs) - 1
    BY <2>1 DEF InOrder, Linked
  <2> QED
    BY <1>2, <2>1, <2>2 DEF ExportLineage, Snapshot
<1> QED
  BY <1>1, <1>2, <1>3, ExporterMoves DEF Snapshot

LEMMA SealHeadInv ==
  ASSUME LedgerInv, NEW e \in Exporters, SealHead(e)
  PROVE  LedgerInv'
<1>1. PICK H : LedgerTypes(H)
  BY DEF LedgerInv
<1>2. HeadHash \in H
  BY <1>1, HeadIsTyped
<1>3. /\ x' \in [Exporters -> [pc : ExportStages, records : Seq(Records(H)), head : H,
                               valid : Verdicts]]
      /\ x[e].pc = "copied" /\ x'[e].pc = "headed"
      /\ x'[e].records = x[e].records /\ x'[e].head = HeadHash
      /\ \A d \in Exporters \ {e} : x'[d] = x[d]
  BY <1>1, <1>2 DEF LedgerTypes, SealHead, ExportStages
<1>4. InOrder => ExportLineage(e)'
  <2> SUFFICES ASSUME InOrder, x[e].records # <<>> PROVE ExportLineage(e)'
    BY <1>3 DEF ExportLineage
  <2>1. /\ Len(x[e].records) <= Len(recs)
        /\ x[e].records[Len(x[e].records)].seq = Len(x[e].records) - 1
    BY <1>3 DEF InOrder, ExportLineage
  <2>2. Len(x[e].records) \in Nat /\ Len(x[e].records) # 0
    BY <1>1 DEF LedgerTypes
  <2>3. Len(recs) \in DOMAIN recs /\ recs # <<>> /\ Len(recs) \in Nat
    BY <1>1, <2>1, <2>2 DEF LedgerTypes
  <2>4. HeadHash = <<Len(recs) - 1, recs[Len(recs)].prev, recs[Len(recs)].body>>
    BY <2>3 DEF HeadHash, Last, InOrder, Linked, ComputeHash
  <2>5. HeadHash # NoHash /\ HeadHash[1] = Len(recs) - 1
    BY <2>4 DEF NoHash
  <2> QED
    BY <1>3, <2>1, <2>2, <2>3, <2>5 DEF ExportLineage, SealHead
<1> QED
  BY <1>1, <1>3, <1>4, ExporterMoves DEF SealHead

LEMMA SealVerdictInv ==
  ASSUME LedgerInv, NEW e \in Exporters, SealVerdict(e)
  PROVE  LedgerInv'
<1>1. PICK H : LedgerTypes(H)
  BY DEF LedgerInv
<1>2. VerifyChain \in Verdicts
  BY DEF VerifyChain, Verdicts
<1>3. /\ x' \in [Exporters -> [pc : ExportStages, records : Seq(Records(H)), head : H,
                               valid : Verdicts]]
      /\ x[e].pc = "headed" /\ x'[e].pc \in {"raised", "sealed"}
      /\ x'[e].records = x[e].records /\ x'[e].head = x[e].head
      /\ \A d \in Exporters \ {e} : x'[d] = x[d]
  <2> DEFINE X == [pc : ExportStages, records : Seq(Records(H)), head : H, valid : Verdicts]
             seal == [x[e] EXCEPT !.valid = VerifyChain,
                        !.pc = IF VerifyChain = "IndexError" THEN "raised" ELSE "sealed"]
  <2>1. x \in [Exporters -> X]
    BY <1>1 DEF LedgerTypes
  <2>2. /\ seal \in X /\ seal.pc \in {"raised", "sealed"}
        /\ seal.records = x[e].records /\ seal.head = x[e].head
    BY <1>2, <2>1 DEF ExportStages
  <2>3. x' = [x EXCEPT ![e] = seal] /\ x[e].pc = "headed"
    BY <2>1 DEF SealVerdict
  <2> HIDE DEF X, seal
  <2>4. x' \in [Exporters -> X] /\ x'[e] = seal /\ \A d \in Exporters \ {e} : x'[d] = x[d]
    BY <2>1, <2>2, <2>3
  <2> QED
    BY <2>2, <2>3, <2>4 DEF X
<1>4. InOrder => ExportLineage(e)'
  BY <1>3 DEF InOrder, ExportLineage, SealVerdict
<1> QED
  BY <1>1, <1>3, <1>4, ExporterMoves DEF SealVerdict

LEMMA EditInv ==
  ASSUME LedgerInv, Edit
  PROVE  LedgerInv'
<1>1. PICK H : LedgerTypes(H)
  BY DEF LedgerInv
<1>2. PICK i \in DOMAIN recs \ edits, rehash \in BOOLEAN :
        LET r == [recs[i] EXCEPT !.body = Edited] IN
        /\ recs' = [recs EXCEPT ![i] =
                      IF rehash THEN [r EXCEPT !.hash = ComputeHash(r)] ELSE r]
        /\ edits' = edits \cup {i}
  BY DEF Edit
<1> DEFINE r == [recs[i] EXCEPT !.body = Edited]
           new == IF rehash THEN [r EXCEPT !.hash = ComputeHash(r)] ELSE r
<1>3. PICK G : LedgerTypes(G) /\ ComputeHash(r) \in G
  <2>1. LedgerTypes(H \cup {ComputeHash(r)})
    BY <1>1, TypesWiden
  <2> QED
    BY <2>1
<1>4. UNCHANGED <<frozen, lines, w, x, overlap>>
  BY DEF Edit
<1>5. new \in Records(G) /\ new.seq = recs[i].seq /\ new.body = Edited
  <2>1. recs[i] \in Records(G)
    BY <1>3 DEF LedgerTypes
  <2> HIDE DEF Records
  <2>2. /\ r \in Records(G) /\ r.seq = recs[i].seq /\ r.body = Edited
    BY <2>1 DEF Records
  <2> HIDE DEF r
  <2> QED
    BY <1>3, <2>2 DEF Records
<1>6. /\ recs' \in Seq(Records(G)) /\ DOMAIN recs' = DOMAIN recs
      /\ recs'[i] = new
      /\ \A j \in DOMAIN recs : j # i => recs'[j] = recs[j]
  <2>1. recs \in Seq(Records(G)) /\ recs' = [recs EXCEPT ![i] = new]
    BY <1>2, <1>3 DEF LedgerTypes
  <2> HIDE DEF new
  <2> QED
    BY <1>5, <2>1
<1>7. LedgerTypes(G)'
  BY <1>3, <1>4, <1>6 DEF LedgerTypes
<1>8. \A t \in Writers : KeptFor(t)'
  <2> SUFFICES ASSUME NEW t \in Writers PROVE KeptFor(t)'
    OBVIOUS
  <2>1. KeptFor(t) /\ RecordOf(t)' = RecordOf(t)
    BY <1>4 DEF LedgerInv, RecordOf
  <2>2. ASSUME NEW j \in DOMAIN recs, recs[j].seq = w[t].seq, recs[j].body = t \/ j \in edits
        PROVE  recs'[j].seq = w'[t].seq /\ (recs'[j].body = t \/ j \in edits')
    BY <1>2, <1>4, <1>5, <1>6, <2>2
  <2> HIDE DEF new
  <2> QED
    BY <1>4, <1>6, <2>1, <2>2 DEF KeptFor
<1>9. EditsShow'
  BY <1>2, <1>4, <1>5, <1>6 DEF LedgerInv, EditsShow
<1>10. edits' # {}
  BY <1>2
<1> QED
  BY <1>7, <1>8, <1>9, <1>10 DEF LedgerInv

LEMMA LedgerKeepsInv == LedgerInv /\ LedgerThreadStep => LedgerInv'
  BY ReadLengthInv, ReadHeadInv, AppendRecordInv, FreezeInv, WriteLineInv,
     SnapshotInv, SealHeadInv, SealVerdictInv, EditInv
     DEF LedgerThreadStep, AppendStep, ExportStep

LEMMA LedgerStutters == LedgerInv /\ UNCHANGED auditLedgerVars => LedgerInv'
<1> SUFFICES ASSUME LedgerInv, UNCHANGED auditLedgerVars PROVE LedgerInv'
  OBVIOUS
<1>1. UNCHANGED <<recs, frozen, lines, w, x, edits, overlap>>
  BY DEF auditLedgerVars
<1>2. (\E H : LedgerTypes(H))'
  BY <1>1 DEF LedgerInv, LedgerTypes
<1>3. \A u \in Writers : KeptFor(u)'
  BY <1>1 DEF LedgerInv, KeptFor, RecordOf
<1>4. EditsShow'
  BY <1>1 DEF LedgerInv, EditsShow
<1>5. ~overlap' /\ edits' = {} => InOrder'
  BY <1>1 DEF LedgerInv, InOrder, Appending, AppendLineage, ExportLineage, Linked,
              HeadHash, RecordOf
<1> QED
  BY <1>2, <1>3, <1>4, <1>5 DEF LedgerInv

\* verify_chain() looks at the records that have a frozen hash, and at the next.
LEMMA VerifyChainCases ==
  ASSUME NEW H, LedgerTypes(H)
  PROVE  /\ VerifyChain = "false" =>
              \/ \E i \in DOMAIN recs \cap DOMAIN frozen : ~Sound(i)
              \/ \E i \in DOMAIN recs : ~Linked(i)
         /\ VerifyChain = "true" => \A i \in DOMAIN recs : i \in DOMAIN frozen /\ Sound(i)
<1> DEFINE m == Len(recs)
           n == Len(frozen)
           ahead == Min({m, n})
<1>1. m \in Nat /\ n \in Nat /\ DOMAIN recs = 1 .. m /\ DOMAIN frozen = 1 .. n
  BY DEF LedgerTypes
<1>2. ahead \in {m, n} /\ ahead <= m /\ ahead <= n
  <2> HIDE DEF m, n
  <2>1. \E k \in {m, n} : \A j \in {m, n} : k <= j
    BY <1>1
  <2> QED
    BY <1>1, <2>1 DEF Min
<1>3. VerifyChain = IF (\E i \in 1 .. ahead : ~Sound(i)) \/ (ahead < m /\ ~Linked(ahead + 1))
                      THEN "false"
                    ELSE IF ahead < m THEN "IndexError" ELSE "true"
  BY DEF VerifyChain
<1> HIDE DEF m, n, ahead
<1>4. VerifyChain = "false" =>
        (\E i \in 1 .. ahead : ~Sound(i)) \/ (ahead < m /\ ~Linked(ahead + 1))
  BY <1>3
<1>5. VerifyChain = "true" => ~(ahead < m) /\ \A i \in 1 .. ahead : Sound(i)
  BY <1>3
<1>6. 1 .. ahead \subseteq DOMAIN recs \cap DOMAIN frozen
  BY <1>1, <1>2
<1>7. IF ahead < m THEN ahead + 1 \in DOMAIN recs ELSE ahead = m
  BY <1>1, <1>2
<1> QED
  BY <1>1, <1>4, <1>5, <1>6, <1>7

\* In order, every record that has a frozen hash is sound; an edited one is not
\* the record whose hash was frozen.
LEMMA LedgerInvImplies ==
  LedgerInv => ReturnedIsKept /\ VerifyIsTruthful /\ SealCoversItsRecords
<1> SUFFICES ASSUME LedgerInv
             PROVE  ReturnedIsKept /\ VerifyIsTruthful /\ SealCoversItsRecords
  OBVIOUS
<1>1. PICK H : LedgerTypes(H)
  BY DEF LedgerInv
<1>2. ReturnedIsKept
  BY DEF LedgerInv, KeptFor, ReturnedIsKept, Range
<1>3. VerifyIsTruthful
  <2>1. ASSUME VerifyChain = "false", edits = {}, ~overlap PROVE FALSE
    <3>1. \A i \in DOMAIN recs : Linked(i)
      BY <2>1 DEF LedgerInv, InOrder, Linked
    <3>2. \A i \in DOMAIN recs \cap DOMAIN frozen : Sound(i)
      BY <2>1, <3>1 DEF LedgerInv, InOrder, Sound
    <3> QED
      BY <1>1, <2>1, <3>1, <3>2, VerifyChainCases
  <2>2. ASSUME VerifyChain = "true", edits # {} PROVE FALSE
    <3>1. PICK i \in edits : i \in DOMAIN recs /\ recs[i].body = Edited
      BY <2>2 DEF LedgerInv, EditsShow
    <3>2. i \in DOMAIN frozen /\ Sound(i)
      BY <1>1, <2>2, <3>1, VerifyChainCases
    <3>3. frozen[i] = <<recs[i].seq, recs[i].prev, Edited>>
      BY <3>1, <3>2 DEF Sound, Linked, ComputeHash
    <3>4. frozen[i][3] = Edited
      BY <3>3
    <3> QED
      BY <3>2, <3>4, LedgerAssumption DEF LedgerInv, EditsShow, LedgerAssumption
  <2> QED
    BY <2>1, <2>2 DEF VerifyIsTruthful
<1>4. SealCoversItsRecords
  <2> SUFFICES ASSUME NEW e \in Exporters, x[e].pc = "sealed", x[e].records # <<>>,
                      edits = {}, ~overlap
               PROVE  x[e].head # NoHash /\ x[e].head[1] >= Last(x[e].records).seq
    BY DEF SealCoversItsRecords
  <2>1. ExportLineage(e)
    BY DEF LedgerInv, InOrder
  <2> QED
    BY <2>1 DEF ExportLineage, Last
<1> QED
  BY <1>2, <1>3, <1>4

-----------------------------------------------------------------------------
ThreadInv == LedgerInv /\ SwitchInv /\ ApprovalInv

\* What the three stores hold, and what each thread past a point has behind it,
\* however the threads interleave.
THEOREM ThreadInvHolds == Spec => []ThreadInv
<1>1. Init => ThreadInv
  BY InitLedger, InitSwitch, InitApproval DEF Init, ThreadInv
<1>2. ThreadInv /\ [Next]_threadVars => ThreadInv'
  <2> SUFFICES ASSUME ThreadInv, [Next]_threadVars PROVE ThreadInv'
    OBVIOUS
  <2>1. LedgerInv'
    BY LedgerKeepsInv, LedgerStutters DEF ThreadInv, Next, threadVars
  <2>2. SwitchInv'
    BY SwitchKeepsInv, SwitchStutters DEF ThreadInv, Next, threadVars
  <2>3. ApprovalInv'
    BY ApprovalKeepsInv, ApprovalStutters DEF ThreadInv, Next, threadVars
  <2> QED
    BY <2>1, <2>2, <2>3 DEF ThreadInv
<1> QED
  BY <1>1, <1>2, PTL DEF Spec

\* Any number of overlapping append() calls lose no record that one of them
\* returned (audit_ledger.py:79, no lock).
THEOREM ReturnedIsKeptHolds == Spec => []ReturnedIsKept
<1>1. ThreadInv => ReturnedIsKept
  BY LedgerInvImplies DEF ThreadInv
<1> QED
  BY <1>1, ThreadInvHolds, PTL

\* verify_chain() answers "false" only of an edit or of appends that overlapped,
\* and never "true" of an edit, rehashed or not (audit_ledger.py:109-122).
THEOREM VerifyIsTruthfulHolds == Spec => []VerifyIsTruthful
<1>1. ThreadInv => VerifyIsTruthful
  BY LedgerInvImplies DEF ThreadInv
<1> QED
  BY <1>1, ThreadInvHolds, PTL

\* The head an export seals is no older than the records it seals
\* (audit_ledger.py:137).
THEOREM SealCoversItsRecordsHolds == Spec => []SealCoversItsRecords
<1>1. ThreadInv => SealCoversItsRecords
  BY LedgerInvImplies DEF ThreadInv
<1> QED
  BY <1>1, ThreadInvHolds, PTL

\* The last engage() to name itself is undone by its own actor only if it overlapped
\* that disengage() or one that cleared the name, for any operators and any number of
\* changes (kill_switch.py:85-93).
THEOREM OwnReleaseNeedsAnOverlapHolds == Spec => OwnReleaseNeedsAnOverlap
<1> DEFINE Own == \A c \in Changes :
                    TakeDown(c) /\ namer \in up /\ Actor(namer) = Actor(c) =>
                      \E d \in Disengages :
                        <<namer, d>> \in met /\ (d = c \/ pc[d] = "returned")
<1>1. ThreadInv /\ [Next]_threadVars => [Own]_switchVars
  BY TakeDownMet DEF ThreadInv
<1> QED
  BY <1>1, ThreadInvHolds, PTL DEF Spec, OwnReleaseNeedsAnOverlap

\* A consume() that begins after another has succeeded passes only over an
\* approve() that wrote late, for any number of either (approval_ledger.py:104).
THEOREM ReplayNeedsALateApproveHolds == Spec => ReplayNeedsALateApprove
<1> DEFINE Late == \A t \in Consumers :
                     /\ TestApproved(t) /\ at'[t] = "tested"
                     /\ \E u \in Consumers : at[u] = "consumed"
                     => reopened # {}
<1>1. ThreadInv /\ [Next]_threadVars => [Late]_approvalVars
  BY TestPassesReopened DEF ThreadInv, Used
<1> QED
  BY <1>1, ThreadInvHolds, PTL DEF Spec, ReplayNeedsALateApprove
=============================================================================
