----------------------------- MODULE HostedProofs -----------------------------
(***************************************************************************)
(* What the hosted gate and the pilot handler guarantee together, for any  *)
(* number of requests, reviewers and calls, any lifetimes, and crashes     *)
(* anywhere; and that they implement GrantPromise.                         *)
(***************************************************************************)
EXTENDS HostedApproval, FiniteSetTheorems, TLAPS

-----------------------------------------------------------------------------
(***************************************************************************)
(* The predicate: without an approval it withholds what needs one, and it  *)
(* asks for an approval only for what needs one.                           *)
(***************************************************************************)
LEMMA SomeClauseIsFirst ==
  ASSUME NEW S, S \subseteq DOMAIN Rank, S # {}
  PROVE  \E k \in S : \A j \in S : Rank[k] <= Rank[j]
<1> USE DEF Rank
<1>1. CASE "authenticated_user" \in S
  BY <1>1
<1>2. CASE "authenticated_user" \notin S /\ "human_gate" \in S
  BY <1>2
<1>3. CASE {"authenticated_user", "human_gate"} \cap S = {} /\ "agent_grant" \in S
  BY <1>3
<1>4. CASE /\ {"authenticated_user", "human_gate", "agent_grant"} \cap S = {}
           /\ "user_entitlement" \in S
  BY <1>4
<1>5. CASE /\ {"authenticated_user", "human_gate", "agent_grant", "user_entitlement"} \cap S = {}
           /\ "purpose" \in S
  BY <1>5
<1>6. CASE /\ {"authenticated_user", "human_gate", "agent_grant", "user_entitlement",
               "purpose"} \cap S = {}
           /\ "data_class_boundary" \in S
  BY <1>6
<1>7. CASE /\ {"authenticated_user", "human_gate", "agent_grant", "user_entitlement",
               "purpose", "data_class_boundary"} \cap S = {}
           /\ "consent" \in S
  BY <1>7
<1>8. CASE S \subseteq {"residency", "budget", "approval"}
  BY <1>8
<1> QED
  BY <1>1, <1>2, <1>3, <1>4, <1>5, <1>6, <1>7, <1>8

LEMMA WithheldWithoutApproval ==
  ASSUME NEW ctx, NEW manifest, Consequential(ctx.tool, manifest), ~ctx.approval_valid
  PROVE  Evaluate(ctx, manifest).effect # "ALLOW"
<1>1. ~ClauseHolds("approval", ctx, manifest)
  BY DEF ClauseHolds
<1>2. "approval" \in Failing(ctx, manifest)
  BY <1>1 DEF Failing, Rank
<1> QED
  BY <1>2 DEF Evaluate

LEMMA AskedForOnlyWhenNeeded ==
  ASSUME NEW ctx, NEW manifest,
         Evaluate(ctx, manifest).effect = "APPROVAL_REQUIRED"
  PROVE  Consequential(ctx.tool, manifest)
<1> DEFINE failing == Failing(ctx, manifest)
           first   == CHOOSE k \in failing : \A j \in failing : Rank[k] <= Rank[j]
<1>1. failing # {} /\ first \in {"human_gate", "approval"}
  BY DEF Evaluate
<1>2. failing \subseteq DOMAIN Rank
  BY DEF Failing
<1>3. first \in failing
  BY <1>1, <1>2, SomeClauseIsFirst
<1>4. ~ClauseHolds("human_gate", ctx, manifest) \/ ~ClauseHolds("approval", ctx, manifest)
  BY <1>1, <1>3 DEF Failing
<1> QED
  BY <1>4 DEF ClauseHolds

LEMMA PilotAsks ==
  ASSUME NEW c \in Calls
  PROVE  /\ NeedsApproval(c) => PilotEffect(c, FALSE) # "ALLOW"
         /\ PilotEffect(c, FALSE) = "APPROVAL_REQUIRED" => NeedsApproval(c)
<1> DEFINE sent == PilotSent[c]
           meta == PilotMeta(sent.tool)
           ctx  == [authenticated |-> sent.user # "anonymous",
                    entitlements |-> sent.entitlements, tool |-> sent.tool,
                    scope |-> meta.scope, purpose |-> meta.purpose, classes |-> meta.classes,
                    region |-> PilotRegion, consent |-> TRUE, budget_ok |-> TRUE,
                    approval_valid |-> FALSE]
<1>1. ctx.tool = sent.tool /\ ~ctx.approval_valid
  OBVIOUS
<1>2. PilotEffect(c, FALSE) = Evaluate(ctx, PilotManifest).effect
  BY DEF PilotEffect
<1>3. NeedsApproval(c) <=> Consequential(ctx.tool, PilotManifest)
  BY <1>1 DEF NeedsApproval, Consequential
<1> HIDE DEF ctx
<1> QED
  BY <1>1, <1>2, <1>3, WithheldWithoutApproval, AskedForOnlyWhenNeeded

-----------------------------------------------------------------------------
(***************************************************************************)
(* The inductive invariant.  What an invocation of the reviewer Lambda and *)
(* an activation of the handler past each point have behind them.          *)
(***************************************************************************)
Issuers == {"recording", "releasing", "closing", "200"}

AttemptLineage(a) ==
  /\ at[a] \in Running => Reviews[a].request \in Requests
  /\ at[a] = "issuing" \/ a \in issued =>
       /\ Reviews[a].request \in Requests
       /\ Reviews[a].supervisor
       /\ Reviews[a].reviewer # Filed[Reviews[a].request].requester
  /\ at[a] \in Issuers => a \in issued
  /\ a \in issued => at[a] \in Issuers \cup {"replayed", "409", "500"}
  /\ at[a] \in {"replayed", "409"} => DecisionsOn(Reviews[a].request) # {}
  /\ at[a] \in {"closing", "200"} =>
       /\ wf[Reviews[a].request] \in Opened
       /\ \A b \in Attempts \ {a} : at[b] \in {"closing", "200"} =>
            Reviews[b].request # Reviews[a].request

RequestLineage(r) ==
  /\ ledger[r].state # "absent" => DecisionsOn(r) # {}
  /\ wf[r] \in Opened => DecisionsOn(r) # {}

CallLineage(c) ==
  /\ step[c] = "consuming" => NeedsApproval(c)
  /\ NeedsApproval(c) /\ (step[c] \in {"allowing", "executing"} \/ c \in ran) => c \in taken
  /\ c \in taken =>
       /\ NeedsApproval(c)
       /\ step[c] \notin {"idle", "consuming"}
       /\ PilotSent[c].approval \in Requests
       /\ DecisionsOn(PilotSent[c].approval) # {}
       /\ Filed[PilotSent[c].approval].requester = PilotSent[c].user
       /\ Filed[PilotSent[c].approval].agent = AgentId
       /\ Filed[PilotSent[c].approval].tool = PilotSent[c].tool
       /\ Filed[PilotSent[c].approval].args = PilotSent[c].args
       /\ Filed[PilotSent[c].approval].purpose = PilotMeta(PilotSent[c].tool).purpose
  /\ step[c] = "executing" \/ c \in ran => rows[c] = "allow"
  /\ c \in ran => step[c] = "answered"

HostedLineage ==
  /\ IsFiniteSet(issued)
  /\ \A a \in Attempts : AttemptLineage(a)
  /\ \A r \in Requests : RequestLineage(r)
  /\ \A c \in Calls : CallLineage(c)

HostedInv == HostedTypeOK /\ HostedLineage
-----------------------------------------------------------------------------
\* Types.

LEMMA DeadlinesAreTimes ==
  ASSUME clock \in Nat
  PROVE  Min({clock + GateTtl, MaxTime}) \in Nat
<1> DEFINE S == {clock + GateTtl, MaxTime}
<1>1. clock + GateTtl \in Nat /\ MaxTime \in Nat
  BY ServiceAssumption
<1>2. \E x \in S : \A y \in S : x <= y
  BY <1>1
<1>3. Min(S) \in S
  BY <1>2 DEF Min
<1> QED
  BY <1>1, <1>3

LEMMA AuditedTypes ==
  ASSUME ServiceTypeOK, NEW a \in Attempts, Reviews[a].request \in Requests,
         NEW seq \in Seqs, Audited(a, seq)
  PROVE  trail' \in [Requests \X Seqs -> Attempts \cup {Workflow, NoWriter}]
<1>1. <<Reviews[a].request, seq>> \in Requests \X Seqs
  OBVIOUS
<1> QED
  BY <1>1 DEF Audited, ServiceTypeOK

LEMMA WorkerPutTypes ==
  ASSUME ServiceTypeOK, NEW r \in Requests, NEW seq \in Seqs,
         WorkerPut(r, seq) \/ UNCHANGED trail
  PROVE  trail' \in [Requests \X Seqs -> Attempts \cup {Workflow, NoWriter}]
<1>1. <<r, seq>> \in Requests \X Seqs
  OBVIOUS
<1> QED
  BY <1>1 DEF WorkerPut, ServiceTypeOK

LEMMA WorkflowTypes ==
  ASSUME ServiceTypeOK, NEW r \in Requests, WorkflowStep(r) \/ Sweep(r)
  PROVE  ServiceTypeOK'
<1> USE ServiceAssumption DEF ServiceTypeOK, WorkflowTo, Opened, Ended
<1>1. CASE Classify(r)
  <2>1. WorkerPut(r, 0) \/ UNCHANGED trail
    BY <1>1 DEF Classify
  <2>2. trail' \in [Requests \X Seqs -> Attempts \cup {Workflow, NoWriter}]
    BY <2>1, WorkerPutTypes DEF Seqs
  <2>3. wf' \in [Requests -> {"idle", "opening", "gate"} \cup Opened \cup Ended]
    BY <1>1 DEF Classify
  <2> QED
    BY <1>1, <2>2, <2>3 DEF Classify
<1>2. CASE OpenGate(r)
  <2>1. deadline' \in [Requests -> Nat]
    BY <1>2, DeadlinesAreTimes DEF OpenGate
  <2>2. wf' \in [Requests -> {"idle", "opening", "gate"} \cup Opened \cup Ended]
    BY <1>2 DEF OpenGate
  <2>3. pending' \in [Requests -> {"absent", "pending", "consumed"}]
    BY <1>2 DEF OpenGate
  <2> QED
    BY <1>2, <2>1, <2>2, <2>3 DEF OpenGate
<1>3. CASE GateTimesOut(r)
  BY <1>3 DEF GateTimesOut
<1>4. CASE Finalize(r)
  <2>1. WorkerPut(r, 2) \/ UNCHANGED trail
    BY <1>4 DEF Finalize
  <2>2. trail' \in [Requests \X Seqs -> Attempts \cup {Workflow, NoWriter}]
    BY <2>1, WorkerPutTypes DEF Seqs
  <2>3. wf' \in [Requests -> {"idle", "opening", "gate"} \cup Opened \cup Ended]
    BY <1>4 DEF Finalize
  <2> QED
    BY <1>4, <2>2, <2>3 DEF Finalize
<1>5. CASE Sweep(r)
  BY <1>5 DEF Sweep, NoRow
<1> QED
  BY <1>1, <1>2, <1>3, <1>4, <1>5 DEF WorkflowStep

LEMMA AttemptTypes ==
  ASSUME ServiceTypeOK, NEW a \in Attempts, AttemptLineage(a),
         Ask(a) \/ AttemptStep(a) \/ AttemptDies(a)
  PROVE  ServiceTypeOK'
<1> USE ServiceAssumption DEF ServiceTypeOK, AttemptTo, Running, Answers
<1>1. at[a] \in Running => Reviews[a].request \in Requests
  BY DEF AttemptLineage
<1>2. CASE Ask(a) \/ ReadGate(a) \/ AttemptDies(a)
  <2>1. at' \in [Attempts -> {"idle"} \cup Running \cup Answers]
    BY <1>2 DEF Ask, ReadGate, AttemptDies
  <2> QED
    BY <1>2, <2>1 DEF Ask, ReadGate, AttemptDies
<1>3. CASE Deny(a)
  <2>1. /\ at[a] \in Running
        /\ at' \in [Attempts -> {"idle"} \cup Running \cup Answers]
    BY <1>3 DEF Deny
  <2>2. PICK seq \in Seqs : Audited(a, seq)
    BY <1>3 DEF Deny, Seqs
  <2>3. trail' \in [Requests \X Seqs -> Attempts \cup {Workflow, NoWriter}]
    BY <1>1, <2>1, <2>2, AuditedTypes
  <2> QED
    BY <1>3, <2>1, <2>3 DEF Deny
<1>4. CASE Issue(a)
  <2> DEFINE r   == Reviews[a].request
             row == [state |-> "fresh", expires |-> clock + ApprovalTtl]
  <2>1. CASE ledger[r].state = "absent"
    <3>1. /\ \/ at' = [at EXCEPT ![a] = "recording"]
             \/ at' = [at EXCEPT ![a] = "replayed"]
          /\ ledger' = [ledger EXCEPT ![r] = row]
          /\ issued' = issued \cup {a}
      BY <1>4, <2>1 DEF Issue
    <3>2. row \in [state : {"absent", "fresh", "consumed"}, expires : Nat]
      OBVIOUS
    <3>3. ledger' \in [Requests -> [state : {"absent", "fresh", "consumed"}, expires : Nat]]
      BY <3>1, <3>2
    <3>4. at' \in [Attempts -> {"idle"} \cup Running \cup Answers]
      BY <3>1
    <3> QED
      BY <1>4, <3>1, <3>3, <3>4 DEF Issue
  <2>2. CASE ledger[r].state # "absent"
    <3>1. at' = [at EXCEPT ![a] = "replayed"] /\ UNCHANGED <<ledger, issued>>
      BY <1>4, <2>2 DEF Issue
    <3>2. at' \in [Attempts -> {"idle"} \cup Running \cup Answers]
      BY <3>1
    <3> QED
      BY <1>4, <3>1, <3>2 DEF Issue
  <2> QED
    BY <2>1, <2>2
<1>5. CASE RecordApproval(a)
  <2>1. /\ at[a] \in Running
        /\ at' \in [Attempts -> {"idle"} \cup Running \cup Answers]
    BY <1>5 DEF RecordApproval
  <2>2. trail' \in [Requests \X Seqs -> Attempts \cup {Workflow, NoWriter}]
    BY <1>1, <1>5, <2>1, AuditedTypes DEF RecordApproval, Seqs
  <2> QED
    BY <1>5, <2>1, <2>2 DEF RecordApproval
<1>6. CASE Release(a)
  <2>1. at' \in [Attempts -> {"idle"} \cup Running \cup Answers]
    BY <1>6 DEF Release
  <2>2. wf' \in [Requests -> {"idle", "opening", "gate"} \cup Opened \cup Ended]
    BY <1>6 DEF Release, WorkflowTo, Opened
  <2> QED
    BY <1>6, <2>1, <2>2 DEF Release
<1>7. CASE Close(a)
  <2>1. at' \in [Attempts -> {"idle"} \cup Running \cup Answers]
    BY <1>7 DEF Close
  <2>2. pending' \in [Requests -> {"absent", "pending", "consumed"}]
    BY <1>7 DEF Close
  <2> QED
    BY <1>7, <2>1, <2>2 DEF Close
<1> QED
  BY <1>2, <1>3, <1>4, <1>5, <1>6, <1>7 DEF AttemptStep

LEMMA CallTypes ==
  ASSUME HandlerTypeOK, NEW c \in Calls, Receive(c) \/ CallStep(c) \/ CallDies(c)
  PROVE  HandlerTypeOK'
<1> USE DEF HandlerTypeOK, CallTo
<1>1. CASE Receive(c)
  BY <1>1 DEF Receive
<1>2. CASE ConsumeApproval(c)
  BY <1>2 DEF ConsumeApproval
<1>3. CASE AuditRow(c)
  BY <1>3 DEF AuditRow
<1>4. CASE Execute(c)
  BY <1>4 DEF Execute
<1>5. CASE CallDies(c)
  BY <1>5 DEF CallDies
<1> QED
  BY <1>1, <1>2, <1>3, <1>4, <1>5 DEF CallStep

LEMMA LedgerTypes ==
  ASSUME ServiceTypeOK, NEW c \in Calls, Receive(c) \/ CallStep(c) \/ CallDies(c)
  PROVE  ServiceTypeOK'
<1>1. CASE ConsumeApproval(c) /\ PilotConsumable(c)
           /\ ledger' = [ledger EXCEPT ![PilotSent[c].approval].state = "consumed"]
  BY <1>1 DEF ConsumeApproval, PilotConsumable, ServiceTypeOK
<1>2. CASE UNCHANGED serviceVars
  BY <1>2 DEF serviceVars, ServiceTypeOK
<1> QED
  BY <1>1, <1>2
  DEF Receive, CallStep, ConsumeApproval, AuditRow, Execute, CallDies, serviceVars

-----------------------------------------------------------------------------
(***************************************************************************)
(* Lineage.  A gate that is open stays open, a decision stays made.        *)
(***************************************************************************)
LEMMA GatesStayOpen ==
  ASSUME ServiceTypeOK, NEW r \in Requests, WorkflowStep(r) \/ Sweep(r), NEW q \in Requests
  PROVE  /\ wf'[q] \in Opened <=> wf[q] \in Opened
         /\ UNCHANGED <<at, issued>>
         /\ ledger'[q].state # "absent" => ledger[q].state # "absent"
<1> USE DEF ServiceTypeOK, WorkflowTo, Opened
<1>1. CASE Classify(r)
  BY <1>1 DEF Classify
<1>2. CASE OpenGate(r)
  BY <1>2 DEF OpenGate
<1>3. CASE GateTimesOut(r)
  BY <1>3 DEF GateTimesOut
<1>4. CASE Finalize(r)
  BY <1>4 DEF Finalize
<1>5. CASE Sweep(r)
  BY <1>5 DEF Sweep, NoRow
<1> QED
  BY <1>1, <1>2, <1>3, <1>4, <1>5 DEF WorkflowStep

LEMMA WorkflowLineage ==
  ASSUME HostedInv, NEW r \in Requests, WorkflowStep(r) \/ Sweep(r)
  PROVE  /\ IsFiniteSet(issued')
         /\ \A a \in Attempts : AttemptLineage(a)'
         /\ \A q \in Requests : RequestLineage(q)'
<1>1. /\ UNCHANGED <<at, issued>>
      /\ \A q \in Requests :
           /\ wf'[q] \in Opened <=> wf[q] \in Opened
           /\ ledger'[q].state # "absent" => ledger[q].state # "absent"
  BY GatesStayOpen DEF HostedInv, HostedTypeOK
<1>2. \A a \in Attempts : AttemptLineage(a)'
  <2> SUFFICES ASSUME NEW a \in Attempts PROVE AttemptLineage(a)'
    OBVIOUS
  <2>1. at[a] \in {"closing", "200"} => Reviews[a].request \in Requests
    BY DEF HostedInv, HostedLineage, AttemptLineage, Issuers
  <2>2. AttemptLineage(a) /\ \A q : DecisionsOn(q)' = DecisionsOn(q)
    BY <1>1 DEF HostedInv, HostedLineage, DecisionsOn
  <2> QED
    BY <1>1, <2>1, <2>2 DEF AttemptLineage
<1>3. \A q \in Requests : RequestLineage(q)'
  BY <1>1 DEF HostedInv, HostedLineage, RequestLineage, DecisionsOn
<1> QED
  BY <1>1, <1>2, <1>3 DEF HostedInv, HostedLineage

\* A step of an invocation that neither issues nor opens a gate.
LEMMA AttemptMoves ==
  ASSUME HostedInv, NEW a \in Attempts, UNCHANGED <<wf, issued>>,
         NEW to, at[a] # "500", at' = [at EXCEPT ![a] = to],
         to \in {"closing", "200"} => at[a] \in {"closing", "200"},
         to \in Running => Reviews[a].request \in Requests,
         to = "issuing" => /\ Reviews[a].supervisor
                           /\ Reviews[a].reviewer # Filed[Reviews[a].request].requester,
         to \in Issuers => at[a] \in Issuers,
         at[a] \in Issuers => to \in Issuers \cup {"500"},
         at[a] = "replayed" => to \in {"409", "500"},
         at[a] # "409",
         to \in {"replayed", "409"} => DecisionsOn(Reviews[a].request) # {},
         NEW b \in Attempts
  PROVE  AttemptLineage(b)'
<1>1. at \in [Attempts -> {"idle"} \cup Running \cup Answers]
  BY DEF HostedInv, HostedTypeOK, ServiceTypeOK
<1>2. a \in issued => at[a] \in Issuers \cup {"replayed", "409", "500"}
  BY DEF HostedInv, HostedLineage, AttemptLineage
<1>3. /\ AttemptLineage(a) /\ AttemptLineage(b)
      /\ \A q : DecisionsOn(q)' = DecisionsOn(q)
  BY DEF HostedInv, HostedLineage, DecisionsOn
<1>4. CASE b = a
  <2>1. at'[b] = to
    BY <1>1, <1>4
  <2>2. \A d \in Attempts : at'[d] \in {"closing", "200"} => at[d] \in {"closing", "200"}
    BY <1>1
  <2> QED
    BY <1>2, <1>3, <1>4, <2>1, <2>2 DEF AttemptLineage, Issuers, Running
<1>5. CASE b # a
  <2>1. at'[b] = at[b]
    BY <1>1, <1>5
  <2>2. \A d \in Attempts : at'[d] \in {"closing", "200"} => at[d] \in {"closing", "200"}
    BY <1>1
  <2> QED
    BY <1>3, <2>1, <2>2 DEF AttemptLineage
<1> QED
  BY <1>4, <1>5

\* Issuing makes one more decision, on a row that was not there.
LEMMA IssueLineage ==
  ASSUME HostedInv, NEW a \in Attempts, Issue(a), ledger[Reviews[a].request].state = "absent"
  PROVE  /\ IsFiniteSet(issued')
         /\ \A b \in Attempts : AttemptLineage(b)'
         /\ \A q \in Requests : RequestLineage(q)'
<1> DEFINE r == Reviews[a].request
<1>1. /\ at[a] = "issuing"
      /\ \/ at' = [at EXCEPT ![a] = "recording"]
         \/ at' = [at EXCEPT ![a] = "replayed"]
      /\ ledger' = [ledger EXCEPT ![r] = [state |-> "fresh", expires |-> clock + ApprovalTtl]]
      /\ issued' = issued \cup {a} /\ wf' = wf
  BY DEF Issue, AttemptTo
<1>2. /\ at \in [Attempts -> {"idle"} \cup Running \cup Answers]
      /\ ledger \in [Requests -> [state : {"absent", "fresh", "consumed"}, expires : Nat]]
  BY DEF HostedInv, HostedTypeOK, ServiceTypeOK
<1>3. /\ r \in Requests /\ Reviews[a].supervisor
      /\ Reviews[a].reviewer # Filed[r].requester
  BY <1>1 DEF HostedInv, HostedLineage, AttemptLineage
<1>4. IsFiniteSet(issued')
  BY <1>1, FS_AddElement DEF HostedInv, HostedLineage
<1>5. ASSUME NEW b \in Attempts PROVE AttemptLineage(b)'
  <2>1. AttemptLineage(b)
    BY DEF HostedInv, HostedLineage
  <2>2. /\ \A d \in Attempts : at'[d] \in {"closing", "200"} <=> at[d] \in {"closing", "200"}
        /\ \A q : DecisionsOn(q) \subseteq DecisionsOn(q)'
        /\ a \in DecisionsOn(r)'
    BY <1>1, <1>2 DEF DecisionsOn
  <2>3. CASE b = a
    <3>1. at'[b] \in {"recording", "replayed"} /\ b \in issued'
      BY <1>1, <1>2, <2>3
    <3> QED
      BY <1>3, <2>2, <2>3, <3>1 DEF AttemptLineage, Issuers
  <2>4. CASE b # a
    BY <1>1, <1>2, <2>1, <2>2, <2>4 DEF AttemptLineage
  <2> QED
    BY <2>3, <2>4
<1>6. ASSUME NEW q \in Requests PROVE RequestLineage(q)'
  <2>1. RequestLineage(q) /\ DecisionsOn(q) \subseteq DecisionsOn(q)'
    BY <1>1 DEF HostedInv, HostedLineage, DecisionsOn
  <2>2. CASE q = r
    <3>1. a \in DecisionsOn(q)'
      BY <1>1, <2>2 DEF DecisionsOn
    <3> QED
      BY <3>1 DEF RequestLineage
  <2>3. CASE q # r
    BY <1>1, <1>2, <2>1, <2>3 DEF RequestLineage
  <2> QED
    BY <2>2, <2>3
<1> QED
  BY <1>4, <1>5, <1>6

\* The gate that a release opens was shut, so nobody else had opened it.
LEMMA ReleaseLineage ==
  ASSUME HostedInv, NEW a \in Attempts, Release(a), wf[Reviews[a].request] = "gate"
  PROVE  /\ IsFiniteSet(issued')
         /\ \A b \in Attempts : AttemptLineage(b)'
         /\ \A q \in Requests : RequestLineage(q)'
<1> DEFINE r == Reviews[a].request
<1>1. /\ at[a] = "releasing" /\ at' = [at EXCEPT ![a] = "closing"]
      /\ wf' = [wf EXCEPT ![r] = "released"]
      /\ UNCHANGED <<ledger, issued>>
  BY DEF Release, AttemptTo, WorkflowTo
<1>2. /\ at \in [Attempts -> {"idle"} \cup Running \cup Answers]
      /\ wf \in [Requests -> {"idle", "opening", "gate"} \cup Opened \cup Ended]
  BY DEF HostedInv, HostedTypeOK, ServiceTypeOK
<1>3. r \in Requests /\ a \in issued /\ AttemptLineage(a)
  BY <1>1 DEF HostedInv, HostedLineage, AttemptLineage, Running, Issuers
<1>4. \A b \in Attempts : at[b] \in {"closing", "200"} => Reviews[b].request # r
  BY DEF HostedInv, HostedLineage, AttemptLineage, Opened
<1>5. ASSUME NEW b \in Attempts PROVE AttemptLineage(b)'
  <2>1. AttemptLineage(b)
    BY DEF HostedInv, HostedLineage
  <2>2. \A d \in Attempts \ {a} : at'[d] = at[d]
    BY <1>1, <1>2
  <2>3. CASE b = a
    BY <1>1, <1>2, <1>3, <1>4, <2>2, <2>3 DEF AttemptLineage, Issuers, Running, Opened
  <2>4. CASE b # a
    <3>1. at'[b] \in {"closing", "200"} =>
            /\ wf'[Reviews[b].request] \in Opened
            /\ \A d \in Attempts \ {b} : at'[d] \in {"closing", "200"} =>
                 Reviews[d].request # Reviews[b].request
      BY <1>1, <1>2, <1>4, <2>1, <2>2, <2>4 DEF AttemptLineage, Opened
    <3>2. \A q : DecisionsOn(q)' = DecisionsOn(q)
      BY <1>1 DEF DecisionsOn
    <3> QED
      BY <1>1, <2>1, <2>2, <2>4, <3>1, <3>2 DEF AttemptLineage
  <2> QED
    BY <2>3, <2>4
<1>6. ASSUME NEW q \in Requests PROVE RequestLineage(q)'
  <2>1. RequestLineage(q) /\ DecisionsOn(q)' = DecisionsOn(q)
    BY <1>1 DEF HostedInv, HostedLineage, DecisionsOn
  <2>2. CASE q = r
    BY <1>1, <1>3, <2>1, <2>2 DEF RequestLineage, DecisionsOn
  <2>3. CASE q # r
    BY <1>1, <1>2, <2>1, <2>3 DEF RequestLineage
  <2> QED
    BY <2>2, <2>3
<1>7. IsFiniteSet(issued')
  BY <1>1 DEF HostedInv, HostedLineage
<1> QED
  BY <1>5, <1>6, <1>7

LEMMA ReviewerLineage ==
  ASSUME HostedInv, NEW a \in Attempts, Ask(a) \/ AttemptStep(a) \/ AttemptDies(a)
  PROVE  /\ IsFiniteSet(issued')
         /\ \A b \in Attempts : AttemptLineage(b)'
         /\ \A q \in Requests : RequestLineage(q)'
<1>1. AttemptLineage(a) /\ Reviews[a].request \in Requests \cup {NoRequest}
  BY ServiceAssumption DEF HostedInv, HostedLineage
<1>2. UNCHANGED <<wf, issued, ledger>> =>
        IsFiniteSet(issued') /\ \A q \in Requests : RequestLineage(q)'
  BY DEF HostedInv, HostedLineage, RequestLineage, DecisionsOn
<1>3. CASE Ask(a)
  <2>1. /\ at[a] = "idle" /\ UNCHANGED <<wf, issued, ledger>>
        /\ at' = [at EXCEPT ![a] = IF Reviews[a].request = NoRequest THEN "400" ELSE "unread"]
    BY <1>3 DEF Ask, AttemptTo
  <2>2. CASE Reviews[a].request = NoRequest
    <3>1. at' = [at EXCEPT ![a] = "400"]
      BY <2>1, <2>2
    <3> QED
      BY <1>2, <2>1, <3>1, AttemptMoves DEF Issuers, Running
  <2>3. CASE Reviews[a].request \in Requests
    <3>1. at' = [at EXCEPT ![a] = "unread"]
      BY <2>1, <2>3, ServiceAssumption
    <3> QED
      BY <1>2, <2>1, <2>3, <3>1, AttemptMoves DEF Issuers
  <2> QED
    BY <1>1, <2>2, <2>3
<1>4. CASE ReadGate(a)
  <2>1. PICK to \in {"404", "no_role", "own_request", "issuing"} :
          /\ at[a] = "unread" /\ at' = [at EXCEPT ![a] = to]
          /\ to = "issuing" => /\ Reviews[a].supervisor
                              /\ Reviews[a].reviewer # Filed[Reviews[a].request].requester
          /\ UNCHANGED <<wf, issued, ledger>>
    BY <1>4 DEF ReadGate, AttemptTo
  <2>2. Reviews[a].request \in Requests
    BY <1>1, <2>1 DEF AttemptLineage, Running
  <2>3. \A b \in Attempts : AttemptLineage(b)'
    BY <2>1, <2>2, AttemptMoves DEF Issuers
  <2> QED
    BY <1>2, <2>1, <2>3
<1>5. CASE Deny(a) \/ RecordApproval(a) \/ Close(a) \/ AttemptDies(a)
  <2>1. PICK to \in {"403", "409", "releasing", "200", "500"} :
          /\ at[a] \in Running /\ at' = [at EXCEPT ![a] = to]
          /\ to = "403" => at[a] \in {"no_role", "own_request"}
          /\ to = "409" <=> at[a] = "replayed" /\ to # "500"
          /\ to = "releasing" => at[a] = "recording"
          /\ to = "200" => at[a] = "closing"
          /\ UNCHANGED <<wf, issued>>
    BY <1>5 DEF Deny, RecordApproval, Close, AttemptDies, AttemptTo, Running, Issuers
  <2>2. UNCHANGED <<wf, issued, ledger>>
    BY <1>5 DEF Deny, RecordApproval, Close, AttemptDies
  <2>3. Reviews[a].request \in Requests /\ at[a] # "500"
    BY <1>1, <2>1 DEF AttemptLineage, Running
  <2>4. to = "409" => DecisionsOn(Reviews[a].request) # {}
    BY <1>1, <2>1 DEF AttemptLineage
  <2>5. \A b \in Attempts : AttemptLineage(b)'
    BY <2>1, <2>2, <2>3, <2>4, AttemptMoves DEF Issuers, Running
  <2> QED
    BY <1>2, <2>2, <2>5
<1>6. CASE Issue(a)
  <2>1. CASE ledger[Reviews[a].request].state = "absent"
    BY <1>6, <2>1, IssueLineage
  <2>2. CASE ledger[Reviews[a].request].state # "absent"
    <3>1. /\ at[a] = "issuing" /\ at' = [at EXCEPT ![a] = "replayed"]
          /\ UNCHANGED <<wf, issued, ledger>>
      BY <1>6, <2>2 DEF Issue, AttemptTo
    <3>2. Reviews[a].request \in Requests /\ DecisionsOn(Reviews[a].request) # {}
      BY <1>1, <2>2, <3>1 DEF AttemptLineage, HostedInv, HostedLineage, RequestLineage
    <3>3. \A b \in Attempts : AttemptLineage(b)'
      BY <3>1, <3>2, AttemptMoves DEF Issuers
    <3> QED
      BY <1>2, <3>1, <3>3
  <2> QED
    BY <2>1, <2>2
<1>7. CASE Release(a)
  <2>1. CASE wf[Reviews[a].request] = "gate"
    BY <1>7, <2>1, ReleaseLineage
  <2>2. CASE wf[Reviews[a].request] # "gate"
    <3>1. /\ at[a] = "releasing" /\ at' = [at EXCEPT ![a] = "500"]
          /\ UNCHANGED <<wf, issued, ledger>>
      BY <1>7, <2>2 DEF Release, AttemptTo, WorkflowTo
    <3>2. \A b \in Attempts : AttemptLineage(b)'
      BY <3>1, AttemptMoves DEF Issuers, Running
    <3> QED
      BY <1>2, <3>1, <3>2
  <2> QED
    BY <2>1, <2>2
<1> QED
  BY <1>3, <1>4, <1>5, <1>6, <1>7 DEF AttemptStep

\* The handler: what it consumed was fresh, so some decision had made it.
LEMMA HandlerKeepsRequests ==
  ASSUME HostedInv, NEW c \in Calls, Receive(c) \/ CallStep(c) \/ CallDies(c)
  PROVE  /\ UNCHANGED <<wf, at, issued>>
         /\ \A r \in Requests : RequestLineage(r)'
<1>1. /\ UNCHANGED <<wf, at, issued>>
      /\ \A r \in Requests : ledger'[r].state # "absent" => ledger[r].state # "absent"
  <2>1. CASE ConsumeApproval(c) /\ PilotConsumable(c)
             /\ ledger' = [ledger EXCEPT ![PilotSent[c].approval].state = "consumed"]
    BY <2>1 DEF ConsumeApproval, PilotConsumable, HostedInv, HostedTypeOK, ServiceTypeOK
  <2>2. CASE UNCHANGED serviceVars
    BY <2>2 DEF serviceVars
  <2> QED
    BY <2>1, <2>2
    DEF Receive, CallStep, ConsumeApproval, AuditRow, Execute, CallDies, serviceVars
<1> QED
  BY <1>1 DEF HostedInv, HostedLineage, RequestLineage, DecisionsOn

LEMMA OtherCallsLineage ==
  ASSUME HostedInv, NEW c \in Calls, Receive(c) \/ CallStep(c) \/ CallDies(c),
         NEW b \in Calls \ {c}
  PROVE  CallLineage(b)'
<1>1. /\ step'[b] = step[b] /\ rows'[b] = rows[b] /\ issued' = issued
      /\ b \in taken' <=> b \in taken
      /\ b \in ran' <=> b \in ran
  <2> USE DEF HostedInv, HostedTypeOK, HandlerTypeOK, CallTo, serviceVars
  <2>1. CASE Receive(c)
    BY <2>1 DEF Receive
  <2>2. CASE ConsumeApproval(c)
    BY <2>2 DEF ConsumeApproval
  <2>3. CASE AuditRow(c)
    BY <2>3 DEF AuditRow
  <2>4. CASE Execute(c)
    BY <2>4 DEF Execute
  <2>5. CASE CallDies(c)
    BY <2>5 DEF CallDies
  <2> QED
    BY <2>1, <2>2, <2>3, <2>4, <2>5 DEF CallStep
<1>2. CallLineage(b)
  BY DEF HostedInv, HostedLineage
<1> QED
  BY <1>1, <1>2 DEF CallLineage, DecisionsOn

LEMMA OwnCallLineage ==
  ASSUME HostedInv, NEW c \in Calls, Receive(c) \/ CallStep(c) \/ CallDies(c)
  PROVE  CallLineage(c)'
<1> USE DEF HostedInv, HostedTypeOK, HandlerTypeOK, CallTo, serviceVars
<1>1. CallLineage(c)
  BY DEF HostedLineage
<1>2. CASE Receive(c)
  <2>1. /\ step[c] = "idle" /\ UNCHANGED <<issued, rows, taken, ran>>
        /\ step'[c] \in {"answered", "denying", "listing", "allowing", "consuming"}
        /\ step'[c] = "allowing" => PilotEffect(c, FALSE) = "ALLOW"
        /\ step'[c] = "consuming" => PilotEffect(c, FALSE) = "APPROVAL_REQUIRED"
    BY <1>2 DEF Receive
  <2> QED
    BY <1>1, <2>1, PilotAsks DEF CallLineage
<1>3. CASE ConsumeApproval(c)
  <2>1. /\ step[c] = "consuming" /\ UNCHANGED <<issued, rows, ran>>
        /\ step'[c] \in {"allowing", "denying"}
    BY <1>3 DEF ConsumeApproval
  <2>2. NeedsApproval(c) /\ c \notin taken /\ c \notin ran
    BY <1>1, <2>1 DEF CallLineage
  <2>3. CASE PilotConsumable(c) /\ taken' = taken \cup {c}
    <3> DEFINE r == PilotSent[c].approval
    <3>1. r \in Requests /\ ledger[r].state # "absent"
      BY <2>3 DEF PilotConsumable
    <3>2. DecisionsOn(r) # {}
      BY <3>1 DEF HostedLineage, RequestLineage
    <3>3. /\ Filed[r].requester = PilotSent[c].user
          /\ Filed[r].agent = AgentId
          /\ Filed[r].tool = PilotSent[c].tool
          /\ Filed[r].args = PilotSent[c].args
          /\ Filed[r].purpose = PilotMeta(PilotSent[c].tool).purpose
      BY <2>3 DEF PilotConsumable
    <3> QED
      BY <2>1, <2>2, <2>3, <3>1, <3>2, <3>3 DEF CallLineage, DecisionsOn
  <2>4. CASE step'[c] = "denying" /\ taken' = taken
    BY <2>1, <2>2, <2>4 DEF CallLineage
  <2> QED
    BY <1>3, <2>1, <2>3, <2>4 DEF ConsumeApproval
<1>4. CASE AuditRow(c)
  <2>1. CASE step[c] = "allowing"
    <3>1. /\ step'[c] = "executing" /\ rows'[c] = "allow"
          /\ UNCHANGED <<issued, taken, ran>>
      BY <1>4, <2>1 DEF AuditRow
    <3> QED
      BY <1>1, <2>1, <3>1 DEF CallLineage, DecisionsOn
  <2>2. CASE step[c] \in {"listing", "denying"}
    <3>1. step'[c] = "answered" /\ UNCHANGED <<issued, taken, ran>>
      BY <1>4, <2>2 DEF AuditRow
    <3> QED
      BY <1>1, <2>2, <3>1 DEF CallLineage, DecisionsOn
  <2> QED
    BY <1>4, <2>1, <2>2 DEF AuditRow
<1>5. CASE Execute(c)
  <2>1. /\ step[c] = "executing" /\ step'[c] = "answered"
        /\ UNCHANGED <<issued, rows, taken>> /\ ran' = ran \cup {c}
    BY <1>5 DEF Execute
  <2> QED
    BY <1>1, <2>1 DEF CallLineage, DecisionsOn
<1>6. CASE CallDies(c)
  <2>1. /\ step[c] \notin {"idle", "answered"} /\ step'[c] = "dead"
        /\ UNCHANGED <<issued, rows, taken, ran>>
    BY <1>6 DEF CallDies
  <2> QED
    BY <1>1, <2>1 DEF CallLineage, DecisionsOn
<1> QED
  BY <1>2, <1>3, <1>4, <1>5, <1>6 DEF CallStep

\* A reviewer's step takes no decision back.
LEMMA ReviewersKeepCalls ==
  ASSUME HostedInv, UNCHANGED handlerVars, issued \subseteq issued', NEW c \in Calls
  PROVE  CallLineage(c)'
<1>1. /\ CallLineage(c)
      /\ \A r : DecisionsOn(r) \subseteq DecisionsOn(r)'
  BY DEF HostedInv, HostedLineage, DecisionsOn
<1> QED
  BY <1>1 DEF CallLineage, handlerVars

LEMMA DecisionsStay ==
  ASSUME NEW a \in Attempts, Ask(a) \/ AttemptStep(a) \/ AttemptDies(a)
  PROVE  issued \subseteq issued'
BY DEF Ask, AttemptStep, AttemptDies, ReadGate, Deny, Issue, RecordApproval, Release, Close

-----------------------------------------------------------------------------
LEMMA HostedInvInit == Init => HostedInv
<1> SUFFICES ASSUME Init PROVE HostedInv
  OBVIOUS
<1> USE DEF Init, ServiceInit, HandlerInit
<1>1. ServiceTypeOK
  BY ServiceAssumption DEF ServiceTypeOK, NoRow, Seqs
<1>2. HandlerTypeOK
  BY DEF HandlerTypeOK
<1>3. IsFiniteSet(issued)
  BY FS_EmptySet
<1>4. \A a \in Attempts : AttemptLineage(a)
  BY DEF AttemptLineage, Running, Issuers
<1>5. \A r \in Requests : RequestLineage(r)
  BY DEF RequestLineage, NoRow, Opened
<1>6. \A c \in Calls : CallLineage(c)
  BY DEF CallLineage
<1> QED
  BY <1>1, <1>2, <1>3, <1>4, <1>5, <1>6 DEF HostedInv, HostedTypeOK, HostedLineage

LEMMA HostedInvStep == HostedInv /\ [Next]_hostedVars => HostedInv'
<1> SUFFICES ASSUME HostedInv, [Next]_hostedVars PROVE HostedInv'
  OBVIOUS
<1> USE DEF HostedInv, HostedTypeOK
<1>1. ASSUME NEW r \in Requests, WorkflowStep(r) \/ Sweep(r), UNCHANGED handlerVars
      PROVE  HostedInv'
  <2>1. ServiceTypeOK'
    BY <1>1, WorkflowTypes
  <2>2. HandlerTypeOK'
    BY <1>1 DEF HandlerTypeOK, handlerVars
  <2>3. issued' = issued
    BY <1>1, GatesStayOpen
  <2>4. \A c \in Calls : CallLineage(c)'
    BY <1>1, <2>3, ReviewersKeepCalls
  <2> QED
    BY <1>1, <2>1, <2>2, <2>4, WorkflowLineage DEF HostedLineage
<1>2. ASSUME NEW a \in Attempts, Ask(a) \/ AttemptStep(a) \/ AttemptDies(a),
             UNCHANGED handlerVars
      PROVE  HostedInv'
  <2>1. ServiceTypeOK'
    BY <1>2, AttemptTypes DEF HostedLineage
  <2>2. HandlerTypeOK'
    BY <1>2 DEF HandlerTypeOK, handlerVars
  <2>3. \A c \in Calls : CallLineage(c)'
    BY <1>2, DecisionsStay, ReviewersKeepCalls
  <2> QED
    BY <1>2, <2>1, <2>2, <2>3, ReviewerLineage DEF HostedLineage
<1>3. ASSUME NEW c \in Calls, Receive(c) \/ CallStep(c) \/ CallDies(c)
      PROVE  HostedInv'
  <2>1. ServiceTypeOK' /\ HandlerTypeOK'
    BY <1>3, LedgerTypes, CallTypes
  <2>2. /\ UNCHANGED <<wf, at, issued>>
        /\ \A r \in Requests : RequestLineage(r)'
    BY <1>3, HandlerKeepsRequests
  <2>3. IsFiniteSet(issued)' /\ \A a \in Attempts : AttemptLineage(a)'
    BY <2>2 DEF HostedLineage, AttemptLineage, DecisionsOn
  <2>4. \A b \in Calls : CallLineage(b)'
    BY <1>3, OtherCallsLineage, OwnCallLineage
  <2> QED
    BY <2>1, <2>2, <2>3, <2>4 DEF HostedLineage
<1>4. CASE Tick /\ UNCHANGED handlerVars
  <2>1. /\ UNCHANGED <<wf, deadline, pending, ledger, trail, at, issued>>
        /\ clock' = clock + 1 /\ UNCHANGED <<step, rows, taken, ran>>
    BY <1>4 DEF Tick, handlerVars
  <2>2. ServiceTypeOK' /\ HandlerTypeOK'
    BY <2>1 DEF ServiceTypeOK, HandlerTypeOK
  <2>3. HostedLineage'
    BY <2>1 DEF HostedLineage, AttemptLineage, RequestLineage, CallLineage, DecisionsOn
  <2> QED
    BY <2>2, <2>3
<1>5. CASE UNCHANGED hostedVars
  <2>1. ServiceTypeOK' /\ HandlerTypeOK'
    BY <1>5 DEF hostedVars, serviceVars, handlerVars, ServiceTypeOK, HandlerTypeOK
  <2>2. HostedLineage'
    BY <1>5 DEF hostedVars, serviceVars, handlerVars, HostedLineage, AttemptLineage,
                RequestLineage, CallLineage, DecisionsOn
  <2> QED
    BY <2>1, <2>2
<1> QED
  BY <1>1, <1>2, <1>3, <1>4, <1>5 DEF Next, ReviewStep, PilotStep

\* The state of the hosted path is well typed and what got past each point has
\* its decision behind it, in every reachable state.
THEOREM HostedInvHolds == Spec => []HostedInv
<1> QED
  BY HostedInvInit, HostedInvStep, PTL DEF Spec

\* Types of the shared tables, the workflows and both Lambdas.
THEOREM HostedTypesHold == Spec => []HostedTypeOK
<1>1. HostedInv => HostedTypeOK
  BY DEF HostedInv
<1> QED
  BY <1>1, HostedInvHolds, PTL

\* A consequential tool that ran had a decision on that very action (requester,
\* agent, tool, arguments and purpose) by a supervisor other than the requester
\* (handler.py:165).
THEOREM RunsWereReviewedHolds == Spec => []RunsWereReviewed
<1>1. ASSUME HostedInv, NEW c \in ran, NeedsApproval(c)
      PROVE  \E r \in Requests :
               /\ PilotSent[c].approval = r
               /\ Filed[r].requester = PilotSent[c].user
               /\ Filed[r].agent = AgentId
               /\ Filed[r].tool = PilotSent[c].tool
               /\ Filed[r].args = PilotSent[c].args
               /\ Filed[r].purpose = PilotMeta(PilotSent[c].tool).purpose
               /\ \E a \in DecisionsOn(r) :
                    Reviews[a].supervisor /\ Reviews[a].reviewer # Filed[r].requester
  <2> DEFINE r == PilotSent[c].approval
  <2>1. c \in Calls
    BY <1>1 DEF HostedInv, HostedTypeOK, HandlerTypeOK
  <2>2. /\ r \in Requests /\ DecisionsOn(r) # {}
        /\ Filed[r].requester = PilotSent[c].user
        /\ Filed[r].agent = AgentId
        /\ Filed[r].tool = PilotSent[c].tool
        /\ Filed[r].args = PilotSent[c].args
        /\ Filed[r].purpose = PilotMeta(PilotSent[c].tool).purpose
    BY <1>1, <2>1 DEF HostedInv, HostedLineage, CallLineage
  <2>3. PICK a \in DecisionsOn(r) : TRUE
    BY <2>2
  <2>4. a \in issued /\ a \in Attempts /\ Reviews[a].request = r
    BY <1>1, <2>3 DEF DecisionsOn, HostedInv, HostedTypeOK, ServiceTypeOK
  <2>5. Reviews[a].supervisor /\ Reviews[a].reviewer # Filed[r].requester
    BY <1>1, <2>4 DEF HostedInv, HostedLineage, AttemptLineage
  <2> QED
    BY <2>2, <2>3, <2>5
<1>2. HostedInv => RunsWereReviewed
  BY <1>1 DEF RunsWereReviewed
<1> QED
  BY <1>2, HostedInvHolds, PTL

\* No tool runs before its "allow" row is written (handler.py:293).
THEOREM RecordedBeforeRunHolds == Spec => []RecordedBeforeRun
<1>1. HostedInv => RecordedBeforeRun
  BY DEF HostedInv, HostedTypeOK, HandlerTypeOK, HostedLineage, CallLineage,
         RecordedBeforeRun
<1> QED
  BY <1>1, HostedInvHolds, PTL

\* A reviewer answered APPROVE opened the gate, alone; an approval behind a gate
\* that never opened is of an invocation that did not finish or met its own row;
\* a refusal other than the replay's issued nothing (reviewer-service.yaml:210-218).
THEOREM ApprovedMeansReleasedHolds == Spec => []ApprovedMeansReleased
<1>1. ASSUME HostedInv, NEW a \in Attempts, at[a] = "200"
      PROVE  /\ a \in issued
             /\ wf[Reviews[a].request] \in Opened
             /\ \A b \in Attempts \ {a} :
                  at[b] = "200" => Reviews[b].request # Reviews[a].request
  BY <1>1 DEF HostedInv, HostedLineage, AttemptLineage, Issuers
<1>2. ASSUME HostedInv, NEW r \in Requests, ledger[r].state # "absent", wf[r] = "failed"
      PROVE  \E a \in DecisionsOn(r) :
               at[a] \in {"recording", "releasing", "replayed", "409", "500"}
  <2>1. PICK a \in DecisionsOn(r) : TRUE
    BY <1>2 DEF HostedInv, HostedLineage, RequestLineage
  <2>2. a \in issued /\ a \in Attempts /\ Reviews[a].request = r
    BY <1>2, <2>1 DEF DecisionsOn, HostedInv, HostedTypeOK, ServiceTypeOK
  <2>3. /\ at[a] \in Issuers \cup {"replayed", "409", "500"}
        /\ at[a] \in {"closing", "200"} => wf[r] \in Opened
    BY <1>2, <2>2 DEF HostedInv, HostedLineage, AttemptLineage
  <2>4. at[a] \in {"recording", "releasing", "replayed", "409", "500"}
    BY <1>2, <2>3 DEF Issuers, Opened
  <2> QED
    BY <2>1, <2>4
<1>3. ASSUME HostedInv, NEW a \in Attempts
      PROVE  /\ at[a] = "409" => DecisionsOn(Reviews[a].request) # {}
             /\ at[a] \in {"400", "403", "404"} => a \notin issued
  BY <1>3 DEF HostedInv, HostedLineage, AttemptLineage, Issuers
<1>4. HostedInv => ApprovedMeansReleased
  BY <1>1, <1>2, <1>3 DEF ApprovedMeansReleased
<1> QED
  BY <1>4, HostedInvHolds, PTL

-----------------------------------------------------------------------------
(***************************************************************************)
(* The refinement: each step of the hosted path is one of GrantPromise, or *)
(* changes nothing that GrantPromise sees.                                 *)
(***************************************************************************)
GrantOf(r) == CASE ledger[r].state = "absent" -> "none"
                [] ledger[r].state = "fresh" -> "live"
                [] ledger[r].state = "consumed" -> "spent"

SeenUnchanged == /\ \A r \in Requests : /\ ledger'[r].state = ledger[r].state
                                        /\ wf'[r] \in Opened <=> wf[r] \in Opened
                 /\ UNCHANGED <<issued, taken, ran>>

LEMMA SeenUnchangedStutters == SeenUnchanged => UNCHANGED Promise!promiseVars
<1> SUFFICES ASSUME SeenUnchanged PROVE UNCHANGED Promise!promiseVars
  OBVIOUS
<1>1. \A r \in Requests : GrantOf(r)' = GrantOf(r)
  BY DEF SeenUnchanged, GrantOf
<1>2. \A r \in Requests : Cardinality(DecisionsOn(r)') = Cardinality(DecisionsOn(r))
  BY DEF SeenUnchanged, DecisionsOn
<1>3. {r \in Requests : wf'[r] \in Opened} = {r \in Requests : wf[r] \in Opened}
  BY DEF SeenUnchanged
<1>4. [r \in Requests |-> GrantOf(r)'] = [r \in Requests |-> GrantOf(r)]
  BY <1>1
<1>5. [r \in Requests |-> Cardinality(DecisionsOn(r)')]
        = [r \in Requests |-> Cardinality(DecisionsOn(r))]
  BY <1>2
<1>6. taken' = taken /\ ran' = ran
  BY DEF SeenUnchanged
<1> QED
  BY <1>3, <1>4, <1>5, <1>6 DEF Promise!promiseVars, GrantOf

LEMMA IssueMakes ==
  ASSUME HostedInv, NEW a \in Attempts, Issue(a), UNCHANGED handlerVars,
         ledger[Reviews[a].request].state = "absent"
  PROVE  \E r \in Requests : Promise!Make(r)
<1> DEFINE r == Reviews[a].request
<1>1. /\ at[a] = "issuing" /\ issued' = issued \cup {a} /\ wf' = wf
      /\ ledger' = [ledger EXCEPT ![r] = [state |-> "fresh", expires |-> clock + ApprovalTtl]]
      /\ taken' = taken /\ ran' = ran
  BY DEF Issue, handlerVars
<1>2. ledger \in [Requests -> [state : {"absent", "fresh", "consumed"}, expires : Nat]]
  BY DEF HostedInv, HostedTypeOK, ServiceTypeOK
<1>3. r \in Requests /\ a \notin issued
  BY <1>1 DEF HostedInv, HostedLineage, AttemptLineage, Issuers
<1>4. IsFiniteSet(DecisionsOn(r))
  BY FS_Subset DEF HostedInv, HostedLineage, DecisionsOn
<1>5. DecisionsOn(r)' = DecisionsOn(r) \cup {a} /\ a \notin DecisionsOn(r)
  BY <1>1, <1>3 DEF DecisionsOn
<1>6. Cardinality(DecisionsOn(r)') = Cardinality(DecisionsOn(r)) + 1
  BY <1>4, <1>5, FS_AddElement
<1>7. \A q \in Requests \ {r} : DecisionsOn(q)' = DecisionsOn(q)
  BY <1>1 DEF DecisionsOn
<1>8. /\ GrantOf(r) = "none" /\ GrantOf(r)' = "live"
      /\ \A q \in Requests \ {r} : GrantOf(q)' = GrantOf(q)
  BY <1>1, <1>2, <1>3 DEF GrantOf
<1>9. Promise!Make(r)
  <2>1. [q \in Requests |-> GrantOf(q)][r] = "none"
    BY <1>3, <1>8
  <2>2. [q \in Requests |-> GrantOf(q)']
          = [[q \in Requests |-> GrantOf(q)] EXCEPT ![r] = "live"]
    BY <1>3, <1>8
  <2>3. [q \in Requests |-> Cardinality(DecisionsOn(q)')]
          = [[q \in Requests |-> Cardinality(DecisionsOn(q))] EXCEPT ![r] = @ + 1]
    BY <1>3, <1>6, <1>7
  <2> QED
    BY <1>1, <2>1, <2>2, <2>3 DEF Promise!Make, GrantOf
<1> QED
  BY <1>3, <1>9

LEMMA ReleaseOpens ==
  ASSUME HostedInv, NEW a \in Attempts, Release(a), UNCHANGED handlerVars,
         wf[Reviews[a].request] = "gate"
  PROVE  \E r \in Requests : Promise!Open(r)
<1> DEFINE r == Reviews[a].request
<1>1. /\ at[a] = "releasing" /\ wf' = [wf EXCEPT ![r] = "released"]
      /\ UNCHANGED <<ledger, issued, taken, ran>>
  BY DEF Release, AttemptTo, WorkflowTo, handlerVars
<1>2. wf \in [Requests -> {"idle", "opening", "gate"} \cup Opened \cup Ended]
  BY DEF HostedInv, HostedTypeOK, ServiceTypeOK
<1>3. r \in Requests /\ a \in DecisionsOn(r)
  BY <1>1 DEF HostedInv, HostedLineage, AttemptLineage, Issuers, Running, DecisionsOn
<1>4. IsFiniteSet(DecisionsOn(r))
  BY FS_Subset DEF HostedInv, HostedLineage, DecisionsOn
<1>5. Cardinality(DecisionsOn(r)) > 0
  <2>1. Cardinality(DecisionsOn(r)) \in Nat /\ Cardinality(DecisionsOn(r)) # 0
    BY <1>3, <1>4, FS_CardinalityType, FS_EmptySet
  <2> QED
    BY <2>1
<1>6. {q \in Requests : wf'[q] \in Opened} = {q \in Requests : wf[q] \in Opened} \cup {r}
  BY <1>1, <1>2, <1>3 DEF Opened
<1>7. Promise!Open(r)
  <2>1. r \notin {q \in Requests : wf[q] \in Opened}
    BY DEF Opened
  <2>2. [q \in Requests |-> Cardinality(DecisionsOn(q))][r] > 0
    BY <1>3, <1>5
  <2>3. \A q \in Requests : DecisionsOn(q)' = DecisionsOn(q)
    BY <1>1 DEF DecisionsOn
  <2> QED
    BY <1>1, <1>6, <2>1, <2>2, <2>3 DEF Promise!Open
<1> QED
  BY <1>3, <1>7

LEMMA SweepLapses ==
  ASSUME HostedInv, NEW r \in Requests, Sweep(r), UNCHANGED handlerVars
  PROVE  Promise!Lapse(r)
<1>1. /\ ledger[r].state # "absent" /\ ledger' = [ledger EXCEPT ![r] = NoRow]
      /\ UNCHANGED <<wf, issued, taken, ran>>
  BY DEF Sweep, handlerVars
<1>2. ledger \in [Requests -> [state : {"absent", "fresh", "consumed"}, expires : Nat]]
  BY DEF HostedInv, HostedTypeOK, ServiceTypeOK
<1>3. /\ GrantOf(r) # "none" /\ GrantOf(r)' = "none"
      /\ \A q \in Requests \ {r} : GrantOf(q)' = GrantOf(q)
  <2>1. ledger[r].state \in {"fresh", "consumed"}
    BY <1>1, <1>2
  <2> QED
    BY <1>1, <1>2, <2>1 DEF GrantOf, NoRow
<1>4. [q \in Requests |-> GrantOf(q)][r] # "none"
  BY <1>3
<1>5. [q \in Requests |-> GrantOf(q)']
        = [[q \in Requests |-> GrantOf(q)] EXCEPT ![r] = "none"]
  BY <1>3
<1>6. \A q \in Requests : DecisionsOn(q)' = DecisionsOn(q)
  BY <1>1 DEF DecisionsOn
<1> QED
  BY <1>1, <1>4, <1>5, <1>6 DEF Promise!Lapse, GrantOf

LEMMA ConsumeTakes ==
  ASSUME HostedInv, NEW c \in Calls, ConsumeApproval(c), taken' # taken
  PROVE  Promise!Take(c)
<1> DEFINE r == PilotSent[c].approval
           needs == [b \in Calls |-> IF NeedsApproval(b) THEN PilotSent[b].approval
                                                        ELSE NoRequest]
<1>1. /\ step[c] = "consuming" /\ PilotConsumable(c) /\ taken' = taken \cup {c}
      /\ ledger' = [ledger EXCEPT ![r].state = "consumed"]
      /\ UNCHANGED <<wf, issued, ran>>
  BY DEF ConsumeApproval
<1>2. ledger \in [Requests -> [state : {"absent", "fresh", "consumed"}, expires : Nat]]
  BY DEF HostedInv, HostedTypeOK, ServiceTypeOK
<1>3. r \in Requests /\ ledger[r].state = "fresh"
  BY <1>1 DEF PilotConsumable
<1>4. c \notin taken /\ NeedsApproval(c)
  BY <1>1 DEF HostedInv, HostedLineage, CallLineage
<1>5. needs[c] = r
  BY <1>4
<1>6. /\ GrantOf(r) = "live" /\ GrantOf(r)' = "spent"
      /\ \A q \in Requests \ {r} : GrantOf(q)' = GrantOf(q)
  BY <1>1, <1>2, <1>3 DEF GrantOf
<1>7. [q \in Requests |-> GrantOf(q)][needs[c]] = "live"
  BY <1>3, <1>5, <1>6
<1>8. [q \in Requests |-> GrantOf(q)']
        = [[q \in Requests |-> GrantOf(q)] EXCEPT ![needs[c]] = "spent"]
  BY <1>3, <1>5, <1>6
<1>9. \A q \in Requests : DecisionsOn(q)' = DecisionsOn(q)
  BY <1>1 DEF DecisionsOn
<1>10. needs[c] \in Requests
  BY <1>3, <1>5
<1> QED
  BY <1>1, <1>4, <1>7, <1>8, <1>9, <1>10 DEF Promise!Take, GrantOf

LEMMA ExecuteRuns ==
  ASSUME HostedInv, NEW c \in Calls, Execute(c)
  PROVE  Promise!Run(c)
<1> DEFINE needs == [b \in Calls |-> IF NeedsApproval(b) THEN PilotSent[b].approval
                                                        ELSE NoRequest]
<1>1. /\ step[c] = "executing" /\ ran' = ran \cup {c}
      /\ UNCHANGED <<wf, ledger, issued, taken>>
  BY DEF Execute, CallTo, serviceVars
<1>2. c \notin ran /\ (NeedsApproval(c) => c \in taken)
  BY <1>1 DEF HostedInv, HostedLineage, CallLineage
<1>3. needs[c] \in Requests => c \in taken
  BY <1>2, ServiceAssumption
<1>4. \A q \in Requests : DecisionsOn(q)' = DecisionsOn(q)
  BY <1>1 DEF DecisionsOn
<1> QED
  BY <1>1, <1>2, <1>3, <1>4 DEF Promise!Run

LEMMA HostedStepRefines ==
  HostedInv /\ [Next]_hostedVars => [Promise!Next]_(Promise!promiseVars)
<1> SUFFICES ASSUME HostedInv, [Next]_hostedVars
             PROVE  Promise!Next \/ SeenUnchanged
  BY SeenUnchangedStutters
<1>1. ASSUME NEW r \in Requests, WorkflowStep(r) \/ Sweep(r), UNCHANGED handlerVars
      PROVE  Promise!Next \/ SeenUnchanged
  <2>1. CASE Sweep(r)
    BY <1>1, <2>1, SweepLapses DEF Promise!Next
  <2>2. CASE WorkflowStep(r)
    <3>1. UNCHANGED <<ledger, issued, taken, ran>>
      BY <1>1, <2>2 DEF WorkflowStep, Classify, OpenGate, GateTimesOut, Finalize, handlerVars
    <3>2. \A q \in Requests : wf'[q] \in Opened <=> wf[q] \in Opened
      BY <2>2, GatesStayOpen DEF HostedInv, HostedTypeOK
    <3> QED
      BY <3>1, <3>2 DEF SeenUnchanged
  <2> QED
    BY <1>1, <2>1, <2>2
<1>2. ASSUME NEW a \in Attempts, Ask(a) \/ AttemptStep(a) \/ AttemptDies(a),
             UNCHANGED handlerVars
      PROVE  Promise!Next \/ SeenUnchanged
  <2>1. CASE Issue(a) /\ ledger[Reviews[a].request].state = "absent"
    BY <1>2, <2>1, IssueMakes DEF Promise!Next
  <2>2. CASE Release(a) /\ wf[Reviews[a].request] = "gate"
    BY <1>2, <2>2, ReleaseOpens DEF Promise!Next
  <2>3. CASE UNCHANGED <<wf, ledger, issued>>
    BY <1>2, <2>3 DEF SeenUnchanged, handlerVars
  <2> QED
    BY <1>2, <2>1, <2>2, <2>3
    DEF AttemptStep, Ask, AttemptDies, ReadGate, Deny, Issue, RecordApproval, Release,
        Close, AttemptTo, WorkflowTo
<1>3. ASSUME NEW c \in Calls, Receive(c) \/ CallStep(c) \/ CallDies(c)
      PROVE  Promise!Next \/ SeenUnchanged
  <2>1. CASE ConsumeApproval(c) /\ taken' # taken
    BY <2>1, ConsumeTakes DEF Promise!Next
  <2>2. CASE Execute(c)
    BY <2>2, ExecuteRuns DEF Promise!Next
  <2>3. CASE UNCHANGED <<wf, ledger, issued, taken, ran>>
    BY <2>3 DEF SeenUnchanged
  <2>4. CASE ConsumeApproval(c) /\ taken' = taken
    <3>1. ConsumeApproval(c) /\ PilotConsumable(c) /\ taken' = taken \cup {c} => c \notin taken
      BY DEF ConsumeApproval, HostedInv, HostedLineage, CallLineage
    <3>2. UNCHANGED <<wf, ledger, issued, taken, ran>>
      BY <2>4, <3>1 DEF ConsumeApproval
    <3> QED
      BY <3>2 DEF SeenUnchanged
  <2> QED
    BY <1>3, <2>1, <2>2, <2>3, <2>4
    DEF CallStep, Receive, AuditRow, CallDies, serviceVars
<1>4. CASE (Tick /\ UNCHANGED handlerVars) \/ UNCHANGED hostedVars
  BY <1>4 DEF Tick, handlerVars, hostedVars, serviceVars, SeenUnchanged
<1> QED
  BY <1>1, <1>2, <1>3, <1>4 DEF Next, ReviewStep, PilotStep

LEMMA HostedInitRefines == Init => Promise!Init
<1> SUFFICES ASSUME Init PROVE Promise!Init
  OBVIOUS
<1>1. \A r \in Requests : GrantOf(r) = "none"
  BY DEF Init, ServiceInit, NoRow, GrantOf
<1>2. \A r \in Requests : Cardinality(DecisionsOn(r)) = 0
  <2>1. \A r \in Requests : DecisionsOn(r) = {}
    BY DEF Init, ServiceInit, DecisionsOn
  <2> QED
    BY <2>1, FS_EmptySet
<1>3. {r \in Requests : wf[r] \in Opened} = {} /\ taken = {} /\ ran = {}
  BY DEF Init, ServiceInit, HandlerInit, Opened
<1> QED
  BY <1>1, <1>2, <1>3 DEF Promise!Init, GrantOf

\* Ledger, gate and handler together implement GrantPromise: a decision makes a
\* grant, one call takes it, and only a call that took its grant runs.
THEOREM KeepsTheGrantPromiseHolds == Spec => KeepsTheGrantPromise
<1> QED
  BY HostedInvHolds, HostedInitRefines, HostedStepRefines, PTL
  DEF Spec, KeepsTheGrantPromise, Promise!Spec

-----------------------------------------------------------------------------
(***************************************************************************)
(* How far an execution, a review and a call are from their ends.          *)
(***************************************************************************)
WorkflowLeft(r) ==
  CASE wf[r] = "idle"     -> 4
    [] wf[r] = "opening"  -> 3
    [] wf[r] = "gate"     -> 2
    [] wf[r] = "released" -> 1
    [] wf[r] \in Ended    -> 0

ReviewLeft(a) ==
  CASE at[a] = "idle"      -> 6
    [] at[a] = "unread"    -> 5
    [] at[a] = "issuing"   -> 4
    [] at[a] = "recording" -> 3
    [] at[a] = "releasing" -> 2
    [] at[a] \in {"closing", "no_role", "own_request", "replayed"} -> 1
    [] at[a] \in Answers   -> 0

CallLeft(c) ==
  CASE step[c] = "idle"      -> 4
    [] step[c] = "consuming" -> 3
    [] step[c] = "allowing"  -> 2
    [] step[c] \in {"listing", "denying", "executing"} -> 1
    [] step[c] \in {"answered", "dead"} -> 0

\* Nothing on the hosted path has a way back: each step of an execution, of a
\* review and of a call takes it nearer its end, and nothing else takes it further
\* away, a row that is swept and issued again included.
HostedAdvances ==
  [][/\ \A r \in Requests : /\ WorkflowStep(r) => WorkflowLeft(r)' < WorkflowLeft(r)
                            /\ WorkflowLeft(r)' <= WorkflowLeft(r)
     /\ \A a \in Attempts : /\ ReviewStep(a) => ReviewLeft(a)' < ReviewLeft(a)
                            /\ ReviewLeft(a)' <= ReviewLeft(a)
     /\ \A c \in Calls : /\ PilotStep(c) => CallLeft(c)' < CallLeft(c)
                         /\ CallLeft(c)' <= CallLeft(c)]_hostedVars

LEMMA WorkflowAdvances ==
  ASSUME ServiceTypeOK, NEW r \in Requests, WorkflowStep(r)
  PROVE  WorkflowLeft(r)' < WorkflowLeft(r) /\ \A q \in Requests \ {r} : wf'[q] = wf[q]
<1>1. wf \in [Requests -> {"idle", "opening", "gate"} \cup Opened \cup Ended]
  BY DEF ServiceTypeOK
<1> QED
  BY <1>1 DEF WorkflowStep, Classify, OpenGate, GateTimesOut, Finalize, WorkflowTo,
              WorkflowLeft, Ended

LEMMA ReviewAdvances ==
  ASSUME ServiceTypeOK, NEW a \in Attempts, Ask(a) \/ AttemptStep(a) \/ AttemptDies(a)
  PROVE  ReviewLeft(a)' < ReviewLeft(a) /\ \A b \in Attempts \ {a} : at'[b] = at[b]
<1>1. at \in [Attempts -> {"idle"} \cup Running \cup Answers]
  BY DEF ServiceTypeOK
<1>2. CASE Ask(a) \/ ReadGate(a)
  BY <1>1, <1>2 DEF Ask, ReadGate, AttemptTo, ReviewLeft, Answers
<1>3. CASE Deny(a) \/ Issue(a)
  BY <1>1, <1>3 DEF Deny, Issue, AttemptTo, ReviewLeft, Answers
<1>4. CASE RecordApproval(a) \/ Release(a) \/ Close(a)
  BY <1>1, <1>4 DEF RecordApproval, Release, Close, AttemptTo, ReviewLeft, Answers
<1>5. CASE AttemptDies(a)
  BY <1>1, <1>5 DEF AttemptDies, ReviewLeft, Running, Answers
<1> QED
  BY <1>2, <1>3, <1>4, <1>5 DEF AttemptStep

\* A review moves a workflow only forward: out of the gate it opens.
LEMMA ReviewKeepsWorkflow ==
  ASSUME ServiceTypeOK, NEW a \in Attempts, Ask(a) \/ AttemptStep(a) \/ AttemptDies(a),
         NEW r \in Requests
  PROVE  wf'[r] = wf[r] \/ (wf[r] = "gate" /\ wf'[r] = "released")
BY DEF ServiceTypeOK, Ask, AttemptStep, AttemptDies, ReadGate, Deny, Issue, RecordApproval,
       Release, Close, WorkflowTo

LEMMA CallAdvances ==
  ASSUME HandlerTypeOK, NEW c \in Calls, Receive(c) \/ CallStep(c) \/ CallDies(c)
  PROVE  CallLeft(c)' < CallLeft(c) /\ \A d \in Calls \ {c} : step'[d] = step[d]
<1>1. step \in [Calls -> {"idle", "listing", "consuming", "allowing", "denying",
                          "executing", "answered", "dead"}]
  BY DEF HandlerTypeOK
<1>2. CASE Receive(c)
  <2>1. PICK to \in {"answered", "denying", "listing", "allowing", "consuming"} :
          CallTo(c, "idle", to)
    BY <1>2 DEF Receive
  <2> QED
    BY <1>1, <2>1 DEF CallTo, CallLeft
<1>3. CASE CallStep(c)
  <2>1. CASE ConsumeApproval(c)
    <3>1. PICK to \in {"allowing", "denying"} : CallTo(c, "consuming", to)
      BY <2>1 DEF ConsumeApproval
    <3> QED
      BY <1>1, <3>1 DEF CallTo, CallLeft
  <2>2. CASE AuditRow(c)
    BY <1>1, <2>2 DEF AuditRow, CallTo, CallLeft
  <2>3. CASE Execute(c)
    BY <1>1, <2>3 DEF Execute, CallTo, CallLeft
  <2> QED
    BY <1>3, <2>1, <2>2, <2>3 DEF CallStep
<1>4. CASE CallDies(c)
  <2>1. step[c] # "idle" /\ step[c] \notin {"answered", "dead"}
    BY <1>4 DEF CallDies
  <2>2. step' = [step EXCEPT ![c] = "dead"]
    BY <1>4 DEF CallDies
  <2>3. CallLeft(c)' = 0 /\ \A d \in Calls \ {c} : step'[d] = step[d]
    BY <1>1, <2>2 DEF CallLeft
  <2>4. CallLeft(c) \in {1, 2, 3}
    BY <1>1, <2>1 DEF CallLeft
  <2> QED
    BY <2>3, <2>4
<1> QED
  BY <1>2, <1>3, <1>4

\* Executions, reviews and calls of the hosted path take at most four, six and four
\* steps: no state has a Retry and neither Lambda loops (reviewer-service.yaml:180-284,
\* handler.py:249-310).
THEOREM HostedAdvancesHolds == Spec => HostedAdvances
<1>1. ASSUME HostedInv, Next, NEW r \in Requests
      PROVE  /\ WorkflowStep(r) => WorkflowLeft(r)' < WorkflowLeft(r)
             /\ WorkflowLeft(r)' <= WorkflowLeft(r)
  <2>1. wf[r] \in {"idle", "opening", "gate"} \cup Opened \cup Ended
    BY <1>1 DEF HostedInv, HostedTypeOK, ServiceTypeOK
  <2>2. HostedInv'
    BY <1>1, HostedInvStep
  <2>3. wf'[r] \in {"idle", "opening", "gate"} \cup Opened \cup Ended
    BY <2>2 DEF HostedInv, HostedTypeOK, ServiceTypeOK
  <2>4. WorkflowLeft(r) \in Nat /\ WorkflowLeft(r)' \in Nat
    BY <2>1, <2>3 DEF WorkflowLeft, Opened, Ended
  <2>5. wf'[r] = wf[r] => WorkflowLeft(r)' = WorkflowLeft(r)
    BY DEF WorkflowLeft
  <2>6. wf[r] = "gate" /\ wf'[r] = "released" => WorkflowLeft(r)' < WorkflowLeft(r)
    BY DEF WorkflowLeft, Ended
  <2>7. WorkflowStep(r) => WorkflowLeft(r)' < WorkflowLeft(r)
    BY <1>1, WorkflowAdvances DEF HostedInv, HostedTypeOK
  <2>8. \/ \E q \in Requests : WorkflowStep(q)
        \/ \E a \in Attempts : Ask(a) \/ AttemptStep(a) \/ AttemptDies(a)
        \/ wf' = wf
    BY <1>1 DEF Next, ReviewStep, PilotStep, Receive, CallStep, ConsumeApproval, AuditRow,
                Execute, CallDies, Sweep, Tick, serviceVars
  <2>9. ASSUME NEW q \in Requests, WorkflowStep(q) PROVE q = r \/ wf'[r] = wf[r]
    BY <1>1, <2>9, WorkflowAdvances DEF HostedInv, HostedTypeOK
  <2>10. ASSUME NEW a \in Attempts, Ask(a) \/ AttemptStep(a) \/ AttemptDies(a)
         PROVE  wf'[r] = wf[r] \/ (wf[r] = "gate" /\ wf'[r] = "released")
    BY <1>1, <2>10, ReviewKeepsWorkflow DEF HostedInv, HostedTypeOK
  <2> QED
    BY <2>4, <2>5, <2>6, <2>7, <2>8, <2>9, <2>10
<1>2. ASSUME HostedInv, Next, NEW a \in Attempts
      PROVE  /\ ReviewStep(a) => ReviewLeft(a)' < ReviewLeft(a)
             /\ ReviewLeft(a)' <= ReviewLeft(a)
  <2>1. ReviewLeft(a) \in Nat
    BY <1>2 DEF HostedInv, HostedTypeOK, ServiceTypeOK, ReviewLeft, Running, Answers
  <2>2. HostedInv'
    BY <1>2, HostedInvStep
  <2>3. ReviewLeft(a)' \in Nat
    BY <2>2 DEF HostedInv, HostedTypeOK, ServiceTypeOK, ReviewLeft, Running, Answers
  <2>4. at'[a] = at[a] => ReviewLeft(a)' = ReviewLeft(a)
    BY DEF ReviewLeft
  <2>5. Ask(a) \/ AttemptStep(a) \/ AttemptDies(a) => ReviewLeft(a)' < ReviewLeft(a)
    BY <1>2, ReviewAdvances DEF HostedInv, HostedTypeOK
  <2>6. \/ \E b \in Attempts : Ask(b) \/ AttemptStep(b) \/ AttemptDies(b)
        \/ at' = at
    BY <1>2 DEF Next, ReviewStep, PilotStep, Receive, CallStep, ConsumeApproval, AuditRow,
                Execute, CallDies, Sweep, Tick, WorkflowStep, Classify, OpenGate,
                GateTimesOut, Finalize, serviceVars
  <2>7. ASSUME NEW b \in Attempts, Ask(b) \/ AttemptStep(b) \/ AttemptDies(b)
        PROVE  b = a \/ at'[a] = at[a]
    BY <1>2, <2>7, ReviewAdvances DEF HostedInv, HostedTypeOK
  <2> QED
    BY <2>1, <2>3, <2>4, <2>5, <2>6, <2>7 DEF ReviewStep
<1>3. ASSUME HostedInv, Next, NEW c \in Calls
      PROVE  /\ PilotStep(c) => CallLeft(c)' < CallLeft(c)
             /\ CallLeft(c)' <= CallLeft(c)
  <2>1. CallLeft(c) \in Nat
    BY <1>3 DEF HostedInv, HostedTypeOK, HandlerTypeOK, CallLeft
  <2>2. HostedInv'
    BY <1>3, HostedInvStep
  <2>3. CallLeft(c)' \in Nat
    BY <2>2 DEF HostedInv, HostedTypeOK, HandlerTypeOK, CallLeft
  <2>4. step'[c] = step[c] => CallLeft(c)' = CallLeft(c)
    BY DEF CallLeft
  <2>5. Receive(c) \/ CallStep(c) \/ CallDies(c) => CallLeft(c)' < CallLeft(c)
    BY <1>3, CallAdvances DEF HostedInv, HostedTypeOK
  <2>6. \/ \E d \in Calls : Receive(d) \/ CallStep(d) \/ CallDies(d)
        \/ step' = step
    BY <1>3 DEF Next, PilotStep, handlerVars
  <2>7. ASSUME NEW d \in Calls, Receive(d) \/ CallStep(d) \/ CallDies(d)
        PROVE  d = c \/ step'[c] = step[c]
    BY <1>3, <2>7, CallAdvances DEF HostedInv, HostedTypeOK
  <2> QED
    BY <2>1, <2>3, <2>4, <2>5, <2>6, <2>7 DEF PilotStep
<1>4. HostedInv /\ [Next]_hostedVars =>
        [/\ \A r \in Requests : /\ WorkflowStep(r) => WorkflowLeft(r)' < WorkflowLeft(r)
                                /\ WorkflowLeft(r)' <= WorkflowLeft(r)
         /\ \A a \in Attempts : /\ ReviewStep(a) => ReviewLeft(a)' < ReviewLeft(a)
                                /\ ReviewLeft(a)' <= ReviewLeft(a)
         /\ \A c \in Calls : /\ PilotStep(c) => CallLeft(c)' < CallLeft(c)
                             /\ CallLeft(c)' <= CallLeft(c)]_hostedVars
  BY <1>1, <1>2, <1>3
<1> QED
  BY <1>4, HostedInvHolds, PTL DEF Spec, HostedAdvances

=============================================================================
