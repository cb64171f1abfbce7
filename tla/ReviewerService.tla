--------------------------- MODULE ReviewerService ---------------------------
(***************************************************************************)
(* The hosted human gate (infra/golden-pilot/reviewer-service.yaml): the   *)
(* workflow Classify -> HumanGate -> Finalize of each request, and the     *)
(* reviewer Lambda that issues a ledger row and releases the gate.  Every  *)
(* access to a table or to Step Functions is a step of its own, and an     *)
(* invocation may die between any two.                                     *)
(*                                                                         *)
(* Filed[r] is the input of the one execution of request r that passes     *)
(* Classify; approval_id is a hash of r and Filed[r], so a ledger row is   *)
(* named by its request.  Reviews[a] is the event of one invocation of the *)
(* reviewer Lambda.                                                        *)
(***************************************************************************)
EXTENDS Naturals, FiniteSetsExt

CONSTANTS
  Requests,
  Filed,        \* [Requests -> [requester, agent, tool, args, purpose]]
  Attempts,
  Reviews,      \* [Attempts -> [request, reviewer, supervisor]]
  NoRequest,    \* the request_id of an event without one
  NoWriter,     \* the writer of an audit row that does not exist
  Workflow,     \* the writer of the rows WorkerFn puts
  ApprovalTtl,  \* 3600 s: the ledger row's expires_at
  GateTtl,      \* TimeoutSeconds of HumanGate
  AuditMayFail, \* whether _audit may meet a ClientError
  MaxTime       \* bound on the clock

VARIABLES
  wf,       \* [Requests -> the state of the execution]
  deadline, \* [Requests -> when HumanGate times out]
  pending,  \* [Requests -> status of the row of the pending table]
  ledger,   \* [Requests -> [state, expires], a row of the approval ledger]
  trail,    \* [Requests \X Seqs -> who put that row of the audit table]
  at,       \* [Attempts -> where the invocation is]
  issued,   \* history: the attempts whose conditional put made a ledger row
  clock

serviceVars == <<wf, deadline, pending, ledger, trail, at, issued, clock>>

ASSUME ServiceAssumption ==
  /\ ApprovalTtl \in Nat /\ GateTtl \in Nat /\ MaxTime \in Nat
  /\ NoRequest \notin Requests
  /\ {NoWriter, Workflow} \cap Attempts = {}
  /\ \A a \in Attempts : Reviews[a].request \in Requests \cup {NoRequest}

\* 0 classify, 1 approved, 2 finalize; 90-92 refusals of the reviewer Lambda.
Seqs == {0, 1, 2, 90, 91, 92}

NoRow == [state |-> "absent", expires |-> 0]

Running   == {"unread", "no_role", "own_request", "issuing", "replayed",
              "recording", "releasing", "closing"}
Answers   == {"400", "403", "404", "409", "500", "200"}
Opened    == {"released", "succeeded", "finalize_failed"}
Ended     == {"succeeded", "failed", "finalize_failed"}

ServiceInit ==
  /\ wf = [r \in Requests |-> "idle"]
  /\ deadline = [r \in Requests |-> 0]
  /\ pending = [r \in Requests |-> "absent"]
  /\ ledger = [r \in Requests |-> NoRow]
  /\ trail = [row \in Requests \X Seqs |-> NoWriter]
  /\ at = [a \in Attempts |-> "idle"]
  /\ issued = {}
  /\ clock = 0

-----------------------------------------------------------------------------
\* The workflow.  No state has a Retry: an error of a Lambda fails it.

WorkflowTo(r, from, to) == wf[r] = from /\ wf' = [wf EXCEPT ![r] = to]

\* WorkerFn: the conditional put either makes the row or fails the execution.
WorkerPut(r, seq) ==
  /\ trail[<<r, seq>>] = NoWriter
  /\ trail' = [trail EXCEPT ![<<r, seq>>] = Workflow]

Classify(r) ==
  /\ \/ WorkflowTo(r, "idle", "opening") /\ WorkerPut(r, 0)
     \/ WorkflowTo(r, "idle", "failed") /\ (WorkerPut(r, 0) \/ UNCHANGED trail)
  /\ UNCHANGED <<deadline, pending, ledger, at, issued, clock>>

\* GateOpenerFn.  The last instant stands for every later one: what would time
\* out after MaxTime may time out at it.
OpenGate(r) ==
  /\ \/ WorkflowTo(r, "opening", "gate") /\ pending' = [pending EXCEPT ![r] = "pending"]
     \/ /\ WorkflowTo(r, "opening", "failed")
        /\ pending' \in {pending, [pending EXCEPT ![r] = "pending"]}
  /\ deadline' = [deadline EXCEPT ![r] = Min({clock + GateTtl, MaxTime})]
  /\ UNCHANGED <<ledger, trail, at, issued, clock>>

\* Variant: HumanGate declares no TimeoutSeconds.
GateTimesOut_Never(r) == FALSE

GateTimesOut(r) ==
  /\ clock >= deadline[r]
  /\ WorkflowTo(r, "gate", "failed")
  /\ UNCHANGED <<deadline, pending, ledger, trail, at, issued, clock>>

Finalize(r) ==
  /\ \/ WorkflowTo(r, "released", "succeeded") /\ WorkerPut(r, 2)
     \/ WorkflowTo(r, "released", "finalize_failed") /\ (WorkerPut(r, 2) \/ UNCHANGED trail)
  /\ UNCHANGED <<deadline, pending, ledger, at, issued, clock>>

-----------------------------------------------------------------------------
\* The reviewer Lambda.

AttemptTo(a, from, to) == at[a] = from /\ at' = [at EXCEPT ![a] = to]

\* _audit: a conditional put whose ClientError, an existing row's included,
\* is swallowed.
Audited(a, seq) ==
  LET row == <<Reviews[a].request, seq>> IN
  IF trail[row] = NoWriter
    THEN \/ trail' = [trail EXCEPT ![row] = a]
         \/ AuditMayFail /\ UNCHANGED trail
    ELSE UNCHANGED trail

Ask(a) ==
  /\ AttemptTo(a, "idle", IF Reviews[a].request = NoRequest THEN "400" ELSE "unread")
  /\ UNCHANGED <<wf, deadline, pending, ledger, trail, issued, clock>>

\* The item read here is what every later step of the invocation relies on.
ReadGate(a) ==
  LET rev == Reviews[a] IN
  /\ AttemptTo(a, "unread",
       IF pending[rev.request] # "pending" THEN "404"
       ELSE IF ~rev.supervisor THEN "no_role"
       ELSE IF rev.reviewer = Filed[rev.request].requester THEN "own_request"
       ELSE "issuing")
  /\ UNCHANGED <<wf, deadline, pending, ledger, trail, issued, clock>>

Deny(a) ==
  /\ \/ AttemptTo(a, "no_role", "403") /\ Audited(a, 90)
     \/ AttemptTo(a, "own_request", "403") /\ Audited(a, 91)
     \/ AttemptTo(a, "replayed", "409") /\ Audited(a, 92)
  /\ UNCHANGED <<wf, deadline, pending, ledger, issued, clock>>

\* Variant: the ledger row is put without its condition.
Issue_Unconditional(a) ==
  LET r == Reviews[a].request IN
  /\ AttemptTo(a, "issuing", "recording")
  /\ ledger' = [ledger EXCEPT ![r] = [state |-> "fresh", expires |-> clock + ApprovalTtl]]
  /\ issued' = issued \cup {a}
  /\ UNCHANGED <<wf, deadline, pending, trail, clock>>

\* The conditional put of the approval, bound and with its expiry.  When the
\* response to it is lost the SDK sends it again: it then meets its own row, and
\* reads it as a replay.
Issue(a) ==
  LET r == Reviews[a].request IN
  /\ at[a] = "issuing"
  /\ IF ledger[r].state = "absent"
       THEN /\ AttemptTo(a, "issuing", "recording") \/ AttemptTo(a, "issuing", "replayed")
            /\ ledger' = [ledger EXCEPT
                            ![r] = [state |-> "fresh", expires |-> clock + ApprovalTtl]]
            /\ issued' = issued \cup {a}
       ELSE AttemptTo(a, "issuing", "replayed") /\ UNCHANGED <<ledger, issued>>
  /\ UNCHANGED <<wf, deadline, pending, trail, clock>>

RecordApproval(a) ==
  /\ AttemptTo(a, "recording", "releasing")
  /\ Audited(a, 1)
  /\ UNCHANGED <<wf, deadline, pending, ledger, issued, clock>>

\* Variant: an error of send_task_success is swallowed like one of _audit.
Release_Swallowed(a) ==
  LET r == Reviews[a].request IN
  /\ AttemptTo(a, "releasing", "closing")
  /\ wf' = IF wf[r] = "gate" THEN [wf EXCEPT ![r] = "released"] ELSE wf
  /\ UNCHANGED <<deadline, pending, ledger, trail, issued, clock>>

\* send_task_success raises when the token's task is over; nothing catches it.
Release(a) ==
  LET r == Reviews[a].request IN
  /\ \/ AttemptTo(a, "releasing", "closing") /\ WorkflowTo(r, "gate", "released")
     \/ AttemptTo(a, "releasing", "500") /\ wf[r] # "gate" /\ UNCHANGED wf
  /\ UNCHANGED <<deadline, pending, ledger, trail, issued, clock>>

Close(a) ==
  /\ AttemptTo(a, "closing", "200")
  /\ pending' = [pending EXCEPT ![Reviews[a].request] = "consumed"]
  /\ UNCHANGED <<wf, deadline, ledger, trail, issued, clock>>

\* An uncaught error of a call that did nothing, a lost response, or a crash:
\* where the invocation was, it stops.
AttemptDies(a) ==
  /\ at[a] \in Running
  /\ at' = [at EXCEPT ![a] = "500"]
  /\ UNCHANGED <<wf, deadline, pending, ledger, trail, issued, clock>>

-----------------------------------------------------------------------------
\* DynamoDB removes a row some time after its expires_at.
Sweep(r) ==
  /\ ledger[r].state # "absent"
  /\ ledger[r].expires < clock
  /\ ledger' = [ledger EXCEPT ![r] = NoRow]
  /\ UNCHANGED <<wf, deadline, pending, trail, at, issued, clock>>

Tick ==
  /\ clock < MaxTime
  /\ clock' = clock + 1
  /\ UNCHANGED <<wf, deadline, pending, ledger, trail, at, issued>>

WorkflowStep(r) == Classify(r) \/ OpenGate(r) \/ GateTimesOut(r) \/ Finalize(r)

AttemptStep(a) ==
  \/ ReadGate(a) \/ Deny(a) \/ Issue(a) \/ RecordApproval(a)
  \/ Release(a) \/ Close(a)

ServiceTypeOK ==
  /\ wf \in [Requests -> {"idle", "opening", "gate"} \cup Opened \cup Ended]
  /\ deadline \in [Requests -> Nat]
  /\ pending \in [Requests -> {"absent", "pending", "consumed"}]
  /\ ledger \in [Requests -> [state : {"absent", "fresh", "consumed"}, expires : Nat]]
  /\ trail \in [Requests \X Seqs -> Attempts \cup {Workflow, NoWriter}]
  /\ at \in [Attempts -> {"idle"} \cup Running \cup Answers]
  /\ issued \subseteq Attempts
  /\ clock \in Nat
=============================================================================
