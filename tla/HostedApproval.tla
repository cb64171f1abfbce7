---------------------------- MODULE HostedApproval ----------------------------
(***************************************************************************)
(* The hosted path composed: requests wait at the reviewer service's gate, *)
(* its ledger rows are consumed by the pilot handler, and DynamoDB sweeps  *)
(* them.  The components share the ledger table and the clock.             *)
(***************************************************************************)
EXTENDS PilotHandler

CONSTANTS
  Casts,      \* the sets of requests, and of invocations of either Lambda, that
              \* a behaviour may have
  MaxDeaths   \* bound on the invocations that die

VARIABLE cast

hostedVars == <<serviceVars, handlerVars, cast>>

Init == ServiceInit /\ HandlerInit /\ cast \in Casts

Deaths ==
  Cardinality({a \in Attempts : at[a] = "500"} \cup {c \in Calls : step[c] = "dead"})

ReviewStep(a) ==
  \/ AttemptStep(a)
  \/ Deaths < MaxDeaths /\ AttemptDies(a)

PilotStep(c) ==
  \/ CallStep(c)
  \/ Deaths < MaxDeaths /\ CallDies(c)

Next ==
  /\ \/ /\ \/ \E r \in cast \cap Requests : WorkflowStep(r) \/ Sweep(r)
           \/ \E a \in cast \cap Attempts : Ask(a) \/ ReviewStep(a)
           \/ Tick
        /\ UNCHANGED handlerVars
     \/ \E c \in cast \cap Calls : Receive(c) \/ PilotStep(c)
  /\ UNCHANGED cast

Spec == Init /\ [][Next]_hostedVars

\* What the runtimes carry on with once it is begun: executions and their
\* timeouts, Lambdas that were invoked, the sweeping of rows, and time.
Ongoing ==
  /\ \/ /\ \/ \E r \in cast \cap Requests : (wf[r] # "idle" /\ WorkflowStep(r)) \/ Sweep(r)
           \/ \E a \in cast \cap Attempts : ReviewStep(a)
           \/ Tick
        /\ UNCHANGED handlerVars
     \/ \E c \in cast \cap Calls : PilotStep(c)
  /\ UNCHANGED cast

(***************************************************************************)
(* Fairness: Step Functions and Lambda do not stop for good while they     *)
(* have something under way.  Nothing makes anyone start an execution,     *)
(* review, or call.  Every invocation is finite, so this one condition is  *)
(* weaker than one for each of them.                                       *)
(***************************************************************************)
Fairness == WF_hostedVars(Ongoing)

FairSpec == Spec /\ Fairness

-----------------------------------------------------------------------------
HostedTypeOK == ServiceTypeOK /\ HandlerTypeOK

NeedsApproval(c) == PilotSent[c].tool \in PilotManifest.consequential

DecisionsOn(r) == {a \in issued : Reviews[a].request = r}

\* Every consequential execution goes back to a decision on that very action
\* (requester, agent, tool, arguments, purpose) by a supervisor who did not ask
\* for it: handler.py:165 consumes what reviewer-service.yaml:205 issued.
RunsWereReviewed ==
  \A c \in ran : NeedsApproval(c) =>
    \E r \in Requests :
      /\ PilotSent[c].approval = r
      /\ Filed[r].requester = PilotSent[c].user
      /\ Filed[r].agent = AgentId
      /\ Filed[r].tool = PilotSent[c].tool
      /\ Filed[r].args = PilotSent[c].args
      /\ Filed[r].purpose = PilotMeta(PilotSent[c].tool).purpose
      /\ \E a \in DecisionsOn(r) :
           Reviews[a].supervisor /\ Reviews[a].reviewer # Filed[r].requester

\* Whatever dies and whenever, no tool runs before its "allow" row is written
\* (handler.py:293).
RecordedBeforeRun == \A c \in ran : rows[c] = "allow"

\* A reviewer who is answered APPROVE issued the approval and opened the gate,
\* alone; so an approval behind a gate that never opened comes from an
\* invocation that is under way, failed, died, or was told it is a replay: the
\* 409 answers an approval that was issued, if need be by the same invocation,
\* and the other refusals issue nothing (reviewer-service.yaml:210-218).
ApprovedMeansReleased ==
  /\ \A a \in Attempts : at[a] = "200" =>
       /\ a \in issued
       /\ wf[Reviews[a].request] \in Opened
       /\ \A b \in Attempts \ {a} :
            at[b] = "200" => Reviews[b].request # Reviews[a].request
  /\ \A r \in Requests :
       ledger[r].state # "absent" /\ wf[r] = "failed" =>
         \E a \in DecisionsOn(r) :
           at[a] \in {"recording", "releasing", "replayed", "409", "500"}
  /\ \A a \in Attempts :
       /\ at[a] = "409" => DecisionsOn(Reviews[a].request) # {}
       /\ at[a] \in {"400", "403", "404"} => a \notin issued

\* Every execution that starts ends: succeeded, timed out, or failed, whatever
\* its reviewers do (reviewer-service.yaml:271).
WorkflowsEnd == \A r \in Requests : wf[r] # "idle" ~> wf[r] \in Ended

\* REVIEWER-SERVICE.md:20: "Append-only audit of every outcome (denied /
\* approved)": an answered decision has a row of its own.
EveryOutcomeAudited ==
  \A a \in Attempts :
    at[a] \in {"403", "409", "200"} =>
      \E seq \in Seqs : trail[<<Reviews[a].request, seq>>] = a

\* The abstract promise, and what of this state it sees.
Promise == INSTANCE GrantPromise WITH
  Grants  <- Requests,
  Actions <- Calls,
  Needs   <- [c \in Calls |-> IF NeedsApproval(c) THEN PilotSent[c].approval ELSE NoRequest],
  grant   <- [r \in Requests |-> CASE ledger[r].state = "absent" -> "none"
                                   [] ledger[r].state = "fresh" -> "live"
                                   [] ledger[r].state = "consumed" -> "spent"],
  made    <- [r \in Requests |-> Cardinality(DecisionsOn(r))],
  gates   <- {r \in Requests : wf[r] \in Opened},
  holders <- taken,
  done    <- ran

\* Ledger, gate and handler together implement GrantPromise.
KeepsTheGrantPromise == Promise!Spec
=============================================================================
