----------------------------- MODULE GrantPromise -----------------------------
(***************************************************************************)
(* What the hosted human gate promises, with no mention of tables, Lambdas *)
(* or clocks: a grant is made by a decision of a reviewer, one action      *)
(* takes it, and only an action that took its grant runs.  A grant may     *)
(* lapse, used or not, and only a further decision makes it again.  The    *)
(* gate of a request opens for a grant that was made.                      *)
(***************************************************************************)
EXTENDS Naturals

CONSTANTS
  Grants,
  Actions,
  Needs      \* [Actions -> the grant the action must take, or no grant]

VARIABLES
  grant,     \* [Grants -> "none", "live" or "spent"]
  made,      \* [Grants -> how many decisions made it]
  gates,     \* the grants whose gate has been opened
  holders,   \* the actions that took their grant
  done       \* the actions that ran

promiseVars == <<grant, made, gates, holders, done>>

Init ==
  /\ grant = [g \in Grants |-> "none"]
  /\ made = [g \in Grants |-> 0]
  /\ gates = {} /\ holders = {} /\ done = {}

Make(g) ==
  /\ grant[g] = "none"
  /\ grant' = [grant EXCEPT ![g] = "live"]
  /\ made' = [made EXCEPT ![g] = @ + 1]
  /\ UNCHANGED <<gates, holders, done>>

Open(g) ==
  /\ g \notin gates /\ made[g] > 0
  /\ gates' = gates \cup {g}
  /\ UNCHANGED <<grant, made, holders, done>>

Take(x) ==
  /\ x \notin holders
  /\ Needs[x] \in Grants /\ grant[Needs[x]] = "live"
  /\ grant' = [grant EXCEPT ![Needs[x]] = "spent"]
  /\ holders' = holders \cup {x}
  /\ UNCHANGED <<made, gates, done>>

Run(x) ==
  /\ x \notin done
  /\ Needs[x] \in Grants => x \in holders
  /\ done' = done \cup {x}
  /\ UNCHANGED <<grant, made, gates, holders>>

Lapse(g) ==
  /\ grant[g] # "none"
  /\ grant' = [grant EXCEPT ![g] = "none"]
  /\ UNCHANGED <<made, gates, holders, done>>

Next ==
  \/ \E g \in Grants : Make(g) \/ Open(g) \/ Lapse(g)
  \/ \E x \in Actions : Take(x) \/ Run(x)

Spec == Init /\ [][Next]_promiseVars
=============================================================================
