--------------------------- MODULE GovernedAction ---------------------------
(***************************************************************************)
(* What the gateway promises about a side effect, with no mention of how:  *)
(* an action is anchored by a durable intent before anything else happens  *)
(* to it; an action that needs a grant takes it for itself alone; only     *)
(* then does it run, once; and what its caller is told about it is true.   *)
(* This is the contract in the header of platform_core/gateway.py.         *)
(***************************************************************************)
CONSTANTS
  Calls,
  Grants,
  NoCall,
  NoGrant,
  Needs      \* [Calls -> the grant the action must take, or NoGrant]

VARIABLES
  anchored,  \* the actions with a durable intent
  spent,     \* [Grants -> the action that took it, or NoCall]
  ran,       \* the actions whose side effect was attempted
  told       \* [Calls -> what the caller was told]

actionVars == <<anchored, spent, ran, told>>

Init ==
  /\ anchored = {}
  /\ spent = [g \in Grants |-> NoCall]
  /\ ran = {}
  /\ told = [c \in Calls |-> "nothing"]

Anchor(c) ==
  /\ told[c] = "nothing"
  /\ c \notin anchored
  /\ anchored' = anchored \cup {c}
  /\ UNCHANGED <<spent, ran, told>>

Spend(c) ==
  /\ told[c] = "nothing"
  /\ c \in anchored
  /\ Needs[c] \in Grants
  /\ spent[Needs[c]] = NoCall
  /\ spent' = [spent EXCEPT ![Needs[c]] = c]
  /\ UNCHANGED <<anchored, ran, told>>

Run(c) ==
  /\ told[c] = "nothing"
  /\ c \in anchored \ ran
  /\ Needs[c] # NoGrant => spent[Needs[c]] = c
  /\ ran' = ran \cup {c}
  /\ UNCHANGED <<anchored, spent, told>>

\* "refused": nothing happened and nothing was taken, a retry is safe.
\* "ran": it was attempted.  "unknown": it was attempted, do not retry.
Tell(c, what) ==
  /\ told[c] = "nothing"
  /\ what \in {"refused", "ran", "unknown"}
  /\ what = "refused" => c \notin ran /\ \A g \in Grants : spent[g] # c
  /\ what # "refused" => c \in ran
  /\ told' = [told EXCEPT ![c] = what]
  /\ UNCHANGED <<anchored, spent, ran>>

Next ==
  \E c \in Calls :
    \/ Anchor(c)
    \/ Spend(c)
    \/ Run(c)
    \/ \E what \in {"refused", "ran", "unknown"} : Tell(c, what)

Spec == Init /\ [][Next]_actionVars
=============================================================================
