---------------------------- MODULE SwitchThreads ----------------------------
(***************************************************************************)
(* engage() and disengage() of platform_core/kill_switch.py statement by   *)
(* statement, as several operator threads run them on one KillSwitch.      *)
(* (KillSwitch has each as one step, for its use inside Gateway.)          *)
(***************************************************************************)
EXTENDS Naturals, FiniteSets

CONSTANTS
  Changes,     \* one engage() or disengage() each
  Does,        \* [Changes -> [action, actor]]
  NoOperator   \* the empty _engaged_by field

\* namer holds one of either.
ASSUME SwitchAssumption == NoOperator \notin Changes

VARIABLES
  engaged,     \* _engaged
  engagedBy,   \* _engaged_by
  history,     \* the changes the list of them holds
  auditRows,   \* the changes the audit ledger holds a row of
  pc,          \* [Changes -> where the thread is]
  up,          \* history: the engage() calls since the flag was last taken down
  namer,       \* history: the last engage() that named its actor, or NoOperator
  met          \* history: the pairs <<e, d>> of an engage() and a disengage()
               \* that were under way at once

switchVars == <<engaged, engagedBy, history, auditRows, pc, up, namer, met>>

SwitchInit ==
  /\ engaged = FALSE
  /\ engagedBy = NoOperator
  /\ history = {}
  /\ auditRows = {}
  /\ pc = [c \in Changes |-> "idle"]
  /\ up = {}
  /\ namer = NoOperator
  /\ met = {}

Engages    == {c \in Changes : Does[c].action = "ENGAGE"}
Disengages == {c \in Changes : Does[c].action = "DISENGAGE"}

Under(c) == pc[c] \notin {"idle", "returned", "refused"}

Goes(c, from, to) == pc[c] = from /\ pc' = [pc EXCEPT ![c] = to]

Actor(c) == Does[c].actor

\* engage(): the flag first, then who engaged.
Engage(c) ==
  /\ c \in Engages
  /\ Goes(c, "idle", "engaged")
  /\ engaged' = TRUE
  /\ up' = up \cup {c}
  /\ met' = met \cup {<<c, d>> : d \in {r \in Disengages : Under(r)}}
  /\ UNCHANGED <<engagedBy, history, auditRows, namer>>

NameEngager(c) ==
  /\ Goes(c, "engaged", "named")
  /\ engagedBy' = Actor(c)
  /\ namer' = c
  /\ UNCHANGED <<engaged, history, auditRows, up, met>>

\* Variant: who engaged is not compared.
TestRelease_AnyActor(c) ==
  /\ c \in Disengages
  /\ Goes(c, "idle", IF ~engaged THEN "refused" ELSE "tested")
  /\ met' = IF pc'[c] = "tested"
              THEN met \cup {<<e, c>> : e \in {n \in Engages : Under(n)}} ELSE met
  /\ UNCHANGED <<engaged, engagedBy, history, auditRows, up, namer>>

\* disengage(): its tests, and only then the flag.
TestRelease(c) ==
  /\ c \in Disengages
  /\ Goes(c, "idle", IF ~engaged \/ Actor(c) = engagedBy THEN "refused" ELSE "tested")
  /\ met' = IF pc'[c] = "tested"
              THEN met \cup {<<e, c>> : e \in {n \in Engages : Under(n)}} ELSE met
  /\ UNCHANGED <<engaged, engagedBy, history, auditRows, up, namer>>

TakeDown(c) ==
  /\ Goes(c, "tested", "released")
  /\ engaged' = FALSE
  /\ up' = {}
  /\ UNCHANGED <<engagedBy, history, auditRows, namer, met>>

LogChange(c) ==
  /\ \/ Goes(c, "named", "logged")
     \/ Goes(c, "released", "logged")
  /\ history' = history \cup {c}
  /\ UNCHANGED <<engaged, engagedBy, auditRows, up, namer, met>>

\* _audit: an error of the audit ledger is swallowed.
AuditChange(c) ==
  /\ Goes(c, "logged", "audited")
  /\ auditRows' \in {auditRows, auditRows \cup {c}}
  /\ UNCHANGED <<engaged, engagedBy, history, up, namer, met>>

\* _zero_budgets finds no zero_all on the registry and does nothing;
\* disengage() clears the engaging actor only now.
Finish(c) ==
  /\ Goes(c, "audited", "returned")
  /\ engagedBy' = IF c \in Disengages THEN NoOperator ELSE engagedBy
  /\ UNCHANGED <<engaged, history, auditRows, up, namer, met>>

SwitchStep(c) ==
  NameEngager(c) \/ TakeDown(c) \/ LogChange(c) \/ AuditChange(c) \/ Finish(c)

SwitchThreadStep == \E c \in Changes : Engage(c) \/ TestRelease(c) \/ SwitchStep(c)

-----------------------------------------------------------------------------
\* Separation of duties among threads: the flag is taken down for the actor of
\* the engage() that named itself last, and still stands, only if that engage()
\* overlapped this very disengage(), whose test it escaped, or one that cleared
\* the name after it, as disengage() does after its audit call
\* (kill_switch.py:85-93).
OwnReleaseNeedsAnOverlap ==
  [][\A c \in Changes :
       TakeDown(c) /\ namer \in up /\ Actor(namer) = Actor(c) =>
         \E d \in Disengages :
           <<namer, d>> \in met /\ (d = c \/ pc[d] = "returned")]_switchVars
=============================================================================
