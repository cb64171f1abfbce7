------------------------------ MODULE FrontDoor ------------------------------
(***************************************************************************)
(* The governance-core gateway Lambda                                      *)
(* (infra/terraform/modules/governance_core/index.py): the kill switch is  *)
(* a parameter in SSM, read through a cache that each container keeps for  *)
(* KILL_SWITCH_TTL_SECONDS; then the guardrail, the audit row, the answer. *)
(* A container serves one request at a time.                               *)
(***************************************************************************)
EXTENDS Integers, FiniteSets

CONSTANTS
  Invocations,
  Event,       \* [Invocations -> [rid, container]]
  Containers,
  SwitchTtl,   \* KILL_SWITCH_TTL_SECONDS
  Configured,  \* the containers deployed with KILL_SWITCH_PARAM set
  MaxClock     \* bound on the clock

VARIABLES
  flag,    \* the parameter: "on" or "off"
  offAt,   \* history: the instants at which the parameter was off
  cache,   \* [Containers -> [at, engaged]]
  door,    \* [Invocations -> [pc, began, action]]
  table,   \* [request ids -> "none", or the invocation and decision of its row]
  now

doorVars == <<flag, offAt, cache, door, table, now>>

ASSUME DoorAssumption ==
  /\ SwitchTtl \in Nat /\ MaxClock \in Nat
  /\ \A q \in Invocations : Event[q].container \in Containers

RequestIds == {Event[q].rid : q \in Invocations}

NoDoorRow == [by |-> "none", decision |-> "none"]

DoorInit ==
  /\ flag = "off" /\ offAt = {0}
  /\ cache = [c \in Containers |-> [at |-> -SwitchTtl, engaged |-> FALSE]]
  /\ door = [q \in Invocations |-> [pc |-> "idle", began |-> 0, action |-> "none"]]
  /\ table = [rid \in RequestIds |-> NoDoorRow]
  /\ now = 0

Busy(c) == \E q \in Invocations :
  Event[q].container = c /\ door[q].pc \in {"guarding", "recording"}

\* Variant: a value read is kept for good.
Fresh_Always(c) == cache[c].at >= 0

Fresh(c) == now - cache[c].at < SwitchTtl

\* What a read of the parameter may yield: its value, or "engaged" when it
\* cannot be read or parsed.
Readings == {flag = "on", TRUE}

Enter(q, engaged) ==
  door' = [door EXCEPT ![q] = [pc |-> IF engaged THEN "recording" ELSE "guarding",
                               began |-> now,
                               action |-> IF engaged THEN "KILL_SWITCH" ELSE "none"]]

\* _kill_switch_state, the first thing handler() does.
CheckSwitch(q) ==
  LET c == Event[q].container IN
  /\ door[q].pc = "idle" /\ ~Busy(c)
  /\ IF c \notin Configured THEN Enter(q, FALSE) /\ UNCHANGED cache
     ELSE IF Fresh(c) THEN Enter(q, cache[c].engaged) /\ UNCHANGED cache
     ELSE \E engaged \in Readings :
            /\ Enter(q, engaged)
            /\ cache' = [cache EXCEPT ![c] = [at |-> now, engaged |-> engaged]]
  /\ UNCHANGED <<flag, offAt, table, now>>

\* _apply_guardrail: no intervention, an intervention, an error, or no
\* guardrail configured.
Guardrail(q) ==
  /\ door[q].pc = "guarding"
  /\ \E action \in {"NONE", "GUARDRAIL_INTERVENED", "ERROR", "UNAVAILABLE"} :
       door' = [door EXCEPT ![q].pc = "recording", ![q].action = action]
  /\ UNCHANGED <<flag, offAt, cache, table, now>>

Allows(q) == door[q].action = "NONE"

\* Variant: a row that exists already is taken for one's own.
RecordDecision_Idempotent(q) ==
  LET rid == Event[q].rid IN
  /\ door[q].pc = "recording"
  /\ door' = [door EXCEPT ![q].pc = "answered"]
  /\ table' = IF table[rid] # NoDoorRow THEN table
              ELSE [table EXCEPT ![rid] =
                      [by |-> q, decision |-> IF Allows(q) THEN "allow" ELSE "deny"]]
  /\ UNCHANGED <<flag, offAt, cache, now>>

\* The conditional put and the answer; an error of the put is not caught, be it
\* that the row was there already, that nothing was written, or that the row was
\* and the SDK, its response lost, sent it again.
RecordDecision(q) ==
  LET rid == Event[q].rid IN
  /\ door[q].pc = "recording"
  /\ \/ /\ table[rid] = NoDoorRow
        /\ table' = [table EXCEPT ![rid] =
                       [by |-> q, decision |-> IF Allows(q) THEN "allow" ELSE "deny"]]
        /\ \E pc \in {"answered", "raised"} : door' = [door EXCEPT ![q].pc = pc]
     \/ door' = [door EXCEPT ![q].pc = "raised"] /\ UNCHANGED table
  /\ UNCHANGED <<flag, offAt, cache, now>>

\* An operator writes the parameter.
SetFlag ==
  /\ flag' = IF flag = "on" THEN "off" ELSE "on"
  /\ offAt' = IF flag = "on" THEN offAt \cup {now} ELSE offAt
  /\ UNCHANGED <<cache, door, table, now>>

DoorTick ==
  /\ now < MaxClock
  /\ now' = now + 1
  /\ offAt' = IF flag = "off" THEN offAt \cup {now + 1} ELSE offAt
  /\ UNCHANGED <<flag, cache, door, table>>

DoorStep ==
  \/ \E q \in Invocations : CheckSwitch(q) \/ Guardrail(q) \/ RecordDecision(q)
  \/ SetFlag
  \/ DoorTick

-----------------------------------------------------------------------------
DoorTypeOK ==
  /\ flag \in {"on", "off"}
  /\ offAt \subseteq Nat /\ now \in Nat
  /\ cache \in [Containers -> [at : Int, engaged : BOOLEAN]]
  /\ door \in [Invocations ->
       [pc : {"idle", "guarding", "recording", "answered", "raised"}, began : Nat,
        action : {"none", "KILL_SWITCH", "NONE", "GUARDRAIL_INTERVENED", "ERROR",
                  "UNAVAILABLE"}]]
  /\ table \in [RequestIds -> {NoDoorRow} \cup [by : Invocations, decision : {"allow", "deny"}]]

\* An engaged switch is overlooked for less than the cache's life: a request
\* that gets past it began at an instant at which the switch was off, or less
\* than SwitchTtl after one (index.py:41), whatever read failed in between.
SwitchHoldsWithinTtl ==
  \A q \in Invocations :
    (/\ Event[q].container \in Configured
     /\ door[q].pc # "idle" /\ door[q].action # "KILL_SWITCH") =>
      \E t \in offAt : \/ t = door[q].began
                       \/ t <= door[q].began /\ door[q].began - t < SwitchTtl

\* Whoever is answered has the one row of its request_id, and it says what he
\* was told; a repeated request_id is never answered twice (index.py:121).
AnsweredByItsRow ==
  \A q \in Invocations : door[q].pc = "answered" =>
    /\ table[Event[q].rid].by = q
    /\ table[Event[q].rid].decision = "allow" <=> Allows(q)
=============================================================================
