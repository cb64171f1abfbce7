------------------------------ MODULE CloudProofs ------------------------------
(***************************************************************************)
(* What the production kill switch, audit row and budget guarantee for any *)
(* number of requests, containers and reservations, and any lifetime of    *)
(* the cache.                                                              *)
(***************************************************************************)
EXTENDS CloudControls, FiniteSums

-----------------------------------------------------------------------------
(***************************************************************************)
(* The front door.  What a container has cached it read at the time it     *)
(* says, and a reading of "off" was true then.                             *)
(***************************************************************************)
CacheLineage ==
  /\ flag = "off" => now \in offAt
  /\ \A c \in Containers :
       \/ cache[c].at = -SwitchTtl
       \/ /\ cache[c].at \in Nat /\ cache[c].at <= now
          /\ ~cache[c].engaged => cache[c].at \in offAt

\* A request at the guardrail got past the switch; an answered one has a row.
RequestLineage ==
  \A q \in Invocations :
    /\ door[q].pc = "guarding" => door[q].action # "KILL_SWITCH"
    /\ door[q].pc = "answered" => table[Event[q].rid] # NoDoorRow

DoorInv ==
  /\ DoorTypeOK /\ CacheLineage /\ RequestLineage
  /\ SwitchHoldsWithinTtl /\ AnsweredByItsRow

LEMMA DoorInitInv == ASSUME DoorInit PROVE DoorInv
BY DoorAssumption
DEF DoorInit, DoorInv, DoorTypeOK, CacheLineage, RequestLineage, SwitchHoldsWithinTtl,
    AnsweredByItsRow, NoDoorRow

\* Entering through a switch seen off needs an instant at which it was.
LEMMA EnterInv ==
  ASSUME DoorInv, NEW q \in Invocations, door[q].pc = "idle",
         NEW engaged \in BOOLEAN, Enter(q, engaged), UNCHANGED <<flag, offAt, table, now>>,
         ~engaged /\ Event[q].container \in Configured =>
           \E t \in offAt : t = now \/ (t <= now /\ now - t < SwitchTtl),
         CacheLineage', cache' \in [Containers -> [at : Int, engaged : BOOLEAN]]
  PROVE  DoorInv'
<1> USE DEF DoorInv, DoorTypeOK, Enter
<1>1. SwitchHoldsWithinTtl'
  <2> SUFFICES ASSUME NEW p \in Invocations, Event[p].container \in Configured,
                      door'[p].pc # "idle", door'[p].action # "KILL_SWITCH"
               PROVE  \E t \in offAt : \/ t = door'[p].began
                                       \/ t <= door'[p].began /\ door'[p].began - t < SwitchTtl
    BY DEF SwitchHoldsWithinTtl
  <2>1. CASE p = q
    <3>1. ~engaged /\ door'[p].began = now
      BY <2>1
    <3> QED
      BY <2>1, <3>1
  <2>2. CASE p # q
    <3>1. door'[p] = door[p]
      BY <2>2
    <3> QED
      BY <3>1 DEF SwitchHoldsWithinTtl
  <2> QED
    BY <2>1, <2>2
<1>2. AnsweredByItsRow'
  BY DEF AnsweredByItsRow, Allows
<1>3. RequestLineage'
  BY DEF RequestLineage
<1>4. DoorTypeOK'
  OBVIOUS
<1> QED
  BY <1>1, <1>2, <1>3, <1>4

LEMMA CheckSwitchInv ==
  ASSUME DoorInv, NEW q \in Invocations, CheckSwitch(q)
  PROVE  DoorInv'
<1> DEFINE c == Event[q].container
<1>1. /\ c \in Containers /\ cache[c].at \in Int /\ cache[c].engaged \in BOOLEAN
      /\ cache \in [Containers -> [at : Int, engaged : BOOLEAN]] /\ CacheLineage
  BY DoorAssumption DEF DoorInv, DoorTypeOK
<1>2. door[q].pc = "idle" /\ UNCHANGED <<flag, offAt, table, now>>
  BY DEF CheckSwitch
<1>3. UNCHANGED cache => CacheLineage' /\ cache' \in [Containers -> [at : Int, engaged : BOOLEAN]]
  BY <1>1, <1>2 DEF CacheLineage
<1>4. CASE c \notin Configured
  <2>1. Enter(q, FALSE) /\ UNCHANGED cache
    BY <1>4 DEF CheckSwitch
  <2> QED
    BY <1>2, <1>3, <1>4, <2>1, EnterInv
<1>5. CASE c \in Configured /\ Fresh(c)
  <2>1. Enter(q, cache[c].engaged) /\ UNCHANGED cache
    BY <1>5 DEF CheckSwitch
  <2>2. cache[c].at # -SwitchTtl
    BY <1>1, <1>5, DoorAssumption DEF Fresh, DoorInv, DoorTypeOK
  <2>3. ~cache[c].engaged => \E t \in offAt : t = now \/ (t <= now /\ now - t < SwitchTtl)
    BY <1>1, <1>5, <2>2 DEF Fresh, CacheLineage
  <2> QED
    BY <1>1, <1>2, <1>3, <2>1, <2>3, EnterInv
<1>6. CASE c \in Configured /\ ~Fresh(c)
  <2>1. PICK engaged \in Readings :
          /\ Enter(q, engaged)
          /\ cache' = [cache EXCEPT ![c] = [at |-> now, engaged |-> engaged]]
    BY <1>6 DEF CheckSwitch
  <2>2. engaged \in BOOLEAN /\ (~engaged => now \in offAt)
    BY <1>1, <2>1 DEF Readings, DoorInv, DoorTypeOK, CacheLineage
  <2>3. CacheLineage' /\ cache' \in [Containers -> [at : Int, engaged : BOOLEAN]]
    BY <1>1, <1>2, <2>1, <2>2 DEF DoorInv, DoorTypeOK, CacheLineage
  <2>4. ~engaged => \E t \in offAt : t = now \/ (t <= now /\ now - t < SwitchTtl)
    BY <2>2
  <2> HIDE DEF c
  <2>5. engaged \in BOOLEAN /\ Enter(q, engaged)
    BY <2>1, <2>2
  <2> QED
    BY <1>2, <2>3, <2>4, <2>5, EnterInv
<1> QED
  BY <1>4, <1>5, <1>6

LEMMA GuardrailInv ==
  ASSUME DoorInv, NEW q \in Invocations, Guardrail(q)
  PROVE  DoorInv'
<1>1. PICK action \in {"NONE", "GUARDRAIL_INTERVENED", "ERROR", "UNAVAILABLE"} :
        door' = [door EXCEPT ![q].pc = "recording", ![q].action = action]
  BY DEF Guardrail
<1>2. door[q].pc = "guarding" /\ UNCHANGED <<flag, offAt, cache, table, now>>
  BY DEF Guardrail
<1>3. DoorTypeOK'
  <2> DEFINE Records ==
        [pc : {"idle", "guarding", "recording", "answered", "raised"}, began : Nat,
         action : {"none", "KILL_SWITCH", "NONE", "GUARDRAIL_INTERVENED", "ERROR",
                   "UNAVAILABLE"}]
  <2>1. door \in [Invocations -> Records]
    BY DEF DoorInv, DoorTypeOK
  <2>2. [door[q] EXCEPT !.pc = "recording", !.action = action] \in Records
    BY <2>1
  <2>3. door' = [door EXCEPT ![q] = [door[q] EXCEPT !.pc = "recording", !.action = action]]
    BY <1>1, <2>1
  <2>4. door' \in [Invocations -> Records]
    <3> HIDE DEF Records
    <3> QED
      BY <2>1, <2>2, <2>3
  <2> QED
    BY <1>2, <2>4 DEF DoorInv, DoorTypeOK
<1>4. CacheLineage'
  BY <1>2 DEF DoorInv, CacheLineage
<1>5. RequestLineage' /\ AnsweredByItsRow'
  BY <1>1, <1>2 DEF DoorInv, DoorTypeOK, RequestLineage, AnsweredByItsRow, Allows
<1>6. SwitchHoldsWithinTtl'
  <2>1. door[q].pc # "idle" /\ door[q].action # "KILL_SWITCH"
    BY <1>2 DEF DoorInv, RequestLineage
  <2> QED
    BY <1>1, <1>2, <2>1 DEF DoorInv, DoorTypeOK, SwitchHoldsWithinTtl
<1> QED
  BY <1>3, <1>4, <1>5, <1>6 DEF DoorInv

LEMMA RecordDecisionInv ==
  ASSUME DoorInv, NEW q \in Invocations, RecordDecision(q)
  PROVE  DoorInv'
<1> DEFINE rid == Event[q].rid
           row == [by |-> q, decision |-> IF Allows(q) THEN "allow" ELSE "deny"]
<1>1. rid \in RequestIds
  BY DEF RequestIds
<1>2. door[q].pc = "recording" /\ UNCHANGED <<flag, offAt, cache, now>>
  BY DEF RecordDecision
<1>3. PICK pc \in {"answered", "raised"} :
        /\ door' = [door EXCEPT ![q].pc = pc]
        /\ \/ /\ table[rid] = NoDoorRow
              /\ table' = [table EXCEPT ![rid] = row]
           \/ pc = "raised" /\ UNCHANGED table
  BY DEF RecordDecision
<1>4. \A p \in Invocations :
        /\ door'[p].action = door[p].action /\ door'[p].began = door[p].began
        /\ door'[p].pc = IF p = q THEN pc ELSE door[p].pc
  BY <1>3 DEF DoorInv, DoorTypeOK
<1>5. DoorTypeOK'
  BY <1>1, <1>2, <1>3 DEF DoorInv, DoorTypeOK
<1>6. CacheLineage'
  BY <1>2 DEF DoorInv, CacheLineage
<1>7. SwitchHoldsWithinTtl'
  BY <1>2, <1>3, <1>4 DEF DoorInv, SwitchHoldsWithinTtl
<1>8. RequestLineage' /\ AnsweredByItsRow'
  <2> SUFFICES ASSUME NEW p \in Invocations
               PROVE  /\ door'[p].pc = "guarding" => door'[p].action # "KILL_SWITCH"
                      /\ door'[p].pc = "answered" =>
                           /\ table'[Event[p].rid] # NoDoorRow
                           /\ table'[Event[p].rid].by = p
                           /\ table'[Event[p].rid].decision = "allow" <=> door[p].action = "NONE"
    BY <1>4 DEF RequestLineage, AnsweredByItsRow, Allows
  <2>1. Event[p].rid \in RequestIds
    BY DEF RequestIds
  <2>2. CASE p = q
    BY <1>1, <1>3, <1>4, <2>2 DEF DoorInv, DoorTypeOK, Allows, NoDoorRow
  <2>3. CASE p # q
    <3>1. door[p].pc = "answered" => table'[Event[p].rid] = table[Event[p].rid]
      BY <1>1, <1>3, <2>1 DEF DoorInv, DoorTypeOK, RequestLineage
    <3> QED
      BY <1>4, <2>3, <3>1 DEF DoorInv, RequestLineage, AnsweredByItsRow, Allows
  <2> QED
    BY <2>2, <2>3
<1> QED
  BY <1>5, <1>6, <1>7, <1>8 DEF DoorInv

LEMMA DoorStepInv == ASSUME DoorInv, DoorStep PROVE DoorInv'
<1>1. ASSUME NEW q \in Invocations, CheckSwitch(q) \/ Guardrail(q) \/ RecordDecision(q)
      PROVE  DoorInv'
  BY <1>1, CheckSwitchInv, GuardrailInv, RecordDecisionInv
<1>2. CASE SetFlag
  BY <1>2
  DEF SetFlag, DoorInv, DoorTypeOK, CacheLineage, RequestLineage, SwitchHoldsWithinTtl,
      AnsweredByItsRow, Allows
<1>3. CASE DoorTick
  BY <1>3, DoorAssumption
  DEF DoorTick, DoorInv, DoorTypeOK, CacheLineage, RequestLineage, SwitchHoldsWithinTtl,
      AnsweredByItsRow, Allows
<1> QED
  BY <1>1, <1>2, <1>3 DEF DoorStep

LEMMA DoorStutterInv == ASSUME DoorInv, UNCHANGED doorVars PROVE DoorInv'
BY DEF doorVars, DoorInv, DoorTypeOK, CacheLineage, RequestLineage, SwitchHoldsWithinTtl,
       AnsweredByItsRow, Allows

-----------------------------------------------------------------------------
(***************************************************************************)
(* The budget item.  Nobody is allowed before the item exists.             *)
(***************************************************************************)
AllowedMeansItem ==
  item = NoItem => \A c \in Reservations : verdict[c] # "allowed"

ReserveInv == ReserveTypeOK /\ AllowedMeansItem /\ OnlyTheFirstMayPassTheCap

LEMMA ReserveInitInv == ASSUME ReserveInit PROVE ReserveInv
BY ReserveAssumption
DEF ReserveInit, ReserveInv, ReserveTypeOK, AllowedMeansItem, OnlyTheFirstMayPassTheCap, NoItem

\* The analog in memory, which every sending runs or leaves alone.
LEMMA ReserveInMemoryInv ==
  ASSUME ReserveInv, NEW c \in Reservations, ReserveInMemory(c)
  PROVE  /\ used' \in Nat /\ verdictMem' \in [Reservations -> {"none", "allowed", "denied"}]
         /\ used' > Cap => used' = 0
<1>1. Want[c] \in Int /\ Cap \in Int /\ used \in Nat
  BY ReserveAssumption DEF ReserveInv, ReserveTypeOK
<1>2. CASE verdictMem[c] # "none"
  BY <1>2 DEF ReserveInMemory, ReserveInv, ReserveTypeOK, OnlyTheFirstMayPassTheCap
<1>3. CASE verdictMem[c] = "none" /\ Valid(c) /\ used + Want[c] <= Cap
  BY <1>1, <1>3 DEF ReserveInMemory, Valid, ReserveInv, ReserveTypeOK, OnlyTheFirstMayPassTheCap
<1>4. CASE verdictMem[c] = "none" /\ ~(Valid(c) /\ used + Want[c] <= Cap)
  BY <1>1, <1>4 DEF ReserveInMemory, ReserveInv, ReserveTypeOK, OnlyTheFirstMayPassTheCap
<1> QED
  BY <1>2, <1>3, <1>4

LEMMA ReserveStepInv == ASSUME ReserveInv, ReserveStep PROVE ReserveInv'
<1> SUFFICES ASSUME NEW c \in Reservations, Invalid(c) \/ Reserve(c) \/ ReserveFails(c)
             PROVE  ReserveInv'
  BY DEF ReserveStep
<1>1. /\ used' \in Nat /\ verdictMem' \in [Reservations -> {"none", "allowed", "denied"}]
      /\ used' > Cap => used' = 0
  BY ReserveInMemoryInv DEF Invalid, Reserve, ReserveFails
<1>2. /\ Want \in [Reservations -> Int] /\ Cap \in Int /\ MaxResends \in Nat
      /\ item \in Nat \cup {-1} /\ resend \in [Reservations -> 0 .. MaxResends]
      /\ verdict \in [Reservations -> {"none", "allowed", "denied"}]
  BY ReserveAssumption DEF ReserveInv, ReserveTypeOK, NoItem
<1>3. CASE Invalid(c) \/ ReserveFails(c)
  <2>1. verdict' = [verdict EXCEPT ![c] = "denied"] /\ UNCHANGED <<item, resend>>
    BY <1>3 DEF Invalid, ReserveFails, Answer
  <2> QED
    BY <1>1, <1>2, <2>1
    DEF ReserveInv, ReserveTypeOK, AllowedMeansItem, OnlyTheFirstMayPassTheCap, NoItem
<1>4. CASE Reserve(c)
  <2>1. Valid(c) /\ Want[c] \in Nat /\ verdict[c] = "none"
    BY <1>2, <1>4 DEF Reserve, Valid
  <2>2. PICK v \in {"none", "allowed", "denied"} :
          /\ verdict' = [verdict EXCEPT ![c] = v]
          /\ v = "allowed" => Admits(c)
    BY <1>2, <1>4, <2>1 DEF Reserve, Answer
  <2>3. resend' \in [Reservations -> 0 .. MaxResends]
    BY <1>2, <1>4 DEF Reserve
  <2>4. CASE Admits(c)
    <3>1. item' = Held + Want[c] /\ item' \in Nat
      BY <1>2, <1>4, <2>1, <2>4 DEF Reserve, Update, Held, NoItem
    <3>2. ReserveTypeOK' /\ AllowedMeansItem'
      <4>1. item' \in Nat \cup {NoItem} /\ item' # NoItem
        BY <3>1 DEF NoItem
      <4>2. verdict' \in [Reservations -> {"none", "allowed", "denied"}]
        BY <1>2, <2>2
      <4> QED
        BY <1>1, <2>3, <4>1, <4>2 DEF ReserveTypeOK, AllowedMeansItem
    <3>3. OnlyTheFirstMayPassTheCap'
      <4>1. CASE item = NoItem
        <5>1. item' = Want[c]
          BY <1>2, <3>1, <4>1 DEF Held
        <5>2. \A d \in Reservations \ {c} : verdict'[d] # "allowed"
          BY <1>2, <2>2, <4>1 DEF ReserveInv, AllowedMeansItem
        <5> QED
          BY <1>1, <5>1, <5>2 DEF OnlyTheFirstMayPassTheCap
      <4>2. CASE item # NoItem
        <5>1. item' <= Cap
          BY <1>2, <2>1, <2>4, <3>1, <4>2 DEF Held, Admits, NoItem
        <5> QED
          BY <1>1, <1>2, <3>1, <5>1 DEF OnlyTheFirstMayPassTheCap
      <4> QED
        BY <4>1, <4>2
    <3> QED
      BY <3>2, <3>3 DEF ReserveInv
  <2>5. CASE ~Admits(c)
    <3>1. UNCHANGED item /\ item # NoItem
      BY <1>4, <2>5 DEF Reserve, Admits
    <3> QED
      BY <1>1, <1>2, <2>2, <2>3, <2>5, <3>1
      DEF ReserveInv, ReserveTypeOK, AllowedMeansItem, OnlyTheFirstMayPassTheCap, NoItem
  <2> QED
    BY <2>4, <2>5
<1> QED
  BY <1>3, <1>4

LEMMA ReserveStutterInv == ASSUME ReserveInv, UNCHANGED reserveVars PROVE ReserveInv'
BY DEF reserveVars, ReserveInv, ReserveTypeOK, AllowedMeansItem, OnlyTheFirstMayPassTheCap

-----------------------------------------------------------------------------
\* The reservations that were answered "allowed".
Allowed == {c \in Reservations : verdict[c] = "allowed"}

\* They are finitely many, and what they asked for is in the item.
Charged == IsFiniteSet(Allowed) /\ AllowedIsCharged

\* The item only ever grows, and by no less than what is newly allowed.
LEMMA ReservePays ==
  ASSUME ReserveInv, NEW c \in Reservations, Reserve(c)
  PROVE  /\ verdict[c] = "none" /\ Want[c] \in Nat /\ Held \in Nat /\ Held' \in Nat
         /\ Held' >= Held
         /\ \/ verdict' = [verdict EXCEPT ![c] = "denied"]
            \/ verdict' = verdict
            \/ verdict' = [verdict EXCEPT ![c] = "allowed"] /\ Held' = Held + Want[c]
<1>1. Want[c] \in Nat /\ Held \in Nat /\ verdict[c] = "none"
  BY ReserveAssumption DEF Reserve, Valid, ReserveInv, ReserveTypeOK, Held, NoItem
<1>2. CASE Admits(c)
  <2>1. item' = Held + Want[c]
    BY <1>2 DEF Reserve, Update
  <2>2. Held' = Held + Want[c]
    BY <1>1, <2>1 DEF Held, NoItem
  <2>3. \/ verdict' = [verdict EXCEPT ![c] = "denied"]
        \/ verdict' = verdict
        \/ verdict' = [verdict EXCEPT ![c] = "allowed"]
    BY <1>2 DEF Reserve, Answer
  <2> QED
    BY <1>1, <2>2, <2>3
<1>3. CASE ~Admits(c)
  <2>1. Held' = Held
    BY <1>3 DEF Reserve, Held
  <2>2. verdict' = [verdict EXCEPT ![c] = "denied"] \/ verdict' = verdict
    BY <1>3 DEF Reserve, Answer
  <2> QED
    BY <1>1, <2>1, <2>2
<1> QED
  BY <1>2, <1>3

\* What was allowed before, and no more, is still paid for.
LEMMA NothingNewIsAllowed ==
  ASSUME Charged, Allowed' = Allowed, Held \in Nat, Held' \in Nat, Held' >= Held
  PROVE  Charged'
<1> DEFINE total == SumFunctionOnSet(Want, Allowed)
<1>1. total \in Int /\ total <= Held
  <2>1. \A d \in Allowed : Want[d] \in Int
    BY ReserveAssumption DEF Allowed
  <2> QED
    BY <2>1, SumType DEF Charged, AllowedIsCharged, Allowed
<1>2. total' = total
  BY ReserveAssumption
<1> HIDE DEF total
<1>3. total' <= Held'
  BY <1>1, <1>2
<1> QED
  BY <1>3 DEF total, Charged, AllowedIsCharged, Allowed

LEMMA ReserveStepCharged ==
  ASSUME ReserveInv, Charged, ReserveStep
  PROVE  Charged'
<1>1. PICK c \in Reservations : Invalid(c) \/ Reserve(c) \/ ReserveFails(c)
  BY DEF ReserveStep
<1>2. verdict \in [Reservations -> {"none", "allowed", "denied"}] /\ Held \in Nat
  BY DEF ReserveInv, ReserveTypeOK, Held, NoItem
<1>3. CASE Invalid(c) \/ ReserveFails(c)
  <2>1. verdict[c] = "none" /\ verdict' = [verdict EXCEPT ![c] = "denied"] /\ item' = item
    BY <1>3 DEF Invalid, ReserveFails, Answer
  <2>2. Allowed' = Allowed /\ Held' = Held
    BY <1>2, <2>1 DEF Allowed, Held
  <2> QED
    BY <1>2, <2>2, NothingNewIsAllowed
<1>4. CASE Reserve(c)
  <2>1. CASE verdict' = [verdict EXCEPT ![c] = "denied"] \/ verdict' = verdict
    <3>1. Allowed' = Allowed
      BY <1>2, <1>4, <2>1, ReservePays DEF Allowed
    <3> QED
      BY <1>4, <3>1, ReservePays, NothingNewIsAllowed
  <2>2. CASE verdict' = [verdict EXCEPT ![c] = "allowed"] /\ Held' = Held + Want[c]
    <3>1. verdict[c] = "none" /\ Want[c] \in Nat
      BY <1>4, ReservePays
    <3>2. Allowed' = Allowed \cup {c} /\ c \notin Allowed
      BY <1>2, <2>2, <3>1 DEF Allowed
    <3>3. IsFiniteSet(Allowed) /\ IsFiniteSet(Allowed \cup {c})
      BY FS_AddElement DEF Charged
    <3>4. \A d \in Allowed \cup {c} : Want[d] \in Int
      BY ReserveAssumption DEF Allowed
    <3>5. /\ SumFunctionOnSet(Want, Allowed) \in Int
          /\ SumFunctionOnSet(Want, Allowed \cup {c})
               = SumFunctionOnSet(Want, Allowed) + Want[c]
      BY <3>2, <3>3, <3>4, SumType, SumAdds
    <3>6. SumFunctionOnSet(Want, Allowed) <= Held
      BY DEF Charged, AllowedIsCharged, Allowed
    <3>7. SumFunctionOnSet(Want, Allowed') <= Held'
      BY <1>2, <2>2, <3>1, <3>2, <3>5, <3>6
    <3> QED
      BY <3>2, <3>3, <3>7 DEF Charged, AllowedIsCharged, Allowed
  <2> QED
    BY <1>4, <2>1, <2>2, ReservePays
<1> QED
  BY <1>1, <1>3, <1>4

-----------------------------------------------------------------------------
\* CloudTypeOK with what the front door and the budget item have behind them is
\* inductive (index.py:34-123, budget_manager_ddb.py:72-172).
THEOREM CloudInvHolds == Spec => [](DoorInv /\ ReserveInv)
<1>1. Init => DoorInv /\ ReserveInv
  BY DoorInitInv, ReserveInitInv DEF Init
<1>2. (DoorInv /\ ReserveInv) /\ [Next]_cloudVars => (DoorInv /\ ReserveInv)'
  BY DoorStepInv, DoorStutterInv, ReserveStepInv, ReserveStutterInv DEF Next, cloudVars
<1> QED
  BY <1>1, <1>2, PTL DEF Spec

\* Every variable of the two components stays in its domain.
THEOREM CloudTypesHold == Spec => []CloudTypeOK
<1>1. DoorInv /\ ReserveInv => CloudTypeOK
  BY DEF DoorInv, ReserveInv, CloudTypeOK
<1> QED
  BY <1>1, CloudInvHolds, PTL

\* A request gets past an engaged switch only within the life of a cached "off"
\* (index.py:41), for every life of the cache and every number of containers.
THEOREM SwitchHoldsWithinTtlHolds == Spec => []SwitchHoldsWithinTtl
<1>1. DoorInv => SwitchHoldsWithinTtl
  BY DEF DoorInv
<1> QED
  BY <1>1, CloudInvHolds, PTL

\* Whoever is answered has the one row of its request_id (index.py:121).
THEOREM AnsweredByItsRowHolds == Spec => []AnsweredByItsRow
<1>1. DoorInv => AnsweredByItsRow
  BY DEF DoorInv
<1> QED
  BY <1>1, CloudInvHolds, PTL

\* No race and no resending takes the in-memory budget past its cap, or the item
\* once it exists (budget_manager_ddb.py:82, 158).
THEOREM OnlyTheFirstMayPassTheCapHolds == Spec => []OnlyTheFirstMayPassTheCap
<1>1. ReserveInv => OnlyTheFirstMayPassTheCap
  BY DEF ReserveInv
<1> QED
  BY <1>1, CloudInvHolds, PTL

\* What was allowed is charged, whatever responses are lost and however often an
\* update is sent again (budget_manager_ddb.py:155), for any number of reservations.
THEOREM AllowedIsChargedHolds == Spec => []AllowedIsCharged
<1>1. Init => Charged
  <2> SUFFICES ASSUME Init PROVE Charged
    OBVIOUS
  <2>1. Allowed = {} /\ Held = 0
    BY DEF Init, ReserveInit, Allowed, Held
  <2>2. SumFunctionOnSet(Want, Allowed) <= Held
    BY <2>1, SumOfNone
  <2> QED
    BY <2>1, <2>2, FS_EmptySet DEF Charged, AllowedIsCharged, Allowed
<1>2. ReserveInv /\ Charged /\ [Next]_cloudVars => Charged'
  <2> SUFFICES ASSUME ReserveInv, Charged, [Next]_cloudVars PROVE Charged'
    OBVIOUS
  <2>1. CASE ReserveStep
    BY <2>1, ReserveStepCharged
  <2>2. CASE UNCHANGED reserveVars
    <3>1. Allowed' = Allowed /\ Held' = Held /\ Held \in Nat
      BY <2>2 DEF reserveVars, Allowed, Held, ReserveInv, ReserveTypeOK, NoItem
    <3> QED
      BY <3>1, NothingNewIsAllowed
  <2> QED
    BY <2>1, <2>2 DEF Next, cloudVars
<1>3. Charged => AllowedIsCharged
  BY DEF Charged
<1> QED
  BY <1>1, <1>2, <1>3, CloudInvHolds, PTL DEF Spec
=============================================================================
