---------------------------- MODULE BudgetReserve ----------------------------
(***************************************************************************)
(* Token reservation (platform_core/prod/budget_manager_ddb.py).           *)
(* DynamoDBBudget.reserve is one conditional update of an item, sent by a  *)
(* client that may lose the response and send it again; any error answers  *)
(* "denied".  InMemoryBudget.reserve, the analog under a lock, is run next *)
(* to it: `used' is its dictionary entry, `item' the table's attribute.    *)
(***************************************************************************)
EXTENDS Integers, Functions

CONSTANTS
  Reservations,
  Want,         \* [Reservations -> tokens, an integer]
  Cap,          \* the cap every caller of this budget key passes
  MaxResends,   \* how often the client sends an update again
  ResponseLost  \* whether a response may be lost

VARIABLES
  item,      \* the attribute `used': absent is NoItem
  used,      \* InMemoryBudget's entry
  resend,    \* [Reservations -> updates sent again]
  verdict,   \* [Reservations -> "none", "allowed" or "denied"], DynamoDBBudget
  verdictMem \* [Reservations -> the same], InMemoryBudget

reserveVars == <<item, used, resend, verdict, verdictMem>>

ASSUME ReserveAssumption ==
  /\ Want \in [Reservations -> Int]
  /\ Cap \in Int /\ MaxResends \in Nat /\ ResponseLost \in BOOLEAN

NoItem == -1

ReserveInit ==
  /\ item = NoItem /\ used = 0
  /\ resend = [c \in Reservations |-> 0]
  /\ verdict = [c \in Reservations |-> "none"]
  /\ verdictMem = [c \in Reservations |-> "none"]

Valid(c) == Want[c] >= 0 /\ Cap >= 0

Held == IF item = NoItem THEN 0 ELSE item

\* Variant: the condition compares with the cap itself.
Admits_Cap(c) == item = NoItem \/ item <= Cap

\* ConditionExpression: attribute_not_exists(used) OR used <= :cap_minus_n
Admits(c) == item = NoItem \/ item <= Cap - Want[c]

\* Variant: SET used = :n.
Update_Overwrites(c) == item' = Want[c]

\* SET used = if_not_exists(used, :z) + :n
Update(c) == item' = Held + Want[c]

Answer(c, v) == verdict' = [verdict EXCEPT ![c] = v]

\* The in-memory analog decides on the first sending.
ReserveInMemory(c) ==
  IF verdictMem[c] # "none" THEN UNCHANGED <<used, verdictMem>>
  ELSE LET fits == Valid(c) /\ used + Want[c] <= Cap IN
       /\ used' = IF fits THEN used + Want[c] ELSE used
       /\ verdictMem' = [verdictMem EXCEPT ![c] = IF fits THEN "allowed" ELSE "denied"]

Invalid(c) ==
  /\ verdict[c] = "none" /\ ~Valid(c)
  /\ Answer(c, "denied")
  /\ ReserveInMemory(c)
  /\ UNCHANGED <<item, resend>>

\* One sending that the table executes; then its response, or its loss and
\* either another sending or the caught error.
Reserve(c) ==
  /\ verdict[c] = "none" /\ Valid(c)
  /\ IF Admits(c) THEN Update(c) ELSE UNCHANGED item
  /\ \/ Answer(c, IF Admits(c) THEN "allowed" ELSE "denied") /\ UNCHANGED resend
     \/ ResponseLost /\ Answer(c, "denied") /\ UNCHANGED resend
     \/ /\ ResponseLost /\ resend[c] < MaxResends
        /\ resend' = [resend EXCEPT ![c] = @ + 1]
        /\ UNCHANGED verdict
  /\ ReserveInMemory(c)

\* The table never saw it.
ReserveFails(c) ==
  /\ verdict[c] = "none" /\ Valid(c) /\ ResponseLost
  /\ Answer(c, "denied")
  /\ ReserveInMemory(c)
  /\ UNCHANGED <<item, resend>>

ReserveStep == \E c \in Reservations : Invalid(c) \/ Reserve(c) \/ ReserveFails(c)

-----------------------------------------------------------------------------
ReserveTypeOK ==
  /\ item \in Nat \cup {NoItem} /\ used \in Nat
  /\ resend \in [Reservations -> 0..MaxResends]
  /\ verdict \in [Reservations -> {"none", "allowed", "denied"}]
  /\ verdictMem \in [Reservations -> {"none", "allowed", "denied"}]

\* Reservations that race and are sent again cannot pass the cap: in memory none
\* can, in the table only the very first one of a key, which meets no item
\* (budget_manager_ddb.py:82, 158).
OnlyTheFirstMayPassTheCap ==
  /\ used > Cap => used = 0
  /\ item # NoItem /\ item > Cap => \E c \in Reservations :
       item = Want[c] /\ \A d \in Reservations \ {c} : verdict[d] = "allowed" => Want[d] = 0

\* What was allowed is charged: a lost response may charge what was denied,
\* never the reverse (budget_manager_ddb.py:155).
AllowedIsCharged ==
  SumFunctionOnSet(Want, {c \in Reservations : verdict[c] = "allowed"}) <= Held
=============================================================================
