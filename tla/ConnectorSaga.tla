---------------------------- MODULE ConnectorSaga ----------------------------
(***************************************************************************)
(* The governed connector and its saga                                     *)
(* (infra/golden-pilot/connector-pilot.yaml): CreateTicket -> RiskyNotify, *)
(* whose errors are caught and compensated by voiding the ticket.  One     *)
(* execution per member of Sagas; create_ticket is one step per table      *)
(* access; a Lambda may die between two.                                   *)
(*                                                                         *)
(* Input[x] is the input of execution x: the caller's idempotency key, and *)
(* whether the downstream call of RiskyNotify fails.  uuid4 makes a new    *)
(* ticket id per create, so the ticket x creates is named x.  Every        *)
(* execution has a request_id of its own, so rows[x] are its audit rows.   *)
(***************************************************************************)
EXTENDS Naturals, FiniteSets

CONSTANTS
  Sagas,
  Keys,
  Input,     \* [Sagas -> [key, fail]]
  NoTicket,  \* the empty ticket_id
  KeyTtl,    \* 86400 s: the idempotency row's expires_at
  MaxTime,   \* bound on the clock
  MaxDeaths  \* bound on the Lambdas that die

VARIABLES
  pc,        \* [Sagas -> where the execution is]
  created,   \* [Sagas -> $.created.ticket_id]
  idem,      \* [Keys -> the idempotency row]
  tickets,   \* [Sagas -> status of the ticket that execution created]
  rows,      \* [Sagas -> the seq numbers _audit was called with]
  claims,    \* history: [Keys -> how often the claim succeeded]
  died,      \* where Lambdas died: <<execution, state>>
  clock

vars == <<pc, created, idem, tickets, rows, claims, died, clock>>

ASSUME SagaAssumption ==
  /\ KeyTtl \in Nat /\ MaxTime \in Nat /\ MaxDeaths \in Nat
  /\ NoTicket \notin Sagas
  /\ Input \in [Sagas -> [key : Keys, fail : BOOLEAN]]

Creating  == {"claiming", "looking", "announcing", "putting", "naming", "confirming"}
Undoing   == {"voiding", "noting"}
Outcomes  == {"done", "rolled_back", "failed"}

NoClaim == [claimed |-> FALSE, ticket |-> NoTicket, expires |-> 0]

\* An upsert on a row that was swept leaves it without expires_at: for good.
Forever == MaxTime + 1

Init ==
  /\ pc = [x \in Sagas |-> "idle"]
  /\ created = [x \in Sagas |-> NoTicket]
  /\ idem = [k \in Keys |-> NoClaim]
  /\ tickets = [x \in Sagas |-> "none"]
  /\ rows = [x \in Sagas |-> {}]
  /\ claims = [k \in Keys |-> 0]
  /\ died = {}
  /\ clock = 0

To(x, from, to) == pc[x] = from /\ pc' = [pc EXCEPT ![x] = to]

\* _audit: a put whose ClientError is swallowed, so the row itself may be missing.
Row(x, seq) == rows' = [rows EXCEPT ![x] = @ \cup {seq}]

Key(x) == Input[x].key

-----------------------------------------------------------------------------
\* create_ticket

Start(x) ==
  /\ To(x, "idle", "claiming")
  /\ UNCHANGED <<created, idem, tickets, rows, claims, died, clock>>

\* Variant: a plain put, which never finds the key taken.
Claim_Unconditional(x) ==
  /\ To(x, "claiming", "announcing")
  /\ idem' = [idem EXCEPT ![Key(x)] = [claimed |-> TRUE, ticket |-> NoTicket,
                                       expires |-> clock + KeyTtl]]
  /\ claims' = [claims EXCEPT ![Key(x)] = IF idem[Key(x)].claimed THEN @ ELSE @ + 1]
  /\ UNCHANGED <<created, tickets, rows, died, clock>>

\* The conditional put.  When the response to it is lost the SDK sends it again: it
\* then meets its own row, and the key counts as taken by another.
Claim(x) ==
  /\ IF idem[Key(x)].claimed
       THEN To(x, "claiming", "looking") /\ UNCHANGED <<idem, claims>>
       ELSE /\ To(x, "claiming", "announcing") \/ To(x, "claiming", "looking")
            /\ idem' = [idem EXCEPT ![Key(x)] = [claimed |-> TRUE, ticket |-> NoTicket,
                                                 expires |-> clock + KeyTtl]]
            /\ claims' = [claims EXCEPT ![Key(x)] = @ + 1]
  /\ UNCHANGED <<created, tickets, rows, died, clock>>

\* The hit returns what the row holds by now: "" before its ticket is named.
Look(x) ==
  /\ To(x, "looking", "notifying")
  /\ created' = [created EXCEPT ![x] = idem[Key(x)].ticket]
  /\ Row(x, 10)
  /\ UNCHANGED <<idem, tickets, claims, died, clock>>

Announce(x) ==
  /\ To(x, "announcing", "putting")
  /\ Row(x, 0)
  /\ UNCHANGED <<created, idem, tickets, claims, died, clock>>

\* Variant: the idempotency row is given the ticket before it exists.
PutTicket_NamedFirst(x) ==
  /\ To(x, "putting", "naming")
  /\ idem' = [idem EXCEPT ![Key(x)].ticket = x]
  /\ UNCHANGED <<created, tickets, rows, claims, died, clock>>

PutTicket(x) ==
  /\ To(x, "putting", "naming")
  /\ tickets' = [tickets EXCEPT ![x] = "open"]
  /\ UNCHANGED <<created, idem, rows, claims, died, clock>>

NameTicket(x) ==
  LET row == idem[Key(x)] IN
  /\ To(x, "naming", "confirming")
  /\ idem' = [idem EXCEPT ![Key(x)] =
                [claimed |-> TRUE, ticket |-> x,
                 expires |-> IF row.claimed THEN row.expires ELSE Forever]]
  /\ UNCHANGED <<created, tickets, rows, claims, died, clock>>

\* Variant: the response lacks the ticket_id.
Confirm_NoId(x) ==
  /\ To(x, "confirming", "notifying")
  /\ Row(x, 1)
  /\ UNCHANGED <<created, idem, tickets, claims, died, clock>>

Confirm(x) ==
  /\ To(x, "confirming", "notifying")
  /\ created' = [created EXCEPT ![x] = x]
  /\ Row(x, 1)
  /\ UNCHANGED <<idem, tickets, claims, died, clock>>

-----------------------------------------------------------------------------
\* risky_notify and void_ticket

Notify(x) ==
  /\ To(x, "notifying", IF Input[x].fail THEN "voiding" ELSE "done")
  /\ Row(x, 2)
  /\ UNCHANGED <<created, idem, tickets, claims, died, clock>>

\* Without a ticket id nothing is voided, and the answer says "voided" anyway.
Void(x) ==
  /\ To(x, "voiding", "noting")
  /\ tickets' = IF created[x] = NoTicket THEN tickets
                ELSE [tickets EXCEPT ![created[x]] = "voided"]
  /\ UNCHANGED <<created, idem, rows, claims, died, clock>>

NoteVoid(x) ==
  /\ To(x, "noting", "rolled_back")
  /\ Row(x, 9)
  /\ UNCHANGED <<created, idem, tickets, claims, died, clock>>

\* Variant: RiskyNotify declares no Catch.
Dies_NoCatch(x) ==
  /\ Cardinality(died) < MaxDeaths
  /\ pc[x] \in Creating \cup Undoing \cup {"notifying"}
  /\ pc' = [pc EXCEPT ![x] = "failed"]
  /\ died' = died \cup {<<x, pc[x]>>}
  /\ UNCHANGED <<created, idem, tickets, rows, claims, clock>>

\* An uncaught error, a lost response or a crash.  Only RiskyNotify has a
\* Catch; its error may come before or after the downstream call.
Dies(x) ==
  /\ Cardinality(died) < MaxDeaths
  /\ \/ /\ pc[x] \in Creating \cup Undoing
        /\ pc' = [pc EXCEPT ![x] = "failed"]
     \/ To(x, "notifying", "voiding")
  /\ died' = died \cup {<<x, pc[x]>>}
  /\ UNCHANGED <<created, idem, tickets, rows, claims, clock>>

\* DynamoDB removes an expired idempotency row.
Sweep(k) ==
  /\ idem[k].claimed /\ idem[k].expires < clock
  /\ idem' = [idem EXCEPT ![k] = NoClaim]
  /\ UNCHANGED <<pc, created, tickets, rows, claims, died, clock>>

Tick ==
  /\ clock < MaxTime
  /\ clock' = clock + 1
  /\ UNCHANGED <<pc, created, idem, tickets, rows, claims, died>>

SagaStep(x) ==
  \/ Claim(x) \/ Look(x) \/ Announce(x) \/ PutTicket(x) \/ NameTicket(x)
  \/ Confirm(x) \/ Notify(x) \/ Void(x) \/ NoteVoid(x) \/ Dies(x)

Next ==
  \/ \E x \in Sagas : Start(x) \/ SagaStep(x)
  \/ \E k \in Keys : Sweep(k)
  \/ Tick

Spec == Init /\ [][Next]_vars

\* Step Functions carries on with every execution it has started.
FairSpec == Spec /\ \A x \in Sagas : WF_vars(SagaStep(x))

-----------------------------------------------------------------------------
SagaTypeOK ==
  /\ pc \in [Sagas -> {"idle", "notifying"} \cup Creating \cup Undoing \cup Outcomes]
  /\ created \in [Sagas -> Sagas \cup {NoTicket}]
  /\ idem \in [Keys -> [claimed : BOOLEAN, ticket : Sagas \cup {NoTicket}, expires : Nat]]
  /\ tickets \in [Sagas -> {"none", "open", "voided"}]
  /\ rows \in [Sagas -> SUBSET {0, 1, 2, 9, 10}]
  /\ claims \in [Keys -> Nat]
  /\ died \subseteq Sagas \X (Creating \cup Undoing \cup {"notifying"})
  /\ clock \in Nat

\* However executions overlap, die and are retried, a key has no more tickets
\* than times it was claimed: once until its row expires (connector-pilot.yaml:94).
OneTicketPerClaim ==
  \A k \in Keys :
    Cardinality({x \in Sagas : tickets[x] # "none" /\ Input[x].key = k}) <= claims[k]

\* What a hit returns exists: a named ticket was written, for that very key
\* (connector-pilot.yaml:107 before 109).
NamedTicketsExist ==
  \A k \in Keys : idem[k].ticket # NoTicket =>
    tickets[idem[k].ticket] # "none" /\ Input[idem[k].ticket].key = k

\* An execution that ends RolledBack leaves no open ticket of its own: a ticket
\* can only be orphaned by a create or a compensation that died.
RollbackIsComplete ==
  \A x \in Sagas : /\ pc[x] = "rolled_back" => tickets[x] # "open"
                   /\ pc[x] \in {"notifying"} \cup Undoing /\ created[x] = NoTicket
                        => tickets[x] = "none"

\* A failed notification is compensated, whatever failed: an execution past
\* create_ticket ends Done or RolledBack unless its compensation dies too.
FailureIsCompensated ==
  \A x \in Sagas :
    pc[x] = "notifying" ~> \/ pc[x] \in {"done", "rolled_back"}
                           \/ \E at \in Undoing : <<x, at>> \in died
=============================================================================
