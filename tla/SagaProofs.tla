------------------------------ MODULE SagaProofs ------------------------------
(***************************************************************************)
(* What ConnectorSaga guarantees for any number of executions, keys and    *)
(* crashes, and any lifetime of the idempotency rows.                      *)
(***************************************************************************)
EXTENDS ConnectorSaga, FiniteSetTheorems, TLAPS

-----------------------------------------------------------------------------
(***************************************************************************)
(* The inductive invariant.  A ticket can be traced to the execution that  *)
(* put it and to the claim that let it.                                    *)
(***************************************************************************)
Before   == {"idle", "claiming", "looking", "announcing", "putting"}
Holding  == {"announcing", "putting", "naming", "confirming"}
Answered == {"notifying"} \cup Undoing

\* What execution x has behind it.
ExecutionLineage(x) ==
  /\ pc[x] \in Before => tickets[x] = "none"
  /\ pc[x] \in {"naming", "confirming"} => tickets[x] # "none"
  /\ pc[x] \in Answered => created[x] = x \/ tickets[x] = "none"
  /\ pc[x] \in {"noting", "rolled_back"} => tickets[x] # "open"
  /\ created[x] # NoTicket => tickets[created[x]] # "none"

\* The executions that hold a claim of k, or have put a ticket under one.
Claimants(k) == {x \in Sagas : Key(x) = k /\ (pc[x] \in Holding \/ tickets[x] # "none")}

ClaimsCovered(k) ==
  IsFiniteSet(Claimants(k)) /\ Cardinality(Claimants(k)) <= claims[k]

SagaLineage ==
  /\ \A x \in Sagas : ExecutionLineage(x)
  /\ \A k \in Keys : ClaimsCovered(k)
  /\ NamedTicketsExist

SagaInv == SagaTypeOK /\ SagaLineage

-----------------------------------------------------------------------------
LEMMA SagaInitInv == ASSUME Init PROVE SagaInv
<1>1. SagaTypeOK
  BY SagaAssumption DEF Init, SagaTypeOK, NoClaim
<1>2. \A x \in Sagas : ExecutionLineage(x)
  BY DEF Init, ExecutionLineage, Answered, Undoing
<1>3. \A k \in Keys : ClaimsCovered(k)
  <2> SUFFICES ASSUME NEW k \in Keys PROVE ClaimsCovered(k)
    OBVIOUS
  <2>1. Claimants(k) = {}
    BY DEF Init, Claimants, Holding
  <2> QED
    BY <2>1, FS_EmptySet DEF ClaimsCovered, Init
<1>4. NamedTicketsExist
  BY DEF Init, NamedTicketsExist, NoClaim
<1> QED
  BY <1>1, <1>2, <1>3, <1>4 DEF SagaInv, SagaLineage

LEMMA KeyIsKey == ASSUME NEW x \in Sagas PROVE Key(x) \in Keys
BY SagaAssumption DEF Key

\* Types.
LEMMA SagaTypes == ASSUME SagaTypeOK, [Next]_vars PROVE SagaTypeOK'
<1>1. ASSUME NEW x \in Sagas, Start(x) \/ SagaStep(x) PROVE SagaTypeOK'
  <2> USE <1>1, KeyIsKey DEF SagaTypeOK, To, Row, Creating, Undoing, Outcomes
  <2>1. CASE Start(x)
    BY <2>1 DEF Start
  <2>2. CASE Claim(x)
    <3>1. [claimed |-> TRUE, ticket |-> NoTicket, expires |-> clock + KeyTtl]
            \in [claimed : BOOLEAN, ticket : Sagas \cup {NoTicket}, expires : Nat]
      BY SagaAssumption
    <3>2. CASE idem[Key(x)].claimed
      BY <2>2, <3>2 DEF Claim
    <3>3. CASE ~idem[Key(x)].claimed
      <4>1. /\ \E to \in {"announcing", "looking"} : pc' = [pc EXCEPT ![x] = to]
            /\ idem' = [idem EXCEPT ![Key(x)] = [claimed |-> TRUE, ticket |-> NoTicket,
                                                 expires |-> clock + KeyTtl]]
            /\ claims' = [claims EXCEPT ![Key(x)] = @ + 1]
            /\ UNCHANGED <<created, tickets, rows, died, clock>>
        BY <2>2, <3>3 DEF Claim
      <4> QED
        BY <3>1, <4>1
    <3> QED
      BY <3>2, <3>3
  <2>3. CASE Look(x)
    BY <2>3 DEF Look
  <2>4. CASE Announce(x)
    BY <2>4 DEF Announce
  <2>5. CASE PutTicket(x)
    BY <2>5 DEF PutTicket
  <2>6. CASE NameTicket(x)
    BY <2>6, SagaAssumption DEF NameTicket, Forever
  <2>7. CASE Confirm(x)
    BY <2>7 DEF Confirm
  <2>8. CASE Notify(x)
    BY <2>8 DEF Notify
  <2>9. CASE Void(x)
    BY <2>9 DEF Void
  <2>10. CASE NoteVoid(x)
    BY <2>10 DEF NoteVoid
  <2>11. CASE Dies(x)
    BY <2>11 DEF Dies
  <2> QED
    BY <1>1, <2>1, <2>2, <2>3, <2>4, <2>5, <2>6, <2>7, <2>8, <2>9, <2>10, <2>11 DEF SagaStep
<1>2. ASSUME NEW k \in Keys, Sweep(k) PROVE SagaTypeOK'
  BY <1>2 DEF SagaTypeOK, Sweep, NoClaim
<1>3. CASE Tick
  BY <1>3 DEF SagaTypeOK, Tick
<1>4. CASE UNCHANGED vars
  BY <1>4 DEF SagaTypeOK, vars
<1> QED
  BY <1>1, <1>2, <1>3, <1>4 DEF Next

-----------------------------------------------------------------------------
LEMMA NoMoreClaimants ==
  ASSUME SagaTypeOK, NEW k \in Keys, ClaimsCovered(k),
         Claimants(k)' \subseteq Claimants(k), claims'[k] = claims[k]
  PROVE  ClaimsCovered(k)'
<1>1. /\ IsFiniteSet(Claimants(k)')
      /\ Cardinality(Claimants(k)') <= Cardinality(Claimants(k))
  BY FS_Subset DEF ClaimsCovered
<1>2. /\ Cardinality(Claimants(k)) \in Nat /\ Cardinality(Claimants(k)') \in Nat
      /\ claims[k] \in Nat
  BY <1>1, FS_CardinalityType DEF ClaimsCovered, SagaTypeOK
<1> QED
  BY <1>1, <1>2 DEF ClaimsCovered

LEMMA OneMore ==
  ASSUME NEW S, IsFiniteSet(S), NEW e
  PROVE  IsFiniteSet(S \cup {e}) /\ Cardinality(S \cup {e}) <= Cardinality(S) + 1
<1>1. Cardinality(S) \in Nat
  BY FS_CardinalityType
<1>2. CASE e \in S
  <2>1. S \cup {e} = S
    BY <1>2
  <2> QED
    BY <1>1, <2>1
<1>3. CASE e \notin S
  BY <1>1, <1>3, FS_AddElement
<1> QED
  BY <1>2, <1>3

\* A claim that succeeds lets one more execution in, and counts it.
LEMMA ClaimLetsOneIn ==
  ASSUME SagaInv, NEW x \in Sagas, Claim(x), NEW k \in Keys
  PROVE  ClaimsCovered(k)'
<1> USE DEF SagaInv, SagaTypeOK, SagaLineage
<1>1. ClaimsCovered(k)
  OBVIOUS
<1>2. CASE Key(x) = k /\ ~idem[k].claimed
  <2>1. claims'[k] = claims[k] + 1
    BY <1>2 DEF Claim
  <2>2. Claimants(k)' \subseteq Claimants(k) \cup {x}
    BY <1>2 DEF Claim, To, Claimants, Holding, Key
  <2> HIDE DEF SagaInv, SagaTypeOK, SagaLineage
  <2>3. /\ IsFiniteSet(Claimants(k) \cup {x})
        /\ Cardinality(Claimants(k) \cup {x}) <= Cardinality(Claimants(k)) + 1
    BY <1>1, OneMore DEF ClaimsCovered
  <2>4. /\ IsFiniteSet(Claimants(k)')
        /\ Cardinality(Claimants(k)') <= Cardinality(Claimants(k) \cup {x})
    BY <2>2, <2>3, FS_Subset
  <2>5. /\ Cardinality(Claimants(k)) \in Nat /\ Cardinality(Claimants(k)') \in Nat
        /\ Cardinality(Claimants(k) \cup {x}) \in Nat /\ claims[k] \in Nat
    BY <1>1, <2>3, <2>4, FS_CardinalityType DEF ClaimsCovered, SagaInv, SagaTypeOK
  <2> QED
    BY <1>1, <2>1, <2>3, <2>4, <2>5 DEF ClaimsCovered
<1>3. CASE ~(Key(x) = k /\ ~idem[k].claimed)
  <2>1. claims'[k] = claims[k]
    BY <1>3, KeyIsKey DEF Claim
  <2>2. Claimants(k)' \subseteq Claimants(k)
    BY <1>3 DEF Claim, To, Claimants, Holding, Key
  <2> QED
    BY <1>1, <2>1, <2>2, NoMoreClaimants
<1> QED
  BY <1>2, <1>3

\* No other step of an execution makes a claimant.
LEMMA OthersLetNobodyIn ==
  ASSUME SagaInv, NEW x \in Sagas, Start(x) \/ SagaStep(x), ~Claim(x), NEW k \in Keys
  PROVE  Claimants(k)' \subseteq Claimants(k) /\ claims' = claims
<1> USE DEF SagaInv, SagaTypeOK, SagaLineage, Claimants, Holding, To, Key
<1>1. CASE Start(x)
  BY <1>1 DEF Start
<1>2. CASE Look(x)
  BY <1>2 DEF Look
<1>3. CASE Announce(x)
  BY <1>3 DEF Announce
<1>4. CASE PutTicket(x)
  BY <1>4 DEF PutTicket
<1>5. CASE NameTicket(x)
  BY <1>5 DEF NameTicket
<1>6. CASE Confirm(x)
  BY <1>6 DEF Confirm, ExecutionLineage
<1>7. CASE Notify(x)
  BY <1>7 DEF Notify
<1>8. CASE Void(x)
  BY <1>8 DEF Void, ExecutionLineage
<1>9. CASE NoteVoid(x)
  BY <1>9 DEF NoteVoid
<1>10. CASE Dies(x)
  BY <1>10 DEF Dies, Creating, Undoing
<1> QED
  BY <1>1, <1>2, <1>3, <1>4, <1>5, <1>6, <1>7, <1>8, <1>9, <1>10 DEF SagaStep

-----------------------------------------------------------------------------
\* A ticket that exists goes on existing, and what a row names exists.
LEMMA NamedKept ==
  ASSUME SagaInv, NEW x \in Sagas, Start(x) \/ SagaStep(x)
  PROVE  /\ NamedTicketsExist'
         /\ \A y \in Sagas : tickets[y] # "none" => tickets'[y] # "none"
<1> USE KeyIsKey DEF SagaInv, SagaTypeOK, SagaLineage, NamedTicketsExist, To, Key
<1>1. CASE Start(x)
  BY <1>1 DEF Start
<1>2. CASE Claim(x)
  BY <1>2 DEF Claim
<1>3. CASE Look(x)
  BY <1>3 DEF Look
<1>4. CASE Announce(x)
  BY <1>4 DEF Announce
<1>5. CASE PutTicket(x)
  BY <1>5 DEF PutTicket
<1>6. CASE NameTicket(x)
  BY <1>6 DEF NameTicket, ExecutionLineage
<1>7. CASE Confirm(x)
  BY <1>7 DEF Confirm
<1>8. CASE Notify(x)
  BY <1>8 DEF Notify
<1>9. CASE Void(x)
  BY <1>9 DEF Void
<1>10. CASE NoteVoid(x)
  BY <1>10 DEF NoteVoid
<1>11. CASE Dies(x)
  BY <1>11 DEF Dies
<1> QED
  BY <1>1, <1>2, <1>3, <1>4, <1>5, <1>6, <1>7, <1>8, <1>9, <1>10, <1>11 DEF SagaStep

\* Each step keeps what every execution has behind it.
LEMMA ExecutionsKept ==
  ASSUME SagaInv, NEW x \in Sagas, Start(x) \/ SagaStep(x), NEW y \in Sagas
  PROVE  ExecutionLineage(y)'
<1>1. \A z \in Sagas : tickets[z] # "none" => tickets'[z] # "none"
  BY NamedKept
<1> USE <1>1, SagaAssumption, KeyIsKey
    DEF SagaInv, SagaTypeOK, SagaLineage, ExecutionLineage, To, Before, Answered, Undoing
<1>2. CASE Start(x)
  BY <1>2 DEF Start
<1>3. CASE Claim(x)
  BY <1>3 DEF Claim
<1>4. CASE Look(x)
  BY <1>4 DEF Look, NamedTicketsExist
<1>5. CASE Announce(x)
  BY <1>5 DEF Announce
<1>6. CASE PutTicket(x)
  BY <1>6 DEF PutTicket
<1>7. CASE NameTicket(x)
  BY <1>7 DEF NameTicket
<1>8. CASE Confirm(x)
  BY <1>8 DEF Confirm
<1>9. CASE Notify(x)
  BY <1>9 DEF Notify
<1>10. CASE Void(x)
  BY <1>10 DEF Void
<1>11. CASE NoteVoid(x)
  BY <1>11 DEF NoteVoid
<1>12. CASE Dies(x)
  BY <1>12 DEF Dies, Creating
<1> QED
  BY <1>2, <1>3, <1>4, <1>5, <1>6, <1>7, <1>8, <1>9, <1>10, <1>11, <1>12 DEF SagaStep

LEMMA SagaLineageKept == ASSUME SagaInv, [Next]_vars PROVE SagaLineage'
<1>1. ASSUME NEW x \in Sagas, Start(x) \/ SagaStep(x) PROVE SagaLineage'
  <2>1. \A k \in Keys : ClaimsCovered(k)'
    <3> SUFFICES ASSUME NEW k \in Keys PROVE ClaimsCovered(k)'
      OBVIOUS
    <3>1. CASE Claim(x)
      BY <3>1, ClaimLetsOneIn
    <3>2. CASE ~Claim(x)
      BY <1>1, <3>2, OthersLetNobodyIn, NoMoreClaimants DEF SagaInv, SagaLineage
    <3> QED
      BY <3>1, <3>2
  <2> QED
    BY <1>1, <2>1, ExecutionsKept, NamedKept DEF SagaLineage
<1>2. ASSUME UNCHANGED <<pc, created, tickets, claims>>, NamedTicketsExist' PROVE SagaLineage'
  BY <1>2 DEF SagaInv, SagaLineage, ExecutionLineage, ClaimsCovered, Claimants
<1>3. ASSUME NEW k \in Keys, Sweep(k) PROVE SagaLineage'
  BY <1>2, <1>3 DEF Sweep, NoClaim, SagaInv, SagaTypeOK, SagaLineage, NamedTicketsExist
<1>4. CASE Tick
  BY <1>2, <1>4 DEF Tick, SagaInv, SagaLineage, NamedTicketsExist
<1>5. CASE UNCHANGED vars
  BY <1>2, <1>5 DEF vars, SagaInv, SagaLineage, NamedTicketsExist
<1> QED
  BY <1>1, <1>3, <1>4, <1>5 DEF Next

\* SagaInv is inductive: every execution's place, the tickets, the idempotency
\* rows and the count of claims agree through every interleaving and crash
\* (connector-pilot.yaml:90-131).
THEOREM SagaInvHolds == Spec => []SagaInv
<1>1. Init => SagaInv
  BY SagaInitInv
<1>2. SagaInv /\ [Next]_vars => SagaInv'
  BY SagaTypes, SagaLineageKept DEF SagaInv
<1> QED
  BY <1>1, <1>2, PTL DEF Spec

\* However executions overlap, die and are retried, a key has no more tickets
\* than successful claims (connector-pilot.yaml:94-107).
THEOREM OneTicketPerClaimHolds == Spec => []OneTicketPerClaim
<1>1. SagaInv => OneTicketPerClaim
  <2> SUFFICES ASSUME SagaInv, NEW k \in Keys
               PROVE  Cardinality({x \in Sagas : tickets[x] # "none" /\ Input[x].key = k})
                        <= claims[k]
    BY DEF OneTicketPerClaim
  <2> DEFINE Tickets == {x \in Sagas : tickets[x] # "none" /\ Input[x].key = k}
  <2>1. IsFiniteSet(Claimants(k)) /\ Cardinality(Claimants(k)) <= claims[k]
    BY DEF SagaInv, SagaLineage, ClaimsCovered
  <2>2. Tickets \subseteq Claimants(k)
    BY DEF Claimants, Key
  <2>3. IsFiniteSet(Tickets) /\ Cardinality(Tickets) <= Cardinality(Claimants(k))
    BY <2>1, <2>2, FS_Subset
  <2>4. Cardinality(Tickets) \in Nat /\ Cardinality(Claimants(k)) \in Nat /\ claims[k] \in Nat
    BY <2>1, <2>3, FS_CardinalityType DEF SagaInv, SagaTypeOK
  <2> QED
    BY <2>1, <2>3, <2>4
<1> QED
  BY <1>1, SagaInvHolds, PTL

\* What an idempotency row names was written before, for its key
\* (connector-pilot.yaml:107-112).
THEOREM NamedTicketsExistHolds == Spec => []NamedTicketsExist
<1>1. SagaInv => NamedTicketsExist
  BY DEF SagaInv, SagaLineage
<1> QED
  BY <1>1, SagaInvHolds, PTL

\* An execution that ends rolled back leaves no open ticket of its own, and one
\* that learned of no ticket made none (connector-pilot.yaml:123-131).
THEOREM RollbackIsCompleteHolds == Spec => []RollbackIsComplete
<1>1. SagaInv => RollbackIsComplete
  <2> SUFFICES ASSUME SagaInv, NEW x \in Sagas
               PROVE  /\ pc[x] = "rolled_back" => tickets[x] # "open"
                      /\ pc[x] \in Answered /\ created[x] = NoTicket => tickets[x] = "none"
    BY DEF RollbackIsComplete, Answered
  <2> QED
    BY SagaAssumption DEF SagaInv, SagaLineage, ExecutionLineage
<1> QED
  BY <1>1, SagaInvHolds, PTL

-----------------------------------------------------------------------------
(***************************************************************************)
(* What FailureIsCompensated promises, without its liveness.               *)
(***************************************************************************)
\* The notification was made, or died.
Notified(x) == 2 \in rows[x] \/ <<x, "notifying">> \in died

\* An execution only ends Done when its notification did not fail, and only ends
\* Failed after it when the compensation died too.
FailureIsNotDropped ==
  \A x \in Sagas :
    /\ pc[x] = "done" => ~Input[x].fail /\ <<x, "notifying">> \notin died
    /\ pc[x] = "failed" /\ Notified(x) => \E at \in Undoing : <<x, at>> \in died

\* Nobody is notified before the ticket was confirmed or looked up.
NotifiedInTurn ==
  \A x \in Sagas : pc[x] \in {"idle", "notifying"} \cup Creating => ~Notified(x)

\* A step of one execution leaves the traces of the others alone.
LEMMA OthersUnmoved ==
  ASSUME SagaTypeOK, NEW x \in Sagas, Start(x) \/ SagaStep(x), NEW y \in Sagas \ {x}
  PROVE  /\ pc'[y] = pc[y] /\ rows'[y] = rows[y]
         /\ \A at : <<y, at>> \in died' <=> <<y, at>> \in died
BY DEF Start, SagaStep, Claim, Look, Announce, PutTicket, NameTicket, Confirm, Notify,
       Void, NoteVoid, Dies, To, Row, SagaTypeOK

LEMMA SettlesInTurn ==
  ASSUME SagaTypeOK, NotifiedInTurn, FailureIsNotDropped, NEW x \in Sagas,
         Start(x) \/ SagaStep(x)
  PROVE  /\ pc'[x] \in {"idle", "notifying"} \cup Creating => ~Notified(x)'
         /\ pc'[x] = "done" => ~Input[x].fail /\ <<x, "notifying">> \notin died'
         /\ pc'[x] = "failed" /\ Notified(x)' => \E at \in Undoing : <<x, at>> \in died'
<1>1. CASE Start(x) \/ Claim(x) \/ PutTicket(x) \/ NameTicket(x)
  BY <1>1
  DEF Start, Claim, PutTicket, NameTicket, To, Creating, SagaTypeOK, NotifiedInTurn, Notified
<1>2. CASE Look(x) \/ Announce(x) \/ Confirm(x)
  BY <1>2
  DEF Look, Announce, Confirm, To, Row, Creating, SagaTypeOK, NotifiedInTurn, Notified
<1>3. CASE Notify(x)
  BY <1>3 DEF Notify, To, Creating, SagaTypeOK, NotifiedInTurn, Notified
<1>4. CASE Void(x) \/ NoteVoid(x)
  BY <1>4 DEF Void, NoteVoid, To, Creating, SagaTypeOK
<1>5. CASE Dies(x)
  <2>1. <<x, pc[x]>> \in died'
    BY <1>5 DEF Dies
  <2>2. CASE pc[x] \in Creating /\ pc'[x] = "failed"
    <3>1. ~Notified(x)
      BY <2>2 DEF NotifiedInTurn
    <3>2. ~Notified(x)'
      BY <1>5, <2>2, <3>1 DEF Dies, Notified, Creating
    <3> QED
      BY <2>2, <3>2 DEF Creating
  <2>3. CASE pc[x] \in Undoing /\ pc'[x] = "failed"
    BY <2>1, <2>3 DEF Creating
  <2>4. CASE pc'[x] = "voiding"
    BY <2>4 DEF Creating
  <2> QED
    BY <1>5, <2>2, <2>3, <2>4 DEF Dies, To, SagaTypeOK
<1> QED
  BY <1>1, <1>2, <1>3, <1>4, <1>5 DEF SagaStep

\* No execution drops a failed notification: it ends rolled back, unless its
\* compensation died too (connector-pilot.yaml:177-184).
THEOREM FailureIsNotDroppedHolds == Spec => []FailureIsNotDropped
<1> DEFINE Inv == SagaTypeOK /\ NotifiedInTurn /\ FailureIsNotDropped
<1>1. Init => Inv
  BY SagaInitInv DEF Init, SagaInv, NotifiedInTurn, Notified, FailureIsNotDropped
<1>2. Inv /\ [Next]_vars => Inv'
  <2> SUFFICES ASSUME Inv, [Next]_vars PROVE NotifiedInTurn' /\ FailureIsNotDropped'
    BY SagaTypes
  <2>1. ASSUME NEW x \in Sagas, Start(x) \/ SagaStep(x)
        PROVE  NotifiedInTurn' /\ FailureIsNotDropped'
    BY <2>1, SettlesInTurn, OthersUnmoved DEF NotifiedInTurn, FailureIsNotDropped, Notified
  <2>2. CASE UNCHANGED <<pc, rows, died>>
    BY <2>2 DEF NotifiedInTurn, FailureIsNotDropped, Notified
  <2> QED
    BY <2>1, <2>2 DEF Next, Sweep, Tick, vars
<1>3. Inv => FailureIsNotDropped
  OBVIOUS
<1> QED
  BY <1>1, <1>2, <1>3, PTL DEF Spec

-----------------------------------------------------------------------------
(***************************************************************************)
(* How far an execution is from its end: the most steps it can still take. *)
(***************************************************************************)
StepsLeft(x) ==
  CASE pc[x] = "idle"       -> 10
    [] pc[x] = "claiming"   -> 9
    [] pc[x] = "announcing" -> 8
    [] pc[x] = "putting"    -> 7
    [] pc[x] = "naming"     -> 6
    [] pc[x] = "confirming" -> 5
    [] pc[x] = "looking"    -> 4
    [] pc[x] = "notifying"  -> 3
    [] pc[x] = "voiding"    -> 2
    [] pc[x] = "noting"     -> 1
    [] pc[x] \in Outcomes   -> 0

\* The saga has no way back: each step of an execution takes it nearer its end, and
\* no step of another, of DynamoDB or of the clock takes it further away.
ExecutionsAdvance ==
  [][\A x \in Sagas : /\ SagaStep(x) => StepsLeft(x)' < StepsLeft(x)
                      /\ StepsLeft(x)' <= StepsLeft(x)]_vars

LEMMA SagaAdvances ==
  ASSUME SagaTypeOK, NEW x \in Sagas, Start(x) \/ SagaStep(x)
  PROVE  StepsLeft(x)' < StepsLeft(x)
<1>1. pc \in [Sagas -> {"idle", "notifying"} \cup Creating \cup Undoing \cup Outcomes]
  BY DEF SagaTypeOK
<1>2. CASE Start(x) \/ Claim(x) \/ Look(x) \/ Announce(x)
  BY <1>1, <1>2 DEF Start, Claim, Look, Announce, To, StepsLeft, Outcomes
<1>3. CASE PutTicket(x) \/ NameTicket(x) \/ Confirm(x)
  BY <1>1, <1>3 DEF PutTicket, NameTicket, Confirm, To, StepsLeft, Outcomes
<1>4. CASE Notify(x) \/ Void(x) \/ NoteVoid(x)
  BY <1>1, <1>4 DEF Notify, Void, NoteVoid, To, StepsLeft, Outcomes
<1>5. CASE Dies(x)
  BY <1>1, <1>5 DEF Dies, To, StepsLeft, Creating, Undoing, Outcomes
<1> QED
  BY <1>2, <1>3, <1>4, <1>5 DEF SagaStep

\* An execution of the saga takes at most ten steps: no state of it has a Retry and
\* none is entered twice (connector-pilot.yaml:163-183).
THEOREM ExecutionsAdvanceHolds == Spec => ExecutionsAdvance
<1>1. SagaTypeOK /\ [Next]_vars =>
        [\A x \in Sagas : /\ SagaStep(x) => StepsLeft(x)' < StepsLeft(x)
                          /\ StepsLeft(x)' <= StepsLeft(x)]_vars
  <2> SUFFICES ASSUME SagaTypeOK, Next, NEW x \in Sagas
               PROVE  /\ SagaStep(x) => StepsLeft(x)' < StepsLeft(x)
                      /\ StepsLeft(x)' <= StepsLeft(x)
    OBVIOUS
  <2>1. /\ pc[x] \in {"idle", "notifying"} \cup Creating \cup Undoing \cup Outcomes
        /\ pc'[x] \in {"idle", "notifying"} \cup Creating \cup Undoing \cup Outcomes
    BY SagaTypes DEF SagaTypeOK
  <2>2. StepsLeft(x) \in Nat /\ StepsLeft(x)' \in Nat
    BY <2>1 DEF StepsLeft, Creating, Undoing, Outcomes
  <2>3. pc'[x] = pc[x] => StepsLeft(x)' = StepsLeft(x)
    BY DEF StepsLeft
  <2>4. pc'[x] = pc[x] \/ Start(x) \/ SagaStep(x)
    BY OthersUnmoved DEF Next, Sweep, Tick
  <2> QED
    BY <2>2, <2>3, <2>4, SagaAdvances
<1> QED
  BY <1>1, SagaInvHolds, PTL DEF Spec, ExecutionsAdvance, SagaInv

=============================================================================
