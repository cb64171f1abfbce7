-------------------------------- MODULE Chargeback --------------------------------
(***************************************************************************)
(* The reports of platform_core/chargeback.py over the usage events.       *)
(*                                                                         *)
(* An event is [tag, tokens_in, tokens_out, cost]: tag stands for the five *)
(* cost-allocation tags the rows are grouped by.  A cost is counted in     *)
(* thirds of the unit that is printed (a hundredth of a cent), so that     *)
(* rounding takes place and never meets a tie.                             *)
(***************************************************************************)
EXTENDS Integers, Sequences, FiniteSetsExt

\* Variant: a further event of a tag replaces what the row has.
Tally_Replaces(events, S) ==
  [calls      |-> Cardinality(S),
   tokens_in  |-> events[Max(S)].tokens_in,
   tokens_out |-> events[Max(S)].tokens_out,
   cost       |-> events[Max(S)].cost]

\* What the events numbered S come to.
Tally(events, S) ==
  [calls      |-> Cardinality(S),
   tokens_in  |-> SumFunctionOnSet([i \in DOMAIN events |-> events[i].tokens_in], S),
   tokens_out |-> SumFunctionOnSet([i \in DOMAIN events |-> events[i].tokens_out], S),
   cost       |-> SumFunctionOnSet([i \in DOMAIN events |-> events[i].cost], S)]

\* _aggregate: one row for each tag that occurs.
Aggregate(events) ==
  [tag \in {events[i].tag : i \in DOMAIN events} |->
     Tally(events, {i \in DOMAIN events : events[i].tag = tag})]

Printed(cost) == (cost + 1) \div 3

Line(row) ==
  [calls |-> row.calls, tokens |-> row.tokens_in + row.tokens_out,
   cost |-> Printed(row.cost)]

\* The lines of the CSV file and of the table, and the TOTAL line of both: sums
\* of what is in the rows, rounded once.
Report(events) ==
  LET rows == Aggregate(events)
  IN [lines |-> [tag \in DOMAIN rows |-> Line(rows[tag])],
      total |-> Line([calls      |-> SumFunction([tag \in DOMAIN rows |-> rows[tag].calls]),
                      tokens_in  |-> SumFunction([tag \in DOMAIN rows |-> rows[tag].tokens_in]),
                      tokens_out |-> SumFunction([tag \in DOMAIN rows |-> rows[tag].tokens_out]),
                      cost       |-> SumFunction([tag \in DOMAIN rows |-> rows[tag].cost])])]
=============================================================================
