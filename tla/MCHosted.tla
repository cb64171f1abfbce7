------------------------------- MODULE MCHosted -------------------------------
(***************************************************************************)
(* Instances of HostedApproval for TLC: requests of ann, two of them for   *)
(* another agent and another purpose, reviewers with and without the role, *)
(* and calls that present an approval rightly and wrongly.                 *)
(***************************************************************************)
EXTENDS HostedApproval

Filing ==
  [requester |-> "ann", agent |-> AgentId, tool |-> "submit", args |-> "case1",
   purpose |-> "decision_support"]

MCFiled ==
  [r1 |-> Filing,
   r2 |-> [Filing EXCEPT !.agent = "service-desk-triage"],
   r3 |-> [Filing EXCEPT !.purpose = "draft_response"]]

MCReviews ==
  [sup    |-> [request |-> "r1", reviewer |-> "sam", supervisor |-> TRUE],
   sup2   |-> [request |-> "r2", reviewer |-> "sam", supervisor |-> TRUE],
   sup3   |-> [request |-> "r3", reviewer |-> "sam", supervisor |-> TRUE],
   retry  |-> [request |-> "r1", reviewer |-> "sam", supervisor |-> TRUE],
   self   |-> [request |-> "r1", reviewer |-> "ann", supervisor |-> TRUE],
   clerk  |-> [request |-> "r1", reviewer |-> "cal", supervisor |-> FALSE],
   clerk2 |-> [request |-> "r1", reviewer |-> "cam", supervisor |-> FALSE],
   blank  |-> [request |-> NoRequest, reviewer |-> "sam", supervisor |-> TRUE]]

Submit ==
  [method |-> "tools/call", user |-> "ann", entitlements |-> {"search", "draft", "submit"},
   tool |-> "submit", args |-> "case1", approval |-> "r1", maskable |-> TRUE]

MCPilotSent ==
  [submit     |-> Submit,
   again      |-> Submit,
   crossed    |-> [Submit EXCEPT !.args = "case2"],
   stolen     |-> [Submit EXCEPT !.user = "bob"],
   reagent    |-> [Submit EXCEPT !.approval = "r2"],
   repurposed |-> [Submit EXCEPT !.approval = "r3"],
   unentitled |-> [Submit EXCEPT !.entitlements = {"search"}],
   unmaskable |-> [Submit EXCEPT !.maskable = FALSE],
   search     |-> [Submit EXCEPT !.tool = "search", !.approval = NoRequest],
   unasked    |-> [Submit EXCEPT !.approval = NoRequest],
   nobody     |-> [Submit EXCEPT !.entitlements = {}],
   list       |-> [Submit EXCEPT !.method = "tools/list"],
   hello      |-> [Submit EXCEPT !.method = "initialize"]]

MCCasts ==
  {{"r1", "sup", "retry", "submit"},
   {"r1", "sup", "submit", "again"},
   {"r1", "sup", "crossed", "unmaskable"},
   {"r1", "sup", "self", "unentitled"},
   {"r1", "sup", "stolen"},
   {"r2", "sup2", "reagent"},
   {"r3", "sup3", "repurposed"},
   {"r1", "clerk", "blank", "search", "list"},
   {"r1", "unasked", "hello", "nobody"}}

MCRefused == {{"r1", "clerk", "clerk2"}}
=============================================================================
