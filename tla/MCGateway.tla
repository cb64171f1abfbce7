------------------------------ MODULE MCGateway ------------------------------
(***************************************************************************)
(* Instances of the gateway for TLC.  One agent ("triage", hard cap) has   *)
(* two executable grants, one with no connector, and a consequential tool; *)
(* a second ("clerk", soft cap) has a tool both granted and withheld.  A   *)
(* run names the calls and approvals it needs.                             *)
(***************************************************************************)
EXTENDS GatewayProperties

MCManifests ==
  [triage |-> [tools |-> [read    |-> [scope |-> "read", classes |-> {"public"}],
                          unwired |-> [scope |-> "admin", classes |-> {}]],
               consequential  |-> {"permit"},
               classification |-> {"public", "edu"},
               cap |-> 4, behavior |-> "hard"],
   clerk  |-> [tools |-> [read |-> [scope |-> "write", classes |-> {}],
                          note |-> [scope |-> "write", classes |-> {}]],
               consequential  |-> {"note"},
               classification |-> {"public"},
               cap |-> 4, behavior |-> "soft"]]

MCThreads       == Points
MCAtomicConsume == Points \ {"checked"}

-----------------------------------------------------------------------------
\* Requests for approval, as request_approval was called.
AskedNone  == [id \in {} |-> {}]
AskedFirst ==
  [first |-> [agent |-> "triage", tool |-> "permit", args |-> "case1",
              purpose |-> "intake", requester |-> "alice", ttl |-> 1, sod |-> TRUE]]

-----------------------------------------------------------------------------
\* ToolCalls, as departures from a plain read and a plain permit.
Read ==
  [agent |-> "triage", tool |-> "read", scope |-> "read", purpose |-> "intake",
   args |-> "case1", user |-> "alice", authenticated |-> TRUE,
   entitlements |-> {"read", "permit", "unwired", "note"},
   classes |-> {"public"}, region |-> "east", consent |-> FALSE,
   approval |-> NoApproval, tokens |-> 1, maskable |-> TRUE]

Permit == [Read EXCEPT !.tool = "permit", !.scope = "execute", !.approval = "first"]

ReadLarge    == [Read EXCEPT !.tokens = 3]
ReadApproved == [Read EXCEPT !.approval = "first"]

SentReview ==
  [permit        |-> Permit,
   permit2       |-> Permit,
   permitOther   |-> [Permit EXCEPT !.args = "case2"],
   permitPurpose |-> [Permit EXCEPT !.purpose = "triage"]]

SentPaths ==
  [read          |-> Read,
   readApproved  |-> ReadApproved,
   readApproved2 |-> ReadApproved,
   negative      |-> [Read EXCEPT !.tokens = -1],
   stranger      |-> [Read EXCEPT !.agent = "ghost"],
   unmaskable    |-> [Read EXCEPT !.maskable = FALSE],
   unentitled    |-> [Read EXCEPT !.entitlements = {}],
   permit        |-> Permit,
   permitOther   |-> [Permit EXCEPT !.args = "case2"],
   permitUnasked |-> [Permit EXCEPT !.approval = NoApproval],
   unwired       |-> [Read EXCEPT !.tool = "unwired"],
   readLarge     |-> ReadLarge,
   readLarge2    |-> ReadLarge,
   readSoft      |-> [Read EXCEPT !.agent = "clerk", !.tokens = 5],
   noteUnasked   |-> [Read EXCEPT !.agent = "clerk", !.tool = "note", !.scope = "write"]]

SentPair        == [permit |-> Permit, permit2 |-> Permit]
SentReads       == [read |-> Read, read2 |-> Read]
=============================================================================
