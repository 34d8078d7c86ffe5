---------------------------- MODULE MCCommunity -----------------------------
(* The components that talk to people, one at a time: DM replies,           *)
(* auto-replies, contacts, the inbox and its rules keep tables of their own *)
(* and share none, so a behaviour is one of any of them, the others resting *)
(* in their initial states.                                                 *)
EXTENDS DmReplies, AutoReply, MCCrm, MCInbox, InboxRules

CONSTANTS m1, m2, m3, t1, t2

\* Two messages on one thread, the others on a second one.
MCDmThreadOf == [m \in Requests |-> IF m \in {m1, m2} THEN t1 ELSE t2]

-----------------------------------------------------------------------------
(* Rules: eight of them, over three messages.                               *)

Fact(letters) == Str(letters, NaN)
Contact(followers) == [followers |-> followers]
Msg(body) == [platform |-> Fact(<<"a">>), kind |-> Fact(<<"b">>), body |-> body]

\* The second author has followers, stored as a text; the third is unknown.
MCThreadOf == [m1 |-> "t1", m2 |-> "t1", m3 |-> "t2"]
MCFactsOf ==
  [m1 |-> [message |-> Msg(Fact(<<"b", "A">>)), contact |-> Contact(Num(0)), thread |-> [subject |-> Absent]],
   m2 |-> [message |-> Msg(Fact(<<"b">>)), contact |-> Contact(Num(20)), thread |-> [subject |-> Absent]],
   m3 |-> [message |-> Msg(Fact(<<"a">>)), contact |-> Contact(Absent), thread |-> [subject |-> Fact(<<"b">>)]]]

Input(enabled, order, condition, priority, tags, flag) ==
  [named |-> TRUE, enabled |-> enabled, sortOrder |-> order, condition |-> condition,
   actions |-> [priority |-> priority, tags |-> tags, route |-> NoRoute, flag |-> flag]]

SaysA == Leaf("message.body", "contains", Fact(<<"a">>))
Small == NotOf(Leaf("author.followerCount", "gt", Str(<<"0">>, 10)))
Either == AnyOf(<<AllOf(<<SaysA, Leaf("thread.subject", "exists", Absent)>>),
                  Leaf("message.body", "startsWith", Fact(<<"B">>))>>)

MCRuleInputs ==
  {Input(TRUE, 1, SaysA, NoPriority, {"x"}, TRUE), Input(TRUE, 0, Small, "high", {}, FALSE),
   Input(TRUE, 1, Either, "low", {"x", "y"}, FALSE), Input(FALSE, 0, Small, "urgent", {}, TRUE),
   Input(TRUE, 0, NotOf(NotOf(NotOf(SaysA))), "low", {}, FALSE),
   Input(TRUE, 0, Leaf("kind", "matches", Fact(<<"a">>)), "low", {}, FALSE),
   Input(TRUE, 0, Leaf("kind", "eq", Absent), "low", {}, FALSE),
   [named |-> FALSE]}

-----------------------------------------------------------------------------
VARIABLE part

CommunityInit ==
  /\ part \in {"dm", "autoReply", "crm", "inbox", "rules"}
  /\ DmInit /\ ReplyInit /\ CrmInit /\ InboxInit /\ RulesInit

CommunityNext ==
  /\ UNCHANGED part
  /\ \/ part = "dm" /\ DmNext /\ UNCHANGED <<replyVars, crmVars, inboxVars, rulesVars>>
     \/ part = "autoReply" /\ ReplyNext /\ UNCHANGED <<dmReplyVars, crmVars, inboxVars, rulesVars>>
     \/ part = "crm" /\ CrmNext /\ UNCHANGED <<dmReplyVars, replyVars, inboxVars, rulesVars>>
     \/ part = "inbox" /\ InboxNext /\ UNCHANGED <<dmReplyVars, replyVars, crmVars, rulesVars>>
     \/ part = "rules" /\ RulesNext /\ UNCHANGED <<dmReplyVars, replyVars, crmVars, inboxVars>>

CommunitySpec ==
  CommunityInit /\ [][CommunityNext]_<<part, dmReplyVars, replyVars, crmVars, inboxVars, rulesVars>>
=============================================================================
