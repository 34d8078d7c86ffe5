------------------------------ MODULE MCWaits -------------------------------
(* What callers wait for and what is metered, one at a time: the approval   *)
(* queue, the rate-limit broker, YouTube's daily quota and the chats with a *)
(* language model share nothing, so a behaviour is one of any of them, the  *)
(* others resting in one of their initial states, and each keeps its own    *)
(* fairness.                                                                *)
EXTENDS ApprovalQueue, RateLimit, YouTubeQuota, Conversations

VARIABLE part
waitsVars == <<part, queueVars, rateVars, youtubeVars, conversationVars>>

InQueue(A) == part = "approvals" /\ A /\ UNCHANGED <<part, rateVars, youtubeVars, conversationVars>>
InRates(A) == part = "rates" /\ A /\ UNCHANGED <<part, queueVars, youtubeVars, conversationVars>>
InYouTube(A) == part = "youtube" /\ A /\ UNCHANGED <<part, queueVars, rateVars, conversationVars>>
InChats(A) == part = "chats" /\ A /\ UNCHANGED <<part, queueVars, rateVars, youtubeVars>>

WaitsInit ==
  /\ part \in {"approvals", "rates", "youtube", "chats"} /\ QueueInit /\ RateInit
  /\ YouTubeInit /\ (part # "youtube" => alerting)
  /\ ConversationInit /\ (part # "chats" => privacy = "off" /\ cloud = "none")

WaitsNext == InQueue(QueueNext) \/ InRates(RateNext) \/ InYouTube(YouTubeNext) \/ InChats(ConversationNext)

WaitsSpec ==
  /\ WaitsInit /\ [][WaitsNext]_waitsVars
  /\ \A e \in Entry : WF_waitsVars(InQueue(expire(e)))
  /\ WF_waitsVars(InRates(clock))
  /\ \A c \in Calls : WF_waitsVars(InRates(wakes(c)))

\* What is metered stays within its limit and is announced: the broker's bucket and
\* quota of a platform, and the units of a day at YouTube.
BudgetsAreKept == BudgetIsKept /\ DailyQuotaIsKept
=============================================================================
