----------------------------- MODULE DmReplies ------------------------------
(***************************************************************************)
(* Inbound direct messages: the rule chain of src/platform/dm/dispatcher.ts *)
(* with its two built-in rules, humanOwnedGuard and approvalGatedReply,    *)
(* over the approval queue and the ownership of src/handoff.  Each message *)
(* is one dispatch() call and, once drafted, one approval with a fresh id. *)
(* HandoffManager also keeps the abort controllers of in-flight drafts.    *)
(***************************************************************************)
EXTENDS ApprovalQueue

CONSTANTS
  DmThreads,
  DmThreadOf,   \* the thread of each inbound message
  DmDrafts      \* AbortControllers that draft work registers

NoDmThread == "none"

ASSUME DmAssumption ==
  /\ Ids = Requests /\ DmThreadOf \in [Requests -> DmThreads]
  /\ NoDmThread \notin DmThreads

DmMessages == Requests

VARIABLES
  chain,        \* where the dispatch of each message is
  humanOwned,   \* threads a human took over
  controllers,  \* registered controllers per thread
  aborted,      \* controllers that were aborted
  draftOn,      \* the thread a draft works on, while it works ("none": not)
  late          \* history: controllers registered after they had been aborted

dmVars == <<chain, humanOwned, controllers, aborted, draftOn, late>>
dmReplyVars == <<queueVars, dmVars>>

DmInit ==
  /\ QueueInit
  /\ chain = [m \in DmMessages |-> "new"]
  /\ humanOwned = {}
  /\ controllers = [t \in DmThreads |-> {}]
  /\ aborted = {}
  /\ draftOn = [d \in DmDrafts |-> NoDmThread]
  /\ late = {}

-----------------------------------------------------------------------------
(* HandoffManager.                                                         *)

register_NoOwnerCheck(d, t) ==
  /\ draftOn[d] = NoDmThread
  /\ draftOn' = [draftOn EXCEPT ![d] = t]
  /\ controllers' = [controllers EXCEPT ![t] = @ \cup {d}]
  /\ late' = IF d \in aborted THEN late \cup {d} ELSE late
  /\ UNCHANGED <<queueVars, chain, humanOwned, aborted>>

\* A controller of the caller's own may have been aborted before: it is kept all the
\* same, and the listener that would prune it never fires.
register(d, t) ==
  /\ draftOn[d] = NoDmThread
  /\ draftOn' = [draftOn EXCEPT ![d] = t]
  /\ IF t \in humanOwned
     THEN aborted' = aborted \cup {d} /\ UNCHANGED <<controllers, late>>
     ELSE /\ controllers' = [controllers EXCEPT ![t] = @ \cup {d}]
          /\ late' = IF d \in aborted THEN late \cup {d} ELSE late
          /\ UNCHANGED aborted
  /\ UNCHANGED <<queueVars, chain, humanOwned>>

\* The draft settles and calls the unregister it was given.
unregister(d) ==
  /\ draftOn[d] # NoDmThread
  /\ draftOn' = [draftOn EXCEPT ![d] = NoDmThread]
  /\ controllers' = [controllers EXCEPT ![draftOn[d]] = @ \ {d}]
  /\ UNCHANGED <<queueVars, chain, humanOwned, aborted, late>>

\* The draft's owner aborts it, before the work or during it: the abort listener prunes the controller.
abort(d) ==
  /\ d \notin aborted /\ aborted' = aborted \cup {d}
  /\ controllers' = [t \in DmThreads |-> controllers[t] \ {d}]
  /\ UNCHANGED <<queueVars, chain, humanOwned, draftOn, late>>

takeOver(t) ==
  /\ aborted' = aborted \cup controllers[t]
  /\ controllers' = [controllers EXCEPT ![t] = {}]
  /\ humanOwned' = humanOwned \cup {t}
  /\ UNCHANGED <<queueVars, chain, draftOn, late>>

release(t) ==
  /\ t \in humanOwned
  /\ humanOwned' = humanOwned \ {t}
  /\ UNCHANGED <<queueVars, chain, controllers, aborted, draftOn, late>>

-----------------------------------------------------------------------------
(* DmDispatcher with the chain <humanOwnedGuard, approvalGatedReply>.      *)

handoffUnchanged == UNCHANGED <<humanOwned, controllers, aborted, draftOn, late>>

\* What the guard makes of a message: the chain stops, or draft() is called.
humanOwnedGuard(m) == IF DmThreadOf[m] \in humanOwned THEN "skipped" ELSE "drafting"

dispatch(m) ==
  /\ chain[m] = "new"
  /\ chain' = [chain EXCEPT ![m] = humanOwnedGuard(m)]
  /\ UNCHANGED queueVars /\ handoffUnchanged

\* draft() resolves; request() creates the approval, or throws on a full queue and
\* dispatch() rejects.
draftReady(m, timed) ==
  /\ chain[m] = "drafting"
  /\ IF Accepts(m)
     THEN request(m, m, timed) /\ chain' = [chain EXCEPT ![m] = "waiting"]
     ELSE UNCHANGED queueVars /\ chain' = [chain EXCEPT ![m] = "failed"]
  /\ handoffUnchanged

\* The settled promise resumes approvalGatedReply before anything else runs.
resume(m, decision) ==
  chain' = [chain EXCEPT ![m] = IF decision = "approve" THEN "replied" ELSE "done"]

reviewerDecides(m, d) ==
  /\ decide(m, d)
  /\ resume(m, d)
  /\ handoffUnchanged

approvalExpires(m) ==
  /\ \E t \in timers : t.id = m /\ expire(t)
  /\ resume(m, "timeout")
  /\ handoffUnchanged

DmNext ==
  \/ \E m \in DmMessages :
       \/ dispatch(m)
       \/ \E timed \in BOOLEAN : draftReady(m, timed)
       \/ \E d \in Decision : reviewerDecides(m, d)
       \/ approvalExpires(m)
  \/ \E t \in DmThreads : takeOver(t) \/ release(t) \/ \E d \in DmDrafts : register(d, t)
  \/ \E d \in DmDrafts : unregister(d) \/ abort(d)

DmSpec == DmInit /\ [][DmNext]_dmReplyVars

-----------------------------------------------------------------------------
(* Properties.                                                             *)

\* The dispatches, the ownership and the controllers keep their shape.
DmTypeOK ==
  /\ QueueTypeOK
  /\ chain \in [DmMessages -> {"new", "skipped", "drafting", "waiting", "failed", "replied", "done"}]
  /\ humanOwned \subseteq DmThreads
  /\ controllers \in [DmThreads -> SUBSET DmDrafts]
  /\ aborted \subseteq DmDrafts /\ late \subseteq DmDrafts
  /\ draftOn \in [DmDrafts -> DmThreads \cup {NoDmThread}]

\* An AI reply goes out only on an explicit approval: no timeout, rejection, full
\* queue or race between them ever sends one.
ReplyNeedsApproval ==
  \A m \in DmMessages : chain[m] = "replied" <=> outcome[m] = "approve"

\* On a human-owned thread every draft at work has been aborted, whether it was
\* registered before the takeover or after it.
NoLiveDraftOnOwnedThread ==
  \A d \in DmDrafts : draftOn[d] \in humanOwned => d \in aborted

\* Controllers do not leak, and none is out of a takeover's reach: those kept for a
\* thread are the drafts at work on it that are not aborted, and besides them none but
\* controllers that were aborted before they were registered.
ControllersAreInFlight ==
  /\ DmTypeOK
  /\ \A d \in DmDrafts, t \in DmThreads :
       /\ d \in controllers[t] => draftOn[d] = t /\ (d \in aborted => d \in late)
       /\ draftOn[d] = t /\ d \notin aborted => d \in controllers[t]

\* The people keep the last word on the DMs: nothing goes out unapproved, and a
\* takeover stops every draft at work, whose controllers are all within its reach.
PeopleDecide == ReplyNeedsApproval /\ NoLiveDraftOnOwnedThread /\ ControllersAreInFlight
=============================================================================
