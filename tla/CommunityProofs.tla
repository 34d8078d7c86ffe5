--------------------------- MODULE CommunityProofs ---------------------------
(***************************************************************************)
(* Proofs about the components that talk to people, for any values of their *)
(* constants: DmReplies, AutoReply, Crm, Inbox and InboxRules, each on its  *)
(* own.                                                                    *)
(***************************************************************************)
EXTENDS DmReplies, AutoReply, Crm, Inbox, InboxRules, ApprovalQueueProofs, Induction

-----------------------------------------------------------------------------
\* DM replies

\* How far a dispatch is and what its approval says are the same thing; an approval has
\* the id of its message.
ChainFollowsApproval ==
  /\ \A e \in entries : e.id = e.req
  /\ \A m \in DmMessages :
       /\ outcome[m] = "new" <=> chain[m] \in {"new", "skipped", "drafting", "failed"}
       /\ outcome[m] = "waiting" <=> chain[m] = "waiting"
       /\ outcome[m] = "approve" <=> chain[m] = "replied"

DmInv == QueueInv /\ DmTypeOK /\ ChainFollowsApproval /\ NoLiveDraftOnOwnedThread /\ ControllersAreInFlight

LEMMA DmStart == DmInit => DmInv
<1> SUFFICES ASSUME DmInit PROVE DmInv
  OBVIOUS
<1>1. QueueInv /\ entries = {} /\ outcome = [m \in Requests |-> "new"]
  BY QueueStart DEF DmInit, QueueInit
<1>2. DmTypeOK
  BY <1>1 DEF DmInit, DmTypeOK, QueueInv, DmMessages
<1>3. ChainFollowsApproval
  BY <1>1 DEF DmInit, ChainFollowsApproval, DmMessages
<1>4. NoLiveDraftOnOwnedThread /\ ControllersAreInFlight
  BY <1>2, DmAssumption DEF DmInit, NoLiveDraftOnOwnedThread, ControllersAreInFlight
<1> QED
  BY <1>1, <1>2, <1>3, <1>4 DEF DmInv

\* The dispatcher leaves ownership and controllers alone.
LEMMA HandoffKept ==
  ASSUME DmInv, handoffUnchanged, QueueInv', chain' \in [DmMessages -> {"new", "skipped", "drafting", "waiting", "failed", "replied", "done"}]
  PROVE  DmTypeOK' /\ NoLiveDraftOnOwnedThread' /\ ControllersAreInFlight'
<1>1. DmTypeOK'
  BY DEF DmInv, DmTypeOK, handoffUnchanged, QueueInv
<1> QED
  BY <1>1 DEF DmInv, NoLiveDraftOnOwnedThread, ControllersAreInFlight, handoffUnchanged

\* A dispatch moves before its approval is made.
LEMMA DispatchStep ==
  ASSUME DmInv, NEW m \in DmMessages, NEW at \in {"skipped", "drafting", "failed"},
         chain[m] \in {"new", "drafting"}, chain' = [chain EXCEPT ![m] = at],
         UNCHANGED queueVars, handoffUnchanged
  PROVE  DmInv'
<1>1. QueueInv' /\ UNCHANGED <<entries, outcome>>
  BY DEF DmInv, queueVars, QueueInv, QueueTypeOK, PendingIffWaiting, TimerIsOwn
<1>2. ChainFollowsApproval'
  BY <1>1 DEF DmInv, DmTypeOK, ChainFollowsApproval
<1>3. chain' \in [DmMessages -> {"new", "skipped", "drafting", "waiting", "failed", "replied", "done"}]
  BY DEF DmInv, DmTypeOK
<1> QED
  BY <1>1, <1>2, <1>3, HandoffKept DEF DmInv

LEMMA AskStep ==
  ASSUME DmInv, NEW m \in DmMessages, NEW timed \in BOOLEAN, chain[m] = "drafting",
         request(m, m, timed), chain' = [chain EXCEPT ![m] = "waiting"], handoffUnchanged
  PROVE  DmInv'
<1>1. m \in Requests /\ m \in Ids
  BY DmAssumption DEF DmMessages
<1>2. QueueInv'
  BY <1>1, RequestStep DEF DmInv
<1>3. chain' \in [DmMessages -> {"new", "skipped", "drafting", "waiting", "failed", "replied", "done"}]
  BY DEF DmInv, DmTypeOK
<1>4. outcome' = [outcome EXCEPT ![m] = "waiting"] /\ entries' = entries \cup {[id |-> m, req |-> m]}
  BY DEF request
<1>5. ChainFollowsApproval'
  BY <1>4 DEF DmInv, DmTypeOK, ChainFollowsApproval, QueueInv, QueueTypeOK, DmMessages
<1> QED
  BY <1>2, <1>3, <1>5, HandoffKept DEF DmInv

\* A decision or the timer settles the approval, and the rule goes on at once.
LEMMA ResumeStep ==
  ASSUME DmInv, NEW m \in DmMessages, NEW e \in entries, e.id = m, NEW d \in OutcomeDecision,
         settle(e, d), resume(m, d), handoffUnchanged
  PROVE  DmInv'
<1>1. QueueInv'
  BY SettleStep DEF DmInv
<1>2. chain' \in [DmMessages -> {"new", "skipped", "drafting", "waiting", "failed", "replied", "done"}]
  BY DEF DmInv, DmTypeOK, resume
<1>3. e.req = m /\ outcome[m] = "waiting"
  BY DEF DmInv, ChainFollowsApproval, QueueInv, PendingIffWaiting, QueueTypeOK, Entry
<1>4. outcome' = [outcome EXCEPT ![m] = d] /\ entries' = entries \ {e}
  BY <1>3 DEF settle
<1>5. d \notin {"new", "waiting"}
  BY DEF OutcomeDecision, Decision
<1>6. ChainFollowsApproval'
  BY <1>3, <1>4, <1>5 DEF DmInv, DmTypeOK, ChainFollowsApproval, QueueInv, QueueTypeOK, DmMessages, resume
<1> QED
  BY <1>1, <1>2, <1>6, HandoffKept DEF DmInv

\* HandoffManager, which the dispatches only look at.
LEMMA HandoffStep ==
  ASSUME DmInv,
         \/ \E t \in DmThreads : takeOver(t) \/ release(t) \/ \E d \in DmDrafts : register(d, t)
         \/ \E d \in DmDrafts : unregister(d) \/ abort(d)
  PROVE  DmInv'
<1> USE DEF DmInv
<1>1. UNCHANGED <<queueVars, chain>>
  BY DEF takeOver, release, register, unregister, abort
<1>2. QueueInv' /\ ChainFollowsApproval'
  BY <1>1 DEF queueVars, QueueInv, QueueTypeOK, PendingIffWaiting, TimerIsOwn, ChainFollowsApproval
<1>3. DmTypeOK' /\ NoLiveDraftOnOwnedThread' /\ ControllersAreInFlight'
  <2>1. ASSUME NEW t \in DmThreads, takeOver(t) PROVE DmTypeOK' /\ NoLiveDraftOnOwnedThread' /\ ControllersAreInFlight'
    <3>1. DmTypeOK'
      BY <1>1, <1>2, <2>1 DEF takeOver, DmTypeOK, QueueInv
    <3>2. NoLiveDraftOnOwnedThread'
      BY <2>1 DEF takeOver, NoLiveDraftOnOwnedThread, ControllersAreInFlight, DmTypeOK
    <3>3. ControllersAreInFlight'
      BY <2>1, <3>1 DEF takeOver, ControllersAreInFlight, DmTypeOK
    <3> QED
      BY <3>1, <3>2, <3>3
  <2>2. ASSUME NEW t \in DmThreads, release(t) PROVE DmTypeOK' /\ NoLiveDraftOnOwnedThread' /\ ControllersAreInFlight'
    <3>1. DmTypeOK'
      BY <1>1, <1>2, <2>2 DEF release, DmTypeOK, QueueInv
    <3> QED
      BY <2>2, <3>1 DEF release, ControllersAreInFlight, NoLiveDraftOnOwnedThread
  <2>3. ASSUME NEW t \in DmThreads, NEW d \in DmDrafts, register(d, t)
        PROVE  DmTypeOK' /\ NoLiveDraftOnOwnedThread' /\ ControllersAreInFlight'
    <3>1. DmTypeOK'
      BY <1>1, <1>2, <2>3 DEF register, DmTypeOK, QueueInv
    <3>2. NoLiveDraftOnOwnedThread'
      BY <2>3 DEF register, NoLiveDraftOnOwnedThread, DmTypeOK
    <3>3. draftOn[d] = NoDmThread /\ \A u \in DmThreads : d \notin controllers[u] /\ u # NoDmThread
      BY <2>3, DmAssumption DEF register, ControllersAreInFlight
    <3>4. \A c \in DmDrafts : draftOn'[c] = IF c = d THEN t ELSE draftOn[c]
      BY <2>3 DEF register, DmTypeOK
    <3>5. CASE t \in humanOwned
      <4>1. aborted' = aborted \cup {d} /\ controllers' = controllers /\ late' = late
        BY <2>3, <3>5 DEF register
      <4>2. ControllersAreInFlight'
        BY <3>1, <3>3, <3>4, <4>1 DEF ControllersAreInFlight
      <4> QED
        BY <3>1, <3>2, <4>2
    <3>6. CASE t \notin humanOwned
      <4>1. /\ aborted' = aborted /\ late \subseteq late' /\ (d \in aborted => d \in late')
            /\ \A u \in DmThreads : controllers'[u] = IF u = t THEN controllers[u] \cup {d} ELSE controllers[u]
        BY <2>3, <3>6 DEF register, DmTypeOK
      <4>2. ASSUME NEW c \in DmDrafts, NEW u \in DmThreads
            PROVE  /\ c \in controllers'[u] => draftOn'[c] = u /\ (c \in aborted' => c \in late')
                   /\ draftOn'[c] = u /\ c \notin aborted' => c \in controllers'[u]
        <5>1. CASE c = d
          BY <3>3, <3>4, <4>1, <5>1
        <5>2. CASE c # d
          <6>1. draftOn'[c] = draftOn[c] /\ (c \in controllers'[u] <=> c \in controllers[u])
            BY <3>4, <4>1, <5>2
          <6>2. aborted' = aborted /\ (c \in late => c \in late')
            BY <4>1
          <6> QED
            BY <6>1, <6>2 DEF ControllersAreInFlight
        <5> QED
          BY <5>1, <5>2
      <4>3. ControllersAreInFlight'
        BY <3>1, <4>2 DEF ControllersAreInFlight
      <4> QED
        BY <3>1, <3>2, <4>3
    <3> QED
      BY <3>5, <3>6
  <2>4. ASSUME NEW d \in DmDrafts, unregister(d)
        PROVE  DmTypeOK' /\ NoLiveDraftOnOwnedThread' /\ ControllersAreInFlight'
    <3>1. draftOn[d] \in DmThreads /\ UNCHANGED humanOwned /\ NoDmThread \notin DmThreads
      BY <2>4, DmAssumption DEF unregister, DmTypeOK
    <3>2. DmTypeOK'
      BY <1>1, <1>2, <2>4, <3>1 DEF unregister, DmTypeOK, QueueInv
    <3>3. NoLiveDraftOnOwnedThread'
      BY <2>4, <3>1 DEF unregister, NoLiveDraftOnOwnedThread, DmTypeOK
    <3>4. ControllersAreInFlight'
      BY <2>4, <3>1, <3>2 DEF unregister, ControllersAreInFlight, DmTypeOK
    <3> QED
      BY <3>2, <3>3, <3>4
  <2>5. ASSUME NEW d \in DmDrafts, abort(d)
        PROVE  DmTypeOK' /\ NoLiveDraftOnOwnedThread' /\ ControllersAreInFlight'
    <3>1. /\ d \notin aborted /\ aborted' = aborted \cup {d} /\ UNCHANGED <<humanOwned, draftOn, late>>
          /\ controllers' = [t \in DmThreads |-> controllers[t] \ {d}]
      BY <2>5 DEF abort
    <3>2. DmTypeOK'
      BY <1>1, <1>2, <3>1 DEF DmTypeOK, QueueInv
    <3>3. ControllersAreInFlight'
      BY <3>1, <3>2 DEF ControllersAreInFlight
    <3> QED
      BY <3>1, <3>2, <3>3 DEF NoLiveDraftOnOwnedThread
  <2> QED
    BY <2>1, <2>2, <2>3, <2>4, <2>5
<1> QED
  BY <1>2, <1>3

LEMMA DmStep == DmInv /\ [DmNext]_dmReplyVars => DmInv'
<1> SUFFICES ASSUME DmInv, [DmNext]_dmReplyVars PROVE DmInv'
  OBVIOUS
<1>1. ASSUME NEW m \in DmMessages, dispatch(m) PROVE DmInv'
  <2>1. humanOwnedGuard(m) \in {"skipped", "drafting"}
    BY DEF humanOwnedGuard
  <2> QED
    BY <1>1, <2>1, DispatchStep DEF dispatch
<1>2. ASSUME NEW m \in DmMessages, NEW timed \in BOOLEAN, draftReady(m, timed) PROVE DmInv'
  <2>1. CASE Accepts(m)
    BY <1>2, <2>1, AskStep DEF draftReady
  <2>2. CASE ~Accepts(m)
    BY <1>2, <2>2, DispatchStep DEF draftReady
  <2> QED
    BY <2>1, <2>2
<1>3. ASSUME NEW m \in DmMessages, NEW d \in Decision, reviewerDecides(m, d) PROVE DmInv'
  BY <1>3, ResumeStep DEF reviewerDecides, decide, OutcomeDecision
<1>4. ASSUME NEW m \in DmMessages, approvalExpires(m) PROVE DmInv'
  BY <1>4, ResumeStep DEF approvalExpires, expire, OutcomeDecision
<1>5. CASE UNCHANGED dmReplyVars
  <2>1. UNCHANGED <<entries, timers, outcome, chain, humanOwned, controllers, aborted, draftOn, late>>
    BY <1>5 DEF dmReplyVars, dmVars, queueVars
  <2>2. QueueInv' /\ ChainFollowsApproval'
    BY <2>1 DEF DmInv, QueueInv, QueueTypeOK, PendingIffWaiting, TimerIsOwn, ChainFollowsApproval
  <2>3. DmTypeOK'
    BY <2>1, <2>2 DEF DmInv, DmTypeOK, QueueInv
  <2> QED
    BY <2>1, <2>2, <2>3 DEF DmInv, NoLiveDraftOnOwnedThread, ControllersAreInFlight
<1> QED
  BY <1>1, <1>2, <1>3, <1>4, <1>5, HandoffStep DEF DmNext

\* For any messages, threads and drafts, and whatever order dispatches, decisions,
\* timeouts and takeovers come in: nothing is sent that no person approved, and no
\* draft works on for a thread a person owns.
THEOREM PeopleAlwaysDecide == DmSpec => []PeopleDecide
<1>1. DmInv => PeopleDecide
  BY DEF DmInv, PeopleDecide, ReplyNeedsApproval, ChainFollowsApproval
<1> QED
  BY <1>1, DmStart, DmStep, PTL DEF DmSpec

-----------------------------------------------------------------------------
\* Auto-replies

\* What has been delivered by a send in flight is among the texts of its row.
DeliveredIsKnown == \A c \in calls : c.phase = "delivered" => c.text \in texts[c.row]

\* A row not resolved under a send has one send at most, and none once it is settled.
OneSendAtATime ==
  \A i \in RowIds \ raced :
    /\ \A c, d \in calls : c.row = i /\ d.row = i => c = d
    /\ audit[i].outcome \in {"sent", "rejected"} => \A c \in calls : c.row # i

\* Nothing was sent for a row before it is recorded.
NewIsUntouched ==
  \A i \in RowIds : audit[i].outcome = "new" => times[i] = 0 /\ \A c \in calls : c.row # i

\* What reached the contact shows: by the row or by the send still in flight.
SendShows ==
  \A i \in RowIds \ (raced \cup lost) :
    /\ times[i] <= 1
    /\ audit[i].outcome = "rejected" => times[i] = 0
    /\ audit[i].outcome = "pending" /\ times[i] # 0 => \E c \in calls : c.row = i /\ c.phase = "delivered"
    /\ \A c \in calls : c.row = i /\ c.phase = "sending" => times[i] = 0

ReplyInv == SentWasDelivered /\ DeliveredIsKnown /\ OneSendAtATime /\ NewIsUntouched /\ SendShows

LEMMA ReplyStart == ReplyInit => ReplyInv
<1> SUFFICES ASSUME ReplyInit PROVE ReplyInv
  OBVIOUS
<1>1. (CHOOSE t \in Texts : TRUE) \in Texts /\ (CHOOSE c \in Contacts : TRUE) \in Contacts
  BY AutoReplyAssumption
<1>2. TypeOK
  BY <1>1, AutoReplyAssumption DEF ReplyInit, TypeOK, AuditRow
<1> QED
  BY <1>2 DEF ReplyInit, ReplyInv, SentWasDelivered, DeliveredIsKnown, OneSendAtATime, NewIsUntouched, SendShows

LEMMA SendIsCall == ASSUME NEW i \in RowIds, NEW n \in 1 .. MaxCalls, NEW t \in Texts
  PROVE [row |-> i, n |-> n, text |-> t, phase |-> "sending"] \in Call
  BY DEF Call

\* A send that starts adds one call to those in flight.
LEMMA SendAdds ==
  ASSUME NEW i \in RowIds, NEW t \in Texts, startSend(i, t)
  PROVE  \E C \in SUBSET Call : calls' = calls \cup C /\ \A c, d \in C : c.row = i /\ c.phase = "sending" /\ c = d
<1>1. PICK n \in 1 .. MaxCalls : calls' = calls \cup {[row |-> i, n |-> n, text |-> t, phase |-> "sending"]}
  BY DEF startSend
<1> DEFINE e == [row |-> i, n |-> n, text |-> t, phase |-> "sending"]
<1>2. e \in Call /\ e.row = i /\ e.phase = "sending" /\ calls' = calls \cup {e}
  BY <1>1, SendIsCall
<1> HIDE DEF e
<1>3. {e} \in SUBSET Call /\ calls' = calls \cup {e} /\ \A c, d \in {e} : c.row = i /\ c.phase = "sending" /\ c = d
  BY <1>2
<1> QED
  BY <1>3

LEMMA EvaluateStep ==
  ASSUME ReplyInv, NEW i \in RowIds, NEW t \in Texts, NEW k \in Contacts, NEW b \in BOOLEAN, evaluate(i, t, k, b)
  PROVE  ReplyInv'
<1> DEFINE row == [outcome |-> "pending", draft |-> t, final |-> NoText, override |-> "no", contact |-> k]
<1>1. row \in AuditRow /\ row.outcome = "pending"
  BY DEF AuditRow, LiveRow
<1>2. /\ audit[i].outcome = "new" /\ audit' = [audit EXCEPT ![i] = row]
      /\ UNCHANGED <<texts, times, raced, lost, crashes>>
  BY DEF evaluate
<1> HIDE DEF row
<1> DEFINE Adds(C) == calls' = calls \cup C /\ \A c, d \in C : c.row = i /\ c.phase = "sending" /\ c = d
<1>3. PICK C \in SUBSET Call : Adds(C)
  <2>1. CASE calls' = calls
    <3>1. {} \in SUBSET Call /\ Adds({})
      BY <2>1
    <3> HIDE DEF Adds
    <3> QED
      BY <3>1
  <2>2. CASE startSend(i, t)
    <3> HIDE DEF Adds
    <3> QED
      BY <2>2, SendAdds DEF Adds
  <2> QED
    BY <2>1, <2>2 DEF evaluate
<1>4. TypeOK'
  BY <1>1, <1>2, <1>3 DEF ReplyInv, SentWasDelivered, TypeOK
<1>5. times[i] = 0 /\ \A c \in calls : c.row # i
  BY <1>2 DEF ReplyInv, NewIsUntouched
<1>6. SentWasDelivered'
  BY <1>1, <1>2, <1>4 DEF ReplyInv, SentWasDelivered, TypeOK
<1>7. DeliveredIsKnown'
  BY <1>2, <1>3 DEF ReplyInv, DeliveredIsKnown
<1>8. OneSendAtATime'
  BY <1>1, <1>2, <1>3, <1>5 DEF ReplyInv, SentWasDelivered, TypeOK, OneSendAtATime
<1>9. NewIsUntouched'
  BY <1>1, <1>2, <1>3, <1>5 DEF ReplyInv, SentWasDelivered, TypeOK, NewIsUntouched
<1>10. SendShows'
  BY <1>1, <1>2, <1>3, <1>5 DEF ReplyInv, SentWasDelivered, TypeOK, SendShows
<1> QED
  BY <1>6, <1>7, <1>8, <1>9, <1>10 DEF ReplyInv

LEMMA ApproveStep == ASSUME ReplyInv, NEW i \in RowIds, NEW t \in Texts, approve(i, t) PROVE ReplyInv'
<1>1. /\ audit[i].outcome = "pending" /\ UNCHANGED <<audit, texts, times, lost, crashes>>
      /\ raced' = IF \E c \in calls : c.row = i THEN raced \cup {i} ELSE raced
  BY DEF approve, Resolves
<1>2. PICK C \in SUBSET Call : calls' = calls \cup C /\ \A c, d \in C : c.row = i /\ c.phase = "sending" /\ c = d
  BY SendAdds DEF approve
<1>3. TypeOK'
  BY <1>1, <1>2 DEF ReplyInv, SentWasDelivered, TypeOK
<1>4. SentWasDelivered'
  BY <1>1, <1>3 DEF ReplyInv, SentWasDelivered
<1>5. DeliveredIsKnown'
  BY <1>1, <1>2 DEF ReplyInv, DeliveredIsKnown
<1>6. OneSendAtATime'
  BY <1>1, <1>2 DEF ReplyInv, OneSendAtATime
<1>7. NewIsUntouched'
  BY <1>1, <1>2 DEF ReplyInv, NewIsUntouched
<1>8. SendShows'
  BY <1>1, <1>2 DEF ReplyInv, SendShows
<1> QED
  BY <1>4, <1>5, <1>6, <1>7, <1>8 DEF ReplyInv

LEMMA RejectStep == ASSUME ReplyInv, NEW i \in RowIds, reject(i) PROVE ReplyInv'
<1>1. /\ audit[i].outcome = "pending" /\ UNCHANGED <<calls, texts, times, lost, crashes>>
      /\ audit' = [audit EXCEPT ![i].outcome = "rejected"]
      /\ raced' = IF \E c \in calls : c.row = i THEN raced \cup {i} ELSE raced
  BY DEF reject, Resolves
<1>2. TypeOK'
  BY <1>1 DEF ReplyInv, SentWasDelivered, TypeOK, AuditRow, LiveRow
<1>3. \A j \in RowIds : audit'[j].outcome = IF j = i THEN "rejected" ELSE audit[j].outcome
  BY <1>1 DEF ReplyInv, SentWasDelivered, TypeOK, AuditRow
<1>4. SentWasDelivered'
  BY <1>1, <1>2 DEF ReplyInv, SentWasDelivered, TypeOK, AuditRow
<1>5. DeliveredIsKnown'
  BY <1>1 DEF ReplyInv, DeliveredIsKnown
<1>6. OneSendAtATime'
  BY <1>1, <1>3 DEF ReplyInv, OneSendAtATime
<1>7. NewIsUntouched'
  BY <1>1, <1>3 DEF ReplyInv, NewIsUntouched
<1>8. SendShows'
  BY <1>1, <1>3 DEF ReplyInv, SendShows
<1> QED
  BY <1>4, <1>5, <1>6, <1>7, <1>8 DEF ReplyInv

LEMMA DeliverStep == ASSUME ReplyInv, NEW c \in calls, delivers(c) PROVE ReplyInv'
<1> DEFINE d == [c EXCEPT !.phase = "delivered"]
<1>1. c \in Call /\ c.phase = "sending"
  BY DEF delivers, ReplyInv, SentWasDelivered, TypeOK
<1>2. d \in Call /\ d.row = c.row /\ d.text = c.text /\ d.phase = "delivered"
  BY <1>1 DEF Call
<1>3. /\ calls' = (calls \ {c}) \cup {d} /\ UNCHANGED <<audit, raced, lost, crashes>>
      /\ texts' = [texts EXCEPT ![c.row] = texts[c.row] \cup {c.text}]
      /\ times' = [times EXCEPT ![c.row] = IF times[c.row] = 2 THEN 2 ELSE times[c.row] + 1]
  BY DEF delivers
<1> HIDE DEF d
<1>4. c.row \in RowIds /\ c.text \in Texts
  BY <1>1 DEF Call
<1>5. TypeOK'
  BY <1>2, <1>3, <1>4 DEF ReplyInv, SentWasDelivered, TypeOK
<1>6. SentWasDelivered'
  BY <1>3, <1>4, <1>5 DEF ReplyInv, SentWasDelivered, TypeOK
<1>7. DeliveredIsKnown'
  BY <1>2, <1>3, <1>4 DEF ReplyInv, SentWasDelivered, TypeOK, DeliveredIsKnown, Call
<1>8. OneSendAtATime'
  BY <1>2, <1>3 DEF ReplyInv, OneSendAtATime
<1>9. NewIsUntouched'
  BY <1>2, <1>3, <1>4 DEF ReplyInv, SentWasDelivered, TypeOK, NewIsUntouched
<1>10. SendShows'
  BY <1>1, <1>2, <1>3, <1>4 DEF ReplyInv, SentWasDelivered, TypeOK, SendShows, OneSendAtATime
<1> QED
  BY <1>6, <1>7, <1>8, <1>9, <1>10 DEF ReplyInv

LEMMA FinalizeStep == ASSUME ReplyInv, NEW c \in calls, finalize(c) PROVE ReplyInv'
<1>1. /\ c \in Call /\ c.phase = "delivered" /\ c.row \in RowIds /\ c.text \in Texts
      /\ calls' = calls \ {c} /\ UNCHANGED <<texts, times, raced, lost, crashes>>
  BY DEF finalize, ReplyInv, SentWasDelivered, TypeOK, Call
<1>2. CASE audit' = audit /\ audit[c.row].outcome \notin LiveRow
  <2>1. SentWasDelivered'
    BY <1>1, <1>2 DEF ReplyInv, SentWasDelivered, TypeOK
  <2>2. NewIsUntouched' /\ DeliveredIsKnown' /\ OneSendAtATime'
    BY <1>1, <1>2 DEF ReplyInv, NewIsUntouched, DeliveredIsKnown, OneSendAtATime
  <2>3. SendShows'
    BY <1>1, <1>2 DEF ReplyInv, SendShows, LiveRow
  <2> QED
    BY <2>1, <2>2, <2>3 DEF ReplyInv
<1>3. CASE audit[c.row].outcome \in LiveRow
  <2> DEFINE row == [audit[c.row] EXCEPT !.outcome = "sent", !.final = c.text,
                       !.override = IF c.text # audit[c.row].draft THEN "yes" ELSE audit[c.row].override]
  <2>1. audit[c.row] \in AuditRow
    BY <1>1 DEF ReplyInv, SentWasDelivered, TypeOK
  <2>2. /\ row \in AuditRow /\ row.outcome = "sent" /\ row.final = c.text /\ row.draft = audit[c.row].draft
        /\ row.final # row.draft => row.override = "yes"
    BY <1>1, <2>1 DEF AuditRow, LiveRow
  <2>3. audit' = [audit EXCEPT ![c.row] = row]
    BY <1>3 DEF finalize
  <2> HIDE DEF row
  <2>4. TypeOK'
    BY <1>1, <2>2, <2>3 DEF ReplyInv, SentWasDelivered, TypeOK
  <2>5. SentWasDelivered'
    BY <1>1, <2>2, <2>3, <2>4 DEF ReplyInv, SentWasDelivered, TypeOK, DeliveredIsKnown
  <2>6. DeliveredIsKnown'
    BY <1>1 DEF ReplyInv, DeliveredIsKnown
  <2>7. OneSendAtATime'
    BY <1>1, <2>2, <2>3 DEF ReplyInv, SentWasDelivered, TypeOK, OneSendAtATime
  <2>8. NewIsUntouched'
    BY <1>1, <2>2, <2>3 DEF ReplyInv, SentWasDelivered, TypeOK, NewIsUntouched
  <2>9. SendShows'
    BY <1>1, <2>2, <2>3 DEF ReplyInv, SentWasDelivered, TypeOK, SendShows
  <2> QED
    BY <2>5, <2>6, <2>7, <2>8, <2>9 DEF ReplyInv
<1> QED
  BY <1>2, <1>3 DEF finalize

\* Calls go unfinished, and those delivered are remembered as lost.
LEMMA LostStep ==
  ASSUME ReplyInv, NEW C \in SUBSET calls, calls' = calls \ C, lost' = lost \cup Delivered(C),
         UNCHANGED <<audit, texts, times, raced>>, crashes' \in 0 .. MaxCrashes
  PROVE  ReplyInv'
<1>1. Delivered(C) \subseteq RowIds
  BY DEF Delivered, ReplyInv, SentWasDelivered, TypeOK, Call
<1>2. SentWasDelivered'
  BY <1>1 DEF ReplyInv, SentWasDelivered, TypeOK
<1>3. NewIsUntouched' /\ DeliveredIsKnown' /\ OneSendAtATime'
  BY DEF ReplyInv, NewIsUntouched, DeliveredIsKnown, OneSendAtATime
<1>4. SendShows'
  BY DEF ReplyInv, SendShows, Delivered
<1> QED
  BY <1>2, <1>3, <1>4 DEF ReplyInv

LEMMA DeleteRowStep ==
  ASSUME ReplyInv, NEW S, Delete(S), UNCHANGED <<calls, texts, times, raced, lost, crashes>>
  PROVE  ReplyInv'
<1>1. TypeOK'
  BY DEF ReplyInv, SentWasDelivered, TypeOK, Delete, AuditRow, LiveRow
<1>2. ASSUME NEW i \in RowIds PROVE audit'[i] = audit[i] \/ (audit[i].outcome \in LiveRow /\ audit'[i].outcome = "deleted")
  BY DEF ReplyInv, SentWasDelivered, TypeOK, Delete, AuditRow
<1>3. SentWasDelivered'
  BY <1>1, <1>2 DEF ReplyInv, SentWasDelivered
<1>4. NewIsUntouched' /\ DeliveredIsKnown' /\ OneSendAtATime'
  BY <1>2 DEF ReplyInv, NewIsUntouched, DeliveredIsKnown, OneSendAtATime
<1>5. SendShows'
  BY <1>2 DEF ReplyInv, SendShows
<1> QED
  BY <1>3, <1>4, <1>5 DEF ReplyInv

LEMMA ReplyStep == ReplyInv /\ [ReplyNext]_replyVars => ReplyInv'
<1> SUFFICES ASSUME ReplyInv, [ReplyNext]_replyVars PROVE ReplyInv'
  OBVIOUS
<1>1. CASE UNCHANGED replyVars
  BY <1>1 DEF replyVars, ReplyInv, SentWasDelivered, TypeOK, NewIsUntouched, DeliveredIsKnown, OneSendAtATime, SendShows
<1>2. ASSUME NEW c \in calls, sendThrows(c) PROVE ReplyInv'
  BY <1>2, LostStep DEF sendThrows, ReplyInv, SentWasDelivered, TypeOK
<1>3. CASE crash
  BY <1>3, LostStep, AutoReplyAssumption DEF crash, ReplyInv, SentWasDelivered, TypeOK
<1>4. ASSUME NEW i \in RowIds, prune(i) PROVE ReplyInv'
  BY <1>4, DeleteRowStep DEF prune
<1>5. ASSUME NEW k \in Contacts, deleteByContact(k) PROVE ReplyInv'
  BY <1>5, DeleteRowStep DEF deleteByContact
<1> QED
  BY <1>1, <1>2, <1>3, <1>4, <1>5, EvaluateStep, ApproveStep, RejectStep, DeliverStep, FinalizeStep DEF ReplyNext

\* A settled row of which no send was overtaken changes no more, except to go.
LEMMA OutcomeStep ==
  ASSUME ReplyInv, ReplyNext
  PROVE  \A i \in RowIds : /\ audit[i].outcome = "deleted" => audit'[i] = audit[i]
                           /\ i \notin raced /\ audit[i].outcome \in {"sent", "rejected"}
                              => audit'[i] = audit[i] \/ audit'[i].outcome = "deleted"
<1> DEFINE Stands == \A i \in RowIds :
             /\ audit[i].outcome = "deleted" => audit'[i] = audit[i]
             /\ i \notin raced /\ audit[i].outcome \in {"sent", "rejected"}
                => audit'[i] = audit[i] \/ audit'[i].outcome = "deleted"
<1>0. audit \in [RowIds -> AuditRow] /\ calls \subseteq Call
  BY DEF ReplyInv, SentWasDelivered, TypeOK
<1>1. ASSUME NEW i \in RowIds, NEW e, audit[i].outcome \in {"new", "pending"}, audit' = [audit EXCEPT ![i] = e] PROVE Stands
  BY <1>0, <1>1
<1>2. ASSUME NEW i \in RowIds, reject(i) PROVE Stands
  BY <1>1, <1>2 DEF reject
<1>3. ASSUME NEW c \in calls, finalize(c) PROVE Stands
  <2>1. CASE audit' = audit
    BY <2>1
  <2>2. ASSUME NEW e, audit[c.row].outcome \in LiveRow, audit' = [audit EXCEPT ![c.row] = e] PROVE Stands
    BY <1>0, <2>2 DEF ReplyInv, OneSendAtATime, LiveRow, Call
  <2> QED
    BY <1>3, <2>1, <2>2 DEF finalize
<1>4. ASSUME NEW S, Delete(S) PROVE Stands
  BY <1>0, <1>4 DEF Delete, LiveRow, AuditRow
<1>5. ASSUME NEW i \in RowIds, NEW t \in Texts, NEW k \in Contacts, NEW b \in BOOLEAN, evaluate(i, t, k, b) PROVE Stands
  BY <1>1, <1>5 DEF evaluate
<1>6. ASSUME UNCHANGED audit PROVE Stands
  BY <1>6
<1>7. ASSUME NEW i \in RowIds,
              \/ \E t \in Texts, k \in Contacts, b \in BOOLEAN : evaluate(i, t, k, b)
              \/ \E t \in Texts : approve(i, t)
              \/ reject(i)
              \/ prune(i)
      PROVE  Stands
  BY <1>2, <1>4, <1>5, <1>6, <1>7 DEF approve, prune
<1>8. ASSUME NEW c \in calls, delivers(c) \/ finalize(c) \/ sendThrows(c) PROVE Stands
  BY <1>3, <1>6, <1>8 DEF delivers, sendThrows
<1> HIDE DEF Stands
<1>9. ASSUME crash PROVE Stands
  BY <1>6, <1>9 DEF crash
<1>10. ASSUME NEW k \in Contacts, deleteByContact(k) PROVE Stands
  BY <1>4, <1>10 DEF deleteByContact
<1>11. Stands
  <2>1. CASE \E i \in RowIds : \/ \E t \in Texts, k \in Contacts, b \in BOOLEAN : evaluate(i, t, k, b)
                               \/ \E t \in Texts : approve(i, t)
                               \/ reject(i)
                               \/ prune(i)
    BY <1>7, <2>1
  <2>2. CASE \E c \in calls : delivers(c) \/ finalize(c) \/ sendThrows(c)
    BY <1>8, <2>2
  <2>3. CASE \E k \in Contacts : deleteByContact(k)
    BY <1>10, <2>3
  <2> QED
    BY <1>9, <2>1, <2>2, <2>3 DEF ReplyNext
<1> QED
  BY <1>11 DEF Stands

\* For any rows, texts, contacts, sends and crashes: a row that says "sent" records a
\* text that was delivered, and a row no send overtook one reply at most.
THEOREM AuditAlwaysTells == ReplySpec => []AuditTellsWhatWasSent
<1>1. ReplyInv => AuditTellsWhatWasSent
  BY DEF ReplyInv, AuditTellsWhatWasSent, SentOnce, SendShows
<1> QED
  BY <1>1, ReplyStart, ReplyStep, PTL DEF ReplySpec

\* No late send brings a deleted row back or revises an outcome nobody raced with.
THEOREM AuditStaysFinal == ReplySpec => AuditIsFinal
<1>1. ReplyInv /\ [ReplyNext]_replyVars
      => [\A i \in RowIds : audit[i].outcome = "deleted" => audit'[i] = audit[i]]_replyVars
  BY OutcomeStep
<1>2. ReplyInv /\ [ReplyNext]_replyVars
      => [\A i \in RowIds \ raced : audit[i].outcome \in {"sent", "rejected"}
                      => audit'[i] = audit[i] \/ audit'[i].outcome = "deleted"]_replyVars
  BY OutcomeStep
<1> QED
  BY <1>1, <1>2, ReplyStart, ReplyStep, PTL DEF ReplySpec, AuditIsFinal, DeletionIsFinal, OutcomeStands

-----------------------------------------------------------------------------
\* Contacts

Identity == [email : Address, followers : Nat]

\* Every address that was stored is in small letters.
Normal(mail) == mail = NoMail \/ (mail \in Spelled /\ mail.capitals = FALSE)

IdentitiesAreNormal ==
  /\ contacts \in [ContactIds -> Identity \cup {NoRow}]
  /\ \A i \in ContactIds : Live(i) => Normal(contacts[i].email)

\* No id is handed out twice: what is known of an identity has an old id.
IdsAreOld ==
  /\ \A i \in ContactIds : Live(i) => i <= lastId
  /\ \A m \in merges : m.source <= lastId
  /\ \A i \in erased : i <= lastId

CrmInv == CrmTypeOK /\ IdentitiesAreNormal /\ IdentityHasAccount /\ IdsAreOld

LEMMA CrmStart == CrmInit => CrmInv
<1> SUFFICES ASSUME CrmInit PROVE CrmInv
  OBVIOUS
<1>1. /\ social = [a \in Accounts |-> NoRow] /\ messages = {} /\ insights = {}
      /\ contacts = [i \in ContactIds |-> NoRow] /\ lastId = 0 /\ links = [a \in Accounts |-> 0]
      /\ merges = {} /\ erased = {}
  BY DEF CrmInit
<1>2. \A i \in ContactIds : ~Live(i) /\ linkedAccounts(i) = {}
  BY <1>1 DEF ContactIds, Live, linkedAccounts
<1>3. CrmTypeOK
  BY <1>1, <1>2, CrmAssumption DEF CrmTypeOK
<1> QED
  BY <1>1, <1>2, <1>3 DEF CrmInv, IdentitiesAreNormal, IdentityHasAccount, IdsAreOld

LEMMA NormalizeIsNormal == ASSUME NEW mail \in Address
  PROVE  /\ normalizeEmail(mail) \in Address /\ Normal(normalizeEmail(mail))
         /\ normalizeEmail(mail) = NoMail <=> mail = NoMail
  BY CrmAssumption DEF normalizeEmail, Normal, Address, Spelled

LEMMA DiscoveredIsNormal == ASSUME CrmInv, NEW a \in Accounts, social[a] # NoRow
  PROVE  /\ discoverEmail(a) \in Address /\ Normal(discoverEmail(a))
         /\ discoverFollowerCount(a) \in Nat
<1>1. social[a] \in [bio : Address, followers : Nat]
  BY CrmAssumption DEF CrmInv, CrmTypeOK, NoProfile, Address
<1> DEFINE withMail == {m \in messages : Author[m] = a /\ MailIn[m] # NoMail}
<1>2. withMail # {} => Max(withMail) \in withMail
  <2>1. withMail \in SUBSET Messages
    BY DEF CrmInv, CrmTypeOK
  <2>2. IsFiniteSet(withMail)
    BY <2>1, CrmAssumption, FS_Subset
  <2> HIDE DEF withMail
  <2> QED
    BY <2>1, <2>2, CrmAssumption, MaxIsGreatest
<1>3. withMail # {} => MailIn[Max(withMail)] \in Address
  BY <1>2, CrmAssumption DEF CrmInv, CrmTypeOK
<1> DEFINE found == IF social[a].bio # NoMail THEN social[a].bio
                    ELSE IF withMail = {} THEN NoMail ELSE MailIn[Max(withMail)]
<1>4. discoverEmail(a) = normalizeEmail(found)
  BY DEF discoverEmail
<1>5. found \in Address
  BY <1>1, <1>3 DEF Address
<1> HIDE DEF found
<1> QED
  BY <1>1, <1>4, <1>5, NormalizeIsNormal DEF discoverFollowerCount

\* What ingestion writes touches no identity.
LEMMA IngestStep ==
  ASSUME CrmInv, crmUnchanged, messages' \subseteq Messages, insights' \subseteq Accounts,
         social' \in [Accounts -> Profiles \cup {NoProfile, NoRow}]
  PROVE  CrmInv'
<1>1. UNCHANGED <<contacts, lastId, links, merges, erased>>
  BY DEF crmUnchanged
<1>2. CrmTypeOK' /\ IdentitiesAreNormal'
  BY <1>1 DEF CrmInv, CrmTypeOK, IdentitiesAreNormal, Live
<1>3. IdentityHasAccount' /\ IdsAreOld'
  BY <1>1 DEF CrmInv, IdentityHasAccount, IdsAreOld, Live, linkedAccounts, HasMergeHistory
<1> QED
  BY <1>2, <1>3 DEF CrmInv

\* The new identities are numbered from the last id on.
LEMMA NewIds ==
  ASSUME CrmInv
  PROVE  /\ IsFiniteSet(unlinkedSocialContacts) /\ Cardinality(unlinkedSocialContacts) \in Nat
         /\ \A a \in unlinkedSocialContacts :
              IdFor(a) \in lastId + 1 .. lastId + Cardinality(unlinkedSocialContacts)
<1> DEFINE new == unlinkedSocialContacts
<1>1. new \subseteq Accounts /\ IsFiniteSet(new) /\ Cardinality(new) \in Nat
  <2>1. new \subseteq Accounts
    BY DEF unlinkedSocialContacts
  <2>2. IsFiniteSet(new)
    BY <2>1, CrmAssumption, FS_Subset
  <2> QED
    BY <2>1, <2>2, FS_CardinalityType
<1>2. lastId \in Nat
  BY CrmAssumption DEF CrmInv, CrmTypeOK
<1>3. ASSUME NEW a \in new PROVE IdFor(a) \in lastId + 1 .. lastId + Cardinality(new)
  <2> DEFINE before == {b \in new : b <= a}
  <2>1. before \subseteq new /\ a \in before
    BY <1>1, CrmAssumption
  <2>2. IsFiniteSet(before) /\ Cardinality(before) <= Cardinality(new)
    BY <1>1, <2>1, FS_Subset
  <2>3. Cardinality(before) \in Nat /\ Cardinality(before) # 0
    BY <2>1, <2>2, FS_CardinalityType, FS_EmptySet
  <2>4. IdFor(a) = lastId + Cardinality(before)
    BY DEF IdFor
  <2> HIDE DEF before, new
  <2> QED
    BY <1>1, <1>2, <2>2, <2>3, <2>4
<1> QED
  BY <1>1, <1>3

LEMMA SyncEffect ==
  ASSUME CrmInv, sync
  PROVE  /\ lastId <= lastId' /\ lastId' \in 0 .. MaxContacts
         /\ \A a \in Accounts : /\ links[a] # 0 => links'[a] = links[a]
                                /\ links'[a] # links[a] => links'[a] > lastId /\ links'[a] <= lastId'
         /\ links' \in [Accounts -> 0 .. MaxContacts]
         /\ contacts' \in [ContactIds -> Identity \cup {NoRow}]
         /\ \A i \in ContactIds :
              \/ contacts'[i] = contacts[i] /\ \A a \in Accounts : links'[a] # links[a] => links'[a] # i
              \/ /\ i > lastId /\ i <= lastId' /\ contacts'[i] \in Identity /\ Normal(contacts'[i].email)
                 /\ \E a \in Accounts : links'[a] = i
         /\ UNCHANGED <<social, messages, insights, merges, erased>>
<1> DEFINE new == unlinkedSocialContacts
<1>1. /\ lastId' = lastId + Cardinality(new) /\ lastId + Cardinality(new) <= MaxContacts
      /\ UNCHANGED <<social, messages, insights, merges, erased>>
      /\ links' = [a \in Accounts |-> IF a \in new THEN IdFor(a) ELSE links[a]]
      /\ contacts' = [i \in ContactIds |->
           IF \E a \in new : i = IdFor(a)
           THEN LET a == CHOOSE a \in new : i = IdFor(a)
                IN  [email |-> discoverEmail(a), followers |-> discoverFollowerCount(a)]
           ELSE contacts[i]]
  BY DEF sync
<1>2. /\ Cardinality(new) \in Nat /\ lastId \in Nat
      /\ \A a \in new : a \in Accounts /\ social[a] # NoRow /\ links[a] = 0
      /\ \A a \in Accounts : links[a] \in 0 .. MaxContacts
  BY NewIds, CrmAssumption DEF CrmInv, CrmTypeOK, unlinkedSocialContacts
<1>3. \A a \in new : IdFor(a) \in lastId + 1 .. lastId + Cardinality(new)
  BY NewIds
<1>4. \A a \in new : /\ [email |-> discoverEmail(a), followers |-> discoverFollowerCount(a)] \in Identity
                     /\ Normal(discoverEmail(a))
  BY <1>2, DiscoveredIsNormal DEF Identity
<1> HIDE DEF new
<1>5. lastId' \in 0 .. MaxContacts /\ lastId <= lastId'
  BY <1>1, <1>2, CrmAssumption
<1>6. \A a \in Accounts : /\ links[a] # 0 => links'[a] = links[a]
                          /\ links'[a] # links[a] => links'[a] > lastId /\ links'[a] <= lastId'
                          /\ links'[a] \in 0 .. MaxContacts
  BY <1>1, <1>2, <1>3, CrmAssumption
<1>7. links' \in [Accounts -> 0 .. MaxContacts]
  BY <1>1, <1>6
<1>8. ASSUME NEW i \in ContactIds
      PROVE  /\ contacts'[i] \in Identity \cup {NoRow}
             /\ \/ contacts'[i] = contacts[i] /\ \A a \in Accounts : links'[a] # links[a] => links'[a] # i
                \/ /\ i > lastId /\ i <= lastId' /\ contacts'[i] \in Identity /\ Normal(contacts'[i].email)
                   /\ \E a \in Accounts : links'[a] = i
  <2>1. CASE \E a \in new : i = IdFor(a)
    <3>1. PICK a \in new : /\ i = IdFor(a)
                           /\ contacts'[i] = [email |-> discoverEmail(a), followers |-> discoverFollowerCount(a)]
      BY <1>1, <2>1
    <3>2. i > lastId /\ i <= lastId' /\ links'[a] = i /\ a \in Accounts
      BY <1>1, <1>2, <1>3, <3>1
    <3>3. contacts'[i] \in Identity /\ Normal(contacts'[i].email)
      BY <1>4, <3>1
    <3> QED
      BY <3>2, <3>3
  <2>2. CASE ~ \E a \in new : i = IdFor(a)
    <3>1. contacts'[i] = contacts[i]
      BY <1>1, <2>2
    <3>2. \A a \in Accounts : links'[a] # links[a] => links'[a] # i
      BY <1>1, <2>2
    <3> QED
      BY <3>1, <3>2 DEF CrmInv, IdentitiesAreNormal
  <2> QED
    BY <2>1, <2>2
<1>9. contacts' \in [ContactIds -> Identity \cup {NoRow}]
  BY <1>1, <1>8
<1> QED
  BY <1>1, <1>5, <1>6, <1>7, <1>8, <1>9

LEMMA SyncStep == ASSUME CrmInv, sync PROVE CrmInv'
<1>1. NoRow \notin Identity
  BY CrmAssumption DEF Identity
<1>2. IdentitiesAreNormal'
  BY SyncEffect DEF CrmInv, IdentitiesAreNormal, Live
<1>3. CrmTypeOK'
  BY <1>2, SyncEffect DEF CrmInv, CrmTypeOK, IdentitiesAreNormal, Identity, Live
<1>4. lastId \in Nat /\ lastId' \in Nat /\ lastId <= lastId' /\ \A i \in ContactIds : i \in Nat
  BY SyncEffect, CrmAssumption DEF CrmInv, CrmTypeOK, ContactIds
<1>5. IdsAreOld'
  <2>1. \A i \in ContactIds : Live(i)' => i <= lastId'
    BY <1>4, SyncEffect DEF CrmInv, IdsAreOld, Live
  <2>2. \A m \in merges' : m.source <= lastId'
    BY <1>4, SyncEffect DEF CrmInv, CrmTypeOK, IdsAreOld
  <2>3. \A i \in erased' : i <= lastId'
    BY <1>4, SyncEffect DEF CrmInv, CrmTypeOK, IdsAreOld
  <2> QED
    BY <2>1, <2>2, <2>3 DEF IdsAreOld
<1>6. IdentityHasAccount'
  <2>1. ASSUME NEW i \in ContactIds PROVE Live(i)' <=> linkedAccounts(i)' # {}
    <3>1. CASE contacts'[i] = contacts[i] /\ \A a \in Accounts : links'[a] # links[a] => links'[a] # i
      <4>1. linkedAccounts(i)' = {a \in Accounts : links'[a] = i}
        BY DEF linkedAccounts
      <4>2. ASSUME NEW a \in Accounts, links[a] = i PROVE links'[a] = i
        BY <4>2, SyncEffect, CrmAssumption DEF ContactIds
      <4>3. linkedAccounts(i)' = linkedAccounts(i)
        BY <3>1, <4>1, <4>2 DEF linkedAccounts
      <4> QED
        BY <3>1, <4>3 DEF CrmInv, IdentityHasAccount, Live
    <3>2. CASE contacts'[i] \in Identity /\ \E a \in Accounts : links'[a] = i
      BY <1>1, <3>2 DEF Live, linkedAccounts
    <3> QED
      BY <3>1, <3>2, SyncEffect
  <2>2. \A i \in ContactIds : ~Live(i) /\ i <= lastId => ~Live(i)'
    BY <1>4, SyncEffect DEF Live
  <2>3. \A m \in merges' : ~Live(m.source)'
    BY <2>2, SyncEffect DEF CrmInv, CrmTypeOK, IdsAreOld, IdentityHasAccount
  <2>4. \A i \in erased' : ~Live(i)' /\ ~HasMergeHistory(i)'
    BY <2>2, SyncEffect DEF CrmInv, CrmTypeOK, IdsAreOld, IdentityHasAccount, HasMergeHistory
  <2> QED
    BY <2>1, <2>3, <2>4 DEF IdentityHasAccount
<1> QED
  BY <1>2, <1>3, <1>5, <1>6 DEF CrmInv

LEMMA MaxOfTwo == ASSUME NEW m \in Nat, NEW n \in Nat
  PROVE Max({m, n}) \in Nat /\ Max({m, n}) >= m /\ Max({m, n}) >= n
<1>1. PICK k \in {m, n} : \A l \in {m, n} : k >= l
  <2>1. CASE m >= n
    BY <2>1
  <2>2. CASE n >= m
    BY <2>2
  <2> QED
    BY <2>1, <2>2
<1>2. Max({m, n}) \in {m, n} /\ \A l \in {m, n} : Max({m, n}) >= l
  BY <1>1 DEF Max
<1> QED
  BY <1>2

\* The survivor of a merge has an address if it had one, and no smaller audience.
LEMMA MergedIsIdentity ==
  ASSUME CrmInv, NEW i \in ContactIds, NEW j \in ContactIds, Live(i), Live(j)
  PROVE  /\ Merged(i, j) \in Identity /\ Normal(Merged(i, j).email)
         /\ contacts[i].email # NoMail \/ contacts[j].email # NoMail => Merged(i, j).email # NoMail
         /\ Merged(i, j).followers >= contacts[i].followers
         /\ Merged(i, j).followers >= contacts[j].followers
<1>1. contacts[i] \in Identity /\ contacts[j] \in Identity
  BY DEF CrmInv, IdentitiesAreNormal, Live
<1>2. /\ contacts[i].email \in Address /\ contacts[i].followers \in Nat
      /\ contacts[j].email \in Address /\ contacts[j].followers \in Nat
  BY <1>1 DEF Identity
<1> DEFINE kept == normalizeEmail(contacts[i].email)
           taken == normalizeEmail(contacts[j].email)
           most == Max({contacts[i].followers, contacts[j].followers})
<1>3. kept \in Address /\ Normal(kept) /\ (kept = NoMail <=> contacts[i].email = NoMail)
  BY <1>2, NormalizeIsNormal
<1>4. taken \in Address /\ Normal(taken) /\ (taken = NoMail <=> contacts[j].email = NoMail)
  BY <1>2, NormalizeIsNormal
<1>5. most \in Nat /\ most >= contacts[i].followers /\ most >= contacts[j].followers
  BY <1>2, MaxOfTwo
<1>6. Merged(i, j) = [email |-> IF kept # NoMail THEN kept ELSE taken, followers |-> most]
  BY DEF Merged
<1> HIDE DEF kept, taken, most
<1> QED
  BY <1>3, <1>4, <1>5, <1>6 DEF Identity

LEMMA MergeEffect ==
  ASSUME CrmInv, NEW i \in 0 .. MaxContacts, NEW j \in 0 .. MaxContacts, merge(i, j)
  PROVE  /\ i \in ContactIds /\ j \in ContactIds /\ i # j /\ Live(i) /\ Live(j)
         /\ contacts' \in [ContactIds -> Identity \cup {NoRow}]
         /\ contacts'[i] = Merged(i, j) /\ contacts'[j] = NoRow
         /\ \A k \in ContactIds \ {i, j} : contacts'[k] = contacts[k]
         /\ links' = [a \in Accounts |-> IF links[a] = j THEN i ELSE links[a]]
         /\ merges' = merges \cup {[survivor |-> i, source |-> j]}
         /\ UNCHANGED <<social, messages, insights, lastId, decisions, erased>>
<1>1. i # 0 /\ j # 0 /\ i # j /\ Live(i) /\ Live(j)
  BY DEF merge, mergeStatus
<1>2. i \in ContactIds /\ j \in ContactIds
  BY <1>1, CrmAssumption DEF ContactIds
<1>3. Merged(i, j) \in Identity
  BY <1>1, <1>2, MergedIsIdentity
<1>4. contacts' = [contacts EXCEPT ![i] = Merged(i, j), ![j] = NoRow]
  BY DEF merge
<1>5. contacts \in [ContactIds -> Identity \cup {NoRow}]
  BY DEF CrmInv, IdentitiesAreNormal
<1>6. /\ contacts' \in [ContactIds -> Identity \cup {NoRow}]
      /\ contacts'[i] = Merged(i, j) /\ contacts'[j] = NoRow
      /\ \A k \in ContactIds \ {i, j} : contacts'[k] = contacts[k]
  BY <1>1, <1>2, <1>3, <1>4, <1>5
<1> QED
  BY <1>1, <1>2, <1>6 DEF merge

LEMMA MergeStep ==
  ASSUME CrmInv, NEW i \in 0 .. MaxContacts, NEW j \in 0 .. MaxContacts, merge(i, j)
  PROVE  CrmInv'
<1>0. NoRow \notin Identity
  BY CrmAssumption DEF Identity
<1>1. /\ i \in ContactIds /\ j \in ContactIds /\ i # j /\ Live(i) /\ Live(j)
      /\ contacts' \in [ContactIds -> Identity \cup {NoRow}]
      /\ contacts'[i] = Merged(i, j) /\ contacts'[j] = NoRow
      /\ \A k \in ContactIds \ {i, j} : contacts'[k] = contacts[k]
      /\ links' = [a \in Accounts |-> IF links[a] = j THEN i ELSE links[a]]
      /\ merges' = merges \cup {[survivor |-> i, source |-> j]}
      /\ UNCHANGED <<social, messages, insights, lastId, decisions, erased>>
  BY MergeEffect
<1>2. Merged(i, j) \in Identity /\ Normal(Merged(i, j).email)
  BY <1>1, MergedIsIdentity
<1>3. IdentitiesAreNormal'
  BY <1>1, <1>2 DEF CrmInv, IdentitiesAreNormal, Live
<1>4. links' \in [Accounts -> 0 .. MaxContacts]
  BY <1>1, CrmAssumption DEF CrmInv, CrmTypeOK, ContactIds
<1>5. CrmTypeOK'
  BY <1>1, <1>3, <1>4 DEF CrmInv, CrmTypeOK, IdentitiesAreNormal, Identity, Live
<1>6. IdsAreOld'
  BY <1>1 DEF CrmInv, IdsAreOld, Live
<1>7. IdentityHasAccount'
  <2>1. ASSUME NEW k \in ContactIds PROVE Live(k)' <=> linkedAccounts(k)' # {}
    <3>1. linkedAccounts(k)' = {a \in Accounts : links'[a] = k}
      BY DEF linkedAccounts
    <3>2. CASE k = j
      BY <1>1, <3>1, <3>2 DEF Live
    <3>3. CASE k = i
      <4>1. linkedAccounts(i) # {}
        BY <1>1 DEF CrmInv, IdentityHasAccount
      <4> QED
        BY <1>0, <1>1, <1>2, <3>1, <3>3, <4>1 DEF Live, linkedAccounts
    <3>4. CASE k \notin {i, j}
      <4>1. linkedAccounts(k)' = linkedAccounts(k)
        BY <1>1, <3>1, <3>4 DEF linkedAccounts
      <4> QED
        BY <1>1, <3>4, <4>1 DEF CrmInv, IdentityHasAccount, Live
    <3> QED
      BY <3>2, <3>3, <3>4
  <2>2. \A k \in ContactIds : ~Live(k) => ~Live(k)'
    BY <1>1 DEF Live
  <2>3. \A m \in merges' : ~Live(m.source)'
    <3>1. \A m \in merges : ~Live(m.source)'
      BY <2>2 DEF CrmInv, CrmTypeOK, IdentityHasAccount
    <3>2. ~Live(j)'
      BY <1>1 DEF Live
    <3> QED
      BY <1>1, <3>1, <3>2
  <2>4. \A k \in erased' : ~Live(k)' /\ ~HasMergeHistory(k)'
    <3> SUFFICES ASSUME NEW k \in erased PROVE ~Live(k)' /\ ~HasMergeHistory(k)'
      BY <1>1
    <3>1. k \in ContactIds /\ ~Live(k) /\ \A m \in merges : m.survivor # k
      BY DEF CrmInv, CrmTypeOK, IdentityHasAccount, HasMergeHistory
    <3>2. k # i
      BY <1>1, <3>1
    <3>3. \A m \in merges' : m.survivor # k
      BY <1>1, <3>1, <3>2
    <3>4. ~Live(k)'
      BY <2>2, <3>1
    <3> QED
      BY <3>3, <3>4 DEF HasMergeHistory
  <2> QED
    BY <2>1, <2>3, <2>4 DEF IdentityHasAccount
<1> QED
  BY <1>3, <1>5, <1>6, <1>7 DEF CrmInv

LEMMA DeleteEffect ==
  ASSUME CrmInv, NEW i \in 0 .. MaxContacts, NEW b \in BOOLEAN, deleteContact(i, b)
  PROVE  /\ i \in ContactIds /\ Live(i)
         /\ merges' \subseteq merges /\ \A m \in merges' : m.survivor # i
         /\ contacts' = [contacts EXCEPT ![i] = NoRow]
         /\ links' = [a \in Accounts |-> IF links[a] = i THEN 0 ELSE links[a]]
         /\ messages' = {m \in messages : Author[m] \notin linkedAccounts(i)}
         /\ insights' = insights \ linkedAccounts(i)
         /\ erased' = erased \cup {i} /\ UNCHANGED <<social, lastId>>
<1>1. deleteStatus(i, b) = 200
  BY DEF deleteContact
<1>2. i # 0 /\ Live(i) /\ (NeedsCascade(i) => b)
  BY <1>1 DEF deleteStatus
<1>3. merges' \subseteq merges /\ \A m \in merges' : m.survivor # i
  BY <1>2 DEF deleteContact, NeedsCascade, HasMergeHistory
<1> QED
  BY <1>2, <1>3, CrmAssumption DEF deleteContact, ContactIds

LEMMA DeleteStep ==
  ASSUME CrmInv, NEW i \in 0 .. MaxContacts, NEW b \in BOOLEAN, deleteContact(i, b)
  PROVE  CrmInv'
<1>1. /\ i \in ContactIds /\ Live(i)
      /\ merges' \subseteq merges /\ \A m \in merges' : m.survivor # i
      /\ contacts' = [contacts EXCEPT ![i] = NoRow]
      /\ links' = [a \in Accounts |-> IF links[a] = i THEN 0 ELSE links[a]]
      /\ messages' = {m \in messages : Author[m] \notin linkedAccounts(i)}
      /\ insights' = insights \ linkedAccounts(i)
      /\ erased' = erased \cup {i} /\ UNCHANGED <<social, lastId>>
  BY DeleteEffect
<1>2. IdentitiesAreNormal'
  BY <1>1 DEF CrmInv, IdentitiesAreNormal, Live
<1>3. links' \in [Accounts -> 0 .. MaxContacts]
  BY <1>1, CrmAssumption DEF CrmInv, CrmTypeOK
<1>4. CrmTypeOK'
  BY <1>1, <1>2, <1>3 DEF CrmInv, CrmTypeOK, IdentitiesAreNormal, Identity, Live
<1>5. \A k \in ContactIds : contacts'[k] = IF k = i THEN NoRow ELSE contacts[k]
  BY <1>1 DEF CrmInv, IdentitiesAreNormal
<1>6. IdsAreOld'
  BY <1>1, <1>5 DEF CrmInv, IdsAreOld, Live
<1>7. IdentityHasAccount'
  <2>1. ASSUME NEW k \in ContactIds PROVE Live(k)' <=> linkedAccounts(k)' # {}
    <3>1. linkedAccounts(k)' = {a \in Accounts : links'[a] = k} /\ k # 0 /\ i # 0
      BY <1>1, CrmAssumption DEF linkedAccounts, ContactIds
    <3>2. CASE k = i
      BY <1>1, <1>5, <3>1, <3>2 DEF Live
    <3>3. CASE k # i
      <4>1. linkedAccounts(k)' = linkedAccounts(k)
        BY <1>1, <3>1, <3>3 DEF linkedAccounts
      <4> QED
        BY <1>5, <3>3, <4>1 DEF CrmInv, IdentityHasAccount, Live
    <3> QED
      BY <3>2, <3>3
  <2>2. \A k \in ContactIds : ~Live(k) => ~Live(k)'
    BY <1>5 DEF Live
  <2>3. \A m \in merges' : ~Live(m.source)'
    BY <1>1, <2>2 DEF CrmInv, CrmTypeOK, IdentityHasAccount
  <2>4. \A k \in erased' : ~Live(k)' /\ ~HasMergeHistory(k)'
    BY <1>1, <1>5, <2>2 DEF CrmInv, CrmTypeOK, IdentityHasAccount, HasMergeHistory, Live
  <2> QED
    BY <2>1, <2>3, <2>4 DEF IdentityHasAccount
<1> QED
  BY <1>2, <1>4, <1>6, <1>7 DEF CrmInv

LEMMA CrmStep == CrmInv /\ [CrmNext]_crmVars => CrmInv'
<1> SUFFICES ASSUME CrmInv, [CrmNext]_crmVars PROVE CrmInv'
  OBVIOUS
<1>0. /\ social \in [Accounts -> Profiles \cup {NoProfile, NoRow}]
      /\ messages \subseteq Messages /\ insights \subseteq Accounts
  BY DEF CrmInv, CrmTypeOK
<1>1. CASE UNCHANGED crmVars
  BY <1>0, <1>1, IngestStep DEF crmVars, crmUnchanged
<1>2. ASSUME NEW a \in Accounts, NEW p \in Profiles \cup {NoProfile}, upsertContact(a, p) PROVE CrmInv'
  BY <1>0, <1>2, IngestStep DEF upsertContact
<1>3. ASSUME NEW m \in Messages, upsertMessage(m) PROVE CrmInv'
  BY <1>0, <1>3, IngestStep DEF upsertMessage
<1>4. ASSUME NEW a \in Accounts, captureInsight(a) PROVE CrmInv'
  BY <1>0, <1>4, IngestStep DEF captureInsight
<1>5. ASSUME NEW i \in ContactIds, decideDraft(i) PROVE CrmInv'
  BY <1>0, <1>5, IngestStep DEF decideDraft
<1> QED
  BY <1>1, <1>2, <1>3, <1>4, <1>5, SyncStep, MergeStep, DeleteStep DEF CrmNext

\* What one step does to two accounts of one person.
Stays(a, b) ==
  /\ links[a] # 0 /\ links[a] = links[b] => links'[a] = links'[b]
  /\ links[a] # 0 /\ links'[a] # 0 =>
       /\ contacts[links[a]].email # NoMail => contacts'[links'[a]].email # NoMail
       /\ contacts'[links'[a]].followers >= contacts[links[a]].followers
  /\ links[a] # 0 /\ links'[a] = 0 => a \notin insights' /\ \A m \in messages' : Author[m] # a

LEMMA LinkedIsLive == ASSUME CrmInv, NEW a \in Accounts, links[a] # 0
  PROVE /\ links[a] \in ContactIds /\ Live(links[a]) /\ links[a] <= lastId
        /\ contacts[links[a]] \in Identity /\ contacts[links[a]].followers \in Nat
<1>1. links[a] \in ContactIds
  BY CrmAssumption DEF CrmInv, CrmTypeOK, ContactIds
<1>2. Live(links[a])
  BY <1>1 DEF CrmInv, IdentityHasAccount, linkedAccounts
<1> QED
  BY <1>1, <1>2 DEF CrmInv, IdsAreOld, IdentitiesAreNormal, Live, Identity

LEMMA UntouchedStays ==
  ASSUME CrmInv, NEW a \in Accounts, NEW b \in Accounts, UNCHANGED links,
         \A i \in ContactIds : i <= lastId => contacts'[i] = contacts[i]
  PROVE  Stays(a, b)
  BY LinkedIsLive DEF Stays

LEMMA PersonStep ==
  ASSUME CrmInv, CrmNext, NEW a \in Accounts, NEW b \in Accounts
  PROVE  Stays(a, b)
<1>0. links \in [Accounts -> 0 .. MaxContacts] /\ lastId \in Nat
  BY CrmAssumption DEF CrmInv, CrmTypeOK
<1>1. ASSUME UNCHANGED <<links, contacts>> PROVE Stays(a, b)
  BY <1>1, UntouchedStays
<1>2. ASSUME sync PROVE Stays(a, b)
  <2>1. \A c \in Accounts : links[c] # 0 => links'[c] = links[c]
    BY <1>2, SyncEffect
  <2>2. \A i \in ContactIds : i <= lastId => contacts'[i] = contacts[i]
    <3> SUFFICES ASSUME NEW i \in ContactIds, i <= lastId PROVE contacts'[i] = contacts[i]
      OBVIOUS
    <3>1. i \in Int
      BY CrmAssumption DEF ContactIds
    <3>2. contacts'[i] = contacts[i] \/ i > lastId
      BY <1>2, SyncEffect
    <3> QED
      BY <1>0, <3>1, <3>2
  <2> QED
    BY <2>1, <2>2, LinkedIsLive DEF Stays
<1>3. ASSUME NEW i \in 0 .. MaxContacts, NEW j \in 0 .. MaxContacts, merge(i, j) PROVE Stays(a, b)
  <2>1. /\ i \in ContactIds /\ j \in ContactIds /\ i # j /\ Live(i) /\ Live(j)
        /\ contacts'[i] = Merged(i, j) /\ contacts'[j] = NoRow
        /\ \A k \in ContactIds \ {i, j} : contacts'[k] = contacts[k]
        /\ links' = [c \in Accounts |-> IF links[c] = j THEN i ELSE links[c]]
    BY <1>3, MergeEffect
  <2>2. /\ contacts[i].email # NoMail \/ contacts[j].email # NoMail => Merged(i, j).email # NoMail
        /\ Merged(i, j).followers >= contacts[i].followers
        /\ Merged(i, j).followers >= contacts[j].followers
    BY <2>1, MergedIsIdentity
  <2>3. i # 0
    BY <2>1, CrmAssumption DEF ContactIds
  <2>4. CASE links[a] = 0
    BY <2>4 DEF Stays
  <2>5. CASE links[a] # 0
    <3>1. links[a] \in ContactIds /\ contacts[links[a]].followers \in Nat
      BY <2>5, LinkedIsLive
    <3>2. CASE links[a] \in {i, j}
      BY <2>1, <2>2, <2>3, <3>1, <3>2 DEF Stays
    <3>3. CASE links[a] \notin {i, j}
      <4>1. links'[a] = links[a] /\ (links[a] = links[b] => links'[b] = links[b])
        BY <2>1, <3>3
      <4>2. contacts'[links[a]] = contacts[links[a]]
        BY <2>1, <3>1, <3>3
      <4> QED
        BY <2>5, <3>1, <4>1, <4>2 DEF Stays
    <3> QED
      BY <3>2, <3>3
  <2> QED
    BY <2>4, <2>5
<1>4. ASSUME NEW i \in 0 .. MaxContacts, NEW c \in BOOLEAN, deleteContact(i, c) PROVE Stays(a, b)
  <2>1. /\ i \in ContactIds /\ contacts' = [contacts EXCEPT ![i] = NoRow]
        /\ links' = [d \in Accounts |-> IF links[d] = i THEN 0 ELSE links[d]]
        /\ messages' = {m \in messages : Author[m] \notin linkedAccounts(i)}
        /\ insights' = insights \ linkedAccounts(i)
    BY <1>4, DeleteEffect
  <2>2. CASE links[a] = i
    BY <2>1, <2>2 DEF Stays, linkedAccounts
  <2>3. CASE links[a] # i
    <3>1. links'[a] = links[a]
      BY <2>1, <2>3
    <3>2. links[a] # 0 => contacts'[links[a]] = contacts[links[a]] /\ contacts[links[a]].followers \in Nat
      BY <2>1, <2>3, LinkedIsLive DEF CrmInv, IdentitiesAreNormal
    <3> QED
      BY <2>1, <2>3, <3>1, <3>2 DEF Stays
  <2> QED
    BY <2>2, <2>3
<1>5. ASSUME crmUnchanged PROVE Stays(a, b)
  BY <1>1, <1>5 DEF crmUnchanged
<1> QED
  BY <1>2, <1>3, <1>4, <1>5 DEF CrmNext, upsertContact, upsertMessage, captureInsight, decideDraft

\* For any accounts, messages and requests: an identity lives exactly as long as an
\* account is linked to it, and none that was merged or deleted comes back.
THEOREM IdentitiesHaveAccounts == CrmSpec => []IdentityHasAccount
  BY CrmStart, CrmStep, PTL DEF CrmSpec, CrmInv

\* No two identities with one address escape the suggestions.
THEOREM SuggestionsStayComplete == CrmSpec => []SuggestionsAreComplete
<1>1. CrmInv => SuggestionsAreComplete
  BY DEF CrmInv, IdentitiesAreNormal, SuggestionsAreComplete, suggestedMerges, Normal, Spelled
<1> QED
  BY <1>1, CrmStart, CrmStep, PTL DEF CrmSpec

\* No step parts the accounts of one person, loses the address or the audience found
\* for them, or deletes a person without its messages and metrics.
THEOREM PersonStaysWhole == CrmSpec => PersonIsWhole
<1>1. CrmInv /\ [CrmNext]_crmVars
      => [ \A a, b \in Accounts :
        /\ links[a] # 0 /\ links[a] = links[b] => links'[a] = links'[b]
        /\ links[a] # 0 /\ links'[a] # 0 =>
             /\ contacts[links[a]].email # NoMail => contacts'[links'[a]].email # NoMail
             /\ contacts'[links'[a]].followers >= contacts[links[a]].followers
        /\ links[a] # 0 /\ links'[a] = 0 =>
             /\ a \notin insights'
             /\ \A m \in messages' : Author[m] # a ]_crmVars
  <2> SUFFICES ASSUME CrmInv, CrmNext, NEW a \in Accounts, NEW b \in Accounts PROVE Stays(a, b)
    BY DEF Stays
  <2> QED
    BY PersonStep
<1> QED
  BY <1>1, CrmStart, CrmStep, PTL DEF CrmSpec, PersonIsWhole

-----------------------------------------------------------------------------
(* The newest messages first: each has the number of those not older.      *)

AtLeast(S, m) == {q \in S : q >= m}

LEMMA NumbersAreAll ==
  ASSUME NEW S \in SUBSET Nat, IsFiniteSet(S)
  PROVE  /\ Cardinality(S) \in Nat
         /\ \A m \in S : Cardinality(AtLeast(S, m)) \in 1 .. Cardinality(S)
         /\ \A m, n \in S : m < n => Cardinality(AtLeast(S, n)) < Cardinality(AtLeast(S, m))
         /\ \A m, n \in S : Cardinality(AtLeast(S, m)) = Cardinality(AtLeast(S, n)) => m = n
         /\ \A k \in 1 .. Cardinality(S) : \E m \in S : Cardinality(AtLeast(S, m)) = k
<1>1. PICK c : c = Cardinality(S) /\ c \in Nat
  BY FS_CardinalityType
<1>2. IsFiniteSet(1 .. c) /\ Cardinality(1 .. c) = c
  BY <1>1, FS_Interval
<1>3. ASSUME NEW m \in S
      PROVE  IsFiniteSet(AtLeast(S, m)) /\ Cardinality(AtLeast(S, m)) \in 1 .. c
  <2>1. PICK U : U = AtLeast(S, m)
    OBVIOUS
  <2>2. U \in SUBSET S /\ m \in U
    BY <2>1 DEF AtLeast
  <2>3. IsFiniteSet(U) /\ Cardinality(U) \in Nat /\ Cardinality(U) <= c
    BY <1>1, <2>2, FS_Subset, FS_CardinalityType
  <2>4. Cardinality(U) # 0
    BY <2>2, <2>3, FS_EmptySet
  <2> QED
    BY <1>1, <2>1, <2>3, <2>4
<1>4. ASSUME NEW m \in S, NEW n \in S, m < n PROVE Cardinality(AtLeast(S, n)) < Cardinality(AtLeast(S, m))
  <2>1. PICK U, V : U = AtLeast(S, n) /\ V = AtLeast(S, m)
    OBVIOUS
  <2>2. U \in SUBSET V /\ m \in V /\ m \notin U
    <3>1. m \in Nat /\ n \in Nat /\ \A q \in S : q \in Nat
      OBVIOUS
    <3>2. \A q \in S : q >= n => q >= m
      BY <1>4, <3>1
    <3>3. m >= m /\ ~ (m >= n)
      BY <1>4, <3>1
    <3> QED
      BY <2>1, <3>2, <3>3 DEF AtLeast
  <2>3. IsFiniteSet(V) /\ Cardinality(V) \in Nat /\ Cardinality(U) \in Nat
    BY <1>3, <2>1
  <2> QED
    BY <2>1, <2>2, <2>3, FS_Subset
<1>5. ASSUME NEW m \in S, NEW n \in S, Cardinality(AtLeast(S, m)) = Cardinality(AtLeast(S, n)) PROVE m = n
  <2>1. Cardinality(AtLeast(S, m)) \in Nat /\ Cardinality(AtLeast(S, n)) \in Nat
    BY <1>3
  <2>2. ~ (m < n) /\ ~ (n < m)
    BY <1>4, <1>5, <2>1
  <2> QED
    BY <2>2
<1>6. PICK rank : rank = [m \in S |-> Cardinality(AtLeast(S, m))]
  OBVIOUS
<1>7. rank \in Injection(S, 1 .. c)
  BY <1>3, <1>5, <1>6 DEF Injection, IsInjective
<1>8. rank \in Surjection(S, 1 .. c)
  BY <1>1, <1>2, <1>7, FS_Injection
<1>9. \A k \in 1 .. c : \E m \in S : rank[m] = k
  BY <1>8 DEF Surjection
<1>10. \A k \in 1 .. c : \E m \in S : Cardinality(AtLeast(S, m)) = k
  BY <1>6, <1>9
<1> QED
  BY <1>1, <1>3, <1>4, <1>5, <1>10

LEMMA Tagged ==
  ASSUME NEW i, NEW S, IsFiniteSet(S)
  PROVE  Cardinality({i} \X S) = Cardinality(S)
<1>1. IsFiniteSet({i}) /\ Cardinality({i}) = 1
  BY FS_Singleton
<1>2. Cardinality({i} \X S) = 1 * Cardinality(S)
  BY <1>1, FS_Product
<1>3. Cardinality(S) \in Nat
  BY FS_CardinalityType
<1> QED
  BY <1>2, <1>3

-----------------------------------------------------------------------------
(* The page and the detail score the same bodies.                           *)

Of(i) == {m \in messages \cap Window : links[Author[m]] = i}

LEMMA OfIsFinite == ASSUME CrmInv, NEW i PROVE IsFiniteSet(Of(i)) /\ Of(i) \in SUBSET Nat /\ Of(i) \in SUBSET Messages
<1>1. Of(i) \in SUBSET Messages
  BY DEF Of, CrmInv, CrmTypeOK
<1> QED
  BY <1>1, CrmAssumption, FS_Subset

LEMMA PageOf ==
  ASSUME CrmInv, NEW i \in ContactIds
  PROVE  {r \in pageRows : r[1] = i} = {i} \X Of(i)
  BY DEF pageRows, Of

LEMMA RowNumbers ==
  ASSUME CrmInv, NEW i \in ContactIds, NEW m \in Of(i)
  PROVE  rowNumber(pageRows, <<i, m>>) = Cardinality(AtLeast(Of(i), m))
<1>1. PICK S : S = Of(i) /\ IsFiniteSet(S)
  BY OfIsFinite
<1>2. {q \in pageRows : q[1] = i /\ q[2] >= m} = {i} \X AtLeast(S, m)
  <2>1. {q \in pageRows : q[1] = i} = {i} \X S
    BY <1>1, PageOf
  <2>2. \A q : q \in pageRows /\ q[1] = i <=> q \in {i} \X S
    BY <2>1
  <2>3. \A q : q \in {q_1 \in pageRows : q_1[1] = i /\ q_1[2] >= m} <=> q \in {i} \X S /\ q[2] >= m
    BY <2>2
  <2>4. \A q : q \in {i} \X S /\ q[2] >= m <=> q \in {i} \X AtLeast(S, m)
    BY DEF AtLeast
  <2> QED
    BY <2>3, <2>4
<1>3. IsFiniteSet(AtLeast(S, m))
  BY <1>1, FS_Subset DEF AtLeast
<1>4. <<i, m>>[1] = i /\ <<i, m>>[2] = m
  OBVIOUS
<1>5. rowNumber(pageRows, <<i, m>>) = Cardinality({q \in pageRows : q[1] = i /\ q[2] >= m})
  BY <1>4 DEF rowNumber
<1>6. Cardinality({i} \X AtLeast(S, m)) = Cardinality(AtLeast(S, m))
  BY <1>3, Tagged
<1> QED
  BY <1>1, <1>2, <1>5, <1>6

LEMMA CountsAgree ==
  ASSUME CrmInv, NEW i \in ContactIds
  PROVE  Cardinality({r \in pageRows : r[1] = i}) = engagementCount(i)
<1>1. Cardinality({i} \X Of(i)) = Cardinality(Of(i))
  BY OfIsFinite, Tagged
<1> QED
  BY <1>1, PageOf DEF engagementCount, Of

LEMMA BodiesAgree ==
  ASSUME CrmInv, NEW i \in ContactIds
  PROVE  batchRecentBodies(pageRows)[i] = recentBodies(i)
<1>1. PICK S, c : S = Of(i) /\ c = Cardinality(S)
  OBVIOUS
<1>2. IsFiniteSet(S) /\ S \in SUBSET Nat /\ c \in Nat /\ RecentLimit \in Nat
  BY <1>1, OfIsFinite, FS_CardinalityType, CrmAssumption
<1>3. PICK rank : rank = [m \in S |-> Cardinality(AtLeast(S, m))]
  OBVIOUS
<1>4. /\ \A m \in S : rank[m] \in 1 .. c
      /\ \A m, n \in S : m < n => rank[n] < rank[m]
      /\ \A m, n \in S : rank[m] = rank[n] => m = n
      /\ \A k \in 1 .. c : \E m \in S : rank[m] = k
  BY <1>1, <1>2, <1>3, NumbersAreAll
<1>5. PICK K : K = {r \in pageRows : rowNumber(pageRows, r) <= RecentLimit}
  OBVIOUS
<1>6. \A r : r \in K /\ r[1] = i <=> r \in {i} \X S /\ rank[r[2]] <= RecentLimit
  <2>1. \A r : r \in pageRows /\ r[1] = i <=> r \in {i} \X S
    <3>1. {r \in pageRows : r[1] = i} = {i} \X S
      BY <1>1, PageOf
    <3> QED
      BY <3>1
  <2>2. ASSUME NEW r \in {i} \X S PROVE rowNumber(pageRows, r) = rank[r[2]]
    <3>1. PICK m \in S : r = <<i, m>> /\ r[2] = m
      OBVIOUS
    <3> QED
      BY <1>1, <1>3, <3>1, RowNumbers
  <2> QED
    BY <1>5, <2>1, <2>2
<1>7. ASSUME NEW m \in S, rank[m] <= RecentLimit PROVE rowNumber(K, <<i, m>>) = rank[m]
  <2>1. \A q \in S : q >= m => rank[q] <= RecentLimit
    <3>1. ASSUME NEW q \in S, q >= m PROVE rank[q] <= rank[m]
      <4>1. q = m \/ m < q
        BY <1>2, <3>1
      <4>2. rank[m] \in Nat /\ rank[q] \in Nat
        BY <1>2, <1>4
      <4> QED
        BY <1>4, <4>1, <4>2
    <3>2. ASSUME NEW q \in S, q >= m PROVE rank[q] <= RecentLimit
      <4>1. rank[q] <= rank[m] /\ rank[m] \in Nat /\ rank[q] \in Nat
        BY <1>2, <1>4, <3>1, <3>2
      <4> QED
        BY <1>2, <1>7, <4>1
    <3> QED
      BY <3>2
  <2>2. \A q : q \in {i} \X S /\ q[2] >= m <=> q \in {i} \X AtLeast(S, m)
    BY DEF AtLeast
  <2>3. \A q : q \in {q_1 \in K : q_1[1] = i /\ q_1[2] >= m} <=> q \in {i} \X S /\ q[2] >= m
    BY <1>6, <2>1
  <2>4. {q \in K : q[1] = i /\ q[2] >= m} = {i} \X AtLeast(S, m)
    BY <2>2, <2>3
  <2>5. <<i, m>>[1] = i /\ <<i, m>>[2] = m
    OBVIOUS
  <2>6. rowNumber(K, <<i, m>>) = Cardinality({q \in K : q[1] = i /\ q[2] >= m})
    BY <2>5 DEF rowNumber
  <2>7. IsFiniteSet(AtLeast(S, m))
    BY <1>2, FS_Subset DEF AtLeast
  <2>8. Cardinality({i} \X AtLeast(S, m)) = Cardinality(AtLeast(S, m))
    BY <2>7, Tagged
  <2> QED
    BY <1>3, <2>4, <2>6, <2>8
<1>8. \A r : r \in K /\ r[1] = i => r[2] \in S /\ r = <<i, r[2]>> /\ rowNumber(K, r) = rank[r[2]] /\ rank[r[2]] <= RecentLimit
  BY <1>6, <1>7
<1>9. {rowNumber(K, r) : r \in {q \in K : q[1] = i}} = {k \in 1 .. c : k <= RecentLimit}
  <2>1. \A r \in {q \in K : q[1] = i} : rowNumber(K, r) \in {k \in 1 .. c : k <= RecentLimit}
    BY <1>4, <1>8
  <2>2. ASSUME NEW k \in 1 .. c, k <= RecentLimit PROVE \E r \in {q \in K : q[1] = i} : rowNumber(K, r) = k
    <3>1. PICK m \in S : rank[m] = k
      BY <1>4
    <3>2. PICK r : r = <<i, m>>
      OBVIOUS
    <3>3. r \in {i} \X S /\ r[2] = m
      BY <3>2
    <3>4. r \in K /\ r[1] = i
      BY <1>6, <2>2, <3>1, <3>3
    <3> QED
      BY <1>8, <3>1, <3>3, <3>4
  <2> QED
    BY <2>1, <2>2
<1>10. PICK newest : newest = newestFirst(S)
  OBVIOUS
<1>11. DOMAIN newest = 1 .. c /\ \A k \in 1 .. c : newest[k] \in S /\ rank[newest[k]] = k
  <2>1. newest = [n \in 1 .. c |-> CHOOSE m \in S : Cardinality(AtLeast(S, m)) = n]
    BY <1>1, <1>10, Zenon DEF newestFirst, AtLeast
  <2>2. ASSUME NEW k \in 1 .. c PROVE newest[k] \in S /\ rank[newest[k]] = k
    <3>1. newest[k] = CHOOSE m \in S : Cardinality(AtLeast(S, m)) = k
      BY <2>1
    <3>2. \E m \in S : Cardinality(AtLeast(S, m)) = k
      BY <1>3, <1>4
    <3>3. newest[k] \in S /\ Cardinality(AtLeast(S, newest[k])) = k
      BY <3>1, <3>2
    <3> QED
      BY <1>3, <3>3
  <2> QED
    BY <2>1, <2>2
<1>12. ASSUME NEW k \in 1 .. c, k <= RecentLimit
       PROVE  (CHOOSE r \in K : r[1] = i /\ rowNumber(K, r) = k)[2] = newest[k]
  <2>1. PICK r : r = CHOOSE q \in K : q[1] = i /\ rowNumber(K, q) = k
    OBVIOUS
  <2>2. \E q \in K : q[1] = i /\ rowNumber(K, q) = k
    <3>1. k \in {rowNumber(K, q) : q \in {p \in K : p[1] = i}}
      BY <1>9, <1>12
    <3> QED
      BY <3>1
  <2>3. r \in K /\ r[1] = i /\ rowNumber(K, r) = k
    BY <2>1, <2>2
  <2>4. r[2] \in S /\ rank[r[2]] = k
    BY <1>8, <2>3
  <2>5. r[2] = newest[k]
    BY <1>4, <1>11, <2>4
  <2> QED
    BY <2>1, <2>5
<1>13. bodiesOf(K)[i] = [n \in {k \in 1 .. c : k <= RecentLimit} |->
                           WordsIn[(CHOOSE r \in K : r[1] = i /\ rowNumber(K, r) = n)[2]]]
  BY <1>9 DEF bodiesOf
<1>14. bodiesOf(K)[i] = [n \in {k \in 1 .. c : k <= RecentLimit} |-> WordsIn[newest[n]]]
  BY <1>12, <1>13
<1>15. recentBodies(i) = [n \in {k \in DOMAIN newest : k <= RecentLimit} |-> WordsIn[newest[n]]]
  BY <1>1, <1>10 DEF recentBodies, Of
<1> QED
  BY <1>5, <1>11, <1>14, <1>15 DEF batchRecentBodies

-----------------------------------------------------------------------------
(* The signals of a score are hundredths.                                   *)

LEMMA ClampIsHundredth == \A n \in Int : clamp01(n) \in 0 .. 100 /\ (n >= 100 => clamp01(n) = 100)
  BY DEF clamp01

LEMMA Quotient == ASSUME NEW n \in Int, NEW d \in Nat \ {0} PROVE n \div d \in Int
  OBVIOUS

LEMMA WordsAddUp ==
  ASSUME NEW D, NEW scored
  PROVE  /\ MapThenSumSet(LAMBDA d : scored[d].positive, D) = Total([d \in D |-> scored[d].positive], D)
         /\ MapThenSumSet(LAMBDA d : scored[d].negative, D) = Total([d \in D |-> scored[d].negative], D)
<1>1. MapThenSumSet(LAMBDA d : scored[d].positive, D) = Total([d \in D |-> scored[d].positive], D)
  BY ZenonT(40) DEF MapThenSumSet, MapThenFoldSet, FoldFunctionOnSet, Total
<1>2. MapThenSumSet(LAMBDA d : scored[d].negative, D) = Total([d \in D |-> scored[d].negative], D)
  BY ZenonT(40) DEF MapThenSumSet, MapThenFoldSet, FoldFunctionOnSet, Total
<1> QED
  BY <1>1, <1>2

LEMMA SentimentIsHundredth ==
  ASSUME NEW D, IsFiniteSet(D), NEW scored \in [D -> [positive : Nat, negative : Nat]]
  PROVE  scoreSentiment(scored) \in 0 .. 100
<1>1. PICK p, n : p = [d \in D |-> scored[d].positive] /\ n = [d \in D |-> scored[d].negative]
  OBVIOUS
<1>2. Total(p, D) \in Nat /\ Total(n, D) \in Nat
  <2>1. (\A d \in D : p[d] \in Nat) /\ \A d \in D : n[d] \in Nat
    BY <1>1
  <2> QED
    BY <2>1, TotalIsNat
<1>3. DOMAIN scored = D
  OBVIOUS
<1>4. MapThenSumSet(LAMBDA d : scored[d].positive, D) = Total(p, D)
  BY <1>1, WordsAddUp
<1>5. MapThenSumSet(LAMBDA d : scored[d].negative, D) = Total(n, D)
  BY <1>1, WordsAddUp
<1>6. PICK a, b : a = Total(p, D) /\ b = Total(n, D) /\ a \in Nat /\ b \in Nat
  BY <1>2
<1>7. scoreSentiment(scored) = IF a + b = 0 THEN 50 ELSE clamp01(50 + (50 * (a - b)) \div (a + b))
  BY <1>1, <1>3, <1>4, <1>5, <1>6 DEF scoreSentiment
<1>8. a + b # 0 => 50 + (50 * (a - b)) \div (a + b) \in Int
  <2>1. 50 * (a - b) \in Int /\ a + b \in Nat
    BY <1>6
  <2> QED
    BY <2>1, Quotient
<1> QED
  BY <1>7, <1>8, ClampIsHundredth

LEMMA Logarithms == ASSUME NEW n \in Nat \ {0} PROVE Log2(n) \in Nat /\ (n >= 2 => Log2(n) >= 1)
<1>1. PICK S : S = {k \in 0 .. 20 : 2 ^ k <= n}
  OBVIOUS
<1>2. S \in SUBSET Nat /\ IsFiniteSet(S)
  <2>1. PICK low, high : low = 0 /\ high = 20 /\ low \in Int /\ high \in Int
    OBVIOUS
  <2>2. IsFiniteSet(low .. high)
    BY <2>1, FS_Interval
  <2> QED
    BY <1>1, <2>1, <2>2, FS_Subset
<1>3. 0 \in S
  <2>1. 2 ^ 0 = 1
    OBVIOUS
  <2> QED
    BY <1>1, <2>1
<1>4. n >= 2 => 1 \in S
  <2>1. 2 ^ 1 = 2
    OBVIOUS
  <2> QED
    BY <1>1, <2>1
<1>5. Max(S) \in S /\ \A k \in S : k <= Max(S)
  BY <1>2, <1>3, MaxIsGreatest
<1>6. Log2(n) = Max(S)
  BY <1>1 DEF Log2
<1> QED
  BY <1>2, <1>4, <1>5, <1>6

LEMMA AudienceIsHundredth == ASSUME NEW followers \in Nat PROVE followerSignal(followers, weights) \in 0 .. 100
<1>1. PICK t : t = FollowerTarget /\ t \in Nat \ {0}
  BY CrmAssumption
<1>2. weights.followerTarget = t
  BY <1>1 DEF weights, Weights
<1>3. followerSignal(followers, weights) = clamp01((100 * Log2(1 + followers)) \div Log2(1 + t))
  BY <1>1, <1>2 DEF followerSignal
<1>4. Log2(1 + followers) \in Nat /\ Log2(1 + t) \in Nat \ {0}
  <2>1. 1 + followers \in Nat \ {0} /\ 1 + t \in Nat \ {0} /\ 1 + t >= 2
    BY <1>1
  <2>2. Log2(1 + followers) \in Nat /\ Log2(1 + t) \in Nat /\ Log2(1 + t) >= 1
    BY <2>1, Logarithms
  <2> QED
    BY <2>2
<1>5. 100 * Log2(1 + followers) \in Int
  BY <1>4
<1>6. (100 * Log2(1 + followers)) \div Log2(1 + t) \in Int
  BY <1>4, <1>5, Quotient
<1> QED
  BY <1>3, <1>6, ClampIsHundredth

LEMMA FullShare == ASSUME NEW n \in Nat, NEW d \in Nat \ {0}, n >= d PROVE (100 * n) \div d >= 100 /\ (100 * n) \div d \in Int
  OBVIOUS

LEMMA TargetSaturates ==
  ASSUME NEW n \in Nat, n >= EngagementTarget
  PROVE  engagementSignal(n, weights) = 100
<1>1. PICK t : t = EngagementTarget /\ t \in Nat \ {0}
  BY CrmAssumption
<1>2. weights.engagementTarget = t
  BY <1>1 DEF weights, Weights
<1>3. engagementSignal(n, weights) = clamp01((100 * n) \div t)
  BY <1>1, <1>2 DEF engagementSignal
<1>4. (100 * n) \div t >= 100 /\ (100 * n) \div t \in Int
  BY <1>1, FullShare
<1> QED
  BY <1>3, <1>4, ClampIsHundredth

LEMMA BodiesAreTexts ==
  ASSUME CrmInv, NEW i \in ContactIds
  PROVE  scoreSentiment(recentBodies(i)) \in 0 .. 100
<1>1. PICK S, c, newest : S = Of(i) /\ c = Cardinality(S) /\ newest = newestFirst(S)
  OBVIOUS
<1>2. IsFiniteSet(S) /\ S \in SUBSET Nat /\ S \in SUBSET Messages /\ c \in Nat
  BY <1>1, OfIsFinite, FS_CardinalityType
<1>3. newest = [n \in 1 .. c |-> CHOOSE m \in S : Cardinality(AtLeast(S, m)) = n]
  BY <1>1, Zenon DEF newestFirst, AtLeast
<1>4. ASSUME NEW n \in 1 .. c PROVE newest[n] \in S
  <2>1. newest[n] = CHOOSE m \in S : Cardinality(AtLeast(S, m)) = n
    BY <1>3
  <2>2. \E m \in S : Cardinality(AtLeast(S, m)) = n
    BY <1>1, <1>2, NumbersAreAll
  <2> QED
    BY <2>1, <2>2
<1>5. PICK D : D = {k \in 1 .. c : k <= RecentLimit}
  OBVIOUS
<1>6. IsFiniteSet(D) /\ D \subseteq 1 .. c
  <2>1. IsFiniteSet(1 .. c)
    BY <1>2, FS_Interval
  <2> QED
    BY <1>5, <2>1, FS_Subset
<1>7. recentBodies(i) = [n \in D |-> WordsIn[newest[n]]]
  BY <1>1, <1>3, <1>5 DEF recentBodies, Of
<1>8. recentBodies(i) \in [D -> [positive : Nat, negative : Nat]]
  <2>1. \A n \in D : WordsIn[newest[n]] \in [positive : Nat, negative : Nat]
    BY <1>2, <1>4, <1>6, CrmAssumption
  <2> QED
    BY <1>7, <2>1
<1> QED
  BY <1>6, <1>8, SentimentIsHundredth

-----------------------------------------------------------------------------
(* The pages.                                                               *)

LEMMA ListInvariant == CrmInv => ListAgreesWithDetail
<1> SUFFICES ASSUME CrmInv PROVE ListAgreesWithDetail
  OBVIOUS
<1>1. PICK page : page = listContacts
  OBVIOUS
<1>2. DOMAIN page = {j \in ContactIds : Live(j)}
  BY <1>1 DEF listContacts
<1>3. ASSUME NEW i \in ContactIds, Live(i)
      PROVE  \A f \in DOMAIN page[i] : page[i][f] = getContactDetail(i)[f]
  <2>1. PICK n, scored : n = engagementCount(i) /\ scored = recentBodies(i)
    OBVIOUS
  <2>2. Cardinality({r \in pageRows : r[1] = i}) = n /\ batchRecentBodies(pageRows)[i] = scored
    BY <2>1, CountsAgree, BodiesAgree
  <2>3. PICK score : score = scoreLead([engagementCount |-> n, followerCount |-> contacts[i].followers,
                                        recentMessages |-> scored], weights)
    OBVIOUS
  <2>4. page[i] = [score |-> score, linkedAccounts |-> linkedAccounts(i), engagementCount |-> n]
    BY <1>1, <1>3, <2>2, <2>3 DEF listContacts
  <2>5. scoreContact(i) = score
    BY <2>1, <2>3 DEF scoreContact
  <2>6. PICK detail : detail = getContactDetail(i)
    OBVIOUS
  <2>7. /\ detail.score = score /\ detail.linkedAccounts = linkedAccounts(i)
        /\ detail.engagementCount = n
    BY <2>1, <2>5, <2>6 DEF getContactDetail
  <2>8. DOMAIN page[i] = {"score", "linkedAccounts", "engagementCount"}
    BY <2>4
  <2> QED
    BY <2>4, <2>6, <2>7, <2>8
<1> QED
  BY <1>1, <1>2, <1>3 DEF ListAgreesWithDetail

LEMMA BusyInvariant == CrmInv => BusyIsTop
<1> SUFFICES ASSUME CrmInv, NEW i \in ContactIds, Live(i), engagementCount(i) >= EngagementTarget,
                    scoreSentiment(recentBodies(i)) >= 50
             PROVE  scoreContact(i).bucket = "top"
  BY DEF BusyIsTop
<1>1. PICK input : input = [engagementCount |-> engagementCount(i), followerCount |-> contacts[i].followers,
                            recentMessages |-> recentBodies(i)]
  OBVIOUS
<1>2. PICK e, s, f : /\ e = engagementSignal(input.engagementCount, weights)
                     /\ s = scoreSentiment(input.recentMessages)
                     /\ f = followerSignal(input.followerCount, weights)
  OBVIOUS
<1>3. e = 100
  <2>1. engagementCount(i) \in Nat
    <3>1. IsFiniteSet(Of(i))
      BY OfIsFinite
    <3> QED
      BY <3>1, FS_CardinalityType DEF engagementCount, Of
  <2> QED
    BY <1>1, <1>2, <2>1, TargetSaturates
<1>4. s \in 50 .. 100
  BY <1>1, <1>2, BodiesAreTexts
<1>5. f \in 0 .. 100
  BY <1>1, <1>2, AudienceIsHundredth DEF CrmInv, CrmTypeOK
<1>6. weights.engagement = 7 /\ weights.sentiment = 1 /\ weights.follower = 2 /\ weights.top = 750
  BY DEF weights, Weights
<1>7. PICK score : score = 7 * e + 1 * s + 2 * f
  OBVIOUS
<1>8. scoreLead(input, weights) = [score |-> score, bucket |-> bucketFor(score, weights)]
  BY <1>2, <1>6, <1>7 DEF scoreLead
<1>9. score >= 750
  BY <1>3, <1>4, <1>5, <1>7
<1>10. bucketFor(score, weights) = "top"
  BY <1>6, <1>9 DEF bucketFor
<1> QED
  BY <1>1, <1>8, <1>10 DEF scoreContact

\* For any accounts, messages and weights' targets: the list scores a contact as its
\* detail does, a busy one is in the top bucket, and no suggestion is missing.
THEOREM PagesAreAlwaysRight == CrmSpec => []PagesAreRight
<1>1. CrmSpec => []CrmInv
  BY CrmStart, CrmStep, PTL DEF CrmSpec
<1>2. CrmInv => ScoresAreRight
  BY ListInvariant, BusyInvariant DEF ScoresAreRight
<1> QED
  BY <1>1, <1>2, SuggestionsStayComplete, PTL DEF PagesAreRight

-----------------------------------------------------------------------------
\* The inbox

Message_ == Written \cup Replies
Stamps == Nat \X {0, 1} \X Nat
Pids == {Native(m) : m \in Message_} \cup {Local(r) : r \in Replies}
RowState == [pid : Pids, thread : Threads, direction : {"inbound", "outbound"}, kind : {"dm", "comment"},
             sentAt : Stamps \cup {NoStamp}, created : Nat]
DmReply == [phase : {"sending", "named", "unnamed", "failed", "recorded", "recordedUnnamed"},
            thread : Threads, recipient : Threads \cup {Me}]
CommentReply == [phase : {"recorded"}, thread : Threads]

InboxTyped ==
  /\ now \in Nat
  /\ sent \in [Message_ -> Nat \cup {NoStamp}]
  /\ threads \in [Threads -> Threads \cup {Me, NoOne, NoThread}]
  /\ rows \subseteq RowState
  /\ lastRead \in [Threads -> Stamps \cup {NoStamp}]
  /\ replies \in [Replies -> [phase : {"new"}] \cup DmReply \cup CommentReply]

\* A reply that reached the platform is a DM; it goes to the other party, or to the
\* user whose own message X's poller mistook.
RepliesAreSent ==
  \A r \in Replies :
    /\ sent[r] # NoStamp => replies[r] \in DmReply /\ replies[r].phase # "sending"
    /\ replies[r].phase = "named" => sent[r] # NoStamp
    /\ replies[r] \in DmReply =>
         /\ PlatformOf[replies[r].thread] # "linkedin"
         /\ replies[r].recipient \in {replies[r].thread, Me}
         /\ replies[r].recipient = Me => \E m \in Message_ : Mistaken(m)

StoredOnce == \A a, b \in rows : a.pid = b.pid => a = b

\* What a row says of the message it stands for.
NativeIsTrue(row, m) ==
  /\ sent[m] # NoStamp /\ row.thread = ThreadOfMessage(m)
  /\ Sender(m) # Me \/ PlatformOf[row.thread] = "linkedin" => row.direction = "inbound"
  /\ Sender(m) = Me /\ row.direction = "inbound" => PlatformOf[row.thread] \in {"twitter", "linkedin"}
  /\ m \in Written => row.sentAt = SentAt(m) /\ sent[m] <= row.created
LocalIsTrue(row, r) ==
  row.direction = "outbound" /\ (replies[r].phase = "recordedUnnamed" \/ replies[r] \in CommentReply)
RowIsTrue(row) ==
  /\ row.created <= now
  /\ \A m \in Message_ : row.pid = Native(m) => NativeIsTrue(row, m)
  /\ \A r \in Replies : row.pid = Local(r) => LocalIsTrue(row, r)
RowsAreTrue == \A row \in rows : RowIsTrue(row)

SentIsPast == \A m \in Message_ : sent[m] # NoStamp => sent[m] <= now

ContactsAreKnown ==
  \A t \in Threads : /\ threads[t] \in {NoThread, NoOne, t, Me}
                     /\ threads[t] = Me => \E m \in Message_ : Mistaken(m)

ReadingsArePast == \A t \in Threads : lastRead[t] = NoStamp \/ \E k \in 0 .. now : lastRead[t] = Iso(k)

InboxInv ==
  /\ InboxTyped /\ RepliesAreSent /\ StoredOnce /\ RowsAreTrue
  /\ SentIsPast /\ ContactsAreKnown /\ ReadingsArePast

LEMMA InboxStart == InboxInit => InboxInv
<1> SUFFICES ASSUME InboxInit PROVE InboxInv
  OBVIOUS
<1>1. InboxTyped
  BY DEF InboxInit, InboxTyped, Message_
<1>2. RepliesAreSent
  BY InboxAssumption DEF InboxInit, RepliesAreSent, DmReply
<1>3. StoredOnce /\ RowsAreTrue
  BY DEF InboxInit, StoredOnce, RowsAreTrue
<1>4. SentIsPast
  BY DEF InboxInit, SentIsPast, Message_
<1>5. ContactsAreKnown
  BY InboxAssumption DEF InboxInit, ContactsAreKnown
<1>6. ReadingsArePast
  BY DEF InboxInit, ReadingsArePast
<1> QED
  BY <1>1, <1>2, <1>3, <1>4, <1>5, <1>6 DEF InboxInv

LEMMA PidsDiffer ==
  /\ \A m, n : Native(m) = Native(n) => m = n
  /\ \A m, n : Local(m) = Local(n) => m = n
  /\ \A m, n : Native(m) # Local(n)
  BY DEF Native, Local

LEMMA Division ==
  ASSUME NEW n \in Nat, NEW d \in Nat \ {0}
  PROVE /\ n \div d \in Int /\ n % d \in 0 .. d - 1
        /\ n % d = n - d * (n \div d)
  OBVIOUS

LEMMA StampOfTime == ASSUME NEW t \in Nat PROVE Iso(t) \in Stamps /\ Sql(t) \in Stamps /\ Iso(t) # NoStamp
<1>1. t \div DayLength \in Int /\ t % DayLength \in 0 .. DayLength - 1
      /\ t % DayLength = t - DayLength * (t \div DayLength)
  <2>1. DayLength \in Nat \ {0}
    BY InboxAssumption
  <2> QED
    BY <2>1, Division
<1>2. PICK q \in Int, r \in Nat : q = t \div DayLength /\ r = t % DayLength /\ r = t - DayLength * q /\ r < DayLength
  BY <1>1, InboxAssumption
<1>3. q >= 0
  <2> SUFFICES ASSUME q <= -1 PROVE FALSE
    BY <1>2
  <2>1. DayLength * q <= DayLength * (-1)
    BY InboxAssumption
  <2> QED
    BY <1>2, <2>1, InboxAssumption
<1> QED
  BY <1>2, <1>3, InboxAssumption DEF Iso, Sql, Stamps

LEMMA OwnMessages == ASSUME NEW m \in Message_
  PROVE /\ (Sender(m) = Me <=> m \in Own \cup Replies)
        /\ m \in Written => ThreadOfMessage(m) = InThread[m] /\ InThread[m] \in Threads /\ m \notin Replies
        /\ m \in Replies => ThreadOfMessage(m) = replies[m].thread /\ m \notin Written /\ Sender(m) = Me
        /\ m \notin Own \cup Replies => Sender(m) = InThread[m]
  BY InboxAssumption DEF Sender, ThreadOfMessage, Message_

(* What every step keeps: time, what was sent, and the replies under way.   *)
ReplyStays(r) ==
  /\ replies[r] \in DmReply => /\ replies'[r] \in DmReply /\ replies'[r].thread = replies[r].thread
                               /\ replies'[r].recipient = replies[r].recipient
  /\ replies[r].phase = "recordedUnnamed" => replies'[r].phase = "recordedUnnamed"
  /\ replies[r] \in CommentReply => replies'[r] = replies[r]
RowsStay ==
  /\ now <= now'
  /\ \A m \in Message_ : sent[m] # NoStamp => sent'[m] = sent[m]
  /\ \A r \in Replies : ReplyStays(r)
\* Every row is there afterwards, with its id, its thread and its direction.
Carried ==
  \A a \in rows : \E b \in rows' : b.pid = a.pid /\ b.thread = a.thread /\ b.direction = a.direction

LEMMA RowStays == ASSUME InboxInv, InboxTyped', RowsStay, NEW row \in rows PROVE RowIsTrue(row)'
<1>1. row.created <= now'
  BY DEF InboxInv, InboxTyped, RowsAreTrue, RowIsTrue, RowsStay, RowState
<1>2. ASSUME NEW m \in Message_, row.pid = Native(m) PROVE NativeIsTrue(row, m)'
  <2>1. NativeIsTrue(row, m)
    BY <1>2 DEF InboxInv, RowsAreTrue, RowIsTrue
  <2>2. sent'[m] = sent[m] /\ sent[m] # NoStamp
    BY <2>1 DEF NativeIsTrue, RowsStay
  <2>3. ThreadOfMessage(m)' = ThreadOfMessage(m)
    BY <2>2, OwnMessages DEF RowsStay, ReplyStays, InboxInv, RepliesAreSent, ThreadOfMessage, Message_
  <2>4. Sender(m)' = Sender(m) /\ SentAt(m)' = SentAt(m)
    BY <2>2, <2>3 DEF Sender, SentAt
  <2> QED
    BY <2>1, <2>2, <2>3, <2>4 DEF NativeIsTrue
<1>3. ASSUME NEW r \in Replies, row.pid = Local(r) PROVE LocalIsTrue(row, r)'
  BY <1>3 DEF InboxInv, RowsAreTrue, RowIsTrue, LocalIsTrue, RowsStay, ReplyStays
<1> QED
  BY <1>1, <1>2, <1>3 DEF RowIsTrue

LEMMA MistakesStay == ASSUME InboxInv, Carried, \E m \in Message_ : Mistaken(m)
                      PROVE \E m \in Message_ : Mistaken(m)'
<1>1. PICK m \in Message_ : Mistaken(m)
  OBVIOUS
<1>2. PICK a \in rows : /\ a.pid = Native(m) /\ Sender(m) = Me
                        /\ PlatformOf[a.thread] = "twitter" /\ a.direction = "inbound"
  BY <1>1 DEF Mistaken
<1>3. PICK b \in rows' : b.pid = a.pid /\ b.thread = a.thread /\ b.direction = a.direction
  BY DEF Carried
<1>4. Sender(m)' = Me
  BY <1>2, InboxAssumption, OwnMessages DEF Sender, ThreadOfMessage, Message_
<1> QED
  BY <1>2, <1>3, <1>4 DEF Mistaken

LEMMA RowAdded == ASSUME InboxInv, InboxTyped', RowsStay, NEW row, ~Known(row.pid), rows' = rows \cup {row}, RowIsTrue(row)'
                  PROVE StoredOnce' /\ RowsAreTrue' /\ Carried
<1>1. StoredOnce'
  BY DEF InboxInv, StoredOnce, Known
<1>2. RowsAreTrue'
  BY RowStays DEF RowsAreTrue
<1> QED
  BY <1>1, <1>2 DEF Carried

LEMMA RowsSame == ASSUME InboxInv, InboxTyped', RowsStay, rows' = rows PROVE StoredOnce' /\ RowsAreTrue' /\ Carried
  BY RowStays DEF InboxInv, StoredOnce, RowsAreTrue, Carried

LEMMA ContactsStay ==
  ASSUME InboxInv, Carried, \A t \in Threads : threads'[t] \in {threads[t], NoOne} PROVE ContactsAreKnown'
<1> SUFFICES ASSUME NEW t \in Threads
    PROVE threads'[t] \in {NoThread, NoOne, t, Me} /\ (threads'[t] = Me => \E m \in Message_ : Mistaken(m)')
  BY DEF ContactsAreKnown
<1>1. threads[t] \in {NoThread, NoOne, t, Me} /\ (threads[t] = Me => \E m \in Message_ : Mistaken(m))
  BY DEF InboxInv, ContactsAreKnown
<1> QED
  BY <1>1, MistakesStay, InboxAssumption

LEMMA RepliesStay == ASSUME InboxInv, Carried, UNCHANGED <<sent, replies>> PROVE RepliesAreSent'
<1> SUFFICES ASSUME NEW r \in Replies
    PROVE /\ sent[r] # NoStamp => replies[r] \in DmReply /\ replies[r].phase # "sending"
          /\ replies[r].phase = "named" => sent[r] # NoStamp
          /\ replies[r] \in DmReply =>
               /\ PlatformOf[replies[r].thread] # "linkedin"
               /\ replies[r].recipient \in {replies[r].thread, Me}
               /\ replies[r].recipient = Me => \E m \in Message_ : Mistaken(m)'
  BY DEF RepliesAreSent, DmReply
<1> QED
  BY MistakesStay DEF InboxInv, RepliesAreSent

LEMMA ReadingsStay == ASSUME InboxInv, lastRead' = lastRead, now' \in Nat, now <= now' PROVE ReadingsArePast'
<1> SUFFICES ASSUME NEW t \in Threads, lastRead[t] # NoStamp PROVE \E k \in 0 .. now' : lastRead[t] = Iso(k)
  BY DEF ReadingsArePast, Iso
<1>1. PICK k \in 0 .. now : lastRead[t] = Iso(k)
  BY DEF InboxInv, ReadingsArePast
<1> QED
  BY <1>1 DEF InboxInv, InboxTyped

LEMMA NothingSent == ASSUME InboxInv, UNCHANGED <<sent, replies>>, now' \in Nat, now <= now' PROVE RowsStay /\ SentIsPast'
<1>1. RowsStay
  BY DEF RowsStay, ReplyStays
<1>2. SentIsPast'
  BY DEF InboxInv, InboxTyped, SentIsPast, Message_
<1> QED
  BY <1>1, <1>2

LEMMA TickStep == ASSUME InboxInv, Tick PROVE InboxInv'
<1>1. InboxTyped'
  BY DEF InboxInv, InboxTyped, Tick, RowState, DmReply, CommentReply
<1>2. RowsStay /\ SentIsPast'
  BY NothingSent DEF InboxInv, InboxTyped, Tick
<1>3. StoredOnce' /\ RowsAreTrue' /\ Carried
  BY <1>1, <1>2, RowsSame DEF Tick
<1>4. ContactsAreKnown' /\ RepliesAreSent'
  BY <1>3, ContactsStay, RepliesStay DEF Tick
<1>5. ReadingsArePast'
  BY ReadingsStay DEF InboxInv, InboxTyped, Tick
<1> QED
  BY <1>1, <1>2, <1>3, <1>4, <1>5 DEF InboxInv

LEMMA WriteStep == ASSUME InboxInv, NEW m \in Written, write(m) PROVE InboxInv'
<1> m \in Message_ /\ m \notin Replies
  BY InboxAssumption DEF Message_
<1>1. InboxTyped'
  BY DEF InboxInv, InboxTyped, write, RowState, DmReply, CommentReply
<1>2. RowsStay
  BY DEF InboxInv, InboxTyped, write, RowsStay, ReplyStays
<1>3. SentIsPast'
  BY DEF InboxInv, InboxTyped, write, SentIsPast
<1>4. StoredOnce' /\ RowsAreTrue' /\ Carried
  BY <1>1, <1>2, RowsSame DEF write
<1>5. ContactsAreKnown'
  BY <1>4, ContactsStay DEF write
<1>6. RepliesAreSent'
  <2> SUFFICES ASSUME NEW r \in Replies
      PROVE /\ sent'[r] # NoStamp => replies[r] \in DmReply /\ replies[r].phase # "sending"
            /\ replies[r].phase = "named" => sent'[r] # NoStamp
            /\ replies[r] \in DmReply =>
                 /\ PlatformOf[replies[r].thread] # "linkedin"
                 /\ replies[r].recipient \in {replies[r].thread, Me}
                 /\ replies[r].recipient = Me => \E n \in Message_ : Mistaken(n)'
    BY DEF RepliesAreSent, DmReply, write
  <2>1. sent'[r] = sent[r]
    BY DEF InboxInv, InboxTyped, write, Message_
  <2> QED
    BY <1>4, <2>1, MistakesStay DEF InboxInv, RepliesAreSent
<1>7. ReadingsArePast'
  BY ReadingsStay DEF InboxInv, InboxTyped, write
<1> QED
  BY <1>1, <1>3, <1>4, <1>5, <1>6, <1>7 DEF InboxInv

LEMMA ReadStep == ASSUME InboxInv, NEW t, markRead(t) PROVE InboxInv'
<1>0. now \in Nat /\ Iso(now) \in Stamps
  BY StampOfTime DEF InboxInv, InboxTyped
<1>1. InboxTyped'
  BY <1>0 DEF InboxInv, InboxTyped, markRead, RowState, DmReply, CommentReply
<1>2. RowsStay /\ SentIsPast'
  BY <1>0, NothingSent DEF markRead
<1>3. StoredOnce' /\ RowsAreTrue' /\ Carried
  BY <1>1, <1>2, RowsSame DEF markRead
<1>4. ContactsAreKnown' /\ RepliesAreSent'
  BY <1>3, ContactsStay, RepliesStay DEF markRead
<1>5. ReadingsArePast'
  <2> SUFFICES ASSUME NEW u \in Threads PROVE lastRead'[u] = NoStamp \/ \E k \in 0 .. now : lastRead'[u] = Iso(k)
    BY DEF ReadingsArePast, markRead, Iso
  <2>1. CASE u = t
    BY <1>0, <2>1 DEF InboxInv, InboxTyped, markRead
  <2>2. CASE u # t
    BY <2>2 DEF InboxInv, InboxTyped, ReadingsArePast, markRead
  <2> QED
    BY <2>1, <2>2
<1> QED
  BY <1>1, <1>2, <1>3, <1>4, <1>5 DEF InboxInv

LEMMA PollingNothing == ASSUME InboxInv, NEW t \in Threads, pollNothing(t) PROVE InboxInv'
<1>0. \A u \in Threads : threads'[u] \in {threads[u], NoOne}
  BY DEF InboxInv, InboxTyped, pollNothing, upsertThread
<1>1. InboxTyped'
  BY <1>0 DEF InboxInv, InboxTyped, pollNothing, upsertThread, RowState, DmReply, CommentReply
<1>2. RowsStay /\ SentIsPast'
  BY NothingSent DEF InboxInv, InboxTyped, pollNothing
<1>3. StoredOnce' /\ RowsAreTrue' /\ Carried
  BY <1>1, <1>2, RowsSame DEF pollNothing
<1>4. ContactsAreKnown' /\ RepliesAreSent'
  BY <1>0, <1>3, ContactsStay, RepliesStay DEF pollNothing
<1>5. ReadingsArePast'
  BY ReadingsStay DEF InboxInv, InboxTyped, pollNothing
<1> QED
  BY <1>1, <1>2, <1>3, <1>4, <1>5 DEF InboxInv

\* A polled message: a row of its own, under the direction its platform tells.
LEMMA Polling ==
  ASSUME InboxInv, NEW m \in Message_, NEW platform, NEW contact, NEW direction \in {"inbound", "outbound"},
         Polled(m, platform), threads' = upsertThread(ThreadOfMessage(m), contact),
         rows' = storeMessage(Row(Native(m), ThreadOfMessage(m), direction, "dm", SentAt(m))),
         Sender(m) # Me \/ platform = "linkedin" => direction = "inbound",
         (Sender(m) = Me /\ direction = "inbound") => platform \in {"twitter", "linkedin"},
         contact = NoOne \/ (contact = Sender(m) /\ platform = "twitter" /\ direction = "inbound")
  PROVE InboxInv'
<1> DEFINE t == ThreadOfMessage(m)
<1>1. /\ InboxTyped /\ sent[m] \in Nat /\ now \in Nat /\ sent[m] <= now
      /\ UNCHANGED <<now, sent, lastRead, replies>> /\ PlatformOf[t] = platform
  BY DEF InboxInv, InboxTyped, Polled, SentIsPast
<1>2. t \in Threads
  <2>1. CASE m \in Written
    BY <2>1, OwnMessages
  <2>2. CASE m \in Replies
    BY <2>2, OwnMessages DEF InboxInv, RepliesAreSent, Polled, DmReply
  <2> QED
    BY <2>1, <2>2 DEF Message_
<1>3. Sender(m) \in {t, Me}
  BY DEF Sender
<1>4. PICK row : row = Row(Native(m), t, direction, "dm", SentAt(m))
  OBVIOUS
<1>5. row.pid = Native(m) /\ row.thread = t /\ row.direction = direction /\ row.sentAt = SentAt(m) /\ row.created = now
  BY <1>4 DEF Row
<1>6. row \in RowState
  BY <1>1, <1>2, <1>4, StampOfTime DEF Row, RowState, Pids, SentAt
<1>7. rows' = rows \cup {row} /\ ~Known(row.pid)
  BY <1>4, <1>5 DEF storeMessage, Polled
<1>8. InboxTyped'
  <2>1. threads' \in [Threads -> Threads \cup {Me, NoOne, NoThread}]
    BY <1>1, <1>2, <1>3 DEF InboxTyped, upsertThread
  <2>2. rows' \subseteq RowState
    BY <1>1, <1>6, <1>7 DEF InboxTyped
  <2> QED
    BY <1>1, <2>1, <2>2 DEF InboxTyped, DmReply, CommentReply
<1>9. RowsStay /\ SentIsPast'
  BY <1>1, NothingSent
<1>10. RowIsTrue(row)'
  <2>1. NativeIsTrue(row, m)'
    BY <1>1, <1>3, <1>5 DEF NativeIsTrue, Polled, ThreadOfMessage, Sender, SentAt
  <2>2. ASSUME NEW n \in Message_, row.pid = Native(n) PROVE n = m
    BY <1>5, <2>2, PidsDiffer
  <2>3. ASSUME NEW r \in Replies PROVE row.pid # Local(r)
    BY <1>5, PidsDiffer
  <2>4. row.created <= now'
    BY <1>1, <1>5
  <2> QED
    BY <2>1, <2>2, <2>3, <2>4 DEF RowIsTrue
<1>11. StoredOnce' /\ RowsAreTrue' /\ Carried
  BY <1>7, <1>8, <1>9, <1>10, RowAdded
<1>12. RepliesAreSent' /\ ReadingsArePast'
  BY <1>1, <1>11, RepliesStay, ReadingsStay
<1>13. ContactsAreKnown'
  <2>1. CASE contact = NoOne
    <3>1. \A u \in Threads : threads'[u] \in {threads[u], NoOne}
      BY <1>1, <2>1 DEF InboxTyped, upsertThread
    <3> QED
      BY <1>11, <3>1, ContactsStay
  <2>2. CASE contact = Sender(m) /\ platform = "twitter" /\ direction = "inbound"
    <3>1. contact # NoOne /\ threads' = [threads EXCEPT ![t] = contact]
      BY <1>2, <1>3, <2>2, InboxAssumption DEF upsertThread
    <3>2. contact = Me => Mistaken(m)'
      BY <1>1, <1>5, <1>7, <2>2 DEF Mistaken, Sender, ThreadOfMessage
    <3> SUFFICES ASSUME NEW u \in Threads
        PROVE threads'[u] \in {NoThread, NoOne, u, Me} /\ (threads'[u] = Me => \E n \in Message_ : Mistaken(n)')
      BY DEF ContactsAreKnown
    <3>3. CASE u = t
      BY <1>1, <1>2, <1>3, <2>2, <3>1, <3>2, <3>3, InboxAssumption DEF InboxTyped
    <3>4. CASE u # t
      <4>1. threads'[u] = threads[u]
        BY <1>1, <3>1, <3>4 DEF InboxTyped
      <4> QED
        BY <1>11, <4>1, MistakesStay DEF InboxInv, ContactsAreKnown
    <3> QED
      BY <3>3, <3>4
  <2> QED
    BY <2>1, <2>2
<1> QED
  BY <1>8, <1>9, <1>11, <1>12, <1>13 DEF InboxInv

LEMMA PollStep == ASSUME InboxInv, NEW m \in Message_, pollTwitterDm(m) \/ pollInstagram(m) \/ pollComments(m)
                  PROVE InboxInv'
<1>1. CASE pollTwitterDm(m)
  BY <1>1, Polling DEF pollTwitterDm
<1>2. CASE pollInstagram(m)
  <2> DEFINE direction == IF isOutbound(m) THEN "outbound" ELSE "inbound"
  <2>1. direction \in {"inbound", "outbound"} /\ (Sender(m) = Me <=> direction = "outbound")
    BY DEF isOutbound
  <2>2. /\ Polled(m, "instagram") /\ threads' = upsertThread(ThreadOfMessage(m), NoOne)
        /\ rows' = storeMessage(Row(Native(m), ThreadOfMessage(m), direction, "dm", SentAt(m)))
    BY <1>2 DEF pollInstagram
  <2> HIDE DEF direction
  <2> QED
    BY <2>1, <2>2, Polling
<1>3. CASE pollComments(m)
  BY <1>3, Polling DEF pollComments
<1> QED
  BY <1>1, <1>2, <1>3

LEMMA RefusedOnes ==
  ASSUME InboxInv, NEW t \in Threads, NEW draft, replyStatus(t, draft) = 0
  PROVE /\ threads[t] # NoThread
        /\ kindOf(t, draft) = "dm" => threads[t] # NoOne /\ PlatformOf[t] # "linkedin"
<1>1. kindOf(t, draft) = "dm" => limitsFor(PlatformOf[t]).dmSupported
  BY DEF replyStatus, validateReply
<1>2. PlatformOf[t] = "linkedin" => ~limitsFor(PlatformOf[t]).dmSupported
  BY DEF limitsFor, PLATFORM_LIMITS, Limits
<1> QED
  BY <1>1, <1>2 DEF replyStatus

\* What a step that moves one reply has to keep.
LEMMA OneReply ==
  ASSUME InboxInv, NEW r \in Replies, NEW reply, replies' = [replies EXCEPT ![r] = reply], ReplyStays(r),
         \A s \in Replies \ {r} : sent'[s] = sent[s], Carried,
         \A m \in Message_ : sent[m] # NoStamp => sent'[m] = sent[m], now' = now,
         sent'[r] # NoStamp => reply \in DmReply /\ reply.phase # "sending",
         reply.phase = "named" => sent'[r] # NoStamp,
         reply \in DmReply => /\ PlatformOf[reply.thread] # "linkedin"
                              /\ reply.recipient \in {reply.thread, Me}
                              /\ reply.recipient = Me => \E m \in Message_ : Mistaken(m)
  PROVE RowsStay /\ RepliesAreSent'
<1>1. replies'[r] = reply /\ \A s \in Replies \ {r} : replies'[s] = replies[s]
  BY DEF InboxInv, InboxTyped
<1>2. RowsStay
  <2>1. \A s \in Replies : ReplyStays(s)
    BY <1>1 DEF ReplyStays
  <2>2. now <= now'
    BY DEF InboxInv, InboxTyped
  <2> QED
    BY <2>1, <2>2 DEF RowsStay
<1>3. RepliesAreSent'
  <2> SUFFICES ASSUME NEW s \in Replies
      PROVE /\ sent'[s] # NoStamp => replies'[s] \in DmReply /\ replies'[s].phase # "sending"
            /\ replies'[s].phase = "named" => sent'[s] # NoStamp
            /\ replies'[s] \in DmReply =>
                 /\ PlatformOf[replies'[s].thread] # "linkedin"
                 /\ replies'[s].recipient \in {replies'[s].thread, Me}
                 /\ replies'[s].recipient = Me => \E m \in Message_ : Mistaken(m)'
    BY DEF RepliesAreSent, DmReply
  <2>1. CASE s = r
    BY <1>1, <2>1, MistakesStay
  <2>2. CASE s # r
    BY <1>1, <2>2, MistakesStay DEF InboxInv, RepliesAreSent
  <2> QED
    BY <2>1, <2>2
<1> QED
  BY <1>2, <1>3

LEMMA HandleStep == ASSUME InboxInv, NEW r \in Replies, NEW t \in Threads, NEW draft, handleReply(r, t, draft)
                    PROVE InboxInv'
<1> DEFINE reply == [phase |-> "sending", thread |-> t, recipient |-> threads[t]]
<1>1. /\ replies' = [replies EXCEPT ![r] = reply] /\ UNCHANGED <<now, sent, threads, rows, lastRead>>
      /\ threads[t] \notin {NoThread, NoOne} /\ PlatformOf[t] # "linkedin" /\ replies[r].phase = "new"
  BY RefusedOnes DEF handleReply
<1>2. reply \in DmReply /\ threads[t] \in {t, Me} /\ (threads[t] = Me => \E m \in Message_ : Mistaken(m))
  BY <1>1 DEF InboxInv, InboxTyped, ContactsAreKnown, DmReply
<1>3. sent[r] = NoStamp /\ ReplyStays(r)
  BY <1>1 DEF InboxInv, RepliesAreSent, ReplyStays, DmReply, CommentReply
<1>4. /\ reply.phase = "sending" /\ reply.thread = t /\ reply.recipient = threads[t]
  OBVIOUS
<1> HIDE DEF reply
<1>5. InboxTyped'
  BY <1>1, <1>2 DEF InboxInv, InboxTyped, RowState
<1>6. Carried
  BY <1>1 DEF Carried
<1>7. RowsStay /\ RepliesAreSent'
  BY <1>1, <1>2, <1>3, <1>4, <1>6, OneReply
<1>8. StoredOnce' /\ RowsAreTrue'
  BY <1>1, <1>5, <1>7, RowsSame
<1>9. ContactsAreKnown' /\ ReadingsArePast' /\ SentIsPast'
  BY <1>1, <1>6, ContactsStay, ReadingsStay DEF InboxInv, InboxTyped, SentIsPast
<1> QED
  BY <1>5, <1>7, <1>8, <1>9 DEF InboxInv

LEMMA CommentStep == ASSUME InboxInv, NEW r \in Replies, NEW t \in Threads, NEW draft, recordComment(r, t, draft)
                     PROVE InboxInv'
<1> DEFINE reply == [phase |-> "recorded", thread |-> t]
<1>1. PICK row : row = Row(Local(r), t, "outbound", "comment", Iso(now))
  OBVIOUS
<1>2. /\ replies' = [replies EXCEPT ![r] = reply] /\ UNCHANGED <<now, sent, threads, lastRead>>
      /\ rows' = storeMessage(row) /\ replies[r].phase = "new"
  BY <1>1 DEF recordComment
<1>3. now \in Nat /\ row \in RowState /\ row.pid = Local(r) /\ row.direction = "outbound" /\ row.created = now
  BY <1>1, StampOfTime DEF InboxInv, InboxTyped, Row, RowState, Pids
<1>4. reply \in CommentReply /\ reply \notin DmReply /\ reply.phase = "recorded"
  BY DEF CommentReply, DmReply
<1>5. sent[r] = NoStamp /\ ReplyStays(r)
  BY <1>2 DEF InboxInv, RepliesAreSent, ReplyStays, DmReply, CommentReply
<1> HIDE DEF reply
<1>6. ~Known(row.pid)
  BY <1>2, <1>3 DEF Known, InboxInv, RowsAreTrue, RowIsTrue, LocalIsTrue, CommentReply
<1>7. rows' = rows \cup {row}
  BY <1>2, <1>6 DEF storeMessage
<1>8. InboxTyped'
  BY <1>2, <1>3, <1>4, <1>7 DEF InboxInv, InboxTyped
<1>9. Carried
  BY <1>7 DEF Carried
<1>10. RowsStay /\ RepliesAreSent'
  BY <1>2, <1>4, <1>5, <1>9, OneReply
<1>11. RowIsTrue(row)'
  <2>1. LocalIsTrue(row, r)'
    BY <1>2, <1>3, <1>4 DEF LocalIsTrue, InboxInv, InboxTyped
  <2> QED
    BY <1>2, <1>3, <2>1, PidsDiffer DEF RowIsTrue
<1>12. StoredOnce' /\ RowsAreTrue'
  BY <1>6, <1>7, <1>8, <1>10, <1>11, RowAdded
<1>13. ContactsAreKnown' /\ ReadingsArePast' /\ SentIsPast'
  BY <1>2, <1>3, <1>9, ContactsStay, ReadingsStay DEF InboxInv, SentIsPast
<1> QED
  BY <1>8, <1>10, <1>12, <1>13 DEF InboxInv

LEMMA SendStep == ASSUME InboxInv, NEW r \in Replies, sendDm(r) \/ sendDmRefused(r) PROVE InboxInv'
<1>1. PICK answer \in {"named", "unnamed", "failed"} :
        /\ Move(r, answer) /\ At(r, "sending") /\ UNCHANGED <<now, threads, rows, lastRead>>
        /\ \/ sent' = [sent EXCEPT ![r] = now]
           \/ sent' = sent /\ answer = "failed"
  BY DEF sendDm, sendDmRefused
<1>2. replies[r] \in DmReply /\ replies[r].phase = "sending" /\ now \in Nat /\ r \in Message_
  BY <1>1 DEF At, InboxInv, InboxTyped, CommentReply, Message_
<1> DEFINE reply == [replies[r] EXCEPT !.phase = answer]
<1>3. replies' = [replies EXCEPT ![r] = reply]
  BY <1>1 DEF Move
<1>4. reply \in DmReply /\ reply.phase = answer /\ reply.thread = replies[r].thread
      /\ reply.recipient = replies[r].recipient
  BY <1>2 DEF DmReply
<1> HIDE DEF reply
<1>5. sent[r] = NoStamp /\ sent' \in [Message_ -> Nat \cup {NoStamp}]
      /\ (\A m \in Message_ : sent[m] # NoStamp => sent'[m] = sent[m])
      /\ (\A s \in Replies \ {r} : sent'[s] = sent[s])
      /\ (answer = "named" => sent'[r] # NoStamp)
  BY <1>1, <1>2, InboxAssumption DEF InboxInv, InboxTyped, RepliesAreSent, Message_
<1>6. InboxTyped'
  BY <1>1, <1>3, <1>4, <1>5 DEF InboxInv, InboxTyped, RowState
<1>7. Carried
  BY <1>1 DEF Carried
<1>8. ReplyStays(r)
  BY <1>2, <1>3, <1>4 DEF ReplyStays, CommentReply, InboxInv, InboxTyped
<1>9. RowsStay /\ RepliesAreSent'
  <2>1. /\ PlatformOf[reply.thread] # "linkedin" /\ reply.recipient \in {reply.thread, Me}
        /\ reply.recipient = Me => \E m \in Message_ : Mistaken(m)
    BY <1>2, <1>4 DEF InboxInv, RepliesAreSent
  <2> QED
    BY <1>1, <1>3, <1>4, <1>5, <1>7, <1>8, <2>1, OneReply
<1>10. StoredOnce' /\ RowsAreTrue'
  BY <1>1, <1>6, <1>9, RowsSame
<1>11. ContactsAreKnown' /\ ReadingsArePast'
  BY <1>1, <1>2, <1>7, ContactsStay, ReadingsStay
<1>12. SentIsPast'
  BY <1>1, <1>2 DEF InboxInv, InboxTyped, SentIsPast
<1> QED
  BY <1>6, <1>9, <1>10, <1>11, <1>12 DEF InboxInv

\* A reply is recorded in a row of its own, or over the row its own poll made.
LEMMA RecordStep == ASSUME InboxInv, NEW r \in Replies, recordDm(r) PROVE InboxInv'
<1> DEFINE phase == IF At(r, "named") THEN "recorded" ELSE "recordedUnnamed"
           reply == [replies[r] EXCEPT !.phase = phase]
           t == replies[r].thread
<1>1. /\ replies[r] \in DmReply /\ replies[r].phase \in {"named", "unnamed"} /\ now \in Nat /\ r \in Message_
      /\ t \in Threads /\ PlatformOf[t] # "linkedin" /\ UNCHANGED <<now, sent, threads, lastRead>>
      /\ r \notin Written /\ ThreadOfMessage(r) = t /\ Sender(r) = Me
  BY OwnMessages DEF recordDm, InboxInv, InboxTyped, CommentReply, DmReply, RepliesAreSent, Message_
<1>2. PICK row : row = Row(messageId(r), t, "outbound", "dm", Iso(now))
  OBVIOUS
<1>3. rows' = storeMessage(row) /\ replies' = [replies EXCEPT ![r] = reply]
  BY <1>2 DEF recordDm, Move
<1>4. reply \in DmReply /\ reply.phase = phase /\ reply.thread = t /\ reply.recipient = replies[r].recipient
  BY <1>1 DEF DmReply
<1>5. /\ phase \in {"recorded", "recordedUnnamed"}
      /\ phase = "recordedUnnamed" <=> replies[r].phase = "unnamed"
  BY <1>1 DEF At
<1> HIDE DEF reply, phase
<1>6. /\ row \in RowState /\ row.direction = "outbound" /\ row.created = now /\ row.thread = t
      /\ row.sentAt = Iso(now) /\ row.sentAt # NoStamp
      /\ row.pid = IF replies[r].phase = "named" THEN Native(r) ELSE Local(r)
  BY <1>1, <1>2, StampOfTime DEF Row, RowState, Pids, messageId, At
<1>7. ReplyStays(r) /\ replies'[r] = reply
  BY <1>1, <1>3, <1>4 DEF ReplyStays, CommentReply, InboxInv, InboxTyped
<1>8. replies' \in [Replies -> [phase : {"new"}] \cup DmReply \cup CommentReply]
  BY <1>3, <1>4 DEF InboxInv, InboxTyped
<1>9. /\ sent[r] # NoStamp => reply.phase # "sending"
      /\ reply.phase # "named" /\ PlatformOf[reply.thread] # "linkedin" /\ reply.recipient \in {reply.thread, Me}
      /\ reply.recipient = Me => \E m \in Message_ : Mistaken(m)
  BY <1>1, <1>4, <1>5 DEF InboxInv, RepliesAreSent
<1>10. SentIsPast' /\ ReadingsArePast'
  BY <1>1, ReadingsStay DEF InboxInv, SentIsPast
\* Of every way rows may change, what remains to be shown.
<1>11. SUFFICES Carried /\ rows' \subseteq RowState /\ (RowsStay /\ InboxTyped' => StoredOnce' /\ RowsAreTrue')
  <2>1. RowsStay /\ RepliesAreSent'
    BY <1>1, <1>3, <1>4, <1>7, <1>9, <1>11, OneReply
  <2>2. InboxTyped'
    BY <1>1, <1>8, <1>11 DEF InboxInv, InboxTyped
  <2>3. ContactsAreKnown'
    BY <1>1, <1>11, ContactsStay
  <2> QED
    BY <1>10, <1>11, <2>1, <2>2, <2>3 DEF InboxInv
<1>12. CASE ~Known(row.pid)
  <2>1. rows' = rows \cup {row}
    BY <1>3, <1>12 DEF storeMessage
  <2>2. Carried /\ rows' \subseteq RowState
    BY <1>6, <2>1 DEF Carried, InboxInv, InboxTyped
  <2>3. RowIsTrue(row)'
    <3>1. CASE replies[r].phase = "named"
      <4>1. sent'[r] # NoStamp /\ ThreadOfMessage(r)' = t /\ row.pid = Native(r)
        BY <1>1, <1>4, <1>6, <1>7, <3>1 DEF InboxInv, RepliesAreSent, ThreadOfMessage
      <4>2. NativeIsTrue(row, r)'
        BY <1>1, <1>6, <4>1, InboxAssumption DEF NativeIsTrue, Sender
      <4> QED
        BY <1>1, <1>6, <4>1, <4>2, PidsDiffer DEF RowIsTrue
    <3>2. CASE replies[r].phase = "unnamed"
      <4>1. LocalIsTrue(row, r)' /\ row.pid = Local(r)
        BY <1>4, <1>5, <1>6, <1>7, <3>2 DEF LocalIsTrue
      <4> QED
        BY <1>1, <1>6, <4>1, PidsDiffer DEF RowIsTrue
    <3> QED
      BY <1>1, <3>1, <3>2
  <2> QED
    BY <1>12, <2>1, <2>2, <2>3, RowAdded
<1>13. CASE Known(row.pid)
  <2>1. PICK old \in rows : old.pid = row.pid
    BY <1>13 DEF Known
  <2>2. RowIsTrue(old) /\ old \in RowState
    BY <2>1 DEF InboxInv, InboxTyped, RowsAreTrue
  <2>3. replies[r].phase = "named" /\ row.pid = Native(r) /\ NativeIsTrue(old, r)
    <3>1. replies[r].phase # "unnamed"
      BY <1>1, <1>6, <2>1, <2>2 DEF RowIsTrue, LocalIsTrue, DmReply, CommentReply
    <3> QED
      BY <1>1, <1>6, <2>1, <2>2, <3>1 DEF RowIsTrue
  <2>4. PICK new : new = [row EXCEPT !.direction = old.direction, !.created = old.created,
                                     !.sentAt = IF @ = NoStamp THEN old.sentAt ELSE @]
    OBVIOUS
  <2>5. /\ new \in RowState /\ new.pid = row.pid /\ new.thread = t /\ new.direction = old.direction
        /\ new.created = old.created /\ old.thread = t
    BY <1>1, <1>6, <2>2, <2>3, <2>4 DEF RowState, NativeIsTrue
  <2>6. rows' = (rows \ {old}) \cup {new}
    <3>1. rows' = {IF one.pid # row.pid THEN one
                   ELSE [row EXCEPT !.direction = one.direction, !.created = one.created,
                                    !.sentAt = IF @ = NoStamp THEN one.sentAt ELSE @] : one \in rows}
      BY <1>3, <1>13 DEF storeMessage
    <3>2. \A one \in rows : one.pid = row.pid <=> one = old
      BY <2>1 DEF InboxInv, StoredOnce
    <3> QED
      BY <2>1, <2>4, <3>1, <3>2
  <2>7. Carried /\ rows' \subseteq RowState
    BY <2>1, <2>5, <2>6 DEF Carried, InboxInv, InboxTyped
  <2>8. StoredOnce'
    BY <2>1, <2>5, <2>6 DEF InboxInv, StoredOnce
  <2>9. RowIsTrue(new)'
    <3>1. sent'[r] # NoStamp /\ ThreadOfMessage(r)' = t /\ Sender(r)' = Me
      BY <1>1, <1>4, <1>7, <2>3 DEF InboxInv, RepliesAreSent, ThreadOfMessage, Sender
    <3>2. NativeIsTrue(new, r)'
      BY <1>1, <2>3, <2>5, <3>1 DEF NativeIsTrue
    <3> QED
      BY <1>1, <2>2, <2>3, <2>5, <3>2, PidsDiffer DEF RowIsTrue
  <2>10. ASSUME RowsStay, InboxTyped' PROVE RowsAreTrue'
    BY <2>6, <2>9, <2>10, RowStays DEF RowsAreTrue
  <2> QED
    BY <2>7, <2>8, <2>10
<1> QED
  BY <1>12, <1>13

\* The inductive invariant of the inbox: whichever order polls, deliveries, receipts,
\* replies and merges come in, rows, stamps and the reader's marks stay in step.
THEOREM InboxIsInductive == InboxSpec => []InboxInv
<1>1. ASSUME InboxInv, [InboxNext]_inboxVars PROVE InboxInv'
  <2>1. CASE UNCHANGED inboxVars
    <3>1. InboxTyped' /\ SentIsPast'
      BY <1>1, <2>1 DEF inboxVars, InboxInv, InboxTyped, SentIsPast
    <3>2. RowsStay /\ Carried /\ StoredOnce' /\ RowsAreTrue'
      BY <1>1, <2>1, <3>1, NothingSent, RowsSame DEF inboxVars, InboxInv, InboxTyped
    <3> QED
      BY <1>1, <2>1, <3>1, <3>2, ContactsStay, RepliesStay, ReadingsStay DEF inboxVars, InboxInv, InboxTyped
  <2>2. CASE Tick
    BY <1>1, <2>2, TickStep
  <2>3. CASE \E m \in Written : write(m)
    BY <1>1, <2>3, WriteStep
  <2>4. CASE \E m \in Written \cup Replies : pollTwitterDm(m) \/ pollInstagram(m) \/ pollComments(m)
    BY <1>1, <2>4, PollStep DEF Message_
  <2>5. CASE \E t \in Threads : pollNothing(t)
    BY <1>1, <2>5, PollingNothing
  <2>6. CASE \E t \in Opened : markRead(t)
    BY <1>1, <2>6, ReadStep
  <2>7. CASE \E r \in Replies, t \in Threads, draft \in Drafts : handleReply(r, t, draft) \/ recordComment(r, t, draft)
    BY <1>1, <2>7, HandleStep, CommentStep
  <2>8. CASE \E r \in Replies : sendDm(r) \/ sendDmRefused(r) \/ recordDm(r)
    BY <1>1, <2>8, SendStep, RecordStep
  <2> QED
    BY <1>1, <2>1, <2>2, <2>3, <2>4, <2>5, <2>6, <2>7, <2>8 DEF InboxNext
<1> QED
  BY <1>1, InboxStart, PTL DEF InboxSpec

LEMMA StampsCompare ==
  ASSUME NEW a \in Nat, NEW k \in Nat
  PROVE /\ Later(Iso(a), Iso(k)) <=> a > k
        /\ Later(Sql(a), Iso(k)) <=> a \div DayLength > k \div DayLength
        /\ a \div DayLength > k \div DayLength => a > k
        /\ Iso(k)[1] * DayLength + Iso(k)[3] = k /\ Iso(k)[1] = k \div DayLength
<1>1. /\ a \div DayLength \in Int /\ a % DayLength \in 0 .. DayLength - 1
      /\ a % DayLength = a - DayLength * (a \div DayLength)
      /\ k \div DayLength \in Int /\ k % DayLength \in 0 .. DayLength - 1
      /\ k % DayLength = k - DayLength * (k \div DayLength)
  <2>1. DayLength \in Nat \ {0}
    BY InboxAssumption
  <2> QED
    BY <2>1, Division
<1>2. PICK p \in Int, x \in Nat : /\ p = a \div DayLength /\ x = a % DayLength
                                  /\ x = a - DayLength * p /\ x < DayLength
  BY <1>1, InboxAssumption
<1>3. PICK q \in Int, y \in Nat : /\ q = k \div DayLength /\ y = k % DayLength
                                  /\ y = k - DayLength * q /\ y < DayLength
  BY <1>1, InboxAssumption
<1>4. p > q => DayLength * p >= DayLength * q + DayLength
  <2> SUFFICES ASSUME p >= q + 1 PROVE DayLength * p >= DayLength * (q + 1)
    BY InboxAssumption
  <2> QED
    BY InboxAssumption
<1>5. q > p => DayLength * q >= DayLength * p + DayLength
  <2> SUFFICES ASSUME q >= p + 1 PROVE DayLength * q >= DayLength * (p + 1)
    BY InboxAssumption
  <2> QED
    BY InboxAssumption
<1>6. a > k <=> (p > q \/ (p = q /\ x > y))
  BY <1>2, <1>3, <1>4, <1>5, InboxAssumption
<1>7. Iso(a) = <<p, 1, x>> /\ Sql(a) = <<p, 0, x>> /\ Iso(k) = <<q, 1, y>>
  BY <1>2, <1>3 DEF Iso, Sql
<1>8. ASSUME NEW f \in {0, 1} PROVE Later(<<p, f, x>>, <<q, 1, y>>) <=> (p > q \/ (p = q /\ f = 1 /\ x > y))
  <2>1. ASSUME NEW n \in 1 .. 3 PROVE n = 1 \/ n = 2 \/ n = 3
    OBVIOUS
  <2>2. 1 .. 0 = {} /\ 1 .. 1 = {1} /\ 1 .. 2 = {1, 2}
    OBVIOUS
  <2>3. ASSUME Later(<<p, f, x>>, <<q, 1, y>>) PROVE p > q \/ (p = q /\ f = 1 /\ x > y)
    <3>1. PICK n \in 1 .. 3 : /\ <<p, f, x>>[n] > <<q, 1, y>>[n]
                              /\ \A i \in 1 .. n - 1 : <<p, f, x>>[i] = <<q, 1, y>>[i]
      BY <2>3 DEF Later
    <3> QED
      BY <3>1
  <2>4. ASSUME p > q PROVE Later(<<p, f, x>>, <<q, 1, y>>)
    <3>1. 1 \in 1 .. 3 /\ <<p, f, x>>[1] > <<q, 1, y>>[1] /\ \A i \in 1 .. 1 - 1 : <<p, f, x>>[i] = <<q, 1, y>>[i]
      BY <2>4
    <3> QED
      BY <3>1 DEF Later
  <2>5. ASSUME p = q, f = 1, x > y PROVE Later(<<p, f, x>>, <<q, 1, y>>)
    <3>1. 3 \in 1 .. 3 /\ <<p, f, x>>[3] > <<q, 1, y>>[3] /\ \A i \in 1 .. 3 - 1 : <<p, f, x>>[i] = <<q, 1, y>>[i]
      BY <2>5
    <3> QED
      BY <3>1 DEF Later
  <2> QED
    BY <2>3, <2>4, <2>5
<1>9. Later(Iso(a), Iso(k)) <=> a > k
  BY <1>6, <1>7, <1>8
<1>10. Later(Sql(a), Iso(k)) <=> a \div DayLength > k \div DayLength
  BY <1>2, <1>3, <1>7, <1>8
<1>11. Iso(k)[1] * DayLength + Iso(k)[3] = k /\ Iso(k)[1] = k \div DayLength
  BY <1>3, <1>7, InboxAssumption
<1> QED
  BY <1>2, <1>3, <1>6, <1>9, <1>10, <1>11

LEMMA RowsOfMessages ==
  ASSUME InboxInv, NEW row \in rows
  PROVE \/ \E m \in Message_ : row.pid = Native(m) /\ NativeIsTrue(row, m)
        \/ \E r \in Replies : row.pid = Local(r) /\ LocalIsTrue(row, r)
  BY DEF InboxInv, InboxTyped, RowState, Pids, RowsAreTrue, RowIsTrue

LEMMA StoredUnderOneId ==
  ASSUME InboxInv, NEW m \in Message_, ~(m \in Replies /\ At(m, "recordedUnnamed")), NEW a \in About(m), NEW b \in About(m)
  PROVE a = b
<1>1. /\ a \in rows /\ b \in rows
      /\ (a.pid = Native(m) \/ a.pid = Local(m)) /\ (b.pid = Native(m) \/ b.pid = Local(m))
  BY DEF About
<1>2. ASSUME NEW x \in rows, NEW y \in rows, x.pid = Native(m), y.pid = Local(m) PROVE FALSE
  <2>1. m \in Replies /\ LocalIsTrue(y, m)
    BY <1>2, RowsOfMessages, PidsDiffer
  <2>2. NativeIsTrue(x, m)
    BY <1>2, RowsOfMessages, PidsDiffer
  <2> QED
    BY <2>1, <2>2 DEF LocalIsTrue, NativeIsTrue, At, InboxInv, RepliesAreSent, DmReply, CommentReply
<1> QED
  BY <1>1, <1>2 DEF InboxInv, StoredOnce

LEMMA OnceInvariant == ASSUME InboxInv PROVE EachMessageOnce
<1>1. ASSUME NEW m \in Message_, Cardinality(About(m)) > 1 PROVE m \in Replies /\ At(m, "recordedUnnamed")
  <2> SUFFICES ASSUME ~(m \in Replies /\ At(m, "recordedUnnamed")) PROVE FALSE
    OBVIOUS
  <2>1. CASE About(m) = {}
    BY <1>1, <2>1, FS_EmptySet
  <2>2. CASE About(m) # {}
    <3>1. PICK a : About(m) = {a}
      BY <2>2, StoredUnderOneId
    <3>2. Cardinality({a}) = 1
      BY FS_Singleton
    <3> QED
      BY <1>1, <3>1, <3>2
  <2> QED
    BY <2>1, <2>2
<1>2. ASSUME NEW row \in rows
      PROVE row.direction = IF \E m \in Message_ :
              row.pid = Native(m) /\ (Sender(m) # Me \/ Mistaken(m) \/ PlatformOf[row.thread] = "linkedin")
            THEN "inbound" ELSE "outbound"
  <2>1. row.direction \in {"inbound", "outbound"}
    BY DEF InboxInv, InboxTyped, RowState
  <2>2. ASSUME NEW n \in Message_, row.pid = Native(n), NativeIsTrue(row, n)
        PROVE row.direction = "inbound" <=> Sender(n) # Me \/ Mistaken(n) \/ PlatformOf[row.thread] = "linkedin"
    <3>1. Mistaken(n) => row.direction = "inbound"
      BY <2>2 DEF Mistaken, InboxInv, StoredOnce
    <3>2. ASSUME Sender(n) = Me, row.direction = "inbound", PlatformOf[row.thread] # "linkedin" PROVE Mistaken(n)
      BY <2>2, <3>2 DEF Mistaken, NativeIsTrue
    <3> QED
      BY <2>2, <3>1, <3>2 DEF NativeIsTrue
  <2>3. CASE \E n \in Message_ : row.pid = Native(n) /\ NativeIsTrue(row, n)
    BY <2>1, <2>2, <2>3, PidsDiffer
  <2>4. CASE \E r \in Replies : row.pid = Local(r) /\ LocalIsTrue(row, r)
    BY <2>4, PidsDiffer DEF LocalIsTrue
  <2> QED
    BY <2>3, <2>4, RowsOfMessages
<1>3. ASSUME NEW r \in Replies, "recipient" \in DOMAIN replies[r], replies[r].recipient # replies[r].thread
      PROVE replies[r].recipient = Me /\ \E m \in Message_ : Mistaken(m)
  <2>1. replies[r] \in DmReply
    BY <1>3 DEF InboxInv, InboxTyped, CommentReply
  <2> QED
    BY <1>3, <2>1 DEF InboxInv, RepliesAreSent
<1> QED
  BY <1>1, <1>2, <1>3 DEF EachMessageOnce, Message_

LEMMA UnreadInvariant == ASSUME InboxInv PROVE UnreadIsNew
<1> SUFFICES ASSUME NEW t \in Threads, \A r \in Replies : Mistaken(r) => replies[r].thread # t
    PROVE LET inbound == {row \in rows : row.thread = t /\ row.direction = "inbound"}
              new == {row \in inbound : /\ row.created > ReadTime(t)
                                        /\ IF row.sentAt = NoStamp THEN row.created \div DayLength > lastRead[t][1]
                                           ELSE sent[row.pid[2]] > ReadTime(t)}
          IN  unreadCount(t) = Cardinality(IF lastRead[t] = NoStamp THEN inbound ELSE new)
  BY DEF UnreadIsNew
<1> DEFINE inbound == {row \in rows : row.thread = t /\ row.direction = "inbound"}
           new == {row \in inbound : /\ row.created > ReadTime(t)
                                     /\ IF row.sentAt = NoStamp THEN row.created \div DayLength > lastRead[t][1]
                                        ELSE sent[row.pid[2]] > ReadTime(t)}
           unread == {row \in rows : /\ row.thread = t /\ row.direction = "inbound"
                                     /\ lastRead[t] = NoStamp \/ Later(stampOf(row), lastRead[t])}
<1>1. unreadCount(t) = Cardinality(unread)
  BY DEF unreadCount, Unread
<1>2. CASE lastRead[t] = NoStamp
  <2>1. unread = inbound
    BY <1>2
  <2> QED
    BY <1>1, <1>2, <2>1
<1>3. CASE lastRead[t] # NoStamp
  <2>1. PICK k \in 0 .. now : lastRead[t] = Iso(k)
    BY <1>3 DEF InboxInv, ReadingsArePast
  <2>2. k \in Nat /\ ReadTime(t) = k /\ lastRead[t][1] = k \div DayLength
    BY <2>1, StampsCompare DEF ReadTime, InboxInv, InboxTyped
  <2>3. ASSUME NEW row \in inbound PROVE row \in unread <=> row \in new
    <3>1. row \in rows /\ row \in RowState /\ row.thread = t /\ row.direction = "inbound" /\ row.created \in Nat
      BY DEF InboxInv, InboxTyped, RowState
    <3>2. PICK m \in Message_ : row.pid = Native(m) /\ NativeIsTrue(row, m)
      BY <3>1, RowsOfMessages DEF LocalIsTrue
    <3>3. m \in Written
      <4> SUFFICES ASSUME m \in Replies PROVE FALSE
        BY DEF Message_
      <4>1. Sender(m) = Me /\ replies[m] \in DmReply /\ replies[m].thread = t /\ PlatformOf[t] = "twitter"
        BY <3>1, <3>2, OwnMessages DEF NativeIsTrue, InboxInv, RepliesAreSent
      <4>2. Mistaken(m)
        BY <3>1, <3>2, <4>1 DEF Mistaken
      <4> QED
        BY <4>1, <4>2
    <3>4. row.sentAt = SentAt(m) /\ sent[m] \in Nat /\ sent[m] <= row.created /\ row.pid[2] = m
      BY <3>2, <3>3 DEF NativeIsTrue, InboxInv, InboxTyped, Native
    <3>5. row \in unread <=> Later(stampOf(row), Iso(k))
      BY <1>3, <2>1, <3>1
    <3>6. row \in new <=> /\ row.created > k
                          /\ IF row.sentAt = NoStamp THEN row.created \div DayLength > k \div DayLength ELSE sent[m] > k
      BY <2>2, <3>4
    <3>7. CASE m \in Undated
      <4>1. row.sentAt = NoStamp /\ stampOf(row) = Sql(row.created)
        BY <3>4, <3>7 DEF SentAt, stampOf
      <4> QED
        BY <2>2, <3>1, <3>5, <3>6, <4>1, StampsCompare
    <3>8. CASE m \notin Undated
      <4>1. row.sentAt # NoStamp /\ stampOf(row) = Iso(sent[m])
        BY <3>4, <3>8, StampOfTime DEF SentAt, stampOf
      <4>2. Later(stampOf(row), Iso(k)) <=> sent[m] > k
        BY <2>2, <3>4, <4>1, StampsCompare
      <4> QED
        BY <2>2, <3>1, <3>4, <3>5, <3>6, <4>1, <4>2
    <3> QED
      BY <3>7, <3>8
  <2>4. unread = new
    <3>1. unread \subseteq inbound /\ new \subseteq inbound
      OBVIOUS
    <3> QED
      BY <2>3, <3>1
  <2> QED
    BY <1>1, <1>3, <2>4
<1> QED
  BY <1>2, <1>3

\* For any threads, messages and replies: no message has two rows or is counted twice
\* as unread, however late the platform names it.
THEOREM MessagesAlwaysCountOnce == InboxSpec => []MessagesAreCountedOnce
<1>1. InboxInv => MessagesAreCountedOnce
  BY OnceInvariant, UnreadInvariant DEF MessagesAreCountedOnce
<1> QED
  BY <1>1, InboxIsInductive, PTL

\* The browser's table is the server's.
LEMMA TablesAgree == CLIENT_LIMITS = PLATFORM_LIMITS
  BY DEF CLIENT_LIMITS, PLATFORM_LIMITS

LEMMA ComposerInvariant == ComposerAgrees
<1> SUFFICES ASSUME NEW t \in Threads, NEW draft \in Drafts,
             draft.kind = "dm" => limitsFor(PlatformOf[t]).dmSupported,
             draft.media = 0, canSend(PlatformOf[t], kindOf(t, draft), draft), replyStatus(t, draft) = 422
    PROVE kindOf(t, draft) = "dm" /\ (threads[t] = NoOne \/ ~supports(PlatformOf[t]))
  BY DEF ComposerAgrees
<1> DEFINE kind == kindOf(t, draft)
           limits == limitsFor(PlatformOf[t])
<1>1. draft.length > 0 /\ draft.length <= limits[kind]
  BY TablesAgree DEF canSend, limitsFor
<1>2. kind = "dm" => limits.dmSupported
  BY DEF kindOf
<1>3. limits.maxMedia \in {0, 1, 4}
  BY DEF limitsFor, PLATFORM_LIMITS, DEFAULT_LIMITS, Limits
<1>4. validateReply(PlatformOf[t], kind, draft)
  BY <1>1, <1>2, <1>3 DEF validateReply
<1> QED
  BY <1>4 DEF replyStatus

\* What the composer lets a user send is refused for want of a recipient or a sender
\* only, for any threads and drafts.
THEOREM ComposerAlwaysAgrees == InboxSpec => []ComposerAgrees
  BY ComposerInvariant, PTL

-----------------------------------------------------------------------------
\* Rules

Ranks == ToSet(PRIORITIES)
ActionsOf == {input.actions : input \in RuleInputs}

IsRule(r) ==
  /\ r # NoRule /\ r.id \in RuleIds /\ r.enabled \in BOOLEAN /\ r.sortOrder \in Int
  /\ wellFormed([named |-> TRUE, condition |-> r.condition, actions |-> r.actions])
  /\ r.actions \in ActionsOf /\ r.actions.priority \in Ranks \cup {NoPriority} /\ r.actions.flag \in BOOLEAN

Firing == [ruleId : 0 .. MaxRules, message : Incoming, actions : ActionsOf]
ThreadRow == [priority : Ranks, flagged : BOOLEAN]

RulesInv ==
  /\ inboxRules = [i \in RuleIds |-> inboxRules[i]]
  /\ \A i \in RuleIds : exists(i) => IsRule(inboxRules[i]) /\ inboxRules[i].id = i
  /\ lastRuleId \in Nat
  /\ firings \in Seq(Firing)
  /\ threadState \in [RuleThreads -> ThreadRow \cup {NoRule}]

LEMMA RankNames == Ranks = {"low", "normal", "high", "urgent"} /\ NoPriority \notin Ranks
  BY DEF Ranks, ToSet, PRIORITIES, NoPriority

LEMMA RankNumbers ==
  /\ priorityRank("low") = 1 /\ priorityRank("normal") = 2
  /\ priorityRank("high") = 3 /\ priorityRank("urgent") = 4
<1>1. DOMAIN PRIORITIES = {1, 2, 3, 4} /\ PRIORITIES[1] = "low" /\ PRIORITIES[2] = "normal"
      /\ PRIORITIES[3] = "high" /\ PRIORITIES[4] = "urgent"
  BY DEF PRIORITIES
<1>2. ASSUME NEW p, NEW k \in {1, 2, 3, 4}, PRIORITIES[k] = p, \A n \in {1, 2, 3, 4} : PRIORITIES[n] = p => n = k
      PROVE  priorityRank(p) = k
  BY <1>1, <1>2 DEF priorityRank
<1> QED
  BY <1>1, <1>2

-----------------------------------------------------------------------------
(* An order that is total on a finite set enumerates it.                    *)

LEMMA Enumerates ==
  ASSUME NEW S, IsFiniteSet(S), NEW R,
         \A x \in S : <<x, x>> \notin R,
         \A x, y, z \in S : <<x, y>> \in R /\ <<y, z>> \in R => <<x, z>> \in R,
         \A x, y \in S : x # y => <<x, y>> \in R \/ <<y, x>> \in R
  PROVE  \E s \in [1 .. Cardinality(S) -> S] : \A m, n \in 1 .. Cardinality(S) : m < n => <<s[m], s[n]>> \in R
<1> DEFINE Under(x) == {y \in S : <<y, x>> \in R}
<1>1. PICK c : c = Cardinality(S)
  OBVIOUS
<1>2. c \in Nat /\ IsFiniteSet(1 .. c) /\ Cardinality(1 .. c) = c
  BY <1>1, FS_CardinalityType, FS_Interval
<1>3. ASSUME NEW x \in S
      PROVE  IsFiniteSet(Under(x)) /\ Cardinality(Under(x)) \in Nat /\ Cardinality(Under(x)) < c
  <2>1. Under(x) \in SUBSET S /\ Under(x) # S
    OBVIOUS
  <2> HIDE DEF Under
  <2> QED
    BY <1>1, <1>2, <2>1, FS_Subset, FS_CardinalityType
<1>4. ASSUME NEW x \in S, NEW y \in S, <<x, y>> \in R PROVE Cardinality(Under(x)) < Cardinality(Under(y))
  <2>1. Under(x) \in SUBSET Under(y) /\ x \in Under(y) /\ x \notin Under(x)
    BY <1>4
  <2> HIDE DEF Under
  <2> QED
    BY <1>3, <2>1, FS_Subset
<1>5. PICK rank : rank = [x \in S |-> Cardinality(Under(x)) + 1]
  OBVIOUS
<1> HIDE DEF Under
<1>6. rank \in [S -> 1 .. c]
  BY <1>2, <1>3, <1>5
<1>7. \A x, y \in S : <<x, y>> \in R => rank[x] < rank[y]
  BY <1>3, <1>4, <1>5
<1>8. \A x, y \in S : rank[x] = rank[y] => x = y
  <2> SUFFICES ASSUME NEW x \in S, NEW y \in S, rank[x] = rank[y], x # y PROVE FALSE
    OBVIOUS
  <2>1. rank[x] \in 1 .. c /\ rank[y] \in 1 .. c
    BY <1>6
  <2>2. <<x, y>> \in R \/ <<y, x>> \in R
    OBVIOUS
  <2>3. rank[x] < rank[y] \/ rank[y] < rank[x]
    BY <1>7, <2>2
  <2> QED
    BY <1>2, <2>1, <2>3
<1>9. rank \in Injection(S, 1 .. c)
  BY <1>6, <1>8 DEF Injection, IsInjective
<1>10. rank \in Surjection(S, 1 .. c)
  BY <1>1, <1>2, <1>9, FS_Injection
<1>11. \A n \in 1 .. c : \E x \in S : rank[x] = n
  BY <1>10 DEF Surjection
<1>12. PICK s : s = [n \in 1 .. c |-> CHOOSE x \in S : rank[x] = n]
  OBVIOUS
<1>13. \A n \in 1 .. c : s[n] \in S /\ rank[s[n]] = n
  BY <1>11, <1>12
<1>14. ASSUME NEW m \in 1 .. c, NEW n \in 1 .. c, m < n PROVE <<s[m], s[n]>> \in R
  <2>1. s[m] # s[n] /\ ~ (rank[s[n]] < rank[s[m]])
    BY <1>13, <1>14
  <2> QED
    BY <1>7, <1>13, <2>1
<1>15. s \in [1 .. c -> S]
  BY <1>12, <1>13
<1> QED
  BY <1>1, <1>14, <1>15

-----------------------------------------------------------------------------
(* What list() lists.                                                       *)

Rows(all) == {r \in {inboxRules[i] : i \in {j \in RuleIds : exists(j)}} : all \/ r.enabled}
InOrder(kept) == {p \in kept \X kept : \/ p[1].sortOrder < p[2].sortOrder
                                       \/ (p[1].sortOrder = p[2].sortOrder /\ p[1].id < p[2].id)}

LEMMA RowsAreRules ==
  ASSUME RulesInv, NEW all \in BOOLEAN
  PROVE  /\ IsFiniteSet(Rows(all))
         /\ \A r \in Rows(all) : IsRule(r) /\ r.id \in RuleIds /\ exists(r.id) /\ inboxRules[r.id] = r
<1>1. IsFiniteSet(RuleIds)
  BY InboxRulesAssumption, FS_Interval DEF RuleIds
<1>2. IsFiniteSet({inboxRules[i] : i \in {j \in RuleIds : exists(j)}})
  <2>1. IsFiniteSet({j \in RuleIds : exists(j)})
    BY <1>1, FS_Subset
  <2>2. PICK T, f : T = {j \in RuleIds : exists(j)} /\ f = [i \in T |-> inboxRules[i]]
    OBVIOUS
  <2>3. {inboxRules[i] : i \in T} = Range(f)
    BY <2>2 DEF Range
  <2>4. f \in Surjection(T, Range(f))
    BY <2>2, <2>3 DEF Surjection, Range
  <2> QED
    BY <2>1, <2>2, <2>3, <2>4, FS_Surjection
<1>3. IsFiniteSet(Rows(all))
  BY <1>2, FS_Subset DEF Rows
<1>4. ASSUME NEW r \in Rows(all) PROVE IsRule(r) /\ r.id \in RuleIds /\ exists(r.id) /\ inboxRules[r.id] = r
  <2>1. PICK i \in RuleIds : exists(i) /\ r = inboxRules[i]
    BY <1>4 DEF Rows
  <2> QED
    BY <2>1 DEF RulesInv
<1> QED
  BY <1>3, <1>4

LEMMA Lists ==
  ASSUME RulesInv, NEW all \in BOOLEAN
  PROVE  /\ list(all) \in [1 .. Cardinality(Rows(all)) -> Rows(all)] /\ Cardinality(Rows(all)) \in Nat
         /\ ToSet(list(all)) = Rows(all)
<1>1. PICK S, R : S = Rows(all) /\ R = InOrder(S)
  OBVIOUS
<1>2. IsFiniteSet(S) /\ \A r \in S : IsRule(r) /\ r.id \in RuleIds /\ inboxRules[r.id] = r
  BY <1>1, RowsAreRules
<1>3. ASSUME NEW r \in S PROVE r.sortOrder \in Int /\ r.id \in Int
  <2>1. r.sortOrder \in Int /\ r.id \in RuleIds
    BY <1>2 DEF IsRule
  <2> QED
    BY <2>1, InboxRulesAssumption DEF RuleIds
<1>4. \A x, y \in S : <<x, y>> \in R <=> x.sortOrder < y.sortOrder \/ (x.sortOrder = y.sortOrder /\ x.id < y.id)
  BY <1>1 DEF InOrder
<1>5. \A x, y \in S : x # y => x.id # y.id
  BY <1>2
<1>6. \A x \in S : <<x, x>> \notin R
  BY <1>3, <1>4
<1>7. \A x, y, z \in S : <<x, y>> \in R /\ <<y, z>> \in R => <<x, z>> \in R
  BY <1>3, <1>4
<1>8. \A x, y \in S : x # y => <<x, y>> \in R \/ <<y, x>> \in R
  BY <1>3, <1>4, <1>5
<1>9. PICK c : c = Cardinality(S) /\ c \in Nat
  BY <1>2, FS_CardinalityType
<1> DEFINE Ordered(s) == \A m, n \in DOMAIN s : m < n => \/ s[m].sortOrder < s[n].sortOrder
                                                         \/ (s[m].sortOrder = s[n].sortOrder /\ s[m].id < s[n].id)
<1>10. list(all) = CHOOSE s \in [1 .. c -> S] : Ordered(s)
  BY <1>1, <1>9 DEF list, Rows
<1>11. \A s \in [1 .. c -> S] : Ordered(s) <=> \A m, n \in 1 .. c : m < n => <<s[m], s[n]>> \in R
  BY <1>4
<1>12. \E s \in [1 .. c -> S] : \A m, n \in 1 .. c : m < n => <<s[m], s[n]>> \in R
  BY <1>2, <1>6, <1>7, <1>8, <1>9, Enumerates
<1> HIDE DEF Ordered
<1>13. list(all) \in [1 .. c -> S] /\ Ordered(list(all))
  BY <1>10, <1>11, <1>12
<1>14. \A x \in S : \E n \in 1 .. c : list(all)[n] = x
  <2>1. PICK s : s = list(all)
    OBVIOUS
  <2>2. s \in [1 .. c -> S] /\ \A m, n \in 1 .. c : m < n => <<s[m], s[n]>> \in R
    BY <1>11, <1>13, <2>1
  <2>3. IsFiniteSet(1 .. c) /\ Cardinality(1 .. c) = c
    BY <1>9, FS_Interval
  <2>4. ASSUME NEW m \in 1 .. c, NEW n \in 1 .. c, s[m] = s[n] PROVE m = n
    <3>1. s[m] \in S
      BY <2>2
    <3>2. ~ (m < n) /\ ~ (n < m)
      BY <1>6, <2>2, <2>4, <3>1
    <3> QED
      BY <1>9, <3>2
  <2>5. s \in Injection(1 .. c, S)
    BY <2>2, <2>4 DEF Injection, IsInjective
  <2>6. s \in Surjection(1 .. c, S)
    BY <1>2, <1>9, <2>3, <2>5, FS_Injection
  <2> QED
    BY <2>1, <2>6 DEF Surjection
<1>15. ToSet(list(all)) = S
  BY <1>13, <1>14 DEF ToSet
<1> QED
  BY <1>1, <1>9, <1>13, <1>15

-----------------------------------------------------------------------------
(* What the engine makes of the rules that match.                           *)

Matches(r, facts) == r.enabled /\ evaluateCondition(r.condition, facts)
Next_(result, r, facts) == IF Matches(r, facts) THEN aggregate(r, result) ELSE result
MadeOf(rules, facts, g, s) == IF s = {} THEN NothingFired ELSE Next_(g[s \ {Max(s)}], rules[Max(s)], facts)
MakesUp(rules, facts, S, g) == g = [s \in SUBSET S |-> MadeOf(rules, facts, g, s)]

LEMMA SmallerByMax ==
  ASSUME NEW s \in SUBSET Nat, IsFiniteSet(s), s # {}
  PROVE  /\ s \ {Max(s)} \in SUBSET s /\ Cardinality(s) \in Nat /\ Cardinality(s \ {Max(s)}) \in Nat
         /\ Cardinality(s) = Cardinality(s \ {Max(s)}) + 1
<1>1. PICK p : p = Max(s)
  OBVIOUS
<1>2. p \in s
  BY <1>1, MaxIsGreatest
<1>3. IsFiniteSet(s \ {p}) /\ Cardinality(s \ {p}) = Cardinality(s) - 1
  BY <1>2, FS_RemoveElement
<1>4. Cardinality(s) \in Nat /\ Cardinality(s \ {p}) \in Nat
  BY <1>3, FS_CardinalityType
<1> QED
  BY <1>1, <1>3, <1>4

LEMMA OutcomesExist ==
  ASSUME NEW rules, NEW facts, NEW S \in SUBSET Nat, IsFiniteSet(S)
  PROVE  \E g : MakesUp(rules, facts, S, g)
<1> DEFINE Small(k) == {s \in SUBSET S : Cardinality(s) <= k}
           Solved == {k \in Nat : \E g : g = [s \in Small(k) |-> MadeOf(rules, facts, g, s)]}
<1>0. \A s \in SUBSET S : IsFiniteSet(s) /\ Cardinality(s) \in Nat /\ Cardinality(s) <= Cardinality(S)
  BY FS_Subset, FS_CardinalityType
<1>1. 0 \in Solved
  <2>1. Small(0) = {{}}
    BY <1>0, FS_EmptySet
  <2>2. PICK g : g = [s \in Small(0) |-> NothingFired]
    OBVIOUS
  <2>3. g = [s \in Small(0) |-> MadeOf(rules, facts, g, s)]
    BY <2>1, <2>2 DEF MadeOf
  <2> QED
    BY <2>3
<1>2. ASSUME NEW k \in Nat, k \in Solved PROVE k + 1 \in Solved
  <2>1. PICK g : g = [s \in Small(k) |-> MadeOf(rules, facts, g, s)]
    BY <1>2
  <2>2. PICK h : h = [s \in Small(k + 1) |-> MadeOf(rules, facts, g, s)]
    OBVIOUS
  <2>3. ASSUME NEW s \in Small(k + 1) PROVE MadeOf(rules, facts, g, s) = MadeOf(rules, facts, h, s)
    <3>1. CASE s = {}
      BY <3>1 DEF MadeOf
    <3>2. CASE s # {}
      <4>1. PICK t : t = s \ {Max(s)}
        OBVIOUS
      <4>2. t \in SUBSET s /\ Cardinality(s) = Cardinality(t) + 1 /\ Cardinality(t) \in Nat
        BY <1>0, <3>2, <4>1, SmallerByMax
      <4>3. t \in Small(k) /\ t \in Small(k + 1)
        BY <4>2
      <4>4. g[t] = MadeOf(rules, facts, g, t) /\ h[t] = MadeOf(rules, facts, g, t)
        BY <2>1, <2>2, <4>3
      <4> QED
        BY <3>2, <4>1, <4>4 DEF MadeOf
    <3> QED
      BY <3>1, <3>2
  <2>4. h = [s \in Small(k + 1) |-> MadeOf(rules, facts, h, s)]
    BY <2>2, <2>3
  <2> HIDE DEF Small
  <2> QED
    BY <2>4
<1>3. Cardinality(S) \in Nat
  BY FS_CardinalityType
<1>4. Small(Cardinality(S)) = SUBSET S
  BY <1>0
<1> HIDE DEF Solved
<1>5. Nat \subseteq Solved
  BY <1>1, <1>2, InductiveSet
<1> QED
  BY <1>3, <1>4, <1>5 DEF Solved, MakesUp

\* The outcome after each of the rules.
ByRule(N, rules, facts, len) ==
  /\ N[0] = NothingFired /\ evaluateRules(rules, facts) = N[len]
  /\ \A n \in Nat : n < len => N[n + 1] = Next_(N[n], rules[n + 1], facts)

LEMMA OutcomeByRule ==
  ASSUME NEW rules, NEW facts, NEW len, len \in Nat /\ DOMAIN rules = 1 .. len
  PROVE  \E N : ByRule(N, rules, facts, len)
<1>1. 1 .. len \in SUBSET Nat /\ IsFiniteSet(1 .. len)
  BY FS_Interval
<1>2. PICK g : MakesUp(rules, facts, 1 .. len, g) /\ evaluateRules(rules, facts) = g[1 .. len]
  <2>1. evaluateRules(rules, facts) = (CHOOSE g : MakesUp(rules, facts, 1 .. len, g))[1 .. len]
    BY DEF evaluateRules, FoldLeft, MapThenFoldSet, MakesUp, MadeOf, Next_, Matches
  <2>2. MakesUp(rules, facts, 1 .. len, CHOOSE g : MakesUp(rules, facts, 1 .. len, g))
    BY <1>1, OutcomesExist
  <2> QED
    BY <2>1, <2>2
<1>3. PICK N : N = [n \in 0 .. len |-> g[1 .. n]]
  OBVIOUS
<1>4. N[0] = NothingFired
  <2>1. 1 .. 0 = {} /\ {} \in SUBSET (1 .. len)
    OBVIOUS
  <2> QED
    BY <1>2, <1>3, <2>1 DEF MakesUp, MadeOf
<1>5. N[len] = evaluateRules(rules, facts)
  BY <1>2, <1>3
<1>6. ASSUME NEW n \in Nat, n < len PROVE N[n + 1] = Next_(N[n], rules[n + 1], facts)
  <2>1. PICK s, m : s = 1 .. n + 1 /\ m = n + 1
    OBVIOUS
  <2>2. s \in SUBSET (1 .. len) /\ s # {} /\ s \in SUBSET Nat /\ IsFiniteSet(s) /\ m \in s /\ \A k \in s : k <= m
    <3>1. IsFiniteSet(1 .. n + 1)
      BY FS_Interval
    <3> QED
      BY <1>6, <2>1, <3>1
  <2>3. Max(s) = m
    <3>1. Max(s) \in s /\ \A k \in s : k <= Max(s)
      BY <2>2, MaxIsGreatest
    <3>2. Max(s) \in Nat /\ m \in Nat
      BY <2>1, <2>2, <3>1
    <3> QED
      BY <2>2, <3>1, <3>2
  <2>4. s \ {m} = 1 .. n
    BY <2>1
  <2>5. g[s] = MadeOf(rules, facts, g, s)
    BY <1>2, <2>2 DEF MakesUp
  <2>6. N[n + 1] = g[s] /\ N[n] = g[1 .. n]
    BY <1>3, <1>6, <2>1
  <2> QED
    BY <2>1, <2>2, <2>3, <2>4, <2>5, <2>6 DEF MadeOf
<1> QED
  BY <1>4, <1>5, <1>6 DEF ByRule

\* What the outcome says of the rules that have matched.
Explains(result, M) ==
  /\ result.fired \in Seq(RuleIds)
  /\ ToSet(result.fired) = {r.id : r \in M}
  /\ result.tags = UNION {r.actions.tags : r \in M}
  /\ result.flagged \in BOOLEAN /\ (result.flagged <=> \E r \in M : r.actions.flag)
  /\ result.priority \in Ranks \cup {NoPriority}
  /\ \A r \in M : r.actions.priority # NoPriority =>
       /\ result.priority # NoPriority
       /\ priorityRank(result.priority) >= priorityRank(r.actions.priority)
  /\ result.priority # NoPriority => \E r \in M : r.actions.priority = result.priority

LEMMA RanksAreNumbers == \A p \in Ranks : priorityRank(p) \in Nat
  BY RankNames, RankNumbers

LEMMA HigherIsHighest ==
  ASSUME NEW a \in Ranks \cup {NoPriority}, NEW b \in Ranks \cup {NoPriority}
  PROVE  /\ higherPriority(a, b) \in {a, b}
         /\ a # NoPriority => /\ higherPriority(a, b) # NoPriority
                              /\ priorityRank(higherPriority(a, b)) >= priorityRank(a)
         /\ b # NoPriority => /\ higherPriority(a, b) # NoPriority
                              /\ priorityRank(higherPriority(a, b)) >= priorityRank(b)
<1>1. a # NoPriority => priorityRank(a) \in Nat
  BY RanksAreNumbers
<1>2. b # NoPriority => priorityRank(b) \in Nat
  BY RanksAreNumbers
<1> QED
  BY <1>1, <1>2 DEF higherPriority

LEMMA NothingExplains == Explains(NothingFired, {})
<1>1. NothingFired.fired = <<>> /\ NothingFired.tags = {} /\ NothingFired.flagged = FALSE
      /\ NothingFired.priority = NoPriority
  BY DEF NothingFired
<1>2. PICK none : none = NothingFired
  OBVIOUS
<1>3. none.fired \in Seq(RuleIds) /\ ToSet(none.fired) = {r.id : r \in {}}
  <2>1. <<>> \in Seq(RuleIds) /\ ToSet(<<>>) = {}
    BY DEF ToSet
  <2> QED
    BY <1>1, <1>2, <2>1
<1>4. none.tags = UNION {r.actions.tags : r \in {}}
  BY <1>1, <1>2
<1>5. none.flagged \in BOOLEAN /\ (none.flagged <=> \E r \in {} : r.actions.flag)
  BY <1>1, <1>2
<1>6. none.priority = NoPriority
  BY <1>1, <1>2
<1> QED
  BY <1>2, <1>3, <1>4, <1>5, <1>6 DEF Explains

LEMMA OneMoreExplains ==
  ASSUME NEW result, NEW M, Explains(result, M), NEW r, r.id \in RuleIds,
         r.actions.priority \in Ranks \cup {NoPriority}, r.actions.flag \in BOOLEAN,
         \A q \in M : q.actions.priority \in Ranks \cup {NoPriority}
  PROVE  Explains(aggregate(r, result), M \cup {r})
<1>1. PICK more : more = aggregate(r, result)
  OBVIOUS
<1>2. /\ more.fired = Append(result.fired, r.id) /\ more.tags = result.tags \cup r.actions.tags
      /\ more.priority = higherPriority(result.priority, r.actions.priority)
  BY <1>1 DEF aggregate
<1>3. more.flagged = (result.flagged \/ r.actions.flag)
  BY <1>1 DEF aggregate
<1>4. PICK p, b : p = result.priority /\ b = r.actions.priority
  OBVIOUS
<1>5. p \in Ranks \cup {NoPriority} /\ b \in Ranks \cup {NoPriority}
  BY <1>4 DEF Explains
<1>6. more.fired \in Seq(RuleIds) /\ ToSet(more.fired) = {q.id : q \in M \cup {r}}
  <2>1. PICK s, t : s = result.fired /\ t = more.fired
    OBVIOUS
  <2>2. s \in Seq(RuleIds) /\ ToSet(s) = {q.id : q \in M} /\ t = Append(s, r.id)
    BY <1>2, <2>1 DEF Explains
  <2>3. PICK n \in Nat : n = Len(s) /\ DOMAIN s = 1 .. n
    BY <2>2
  <2>4. t \in Seq(RuleIds) /\ DOMAIN t = 1 .. n + 1 /\ t[n + 1] = r.id /\ \A i \in 1 .. n : t[i] = s[i]
    BY <2>2, <2>3
  <2>5. ToSet(t) = ToSet(s) \cup {r.id}
    BY <2>3, <2>4 DEF ToSet
  <2> QED
    BY <2>1, <2>2, <2>4, <2>5
<1>7. more.tags = UNION {q.actions.tags : q \in M \cup {r}}
  BY <1>2 DEF Explains
<1>8. more.flagged \in BOOLEAN /\ (more.flagged <=> \E q \in M \cup {r} : q.actions.flag)
  <2>1. result.flagged \in BOOLEAN /\ (result.flagged <=> \E q \in M : q.actions.flag)
    BY DEF Explains
  <2> QED
    BY <1>3, <2>1
<1>9. more.priority \in {p, b} /\ (p # NoPriority => more.priority # NoPriority) /\ (b # NoPriority => more.priority # NoPriority)
  BY <1>2, <1>4, <1>5, HigherIsHighest
<1>10. /\ p # NoPriority => priorityRank(more.priority) >= priorityRank(p)
       /\ b # NoPriority => priorityRank(more.priority) >= priorityRank(b)
  BY <1>2, <1>4, <1>5, HigherIsHighest
<1>11. ASSUME NEW q \in M \cup {r}, q.actions.priority # NoPriority
       PROVE  /\ more.priority # NoPriority
              /\ priorityRank(more.priority) >= priorityRank(q.actions.priority)
  <2>1. CASE q = r
    BY <1>4, <1>9, <1>10, <1>11, <2>1
  <2>2. CASE q \in M
    <3>1. p # NoPriority /\ priorityRank(p) >= priorityRank(q.actions.priority)
      BY <1>4, <1>11, <2>2 DEF Explains
    <3>2. q.actions.priority \in Ranks /\ p \in Ranks /\ more.priority \in Ranks
      BY <1>5, <1>9, <1>11, <2>2, <3>1
    <3>3. /\ priorityRank(q.actions.priority) \in Nat /\ priorityRank(p) \in Nat
          /\ priorityRank(more.priority) \in Nat
      BY <3>2, RanksAreNumbers
    <3> QED
      BY <1>9, <1>10, <3>1, <3>3
  <2> QED
    BY <2>1, <2>2
<1>12. ASSUME more.priority # NoPriority
       PROVE  \E q \in M \cup {r} : q.actions.priority = more.priority
  <2>1. CASE more.priority = b
    BY <1>4, <2>1
  <2>2. CASE more.priority = p
    BY <1>4, <1>12, <2>2 DEF Explains
  <2> QED
    BY <1>9, <2>1, <2>2
<1>13. more.priority \in Ranks \cup {NoPriority}
  BY <1>5, <1>9
<1> QED
  BY <1>1, <1>6, <1>7, <1>8, <1>11, <1>12, <1>13 DEF Explains

Matching(all, facts) == {r \in Rows(all) : Matches(r, facts)}

\* The rules that are off are not listed, and would not match.
LEMMA SameMatch ==
  ASSUME NEW facts
  PROVE  Matching(TRUE, facts) = Matching(FALSE, facts)
  BY DEF Matching, Matches, Rows

LEMMA EvaluationExplains ==
  ASSUME RulesInv, NEW facts
  PROVE  Explains(evaluateRules(list(FALSE), facts), Matching(FALSE, facts))
<1>1. PICK b, S, len : len \in Nat /\ b = list(FALSE) /\ S = Rows(FALSE) /\ len = Cardinality(S)
  BY Lists
<1>2. len \in Nat /\ b \in [1 .. len -> S] /\ ToSet(b) = S
  BY <1>1, Lists
<1>3. \A r \in S : IsRule(r)
  BY <1>1, RowsAreRules
<1>4. PICK N : ByRule(N, b, facts, len)
  <2>1. len \in Nat /\ DOMAIN b = 1 .. len
    BY <1>2
  <2> QED
    BY <2>1, OutcomeByRule
<1> DEFINE Hit(n) == {b[i] : i \in {j \in 1 .. n : Matches(b[j], facts)}}
           Good == {n \in Nat : n <= len => Explains(N[n], Hit(n))}
<1>5. 0 \in Good
  <2>1. Hit(0) = {}
    OBVIOUS
  <2> HIDE DEF Hit
  <2> QED
    BY <1>4, <2>1, NothingExplains DEF ByRule
<1>6. ASSUME NEW n \in Nat, n \in Good PROVE n + 1 \in Good
  <2> SUFFICES ASSUME n + 1 <= len PROVE Explains(N[n + 1], Hit(n + 1))
    OBVIOUS
  <2>1. Explains(N[n], Hit(n)) /\ N[n + 1] = Next_(N[n], b[n + 1], facts)
    BY <1>2, <1>4, <1>6 DEF ByRule
  <2>2. PICK r : r = b[n + 1] /\ r \in S
    BY <1>2
  <2>3. 1 .. n + 1 = (1 .. n) \cup {n + 1}
    OBVIOUS
  <2>4. CASE ~ Matches(r, facts)
    <3>1. Hit(n + 1) = Hit(n)
      BY <2>2, <2>3, <2>4
    <3> QED
      BY <2>1, <2>2, <2>4, <3>1 DEF Next_
  <2>5. CASE Matches(r, facts)
    <3>1. Hit(n + 1) = Hit(n) \cup {r}
      BY <2>2, <2>3, <2>5
    <3>2. Hit(n) \subseteq S
      <4>1. \A i \in 1 .. n : b[i] \in S
        BY <1>2
      <4> QED
        BY <4>1
    <3>3. \A q \in Hit(n) : q.actions.priority \in Ranks \cup {NoPriority}
      BY <1>3, <3>2 DEF IsRule
    <3>4. r.id \in RuleIds /\ r.actions.priority \in Ranks \cup {NoPriority} /\ r.actions.flag \in BOOLEAN
      BY <1>3, <2>2 DEF IsRule
    <3> HIDE DEF Hit
    <3>5. Explains(aggregate(r, N[n]), Hit(n) \cup {r})
      BY <2>1, <3>3, <3>4, OneMoreExplains
    <3> QED
      BY <2>1, <2>2, <2>5, <3>1, <3>5 DEF Next_
  <2> QED
    BY <2>4, <2>5
<1>7. Hit(len) = Matching(FALSE, facts)
  <2>1. S = {b[i] : i \in 1 .. len}
    BY <1>1, <1>2 DEF ToSet
  <2>2. \A i \in 1 .. len : Matches(b[i], facts) => b[i] \in S
    BY <2>1
  <2>3. Matching(FALSE, facts) = {r \in S : Matches(r, facts)}
    BY <1>1 DEF Matching
  <2> QED
    BY <2>1, <2>2, <2>3
<1> HIDE DEF Hit
<1>8. \A n \in Nat : n \in Good => n + 1 \in Good
  BY <1>6
<1> HIDE DEF Good
<1>9. len \in Good
  BY <1>2, <1>5, <1>8, InductiveSet
<1> USE DEF Good
<1>10. Explains(N[len], Matching(FALSE, facts))
  <2>1. Explains(N[len], Hit(len))
    BY <1>2, <1>9
  <2> QED
    BY <1>7, <2>1
<1> QED
  BY <1>1, <1>4, <1>10 DEF ByRule

-----------------------------------------------------------------------------
(* The invariant of the stored rules.                                       *)

LEMMA RulesStart == RulesInit => RulesInv
<1> SUFFICES ASSUME RulesInit PROVE RulesInv
  OBVIOUS
<1>1. \A i \in RuleIds : ~exists(i)
  BY DEF RulesInit, exists
<1>2. firings \in Seq(Firing)
  BY DEF RulesInit
<1>3. threadState \in [RuleThreads -> ThreadRow \cup {NoRule}]
  BY DEF RulesInit
<1> QED
  BY <1>1, <1>2, <1>3 DEF RulesInit, RulesInv

\* A body that was let through is a rule.
LEMMA StoredIsRule ==
  ASSUME NEW input \in RuleInputs, wellFormed(input), NEW id \in RuleIds
  PROVE  IsRule(stored(input, id)) /\ stored(input, id).id = id
<1>1. input.named /\ input.actions.priority \in Ranks \cup {NoPriority} /\ validateCondition(input.condition)
  BY DEF wellFormed, Ranks
<1>2. input.sortOrder \in Int /\ input.enabled \in BOOLEAN /\ input.actions.flag \in BOOLEAN
  BY <1>1, InboxRulesAssumption
<1>3. PICK r : r = stored(input, id)
  OBVIOUS
<1>4. /\ r.id = id /\ r.sortOrder = input.sortOrder /\ r.condition = input.condition
      /\ r.actions = input.actions
  BY <1>3 DEF stored
<1>5. r.enabled = input.enabled
  BY <1>3 DEF stored
<1>6. r # NoRule
  BY <1>1, <1>3, NoRuleIsNoRow
<1>7. wellFormed([named |-> TRUE, condition |-> r.condition, actions |-> r.actions])
  <2>1. PICK w : w = [named |-> TRUE, condition |-> r.condition, actions |-> r.actions]
    OBVIOUS
  <2>2. w.named /\ w.condition = input.condition /\ w.actions = input.actions
    BY <1>4, <2>1
  <2>3. wellFormed(w)
    BY <1>1, <2>2 DEF wellFormed, Ranks
  <2> QED
    BY <2>1, <2>3
<1>8. r.actions \in ActionsOf
  BY <1>4 DEF ActionsOf
<1>9. IsRule(r)
  BY <1>1, <1>2, <1>4, <1>5, <1>6, <1>7, <1>8 DEF IsRule
<1> QED
  BY <1>3, <1>4, <1>9

LEMMA CreateStep == ASSUME RulesInv, NEW input \in RuleInputs, createRule(input) PROVE RulesInv'
<1>1. PICK k : k = lastRuleId + 1 /\ k \in RuleIds
  BY InboxRulesAssumption DEF createRule, RulesInv, RuleIds
<1>2. wellFormed(input)
  BY DEF createRule, createStatus
<1>3. PICK r : r = stored(input, k) /\ IsRule(r) /\ r.id = k
  BY <1>1, <1>2, StoredIsRule
<1>4. inboxRules' = [inboxRules EXCEPT ![k] = r] /\ UNCHANGED <<firings, threadState>> /\ lastRuleId' = k
  BY <1>1, <1>3 DEF createRule
<1>5. inboxRules' = [i \in RuleIds |-> inboxRules'[i]]
  BY <1>4 DEF RulesInv
<1>6. ASSUME NEW i \in RuleIds, exists(i)' PROVE IsRule(inboxRules'[i]) /\ inboxRules'[i].id = i
  BY <1>1, <1>3, <1>4, <1>6 DEF RulesInv, exists
<1>7. lastRuleId' \in Nat
  BY <1>1, <1>4 DEF RuleIds
<1> QED
  BY <1>4, <1>5, <1>6, <1>7 DEF RulesInv

LEMMA UpdateStep ==
  ASSUME RulesInv, NEW id \in 0 .. MaxRules, NEW input \in RuleInputs, updateRule(id, input)
  PROVE  RulesInv'
<1>1. id \in RuleIds /\ wellFormed(input)
  BY DEF updateRule, updateStatus, exists
<1>3. PICK r : r = stored(input, id) /\ IsRule(r) /\ r.id = id
  BY <1>1, StoredIsRule
<1>4. inboxRules' = [inboxRules EXCEPT ![id] = r] /\ UNCHANGED <<lastRuleId, firings, threadState>>
  BY <1>3 DEF updateRule
<1>5. inboxRules' = [i \in RuleIds |-> inboxRules'[i]]
  BY <1>4 DEF RulesInv
<1>6. ASSUME NEW i \in RuleIds, exists(i)' PROVE IsRule(inboxRules'[i]) /\ inboxRules'[i].id = i
  BY <1>1, <1>3, <1>4, <1>6 DEF RulesInv, exists
<1> QED
  BY <1>4, <1>5, <1>6 DEF RulesInv

\* ON DELETE SET NULL keeps every firing where it is, but for its rule.
LEMMA CascadeKeeps ==
  ASSUME RulesInv, NEW id
  PROVE  /\ afterDelete(id) \in Seq(Firing) /\ Len(afterDelete(id)) = Len(firings)
         /\ \A n \in DOMAIN firings :
              /\ afterDelete(id)[n].message = firings[n].message
              /\ afterDelete(id)[n].actions = firings[n].actions
              /\ \/ afterDelete(id)[n].ruleId = firings[n].ruleId
                 \/ afterDelete(id)[n].ruleId = Deleted /\ firings[n].ruleId = id
<1>1. PICK len \in Nat : len = Len(firings) /\ DOMAIN firings = 1 .. len
  BY DEF RulesInv
<1>2. PICK s : s = afterDelete(id)
  OBVIOUS
<1>3. /\ s = [n \in 1 .. len |-> s[n]]
      /\ \A n \in 1 .. len : s[n] = IF firings[n].ruleId = id THEN [firings[n] EXCEPT !.ruleId = Deleted] ELSE firings[n]
  BY <1>1, <1>2 DEF afterDelete
<1>4. ASSUME NEW n \in 1 .. len
      PROVE  /\ s[n] \in Firing /\ s[n].message = firings[n].message /\ s[n].actions = firings[n].actions
             /\ s[n].ruleId = firings[n].ruleId \/ (s[n].ruleId = Deleted /\ firings[n].ruleId = id)
  <2>1. PICK f : f = firings[n] /\ f \in Firing
    BY <1>1 DEF RulesInv
  <2>2. Deleted \in 0 .. MaxRules
    BY InboxRulesAssumption DEF Deleted
  <2>3. s[n] = f \/ (s[n] = [f EXCEPT !.ruleId = Deleted] /\ f.ruleId = id)
    BY <1>3, <2>1
  <2> QED
    BY <2>1, <2>2, <2>3 DEF Firing
<1>5. s \in Seq(Firing) /\ Len(s) = len
  BY <1>3, <1>4
<1> QED
  BY <1>1, <1>2, <1>4, <1>5

LEMMA DeleteRuleStep == ASSUME RulesInv, NEW id \in 0 .. MaxRules, deleteRule(id) PROVE RulesInv'
<1>1. id \in RuleIds
  BY DEF deleteRule, deleteRuleStatus, exists
<1>2. inboxRules' = [inboxRules EXCEPT ![id] = NoRule] /\ firings' = afterDelete(id) /\ UNCHANGED <<lastRuleId, threadState>>
  BY DEF deleteRule
<1>3. inboxRules' = [i \in RuleIds |-> inboxRules'[i]]
  BY <1>2 DEF RulesInv
<1>4. ASSUME NEW i \in RuleIds, exists(i)' PROVE IsRule(inboxRules'[i]) /\ inboxRules'[i].id = i
  BY <1>1, <1>2, <1>4 DEF RulesInv, exists
<1>5. firings' \in Seq(Firing)
  BY <1>2, CascadeKeeps
<1> QED
  BY <1>2, <1>3, <1>4, <1>5 DEF RulesInv

\* Applying the rules records one firing per rule that matched, and those say
\* what the thread's state becomes.
LEMMA ApplyEffect ==
  ASSUME RulesInv, NEW m \in Incoming, applyToMessage(m)
  PROVE  \E result, more :
           /\ Explains(result, Matching(FALSE, factsOf(m)))
           /\ more \in Seq(Firing) /\ firings' = firings \o more
           /\ \A n \in DOMAIN more : more[n].message = m
           /\ {more[n].actions : n \in DOMAIN more} = {r.actions : r \in Matching(FALSE, factsOf(m))}
           /\ threadState' = IF result.priority # NoPriority \/ result.flagged
                             THEN [threadState EXCEPT ![ThreadOf[m]] = upsertThreadState(ThreadOf[m], result)]
                             ELSE threadState
<1>1. PICK result, M : result = evaluation(m) /\ M = Matching(FALSE, factsOf(m))
  OBVIOUS
<1>2. Explains(result, M)
  BY <1>1, EvaluationExplains DEF evaluation
<1>3. PICK fired : fired = result.fired /\ fired \in Seq(RuleIds) /\ ToSet(fired) = {r.id : r \in M}
  BY <1>2 DEF Explains
<1>4. PICK len \in Nat : len = Len(fired) /\ DOMAIN fired = 1 .. len
  BY <1>3
<1>5. \A r \in M : IsRule(r) /\ r.id \in RuleIds /\ inboxRules[r.id] = r
  BY <1>1, RowsAreRules DEF Matching
<1>6. PICK more : more = [n \in 1 .. len |-> [ruleId |-> fired[n], message |-> m, actions |-> inboxRules[fired[n]].actions]]
  OBVIOUS
<1>7. ASSUME NEW n \in 1 .. len
      PROVE  \E r \in M : r.id = fired[n] /\ more[n] = [ruleId |-> r.id, message |-> m, actions |-> r.actions]
  <2>1. fired[n] \in {r.id : r \in M}
    BY <1>3, <1>4 DEF ToSet
  <2> QED
    BY <1>5, <1>6, <2>1
<1>8. ASSUME NEW r \in M PROVE \E n \in 1 .. len : fired[n] = r.id /\ more[n].actions = r.actions
  <2>1. r.id \in ToSet(fired)
    BY <1>3
  <2> QED
    BY <1>4, <1>5, <1>6, <2>1 DEF ToSet
<1>9. DOMAIN more = 1 .. len /\ more = [n \in 1 .. len |-> more[n]]
  BY <1>6
<1>10. ASSUME NEW n \in 1 .. len PROVE more[n] \in Firing /\ more[n].message = m
  <2>1. PICK r \in M : more[n] = [ruleId |-> r.id, message |-> m, actions |-> r.actions]
    BY <1>7
  <2>2. IsRule(r) /\ r.id \in RuleIds
    BY <1>5
  <2>3. r.id \in 0 .. MaxRules /\ r.actions \in ActionsOf
    BY <2>2, InboxRulesAssumption DEF IsRule, RuleIds
  <2> QED
    BY <2>1, <2>3 DEF Firing
<1>11. more \in Seq(Firing)
  BY <1>9, <1>10
<1>12. {more[n].actions : n \in 1 .. len} = {r.actions : r \in M}
  <2>1. ASSUME NEW n \in 1 .. len PROVE \E r \in M : more[n].actions = r.actions
    <3>1. PICK r \in M : more[n] = [ruleId |-> r.id, message |-> m, actions |-> r.actions]
      BY <1>7
    <3> QED
      BY <3>1
  <2>2. \A r \in M : \E n \in 1 .. len : more[n].actions = r.actions
    BY <1>8
  <2> QED
    BY <2>1, <2>2
<1>13. firings' = firings \o more
  BY <1>1, <1>3, <1>4, <1>6 DEF applyToMessage
<1>14. threadState' = IF result.priority # NoPriority \/ result.flagged
                      THEN [threadState EXCEPT ![ThreadOf[m]] = upsertThreadState(ThreadOf[m], result)] ELSE threadState
  BY <1>1 DEF applyToMessage
<1> QED
  BY <1>1, <1>2, <1>9, <1>10, <1>11, <1>12, <1>13, <1>14

LEMMA UpsertIsRow ==
  ASSUME RulesInv, NEW t \in RuleThreads, NEW result, NEW M, Explains(result, M)
  PROVE  /\ upsertThreadState(t, result) \in ThreadRow
         /\ upsertThreadState(t, result).priority = IF result.priority = NoPriority THEN "normal" ELSE result.priority
         /\ upsertThreadState(t, result).flagged <=> (result.flagged \/ (threadState[t] # NoRule /\ threadState[t].flagged))
<1>1. PICK row, p : row = upsertThreadState(t, result) /\ p = result.priority
  OBVIOUS
<1>2. row.priority = IF p = NoPriority THEN "normal" ELSE p
  BY <1>1 DEF upsertThreadState
<1>3. row.flagged = (result.flagged \/ (threadState[t] # NoRule /\ threadState[t].flagged))
  BY <1>1 DEF upsertThreadState
<1>4. row = [priority |-> row.priority, flagged |-> row.flagged]
  BY <1>1 DEF upsertThreadState
<1>5. row.priority \in Ranks
  BY <1>1, <1>2, RankNames DEF Explains
<1>6. row.flagged \in BOOLEAN
  BY <1>3
<1>7. row \in ThreadRow
  BY <1>4, <1>5, <1>6 DEF ThreadRow
<1> QED
  BY <1>1, <1>2, <1>3, <1>7

LEMMA ApplyStep == ASSUME RulesInv, NEW m \in Incoming, applyToMessage(m) PROVE RulesInv'
<1>1. PICK result, more :
        /\ Explains(result, Matching(FALSE, factsOf(m)))
        /\ more \in Seq(Firing) /\ firings' = firings \o more
        /\ threadState' = IF result.priority # NoPriority \/ result.flagged
                          THEN [threadState EXCEPT ![ThreadOf[m]] = upsertThreadState(ThreadOf[m], result)]
                          ELSE threadState
  BY ApplyEffect
<1>2. UNCHANGED <<inboxRules, lastRuleId>>
  BY DEF applyToMessage
<1>3. firings' \in Seq(Firing)
  BY <1>1 DEF RulesInv
<1>4. ThreadOf[m] \in RuleThreads
  BY InboxRulesAssumption
<1>5. upsertThreadState(ThreadOf[m], result) \in ThreadRow
  BY <1>1, <1>4, UpsertIsRow
<1>6. threadState' \in [RuleThreads -> ThreadRow \cup {NoRule}]
  BY <1>1, <1>4, <1>5 DEF RulesInv
<1>7. \A i \in RuleIds : exists(i)' <=> exists(i)
  BY <1>2 DEF exists
<1> QED
  BY <1>2, <1>3, <1>6, <1>7 DEF RulesInv

LEMMA RulesStep == RulesInv /\ [RulesNext]_rulesVars => RulesInv'
<1> SUFFICES ASSUME RulesInv, [RulesNext]_rulesVars PROVE RulesInv'
  OBVIOUS
<1>1. ASSUME NEW input \in RuleInputs, createRule(input) PROVE RulesInv'
  BY <1>1, CreateStep
<1>2. ASSUME NEW id \in 0 .. MaxRules, NEW input \in RuleInputs, updateRule(id, input) PROVE RulesInv'
  BY <1>2, UpdateStep
<1>3. ASSUME NEW id \in 0 .. MaxRules, deleteRule(id) PROVE RulesInv'
  BY <1>3, DeleteRuleStep
<1>4. ASSUME NEW m \in Incoming, applyToMessage(m) PROVE RulesInv'
  BY <1>4, ApplyStep
<1>5. CASE UNCHANGED rulesVars
  BY <1>5 DEF rulesVars, RulesInv, exists
<1> QED
  BY <1>1, <1>2, <1>3, <1>4, <1>5 DEF RulesNext

-----------------------------------------------------------------------------

LEMMA OutcomeInvariant == RulesInv => OutcomeIsAggregate
<1> SUFFICES ASSUME RulesInv, NEW m \in Incoming
             PROVE  LET result == evaluation(m)
                        matching == {r \in ToSet(list(TRUE)) : r.enabled /\ evaluateCondition(r.condition, factsOf(m))}
                    IN  /\ ToSet(result.fired) = {r.id : r \in matching}
                        /\ result.flagged <=> \E r \in matching : r.actions.flag
                        /\ result.tags = UNION {r.actions.tags : r \in matching}
                        /\ \A r \in matching :
                             /\ wellFormed([named |-> TRUE, condition |-> r.condition, actions |-> r.actions])
                             /\ r.actions.priority # NoPriority =>
                                  priorityRank(result.priority) >= priorityRank(r.actions.priority)
                        /\ result.priority # NoPriority => \E r \in matching : r.actions.priority = result.priority
  BY DEF OutcomeIsAggregate
<1>1. PICK result, M, facts : result = evaluation(m) /\ M = Matching(FALSE, facts) /\ facts = factsOf(m)
  OBVIOUS
<1>2. Explains(result, M)
  BY <1>1, EvaluationExplains DEF evaluation
<1>3. {r \in ToSet(list(TRUE)) : r.enabled /\ evaluateCondition(r.condition, facts)} = M
  <2>1. ToSet(list(TRUE)) = Rows(TRUE)
    BY Lists
  <2>2. {r \in ToSet(list(TRUE)) : r.enabled /\ evaluateCondition(r.condition, facts)} = Matching(TRUE, facts)
    BY <2>1 DEF Matching, Matches
  <2> QED
    BY <1>1, <2>2, SameMatch
<1>4. \A r \in M : wellFormed([named |-> TRUE, condition |-> r.condition, actions |-> r.actions])
  BY <1>1, RowsAreRules DEF Matching, IsRule
<1> QED
  BY <1>1, <1>2, <1>3, <1>4 DEF Explains

\* What the firings of one step say of the priority that they left a thread with.
PriorityExplained(priority, new) ==
  LET setting == {f \in new : f.actions.priority # NoPriority} IN
  IF setting = {} THEN priority = "normal" /\ \E f \in new : f.actions.flag
  ELSE /\ \E f \in setting : f.actions.priority = priority
       /\ \A f \in setting : priorityRank(priority) >= priorityRank(f.actions.priority)

TrailStep ==
  /\ Len(firings') >= Len(firings)
  /\ \A n \in DOMAIN firings :
       /\ firings'[n].message = firings[n].message /\ firings'[n].actions = firings[n].actions
       /\ firings'[n].ruleId # firings[n].ruleId =>
            firings'[n].ruleId = Deleted /\ inboxRules'[firings[n].ruleId] = NoRule
  /\ \A t \in RuleThreads : threadState'[t] # threadState[t] =>
       LET new == {firings'[n] : n \in Len(firings) + 1 .. Len(firings')} IN
       /\ \A f \in new : ThreadOf[f.message] = t
       /\ PriorityExplained(threadState'[t].priority, new)
       /\ threadState'[t].flagged <=>
            \/ \E f \in new : f.actions.flag
            \/ (threadState[t] # NoRule /\ threadState[t].flagged)

LEMMA TrailKept == ASSUME RulesInv, UNCHANGED <<firings, threadState>> PROVE TrailStep
  BY DEF TrailStep, RulesInv

LEMMA TrailCascades == ASSUME RulesInv, NEW id, deleteRule(id) PROVE TrailStep
<1>1. firings' = afterDelete(id) /\ threadState' = threadState /\ inboxRules'[id] = NoRule
  BY DEF deleteRule, deleteRuleStatus, exists, RulesInv
<1>2. Len(firings) \in Nat
  BY DEF RulesInv
<1> QED
  BY <1>1, <1>2, CascadeKeeps DEF TrailStep

LEMMA TrailGrows == ASSUME RulesInv, NEW m \in Incoming, applyToMessage(m) PROVE TrailStep
<1>1. PICK result, more, M :
        /\ M = Matching(FALSE, factsOf(m)) /\ Explains(result, M)
        /\ more \in Seq(Firing) /\ firings' = firings \o more
        /\ \A n \in DOMAIN more : more[n].message = m
        /\ {more[n].actions : n \in DOMAIN more} = {r.actions : r \in M}
        /\ threadState' = IF result.priority # NoPriority \/ result.flagged
                          THEN [threadState EXCEPT ![ThreadOf[m]] = upsertThreadState(ThreadOf[m], result)]
                          ELSE threadState
  BY ApplyEffect
<1>2. PICK old : old = firings /\ old \in Seq(Firing)
  BY DEF RulesInv
<1>3. PICK k, len : k \in Nat /\ len \in Nat /\ k = Len(old) /\ len = Len(more) /\ DOMAIN old = 1 .. k /\ DOMAIN more = 1 .. len
  <2>1. more \in Seq(Firing)
    BY <1>1
  <2>2. Len(old) \in Nat /\ DOMAIN old = 1 .. Len(old) /\ Len(more) \in Nat /\ DOMAIN more = 1 .. Len(more)
    BY <1>2, <2>1
  <2> QED
    BY <2>2
<1>4. PICK s : s = old \o more
  OBVIOUS
<1>5. Len(s) = k + len /\ (\A n \in 1 .. k : s[n] = old[n]) /\ (\A n \in 1 .. len : s[k + n] = more[n])
  BY <1>1, <1>2, <1>3, <1>4
<1>6. firings' = s
  BY <1>1, <1>2, <1>4
<1> DEFINE new == {s[n] : n \in k + 1 .. k + len}
<1>7. new = {more[n] : n \in 1 .. len}
  <2>1. \A n \in k + 1 .. k + len : n - k \in 1 .. len /\ s[n] = more[n - k]
    BY <1>3, <1>5
  <2>2. \A n \in 1 .. len : k + n \in k + 1 .. k + len /\ s[k + n] = more[n]
    BY <1>3, <1>5
  <2> QED
    BY <2>1, <2>2
<1>8. \A f \in new : f.message = m /\ \E r \in M : f.actions = r.actions
  <2>1. \A n \in 1 .. len : more[n].message = m
    BY <1>1, <1>3
  <2>2. {more[n].actions : n \in 1 .. len} = {r.actions : r \in M}
    BY <1>1, <1>3
  <2>3. ASSUME NEW n \in 1 .. len PROVE \E r \in M : more[n].actions = r.actions
    <3>1. more[n].actions \in {r.actions : r \in M}
      BY <2>2
    <3> QED
      BY <3>1
  <2> QED
    BY <1>7, <2>1, <2>3
<1>9. \A r \in M : \E f \in new : f.actions = r.actions
  <2>1. {more[n].actions : n \in 1 .. len} = {r.actions : r \in M}
    BY <1>1, <1>3
  <2>2. ASSUME NEW r \in M PROVE \E n \in 1 .. len : more[n].actions = r.actions
    <3>1. r.actions \in {more[n].actions : n \in 1 .. len}
      BY <2>1
    <3> QED
      BY <3>1
  <2> QED
    BY <1>7, <2>2
<1> HIDE DEF new
<1>10. ASSUME NEW t \in RuleThreads, threadState'[t] # threadState[t]
       PROVE  /\ \A f \in new : ThreadOf[f.message] = t
              /\ PriorityExplained(threadState'[t].priority, new)
              /\ threadState'[t].flagged <=>
                   \/ \E f \in new : f.actions.flag
                   \/ (threadState[t] # NoRule /\ threadState[t].flagged)
  <2>1. t = ThreadOf[m] /\ (result.priority # NoPriority \/ result.flagged)
        /\ threadState'[t] = upsertThreadState(t, result)
    BY <1>1, <1>10 DEF RulesInv
  <2>2. PICK row : row = threadState'[t]
    OBVIOUS
  <2>3. row.priority = IF result.priority = NoPriority THEN "normal" ELSE result.priority
    BY <1>1, <2>1, <2>2, UpsertIsRow
  <2>4. row.flagged <=> (result.flagged \/ (threadState[t] # NoRule /\ threadState[t].flagged))
    <3>1. Explains(result, M)
      BY <1>1
    <3>2. upsertThreadState(t, result).flagged <=> (result.flagged \/ (threadState[t] # NoRule /\ threadState[t].flagged))
      BY <3>1, UpsertIsRow
    <3> QED
      BY <2>1, <2>2, <3>2
  <2>5. result.priority # NoPriority => \E r \in M : r.actions.priority = result.priority
    BY <1>1 DEF Explains
  <2>6. result.flagged <=> \E r \in M : r.actions.flag
    BY <1>1 DEF Explains
  <2>8. \A f \in new : ThreadOf[f.message] = t
    BY <1>8, <2>1
  <2>10. result.flagged <=> \E f \in new : f.actions.flag
    BY <1>8, <1>9, <2>6
  <2>11. PriorityExplained(row.priority, new)
    <3>1. CASE result.priority = NoPriority
      <4>1. row.priority = "normal" /\ result.flagged
        BY <2>1, <2>3, <3>1
      <4>2. \A r \in M : r.actions.priority = NoPriority
        BY <1>1, <3>1 DEF Explains
      <4>3. {f \in new : f.actions.priority # NoPriority} = {}
        BY <1>8, <4>2
      <4> QED
        BY <2>10, <4>1, <4>3 DEF PriorityExplained
    <3>2. CASE result.priority # NoPriority
      <4>1. row.priority = result.priority
        BY <2>3, <3>2
      <4>2. \E f \in new : f.actions.priority = row.priority /\ f.actions.priority # NoPriority
        BY <1>9, <2>5, <3>2, <4>1
      <4>3. \A f \in new : f.actions.priority # NoPriority =>
              priorityRank(row.priority) >= priorityRank(f.actions.priority)
        <5>1. \A r \in M : r.actions.priority # NoPriority =>
                priorityRank(result.priority) >= priorityRank(r.actions.priority)
          BY <1>1 DEF Explains
        <5>2. ASSUME NEW f \in new, f.actions.priority # NoPriority
              PROVE  priorityRank(row.priority) >= priorityRank(f.actions.priority)
          <6>1. PICK r \in M : f.actions = r.actions
            BY <1>8
          <6>2. r.actions.priority # NoPriority
            BY <5>2, <6>1
          <6>3. priorityRank(result.priority) >= priorityRank(r.actions.priority)
            BY <5>1, <6>2
          <6> QED
            BY <4>1, <6>1, <6>3
        <5> QED
          BY <5>2
      <4> QED
        BY <4>2, <4>3 DEF PriorityExplained
    <3> QED
      BY <3>1, <3>2
  <2> QED
    BY <2>2, <2>4, <2>8, <2>10, <2>11
<1>11. Len(firings') >= Len(firings)
  BY <1>2, <1>3, <1>5, <1>6
<1>12. \A n \in DOMAIN firings : firings'[n] = firings[n]
  BY <1>2, <1>3, <1>5, <1>6
<1>13. {firings'[n] : n \in Len(firings) + 1 .. Len(firings')} = new
  BY <1>2, <1>3, <1>5, <1>6 DEF new
<1> QED
  BY <1>10, <1>11, <1>12, <1>13 DEF TrailStep

LEMMA TrailHolds == RulesInv /\ [RulesNext]_rulesVars => TrailStep
<1> SUFFICES ASSUME RulesInv, [RulesNext]_rulesVars PROVE TrailStep
  OBVIOUS
<1>1. ASSUME NEW input \in RuleInputs, createRule(input) PROVE TrailStep
  BY <1>1, TrailKept DEF createRule
<1>2. ASSUME NEW id \in 0 .. MaxRules, NEW input \in RuleInputs, updateRule(id, input) PROVE TrailStep
  BY <1>2, TrailKept DEF updateRule
<1>3. ASSUME NEW id \in 0 .. MaxRules, deleteRule(id) PROVE TrailStep
  BY <1>3, TrailCascades
<1>4. ASSUME NEW m \in Incoming, applyToMessage(m) PROVE TrailStep
  BY <1>4, TrailGrows
<1>5. CASE UNCHANGED rulesVars
  BY <1>5, TrailKept DEF rulesVars
<1> QED
  BY <1>1, <1>2, <1>3, <1>4, <1>5 DEF RulesNext

\* Whatever rules are stored, and in whatever order they are evaluated, the outcome
\* on a message is the aggregate of the enabled rules that match it.
THEOREM OutcomeIsAlwaysAggregate == RulesSpec => []OutcomeIsAggregate
<1>1. RulesSpec => []RulesInv
  BY RulesStart, RulesStep, PTL DEF RulesSpec
<1> QED
  BY <1>1, OutcomeInvariant, PTL

\* Recorded firings are never lost nor rewritten, but for the id of a deleted rule, and
\* every change of a thread's priority or flag comes with the firings that explain it:
\* the priority is the highest they set, or normal where they only flag.
THEOREM TrailAlwaysExplains == RulesSpec => TrailExplainsState
<1>1. RulesSpec => []RulesInv
  BY RulesStart, RulesStep, PTL DEF RulesSpec
<1>2. RulesInv /\ [RulesNext]_rulesVars => [TrailStep]_rulesVars
  BY TrailHolds
<1>3. RulesSpec => [][TrailStep]_rulesVars
  BY <1>1, <1>2, PTL DEF RulesSpec
<1> QED
  BY <1>3 DEF TrailExplainsState, TrailStep, PriorityExplained
=============================================================================
