------------------------------ MODULE AutoReply ------------------------------
(***************************************************************************)
(* The auto-reply pipeline (src/routing/pipeline.ts) over its audit table  *)
(* (src/routing/audit-repository.ts), with the two deletions that run      *)
(* beside it: the retention prune (src/routing/retention-scheduler.ts) and *)
(* the right-to-delete cascade (src/crm/gdpr.ts).                          *)
(*                                                                         *)
(* The injected send "may be async": other handlers run while it awaits.   *)
(* The send of the server is a synchronous emit, for which evaluate() and  *)
(* resolve() finish before any other handler: `raced` stays empty then.    *)
(***************************************************************************)
EXTENDS Integers

CONSTANTS
  MaxRows,      \* bound on the audit rows ever inserted
  Texts,        \* reply texts
  Contacts,
  MaxCalls,     \* bound on the sends of one row in flight at once
  MaxCrashes    \* bound on how often the process is killed

ASSUME AutoReplyAssumption ==
  /\ MaxRows \in Nat /\ MaxCalls \in Nat /\ MaxCrashes \in Nat
  /\ Texts # {} /\ Contacts # {}

VARIABLES
  audit,       \* auto_reply_audit, by id (AUTOINCREMENT)
  calls,      \* the send() calls in flight
  texts,      \* per row, what was delivered to the contact
  times,      \* per row, how often: 0, 1, 2 = "several"
  raced,      \* history: rows resolved while a send of them was in flight
  lost,       \* history: rows of which a send was delivered and never finalized
  crashes

replyVars == <<audit, calls, texts, times, raced, lost, crashes>>

RowIds == 1 .. MaxRows
NoText == "none"
LiveRow == {"pending", "sent", "rejected"}

AuditRow == [outcome : LiveRow \cup {"new", "deleted"}, draft : Texts, final : Texts \cup {NoText},
        override : {"yes", "no"}, contact : Contacts]
Call == [row : RowIds, n : 1 .. MaxCalls, text : Texts, phase : {"sending", "delivered"}]

ReplyInit ==
  /\ audit = [i \in RowIds |-> [outcome |-> "new", draft |-> CHOOSE t \in Texts : TRUE,
                            final |-> NoText, override |-> "no",
                            contact |-> CHOOSE c \in Contacts : TRUE]]
  /\ calls = {}
  /\ texts = [i \in RowIds |-> {}]
  /\ times = [i \in RowIds |-> 0]
  /\ raced = {}
  /\ lost = {}
  /\ crashes = 0

Resolves(i) == raced' = IF \E c \in calls : c.row = i THEN raced \cup {i} ELSE raced

-----------------------------------------------------------------------------

startSend(i, text) ==
  \E n \in 1 .. MaxCalls :
    /\ \A c \in calls : c.row = i => c.n # n
    /\ calls' = calls \cup {[row |-> i, n |-> n, text |-> text, phase |-> "sending"]}

\* evaluate(): the row is recorded pending; it is sent at once if the switch is on
\* and the scores clear both gates.
evaluate(i, draft, contact, posturePermitsSend) ==
  /\ audit[i].outcome = "new"
  /\ \A j \in RowIds : j < i => audit[j].outcome # "new"
  /\ audit' = [audit EXCEPT ![i] = [outcome |-> "pending", draft |-> draft, final |-> NoText,
                                  override |-> "no", contact |-> contact]]
  /\ IF posturePermitsSend THEN startSend(i, draft) ELSE UNCHANGED calls
  /\ UNCHANGED <<texts, times, raced, lost, crashes>>

approve_Rejected(i, text) ==
  /\ audit[i].outcome \in {"pending", "rejected"}
  /\ startSend(i, text)
  /\ Resolves(i)
  /\ UNCHANGED <<audit, texts, times, lost, crashes>>

\* resolve() with approve: the edited text or the draft is sent.
approve(i, text) ==
  /\ audit[i].outcome = "pending"
  /\ startSend(i, text)
  /\ Resolves(i)
  /\ UNCHANGED <<audit, texts, times, lost, crashes>>

\* resolve() without.
reject(i) ==
  /\ audit[i].outcome = "pending"
  /\ audit' = [audit EXCEPT ![i].outcome = "rejected"]
  /\ Resolves(i)
  /\ UNCHANGED <<calls, texts, times, lost, crashes>>

\* The reply reaches the contact; send() has not returned yet.
delivers(c) ==
  /\ c.phase = "sending"
  /\ calls' = (calls \ {c}) \cup {[c EXCEPT !.phase = "delivered"]}
  /\ texts' = [texts EXCEPT ![c.row] = @ \cup {c.text}]
  /\ times' = [times EXCEPT ![c.row] = IF @ = 2 THEN 2 ELSE @ + 1]
  /\ UNCHANGED <<audit, raced, lost, crashes>>

finalize_Upsert(c) ==
  /\ c.phase = "delivered"
  /\ calls' = calls \ {c}
  /\ audit' = [audit EXCEPT ![c.row] =
                [@ EXCEPT !.outcome = "sent", !.final = c.text,
                          !.override = IF c.text # audit[c.row].draft THEN "yes" ELSE audit[c.row].override]]
  /\ UNCHANGED <<texts, times, raced, lost, crashes>>

\* send() resolved: finalize() sets the outcome, whatever it is by now, or throws
\* because the row was deleted meanwhile.
finalize(c) ==
  /\ c.phase = "delivered"
  /\ calls' = calls \ {c}
  /\ audit' = IF audit[c.row].outcome \in LiveRow
             THEN [audit EXCEPT ![c.row] =
                    [@ EXCEPT !.outcome = "sent", !.final = c.text,
                              !.override = IF c.text # audit[c.row].draft THEN "yes" ELSE audit[c.row].override]]
             ELSE audit
  /\ UNCHANGED <<texts, times, raced, lost, crashes>>

\* The rows whose reply reached the contact although the call goes unfinished.
Delivered(cs) == {c.row : c \in {d \in cs : d.phase = "delivered"}}

\* send() rejects: nothing was delivered or, over a network, its answer was lost.
\* The row stays as it is.
sendThrows(c) ==
  /\ calls' = calls \ {c}
  /\ lost' = lost \cup Delivered({c})
  /\ UNCHANGED <<audit, texts, times, raced, crashes>>

Delete(S) ==
  audit' = [i \in RowIds |-> IF i \in S /\ audit[i].outcome \in LiveRow
                         THEN [audit[i] EXCEPT !.outcome = "deleted"] ELSE audit[i]]

\* Both bounds of prune(), age and cap, remove the oldest rows.
prune(last) ==
  /\ Delete(1 .. last)
  /\ UNCHANGED <<calls, texts, times, raced, lost, crashes>>

deleteByContact(contact) ==
  /\ Delete({i \in RowIds : audit[i].contact = contact})
  /\ UNCHANGED <<calls, texts, times, raced, lost, crashes>>

crash ==
  /\ crashes < MaxCrashes
  /\ crashes' = crashes + 1
  /\ calls' = {}
  /\ lost' = lost \cup Delivered(calls)
  /\ UNCHANGED <<audit, texts, times, raced>>

ReplyNext ==
  \/ \E i \in RowIds : \/ \E t \in Texts, c \in Contacts, b \in BOOLEAN : evaluate(i, t, c, b)
                       \/ \E t \in Texts : approve(i, t)
                       \/ reject(i)
                       \/ prune(i)
  \/ \E c \in calls : delivers(c) \/ finalize(c) \/ sendThrows(c)
  \/ \E c \in Contacts : deleteByContact(c)
  \/ crash

ReplySpec == ReplyInit /\ [][ReplyNext]_replyVars

-----------------------------------------------------------------------------
(* Properties.                                                             *)

\* The table and the sends in flight keep their shape.
TypeOK ==
  /\ audit \in [RowIds -> AuditRow]
  /\ calls \subseteq Call
  /\ texts \in [RowIds -> SUBSET Texts]
  /\ times \in [RowIds -> 0 .. 2]
  /\ raced \subseteq RowIds /\ lost \subseteq RowIds
  /\ crashes \in 0 .. MaxCrashes

\* The ledger does not lie: a row that says "sent" records a text the contact
\* really received, and a human edit never passes for the model's own words
\* (human_override), even when several resolutions of it overlap.
SentWasDelivered ==
  /\ TypeOK
  /\ \A i \in RowIds : audit[i].outcome = "sent" =>
       /\ audit[i].final \in texts[i]
       /\ audit[i].final # audit[i].draft => audit[i].override = "yes"

\* Right to delete: no send that finishes late brings a deleted row back.
DeletionIsFinal ==
  [][\A i \in RowIds : audit[i].outcome = "deleted" => audit'[i] = audit[i]]_replyVars

\* A contact receives one reply per row at most, and none for a row that says
\* "rejected" ("sends nothing", docs/ARCHITECTURE.md:759), unless the row was
\* resolved under a send of it, or a send was delivered and its answer lost.
SentOnce ==
  \A i \in RowIds \ (raced \cup lost) :
    times[i] <= 1 /\ (audit[i].outcome = "rejected" => times[i] = 0)

\* An outcome, once set, is not revised, unless the row was resolved under a send of
\* it: only the row may go.
OutcomeStands ==
  [][\A i \in RowIds \ raced : audit[i].outcome \in {"sent", "rejected"}
                      => audit'[i] = audit[i] \/ audit'[i].outcome = "deleted"]_replyVars

\* The audit tells what the contact received: the text, and how often.
AuditTellsWhatWasSent == SentWasDelivered /\ SentOnce

\* The audit only grows or is deleted: no late send revises an outcome or brings a
\* deleted row back.
AuditIsFinal == DeletionIsFinal /\ OutcomeStands
=============================================================================
