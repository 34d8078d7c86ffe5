------------------------------ MODULE Telegram ------------------------------
(***************************************************************************)
(* The Telegram channel (src/channels/telegram) as a view of the approval  *)
(* queue: each request is pushed with a keyboard to every admin chat, one  *)
(* awaited sendMessage after the other; the messages are edited when the   *)
(* request settles.  Telegram shows a message before sendMessage returns,  *)
(* so an admin may press a button while the push is still under way.       *)
(* Approval ids are fresh (randomUUID): the request itself serves as id.   *)
(***************************************************************************)
EXTENDS ApprovalQueue

CONSTANTS
  Chats       \* adminChatIds

ASSUME TelegramAssumption == Ids = Requests

VARIABLES
  todo,       \* chats pushApproval has still to send the request to
  refs,       \* its local refs: messages it knows it sent
  pushed,       \* TelegramChannel.sent ({}: no entry)
  editing,    \* chats renderOutcome has still to edit
  message,    \* what a chat shows of a request
  listening,  \* are the channel's listeners attached and the bot polling?
  failed      \* history: chats for which a call about the request was rejected

channelVars == <<todo, refs, pushed, editing, message, listening, failed>>
telegramVars == <<queueVars, channelVars>>

Shown == {"none", "keyboard", "bare", "outcome"}

ChannelInit ==
  /\ QueueInit
  /\ todo = [r \in Requests |-> {}]
  /\ refs = [r \in Requests |-> {}]
  /\ pushed = [r \in Requests |-> {}]
  /\ editing = [r \in Requests |-> {}]
  /\ message = [r \in Requests |-> [c \in Chats |-> "none"]]
  /\ listening = TRUE
  /\ failed = [r \in Requests |-> {}]

\* onRequest: pushApproval starts within request().
newRequest(r, timed) ==
  /\ request(r, r, timed)
  /\ todo' = IF listening THEN [todo EXCEPT ![r] = Chats] ELSE todo
  /\ UNCHANGED <<refs, pushed, editing, message, listening, failed>>

\* The sendMessage under way, if any, that Telegram has already shown.
InFlight(r) == {c \in todo[r] : message[r][c] # "none"}

telegramShows(r, c) ==
  /\ c \in todo[r]
  /\ InFlight(r) = {}
  /\ message' = [message EXCEPT ![r][c] = "keyboard"]
  /\ UNCHANGED <<queueVars, todo, refs, pushed, editing, listening, failed>>

\* After the last chat the refs become visible to renderOutcome.
afterSend(r, c, newRefs) ==
  /\ todo' = [todo EXCEPT ![r] = @ \ {c}]
  /\ refs' = [refs EXCEPT ![r] = newRefs]
  /\ pushed' = IF todo[r] = {c} /\ newRefs # {} THEN [pushed EXCEPT ![r] = newRefs] ELSE pushed
  /\ UNCHANGED <<queueVars, editing, message, listening>>

pushReturns(r, c) ==
  /\ c \in InFlight(r)
  /\ afterSend(r, c, refs[r] \cup {c})
  /\ UNCHANGED failed

\* sendMessage rejects: refused, or shown and its answer lost.
pushFails(r, c) ==
  /\ c \in todo[r]
  /\ InFlight(r) \subseteq {c}
  /\ afterSend(r, c, refs[r])
  /\ failed' = [failed EXCEPT ![r] = @ \cup {c}]

renderOutcome_FirstOnly(r) ==
  IF listening /\ pushed[r] # {}
  THEN /\ pushed' = [pushed EXCEPT ![r] = {}]
       /\ editing' = [editing EXCEPT ![r] = {CHOOSE c \in pushed[r] : TRUE}]
  ELSE UNCHANGED <<pushed, editing>>

\* onSettled, up to its first await.
renderOutcome(r) ==
  IF listening /\ pushed[r] # {}
  THEN /\ pushed' = [pushed EXCEPT ![r] = {}]
       /\ editing' = [editing EXCEPT ![r] = pushed[r]]
  ELSE UNCHANGED <<pushed, editing>>

editReturns(r, c) ==
  /\ c \in editing[r]
  /\ editing' = [editing EXCEPT ![r] = @ \ {c}]
  /\ message' = [message EXCEPT ![r][c] = "outcome"]
  /\ UNCHANGED <<queueVars, todo, refs, pushed, listening, failed>>

editFails(r, c) ==
  /\ c \in editing[r]
  /\ editing' = [editing EXCEPT ![r] = @ \ {c}]
  /\ failed' = [failed EXCEPT ![r] = @ \cup {c}]
  /\ UNCHANGED <<queueVars, todo, refs, pushed, message, listening>>

\* handleApprovalCallback: a button decides, or turns out to be stale and goes.
pressButton(r, c, d) ==
  /\ listening
  /\ message[r][c] = "keyboard"
  /\ IF outcome[r] = "waiting"
     THEN decide(r, d) /\ renderOutcome(r) /\ UNCHANGED message
     ELSE /\ message' = [message EXCEPT ![r][c] = "bare"]
          /\ UNCHANGED <<queueVars, pushed, editing>>
  /\ UNCHANGED <<todo, refs, listening, failed>>

\* A button of the /queue menu, or a decision made elsewhere in the process.
decideElsewhere(r, d) ==
  /\ decide(r, d)
  /\ renderOutcome(r)
  /\ UNCHANGED <<todo, refs, message, listening, failed>>

timesOut(r) ==
  /\ \E t \in timers : t.id = r /\ expire(t)
  /\ renderOutcome(r)
  /\ UNCHANGED <<todo, refs, message, listening, failed>>

stop ==
  /\ listening
  /\ listening' = FALSE
  /\ UNCHANGED <<queueVars, todo, refs, pushed, editing, message, failed>>

ChannelNext ==
  \/ \E r \in Requests :
       \/ \E timed \in BOOLEAN : newRequest(r, timed)
       \/ \E c \in Chats : \/ telegramShows(r, c)
                           \/ pushReturns(r, c)
                           \/ pushFails(r, c)
                           \/ editReturns(r, c)
                           \/ editFails(r, c)
                           \/ \E d \in Decision : pressButton(r, c, d)
       \/ \E d \in Decision : decideElsewhere(r, d)
       \/ timesOut(r)
  \/ stop

ChannelSpec == ChannelInit /\ [][ChannelNext]_telegramVars

-----------------------------------------------------------------------------
(* Properties.                                                             *)

\* The channel's maps and what the chats show keep their shape.
ChannelTypeOK ==
  /\ QueueTypeOK
  /\ todo \in [Requests -> SUBSET Chats] /\ refs \in [Requests -> SUBSET Chats]
  /\ pushed \in [Requests -> SUBSET Chats] /\ editing \in [Requests -> SUBSET Chats]
  /\ failed \in [Requests -> SUBSET Chats]
  /\ message \in [Requests -> [Chats -> Shown]]
  /\ listening \in BOOLEAN

\* No chat shows an outcome for a request that is still open: an edit never runs
\* ahead of the decision.
OutcomeShownIsReal ==
  /\ ChannelTypeOK
  /\ \A r \in Requests, c \in Chats :
       message[r][c] = "outcome" => outcome[r] \in OutcomeDecision

\* "Decision / timeout events edit the pushed messages to show the outcome"
\* (telegram-channel.ts:10): a settled request keeps its buttons in a chat only while
\* its edit is pending or its push unfinished, because a call for that chat failed,
\* or because the push ended after the decision, which leaves the entry in `sent`.
KeyboardAccounted ==
  listening =>
    \A r \in Requests, c \in Chats :
      outcome[r] \in OutcomeDecision /\ message[r][c] = "keyboard" =>
        c \in editing[r] \/ todo[r] # {} \/ c \in pushed[r] \/ c \in failed[r]

\* What the chats show follows the decision: no outcome before it, and no keyboard
\* after it but for a named cause.
ChatsFollowDecision == OutcomeShownIsReal /\ KeyboardAccounted
=============================================================================
