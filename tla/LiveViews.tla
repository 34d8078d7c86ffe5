------------------------------ MODULE LiveViews ------------------------------
(***************************************************************************)
(* The pages of the web UI as live views of the server's tables            *)
(* (ui/lib/*.ts with React Query, ui/components, ui/app/providers.tsx).    *)
(*                                                                         *)
(* One browser window shows one page.  A table is abstracted to the number *)
(* of changes made to it.  A page reads its queries over HTTP, hears of    *)
(* changes over the websocket, and re-reads what an event or an answer to  *)
(* its own request invalidates.  The two channels are not ordered with     *)
(* respect to each other; the socket may drop and lose events; the page    *)
(* may be left and opened again within the cache's staleTime.              *)
(*                                                                         *)
(* `told' is history: the newest change of each query this window has been *)
(* told of, by an event its page listens to or by an answer to its own     *)
(* request.                                                                *)
(***************************************************************************)
EXTENDS Integers, FiniteSets, SequencesExt

CONSTANTS MaxChanges,   \* changes made on the server to each table of a page
          ChangeOnce,   \* the pages whose tables change once at most
          MaxDrops      \* times the socket drops or the page is left

Pages == {"outbox", "calendar", "inbox", "contacts", "auto-reply", "analytics", "quota"}

ASSUME LiveAssumption == MaxChanges \in Nat /\ ChangeOnce \subseteq Pages /\ MaxDrops \in Nat

VARIABLES page,       \* the page of this window
          serverAt,   \* query -> changes made on the server
          shown,      \* query -> the change its cached data reflects; -1: no data
          reading,    \* query -> the request in flight
          invalid,    \* queries invalidated since they were last read
          errored,    \* queries whose last read failed
          opened,     \* is the page on screen
          picked,     \* the thread picked in the inbox
          online,     \* is the socket connected
          wire,       \* events on their way to this window
          ask,        \* this window's own request
          told,       \* history, see above
          drops

liveVars == <<page, serverAt, shown, reading, invalid, errored, opened, picked, online, wire, ask, told, drops>>

-----------------------------------------------------------------------------
(* What each client library reads, under which query key.                   *)

outboxReads    == {<<"outbox", "list">>, <<"outbox", "dlq">>}
inboxReads     == {<<"inbox", "threads">>, <<"inbox", "thread", "a">>, <<"inbox", "thread", "b">>}
crmReads       == {<<"crm", "contacts">>, <<"crm", "contact">>}     \* and the suggested merges, alike
autoReplyReads == {<<"auto-reply", "rulebook">>, <<"auto-reply", "audit">>}
analyticsReads == {<<"analytics", "summary">>, <<"analytics", "top-posts">>}  \* and two more alike
quotaReads     == {<<"twitter", "quota">>}

\* The queries the page of this window may read.
Queries == CASE page \in {"outbox", "calendar"} -> outboxReads
             [] page = "inbox"      -> inboxReads
             [] page = "contacts"   -> crmReads
             [] page = "auto-reply" -> autoReplyReads
             [] page = "analytics"  -> analyticsReads
             [] page = "quota"      -> quotaReads

-----------------------------------------------------------------------------
(* What the server does: the queries an operation changes and the event it  *)
(* emits ("none": it is not announced).  `after' holds the key prefixes     *)
(* this UI's mutation hook invalidates on success, {} when no hook of this  *)
(* page asks for the operation.                                             *)

Operation(changes, event, after) == [changes |-> changes, event |-> event, after |-> after]

useInvalidateOutbox == {<<"outbox">>}

outboxOperations ==
    LET list == {<<"outbox", "list">>} IN
    {Operation(list, e, useInvalidateOutbox) : e \in {"outbox:created", "outbox:retried", "outbox:deleted"}}
    \cup {Operation(list, e, {}) : e \in {"outbox:updated", "outbox:scheduled", "outbox:published", "none"}}
    \cup {Operation(outboxReads, "outbox:failed", {})}

calendarOperations == {Operation({<<"outbox", "list">>}, "outbox:rescheduled", useInvalidateOutbox)}

\* A new message is stored by pollers and webhooks without an event.
inboxOperations(t) ==
    LET threads == <<"inbox", "threads">>
        thread  == <<"inbox", "thread", t>> IN
    {Operation({threads, thread}, "inbox:reply", {thread, threads}),
     Operation({threads}, "inbox:read", {}),
     Operation({threads, thread}, "none", {})}

crmOperations == {Operation(crmReads, "crm:merge", {<<"crm">>}), Operation(crmReads, "none", {<<"crm">>})}

\* Saving the rulebook puts the answer in the cache instead of invalidating it.
useSaveRulebook == Operation({<<"auto-reply", "rulebook">>}, "none", {})

useResolveAudit == {<<"auto-reply", "audit">>}

autoReplyOperations ==
    LET audit == {<<"auto-reply", "audit">>} IN
    {Operation(audit, e, useResolveAudit) : e \in {"autoReply:sent", "autoReply:rejected"}}
    \cup {Operation(audit, e, {}) : e \in {"autoReply:queued", "none"}}
    \cup {useSaveRulebook}

analyticsOperations == {Operation(analyticsReads, "analytics:updated", {})}

\* Only a write that crosses a threshold is announced, with the new summary.
quotaOperations == {Operation(quotaReads, e, {}) : e \in {"twitter:quota", "none"}}

-----------------------------------------------------------------------------
(* What each hook listens to, and the key prefix it then invalidates.       *)

OUTBOX_EVENTS_NoDeleted == {"outbox:created", "outbox:updated", "outbox:scheduled", "outbox:rescheduled",
                            "outbox:retried", "outbox:published", "outbox:failed"}
OUTBOX_EVENTS == {"outbox:created", "outbox:updated", "outbox:scheduled", "outbox:rescheduled",
                  "outbox:retried", "outbox:deleted", "outbox:published", "outbox:failed"}

useOutbox(e)        == IF e \in OUTBOX_EVENTS THEN {<<"outbox">>} ELSE {}
useOutboxDlq(e)     == IF e = "outbox:failed" THEN {<<"outbox", "dlq">>} ELSE {}
useInboxThreads(e)  == IF e \in {"inbox:message", "inbox:reply", "inbox:read"} THEN {<<"inbox", "threads">>} ELSE {}
useContacts(e)      == IF e = "crm:merge" THEN {<<"crm">>} ELSE {}
useAuditLog(e)      == IF e \in {"autoReply:sent", "autoReply:queued", "autoReply:rejected"}
                       THEN {<<"auto-reply", "audit">>} ELSE {}
useAnalyticsLiveRefresh(e) == IF e = "analytics:updated" THEN {<<"analytics">>} ELSE {}

-----------------------------------------------------------------------------
(* The pages: the queries on screen, the events' effect, the operations.    *)

View(reads, hears(_), operations) == [reads |-> reads,
                                      hears |-> [e \in OUTBOX_EVENTS \cup {o.event : o \in operations} |-> hears(e)],
                                      operations |-> operations]

OutboxView    == LET hears(e) == useOutbox(e) \cup useOutboxDlq(e)
                 IN  View(outboxReads, hears, outboxOperations)
CalendarView  == View({<<"outbox", "list">>}, useOutbox, calendarOperations \cup outboxOperations)
InboxView     == View({<<"inbox", "threads">>} \cup (IF picked = "none" THEN {} ELSE {<<"inbox", "thread", picked>>}),
                      useInboxThreads, inboxOperations("a") \cup inboxOperations("b"))
ContactsView  == View(crmReads, useContacts, crmOperations)
AutoReplyView == View(autoReplyReads, useAuditLog, autoReplyOperations)
AnalyticsView == View(analyticsReads, useAnalyticsLiveRefresh, analyticsOperations)
TwitterQuotaPanel == LET hears(e) == {} IN View(quotaReads, hears, quotaOperations)

Shown == CASE page = "outbox"     -> OutboxView
           [] page = "calendar"   -> CalendarView
           [] page = "inbox"      -> InboxView
           [] page = "contacts"   -> ContactsView
           [] page = "auto-reply" -> AutoReplyView
           [] page = "analytics"  -> AnalyticsView
           [] page = "quota"      -> TwitterQuotaPanel

Observed == IF opened THEN Shown.reads ELSE {}

-----------------------------------------------------------------------------
(* React Query.                                                             *)

Idle  == [at |-> "idle", version |-> 0]
Asked == [at |-> "asked", version |-> 0]

Busy(q) == reading[q].at # "idle"

Under(prefixes) == {q \in Queries : \E p \in prefixes : IsPrefix(p, q)}

\* invalidateQueries: an observed query with data starts over, cancelling the
\* read in flight; one still on its first read keeps that read; one nobody
\* observes is read when it is next observed.
Invalidated(prefixes) ==
    /\ reading' = [q \in Queries |-> IF q \in Under(prefixes) \cap Observed /\ (shown[q] >= 0 \/ ~Busy(q))
                                     THEN Asked ELSE reading[q]]
    /\ invalid' = invalid \cup Under(prefixes)

\* A query that comes on screen is read unless its data is younger than
\* staleTime; one that leaves the screen has its read aborted.
Mounted(queries, aged) ==
    reading' = [q \in Queries |-> IF q \notin queries THEN Idle
                                  ELSE IF q \in Observed THEN reading[q]
                                  ELSE IF shown[q] < 0 \/ q \in invalid \/ aged THEN Asked ELSE Idle]

-----------------------------------------------------------------------------
NoRequest == [at |-> "none", op |-> useSaveRulebook, thread |-> "none", version |-> [q \in Queries |-> 0]]

\* The providers make one query client and one socket for the window.
Providers ==
    /\ shown = [q \in Queries |-> -1] /\ serverAt = [q \in Queries |-> 0] /\ told = [q \in Queries |-> -1]
    /\ invalid = {} /\ errored = {} /\ wire = <<>> /\ online = TRUE /\ drops = 0
    /\ ask = NoRequest

LiveInit == /\ page \in Pages
            /\ opened = TRUE /\ picked = "none"
            /\ Providers
            /\ reading = [q \in Queries |-> IF q \in Shown.reads THEN Asked ELSE Idle]

\* The server executes operation op and emits its event to the sockets.
Executed(op) ==
    /\ \A q \in Queries : serverAt[q] < (IF page \in ChangeOnce THEN 1 ELSE MaxChanges)
    /\ serverAt' = [q \in Queries |-> IF q \in op.changes THEN serverAt[q] + 1 ELSE serverAt[q]]
    /\ wire' = IF online /\ op.event # "none"
               THEN Append(wire, [op |-> op, version |-> serverAt'])
               ELSE wire

\* Another window, a poller or a scheduler changes the data.
SomeoneElse == \E op \in Shown.operations :
    /\ Executed(op)
    /\ UNCHANGED <<page, shown, reading, invalid, errored, opened, picked, online, ask, told, drops>>

\* A mutation hook sends its request; a reply goes to the thread picked.
mutate == \E op \in {o \in Shown.operations : o.after # {} \/ o = useSaveRulebook} :
    /\ opened /\ ask.at = "none"
    /\ page = "inbox" => picked # "none" /\ op \in inboxOperations(picked)
    /\ ask' = [NoRequest EXCEPT !.at = "sent", !.op = op, !.thread = picked]
    /\ UNCHANGED <<page, serverAt, shown, reading, invalid, errored, opened, picked, online, wire, told, drops>>

serve == /\ ask.at = "sent"
         /\ Executed(ask.op)
         /\ ask' = [ask EXCEPT !.at = "done", !.version = serverAt']
         /\ UNCHANGED <<page, shown, reading, invalid, errored, opened, picked, online, told, drops>>

refuse == /\ ask.at = "sent" /\ ask' = NoRequest
          /\ UNCHANGED <<page, serverAt, shown, reading, invalid, errored, opened, picked, online, wire, told, drops>>

\* useMutation runs the latest render's onSuccess: useSendReply invalidates
\* the thread that is picked when the answer arrives.
useSendReply == {<<"inbox", "thread", picked>>, <<"inbox", "threads">>}

onSuccess == IF page = "inbox" THEN useSendReply ELSE ask.op.after

Newer(q, version) == IF version > told[q] THEN version ELSE told[q]

\* The answer arrives.
answer ==
    /\ ask.at = "done" /\ ask' = NoRequest
    /\ LET save == ask.op = useSaveRulebook
           moved == page = "inbox" /\ picked # ask.thread
       IN  /\ IF save THEN /\ shown' = [q \in Queries |-> IF q \in ask.op.changes THEN ask.version[q] ELSE shown[q]]
                           /\ invalid' = invalid \ ask.op.changes /\ UNCHANGED reading
                      ELSE Invalidated(onSuccess) /\ UNCHANGED shown
           /\ told' = [q \in Queries |->
                         IF \/ q \notin ask.op.changes
                            \/ Busy(q) /\ (save \/ shown[q] < 0)
                            \/ moved /\ q = <<"inbox", "thread", ask.thread>>
                         THEN told[q] ELSE Newer(q, ask.version[q])]
    /\ UNCHANGED <<page, serverAt, errored, opened, picked, online, wire, drops>>

\* An event arrives.  The quota panel takes its summary as it is.
event ==
    /\ wire # <<>> /\ wire' = Tail(wire)
    /\ LET e == Head(wire)
           heard == Under(Shown.hears[e.op.event]) IN
       /\ IF ~opened THEN UNCHANGED <<shown, reading, invalid>>
          ELSE IF page = "quota"
          THEN /\ shown' = [q \in Queries |-> IF q \in e.op.changes THEN e.version[q] ELSE shown[q]]
               /\ UNCHANGED <<reading, invalid>>
          ELSE Invalidated(Shown.hears[e.op.event]) /\ UNCHANGED shown
       /\ told' = [q \in Queries |->
                     IF \/ ~opened \/ q \notin e.op.changes \cap Observed
                        \/ Busy(q) /\ (page = "quota" \/ shown[q] < 0)
                        \/ page = "inbox" /\ q \notin heard
                     THEN told[q] ELSE Newer(q, e.version[q])]
    /\ UNCHANGED <<page, serverAt, errored, opened, picked, online, ask, drops>>

\* A read: the server answers from its tables, and the answer arrives.
readServer == \E q \in Queries :
    /\ reading[q].at = "asked"
    /\ reading' = [reading EXCEPT ![q] = [at |-> "answered", version |-> serverAt[q]]]
    /\ UNCHANGED <<page, serverAt, shown, invalid, errored, opened, picked, online, wire, ask, told, drops>>

readArrives == \E q \in Queries :
    /\ reading[q].at = "answered"
    /\ shown' = [shown EXCEPT ![q] = reading[q].version]
    /\ reading' = [reading EXCEPT ![q] = Idle]
    /\ invalid' = invalid \ {q} /\ errored' = errored \ {q}
    /\ UNCHANGED <<page, serverAt, opened, picked, online, wire, ask, told, drops>>

\* Both tries of a read fail (retry: 1).
readFails == \E q \in Queries :
    /\ Busy(q) /\ drops < MaxDrops /\ drops' = drops + 1
    /\ reading' = [reading EXCEPT ![q] = Idle] /\ errored' = errored \cup {q}
    /\ UNCHANGED <<page, serverAt, shown, invalid, opened, picked, online, wire, ask, told>>

\* The user picks a thread: it comes on screen and is marked read.
handleSelect == \E t \in {"a", "b"} \ {picked}, aged \in BOOLEAN :
    /\ page = "inbox" /\ opened /\ picked' = t
    /\ Mounted({<<"inbox", "threads">>, <<"inbox", "thread", t>>}, aged)
    /\ UNCHANGED <<page, serverAt, shown, invalid, errored, opened, online, wire, ask, told, drops>>

leave == /\ opened /\ drops < MaxDrops /\ opened' = FALSE /\ drops' = drops + 1 /\ picked' = "none"
         /\ Mounted({}, FALSE)
         /\ UNCHANGED <<page, serverAt, shown, invalid, errored, online, wire, ask, told>>

comeBack == \E aged \in BOOLEAN :
    /\ ~opened /\ opened' = TRUE
    /\ Mounted(Shown.reads, aged)
    /\ UNCHANGED <<page, serverAt, shown, invalid, errored, picked, online, wire, ask, told, drops>>

\* The socket drops with what it carried, and connects again; nothing is re-read.
disconnect == /\ online /\ drops < MaxDrops /\ online' = FALSE /\ wire' = <<>> /\ drops' = drops + 1
              /\ UNCHANGED <<page, serverAt, shown, reading, invalid, errored, opened, picked, ask, told>>

connect == /\ ~online /\ online' = TRUE
           /\ UNCHANGED <<page, serverAt, shown, reading, invalid, errored, opened, picked, wire, ask, told, drops>>

LiveNext == \/ SomeoneElse \/ mutate \/ serve \/ refuse \/ answer \/ event
            \/ readServer \/ readArrives \/ readFails
            \/ handleSelect \/ leave \/ comeBack \/ disconnect \/ connect

LiveSpec == LiveInit /\ [][LiveNext]_liveVars

-----------------------------------------------------------------------------
(* Properties.                                                              *)

Settled(q) == q \in Observed /\ ~Busy(q) /\ q \notin errored

\* A query on screen with no read in flight shows every change this window has
\* been told of, whatever order its reads, its events and the answers to its
\* own requests arrived in, and although a read that was in flight when the
\* change was announced answers with older data.
ShowsWhatItWasTold == \A q \in Queries : Settled(q) => shown[q] >= told[q]

\* docs/USER_GUIDE.md:263: the inbox "list updates live as new messages
\* arrive".  With the socket connected throughout, the page open throughout
\* and nothing on its way, the list shows every stored message.
NewMessagesAppear ==
    (page = "inbox" /\ drops = 0 /\ wire = <<>> /\ Settled(<<"inbox", "threads">>))
        => shown[<<"inbox", "threads">>] = serverAt[<<"inbox", "threads">>]
=============================================================================
