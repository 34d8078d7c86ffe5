------------------------------- MODULE Inbox --------------------------------
(***************************************************************************)
(* The conversations of the unified inbox: connectors poll messages into   *)
(* the social brain (src/platform/social-brain/repository.ts), clients     *)
(* read threads (src/inbox/repository.ts) and reply to them                *)
(* (src/server/inbox/router.ts) over a platform that answers late, without *)
(* an id, or not at all, while the pollers go on.                          *)
(***************************************************************************)
EXTENDS Integers, Sequences, SequencesExt, FiniteSetsExt, FiniteSets

CONSTANTS
  Threads,        \* platform threads
  PlatformOf,     \* per thread, its platform
  Written,        \* messages written on the platforms themselves
  Own,            \* those of them that the user wrote, on the platform
  Replies,        \* replies that clients send
  Early,          \* those of them that are there when the server starts
  InThread,       \* per message of Written, its thread
  Undated,        \* the messages whose platform gives no time
  Registered,     \* the platforms of the DM sender registry
  Drafts,         \* [kind, length, media] that clients send
  Opened,         \* bound: the threads that clients open
  DayLength, MaxNow,
  Me, NoOne, NoStamp, NoThread

ASSUME InboxAssumption ==
  /\ \A m \in Written : InThread[m] \in Threads
  /\ Written \cap Replies = {} /\ Early \subseteq Written
  /\ DayLength \in Nat \ {0} /\ MaxNow \in Nat
  /\ {Me, NoOne, NoThread} \cap Threads = {} /\ Me \notin {NoOne, NoThread} /\ NoOne # NoThread
  /\ NoStamp \notin Nat /\ NoStamp \notin Nat \X {0, 1} \X Nat

VARIABLES
  now,
  sent,       \* the platforms: per message, the moment it was written, or NoStamp
  threads,    \* social_threads: the contact of a thread, NoOne, or NoThread
  rows,       \* social_messages
  lastRead,   \* inbox_thread_state.last_read_at
  replies     \* per reply, where its handler stands

inboxVars == <<now, sent, threads, rows, lastRead, replies>>

-----------------------------------------------------------------------------
(* Platform limits.                                                        *)

Limits(dm, dmChars, commentChars, media) ==
  [dmSupported |-> dm, dm |-> dmChars, comment |-> commentChars, maxMedia |-> media]

PLATFORM_LIMITS ==
  [instagram |-> Limits(TRUE, 1000, 2200, 1), facebook |-> Limits(TRUE, 2000, 8000, 1),
   threads |-> Limits(FALSE, 0, 500, 1), youtube |-> Limits(FALSE, 0, 10000, 0),
   linkedin |-> Limits(FALSE, 0, 1250, 0), twitter |-> Limits(TRUE, 10000, 280, 4)]

DEFAULT_LIMITS == Limits(FALSE, 0, 1000, 0)

limitsFor(platform) ==
  IF platform \in DOMAIN PLATFORM_LIMITS THEN PLATFORM_LIMITS[platform] ELSE DEFAULT_LIMITS

validateReply(platform, kind, draft) ==
  LET limits == limitsFor(platform) IN
  /\ draft.length > 0
  /\ kind = "dm" => limits.dmSupported
  /\ draft.length <= limits[kind]
  /\ draft.media <= limits.maxMedia

\* The browser keeps a copy of the table (ui/lib/inbox.ts).
CLIENT_LIMITS_Stale == [PLATFORM_LIMITS EXCEPT !.twitter = Limits(TRUE, 10000, 500, 4)]

CLIENT_LIMITS ==
  [instagram |-> Limits(TRUE, 1000, 2200, 1), facebook |-> Limits(TRUE, 2000, 8000, 1),
   threads |-> Limits(FALSE, 0, 500, 1), youtube |-> Limits(FALSE, 0, 10000, 0),
   linkedin |-> Limits(FALSE, 0, 1250, 0), twitter |-> Limits(TRUE, 10000, 280, 4)]

\* The composer lets a text through that fits the surface it is shown for.
canSend(platform, kind, draft) ==
  LET limits == IF platform \in DOMAIN CLIENT_LIMITS THEN CLIENT_LIMITS[platform] ELSE DEFAULT_LIMITS
  IN  draft.length > 0 /\ draft.length <= limits[kind]

-----------------------------------------------------------------------------
(* Stamps.  Texts compare letter by letter: within a day "2026-01-01 10:00" *)
(* (SQLite) comes before any "2026-01-01T10:00Z" (JavaScript).             *)

Sql(t) == <<t \div DayLength, 0, t % DayLength>>
Iso(t) == <<t \div DayLength, 1, t % DayLength>>
Later(a, b) ==
  \E n \in 1 .. 3 : a[n] > b[n] /\ \A k \in 1 .. n - 1 : a[k] = b[k]

-----------------------------------------------------------------------------
(* The social brain.                                                       *)

Row(pid, thread, direction, kind, sentAt) ==
  [pid |-> pid, thread |-> thread, direction |-> direction, kind |-> kind, sentAt |-> sentAt,
   created |-> now]
Known(pid) == \E row \in rows : row.pid = pid
Native(m) == <<"native", m>>
Local(r) == <<"local", r>>

\* Idempotent on the platform's id; neither the direction nor created_at is
\* updated, and a time that is missing keeps the stored one.
storeMessage(row) ==
  IF ~Known(row.pid) THEN rows \cup {row}
  ELSE {IF old.pid # row.pid THEN old
        ELSE [row EXCEPT !.direction = old.direction, !.created = old.created,
                         !.sentAt = IF @ = NoStamp THEN old.sentAt ELSE @] : old \in rows}

\* A contact that is missing keeps the stored one.
upsertThread(t, contact) ==
  [threads EXCEPT ![t] = IF contact # NoOne THEN contact ELSE IF @ = NoThread THEN NoOne ELSE @]

InboxInit ==
  /\ now = 0
  /\ sent = [m \in Written \cup Replies |-> IF m \in Early THEN 0 ELSE NoStamp]
  /\ threads = [t \in Threads |-> NoThread]
  /\ rows = {}
  /\ lastRead = [t \in Threads |-> NoStamp]
  /\ replies = [r \in Replies |-> [phase |-> "new"]]

Tick == now < MaxNow /\ now' = now + 1 /\ UNCHANGED <<sent, threads, rows, lastRead, replies>>

ThreadOfMessage(m) == IF m \in Written THEN InThread[m] ELSE replies[m].thread
\* A thread has one other party.
Sender(m) == IF m \in Own \cup Replies THEN Me ELSE ThreadOfMessage(m)
SentAt(m) == IF m \in Undated THEN NoStamp ELSE Iso(sent[m])

write(m) ==
  /\ m \in Written /\ sent[m] = NoStamp
  /\ sent' = [sent EXCEPT ![m] = now]
  /\ UNCHANGED <<now, threads, rows, lastRead, replies>>

\* A poll stores the messages of its answer that are not stored yet; the
\* answer may be older than the store.
Polled(m, platform) ==
  /\ sent[m] # NoStamp /\ PlatformOf[ThreadOfMessage(m)] = platform /\ ~Known(Native(m))
  /\ UNCHANGED <<now, sent, lastRead, replies>>

\* X: every event is inbound, and its sender becomes the thread's contact.
pollTwitterDm(m) ==
  /\ Polled(m, "twitter")
  /\ threads' = upsertThread(ThreadOfMessage(m), Sender(m))
  /\ rows' = storeMessage(Row(Native(m), ThreadOfMessage(m), "inbound", "dm", SentAt(m)))

\* Instagram: a message from the account itself is outbound; the thread is
\* stored without a contact.
isOutbound(m) == Sender(m) = Me

pollInstagram(m) ==
  /\ Polled(m, "instagram")
  /\ threads' = upsertThread(ThreadOfMessage(m), NoOne)
  /\ rows' = storeMessage(Row(Native(m), ThreadOfMessage(m), IF isOutbound(m) THEN "outbound" ELSE "inbound",
                               "dm", SentAt(m)))

\* LinkedIn (and Threads): a comment is stored without the kind that marks one,
\* and a message without a kind reads as a dm.
pollComments(m) ==
  /\ Polled(m, "linkedin")
  /\ threads' = upsertThread(ThreadOfMessage(m), NoOne)
  /\ rows' = storeMessage(Row(Native(m), ThreadOfMessage(m), "inbound", "dm", SentAt(m)))

\* A poll without news stores the thread all the same, but for X's.
pollNothing(t) ==
  /\ PlatformOf[t] # "twitter"
  /\ threads' = upsertThread(t, NoOne)
  /\ UNCHANGED <<now, sent, rows, lastRead, replies>>

-----------------------------------------------------------------------------
(* Reading.                                                                *)

stampOf(row) == IF row.sentAt # NoStamp THEN row.sentAt ELSE Sql(row.created)

Unread(t, stamp(_)) ==
  Cardinality({row \in rows : /\ row.thread = t /\ row.direction = "inbound"
                              /\ lastRead[t] = NoStamp \/ Later(stamp(row), lastRead[t])})

unreadCount(t) == Unread(t, stampOf)

\* The sections of a thread: no DMs where the platform has none.
getThread(t) ==
  LET section(kind) == {row \in rows : row.thread = t /\ row.kind = kind} IN
  [contact |-> threads[t],
   dms |-> IF limitsFor(PlatformOf[t]).dmSupported THEN section("dm") ELSE {},
   comments |-> section("comment")]

markRead(t) ==
  /\ threads[t] # NoThread
  /\ lastRead' = [lastRead EXCEPT ![t] = Iso(now)]
  /\ UNCHANGED <<now, sent, threads, rows, replies>>

-----------------------------------------------------------------------------
(* Replying.                                                               *)

kindOf(t, draft) ==
  IF draft.kind \in {"dm", "comment"} THEN draft.kind
  ELSE IF limitsFor(PlatformOf[t]).dmSupported THEN "dm" ELSE "comment"

supports(platform) == platform \in Registered

\* The answer of handleReply() before anything is sent; 0: it goes on.
replyStatus(t, draft) ==
  IF threads[t] = NoThread THEN 404
  ELSE IF ~validateReply(PlatformOf[t], kindOf(t, draft), draft) THEN 422
  ELSE IF kindOf(t, draft) = "dm" /\ (threads[t] = NoOne \/ ~supports(PlatformOf[t])) THEN 422
  ELSE 0

\* The thread is read once, before the platform is awaited.
handleReply(r, t, draft) ==
  /\ replies[r].phase = "new" /\ replyStatus(t, draft) = 0 /\ kindOf(t, draft) = "dm"
  /\ replies' = [replies EXCEPT ![r] = [phase |-> "sending", thread |-> t, recipient |-> threads[t]]]
  /\ UNCHANGED <<now, sent, threads, rows, lastRead>>

\* Comments are not pushed: they are recorded here only.
recordComment(r, t, draft) ==
  /\ replies[r].phase = "new" /\ replyStatus(t, draft) = 0 /\ kindOf(t, draft) = "comment"
  /\ rows' = storeMessage(Row(Local(r), t, "outbound", "comment", Iso(now)))
  /\ replies' = [replies EXCEPT ![r] = [phase |-> "recorded", thread |-> t]]
  /\ UNCHANGED <<now, sent, threads, lastRead>>

At(r, phase) == replies[r].phase = phase
Move(r, phase) == replies' = [replies EXCEPT ![r].phase = phase]

\* The platform delivers the message, and answers with its id, without one, or
\* not at all.
sendDm(r) ==
  /\ At(r, "sending")
  /\ \E answer \in {"named", "unnamed", "failed"} : Move(r, answer)
  /\ sent' = [sent EXCEPT ![r] = now]
  /\ UNCHANGED <<now, threads, rows, lastRead>>

sendDmRefused(r) ==
  /\ At(r, "sending") /\ Move(r, "failed")
  /\ UNCHANGED <<now, sent, threads, rows, lastRead>>

messageId_Local(r) == Local(r)

messageId(r) == IF At(r, "named") THEN Native(r) ELSE Local(r)

recordDm(r) ==
  /\ replies[r].phase \in {"named", "unnamed"}
  /\ rows' = storeMessage(Row(messageId(r), replies[r].thread, "outbound", "dm", Iso(now)))
  /\ Move(r, IF At(r, "named") THEN "recorded" ELSE "recordedUnnamed")
  /\ UNCHANGED <<now, sent, threads, lastRead>>

InboxNext ==
  \/ Tick
  \/ \E m \in Written : write(m)
  \/ \E m \in Written \cup Replies : pollTwitterDm(m) \/ pollInstagram(m) \/ pollComments(m)
  \/ \E t \in Threads : pollNothing(t)
  \/ \E t \in Opened : markRead(t)
  \/ \E r \in Replies, t \in Threads, draft \in Drafts : handleReply(r, t, draft) \/ recordComment(r, t, draft)
  \/ \E r \in Replies : sendDm(r) \/ sendDmRefused(r) \/ recordDm(r)

InboxSpec == InboxInit /\ [][InboxNext]_inboxVars

-----------------------------------------------------------------------------
(* Properties.                                                             *)

About(m) == {row \in rows : row.pid \in {Native(m), Local(m)}}
\* X's poller stored a message of the user as one of the other party.
Mistaken(m) ==
  \E row \in rows : /\ row.pid = Native(m) /\ Sender(m) = Me
                    /\ PlatformOf[row.thread] = "twitter" /\ row.direction = "inbound"

\* Pollers and replies meet on the platform's id: a message is stored once,
\* under its own direction, and a reply goes to the other party.  What escapes:
\* a reply the platform did not name is stored again when it is polled; a message
\* of the user that X's poller sees first is inbound for good, and its thread is
\* answered to oneself until the other party writes again; LinkedIn's poller takes
\* every comment for one of the other party.
EachMessageOnce ==
  /\ \A m \in Written \cup Replies :
       Cardinality(About(m)) > 1 => m \in Replies /\ At(m, "recordedUnnamed")
  /\ \A row \in rows :
       row.direction = IF \E m \in Written \cup Replies :
                            row.pid = Native(m) /\ (Sender(m) # Me \/ Mistaken(m) \/ PlatformOf[row.thread] = "linkedin")
                       THEN "inbound" ELSE "outbound"
  /\ \A r \in Replies : "recipient" \in DOMAIN replies[r] /\ replies[r].recipient # replies[r].thread =>
       /\ replies[r].recipient = Me
       /\ \E m \in Written \cup Replies : Mistaken(m)

ReadTime(t) == lastRead[t][1] * DayLength + lastRead[t][3]

\* A message that was stored when its thread was read is never unread again,
\* and one that was sent later always is: only a message that was sent before
\* the reading and polled after it, or that has no time and came on the same
\* day, is never announced.  (A thread with a reply that X's poller mistook is left aside.)
UnreadIsNew ==
  \A t \in {u \in Threads : \A r \in Replies : Mistaken(r) => replies[r].thread # u} :
    LET inbound == {row \in rows : row.thread = t /\ row.direction = "inbound"}
        new == {row \in inbound : /\ row.created > ReadTime(t)
                                  /\ IF row.sentAt = NoStamp THEN row.created \div DayLength > lastRead[t][1]
                                     ELSE sent[row.pid[2]] > ReadTime(t)}
    IN  unreadCount(t) = Cardinality(IF lastRead[t] = NoStamp THEN inbound ELSE new)

\* What the composer lets a user send is refused only for want of a recipient
\* or of a sender, never for its length or its kind.
ComposerAgrees ==
  \A t \in Threads, draft \in Drafts :
    LET kind == kindOf(t, draft) IN
    /\ draft.kind = "dm" => limitsFor(PlatformOf[t]).dmSupported
    /\ draft.media = 0 /\ canSend(PlatformOf[t], kind, draft) /\ replyStatus(t, draft) = 422
    => kind = "dm" /\ (threads[t] = NoOne \/ ~supports(PlatformOf[t]))

\* "You can still read and reply to LinkedIn comments" (docs/USER_GUIDE.md:286):
\* every stored message is in one of the sections of its thread.
EveryMessageIsShown ==
  \A row \in rows : row \in getThread(row.thread).dms \cup getThread(row.thread).comments

\* Messages and their unread marks survive the order in which polls, replies and
\* readings meet.
MessagesAreCountedOnce == EachMessageOnce /\ UnreadIsNew
=============================================================================
