----------------------------- MODULE Publishing -----------------------------
(***************************************************************************)
(* What the connectors do to get one post out (src/connectors): the steps  *)
(* each platform's publisher takes, the dispatcher that asks the broker    *)
(* for a slot, retries what the client classifies as transient and lands   *)
(* the rest in the dead-letter queue, and, above them, the adapters of the *)
(* outbox, whose poller runs a failed call again.                          *)
(*                                                                         *)
(* The platform may apply a call whose answer is an error, or is lost.     *)
(***************************************************************************)
EXTENDS Integers, Sequences

CONSTANTS
  MaxAttempts,      \* DEFAULT_MAX_ATTEMPTS of retry()
  MaxPolls,         \* maxPollAttempts of a container
  MinChildren,      \* of a carousel
  MaxChildren,
  MaxRounds         \* bound on the times the outbox runs the call

ASSUME PublishingAssumption ==
  /\ MaxAttempts \in Nat \ {0} /\ MaxPolls \in Nat \ {0} /\ MaxRounds \in Nat \ {0}
  /\ MinChildren \in Nat /\ MaxChildren \in Nat

VARIABLES
  req,         \* what the caller wants
  step,        \* which step of the plan is under way
  at,          \* "new", "acquiring", "calling", "polling", "done" or "failed"
  attempts,    \* of this dispatch
  polls,       \* of this container
  container,   \* the container that is to be published
  posted,      \* how often the post is out, by this run of the call
  dlq,         \* the rows this run landed: their attempts
  round,       \* the run of the call
  blurred,     \* history: applied attempts of this run answered with a server error
  lost,        \* history: the last attempt was applied, and its answer says no such thing
  asked        \* history: containers were asked to be published, in these states

publishVars == <<req, step, at, attempts, polls, container, posted, dlq, round, blurred, lost, asked>>

-----------------------------------------------------------------------------
(* Requests.                                                               *)

NoTarget == <<>>
Request(kind, child, target) == [kind |-> kind, child |-> child, target |-> target]

\* The kinds of call, the children of a carousel (with a media URL or without),
\* the author a LinkedIn row names, the privacy level asked of TikTok.
Children == UNION {[1 .. n -> BOOLEAN] : n \in {MinChildren - 1, MinChildren, MaxChildren + 1} \cap Nat}
InstagramRequests ==
  {Request(k, <<>>, NoTarget) : k \in {"instagram.image", "instagram.video"}}
    \cup {Request("instagram.carousel", c, NoTarget) : c \in Children}
ThreadsRequests == {Request(k, <<>>, NoTarget) : k \in {"threads.text", "threads.image"}}
FacebookRequests ==
  {Request(k, <<>>, NoTarget) : k \in {"facebook.post", "facebook.empty", "facebook.comment"}}
TikTokRequests == {Request("tiktok.publish", <<>>, <<level>>) : level \in {"SELF_ONLY", "PUBLIC_TO_EVERYONE"}}
PinterestRequests == {Request(k, <<>>, NoTarget) : k \in {"pinterest.board", "pinterest.pin"}}
TwitterRequests == {Request("twitter.publish", <<>>, NoTarget)}
LinkedInRequests ==
  {Request("linkedin.publish", <<>>, id) : id \in {NoTarget, <<"ada">>, <<"organization", "acme">>}}
Requests == InstagramRequests \cup ThreadsRequests \cup FacebookRequests \cup TikTokRequests
              \cup PinterestRequests \cup TwitterRequests \cup LinkedInRequests

Platform(r) ==
  CASE r \in InstagramRequests \cup ThreadsRequests \cup FacebookRequests -> "meta"
    [] r \in TikTokRequests -> "tiktok"
    [] r \in PinterestRequests -> "pinterest"
    [] r \in TwitterRequests -> "twitter"
    [] r \in LinkedInRequests -> "linkedin"

\* buildOutboxDispatch: the platforms the outbox has an adapter for.
adapters == {"twitter", "linkedin"}

-----------------------------------------------------------------------------
(* The steps of each publisher: "throw" ends the call, "create" makes a    *)
(* container, "wait" polls it, "publish" publishes it, "post" posts.       *)

carouselSteps(r) ==
  IF Len(r.child) < MinChildren \/ Len(r.child) > MaxChildren THEN <<"throw">>
  ELSE [i \in 1 .. Len(r.child) |-> IF r.child[i] THEN "create" ELSE "throw"] \o <<"create">>

instagramSteps(r) ==
  IF r.kind = "instagram.image" THEN <<"create", "publish">>
  ELSE IF r.kind = "instagram.video" THEN <<"create", "wait", "publish">>
  ELSE carouselSteps(r) \o <<"wait", "publish">>

threadsSteps(r) ==
  IF r.kind = "threads.text" THEN <<"create", "publish">> ELSE <<"create", "wait", "publish">>

\* A feed post needs a message or a link, a comment nothing.
facebookSteps(r) == IF r.kind = "facebook.empty" THEN <<"throw">> ELSE <<"post">>

assertPrivateOnly(r) == r.target = <<"SELF_ONLY">>
tiktokSteps(r) == IF assertPrivateOnly(r) THEN <<"post">> ELSE <<"throw">>

pinterestSteps(r) == <<"post">>

\* The X adapter needs a token and asks its publisher, which checks the month's quota
\* before a tweet; the LinkedIn adapter needs a token and an author.
twitterAdapter(r) == <<"token", "quota", "post">>
linkedinAdapter(r) == IF r.target = NoTarget THEN <<"token", "throw">> ELSE <<"token", "post">>

Steps(r) ==
  CASE r \in InstagramRequests -> instagramSteps(r)
    [] r \in ThreadsRequests -> threadsSteps(r)
    [] r \in FacebookRequests -> facebookSteps(r)
    [] r \in TikTokRequests -> tiktokSteps(r)
    [] r \in PinterestRequests -> pinterestSteps(r)
    [] r \in TwitterRequests -> twitterAdapter(r)
    [] r \in LinkedInRequests -> linkedinAdapter(r)

-----------------------------------------------------------------------------
(* Answers of the platforms, and what the clients make of them.            *)

\* A success; one without an id, or whose body is no JSON; 200 with an error in
\* the body, retryable or not; 429; 5xx; any other refusal; and no answer at all.
Success == {"ok", "noId"}
Answers == Success \cup {"okBusy", "okRefused", "tooMany", "server", "refused", "network"}
MayApply == Success \cup {"server", "network"}
MayNotApply == Answers \ Success

\* A network failure is a TypeError of fetch, no error of the client's: not transient.
isTransientHttp(answer) == answer \in {"tooMany", "server"}

isTransientLinkedInError(answer) == isTransientHttp(answer)
isTransientTwitterError(answer) == isTransientHttp(answer)
isTransientPinterestError(answer) == isTransientHttp(answer)
isTransientMetaError(answer) == answer = "okBusy" \/ isTransientHttp(answer)
isTransientTikTokError(answer) == answer = "okBusy" \/ isTransientHttp(answer)

\* What a client makes of an answer: an id, a value without one, or an error.  Three
\* take any 200 for a success, those of Meta and TikTok look into its body.
linkedinRequest(answer) ==
  IF answer = "ok" THEN "id" ELSE IF answer \in Success \cup {"okBusy", "okRefused"} THEN "noId" ELSE "error"
twitterRequest(answer) ==
  IF answer = "ok" THEN "id" ELSE IF answer \in Success \cup {"okBusy", "okRefused"} THEN "noId" ELSE "error"
pinterestRequest(answer) ==
  IF answer = "ok" THEN "id" ELSE IF answer \in Success \cup {"okBusy", "okRefused"} THEN "noId" ELSE "error"
metaRequest(answer) == IF answer = "ok" THEN "id" ELSE IF answer \in Success THEN "noId" ELSE "error"
tiktokRequest(answer) == IF answer = "ok" THEN "id" ELSE IF answer \in Success THEN "noId" ELSE "error"

\* The dispatchers: alike but for their client, and for what they try again.
metaDispatcher == [request |-> [a \in Answers |-> metaRequest(a)],
                   retried |-> {a \in Answers : isTransientMetaError(a)}]
tiktokDispatcher == [request |-> [a \in Answers |-> tiktokRequest(a)],
                     retried |-> {a \in Answers : isTransientTikTokError(a)}]
pinterestDispatcher == [request |-> [a \in Answers |-> pinterestRequest(a)],
                        retried |-> {a \in Answers : isTransientPinterestError(a)}]
twitterDispatcher == [request |-> [a \in Answers |-> twitterRequest(a)],
                      retried |-> {a \in Answers : isTransientTwitterError(a)}]
linkedinDispatcher == [request |-> [a \in Answers |-> linkedinRequest(a)],
                       retried |-> {a \in Answers : isTransientLinkedInError(a)}]

Dispatcher(p) ==
  CASE p = "meta" -> metaDispatcher
    [] p = "tiktok" -> tiktokDispatcher
    [] p = "pinterest" -> pinterestDispatcher
    [] p = "twitter" -> twitterDispatcher
    [] p = "linkedin" -> linkedinDispatcher

Outcome(p, answer) ==
  LET d == Dispatcher(p) IN
  IF d.request[answer] # "error" THEN d.request[answer]
  ELSE IF answer \in d.retried THEN "transient" ELSE "permanent"

\* An id is needed to report a post; Meta's publishers pass on what they were given.
requiresId(p) == p # "meta"

-----------------------------------------------------------------------------
(* The run of a call.                                                      *)

\* The states of a container at the platform; "unknown" is one without an id.
Failed == {"ERROR", "EXPIRED"}
Ready == {"FINISHED", "PUBLISHED"}
NoContainer == "none"

PublishInit ==
  /\ req \in Requests
  /\ step = 1 /\ at = "new" /\ attempts = 0 /\ polls = 0
  /\ container = NoContainer
  /\ posted = 0 /\ dlq = <<>> /\ round = 1 /\ blurred = 0 /\ lost = FALSE /\ asked = {}

Current == Steps(req)[step]
More == step < Len(Steps(req))

\* The step is done: on to the next, or the call returns.
Advance ==
  /\ at' = IF More THEN "new" ELSE "done"
  /\ step' = IF More THEN step + 1 ELSE step

Fail == at' = "failed" /\ UNCHANGED step

throws ==
  /\ at = "new" /\ Current = "throw"
  /\ Fail
  /\ UNCHANGED <<req, attempts, polls, container, posted, dlq, round, blurred, lost, asked>>

\* vault.getOAuth: a token, or the adapter throws.
getOAuth ==
  /\ at = "new" /\ Current = "token"
  /\ Advance \/ Fail
  /\ UNCHANGED <<req, attempts, polls, container, posted, dlq, round, blurred, lost, asked>>

\* Before each tweet: at the cap of the month the guard throws, ahead of the dispatcher.
quotaGuard ==
  /\ at = "new" /\ Current = "quota"
  /\ Advance \/ Fail
  /\ UNCHANGED <<req, attempts, polls, container, posted, dlq, round, blurred, lost, asked>>

\* Each dispatch asks the broker first; a denial is landed, with no attempt made.
dispatch ==
  /\ at = "new" /\ Current \in {"create", "publish", "post"}
  /\ attempts' = 0
  /\ \/ at' = "calling" /\ UNCHANGED <<step, dlq>>
     \/ Fail /\ dlq' = Append(dlq, 0)
  /\ UNCHANGED <<req, polls, container, posted, round, blurred, lost, asked>>

land(n) == dlq' = Append(dlq, n)

\* What the caller does with the value of a dispatch.
accept(outcome) ==
  IF Current = "post" /\ outcome = "noId" /\ requiresId(Platform(req)) THEN Fail ELSE Advance

retry_OneMore(outcome) ==
  IF outcome = "transient" /\ attempts <= MaxAttempts
  THEN UNCHANGED <<step, at, dlq>> ELSE Fail /\ land(attempts')

\* The attempt failed: tried again while it is transient and attempts are left.
retry(outcome) ==
  IF outcome = "transient" /\ attempts + 1 < MaxAttempts
  THEN UNCHANGED <<step, at, dlq>> ELSE Fail /\ land(attempts')

\* What an applied call does at the platform: a container is made, or is published
\* unless it is out already, or is not ready; a post is posted.
Applies ==
  CASE Current = "create" ->
         /\ container' \in {"IN_PROGRESS", "FINISHED"}
         /\ (req.kind = "instagram.image" => container' = "FINISHED")
         /\ UNCHANGED posted
    [] Current = "publish" ->
         /\ container = "FINISHED"
         /\ container' = "PUBLISHED" /\ posted' = posted + 1
    [] Current = "post" -> posted' = posted + 1 /\ UNCHANGED container

\* A container whose answer has no id cannot be named.
attempt(answer, applied) ==
  LET outcome == Outcome(Platform(req), answer) IN
  /\ at = "calling"
  /\ attempts' = attempts + 1
  /\ IF applied THEN answer \in MayApply /\ (IF Current = "create" /\ answer = "noId"
                                             THEN container' = "unknown" /\ UNCHANGED posted ELSE Applies)
     ELSE answer \in MayNotApply /\ UNCHANGED <<container, posted>>
  /\ IF outcome \in {"id", "noId"} THEN accept(outcome) /\ UNCHANGED dlq ELSE retry(outcome)
  /\ blurred' = IF applied /\ answer = "server" THEN blurred + 1 ELSE blurred
  /\ lost' = (lost \/ (applied /\ Current # "create" /\ answer # "ok"))
  /\ asked' = IF Current = "publish" THEN asked \cup {container} ELSE asked
  /\ polls' = 0
  /\ UNCHANGED <<req, round>>

\* waitForContainer: one GET after the other, past the dispatcher; an error of any
\* kind, a failed container or too many polls throw.
waitForContainer ==
  /\ at = "new" /\ Current = "wait"
  /\ \/ Fail /\ UNCHANGED polls
     \/ container \in Failed \cup {"unknown"} /\ Fail /\ UNCHANGED polls
     \/ container \in Ready /\ Advance /\ UNCHANGED polls
     \/ /\ container = "IN_PROGRESS"
        /\ polls' = polls + 1
        /\ IF polls + 1 = MaxPolls THEN Fail ELSE UNCHANGED <<step, at>>
  /\ UNCHANGED <<req, attempts, container, posted, dlq, round, blurred, lost, asked>>

\* The platform goes on with a container.
processes ==
  /\ container = "IN_PROGRESS"
  /\ container' \in {"FINISHED"} \cup Failed
  /\ UNCHANGED <<req, step, at, attempts, polls, posted, dlq, round, blurred, lost, asked>>

\* The outbox runs a failed call again, from its first step.
outboxRetries ==
  /\ at = "failed" /\ Platform(req) \in adapters /\ round < MaxRounds
  /\ round' = round + 1
  /\ step' = 1 /\ at' = "new" /\ attempts' = 0 /\ polls' = 0 /\ dlq' = <<>>
  /\ posted' = 0 /\ blurred' = 0 /\ lost' = FALSE
  /\ UNCHANGED <<req, container, asked>>

PublishNext ==
  \/ throws \/ getOAuth \/ quotaGuard \/ dispatch \/ waitForContainer \/ processes \/ outboxRetries
  \/ \E answer \in Answers, applied \in BOOLEAN : attempt(answer, applied)

PublishSpec == PublishInit /\ [][PublishNext]_publishVars

-----------------------------------------------------------------------------
(* Properties.                                                             *)

\* A call reports a post only when one is out, and a failure only when none is or
\* an answer hid it; within a run it posts again only after a server error that
\* hid a post, never after a network failure, whose fate nobody knows.
ReportsAreTrue ==
  /\ at = "done" => posted > 0
  /\ at = "failed" /\ posted > 0 => lost
  /\ posted <= 1 + blurred

\* A failed dispatch leaves exactly one dead letter, with its attempts, of which
\* there are no more than allowed; the failures that leave none are those outside a
\* dispatch: a refused request, no token, X's quota used up, a wait in vain, a post whose
\* answer had no id.
FailuresLand ==
  /\ at \notin {"failed"} => dlq = <<>>
  /\ Len(dlq) <= 1
  /\ \A i \in DOMAIN dlq : dlq[i] = attempts /\ dlq[i] <= MaxAttempts
  /\ at = "failed" /\ dlq = <<>> =>
       Current \in {"throw", "token", "quota", "wait"} \/ (Current = "post" /\ requiresId(Platform(req)) /\ attempts > 0)

\* The containers that need processing are not published before they are ready.
NothingUnreadyIsPublished ==
  req.kind \notin {"instagram.image", "threads.text"} => asked \subseteq Ready

\* Every end of a publish is accounted for: what is out, what failed, what was asked.
PublishesAreAccounted == ReportsAreTrue /\ FailuresLand /\ NothingUnreadyIsPublished
=============================================================================
