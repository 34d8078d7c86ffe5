---------------------------- MODULE PostLifecycle ----------------------------
(***************************************************************************)
(* What the outbox promises about a post, without ticks, retries, backoff, *)
(* dead letters, batches or clocks: the five-state machine of              *)
(* OUTBOX_TRANSITIONS, together with which posts are being published and   *)
(* which ones are on the platform.  A post appears on the platform only    *)
(* while a claim on it is open, and its row becomes "published" only when  *)
(* it is there.                                                            *)
(***************************************************************************)
CONSTANT Posts

VARIABLES
  status,      \* of each post
  inFlight,    \* the posts with an open claim
  onPlatform   \* the posts the platform holds

lifeVars == <<status, inFlight, onPlatform>>

LifeInit ==
  /\ status = [p \in Posts |-> "new"]
  /\ inFlight = {}
  /\ onPlatform = {}

SetStatus(p, s) == status' = [status EXCEPT ![p] = s]

\* The user creates, schedules, unschedules, requeues or deletes a post; only
\* deletion touches one that is publishing or published.
UserEdge ==
  {<<"new", "draft">>, <<"new", "scheduled">>, <<"draft", "scheduled">>,
   <<"scheduled", "draft">>, <<"failed", "scheduled">>}
    \cup ({"draft", "scheduled", "publishing", "published", "failed"} \X {"deleted"})

UserMoves(p, s) ==
  /\ <<status[p], s>> \in UserEdge
  /\ SetStatus(p, s)
  /\ UNCHANGED <<inFlight, onPlatform>>

\* Scheduled posts with no open claim are claimed together.
Claim(S) ==
  /\ \A p \in S : status[p] = "scheduled" /\ p \notin inFlight
  /\ status' = [p \in Posts |-> IF p \in S THEN "publishing" ELSE status[p]]
  /\ inFlight' = inFlight \cup S
  /\ UNCHANGED onPlatform

Appear(p) ==
  /\ p \in inFlight
  /\ onPlatform' = onPlatform \cup {p}
  /\ UNCHANGED <<status, inFlight>>

Publish(p) ==
  /\ p \in inFlight \cap onPlatform
  /\ status[p] = "publishing"
  /\ SetStatus(p, "published")
  /\ inFlight' = inFlight \ {p}
  /\ UNCHANGED onPlatform

Fail(p) ==
  /\ p \in inFlight
  /\ status[p] = "publishing"
  /\ SetStatus(p, "failed")
  /\ inFlight' = inFlight \ {p}
  /\ UNCHANGED onPlatform

\* The row was deleted under the publish, which ends without a trace.
Abandon(p) ==
  /\ p \in inFlight
  /\ status[p] = "deleted"
  /\ inFlight' = inFlight \ {p}
  /\ UNCHANGED <<status, onPlatform>>

\* The process ends: the open claims are forgotten, their rows are not touched.
Forget ==
  /\ inFlight' = {}
  /\ UNCHANGED <<status, onPlatform>>

LifeNext ==
  \/ \E p \in Posts :
       \/ \E s \in {"draft", "scheduled", "deleted"} : UserMoves(p, s)
       \/ Appear(p) \/ Publish(p) \/ Fail(p) \/ Abandon(p)
  \/ \E S \in SUBSET Posts : Claim(S)
  \/ Forget

LifeSpec == LifeInit /\ [][LifeNext]_lifeVars
=============================================================================
