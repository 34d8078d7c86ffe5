---------------------------- MODULE SetupWizard ----------------------------
(***************************************************************************)
(* First-run setup: the wizard at /setup (ui/components/setup, its          *)
(* progress in localStorage, ui/lib/setup.ts) and the routes it calls       *)
(* (src/server/setup), which check a key or a bot and store it in the       *)
(* vault.                                                                   *)
(*                                                                          *)
(* A step that is left keeps its request: the handler of a step that is no  *)
(* longer shown still runs when the answer comes.  A reload of the page     *)
(* ends the handlers but not the work of the server.  The vault's writes    *)
(* are serialised by nobody: each adds to the copy it loaded, and writes    *)
(* the one temporary file (Vault has the steps).                            *)
(***************************************************************************)
EXTENDS Integers, FiniteSets

CONSTANTS SETUP_PROVIDERS,   \* openai, anthropic, openai-compatible: all alike but openai, the first choice
          MaxRequests        \* requests at a time

ASSUME SetupAssumption == MaxRequests \in Nat \ {0} /\ "openai" \in SETUP_PROVIDERS

VARIABLES storage,      \* can the page write to localStorage?
          wizard,       \* the progress in localStorage
          displayed,    \* what the page shows: has it finished, what does the step wait for
          requests,     \* the requests, and whether a handler waits for the answer
          secrets,      \* the vault, its cache and its file: the keys and the bot
          confirmed,    \* history: the kinds of request whose write has succeeded
          met           \* history: have two writes of the vault been under way at once?

setupVars == <<storage, wizard, displayed, requests, secrets, confirmed, met>>

TOTAL_STEPS == 3
STEP_LABELS == <<"Welcome", "AI provider", "Telegram">>
Slots == 1 .. MaxRequests

\* Of the keys it is enough that there is one: GET /status asks no more.  A file that two
\* wrote may be one that cannot be read.
NoSecrets == [key |-> FALSE, telegram |-> FALSE, readable |-> TRUE]
Unreadable == [NoSecrets EXCEPT !.readable = FALSE]

\* A request that writes the vault knows what it writes, and whether it has met another.
Unsent == [kind |-> "none", at |-> "none", heard |-> FALSE, next |-> NoSecrets, meets |-> FALSE]

\* An answer that nobody waits for is gone.
Open(r) == IF ~r.heard /\ r.at \in {"valid", "refused"} THEN Unsent ELSE r

INITIAL_WIZARD_STATE == [step |-> 0, provider |-> "openai", providerValidated |-> FALSE,
                         telegramVerified |-> FALSE]

\* GET /status, by the vault that load() has cached.
hasProvider == secrets.cache.key
hasTelegram == secrets.cache.telegram
status == [complete |-> hasProvider /\ hasTelegram, hasProvider |-> hasProvider, hasTelegram |-> hasTelegram]

SetupInit == /\ storage \in BOOLEAN
             /\ wizard = INITIAL_WIZARD_STATE
             /\ displayed = [done |-> FALSE, waiting |-> 0]
             /\ requests = [i \in Slots |-> Unsent]
             /\ secrets = [cache |-> NoSecrets, file |-> NoSecrets]
             /\ confirmed = {} /\ met = FALSE

-----------------------------------------------------------------------------
(* The page.                                                                *)

\* A write that fails is ignored, and the page keeps showing what it showed.
writeWizardState(state) == wizard' = IF storage THEN state ELSE wizard

\* The step on the page, and the kind of request its button sends.
Step == STEP_LABELS[wizard.step + 1]

canAdvance == CASE wizard.step = 0 -> TRUE
                [] wizard.step = 1 -> wizard.providerValidated
                [] wizard.step = 2 -> wizard.telegramVerified

goNext == /\ ~displayed.done /\ canAdvance /\ wizard.step < TOTAL_STEPS - 1
          /\ writeWizardState([wizard EXCEPT !.step = wizard.step + 1])
          /\ displayed' = [displayed EXCEPT !.waiting = 0]
          /\ UNCHANGED <<storage, requests, secrets, confirmed, met>>

goBack == /\ ~displayed.done /\ wizard.step > 0
          /\ writeWizardState([wizard EXCEPT !.step = wizard.step - 1])
          /\ displayed' = [displayed EXCEPT !.waiting = 0]
          /\ UNCHANGED <<storage, requests, secrets, confirmed, met>>

finish == /\ ~displayed.done /\ canAdvance /\ wizard.step = TOTAL_STEPS - 1
          /\ wizard' = INITIAL_WIZARD_STATE
          /\ displayed' = [done |-> TRUE, waiting |-> 0]
          /\ UNCHANGED <<storage, requests, secrets, confirmed, met>>

\* The provider buttons stay enabled while a key is being validated.
onProviderChange == \E p \in SETUP_PROVIDERS :
    /\ ~displayed.done /\ Step = "AI provider"
    /\ writeWizardState([wizard EXCEPT !.provider = p, !.providerValidated = FALSE])
    /\ UNCHANGED <<storage, displayed, requests, secrets, confirmed, met>>

\* "Validate & save" and "Verify & save" are disabled while the step waits.
submit(kind) == \E i \in Slots :
    /\ ~displayed.done /\ displayed.waiting = 0 /\ requests[i] = Unsent
    /\ requests' = [requests EXCEPT ![i] = [Unsent EXCEPT !.kind = kind, !.at = "checking", !.heard = TRUE]]
    /\ displayed' = [displayed EXCEPT !.waiting = i]
    /\ UNCHANGED <<storage, wizard, secrets, confirmed, met>>

handleValidate == Step = "AI provider" /\ submit("provider")
handleVerify   == Step = "Telegram" /\ submit("telegram")

onValidated == [wizard EXCEPT !.providerValidated = TRUE]
onVerified  == [wizard EXCEPT !.telegramVerified = TRUE]

\* The answer comes, or the fetch fails; the handler runs if the page is still
\* the one that sent the request.
answered == \E i \in Slots :
    /\ requests[i].heard /\ requests[i].at \in {"valid", "refused"}
    /\ IF requests[i].at = "valid"
       THEN writeWizardState(IF requests[i].kind = "provider" THEN onValidated ELSE onVerified)
       ELSE UNCHANGED wizard
    /\ requests' = [requests EXCEPT ![i] = Unsent]
    /\ displayed' = IF displayed.waiting = i THEN [displayed EXCEPT !.waiting = 0] ELSE displayed
    /\ UNCHANGED <<storage, secrets, confirmed, met>>

unreachable == \E i \in Slots :
    /\ requests[i].heard
    /\ requests' = [requests EXCEPT ![i] = Open([@ EXCEPT !.heard = FALSE])]
    /\ displayed' = IF displayed.waiting = i THEN [displayed EXCEPT !.waiting = 0] ELSE displayed
    /\ UNCHANGED <<storage, wizard, secrets, confirmed, met>>

reload == /\ displayed' = [done |-> FALSE, waiting |-> 0]
          /\ wizard' = IF storage THEN wizard ELSE INITIAL_WIZARD_STATE
          /\ requests' = [i \in Slots |-> Open([requests[i] EXCEPT !.heard = FALSE])]
          /\ UNCHANGED <<storage, secrets, confirmed, met>>

-----------------------------------------------------------------------------
(* The server.                                                              *)

ServerAnswer(i, at) ==
    requests' = [requests EXCEPT ![i] = Open([@ EXCEPT !.at = at, !.next = NoSecrets, !.meets = FALSE])]

\* The provider, or Telegram, is asked; a boundary error, a refusal and an
\* unreachable service all end the request.
validateProviderKey(i) == /\ requests[i].kind = "provider" /\ requests[i].at = "checking"
                          /\ \E at \in {"storing", "refused"} : ServerAnswer(i, at)

\* getMe, then the test message to the admin's chat: both must succeed.
verifyTelegram(i) == /\ requests[i].kind = "telegram" /\ requests[i].at \in {"checking", "sending"}
                     /\ \E at \in {IF requests[i].at = "checking" THEN "sending" ELSE "storing", "refused"} :
                            ServerAnswer(i, at)

check == \E i \in Slots : /\ validateProviderKey(i) \/ verifyTelegram(i)
                          /\ UNCHANGED <<storage, wizard, displayed, secrets, confirmed, met>>

Writers == {i \in Slots : requests[i].at = "writing"}

\* What setProvider and setTelegram make of the vault.
Added(kind) == IF kind = "provider" THEN [secrets.cache EXCEPT !.key = TRUE]
               ELSE [secrets.cache EXCEPT !.telegram = TRUE]

\* setProvider(), setTelegram(): load() gives the copy in the cache, and the awaits of
\* persist() begin.  A file that cannot be read fails the request.
loadVault == \E i \in Slots :
    /\ requests[i].at = "storing"
    /\ IF secrets.cache.readable
       THEN /\ requests' = [j \in Slots |->
                 IF j = i THEN [requests[i] EXCEPT !.at = "writing", !.meets = Writers # {},
                                    !.next = Added(requests[i].kind)]
                 ELSE IF j \in Writers THEN [requests[j] EXCEPT !.meets = TRUE] ELSE requests[j]]
            /\ met' = (met \/ Writers # {})
       ELSE ServerAnswer(i, "refused") /\ UNCHANGED met
    /\ UNCHANGED <<storage, wizard, displayed, secrets, confirmed>>

\* What the vault's file may be when a writer is done or killed: what it was, what one
\* that writes has written, or, where two met at the temporary file, neither whole.
Left(writers) == {secrets.file} \cup {requests[j].next : j \in writers}
                   \cup (IF \E j \in writers : requests[j].meets THEN {Unreadable} ELSE {})

whenNotStored_Valid == "valid"
whenNotStored == "refused"

\* The vault is written before the answer; a write that fails is a 500.
persist == \E i \in Writers :
    /\ \/ /\ \E left \in IF requests[i].meets THEN Left(Writers) ELSE {requests[i].next} :
               secrets' = [cache |-> requests[i].next, file |-> left]
          /\ confirmed' = confirmed \cup {requests[i].kind}
          /\ ServerAnswer(i, "valid")
       \/ /\ \E left \in IF requests[i].meets THEN Left(Writers) ELSE {secrets.file} :
               secrets' = [secrets EXCEPT !.file = left]
          /\ ServerAnswer(i, whenNotStored) /\ UNCHANGED confirmed
    /\ UNCHANGED <<storage, wizard, displayed, met>>

AtServer == {"checking", "sending", "storing", "writing"}

\* The cache is gone, and the file is read again.
serverRestart ==
    /\ \E left \in Left(Writers) : secrets' = [cache |-> left, file |-> left]
    /\ requests' = [i \in Slots |->
           IF requests[i].at \in AtServer
           THEN Open([requests[i] EXCEPT !.at = "refused", !.next = NoSecrets, !.meets = FALSE])
           ELSE requests[i]]
    /\ UNCHANGED <<storage, wizard, displayed, confirmed, met>>

SetupNext == \/ goNext \/ goBack \/ finish \/ onProviderChange \/ handleValidate \/ handleVerify
             \/ answered \/ unreachable \/ reload \/ check \/ loadVault \/ persist
             \/ serverRestart

SetupSpec == SetupInit /\ [][SetupNext]_setupVars

-----------------------------------------------------------------------------
(* Properties.                                                              *)

\* "Your AI provider and Telegram bot are connected" is shown only after the server has
\* confirmed that it stored both, whatever answers were lost, late or for a step already
\* left; and the server agrees, although the page never asks it, unless two writes of the
\* vault were under way at once, of which one may undo the other.
FinishedIsComplete ==
  displayed.done => /\ {"provider", "telegram"} \subseteq confirmed
                    /\ ~met => status.complete
=============================================================================
