----------------------------- MODULE Onboarding -----------------------------
(***************************************************************************)
(* The guided set-up at /onboarding: its five steps, each with a panel that *)
(* asks the server for something, and the progress of the steps in          *)
(* localStorage (ui/lib/onboarding.ts, ui/components/onboarding).           *)
(*                                                                          *)
(* Only the panel of the tab that is shown is mounted.  A panel that is     *)
(* left keeps its requests: their handlers still run when the answers come, *)
(* and the panel that is mounted in its place knows nothing of them.        *)
(*                                                                          *)
(* The server's part of a step is one action here: modules ModelSelection,  *)
(* OAuth, Vault and BrandVoice have it in detail.                           *)
(***************************************************************************)
EXTENDS Integers, FiniteSets

CONSTANTS MaxPending,   \* requests at a time
          MaxSteps      \* steps that the user does something about

ASSUME OnboardingAssumption == MaxPending \in Nat /\ MaxSteps \in Nat

VARIABLES progress,    \* localStorage: the steps completed and the steps skipped
          tab,         \* the tab shown, and the request for which its button is disabled
          requested,   \* the requests, of panels shown and of panels left
          stored       \* history: the steps of which the server has stored what was asked

onboardVars == <<progress, tab, requested, stored>>

ONBOARDING_STEPS == {"model", "social", "meta", "recipe", "brand-voice"}
INITIAL_PROGRESS == [completed |-> {}, skipped |-> {}]

stepStatus(step) == CASE step \in progress.completed -> "done"
                      [] step \notin progress.completed /\ step \in progress.skipped -> "skipped"
                      [] step \notin progress.completed \cup progress.skipped -> "todo"

\* A write that localStorage refuses is ignored.
writeProgress(state) == progress' \in {state, progress}

completeStep(step) == writeProgress([completed |-> progress.completed \cup {step}, skipped |-> progress.skipped \ {step}])

\* A request is at the server, "left" when nobody waits for its answer any more, or its
\* answer is on the way.
PanelRequests == 1 .. MaxPending
Unused == [step |-> "none", at |-> "none"]

FreshPanel(step) == [step |-> step, waits |-> 0]

\* The steps that the user has done something about.
Touched == progress.completed \cup progress.skipped \cup stored \cup ({requested[r].step : r \in PanelRequests} \ {"none"})
Within(step) == Cardinality(Touched \cup {step}) <= MaxSteps

OnboardInit == /\ progress = INITIAL_PROGRESS /\ tab = FreshPanel("model")
               /\ requested = [r \in PanelRequests |-> Unused] /\ stored = {}

-----------------------------------------------------------------------------
(* The panels.                                                              *)

onTab == \E s \in ONBOARDING_STEPS \ {tab.step} :
    /\ tab' = FreshPanel(s) /\ UNCHANGED <<progress, requested, stored>>

\* A panel's button is disabled while it waits.  Each recipe and each platform has a
\* button of its own, and only the last one pressed is disabled.
ButtonsOfTheirOwn == {"recipe", "social"}

submitStep(step) == \E r \in PanelRequests :
    /\ tab.step = step /\ (tab.waits = 0 \/ step \in ButtonsOfTheirOwn)
    /\ requested[r] = Unused /\ Within(step)
    /\ requested' = [requested EXCEPT ![r] = [step |-> step, at |-> "server"]]
    /\ tab' = [tab EXCEPT !.waits = r]
    /\ UNCHANGED <<progress, stored>>

submitModel   == submitStep("model")
handleConnect == submitStep("social")
submitMeta    == submitStep("meta")
handleApply   == submitStep("recipe")
handleImport  == submitStep("brand-voice")

\* The server stores what was asked for and says so, or refuses with a status and a JSON
\* error; it may fail after it stored.
serveStep == \E r \in PanelRequests :
    /\ requested[r].at \in {"server", "left"}
    /\ \E storing \in BOOLEAN, answering \in {"stored", "refused"} :
          /\ stored' = IF storing THEN stored \cup {requested[r].step} ELSE stored
          /\ answering = "stored" => storing
          /\ requested' = [requested EXCEPT ![r] = IF @.at = "left" THEN Unused ELSE [@ EXCEPT !.at = answering]]
    /\ UNCHANGED <<progress, tab>>

\* finally: the button that was pressed last is enabled again.
Finally(r) == /\ requested' = [requested EXCEPT ![r] = Unused]
              /\ tab' = IF tab.waits = r THEN [tab EXCEPT !.waits = 0] ELSE tab

\* postJson throws only when no JSON comes.  The panels that look at the body
\* complete their step on stored, applied or imported; the model panel and
\* the connect panel complete it on any body.
LooksAtBody_None == {}
LooksAtBody == {"meta", "recipe", "brand-voice"}
completes(step, answer) == answer = "stored" \/ (answer = "refused" /\ step \notin LooksAtBody)

settleStep == \E r \in PanelRequests :
    /\ requested[r].at \in {"stored", "refused"} /\ Finally(r)
    /\ IF completes(requested[r].step, requested[r].at) THEN completeStep(requested[r].step) ELSE UNCHANGED progress
    /\ UNCHANGED stored

\* The fetch fails, before or after the server has done its part.
fetchFails == \E r \in PanelRequests :
    /\ requested[r].at \in {"server", "stored", "refused"}
    /\ requested' = [requested EXCEPT ![r] = IF @.at = "server" THEN [@ EXCEPT !.at = "left"] ELSE Unused]
    /\ tab' = IF tab.waits = r THEN [tab EXCEPT !.waits = 0] ELSE tab
    /\ UNCHANGED <<progress, stored>>

\* The page is closed or loaded again; the server goes on with what it was asked.
reloadPage == /\ tab' = FreshPanel("model")
              /\ requested' = [r \in PanelRequests |-> IF requested[r].at \in {"server", "left"}
                                                       THEN [requested[r] EXCEPT !.at = "left"] ELSE Unused]
              /\ UNCHANGED <<progress, stored>>

-----------------------------------------------------------------------------
(* Progress.                                                                *)

skipStep == /\ Within(tab.step)
            /\ writeProgress([completed |-> progress.completed \ {tab.step},
                              skipped |-> progress.skipped \cup {tab.step}])
            /\ UNCHANGED <<tab, requested, stored>>

relaunchOnboarding == /\ writeProgress(INITIAL_PROGRESS)
                      /\ UNCHANGED <<tab, requested, stored>>

OnboardNext == \/ onTab \/ submitModel \/ handleConnect \/ submitMeta \/ handleApply \/ handleImport
               \/ serveStep \/ settleStep \/ fetchFails \/ reloadPage \/ skipStep \/ relaunchOnboarding

OnboardSpec == OnboardInit /\ [][OnboardNext]_onboardVars

-----------------------------------------------------------------------------
(* Properties.                                                              *)

\* A step shown as done was done at the server, and is not also shown as skipped, whatever
\* other requests of the same step were refused, lost or superseded, and whatever was
\* skipped or started again before the answer came: true of the steps whose panel looks at
\* the answer.
DoneIsStored == \A s \in ONBOARDING_STEPS : stepStatus(s) = "done" =>
                   /\ s \in stored \/ s \in {"model", "social"}
                   /\ s \notin progress.skipped
=============================================================================
