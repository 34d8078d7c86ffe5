--------------------------- MODULE WorkbenchProofs ---------------------------
(***************************************************************************)
(* Proofs about the server, what runs in it and the pages in front of it,  *)
(* for any values of their constants: SetupWizard, ModelSelection, Onboarding, *)
(* Server, TwitterQuota, Sessions, Publishing, LiveViews, BrandVoice,      *)
(* Analytics and Webhooks, each on its own.                                *)
(***************************************************************************)
EXTENDS SetupWizard, ModelSelection, Onboarding, Server, TwitterQuota, Sessions, Publishing, LiveViews,
        BrandVoice, Analytics, Webhooks, Induction, SequenceTheorems

-----------------------------------------------------------------------------
\* The setup wizard

Wizard == [step : 0 .. 2, provider : SETUP_PROVIDERS, providerValidated : BOOLEAN, telegramVerified : BOOLEAN]
VaultCopy == [key : BOOLEAN, telegram : BOOLEAN, readable : BOOLEAN]
SetupRequest == [kind : {"none", "provider", "telegram"},
                 at : {"none", "checking", "sending", "storing", "writing", "valid", "refused"}, heard : BOOLEAN,
                 next : VaultCopy, meets : BOOLEAN]

Page == [done : BOOLEAN, waiting : 0 .. MaxRequests]

SetupTyped ==
  /\ wizard \in Wizard
  /\ displayed \in Page
  /\ requests \in [Slots -> SetupRequest]
  /\ secrets \in [cache : VaultCopy, file : VaultCopy]
  /\ \A i \in Slots : requests[i].at # "none" => requests[i].kind # "none"

\* A step that was passed, a mark in the browser, an answer that is under way and the
\* end of the wizard each stand for a write that the server has confirmed.
MarksAreConfirmed ==
  /\ wizard.providerValidated \/ wizard.step = 2 => "provider" \in confirmed
  /\ wizard.telegramVerified => "telegram" \in confirmed
AnswersAreConfirmed == \A i \in Slots : requests[i].at = "valid" => requests[i].kind \in confirmed
DoneIsConfirmed == displayed.done => {"provider", "telegram"} \subseteq confirmed

\* What one copy of the vault has, another has too.
Has(vault, kind) == IF kind = "provider" THEN vault.key ELSE vault.telegram
Kinds_ == {"provider", "telegram"}

\* As long as no two writes have met, the vault has what was confirmed, and the only write
\* there may be adds to what it has.
VaultHolds ==
  /\ \A k \in Kinds_ : k \in confirmed => Has(secrets.cache, k)
  /\ secrets.file = secrets.cache
  /\ \A i, j \in Writers : i = j
  /\ \A i \in Writers : /\ ~requests[i].meets /\ Has(requests[i].next, requests[i].kind)
                        /\ \A k \in Kinds_ : Has(secrets.cache, k) => Has(requests[i].next, k)

SetupInv == SetupTyped /\ MarksAreConfirmed /\ AnswersAreConfirmed /\ DoneIsConfirmed /\ (~met => VaultHolds)

LEMMA SetupStart == SetupInit => SetupInv
<1> SUFFICES ASSUME SetupInit PROVE SetupInv
  OBVIOUS
<1>1. wizard \in Wizard /\ MarksAreConfirmed
  BY SetupAssumption DEF SetupInit, MarksAreConfirmed, INITIAL_WIZARD_STATE, Wizard
<1>2. displayed \in Page /\ DoneIsConfirmed
  <2>1. 0 \in 0 .. MaxRequests
    BY SetupAssumption
  <2> QED
    BY <2>1, Zenon DEF SetupInit, Page, DoneIsConfirmed
<1>3. /\ requests \in [Slots -> SetupRequest] /\ AnswersAreConfirmed /\ Writers = {}
      /\ \A i \in Slots : requests[i].at = "none"
  <2>1. NoSecrets \in VaultCopy
    BY DEF NoSecrets, VaultCopy
  <2>2. Unsent \in SetupRequest /\ Unsent.at = "none"
    BY <2>1 DEF Unsent, SetupRequest
  <2> QED
    BY <2>2 DEF SetupInit, AnswersAreConfirmed, Writers
<1>4. secrets \in [cache : VaultCopy, file : VaultCopy] /\ secrets.file = secrets.cache /\ confirmed = {}
  BY DEF SetupInit, VaultCopy, NoSecrets
<1>5. VaultHolds
  BY <1>3, <1>4 DEF VaultHolds
<1> QED
  BY <1>1, <1>2, <1>3, <1>4, <1>5 DEF SetupInv, SetupTyped

\* A request that neither writes nor carries a confirmation, or is one that did before.
SameAnswer(i) == /\ requests'[i].at = requests[i].at /\ requests'[i].kind = requests[i].kind
                 /\ requests'[i].next = requests[i].next /\ requests'[i].meets = requests[i].meets

\* A step of the page: the vault is as it was.
LEMMA WizardStep ==
  ASSUME SetupInv, UNCHANGED <<secrets, confirmed, met>>, wizard' \in Wizard, MarksAreConfirmed',
         DoneIsConfirmed', displayed' \in Page, requests' \in [Slots -> SetupRequest],
         \A i \in Slots : requests'[i].at # "none" => requests'[i].kind # "none",
         \A i \in Slots : requests'[i].at \in {"valid", "writing"} => SameAnswer(i)
  PROVE SetupInv'
<1>1. SetupTyped' /\ AnswersAreConfirmed'
  BY DEF SetupInv, SetupTyped, AnswersAreConfirmed, SameAnswer
<1>2. Writers' \subseteq Writers /\ \A i \in Writers' : SameAnswer(i)
  BY DEF Writers, SameAnswer
<1>3. ~met => VaultHolds'
  <2> SUFFICES ASSUME VaultHolds PROVE VaultHolds'
    BY DEF SetupInv
  <2> QED
    BY <1>2 DEF VaultHolds, SameAnswer, Has
<1> QED
  BY <1>1, <1>3 DEF SetupInv

LEMMA NoLongerWaits ==
  /\ SetupTyped => /\ [displayed EXCEPT !.waiting = 0] \in Page
                   /\ [displayed EXCEPT !.waiting = 0].done = displayed.done
                   /\ displayed \in Page
  /\ \A d \in BOOLEAN : [done |-> d, waiting |-> 0] \in Page /\ [done |-> d, waiting |-> 0].done = d
<1>1. 0 \in 0 .. MaxRequests
  BY SetupAssumption
<1> QED
  BY <1>1 DEF SetupTyped, Page

LEMMA UnsentIsTyped == Unsent \in SetupRequest /\ Unsent.at = "none" /\ NoSecrets \in VaultCopy
<1>1. NoSecrets \in VaultCopy
  BY DEF NoSecrets, VaultCopy
<1> QED
  BY <1>1 DEF Unsent, SetupRequest

\* Of a request one keeps what it is, or nothing where nobody waits for its answer.
LEMMA OpenIsTyped ==
  ASSUME NEW r \in SetupRequest
  PROVE  /\ Open(r) \in SetupRequest
         /\ Open(r) = r \/ Open(r).at = "none"
         /\ r.at \notin {"valid", "refused"} => Open(r) = r
BY UnsentIsTyped DEF Open

LEMMA PageSteps == ASSUME SetupInv, goNext \/ goBack \/ onProviderChange PROVE SetupInv'
<1>1. UNCHANGED <<secrets, confirmed, met, requests>> /\ displayed'.done = displayed.done /\ displayed' \in Page
  BY NoLongerWaits DEF SetupInv, goNext, goBack, onProviderChange
<1>2. wizard' \in Wizard /\ MarksAreConfirmed'
  <2>1. CASE goNext
    <3>1. wizard.step \in {0, 1} /\ (wizard.step = 1 => wizard.providerValidated)
      <4>1. wizard.step \in {0, 1}
        BY <2>1 DEF SetupInv, SetupTyped, Wizard, goNext, TOTAL_STEPS
      <4>2. wizard.step = 1 => canAdvance = wizard.providerValidated
        BY DEF canAdvance
      <4> QED
        BY <2>1, <4>1, <4>2 DEF goNext
    <3>2. PICK n \in 0 .. 2 : n = wizard.step + 1 /\ (n = 2 => wizard.providerValidated)
      BY <3>1
    <3>3. wizard' = wizard \/ wizard' = [wizard EXCEPT !.step = n]
      BY <2>1, <3>2 DEF goNext, writeWizardState
    <3> QED
      BY <1>1, <3>2, <3>3 DEF SetupInv, SetupTyped, Wizard, MarksAreConfirmed
  <2>2. CASE goBack
    BY <1>1, <2>2 DEF SetupInv, SetupTyped, goBack, writeWizardState, Wizard, MarksAreConfirmed
  <2>3. CASE onProviderChange
    BY <1>1, <2>3 DEF SetupInv, SetupTyped, onProviderChange, writeWizardState, Wizard, MarksAreConfirmed
  <2> QED
    BY <2>1, <2>2, <2>3
<1>3. DoneIsConfirmed'
  BY <1>1 DEF SetupInv, DoneIsConfirmed
<1> QED
  BY <1>1, <1>2, <1>3, WizardStep DEF SetupInv, SetupTyped, SameAnswer

LEMMA FinishStep == ASSUME SetupInv, finish PROVE SetupInv'
<1>1. /\ UNCHANGED <<secrets, confirmed, met, requests>> /\ wizard' = INITIAL_WIZARD_STATE
      /\ displayed' = [done |-> TRUE, waiting |-> 0] /\ wizard.step = 2 /\ wizard.telegramVerified
  BY DEF finish, canAdvance, TOTAL_STEPS
<1>2. DoneIsConfirmed'
  BY <1>1 DEF SetupInv, MarksAreConfirmed, DoneIsConfirmed
<1>3. wizard' \in Wizard /\ MarksAreConfirmed'
  BY <1>1, SetupAssumption DEF INITIAL_WIZARD_STATE, Wizard, MarksAreConfirmed
<1> QED
  BY <1>1, <1>2, <1>3, NoLongerWaits, WizardStep DEF SetupInv, SetupTyped, SameAnswer

LEMMA SubmitStep == ASSUME SetupInv, handleValidate \/ handleVerify PROVE SetupInv'
<1>1. PICK kind \in {"provider", "telegram"} : submit(kind)
  BY DEF handleValidate, handleVerify
<1>2. PICK i \in Slots : /\ ~displayed.done /\ requests[i] = Unsent
                         /\ requests' = [requests EXCEPT ![i] = [Unsent EXCEPT !.kind = kind, !.at = "checking",
                                                                              !.heard = TRUE]]
                         /\ displayed' = [displayed EXCEPT !.waiting = i]
                         /\ UNCHANGED <<wizard, secrets, confirmed, met>>
  BY <1>1 DEF submit
<1>3. /\ requests' \in [Slots -> SetupRequest]
      /\ \A j \in Slots : /\ requests'[j].at \in {"valid", "writing"} => SameAnswer(j)
                          /\ requests'[j].at # "none" => requests'[j].kind # "none"
  <2> DEFINE r == [Unsent EXCEPT !.kind = kind, !.at = "checking", !.heard = TRUE]
  <2>1. r \in SetupRequest /\ r.at = "checking" /\ r.kind = kind
    BY UnsentIsTyped DEF SetupRequest
  <2>2. requests' = [requests EXCEPT ![i] = r]
    BY <1>2
  <2> HIDE DEF r
  <2> QED
    BY <2>1, <2>2 DEF SetupInv, SetupTyped, SameAnswer
<1>4. displayed' \in Page /\ displayed'.done = displayed.done
  <2>1. i \in 0 .. MaxRequests
    BY SetupAssumption DEF Slots
  <2> QED
    BY <1>2, <2>1 DEF SetupInv, SetupTyped, Page
<1>5. wizard' \in Wizard /\ MarksAreConfirmed' /\ DoneIsConfirmed'
  BY <1>2, <1>4 DEF SetupInv, SetupTyped, MarksAreConfirmed, DoneIsConfirmed
<1> QED
  BY <1>2, <1>3, <1>4, <1>5, WizardStep

LEMMA AnswerArrivesStep == ASSUME SetupInv, answered PROVE SetupInv'
<1>1. PICK i \in Slots :
        /\ IF requests[i].at = "valid"
           THEN writeWizardState(IF requests[i].kind = "provider" THEN onValidated ELSE onVerified)
           ELSE UNCHANGED wizard
        /\ requests' = [requests EXCEPT ![i] = Unsent]
        /\ displayed' = IF displayed.waiting = i THEN [displayed EXCEPT !.waiting = 0] ELSE displayed
        /\ UNCHANGED <<secrets, confirmed, met>>
  BY DEF answered
<1>2. /\ requests' \in [Slots -> SetupRequest]
      /\ \A j \in Slots : /\ requests'[j].at \in {"valid", "writing"} => SameAnswer(j)
                          /\ requests'[j].at # "none" => requests'[j].kind # "none"
  BY <1>1, UnsentIsTyped DEF SetupInv, SetupTyped, SameAnswer
<1>3. displayed' \in Page /\ displayed'.done = displayed.done
  BY <1>1, NoLongerWaits DEF SetupInv
<1>4. wizard' \in Wizard /\ MarksAreConfirmed'
  <2>1. requests[i].at = "valid" => requests[i].kind \in confirmed /\ requests[i].kind \in {"provider", "telegram"}
    BY DEF SetupInv, SetupTyped, AnswersAreConfirmed, SetupRequest
  <2> QED
    BY <1>1, <2>1 DEF SetupInv, SetupTyped, MarksAreConfirmed, writeWizardState, onValidated, onVerified, Wizard
<1>5. DoneIsConfirmed'
  BY <1>1, <1>3 DEF SetupInv, DoneIsConfirmed
<1> QED
  BY <1>1, <1>2, <1>3, <1>4, <1>5, WizardStep

LEMMA LostAnswerStep == ASSUME SetupInv, unreachable \/ reload PROVE SetupInv'
<1>1. UNCHANGED <<secrets, confirmed, met>> /\ (wizard' = wizard \/ wizard' = INITIAL_WIZARD_STATE)
  BY DEF unreachable, reload
<1>2. /\ requests' \in [Slots -> SetupRequest]
      /\ \A j \in Slots : SameAnswer(j) \/ requests'[j].at = "none"
  <2> DEFINE r(j) == [requests[j] EXCEPT !.heard = FALSE]
  <2>0. \A j \in Slots : /\ r(j) \in SetupRequest
                         /\ r(j).at = requests[j].at /\ r(j).kind = requests[j].kind
                         /\ r(j).next = requests[j].next /\ r(j).meets = requests[j].meets
    <3>1. \A j \in Slots : requests[j] \in SetupRequest
      BY DEF SetupInv, SetupTyped
    <3> QED
      BY <3>1 DEF SetupRequest
  <2>1. \A j \in Slots : /\ Open(r(j)) \in SetupRequest
                         /\ Open(r(j)) = r(j) \/ Open(r(j)).at = "none"
    BY <2>0, OpenIsTyped
  <2>2. CASE unreachable
    <3>1. PICK i \in Slots : requests' = [requests EXCEPT ![i] = Open(r(i))]
      BY <2>2 DEF unreachable
    <3> HIDE DEF r
    <3> QED
      BY <2>0, <2>1, <3>1 DEF SetupInv, SetupTyped, SameAnswer
  <2>3. CASE reload
    <3>1. requests' = [j \in Slots |-> Open(r(j))]
      BY <2>3 DEF reload
    <3> HIDE DEF r
    <3> QED
      BY <2>0, <2>1, <3>1 DEF SameAnswer
  <2> QED
    BY <2>2, <2>3
<1>3. displayed' \in Page /\ (displayed'.done => displayed.done)
  BY NoLongerWaits DEF unreachable, reload, SetupInv
<1>4. wizard' \in Wizard /\ MarksAreConfirmed'
  <2>1. CASE wizard' = wizard
    BY <1>1, <2>1 DEF SetupInv, SetupTyped, MarksAreConfirmed
  <2>2. CASE wizard' = INITIAL_WIZARD_STATE
    BY <2>2, SetupAssumption DEF MarksAreConfirmed, INITIAL_WIZARD_STATE, Wizard
  <2> QED
    BY <1>1, <2>1, <2>2
<1>5. DoneIsConfirmed' /\ \A i \in Slots : requests'[i].at # "none" => requests'[i].kind # "none"
  BY <1>1, <1>2, <1>3 DEF SetupInv, SetupTyped, DoneIsConfirmed, SameAnswer
<1> QED
  BY <1>1, <1>2, <1>3, <1>4, <1>5, WizardStep

\* The server answers a request, or says how far it is.
Answers_(i, how) ==
  [requests EXCEPT ![i] = Open([@ EXCEPT !.at = how, !.next = NoSecrets, !.meets = FALSE])]

LEMMA AnswerIsTyped ==
  ASSUME SetupTyped, NEW i \in Slots, NEW how \in {"sending", "storing", "valid", "refused"},
         requests[i].at # "none"
  PROVE  LET next == Answers_(i, how) IN
         /\ next \in [Slots -> SetupRequest]
         /\ next[i].at = "none" \/ (next[i].at = how /\ next[i].kind = requests[i].kind)
         /\ \A j \in Slots : /\ j # i => next[j] = requests[j]
                             /\ next[j].at # "none" => next[j].kind # "none"
<1>1. requests[i] \in SetupRequest
  BY DEF SetupTyped
<1> DEFINE r == [requests[i] EXCEPT !.at = how, !.next = NoSecrets, !.meets = FALSE]
<1>2. r \in SetupRequest /\ r.at = how /\ r.kind = requests[i].kind
  BY <1>1, UnsentIsTyped DEF SetupRequest
<1>3. Answers_(i, how) = [requests EXCEPT ![i] = Open(r)]
  BY DEF Answers_
<1> HIDE DEF r
<1>4. Open(r) \in SetupRequest /\ (Open(r) = r \/ Open(r).at = "none")
  BY <1>2, OpenIsTyped
<1> QED
  BY <1>1, <1>2, <1>3, <1>4 DEF SetupTyped

LEMMA LeftIsTyped == SetupTyped => Left(Writers) \subseteq VaultCopy
<1> SUFFICES ASSUME SetupTyped, NEW left \in Left(Writers) PROVE left \in VaultCopy
  OBVIOUS
<1>1. left = secrets.file \/ (\E j \in Writers : left = requests[j].next) \/ left = Unreadable
  BY DEF Left
<1>2. \A j \in Writers : requests[j].next \in VaultCopy
  BY DEF Writers, SetupTyped, SetupRequest
<1>3. secrets.file \in VaultCopy
  BY DEF SetupTyped
<1>4. Unreadable \in VaultCopy
  BY DEF Unreadable, NoSecrets, VaultCopy
<1> QED
  BY <1>1, <1>2, <1>3, <1>4

LEMMA CheckStep == ASSUME SetupInv, check PROVE SetupInv'
<1>1. UNCHANGED <<secrets, wizard, displayed, confirmed, met>>
  BY DEF check
<1>2. /\ requests' \in [Slots -> SetupRequest]
      /\ \A j \in Slots : /\ requests'[j].at \in {"valid", "writing"} => SameAnswer(j)
                          /\ requests'[j].at # "none" => requests'[j].kind # "none"
  <2>1. PICK i \in Slots, how \in {"sending", "storing", "refused"} :
          requests' = Answers_(i, how) /\ requests[i].at # "none"
    BY DEF check, validateProviderKey, verifyTelegram, ServerAnswer, Answers_
  <2> QED
    BY <2>1, AnswerIsTyped DEF SetupInv, SameAnswer
<1>3. wizard' \in Wizard /\ displayed' \in Page /\ MarksAreConfirmed' /\ DoneIsConfirmed'
  BY <1>1 DEF SetupInv, SetupTyped, MarksAreConfirmed, DoneIsConfirmed
<1> QED
  BY <1>1, <1>2, <1>3, WizardStep

LEMMA WizardRestartStep == ASSUME SetupInv, serverRestart PROVE SetupInv'
<1>1. PICK left \in Left(Writers) : secrets' = [cache |-> left, file |-> left]
  BY DEF serverRestart
<1>2. /\ UNCHANGED <<wizard, displayed, confirmed, met>>
      /\ requests' = [i \in Slots |->
           IF requests[i].at \in AtServer
           THEN Open([requests[i] EXCEPT !.at = "refused", !.next = NoSecrets, !.meets = FALSE])
           ELSE requests[i]]
  BY DEF serverRestart
<1>3. \A i \in Slots : /\ requests'[i] \in SetupRequest /\ requests'[i].at # "writing"
                       /\ requests'[i].at # "none" => requests'[i].kind = requests[i].kind
                       /\ requests'[i].at # "none" => requests[i].at # "none"
                       /\ requests'[i].at = "valid" => requests[i].at = "valid"
  <2> TAKE i \in Slots
  <2>1. requests[i] \in SetupRequest
    BY DEF SetupInv, SetupTyped
  <2>2. CASE requests[i].at \in AtServer
    <3> DEFINE r == [requests[i] EXCEPT !.at = "refused", !.next = NoSecrets, !.meets = FALSE]
    <3>1. requests'[i] = Open(r)
      BY <1>2, <2>2
    <3>2. r \in SetupRequest /\ r.at = "refused" /\ r.kind = requests[i].kind
      BY <2>1, UnsentIsTyped DEF SetupRequest
    <3> HIDE DEF r
    <3>3. Open(r) \in SetupRequest /\ (Open(r) = r \/ Open(r).at = "none")
      BY <3>2, OpenIsTyped
    <3> QED
      BY <2>2, <3>1, <3>2, <3>3 DEF AtServer
  <2>3. CASE requests[i].at \notin AtServer
    BY <1>2, <2>1, <2>3 DEF AtServer
  <2> QED
    BY <2>2, <2>3
<1>4. left \in VaultCopy
  BY <1>1, LeftIsTyped DEF SetupInv
<1>5. SetupTyped' /\ AnswersAreConfirmed' /\ Writers' = {}
  <2>1. secrets' \in [cache : VaultCopy, file : VaultCopy]
    BY <1>1, <1>4
  <2>2. requests' \in [Slots -> SetupRequest]
    BY <1>2, <1>3
  <2>3. Writers' = {}
    BY <1>3 DEF Writers
  <2>4. AnswersAreConfirmed'
    <3>1. confirmed' = confirmed
      BY <1>2
    <3> QED
      BY <1>3, <3>1 DEF SetupInv, AnswersAreConfirmed
  <2>5. \A i \in Slots : requests'[i].at # "none" => requests'[i].kind # "none"
    BY <1>3 DEF SetupInv, SetupTyped
  <2> QED
    BY <1>2, <2>1, <2>2, <2>3, <2>4, <2>5 DEF SetupInv, SetupTyped
<1>6. ~met' => VaultHolds'
  <2> SUFFICES ASSUME VaultHolds PROVE VaultHolds'
    BY <1>2 DEF SetupInv
  <2>1. secrets'.cache = left /\ secrets'.file = left
    BY <1>1
  <2>2. \/ left = secrets.cache
        \/ \E i \in Writers : left = requests[i].next
    BY <1>1 DEF Left, VaultHolds
  <2>3. \A k \in Kinds_ : Has(secrets.cache, k) => Has(left, k)
    BY <2>2 DEF VaultHolds
  <2> QED
    BY <1>2, <1>5, <2>1, <2>3 DEF VaultHolds
<1>7. MarksAreConfirmed' /\ DoneIsConfirmed'
  BY <1>2 DEF SetupInv, MarksAreConfirmed, DoneIsConfirmed
<1> QED
  BY <1>5, <1>6, <1>7 DEF SetupInv

LEMMA LoadStep == ASSUME SetupInv, loadVault PROVE SetupInv'
<1>1. PICK i \in Slots :
        /\ requests[i].at = "storing"
        /\ UNCHANGED <<wizard, displayed, secrets, confirmed>>
        /\ \/ /\ requests' = [j \in Slots |->
                   IF j = i THEN [requests[i] EXCEPT !.at = "writing", !.meets = Writers # {},
                                                     !.next = Added(requests[i].kind)]
                   ELSE IF j \in Writers THEN [requests[j] EXCEPT !.meets = TRUE] ELSE requests[j]]
              /\ met' = (met \/ Writers # {})
           \/ requests' = Answers_(i, "refused") /\ UNCHANGED met
  BY DEF loadVault, ServerAnswer, Answers_
<1>2. wizard' \in Wizard /\ displayed' \in Page /\ MarksAreConfirmed' /\ DoneIsConfirmed'
  BY <1>1 DEF SetupInv, SetupTyped, MarksAreConfirmed, DoneIsConfirmed
<1>3. CASE requests' = Answers_(i, "refused") /\ UNCHANGED met
  BY <1>1, <1>2, <1>3, AnswerIsTyped, WizardStep DEF SetupInv, SameAnswer
<1>4. CASE /\ requests' = [j \in Slots |->
                   IF j = i THEN [requests[i] EXCEPT !.at = "writing", !.meets = Writers # {},
                                                     !.next = Added(requests[i].kind)]
                   ELSE IF j \in Writers THEN [requests[j] EXCEPT !.meets = TRUE] ELSE requests[j]]
           /\ met' = (met \/ Writers # {})
  <2>0. /\ requests[i] \in SetupRequest /\ requests[i].kind \in Kinds_
        /\ secrets.cache \in VaultCopy
    BY <1>1 DEF SetupInv, SetupTyped, SetupRequest, Kinds_
  <2> DEFINE next == Added(requests[i].kind)
  <2>1. /\ next \in VaultCopy /\ Has(next, requests[i].kind)
        /\ \A k \in Kinds_ : Has(secrets.cache, k) => Has(next, k)
    <3>1. CASE requests[i].kind = "provider"
      BY <2>0, <3>1 DEF Added, VaultCopy, Has, Kinds_
    <3>2. CASE requests[i].kind = "telegram"
      BY <2>0, <3>2 DEF Added, VaultCopy, Has, Kinds_
    <3> QED
      BY <2>0, <3>1, <3>2 DEF Kinds_
  <2> HIDE DEF next
  <2>2. /\ requests'[i] \in SetupRequest /\ requests'[i].at = "writing" /\ requests'[i].next = next
        /\ requests'[i].kind = requests[i].kind /\ requests'[i].meets = (Writers # {})
    <3>1. requests'[i] = [requests[i] EXCEPT !.at = "writing", !.meets = Writers # {}, !.next = next]
      BY <1>4 DEF next
    <3>2. PICK b \in BOOLEAN : b = (Writers # {})
      OBVIOUS
    <3>3. requests'[i] = [requests[i] EXCEPT !.at = "writing", !.meets = b, !.next = next]
      BY <3>1, <3>2
    <3>4. /\ requests'[i] \in SetupRequest /\ requests'[i].at = "writing" /\ requests'[i].next = next
          /\ requests'[i].kind = requests[i].kind /\ requests'[i].meets = b
      BY <2>0, <2>1, <3>3 DEF SetupRequest
    <3> QED
      BY <3>2, <3>4
  <2>3. \A j \in Slots \ {i} : /\ requests'[j] \in SetupRequest /\ requests'[j].at = requests[j].at
                               /\ requests'[j].kind = requests[j].kind
    <3> TAKE j \in Slots \ {i}
    <3>1. requests[j] \in SetupRequest
      BY DEF SetupInv, SetupTyped
    <3>2. requests'[j] = requests[j] \/ requests'[j] = [requests[j] EXCEPT !.meets = TRUE]
      BY <1>4
    <3> QED
      BY <3>1, <3>2 DEF SetupRequest
  <2>4. SetupTyped' /\ AnswersAreConfirmed'
    <3>1. requests' \in [Slots -> SetupRequest]
      BY <1>4, <2>2, <2>3
    <3>2. \A j \in Slots : requests'[j].at # "none" => requests'[j].kind # "none"
      BY <1>1, <2>2, <2>3 DEF SetupInv, SetupTyped
    <3>3. AnswersAreConfirmed'
      BY <1>1, <2>2, <2>3 DEF SetupInv, AnswersAreConfirmed
    <3> QED
      BY <1>1, <1>2, <3>1, <3>2, <3>3 DEF SetupInv, SetupTyped
  <2>5. ~met' => VaultHolds'
    <3> SUFFICES ASSUME VaultHolds, Writers = {} PROVE VaultHolds'
      BY <1>4 DEF SetupInv
    <3>1. Writers' = {i}
      BY <2>2, <2>3 DEF Writers
    <3> QED
      BY <1>1, <2>1, <2>2, <3>1 DEF VaultHolds
  <2> QED
    BY <1>2, <2>4, <2>5 DEF SetupInv
<1> QED
  BY <1>1, <1>3, <1>4

LEMMA PersistStep == ASSUME SetupInv, persist PROVE SetupInv'
<1>1. PICK i \in Writers :
        /\ UNCHANGED <<wizard, displayed, met>>
        /\ \/ /\ \E left \in IF requests[i].meets THEN Left(Writers) ELSE {requests[i].next} :
                   secrets' = [cache |-> requests[i].next, file |-> left]
              /\ confirmed' = confirmed \cup {requests[i].kind}
              /\ requests' = Answers_(i, "valid")
           \/ /\ \E left \in IF requests[i].meets THEN Left(Writers) ELSE {secrets.file} :
                   secrets' = [secrets EXCEPT !.file = left]
              /\ requests' = Answers_(i, "refused") /\ UNCHANGED confirmed
  BY DEF persist, ServerAnswer, Answers_, whenNotStored
<1>2. i \in Slots /\ requests[i].at = "writing" /\ requests[i].next \in VaultCopy /\ requests[i].kind \in Kinds_
  BY DEF Writers, SetupInv, SetupTyped, SetupRequest, Kinds_
<1>3. Left(Writers) \subseteq VaultCopy
  BY LeftIsTyped DEF SetupInv
<1>4. secrets.cache \in VaultCopy /\ secrets.file \in VaultCopy /\ secrets \in [cache : VaultCopy, file : VaultCopy]
  BY DEF SetupInv, SetupTyped
<1>5. secrets' \in [cache : VaultCopy, file : VaultCopy]
  BY <1>1, <1>2, <1>3, <1>4
<1>6. /\ requests' \in [Slots -> SetupRequest] /\ confirmed \subseteq confirmed'
      /\ requests'[i].at \in {"none", "valid", "refused"}
      /\ requests'[i].at # "none" => requests'[i].kind = requests[i].kind
      /\ requests'[i].at = "valid" => requests[i].kind \in confirmed'
      /\ \A j \in Slots : /\ j # i => requests'[j] = requests[j]
                          /\ requests'[j].at # "none" => requests'[j].kind # "none"
  BY <1>1, <1>2, AnswerIsTyped DEF SetupInv
<1>7. SetupTyped' /\ AnswersAreConfirmed'
  BY <1>1, <1>5, <1>6 DEF SetupInv, SetupTyped, AnswersAreConfirmed
<1>8. MarksAreConfirmed' /\ DoneIsConfirmed'
  BY <1>1, <1>6 DEF SetupInv, MarksAreConfirmed, DoneIsConfirmed
<1>9. ~met' => VaultHolds'
  <2> SUFFICES ASSUME VaultHolds PROVE VaultHolds'
    BY <1>1 DEF SetupInv
  <2>1. ~requests[i].meets /\ Writers = {i}
    BY DEF VaultHolds
  <2>2. Writers' = {}
    BY <1>6, <2>1 DEF Writers
  <2>3. CASE /\ secrets' = [cache |-> requests[i].next, file |-> requests[i].next]
             /\ confirmed' = confirmed \cup {requests[i].kind}
    <3>1. secrets'.cache = requests[i].next /\ secrets'.file = requests[i].next
      BY <2>3
    <3> QED
      BY <2>2, <2>3, <3>1 DEF VaultHolds
  <2>4. CASE secrets' = [secrets EXCEPT !.file = secrets.file] /\ UNCHANGED confirmed
    <3>1. secrets'.cache = secrets.cache /\ secrets'.file = secrets.file
      BY <1>4, <2>4
    <3> QED
      BY <2>2, <2>4, <3>1 DEF VaultHolds
  <2> QED
    BY <1>1, <2>1, <2>3, <2>4
<1> QED
  BY <1>7, <1>8, <1>9 DEF SetupInv

\* For any providers and any number of requests under way, lost or late: the page says
\* that the setup is finished only when the server has confirmed that it stored both, and
\* would agree that it has them unless two of its writes have met.
THEOREM FinishedIsAlwaysComplete == SetupSpec => []FinishedIsComplete
<1>1. ASSUME SetupInv, [SetupNext]_setupVars PROVE SetupInv'
  <2>1. CASE UNCHANGED setupVars
    BY <1>1, <2>1, WizardStep DEF setupVars, SetupInv, SetupTyped, MarksAreConfirmed, DoneIsConfirmed, SameAnswer
  <2> QED
    BY <1>1, <2>1, PageSteps, FinishStep, SubmitStep, AnswerArrivesStep, LostAnswerStep, CheckStep, WizardRestartStep,
       LoadStep, PersistStep DEF SetupNext
<1>2. SetupInv => FinishedIsComplete
  BY DEF SetupInv, DoneIsConfirmed, FinishedIsComplete, VaultHolds, Has, Kinds_, status, hasProvider, hasTelegram
<1> QED
  BY <1>1, <1>2, SetupStart, PTL DEF SetupSpec

-----------------------------------------------------------------------------
\* The choice of a model

Contents == Chosen \cup {"absent", "garbled"}
Select == [at : {"none", "mkdir", "open", "written"}, want : Chosen \cup {""},
           fd : {"", "tmp", "file", "gone"}, alone : BOOLEAN]

ModelTyped ==
  /\ host \in [gib : Nat, daemon : {"down", "current", "outdated"}, installed : SUBSET Variants, key : BOOLEAN]
  /\ disk \in [file : Contents, tmp : Contents]
  /\ selects \in [SelectSlots -> Select]
  /\ chosen \in [last : SUBSET (Chosen \cup {"none"}), count : Nat, clash : BOOLEAN]
  /\ panel \in Chosen \cup {""}
  /\ \A i \in InFlight : selects[i].want \in Chosen

\* A request that is alone has had the temporary file for itself since it began.
Undisturbed(i) ==
  /\ InFlight = {i}
  /\ selects[i].want \in Chosen \cap chosen.last
  /\ selects[i].at = "open" => selects[i].fd = "tmp"
  /\ selects[i].at = "written" => disk.tmp = selects[i].want
AloneIsUndisturbed == \A i \in InFlight : selects[i].alone => Undisturbed(i)

\* An overlap is remembered for as long as one of its requests is under way.
OverlapsAreKnown == \A i \in InFlight : ~chosen.clash => selects[i].alone

ModelInv == ModelTyped /\ AloneIsUndisturbed /\ OverlapsAreKnown /\ SelectionIsKept

LEMMA VariantNames == Variants = {"gemma4:12b", "gemma4:e4b", "gemma4:e2b"} /\ Chosen = Variants \cup {"openai"}
                      /\ "none" \notin Chosen /\ "" \notin Chosen /\ "absent" \notin Chosen /\ "garbled" \notin Chosen
<1>1. DOMAIN GEMMA4_VARIANTS = 1 .. 3
  BY DEF GEMMA4_VARIANTS
<1>2. 1 .. 3 = {1, 2, 3}
  OBVIOUS
<1>3. Variants = {GEMMA4_VARIANTS[1], GEMMA4_VARIANTS[2], GEMMA4_VARIANTS[3]}
  BY <1>1, <1>2 DEF Variants
<1>4. Variants = {"gemma4:12b", "gemma4:e4b", "gemma4:e2b"}
  BY <1>3 DEF GEMMA4_VARIANTS
<1> QED
  BY <1>4 DEF Chosen

LEMMA ModelStart == ModelInit => ModelInv
<1> SUFFICES ASSUME ModelInit PROVE ModelInv
  OBVIOUS
<1>1. ModelTyped
  BY ModelAssumption DEF ModelInit, ModelTyped, Contents, Select, Unasked, InFlight
<1>2. InFlight = {}
  BY DEF ModelInit, InFlight, Unasked
<1>3. SelectionIsKept
  BY VariantNames DEF ModelInit, SelectionIsKept, get
<1> QED
  BY <1>1, <1>2, <1>3 DEF ModelInv, AloneIsUndisturbed, OverlapsAreKnown

LEMMA BestInstalled == ASSUME ModelTyped PROVE pickInstalledGemma4 \in Chosen \cup {""}
<1>1. CASE host.installed = {}
  BY <1>1 DEF pickInstalledGemma4
<1>2. CASE host.installed # {}
  <2> DEFINE Best(i) == /\ GEMMA4_VARIANTS[i] \in host.installed
                        /\ \A j \in 1 .. i - 1 : GEMMA4_VARIANTS[j] \notin host.installed
  <2>1. DOMAIN GEMMA4_VARIANTS = 1 .. 3 /\ 1 .. 1 - 1 = {} /\ 1 .. 2 - 1 = {1} /\ 1 .. 3 - 1 = {1, 2}
    BY DEF GEMMA4_VARIANTS
  <2>2. host.installed \cap {GEMMA4_VARIANTS[1], GEMMA4_VARIANTS[2], GEMMA4_VARIANTS[3]} # {}
    BY <1>2, VariantNames DEF ModelTyped, GEMMA4_VARIANTS
  <2>3. \E i \in 1 .. 3 : Best(i)
    <3>1. CASE GEMMA4_VARIANTS[1] \in host.installed
      BY <2>1, <3>1
    <3>2. CASE GEMMA4_VARIANTS[1] \notin host.installed /\ GEMMA4_VARIANTS[2] \in host.installed
      BY <2>1, <3>2
    <3>3. CASE GEMMA4_VARIANTS[1] \notin host.installed /\ GEMMA4_VARIANTS[2] \notin host.installed
      BY <2>1, <2>2, <3>3
    <3> QED
      BY <3>1, <3>2, <3>3
  <2>4. PICK i \in 1 .. 3 : i = CHOOSE k \in DOMAIN GEMMA4_VARIANTS : Best(k)
    BY <2>1, <2>3
  <2>5. pickInstalledGemma4 = GEMMA4_VARIANTS[i]
    BY <1>2, <2>4 DEF pickInstalledGemma4
  <2>6. GEMMA4_VARIANTS[i] \in Variants
    BY <2>1 DEF Variants
  <2> QED
    BY <2>5, <2>6 DEF Chosen
<1> QED
  BY <1>1, <1>2

LEMMA PanelStep == ASSUME ModelInv, load \/ setChoice \/ pullModel PROVE ModelInv'
<1>1. UNCHANGED <<disk, selects, chosen>>
  BY DEF load, setChoice, pullModel
<1>2. panel' \in Chosen \cup {""}
  <2>1. CASE load
    <3>1. Variants \subseteq Chosen
      BY DEF Chosen
    <3>2. pickGemma4Variant \in Chosen
      <4>1. host.gib \in Nat
        BY DEF ModelInv, ModelTyped
      <4>2. host.gib < 8 \/ host.gib \in 8 .. 15 \/ host.gib >= 16
        BY <4>1
      <4>3. pickGemma4Variant \in {"gemma4:e2b", "gemma4:e4b", "gemma4:12b"}
        BY <4>2 DEF pickGemma4Variant
      <4> QED
        BY <4>3, VariantNames
    <3>3. probeOllama \in Chosen \cup {""}
      BY BestInstalled DEF probeOllama, ModelInv
    <3>4. panel' \in {probeOllama, pickGemma4Variant} \/ panel' \in Variants
      BY <2>1 DEF load
    <3> QED
      BY <3>1, <3>2, <3>3, <3>4
  <2>2. CASE setChoice
    BY <2>2 DEF setChoice, Chosen
  <2>3. CASE pullModel
    BY <2>3 DEF pullModel, ModelInv, ModelTyped
  <2> QED
    BY <2>1, <2>2, <2>3
<1>3. ModelTyped'
  <2>1. host' \in [gib : Nat, daemon : {"down", "current", "outdated"}, installed : SUBSET Variants, key : BOOLEAN]
    <3>1. CASE host' = host
      BY <3>1 DEF ModelInv, ModelTyped
    <3>2. CASE pullModel
      BY <3>2 DEF pullModel, ModelInv, ModelTyped
    <3> QED
      BY <3>1, <3>2 DEF load, setChoice
  <2> QED
    BY <1>1, <1>2, <2>1 DEF ModelInv, ModelTyped, InFlight
<1>4. InFlight' = InFlight /\ get' = get
  BY <1>1 DEF InFlight, get
<1> QED
  BY <1>1, <1>3, <1>4 DEF ModelInv, AloneIsUndisturbed, OverlapsAreKnown, SelectionIsKept, Undisturbed

LEMMA ChooseStep == ASSUME ModelInv, NEW i \in SelectSlots, NEW want \in Chosen, select(i, want), UNCHANGED panel
                    PROVE ModelInv'
<1>0. ASSUME NEW b \in BOOLEAN, (InFlight = {}) = b
      PROVE select(i, want) => selects' = [j \in SelectSlots |->
              IF j = i THEN [at |-> "mkdir", want |-> want, fd |-> "", alone |-> b]
              ELSE [selects[j] EXCEPT !.alone = FALSE]]
  BY <1>0, Zenon DEF select
<1>1. PICK mine \in Select :
        /\ mine.at = "mkdir" /\ mine.want = want /\ mine.fd = "" /\ (mine.alone <=> InFlight = {})
        /\ selects[i].at = "none" /\ UNCHANGED <<host, disk, panel>>
        /\ selects' = [j \in SelectSlots |-> IF j = i THEN mine ELSE [selects[j] EXCEPT !.alone = FALSE]]
  <2>1. selects[i].at = "none" /\ UNCHANGED <<host, disk, panel>>
    BY DEF select
  <2>2. CASE InFlight = {}
    <3>1. selects' = [j \in SelectSlots |->
              IF j = i THEN [at |-> "mkdir", want |-> want, fd |-> "", alone |-> TRUE]
              ELSE [selects[j] EXCEPT !.alone = FALSE]]
      BY <1>0, <2>2
    <3>2. [at |-> "mkdir", want |-> want, fd |-> "", alone |-> TRUE] \in Select
      BY DEF Select
    <3> QED
      BY <2>1, <2>2, <3>1, <3>2
  <2>3. CASE InFlight # {}
    <3>1. selects' = [j \in SelectSlots |->
              IF j = i THEN [at |-> "mkdir", want |-> want, fd |-> "", alone |-> FALSE]
              ELSE [selects[j] EXCEPT !.alone = FALSE]]
      BY <1>0, <2>3
    <3>2. [at |-> "mkdir", want |-> want, fd |-> "", alone |-> FALSE] \in Select
      BY DEF Select
    <3> QED
      BY <2>1, <2>3, <3>1, <3>2
  <2> QED
    BY <2>2, <2>3
<1>2. chosen' \in [last : SUBSET (Chosen \cup {"none"}), count : Nat, clash : BOOLEAN]
      /\ chosen'.last = chosen.last \cup {want} /\ (chosen'.clash <=> chosen.clash \/ InFlight # {})
  <2>1. PICK clash \in BOOLEAN : clash = (chosen.clash \/ InFlight # {})
    OBVIOUS
  <2>2. PICK count \in Nat : count = chosen.count + 1
    <3>1. chosen.count \in Nat
      BY DEF ModelInv, ModelTyped
    <3> QED
      BY <3>1
  <2>3. chosen' = [last |-> chosen.last \cup {want}, count |-> count, clash |-> clash]
    BY <2>1, <2>2, Zenon DEF select
  <2>4. chosen.last \cup {want} \in SUBSET (Chosen \cup {"none"})
    BY DEF ModelInv, ModelTyped
  <2>5. chosen' \in [last : SUBSET (Chosen \cup {"none"}), count : Nat, clash : BOOLEAN]
    BY <2>3, <2>4
  <2>6. chosen'.clash = clash /\ chosen'.last = chosen.last \cup {want}
    BY <2>3
  <2> QED
    BY <2>1, <2>5, <2>6, Zenon
<1>3. selects' \in [SelectSlots -> Select]
  <2>1. ASSUME NEW j \in SelectSlots PROVE [selects[j] EXCEPT !.alone = FALSE] \in Select
    <3>1. selects[j] \in Select
      BY DEF ModelInv, ModelTyped
    <3> QED
      BY <3>1 DEF Select
  <2> QED
    BY <1>1, <2>1
<1>4. /\ InFlight' = InFlight \cup {i} /\ i \notin InFlight /\ selects'[i].at = "mkdir" /\ selects'[i].want = want
      /\ (selects'[i].alone <=> InFlight = {}) /\ \A j \in SelectSlots \ {i} : ~selects'[j].alone
      /\ \A j \in SelectSlots \ {i} : selects'[j].want = selects[j].want
  <2>1. selects'[i] = mine
    BY <1>1
  <2>2. ASSUME NEW j \in SelectSlots \ {i}
        PROVE ~selects'[j].alone /\ selects'[j].at = selects[j].at /\ selects'[j].want = selects[j].want
    <3>1. selects'[j] = [selects[j] EXCEPT !.alone = FALSE] /\ selects[j] \in Select
      BY <1>1 DEF ModelInv, ModelTyped
    <3>2. selects'[j].alone = FALSE /\ selects'[j].at = selects[j].at /\ selects'[j].want = selects[j].want
      BY <3>1 DEF Select
    <3> QED
      BY <3>2
  <2>3. InFlight' = InFlight \cup {i} /\ i \notin InFlight
    BY <1>1, <2>1, <2>2 DEF InFlight
  <2> QED
    BY <1>1, <2>1, <2>2, <2>3
<1>5. AloneIsUndisturbed'
  BY <1>2, <1>4 DEF AloneIsUndisturbed, Undisturbed, InFlight
<1>6. OverlapsAreKnown'
  BY <1>2, <1>4 DEF OverlapsAreKnown, InFlight
<1>7. SelectionIsKept'
  <2>1. get' = get
    BY <1>1 DEF get
  <2> QED
    BY <1>2, <2>1 DEF ModelInv, SelectionIsKept
<1>8. \A j \in InFlight' : selects'[j].want \in Chosen
  BY <1>4 DEF ModelInv, ModelTyped, InFlight
<1> QED
  BY <1>1, <1>2, <1>3, <1>5, <1>6, <1>7, <1>8 DEF ModelInv, ModelTyped

LEMMA OpenStep == ASSUME ModelInv, openFile PROVE ModelInv'
<1>1. PICK i \in SelectSlots :
        /\ selects[i].at = "mkdir" /\ disk' = [disk EXCEPT !.tmp = "garbled"]
        /\ selects' = [selects EXCEPT ![i].at = "open", ![i].fd = "tmp"] /\ UNCHANGED <<host, chosen, panel>>
  BY DEF openFile, set
<1>2. ModelTyped'
  <2>1. disk' \in [file : Contents, tmp : Contents]
    BY <1>1 DEF ModelInv, ModelTyped, Contents
  <2>2. PICK entry \in Select : entry = [selects[i] EXCEPT !.at = "open", !.fd = "tmp"] /\ entry.want = selects[i].want
    <3>1. selects[i] \in Select
      BY DEF ModelInv, ModelTyped
    <3>2. [selects[i] EXCEPT !.at = "open", !.fd = "tmp"] \in Select
          /\ [selects[i] EXCEPT !.at = "open", !.fd = "tmp"].want = selects[i].want
      BY <3>1 DEF Select
    <3> QED
      BY <3>2
  <2>3. selects' = [selects EXCEPT ![i] = entry]
    BY <1>1, <2>2 DEF ModelInv, ModelTyped, Select
  <2>4. selects' \in [SelectSlots -> Select]
    BY <2>3 DEF ModelInv, ModelTyped
  <2>5. \A j \in SelectSlots : selects'[j].at # "none" => selects'[j].want \in Chosen
    BY <1>1, <2>2, <2>3 DEF ModelInv, ModelTyped, InFlight
  <2> QED
    BY <1>1, <2>1, <2>4, <2>5 DEF ModelInv, ModelTyped, InFlight
<1>3. /\ InFlight' = InFlight /\ i \in InFlight /\ selects'[i].want = selects[i].want /\ selects'[i].alone = selects[i].alone
      /\ selects'[i].at = "open" /\ selects'[i].fd = "tmp" /\ \A j \in SelectSlots \ {i} : selects'[j] = selects[j]
  BY <1>1, ZenonT(40) DEF InFlight, ModelInv, ModelTyped, Select
<1>4. AloneIsUndisturbed'
  <2> SUFFICES ASSUME NEW j \in InFlight, selects'[j].alone PROVE Undisturbed(j)'
    BY <1>3 DEF AloneIsUndisturbed
  <2>1. j \in SelectSlots /\ Undisturbed(j) /\ j = i
    BY <1>3 DEF InFlight, ModelInv, AloneIsUndisturbed, Undisturbed
  <2> QED
    BY <1>1, <1>3, <2>1 DEF Undisturbed
<1>5. OverlapsAreKnown'
  BY <1>1, <1>3 DEF ModelInv, OverlapsAreKnown, InFlight
<1>6. SelectionIsKept'
  BY <1>1 DEF ModelInv, ModelTyped, SelectionIsKept, get
<1> QED
  BY <1>2, <1>4, <1>5, <1>6 DEF ModelInv

LEMMA WriteFileStep == ASSUME ModelInv, writeFile PROVE ModelInv'
<1>1. PICK i \in SelectSlots :
        /\ selects[i].at = "open" /\ UNCHANGED <<host, chosen, panel>>
        /\ selects' = [selects EXCEPT ![i].at = "written"]
        /\ IF selects[i].fd = "gone" THEN UNCHANGED disk
           ELSE \E bytes \in {selects[i].want} \cup (IF selects[i].alone THEN {} ELSE {"garbled"}) :
                    disk' = [disk EXCEPT ![selects[i].fd] = bytes]
  BY DEF writeFile, Proceed
<1>2. i \in InFlight /\ selects[i] \in Select
  BY <1>1 DEF InFlight, ModelInv, ModelTyped
<1>3. disk' \in [file : Contents, tmp : Contents]
      /\ (selects[i].alone => disk' = [disk EXCEPT !.tmp = selects[i].want] /\ selects[i].want \in Chosen)
  <2>1. CASE selects[i].alone
    BY <1>1, <1>2, <2>1, ZenonT(40) DEF ModelInv, ModelTyped, AloneIsUndisturbed, Undisturbed, Contents
  <2>2. CASE ~selects[i].alone
    <3>1. selects[i].want \in Chosen
      BY <1>2 DEF ModelInv, ModelTyped
    <3> QED
      BY <1>1, <1>2, <2>2, <3>1, ZenonT(40) DEF ModelInv, ModelTyped, Contents, Select
  <2> QED
    BY <2>1, <2>2
<1>4. selects' \in [SelectSlots -> Select] /\ \A j \in SelectSlots : selects'[j].at # "none" => selects'[j].want \in Chosen
  <2>1. PICK entry \in Select : entry = [selects[i] EXCEPT !.at = "written"] /\ entry.want = selects[i].want
    <3>1. [selects[i] EXCEPT !.at = "written"] \in Select
          /\ [selects[i] EXCEPT !.at = "written"].want = selects[i].want
      BY <1>2 DEF Select
    <3> QED
      BY <3>1
  <2>2. selects' = [selects EXCEPT ![i] = entry]
    BY <1>1, <2>1 DEF ModelInv, ModelTyped, Select
  <2> QED
    BY <1>2, <2>1, <2>2 DEF ModelInv, ModelTyped, InFlight
<1>5. /\ InFlight' = InFlight /\ selects'[i].want = selects[i].want /\ selects'[i].alone = selects[i].alone
      /\ selects'[i].at = "written" /\ \A j \in SelectSlots \ {i} : selects'[j] = selects[j]
  BY <1>1, ZenonT(40) DEF InFlight, ModelInv, ModelTyped, Select
<1>6. AloneIsUndisturbed'
  <2> SUFFICES ASSUME NEW j \in InFlight, selects'[j].alone PROVE Undisturbed(j)'
    BY <1>5 DEF AloneIsUndisturbed
  <2>1. j \in SelectSlots /\ Undisturbed(j) /\ j = i
    BY <1>2, <1>5 DEF InFlight, ModelInv, AloneIsUndisturbed, Undisturbed
  <2> QED
    BY <1>1, <1>3, <1>5, <2>1 DEF Undisturbed, ModelInv, ModelTyped
<1>7. OverlapsAreKnown'
  BY <1>1, <1>5 DEF ModelInv, OverlapsAreKnown, InFlight
<1>8. SelectionIsKept'
  BY <1>1, <1>2, <1>3 DEF ModelInv, ModelTyped, OverlapsAreKnown, SelectionIsKept, get
<1> QED
  BY <1>1, <1>3, <1>4, <1>6, <1>7, <1>8 DEF ModelInv, ModelTyped, InFlight

LEMMA RenameStep == ASSUME ModelInv, rename \/ renameFails PROVE ModelInv'
<1>1. PICK i \in SelectSlots :
        /\ selects[i].at = "written" /\ UNCHANGED <<host, panel>>
        /\ \/ /\ disk' = [file |-> disk.tmp, tmp |-> "absent"] /\ disk.tmp # "absent"
              /\ selects' = [j \in SelectSlots |->
                               IF j = i THEN Unasked ELSE [selects[j] EXCEPT !.fd = Moved(selects[j].fd)]]
              /\ chosen' = IF selects[i].alone THEN [chosen EXCEPT !.last = {selects[i].want}, !.clash = FALSE] ELSE chosen
           \/ /\ disk.tmp = "absent" /\ selects' = [selects EXCEPT ![i] = Unasked] /\ UNCHANGED <<disk, chosen>>
  BY DEF rename, renameFails, set
<1>2. i \in InFlight /\ selects[i].want \in Chosen /\ selects[i].at = "written"
  BY <1>1 DEF InFlight, ModelInv, ModelTyped
<1>3. disk' \in [file : Contents, tmp : Contents]
  <2>1. disk \in [file : Contents, tmp : Contents] /\ "absent" \in Contents
    BY DEF ModelInv, ModelTyped, Contents
  <2> QED
    BY <1>1, <2>1
<1>4. /\ selects'[i] = Unasked
      /\ \A j \in SelectSlots \ {i} : /\ selects'[j] \in Select /\ selects'[j].at = selects[j].at
                                      /\ selects'[j].want = selects[j].want /\ selects'[j].alone = selects[j].alone
  <2>1. selects \in [SelectSlots -> Select]
    BY DEF ModelInv, ModelTyped
  <2>2. selects'[i] = Unasked
    BY <1>1, <2>1
  <2>3. ASSUME NEW j \in SelectSlots \ {i}
        PROVE /\ selects'[j] \in Select /\ selects'[j].at = selects[j].at
              /\ selects'[j].want = selects[j].want /\ selects'[j].alone = selects[j].alone
    <3>1. selects[j] \in Select
      BY <2>1
    <3>2. Moved(selects[j].fd) \in {"", "tmp", "file", "gone"}
      BY <3>1 DEF Moved, Select
    <3>3. selects'[j] = selects[j] \/ selects'[j] = [selects[j] EXCEPT !.fd = Moved(selects[j].fd)]
      BY <1>1, <2>1
    <3> QED
      BY <3>1, <3>2, <3>3 DEF Select
  <2> QED
    BY <2>2, <2>3
<1>5. Unasked \in Select /\ Unasked.at = "none"
  BY DEF Unasked, Select
<1>6. selects' \in [SelectSlots -> Select]
  <2>1. \A j \in SelectSlots : selects'[j] \in Select
    BY <1>4, <1>5
  <2>2. selects' = [j \in SelectSlots |-> selects'[j]]
    BY <1>1 DEF ModelInv, ModelTyped
  <2> QED
    BY <2>1, <2>2
<1>7. InFlight' = InFlight \ {i}
  BY <1>2, <1>4, <1>5 DEF InFlight
<1>8. ASSUME NEW j \in InFlight' PROVE j \in InFlight /\ j # i /\ ~selects'[j].alone /\ ~selects[j].alone
  <2>1. j \in SelectSlots /\ j \in InFlight /\ j # i
    BY <1>7, <1>8 DEF InFlight
  <2>2. ~selects[j].alone
    BY <1>2, <2>1 DEF ModelInv, AloneIsUndisturbed, Undisturbed
  <2> QED
    BY <1>4, <2>1, <2>2
<1>9. AloneIsUndisturbed' /\ \A j \in InFlight' : selects'[j].want \in Chosen
  BY <1>4, <1>8 DEF AloneIsUndisturbed, InFlight, ModelInv, ModelTyped
<1>10. CASE selects[i].alone
  <2>1. InFlight = {i} /\ disk.tmp = selects[i].want
    BY <1>2, <1>10 DEF ModelInv, AloneIsUndisturbed, Undisturbed
  <2>2. /\ chosen' = [chosen EXCEPT !.last = {selects[i].want}, !.clash = FALSE]
        /\ disk' = [file |-> disk.tmp, tmp |-> "absent"]
    BY <1>1, <1>2, <1>10, <2>1, VariantNames
  <2>3. chosen' \in [last : SUBSET (Chosen \cup {"none"}), count : Nat, clash : BOOLEAN]
        /\ chosen'.last = {selects[i].want}
    BY <1>2, <2>2 DEF ModelInv, ModelTyped
  <2>4. InFlight' = {}
    BY <1>7, <2>1
  <2>5. SelectionIsKept'
    BY <1>2, <2>1, <2>2, <2>3 DEF SelectionIsKept, get
  <2> QED
    BY <1>1, <1>3, <1>6, <1>9, <2>3, <2>4, <2>5 DEF ModelInv, ModelTyped, OverlapsAreKnown
<1>11. CASE ~selects[i].alone
  <2>1. chosen.clash /\ chosen' = chosen
    BY <1>1, <1>2, <1>11 DEF ModelInv, OverlapsAreKnown
  <2> QED
    BY <1>1, <1>3, <1>6, <1>9, <2>1 DEF ModelInv, ModelTyped, OverlapsAreKnown, SelectionIsKept
<1> QED
  BY <1>10, <1>11

LEMMA RestartStep == ASSUME ModelInv, restart PROVE ModelInv'
<1>1. InFlight' = {}
  BY DEF restart, InFlight, Unasked
<1>2. ModelTyped'
  BY <1>1 DEF restart, ModelInv, ModelTyped, Select, Unasked
<1> QED
  BY <1>1, <1>2 DEF restart, ModelInv, AloneIsUndisturbed, OverlapsAreKnown, SelectionIsKept, get

\* For any machines, and any overlap of choices, failed renames and restarts: a read finds
\* the last acknowledged choice or a later one, until two choices have met.
THEOREM SelectionIsAlwaysKept == ModelSpec => []SelectionIsKept
<1>1. ASSUME ModelInv, [ModelNext]_modelVars PROVE ModelInv'
  <2>1. CASE UNCHANGED modelVars
    BY <1>1, <2>1 DEF modelVars, ModelInv, ModelTyped, AloneIsUndisturbed, Undisturbed, OverlapsAreKnown, InFlight,
                      SelectionIsKept, get
  <2>2. CASE chooseModel
    <3>1. PICK i \in SelectSlots : panel # "" /\ select(i, panel)
      BY <2>2 DEF chooseModel
    <3>2. panel \in Chosen /\ UNCHANGED panel
      BY <1>1, <3>1 DEF ModelInv, ModelTyped, select
    <3> QED
      BY <1>1, <3>1, <3>2, ChooseStep
  <2>3. CASE selectProvider
    <3>1. PICK i \in SelectSlots : select(i, "openai")
      BY <2>3 DEF selectProvider
    <3>2. "openai" \in Chosen /\ UNCHANGED panel
      BY <3>1 DEF Chosen, select
    <3> QED
      BY <1>1, <3>1, <3>2, ChooseStep
  <2> QED
    BY <1>1, <2>1, <2>2, <2>3, PanelStep, OpenStep, WriteFileStep, RenameStep, RestartStep DEF ModelNext
<1>2. ModelInv => SelectionIsKept
  BY DEF ModelInv
<1> QED
  BY <1>1, <1>2, ModelStart, PTL DEF ModelSpec

-----------------------------------------------------------------------------
\* Onboarding

\* An answer that says the data is stored is true from before it is read.
PanelRequest == [step : ONBOARDING_STEPS \cup {"none"}, at : {"none", "server", "left", "stored", "refused"}]

OnboardTyped ==
  /\ progress \in [completed : SUBSET ONBOARDING_STEPS, skipped : SUBSET ONBOARDING_STEPS]
  /\ tab \in [step : ONBOARDING_STEPS, waits : PanelRequests \cup {0}]
  /\ requested \in [PanelRequests -> PanelRequest]

OnboardInv ==
  /\ OnboardTyped
  /\ \A r \in PanelRequests : requested[r].at = "stored" => requested[r].step \in stored
  /\ \A r \in PanelRequests : requested[r].at # "none" => requested[r].step \in ONBOARDING_STEPS
  /\ progress.completed \cap LooksAtBody \subseteq stored
  /\ progress.completed \cap progress.skipped = {}

LEMMA OnboardStart == OnboardInit => OnboardInv
<1> SUFFICES ASSUME OnboardInit PROVE OnboardInv
  OBVIOUS
<1>1. /\ progress = [completed |-> {}, skipped |-> {}]
      /\ tab = [step |-> "model", waits |-> 0]
  BY DEF OnboardInit, INITIAL_PROGRESS, FreshPanel
<1>2. requested \in [PanelRequests -> PanelRequest] /\ \A r \in PanelRequests : requested[r].at = "none"
  BY DEF OnboardInit, Unused, PanelRequest
<1> QED
  BY <1>1, <1>2 DEF OnboardInv, OnboardTyped, ONBOARDING_STEPS

\* A request that changes alone, to one that is well formed.
LEMMA AskedStep ==
  ASSUME OnboardInv, NEW r \in PanelRequests, NEW newRequest \in PanelRequest,
         requested' = [requested EXCEPT ![r] = newRequest],
         newRequest.at # "none" => newRequest.step \in ONBOARDING_STEPS,
         newRequest.at = "stored" => newRequest.step \in stored', stored \subseteq stored'
  PROVE  /\ requested' \in [PanelRequests -> PanelRequest]
         /\ \A t \in PanelRequests : requested'[t].at = "stored" => requested'[t].step \in stored'
         /\ \A t \in PanelRequests : requested'[t].at # "none" => requested'[t].step \in ONBOARDING_STEPS
  BY DEF OnboardInv, OnboardTyped

LEMMA UnusedIsTyped == Unused \in PanelRequest /\ Unused.at = "none"
  BY DEF Unused, PanelRequest

LEMMA SubmitAnswerStep == ASSUME OnboardInv, NEW given \in ONBOARDING_STEPS, submitStep(given) PROVE OnboardInv'
<1>1. PICK r \in PanelRequests :
        /\ requested' = [requested EXCEPT ![r] = [step |-> given, at |-> "server"]]
        /\ tab' = [tab EXCEPT !.waits = r]
        /\ UNCHANGED <<progress, stored>>
  BY DEF submitStep
<1> DEFINE newRequest == [step |-> given, at |-> "server"]
<1>2. newRequest \in PanelRequest /\ newRequest.at = "server" /\ newRequest.step = given
  BY DEF PanelRequest
<1>3. requested' = [requested EXCEPT ![r] = newRequest]
  BY <1>1
<1> HIDE DEF newRequest
<1>4. tab' \in [step : ONBOARDING_STEPS, waits : PanelRequests \cup {0}]
  BY <1>1 DEF OnboardInv, OnboardTyped
<1> QED
  BY <1>1, <1>2, <1>3, <1>4, AskedStep DEF OnboardInv, OnboardTyped

LEMMA ServeStep == ASSUME OnboardInv, serveStep PROVE OnboardInv'
<1>1. PICK r \in PanelRequests, storing \in BOOLEAN, answering \in {"stored", "refused"} :
        /\ requested[r].at \in {"server", "left"}
        /\ stored' = IF storing THEN stored \cup {requested[r].step} ELSE stored
        /\ answering = "stored" => storing
        /\ requested' = [requested EXCEPT ![r] = IF requested[r].at = "left" THEN Unused ELSE [requested[r] EXCEPT !.at = answering]]
        /\ UNCHANGED <<progress, tab>>
  BY DEF serveStep
<1> DEFINE newRequest == IF requested[r].at = "left" THEN Unused ELSE [requested[r] EXCEPT !.at = answering]
<1>2. requested[r] \in PanelRequest /\ requested[r].step \in ONBOARDING_STEPS
  BY <1>1 DEF OnboardInv, OnboardTyped
<1>3. stored \subseteq stored' /\ (answering = "stored" => requested[r].step \in stored')
  BY <1>1
<1>4. /\ newRequest \in PanelRequest
      /\ newRequest.at # "none" => newRequest.step \in ONBOARDING_STEPS
      /\ newRequest.at = "stored" => newRequest.step \in stored'
  BY <1>2, <1>3, UnusedIsTyped DEF PanelRequest
<1>5. requested' = [requested EXCEPT ![r] = newRequest]
  BY <1>1
<1> HIDE DEF newRequest
<1> QED
  BY <1>1, <1>3, <1>4, <1>5, AskedStep DEF OnboardInv, OnboardTyped

LEMMA SettleStep == ASSUME OnboardInv, settleStep PROVE OnboardInv'
<1>1. PICK r \in PanelRequests :
        /\ requested[r].at \in {"stored", "refused"} /\ Finally(r)
        /\ IF completes(requested[r].step, requested[r].at) THEN completeStep(requested[r].step) ELSE UNCHANGED progress
        /\ UNCHANGED stored
  BY DEF settleStep
<1>2. /\ requested[r].step \in ONBOARDING_STEPS
      /\ completes(requested[r].step, requested[r].at) => requested[r].step \in stored \/ requested[r].step \notin LooksAtBody
  BY <1>1 DEF completes, OnboardInv
<1>3. /\ progress' \in [completed : SUBSET ONBOARDING_STEPS, skipped : SUBSET ONBOARDING_STEPS]
      /\ progress'.completed \cap LooksAtBody \subseteq stored
      /\ progress'.completed \cap progress'.skipped = {}
  <2>1. CASE progress' = [completed |-> progress.completed \cup {requested[r].step}, skipped |-> progress.skipped \ {requested[r].step}]
             /\ completes(requested[r].step, requested[r].at)
    BY <1>2, <2>1 DEF OnboardInv, OnboardTyped
  <2>2. CASE UNCHANGED progress
    BY <2>2 DEF OnboardInv, OnboardTyped
  <2> QED
    BY <1>1, <2>1, <2>2 DEF completeStep, writeProgress
<1>4. /\ requested' = [requested EXCEPT ![r] = Unused]
      /\ tab' \in [step : ONBOARDING_STEPS, waits : PanelRequests \cup {0}]
  BY <1>1 DEF Finally, OnboardInv, OnboardTyped
<1> QED
  BY <1>1, <1>3, <1>4, UnusedIsTyped, AskedStep DEF OnboardInv, OnboardTyped

LEMMA FetchFailsStep == ASSUME OnboardInv, fetchFails PROVE OnboardInv'
<1>1. PICK r \in PanelRequests :
        /\ requested[r].at \in {"server", "stored", "refused"}
        /\ requested' = [requested EXCEPT ![r] = IF requested[r].at = "server" THEN [requested[r] EXCEPT !.at = "left"] ELSE Unused]
        /\ tab' = IF tab.waits = r THEN [tab EXCEPT !.waits = 0] ELSE tab
        /\ UNCHANGED <<progress, stored>>
  BY DEF fetchFails
<1> DEFINE newRequest == IF requested[r].at = "server" THEN [requested[r] EXCEPT !.at = "left"] ELSE Unused
<1>2. requested[r] \in PanelRequest /\ requested[r].step \in ONBOARDING_STEPS
  BY <1>1 DEF OnboardInv, OnboardTyped
<1>3. /\ newRequest \in PanelRequest /\ newRequest.at # "stored"
      /\ newRequest.at # "none" => newRequest.step \in ONBOARDING_STEPS
  BY <1>2, UnusedIsTyped DEF PanelRequest
<1>4. requested' = [requested EXCEPT ![r] = newRequest]
  BY <1>1
<1> HIDE DEF newRequest
<1>5. tab' \in [step : ONBOARDING_STEPS, waits : PanelRequests \cup {0}]
  BY <1>1 DEF OnboardInv, OnboardTyped
<1> QED
  BY <1>1, <1>3, <1>4, <1>5, AskedStep DEF OnboardInv, OnboardTyped

LEMMA ReloadPageStep == ASSUME OnboardInv, reloadPage PROVE OnboardInv'
<1>1. /\ tab' = [step |-> "model", waits |-> 0]
      /\ UNCHANGED <<progress, stored>>
      /\ requested' = [r \in PanelRequests |-> IF requested[r].at \in {"server", "left"}
                                           THEN [requested[r] EXCEPT !.at = "left"] ELSE Unused]
  BY DEF reloadPage, FreshPanel
<1>2. \A r \in PanelRequests : /\ requested'[r] \in PanelRequest /\ requested'[r].at # "stored"
                               /\ requested'[r].at # "none" => requested'[r].step \in ONBOARDING_STEPS
  <2> TAKE r \in PanelRequests
  <2>1. requested[r] \in PanelRequest /\ (requested[r].at # "none" => requested[r].step \in ONBOARDING_STEPS)
    BY DEF OnboardInv, OnboardTyped
  <2>2. requested'[r] = IF requested[r].at \in {"server", "left"} THEN [requested[r] EXCEPT !.at = "left"] ELSE Unused
    BY <1>1
  <2> QED
    BY <2>1, <2>2, UnusedIsTyped DEF PanelRequest
<1>3. requested' \in [PanelRequests -> PanelRequest]
  BY <1>1, <1>2
<1> QED
  BY <1>1, <1>2, <1>3 DEF OnboardInv, OnboardTyped, ONBOARDING_STEPS

\* A step that is shown as done was done at the server.
THEOREM DoneIsAlwaysStored == OnboardSpec => []DoneIsStored
<1>1. ASSUME OnboardInv, [OnboardNext]_onboardVars PROVE OnboardInv'
  <2>1. CASE UNCHANGED onboardVars
    BY <1>1, <2>1 DEF onboardVars, OnboardInv, OnboardTyped
  <2>2. CASE onTab
    BY <1>1, <2>2 DEF onTab, FreshPanel, OnboardInv, OnboardTyped
  <2>3. CASE submitModel \/ handleConnect \/ submitMeta \/ handleApply \/ handleImport
    BY <1>1, <2>3, SubmitAnswerStep DEF submitModel, handleConnect, submitMeta, handleApply, handleImport, ONBOARDING_STEPS
  <2>4. CASE settleStep \/ serveStep \/ fetchFails \/ reloadPage
    BY <1>1, <2>4, SettleStep, ServeStep, FetchFailsStep, ReloadPageStep
  <2>5. CASE skipStep
    BY <1>1, <2>5 DEF skipStep, writeProgress, OnboardInv, OnboardTyped
  <2>6. CASE relaunchOnboarding
    BY <1>1, <2>6 DEF relaunchOnboarding, writeProgress, INITIAL_PROGRESS, OnboardInv, OnboardTyped
  <2> QED
    BY <1>1, <2>1, <2>2, <2>3, <2>4, <2>5, <2>6 DEF OnboardNext
<1>2. OnboardInv => DoneIsStored
  BY DEF OnboardInv, OnboardTyped, DoneIsStored, stepStatus, ONBOARDING_STEPS, LooksAtBody
<1> QED
  BY <1>1, <1>2, OnboardStart, PTL DEF OnboardSpec

-----------------------------------------------------------------------------
\* The server

Phases == {"meta", "linkedin", "pinterest", "tiktok", "twitter", "build", "listen", "schedule", "telegram", "analytics",
           "up", "telegram.stop", "io.close", "httpServer.close", "closeDb", "exit"}
BeforeListening == Connectors \cup {"build", "listen"}
AfterClosing == {"httpServer.close", "closeDb", "exit"}

ServerTyped ==
  /\ phase \in Phases /\ telegram \in {"none", "polling", "stopped"} /\ db \in {"open", "closed"}
  /\ process \in {"running", "exited", "killed"}

\* Work begins after the sink is set and ends before the database closes.
WorkIsInside ==
  /\ publishers \subseteq platform
  /\ "emit" \in quotaSink \/ phase \in Connectors \cup {"build"}
  /\ phase \in BeforeListening => inFlight = {} /\ armed = {} /\ telegram = "none"
  /\ phase \in closing \cup {"exit"} => armed = {}
  /\ phase \in {"io.close"} \cup AfterClosing => telegram # "polling"
  /\ phase \in AfterClosing => inFlight = {}
  /\ db = "closed" <=> phase = "exit"
  /\ phase \in BeforeListening \cup {"schedule"} => telegram = "none"

ServerInv == ServerTyped /\ WorkIsInside

LEMMA BootOrder ==
  /\ After("meta") = "linkedin" /\ After("linkedin") = "pinterest" /\ After("pinterest") = "tiktok"
  /\ After("tiktok") = "twitter" /\ After("twitter") = "build" /\ After("build") = "listen"
  /\ After("listen") = "schedule" /\ After("schedule") = "telegram" /\ After("telegram") = "analytics"
  /\ After("analytics") = "up"
<1>1. DOMAIN Boot = 1 .. 11
  BY DEF Boot
<1>2. ASSUME NEW i \in 1 .. 11, NEW j \in 1 .. 11, Boot[i] = Boot[j] PROVE i = j
  BY <1>2 DEF Boot
<1>3. ASSUME NEW i \in 1 .. 10 PROVE After(Boot[i]) = Boot[1 + i]
  <2>1. (CHOOSE j \in DOMAIN Boot : Boot[j] = Boot[i]) = i
    BY <1>1, <1>2
  <2> QED
    BY <2>1 DEF After
<1> QED
  BY <1>3 DEF Boot

LEMMA PhaseNames ==
  /\ BeforeListening = {"meta", "linkedin", "pinterest", "tiktok", "twitter", "build", "listen"}
  /\ Connectors = {"meta", "linkedin", "pinterest", "tiktok", "twitter"}
  /\ closing = {"telegram.stop", "io.close", "httpServer.close", "closeDb"}
  /\ AfterClosing = {"httpServer.close", "closeDb", "exit"}
  BY DEF BeforeListening, Connectors, closing, AfterClosing

LEMMA ServerStart == ServerInit => ServerInv
  BY PhaseNames DEF ServerInit, ServerInv, ServerTyped, WorkIsInside, Phases

LEMMA RegisterStep == ASSUME ServerInv, register PROVE ServerInv'
<1>1. phase \in Connectors /\ phase' \in Connectors \cup {"build"}
  BY BootOrder, PhaseNames DEF register
<1>2. publishers' \subseteq platform'
  BY DEF register, ServerInv, WorkIsInside
<1> QED
  BY <1>1, <1>2, PhaseNames DEF register, ServerInv, ServerTyped, WorkIsInside, Phases

LEMMA BootStep == ASSUME ServerInv, build \/ listen \/ schedule \/ startTelegram \/ startAnalytics PROVE ServerInv'
<1>1. CASE build
  BY <1>1, BootOrder, PhaseNames DEF build, withEmit, ServerInv, ServerTyped, WorkIsInside, Phases
<1>2. CASE listen
  BY <1>2, BootOrder, PhaseNames DEF listen, ServerInv, ServerTyped, WorkIsInside, Phases
<1>3. CASE schedule
  BY <1>3, BootOrder, PhaseNames DEF schedule, ServerInv, ServerTyped, WorkIsInside, Phases
<1>4. CASE startTelegram
  BY <1>4, BootOrder, PhaseNames DEF startTelegram, ServerInv, ServerTyped, WorkIsInside, Phases
<1>5. CASE startAnalytics
  BY <1>5, BootOrder, PhaseNames DEF startAnalytics, ServerInv, ServerTyped, WorkIsInside, Phases
<1> QED
  BY <1>1, <1>2, <1>3, <1>4, <1>5

LEMMA WorkStep == ASSUME ServerInv, request \/ respond \/ tick \/ tickEnds PROVE ServerInv'
<1>1. CASE request
  BY <1>1, PhaseNames DEF request, listening, ServerInv, ServerTyped, WorkIsInside, Phases
<1>2. CASE respond
  BY <1>2, PhaseNames DEF respond, ServerInv, ServerTyped, WorkIsInside
<1>3. CASE tick \/ tickEnds
  BY <1>3, PhaseNames DEF tick, tickEnds, ServerInv, ServerTyped, WorkIsInside
<1> QED
  BY <1>1, <1>2, <1>3

LEMMA ShutdownStep == ASSUME ServerInv, shutdown \/ close \/ exit PROVE ServerInv'
<1>1. CASE shutdown
  <2>1. \/ /\ phase = "up" /\ phase' = "telegram.stop" /\ armed' = {} /\ UNCHANGED process
        \/ process' \in {"exited", "killed"} /\ UNCHANGED <<phase, armed>>
    BY <1>1 DEF shutdown
  <2> QED
    BY <1>1, <2>1, PhaseNames DEF shutdown, ServerInv, ServerTyped, WorkIsInside, Phases
<1>2. CASE close
  <2>1. phase \in closing /\ phase' = NextStep(phase)
    BY <1>2 DEF close
  <2>2. CASE phase = "telegram.stop"
    <3>1. phase' = "io.close"
      BY <2>1, <2>2 DEF NextStep
    <3> QED
      BY <1>2, <2>2, <3>1, PhaseNames DEF close, ServerInv, ServerTyped, WorkIsInside, Phases
  <2>3. CASE phase = "io.close"
    <3>1. phase' = "httpServer.close"
      BY <2>1, <2>3 DEF NextStep
    <3> QED
      BY <1>2, <2>3, <3>1, PhaseNames DEF close, ServerInv, ServerTyped, WorkIsInside, Phases
  <2>4. CASE phase = "httpServer.close"
    <3>1. phase' = "closeDb"
      BY <2>1, <2>4 DEF NextStep
    <3> QED
      BY <1>2, <2>4, <3>1, PhaseNames DEF close, ServerInv, ServerTyped, WorkIsInside, Phases
  <2>5. CASE phase = "closeDb"
    <3>1. phase' = "exit"
      BY <2>1, <2>5 DEF NextStep
    <3> QED
      BY <1>2, <2>5, <3>1, PhaseNames DEF close, ServerInv, ServerTyped, WorkIsInside, Phases
  <2> QED
    BY <2>1, <2>2, <2>3, <2>4, <2>5, PhaseNames
<1>3. CASE exit
  BY <1>3, PhaseNames DEF exit, ServerInv, ServerTyped, WorkIsInside
<1> QED
  BY <1>1, <1>2, <1>3

\* For any features and alerts, and whatever order starts, failures, requests and signals
\* come in: work finds the database open and the sinks set, and nothing outlives it.
THEOREM ServerIsAlwaysWhole == ServerSpec => []ServerIsWhole
<1>1. ASSUME ServerInv, [ServerNext]_serverVars PROVE ServerInv'
  <2>1. CASE UNCHANGED serverVars
    BY <1>1, <2>1 DEF serverVars, ServerInv, ServerTyped, WorkIsInside
  <2> QED
    BY <1>1, <2>1, RegisterStep, BootStep, WorkStep, ShutdownStep DEF ServerNext
<1>2. ServerInv => ServerIsWhole
  BY PhaseNames DEF ServerInv, ServerTyped, WorkIsInside, ServerIsWhole, checkReadiness
<1> QED
  BY <1>1, <1>2, ServerStart, PTL DEF ServerSpec

-----------------------------------------------------------------------------
\* The write quota of X

\* A write has an entry exactly when it is recorded, and one only; the entries are
\* of months that have begun.
EntriesAreWrites ==
  /\ IsFiniteSet(usage)
  /\ \A e \in usage : write[e.write] = "recorded" /\ e.month <= month
  /\ \A e, f \in usage : e.write = f.write => e = f
  /\ \A w \in Writes : write[w] = "recorded" => \E e \in usage : e.write = w
  /\ \A w \in Writes : write[w] = "delivered" => w \in Dms

\* The guard remembers what it announced, and announced the cap where it was reached.
AlertsAreFired ==
  /\ \A p \in Level \X Months : alerts[p] = IF p \in fired THEN 1 ELSE 0
  /\ restarts = 0 => \A m \in Months : Used(usage, m) >= Cap => <<"exceeded", m>> \in fired

QuotaInv == QuotaTypeOK /\ EntriesAreWrites /\ AlertsAreFired /\ OvershootIsConcurrent

LEMMA CountsAreNat ==
  ASSUME QuotaTypeOK, EntriesAreWrites
  PROVE /\ IsFiniteSet(UnderWay) /\ Cardinality(UnderWay) \in Nat
        /\ \A m : IsFiniteSet(EntriesOf(usage, m)) /\ Used(usage, m) \in Nat
<1>1. UnderWay \in SUBSET Writes /\ \A m : EntriesOf(usage, m) \in SUBSET usage
  BY DEF UnderWay, EntriesOf
<1>2. IsFiniteSet(Writes) /\ IsFiniteSet(usage)
  BY TwitterAssumption DEF EntriesAreWrites
<1>3. IsFiniteSet(UnderWay) /\ Cardinality(UnderWay) \in Nat
  BY <1>1, <1>2, FS_Subset, FS_CardinalityType
<1>4. ASSUME NEW m PROVE IsFiniteSet(EntriesOf(usage, m)) /\ Used(usage, m) \in Nat
  <2>1. IsFiniteSet(EntriesOf(usage, m))
    BY <1>1, <1>2, FS_Subset
  <2> QED
    BY <2>1, FS_CardinalityType DEF Used
<1> QED
  BY <1>3, <1>4

LEMMA QuotaStart == QuotaInit => QuotaInv
<1> SUFFICES ASSUME QuotaInit PROVE QuotaInv
  OBVIOUS
<1>1. QuotaTypeOK
  BY TwitterAssumption DEF QuotaInit, QuotaTypeOK, Phase, Months, Level
<1>2. EntriesAreWrites
  BY FS_EmptySet DEF QuotaInit, EntriesAreWrites
<1>3. \A m : EntriesOf(usage, m) = {}
  BY DEF QuotaInit, EntriesOf
<1>4. \A m : Used(usage, m) = 0
  BY <1>3, FS_EmptySet DEF Used
<1>5. AlertsAreFired
  BY <1>4, TwitterAssumption DEF QuotaInit, AlertsAreFired
<1>6. UnderWay = {}
  BY DEF QuotaInit, UnderWay, InFlightWrites
<1>7. Cardinality(UnderWay) = 0
  BY <1>6, FS_EmptySet
<1>8. OvershootIsConcurrent
  BY <1>4, <1>7, TwitterAssumption DEF QuotaInit, OvershootIsConcurrent
<1> QED
  BY <1>1, <1>2, <1>5, <1>8 DEF QuotaInv

\* An alert is remembered and sent once.
LEMMA FireStep ==
  ASSUME QuotaTypeOK, AlertsAreFired, NEW level \in Level, fire(level)
  PROVE /\ fired' = fired \cup {<<level, month>>} /\ fired' \subseteq Level \X Months
        /\ alerts' \in [Level \X Months -> 0 .. 2]
        /\ \A p \in Level \X Months : alerts'[p] = IF p \in fired' THEN 1 ELSE 0
<1> DEFINE here == <<level, month>>
<1>1. here \in Level \X Months /\ alerts \in [Level \X Months -> 0 .. 2] /\ fired \subseteq Level \X Months
  BY DEF QuotaTypeOK
<1>2. fired' = fired \cup {here}
  BY DEF fire
<1>3. CASE here \in fired
  BY <1>1, <1>2, <1>3 DEF fire, AlertsAreFired
<1>4. CASE here \notin fired
  <2>1. alerts[here] = 0
    BY <1>1, <1>4 DEF AlertsAreFired
  <2>2. alerts' = [alerts EXCEPT ![here] = 1]
    BY <1>1, <1>4, <2>1 DEF fire
  <2> HIDE DEF here
  <2>3. \A p \in Level \X Months : alerts'[p] = IF p = here THEN 1 ELSE alerts[p]
    BY <1>1, <2>2
  <2>4. \A p \in Level \X Months : alerts'[p] = IF p \in fired' THEN 1 ELSE 0
    BY <1>2, <2>3 DEF AlertsAreFired
  <2>5. alerts' \in [Level \X Months -> 0 .. 2]
    BY <1>1, <2>2
  <2>6. here = <<level, month>>
    BY DEF here
  <2> QED
    BY <1>1, <1>2, <2>4, <2>5, <2>6
<1> QED
  BY <1>3, <1>4

\* A write that moves without an entry.
LEMMA MoveStep ==
  ASSUME QuotaInv, NEW w \in Writes, NEW stage \in Phase \ {"recorded"}, write[w] # "recorded",
         write' = [write EXCEPT ![w] = stage], stage = "delivered" => w \in Dms
  PROVE /\ write' \in [Writes -> Phase]
        /\ (UNCHANGED <<usage, month>> => EntriesAreWrites')
        /\ stage \notin InFlightWrites => UnderWay' = UnderWay \ {w}
        /\ stage \in InFlightWrites => UnderWay' = UnderWay \cup {w}
<1>1. write \in [Writes -> Phase]
  BY DEF QuotaInv, QuotaTypeOK
<1>2. write' \in [Writes -> Phase] /\ write'[w] = stage /\ \A v \in Writes \ {w} : write'[v] = write[v]
  BY <1>1
<1>3. UNCHANGED <<usage, month>> => EntriesAreWrites'
  BY <1>2 DEF QuotaInv, QuotaTypeOK, EntriesAreWrites
<1>4. /\ stage \notin InFlightWrites => UnderWay' = UnderWay \ {w}
      /\ stage \in InFlightWrites => UnderWay' = UnderWay \cup {w}
  BY <1>2 DEF UnderWay
<1> QED
  BY <1>2, <1>3, <1>4

LEMMA WaitingStep ==
  ASSUME QuotaInv, NEW w \in Writes, acquired(w) \/ creates(w) \/ attemptFails(w) \/ noId(w) PROVE QuotaInv'
<1>1. PICK stage \in {"calling", "answered", "delivered", "failed"} :
        /\ Moves(w, stage)
        /\ stage = "delivered" => w \in Dms
  BY DEF acquired, creates, attemptFails, noId
<1>2. write[w] \in InFlightWrites /\ stage \in Phase \ {"recorded"}
  BY DEF acquired, creates, attemptFails, noId, InFlightWrites, Phase
<1>3. /\ write' \in [Writes -> Phase] /\ EntriesAreWrites'
      /\ UnderWay' = UnderWay \ {w} \/ UnderWay' = UnderWay \cup {w}
  BY <1>1, <1>2, MoveStep DEF Moves, InFlightWrites
<1>4. tries' \in [Writes -> 1 .. MaxTries]
  BY TwitterAssumption DEF acquired, creates, attemptFails, noId, QuotaInv, QuotaTypeOK
<1>5. QuotaTypeOK'
  BY <1>1, <1>3, <1>4 DEF Moves, QuotaInv, QuotaTypeOK
<1>6. AlertsAreFired'
  BY <1>1 DEF Moves, QuotaInv, AlertsAreFired, Used, EntriesOf
<1>7. w \in UnderWay
  BY <1>2 DEF UnderWay
<1>8. IsFiniteSet(UnderWay) /\ Cardinality(UnderWay) \in Nat /\ Used(usage, month) \in Nat
  BY CountsAreNat DEF QuotaInv
<1>9. Cardinality(UnderWay') <= Cardinality(UnderWay) /\ Cardinality(UnderWay') \in Int
  <2>1. UnderWay' = UnderWay \/ UnderWay' = UnderWay \ {w}
    BY <1>3, <1>7
  <2>2. Cardinality(UnderWay \ {w}) = Cardinality(UnderWay) - 1
    BY <1>7, <1>8, FS_RemoveElement
  <2> QED
    BY <1>8, <2>1, <2>2
<1>10. Used(usage, month)' = Used(usage, month) /\ together' = together /\ together \in Nat
  BY <1>1 DEF Moves, Used, EntriesOf, QuotaInv, QuotaTypeOK
<1>11. OvershootIsConcurrent'
  BY <1>8, <1>9, <1>10, TwitterAssumption DEF QuotaInv, OvershootIsConcurrent
<1> QED
  BY <1>3, <1>5, <1>6, <1>11 DEF QuotaInv

LEMMA AdmitStep == ASSUME QuotaInv, NEW w \in Writes, ensureWithinQuota(w) PROVE QuotaInv'
<1>1. write[w] = "new" /\ UNCHANGED <<tries, usage, month, restarts>> /\ w \notin UnderWay
  BY DEF ensureWithinQuota, UnderWay, InFlightWrites
<1>2. \A m : Used(usage, m)' = Used(usage, m)
  BY <1>1 DEF Used, EntriesOf
<1>3. /\ IsFiniteSet(UnderWay) /\ Cardinality(UnderWay) \in Nat /\ Used(usage, month) \in Nat
      /\ together \in Nat /\ Cap \in Nat
  BY CountsAreNat, TwitterAssumption DEF QuotaInv, QuotaTypeOK
<1>4. CASE Used(usage, month) >= Cap
  <2>1. write' = [write EXCEPT ![w] = "blocked"] /\ fire("exceeded") /\ UNCHANGED together
    BY <1>4 DEF ensureWithinQuota
  <2>2. write' \in [Writes -> Phase] /\ EntriesAreWrites' /\ UnderWay' = UnderWay \ {w}
    BY <1>1, <2>1, MoveStep DEF Phase, InFlightWrites
  <2>3. /\ fired' = fired \cup {<<"exceeded", month>>} /\ fired' \subseteq Level \X Months
        /\ alerts' \in [Level \X Months -> 0 .. 2]
        /\ \A p \in Level \X Months : alerts'[p] = IF p \in fired' THEN 1 ELSE 0
    BY <2>1, FireStep DEF QuotaInv, Level
  <2>4. QuotaTypeOK'
    BY <1>1, <2>1, <2>2, <2>3 DEF QuotaInv, QuotaTypeOK
  <2>5. AlertsAreFired'
    BY <1>1, <1>2, <2>3 DEF QuotaInv, AlertsAreFired
  <2>6. OvershootIsConcurrent'
    <3>1. UnderWay' = UnderWay
      BY <1>1, <2>2
    <3> QED
      BY <1>1, <1>2, <2>1, <3>1 DEF QuotaInv, OvershootIsConcurrent
  <2> QED
    BY <2>2, <2>4, <2>5, <2>6 DEF QuotaInv
<1>5. CASE ~(Used(usage, month) >= Cap)
  <2>1. /\ write' = [write EXCEPT ![w] = "waiting"] /\ UNCHANGED <<fired, alerts>>
        /\ together' = Cardinality(UnderWay) + 1
    BY <1>5 DEF ensureWithinQuota
  <2>2. write' \in [Writes -> Phase] /\ EntriesAreWrites' /\ UnderWay' = UnderWay \cup {w}
    BY <1>1, <2>1, MoveStep DEF Phase, InFlightWrites
  <2>3. Cardinality(UnderWay') = Cardinality(UnderWay) + 1
    BY <1>1, <1>3, <2>2, FS_AddElement
  <2>4. QuotaTypeOK'
    BY <1>1, <1>3, <2>1, <2>2 DEF QuotaInv, QuotaTypeOK
  <2>5. AlertsAreFired'
    BY <1>1, <1>2, <2>1 DEF QuotaInv, AlertsAreFired
  <2>6. OvershootIsConcurrent'
    BY <1>1, <1>2, <1>3, <1>5, <2>1, <2>3 DEF OvershootIsConcurrent
  <2> QED
    BY <2>2, <2>4, <2>5, <2>6 DEF QuotaInv
<1> QED
  BY <1>4, <1>5

LEMMA RecordStep == ASSUME QuotaInv, NEW w \in Writes, recordWrite(w) PROVE QuotaInv'
<1> DEFINE entry == [write |-> w, month |-> month]
<1>1. /\ write[w] = "answered" /\ write' = [write EXCEPT ![w] = "recorded"] /\ usage' = usage \cup {entry}
      /\ UNCHANGED <<tries, month, together, restarts>>
  BY DEF recordWrite
<1>2. /\ write \in [Writes -> Phase] /\ usage \subseteq [write : Writes, month : Months] /\ month \in Months
      /\ month \in Nat /\ Cap \in Nat /\ together \in Nat /\ IsFiniteSet(usage) /\ WarnAt \in Nat /\ WarnAt <= Cap
  BY TwitterAssumption DEF QuotaInv, QuotaTypeOK, EntriesAreWrites, Months
<1>3. entry.write = w /\ entry.month = month /\ entry \in [write : Writes, month : Months]
  BY <1>2
<1> HIDE DEF entry
<1>4. \A e \in usage : e.write # w
  BY <1>1 DEF QuotaInv, EntriesAreWrites
<1>5. /\ write' \in [Writes -> Phase] /\ write'[w] = "recorded" /\ w \in UnderWay
      /\ UnderWay' = UnderWay \ {w} /\ \A v \in Writes \ {w} : write'[v] = write[v]
  BY <1>1, <1>2 DEF Phase, UnderWay, InFlightWrites
<1>6. EntriesAreWrites'
  <2>1. IsFiniteSet(usage')
    BY <1>1, <1>2, FS_AddElement
  <2>2. \A e \in usage' : write'[e.write] = "recorded" /\ e.month <= month
    BY <1>1, <1>2, <1>3, <1>5 DEF QuotaInv, EntriesAreWrites
  <2>3. \A e, f \in usage' : e.write = f.write => e = f
    BY <1>1, <1>3, <1>4 DEF QuotaInv, EntriesAreWrites
  <2>4. \A v \in Writes : write'[v] = "recorded" => \E e \in usage' : e.write = v
    BY <1>1, <1>3, <1>5 DEF QuotaInv, EntriesAreWrites
  <2>5. \A v \in Writes : write'[v] = "delivered" => v \in Dms
    BY <1>5 DEF QuotaInv, EntriesAreWrites
  <2> QED
    BY <1>1, <2>1, <2>2, <2>3, <2>4, <2>5 DEF EntriesAreWrites
<1>7. /\ Used(usage, month) \in Nat /\ Used(usage', month) = Used(usage, month) + 1
      /\ \A m : m # month => Used(usage', m) = Used(usage, m)
  <2>1. EntriesOf(usage', month) = EntriesOf(usage, month) \cup {entry} /\ entry \notin EntriesOf(usage, month)
    BY <1>1, <1>3, <1>4 DEF EntriesOf
  <2>2. IsFiniteSet(EntriesOf(usage, month)) /\ Used(usage, month) \in Nat
    BY CountsAreNat DEF QuotaInv
  <2>3. Used(usage', month) = Used(usage, month) + 1
    BY <2>1, <2>2, FS_AddElement DEF Used
  <2>4. \A m : m # month => EntriesOf(usage', m) = EntriesOf(usage, m)
    BY <1>1, <1>3 DEF EntriesOf
  <2> QED
    BY <2>2, <2>3, <2>4 DEF Used
<1>8. /\ (fired' = fired \/ fired' = fired \cup {<<"warning", month>>} \/ fired' = fired \cup {<<"exceeded", month>>})
      /\ fired' \subseteq Level \X Months /\ alerts' \in [Level \X Months -> 0 .. 2]
      /\ \A p \in Level \X Months : alerts'[p] = IF p \in fired' THEN 1 ELSE 0
      /\ Used(usage', month) >= Cap => <<"exceeded", month>> \in fired'
  <2>1. CASE Used(usage', month) >= Cap
    <3>1. fire("exceeded")
      BY <1>1, <2>1 DEF recordWrite
    <3> QED
      BY <3>1, FireStep DEF QuotaInv, Level
  <2>2. CASE ~(Used(usage', month) >= Cap) /\ Used(usage', month) >= WarnAt
    <3>1. fire("warning")
      BY <1>1, <2>2 DEF recordWrite
    <3> QED
      BY <2>2, <3>1, FireStep DEF QuotaInv, Level
  <2>3. CASE ~(Used(usage', month) >= Cap) /\ ~(Used(usage', month) >= WarnAt)
    <3>1. UNCHANGED <<fired, alerts>>
      BY <1>1, <2>3 DEF recordWrite
    <3> QED
      BY <2>3, <3>1 DEF QuotaInv, QuotaTypeOK, AlertsAreFired
  <2> QED
    BY <2>1, <2>2, <2>3
<1>9. QuotaTypeOK'
  BY <1>1, <1>3, <1>5, <1>8 DEF QuotaInv, QuotaTypeOK
<1>10. AlertsAreFired'
  <2>1. ASSUME restarts = 0, NEW m \in Months, Used(usage', m) >= Cap PROVE <<"exceeded", m>> \in fired'
    BY <1>7, <1>8, <2>1 DEF QuotaInv, AlertsAreFired
  <2>2. restarts' = 0 => \A m \in Months : Used(usage', m) >= Cap => <<"exceeded", m>> \in fired'
    BY <1>1, <2>1
  <2> QED
    BY <1>8, <2>2 DEF AlertsAreFired, Used, EntriesOf
<1>11. OvershootIsConcurrent'
  <2>1. IsFiniteSet(UnderWay) /\ Cardinality(UnderWay) \in Nat
    BY CountsAreNat DEF QuotaInv
  <2>2. Cardinality(UnderWay') = Cardinality(UnderWay) - 1
    BY <1>5, <2>1, FS_RemoveElement
  <2>3. Used(usage, month)' = Used(usage', month)
    BY <1>1 DEF Used, EntriesOf
  <2> QED
    BY <1>1, <1>2, <1>7, <2>1, <2>2, <2>3 DEF QuotaInv, OvershootIsConcurrent
<1> QED
  BY <1>6, <1>9, <1>10, <1>11 DEF QuotaInv

LEMMA RolloverStep == ASSUME QuotaInv, rollover PROVE QuotaInv'
<1>1. /\ month' = month + 1 /\ UNCHANGED <<write, tries, usage, fired, alerts, together, restarts>>
      /\ month \in Nat /\ month' \in Months /\ together \in Nat /\ Cap \in Nat \ {0}
  BY TwitterAssumption DEF rollover, QuotaInv, QuotaTypeOK, Months
<1>2. QuotaTypeOK'
  BY <1>1 DEF QuotaInv, QuotaTypeOK
<1>3. EntriesAreWrites'
  BY <1>1 DEF QuotaInv, QuotaTypeOK, EntriesAreWrites, Months
<1>4. AlertsAreFired'
  BY <1>1 DEF QuotaInv, AlertsAreFired, Used, EntriesOf
<1>5. Used(usage, month)' = 0
  <2>1. EntriesOf(usage', month') = {}
    BY <1>1 DEF EntriesOf, QuotaInv, QuotaTypeOK, EntriesAreWrites, Months
  <2> QED
    BY <2>1, FS_EmptySet DEF Used
<1>6. UnderWay' = UnderWay /\ Cardinality(UnderWay) \in Nat /\ Used(usage, month) \in Nat
  BY <1>1, CountsAreNat DEF UnderWay, QuotaInv
<1>7. OvershootIsConcurrent'
  BY <1>1, <1>5, <1>6 DEF QuotaInv, OvershootIsConcurrent
<1> QED
  BY <1>2, <1>3, <1>4, <1>7 DEF QuotaInv

LEMMA QuotaRestartStep == ASSUME QuotaInv, quotaRestart PROVE QuotaInv'
<1>1. /\ restarts' = restarts + 1 /\ restarts \in Nat /\ restarts' \in 0 .. MaxRestarts
      /\ fired' = {} /\ alerts' = [k \in Level \X Months |-> 0] /\ UNCHANGED <<tries, usage, month, together>>
      /\ write' = [w \in Writes |-> IF write[w] \in InFlightWrites THEN "failed" ELSE write[w]]
      /\ together \in Nat /\ Cap \in Nat
  BY TwitterAssumption DEF quotaRestart, QuotaInv, QuotaTypeOK
<1>2. \A w \in Writes : /\ write'[w] \in Phase /\ write'[w] \notin InFlightWrites
                        /\ write'[w] = "recorded" <=> write[w] = "recorded"
                        /\ write'[w] = "delivered" => write[w] = "delivered"
  BY <1>1 DEF QuotaInv, QuotaTypeOK, Phase, InFlightWrites
<1>3. QuotaTypeOK'
  BY <1>1, <1>2 DEF QuotaInv, QuotaTypeOK
<1>4. EntriesAreWrites'
  BY <1>1, <1>2 DEF QuotaInv, QuotaTypeOK, EntriesAreWrites
<1>5. AlertsAreFired'
  BY <1>1 DEF AlertsAreFired
<1>6. OvershootIsConcurrent'
  <2>1. UnderWay' = {}
    BY <1>2 DEF UnderWay
  <2>2. Cardinality(UnderWay') = 0
    BY <2>1, FS_EmptySet
  <2>3. Cardinality(UnderWay) \in Nat /\ Used(usage, month) \in Nat /\ Used(usage, month)' = Used(usage, month)
    BY <1>1, CountsAreNat DEF QuotaInv, Used, EntriesOf
  <2> QED
    BY <1>1, <2>2, <2>3 DEF QuotaInv, OvershootIsConcurrent
<1> QED
  BY <1>3, <1>4, <1>5, <1>6 DEF QuotaInv

LEMMA QuotaIsExact == ASSUME QuotaInv PROVE QuotaIsKept
<1>1. LedgerIsExact
  <2> SUFFICES ASSUME NEW w \in Writes
      PROVE Cardinality({e \in usage : e.write = w}) = IF write[w] = "recorded" THEN 1 ELSE 0
    BY DEF QuotaInv, LedgerIsExact, EntriesAreWrites
  <2>1. CASE write[w] = "recorded"
    <3>1. PICK e \in usage : e.write = w
      BY <2>1 DEF QuotaInv, EntriesAreWrites
    <3>2. {f \in usage : f.write = w} = {e}
      BY <3>1 DEF QuotaInv, EntriesAreWrites
    <3> QED
      BY <2>1, <3>2, FS_Singleton
  <2>2. CASE write[w] # "recorded"
    <3>1. {f \in usage : f.write = w} = {}
      BY <2>2 DEF QuotaInv, EntriesAreWrites
    <3> QED
      BY <2>2, <3>1, FS_EmptySet
  <2> QED
    BY <2>1, <2>2
<1>2. CapIsAnnouncedOnce
  <2>1. ASSUME NEW m \in Months, NEW l \in Level PROVE alerts[<<l, m>>] <= 1
    BY DEF QuotaInv, AlertsAreFired
  <2>2. ASSUME NEW m \in Months, restarts = 0, Used(usage, m) >= Cap PROVE alerts[<<"exceeded", m>>] = 1
    BY <2>2 DEF QuotaInv, AlertsAreFired, Level
  <2> QED
    BY <2>1, <2>2 DEF CapIsAnnouncedOnce
<1> QED
  BY <1>1, <1>2 DEF QuotaInv, QuotaIsKept

\* For any writes, cap and months: every write that succeeds with an id is counted in one month, the
\* thresholds are announced once, and only writes in flight together overshoot the cap.
THEOREM QuotaIsAlwaysKept == QuotaSpec => []QuotaIsKept
<1>1. ASSUME QuotaInv, [QuotaNext]_quotaVars PROVE QuotaInv'
  <2>1. CASE UNCHANGED quotaVars
    BY <1>1, <2>1 DEF quotaVars, QuotaInv, QuotaTypeOK, EntriesAreWrites, AlertsAreFired, OvershootIsConcurrent,
                      Used, EntriesOf, UnderWay
  <2> QED
    BY <1>1, <2>1, AdmitStep, WaitingStep, RecordStep, RolloverStep, QuotaRestartStep DEF QuotaNext
<1> QED
  BY <1>1, QuotaStart, QuotaIsExact, PTL DEF QuotaSpec

-----------------------------------------------------------------------------
\* Transcript sessions

Entries == Nat \ {0}
Operation_ == [kind : {"create", "append", "delete", "renameId"}, id : SessionIds, to : SessionIds, entry : Nat, count : Int]
WellMade(o) == /\ o \in Operation_ /\ (o.kind # "renameId" => o.to = o.id)
               /\ o.kind = "append" => o.entry \in Entries

SessionsTyped ==
  /\ ledger \in [SessionIds -> Seq(Entries) \cup {Absent}]
  /\ meta \in [SessionIds -> Int] /\ \A i \in SessionIds : meta[i] >= -2
  /\ queue \in Seq(Operation_) /\ \A k \in DOMAIN queue : WellMade(queue[k])
  /\ done \in 0 .. 2 /\ counted \in Int /\ kept \subseteq Entries
  /\ appended \in Nat /\ sessionCrashes \in Nat

\* What the first operation of the queue has done so far.
MidWay ==
  done > 0 =>
    /\ queue # <<>>
    /\ op.kind = "create" => ledger[op.id] = <<>>
    /\ op.kind = "delete" => ledger[op.id] = Absent /\ done = 1
    /\ op.kind = "append" => /\ ledger[op.id] # Absent /\ op.entry \in ToSet(ledger[op.id]) /\ counted \in Nat
                             /\ sessionCrashes = 0 => counted + 1 = Len(ledger[op.id])
    /\ op.kind = "renameId" => /\ op.to # op.id /\ ledger[op.id] = Absent /\ counted \in Nat
                               /\ sessionCrashes = 0 => ledger[op.to] # Absent /\ counted = Len(ledger[op.to])

AtRest(i) == IF ledger[i] = Absent THEN meta[i] = NoMeta ELSE meta[i] = Len(ledger[i])
OthersAreAtRest ==
  sessionCrashes = 0 => \A i \in SessionIds : (done = 0 \/ (i # op.id /\ i # op.to)) => AtRest(i)

\* A kept entry is in a session that has a sidecar, or is being renamed.
HomeOf(e, i) == /\ e \in ToSet(ledger[i])
                /\ meta[i] # NoMeta \/ (done > 0 /\ op.kind = "renameId" /\ i = op.to)
KeptHasAHome == \A e \in kept : \E i \in SessionIds : HomeOf(e, i)

SessionsInv == SessionsTyped /\ MidWay /\ OthersAreAtRest /\ KeptHasAHome

\* Two entries of a table are set.
LEMMA SetTwice ==
  ASSUME NEW S, NEW f \in [S -> Int], NEW a \in S, NEW b \in S, a # b, NEW x \in Int, NEW y \in Int,
         \A i \in S : f[i] >= -2, x >= -2, y >= -2,
         NEW g, g = [[f EXCEPT ![b] = x] EXCEPT ![a] = y]
  PROVE  /\ g \in [S -> Int] /\ g[a] = y /\ g[b] = x
         /\ \A i \in S : i # a /\ i # b => g[i] = f[i]
         /\ \A i \in S : g[i] >= -2
<1>1. PICK h : h = [f EXCEPT ![b] = x]
  OBVIOUS
<1>2. h \in [S -> Int] /\ h[b] = x /\ (\A i \in S : i # b => h[i] = f[i]) /\ \A i \in S : h[i] >= -2
  BY <1>1
<1>3. g = [h EXCEPT ![a] = y]
  BY <1>1
<1> QED
  BY <1>2, <1>3

LEMMA AbsentHoldsNothing ==
  /\ \A e \in Entries : e \notin ToSet(Absent)
  /\ Absent \notin Seq(Entries) /\ <<>> # Absent /\ ToSet(<<>>) = {} /\ <<>> \in Seq(Entries)
<1>1. ToSet(Absent) = {0}
  BY DEF ToSet, Absent
<1>2. Absent \notin Seq(Entries)
  <2> SUFFICES ASSUME Absent \in Seq(Entries) PROVE FALSE
    OBVIOUS
  <2>1. Len(Absent) = 1 /\ Absent[1] = 0
    BY DEF Absent
  <2>2. Absent[1] \in Entries
    <3>1. PICK s \in Seq(Entries) : s = Absent
      OBVIOUS
    <3>2. 1 \in 1 .. Len(s)
      BY <2>1, <3>1
    <3>3. s[1] \in Entries
      BY <3>1, <3>2, ElementOfSeq
    <3> QED
      BY <3>1, <3>3
  <2> QED
    BY <2>1, <2>2 DEF Entries
<1> QED
  BY <1>1, <1>2 DEF ToSet, Absent, Entries

LEMMA Appended ==
  ASSUME NEW S, NEW s \in Seq(S), NEW x \in S
  PROVE /\ Append(s, x) \in Seq(S) /\ Len(Append(s, x)) = Len(s) + 1 /\ ToSet(Append(s, x)) = ToSet(s) \cup {x}
        /\ <<x>> \in Seq(S) /\ Len(<<x>>) = 1 /\ ToSet(<<x>>) = {x}
<1>1. Append(s, x) \in Seq(S) /\ Len(Append(s, x)) = Len(s) + 1
  OBVIOUS
<1>2. /\ \A k \in 1 .. Len(s) : Append(s, x)[k] = s[k]
      /\ Append(s, x)[Len(s) + 1] = x
      /\ DOMAIN Append(s, x) = 1 .. Len(s) + 1 /\ DOMAIN s = 1 .. Len(s) /\ Len(s) \in Nat
  OBVIOUS
<1>3. ToSet(Append(s, x)) = ToSet(s) \cup {x}
  <2>1. 1 .. Len(s) + 1 = (1 .. Len(s)) \cup {Len(s) + 1}
    BY <1>2
  <2> QED
    BY <1>2, <2>1 DEF ToSet
<1>4. <<x>> \in Seq(S) /\ Len(<<x>>) = 1
  OBVIOUS
<1>5. ToSet(<<x>>) = {x}
  BY DEF ToSet
<1> QED
  BY <1>1, <1>3, <1>4, <1>5

LEMMA FirstStays ==
  ASSUME NEW S, NEW s \in Seq(S), NEW x \in S
  PROVE s # <<>> => Append(s, x)[1] = s[1] /\ Append(s, x) # <<>>
  OBVIOUS

LEMMA SessionsStart == SessionsInit => SessionsInv
<1> SUFFICES ASSUME SessionsInit PROVE SessionsInv
  OBVIOUS
<1>1. SessionsTyped
  BY SessionsAssumption DEF SessionsInit, SessionsTyped, NoMeta
<1>2. MidWay /\ KeptHasAHome
  BY DEF SessionsInit, MidWay, KeptHasAHome
<1>3. OthersAreAtRest
  BY DEF SessionsInit, OthersAreAtRest, AtRest
<1> QED
  BY <1>1, <1>2, <1>3 DEF SessionsInv

LEMMA EnqueueStep ==
  ASSUME SessionsInv, NEW o, WellMade(o), queue' = Append(queue, o),
         UNCHANGED <<ledger, meta, done, counted, kept, sessionCrashes>>, appended' \in Nat
  PROVE SessionsInv'
<1>1. o \in Operation_ /\ queue \in Seq(Operation_)
  BY DEF WellMade, SessionsInv, SessionsTyped
<1>2. SessionsTyped'
  <2>1. queue' \in Seq(Operation_) /\ DOMAIN queue' = 1 .. Len(queue) + 1 /\ DOMAIN queue = 1 .. Len(queue)
        /\ queue'[Len(queue) + 1] = o /\ \A k \in 1 .. Len(queue) : queue'[k] = queue[k]
    BY <1>1
  <2>2. \A k \in DOMAIN queue' : WellMade(queue'[k])
    BY <2>1 DEF SessionsInv, SessionsTyped
  <2> QED
    BY <2>1, <2>2 DEF SessionsInv, SessionsTyped
<1>3. done > 0 => op' = op /\ queue' # <<>>
  BY <1>1, FirstStays DEF op, SessionsInv, MidWay
<1>4. done \in Nat
  BY DEF SessionsInv, SessionsTyped
<1>5. MidWay'
  BY <1>3 DEF SessionsInv, MidWay
<1>6. OthersAreAtRest' /\ KeptHasAHome'
  BY <1>3, <1>4 DEF SessionsInv, SessionsTyped, OthersAreAtRest, AtRest, KeptHasAHome, HomeOf
<1> QED
  BY <1>2, <1>5, <1>6 DEF SessionsInv


\* The queue without its first operation.
LEMMA Dequeued ==
  ASSUME SessionsTyped, queue # <<>>
  PROVE /\ op \in Operation_ /\ WellMade(op) /\ op.id \in SessionIds /\ op.to \in SessionIds
        /\ Tail(queue) \in Seq(Operation_) /\ \A k \in DOMAIN Tail(queue) : WellMade(Tail(queue)[k])
<1>1. queue \in Seq(Operation_) /\ Len(queue) \in Nat /\ Len(queue) > 0 /\ DOMAIN queue = 1 .. Len(queue)
  BY DEF SessionsTyped
<1>2. 1 \in DOMAIN queue
  BY <1>1
<1>3. WellMade(op)
  BY <1>2 DEF SessionsTyped, op
<1>4. Tail(queue) \in Seq(Operation_) /\ DOMAIN Tail(queue) = 1 .. Len(queue) - 1
      /\ \A k \in 1 .. Len(queue) - 1 : Tail(queue)[k] = queue[k + 1]
  BY <1>1
<1>5. \A k \in DOMAIN Tail(queue) : WellMade(Tail(queue)[k])
  BY <1>1, <1>4 DEF SessionsTyped
<1>6. op \in Operation_
  BY <1>3 DEF WellMade
<1>7. op.id \in SessionIds /\ op.to \in SessionIds
  BY <1>6 DEF Operation_
<1> QED
  BY <1>3, <1>4, <1>5, <1>6, <1>7

LEMMA RejectsStep == ASSUME SessionsInv, rejects PROVE SessionsInv'
<1>1. SessionsTyped /\ queue # <<>> /\ done = 0
  BY DEF SessionsInv, rejects
<1>2. SessionsTyped'
  BY <1>1, Dequeued DEF SessionsTyped, rejects
<1>3. MidWay'
  BY <1>1 DEF rejects, MidWay
<1>4. OthersAreAtRest' /\ KeptHasAHome'
  BY <1>1 DEF SessionsInv, rejects, OthersAreAtRest, AtRest, KeptHasAHome, HomeOf
<1> QED
  BY <1>2, <1>3, <1>4 DEF SessionsInv

LEMMA CrashStep == ASSUME SessionsInv, sessionCrash PROVE SessionsInv'
<1>1. SessionsTyped'
  BY DEF SessionsInv, SessionsTyped, sessionCrash
<1>2. MidWay' /\ OthersAreAtRest'
  BY DEF SessionsInv, SessionsTyped, sessionCrash, MidWay, OthersAreAtRest
<1>3. KeptHasAHome'
  BY DEF SessionsInv, sessionCrash, KeptHasAHome, HomeOf
<1> QED
  BY <1>1, <1>2, <1>3 DEF SessionsInv

LEMMA SidecarStep == ASSUME SessionsInv, sidecar PROVE SessionsInv'
<1>1. queue # <<>> /\ done = 1 /\ done' = 2 /\ op' = op /\ SessionsTyped
  BY DEF SessionsInv, MidWay, sidecar, op
<1>2. op \in Operation_ /\ op.id \in SessionIds /\ op.to \in SessionIds /\ WellMade(op)
  BY <1>1, Dequeued
<1>3. SessionsTyped'
  BY <1>1, <1>2 DEF SessionsTyped, sidecar, Set, Torn
<1>4. MidWay'
  BY <1>1, <1>2 DEF SessionsInv, MidWay, sidecar
<1>5. /\ \A i \in SessionIds : i # op.to => meta'[i] = meta[i]
      /\ meta'[op.to] # NoMeta
  BY <1>1, <1>2 DEF SessionsTyped, sidecar, Set, Torn, NoMeta
<1>6. OthersAreAtRest'
  BY <1>1, <1>5 DEF SessionsInv, OthersAreAtRest, AtRest, sidecar
<1>7. KeptHasAHome'
  BY <1>1, <1>5 DEF SessionsInv, KeptHasAHome, HomeOf, sidecar
<1> QED
  BY <1>3, <1>4, <1>6, <1>7 DEF SessionsInv

LEMMA BeginsStep == ASSUME SessionsInv, begins PROVE SessionsInv'
<1>1. SessionsTyped /\ queue # <<>> /\ done = 0 /\ done' = 1 /\ op' = op /\ ~refused
      /\ counted' = meta[op.id] /\ UNCHANGED <<meta, queue, appended, sessionCrashes>>
  BY DEF SessionsInv, begins, op, countRead
<1>2. op \in Operation_ /\ op.id \in SessionIds /\ op.to \in SessionIds /\ WellMade(op)
  BY <1>1, Dequeued
<1>3. op.kind \in {"create", "append", "delete", "renameId"} /\ counted' \in Int
  BY <1>1, <1>2 DEF Operation_, SessionsTyped
<1>4. \A i \in SessionIds : ledger[i] \in Seq(Entries) \cup {Absent}
  BY <1>1 DEF SessionsTyped
<1>5. sessionCrashes = 0 => \A i \in SessionIds : AtRest(i)
  BY <1>1 DEF SessionsInv, OthersAreAtRest
<1>6. \A e \in kept : \E i \in SessionIds : e \in ToSet(ledger[i]) /\ meta[i] # NoMeta
  BY <1>1 DEF SessionsInv, KeptHasAHome, HomeOf
<1>7. kept \subseteq Entries
  BY <1>1 DEF SessionsTyped
<1>8. ASSUME NEW l \in [SessionIds -> Seq(Entries) \cup {Absent}], ledger' = l,
             kept' \subseteq kept,
             \A i \in SessionIds : i # op.id /\ i # op.to => l[i] = ledger[i]
      PROVE SessionsTyped' /\ OthersAreAtRest'
  <2>1. SessionsTyped'
    BY <1>1, <1>3, <1>7, <1>8 DEF SessionsTyped
  <2>2. OthersAreAtRest'
    BY <1>1, <1>5, <1>8 DEF OthersAreAtRest, AtRest
  <2> QED
    BY <2>1, <2>2
<1>9. CASE op.kind = "create"
  <2>1. op.to = op.id /\ meta[op.id] = NoMeta /\ ledger' = [ledger EXCEPT ![op.id] = <<>>] /\ kept' = kept
    BY <1>1, <1>2, <1>9 DEF WellMade, refused, begins, Set
  <2>2. ledger' \in [SessionIds -> Seq(Entries) \cup {Absent}] /\ ledger'[op.id] = <<>>
        /\ \A i \in SessionIds : i # op.id => ledger'[i] = ledger[i]
    BY <1>1, <1>2, <2>1, AbsentHoldsNothing DEF SessionsTyped
  <2>3. SessionsTyped' /\ OthersAreAtRest'
    BY <1>8, <2>1, <2>2
  <2>4. MidWay'
    BY <1>1, <1>9, <2>2 DEF MidWay
  <2>5. KeptHasAHome'
    BY <1>1, <1>6, <2>1, <2>2 DEF KeptHasAHome, HomeOf
  <2> QED
    BY <2>3, <2>4, <2>5 DEF SessionsInv
<1>10. CASE op.kind = "append"
  <2>1. op.to = op.id /\ meta[op.id] \notin {NoMeta, Torn} /\ kept' = kept /\ op.entry \in Entries
        /\ ledger' = [ledger EXCEPT ![op.id] = IF ledger[op.id] = Absent THEN <<op.entry>> ELSE Append(ledger[op.id], op.entry)]
    BY <1>1, <1>2, <1>10 DEF WellMade, refused, begins, Set, Count
  <2>2. PICK x : x = IF ledger[op.id] = Absent THEN <<op.entry>> ELSE Append(ledger[op.id], op.entry)
    OBVIOUS
  <2>3. x \in Seq(Entries) /\ op.entry \in ToSet(x) /\ \A e \in Entries : e \in ToSet(ledger[op.id]) => e \in ToSet(x)
    <3>1. CASE ledger[op.id] = Absent
      <4>1. <<op.entry>> \in Seq(Entries) /\ ToSet(<<op.entry>>) = {op.entry}
        BY <2>1, AbsentHoldsNothing, Appended
      <4> QED
        BY <3>1, <4>1, <2>2, AbsentHoldsNothing
    <3>2. CASE ledger[op.id] # Absent
      <4>1. ledger[op.id] \in Seq(Entries) /\ x = Append(ledger[op.id], op.entry)
        BY <3>2, <1>2, <1>4, <2>2
      <4>2. Append(ledger[op.id], op.entry) \in Seq(Entries)
            /\ ToSet(Append(ledger[op.id], op.entry)) = ToSet(ledger[op.id]) \cup {op.entry}
        BY <4>1, <2>1, Appended
      <4> QED
        BY <4>1, <4>2
    <3> QED
      BY <3>1, <3>2
  <2>4. ledger' = [ledger EXCEPT ![op.id] = x] /\ ledger' \in [SessionIds -> Seq(Entries) \cup {Absent}] /\ ledger'[op.id] = x
        /\ \A i \in SessionIds : i # op.id => ledger'[i] = ledger[i]
    BY <1>1, <1>2, <2>1, <2>2, <2>3 DEF SessionsTyped
  <2>5. SessionsTyped' /\ OthersAreAtRest'
    BY <1>8, <2>1, <2>4
  <2>6. counted' \in Nat
    BY <1>1, <1>2, <2>1 DEF SessionsTyped, NoMeta, Torn
  <2>7. sessionCrashes' = 0 => counted' + 1 = Len(x)
    <3> SUFFICES ASSUME sessionCrashes = 0 PROVE meta[op.id] + 1 = Len(x)
      BY <1>1
    <3>1. ledger[op.id] # Absent /\ meta[op.id] = Len(ledger[op.id])
      BY <1>2, <1>5, <2>1 DEF AtRest
    <3>2. ledger[op.id] \in Seq(Entries)
      BY <3>1, <1>2, <1>4
    <3>3. x = Append(ledger[op.id], op.entry)
      BY <3>1, <2>2
    <3> QED
      BY <3>1, <3>2, <3>3, <2>1
  <2>8. x # Absent
    BY <2>3, AbsentHoldsNothing
  <2>9. MidWay'
    BY <1>1, <1>10, <2>3, <2>4, <2>6, <2>7, <2>8 DEF MidWay
  <2>10. KeptHasAHome'
    <3> SUFFICES ASSUME NEW e \in kept PROVE \E i \in SessionIds : e \in ToSet(ledger'[i]) /\ meta'[i] # NoMeta
      BY <2>1 DEF KeptHasAHome, HomeOf
    <3>1. PICK i \in SessionIds : e \in ToSet(ledger[i]) /\ meta[i] # NoMeta
      BY <1>6
    <3>2. e \in Entries
      BY <1>7
    <3>3. e \in ToSet(ledger'[i])
      BY <3>1, <3>2, <2>3, <2>4
    <3> QED
      BY <3>1, <3>3, <1>1
  <2> QED
    BY <2>5, <2>9, <2>10 DEF SessionsInv
<1>11. CASE op.kind = "delete"
  <2>1. op.to = op.id /\ ledger' = [ledger EXCEPT ![op.id] = Absent] /\ kept' = kept \ ToSet(ledger[op.id])
    BY <1>1, <1>2, <1>11 DEF WellMade, begins, Set
  <2>2. ledger' \in [SessionIds -> Seq(Entries) \cup {Absent}] /\ ledger'[op.id] = Absent
        /\ \A i \in SessionIds : i # op.id => ledger'[i] = ledger[i]
    BY <1>1, <1>2, <2>1 DEF SessionsTyped
  <2>3. SessionsTyped' /\ OthersAreAtRest'
    BY <1>8, <2>1, <2>2
  <2>4. MidWay'
    BY <1>1, <1>11, <2>2 DEF MidWay
  <2>5. KeptHasAHome'
    BY <1>1, <1>6, <2>1, <2>2 DEF KeptHasAHome, HomeOf
  <2> QED
    BY <2>3, <2>4, <2>5 DEF SessionsInv
<1>12. CASE op.kind = "renameId"
  <2>1. /\ meta[op.id] \notin {NoMeta, Torn} /\ meta[op.to] = NoMeta /\ ledger[op.id] # Absent /\ kept' = kept
        /\ ledger' = [[ledger EXCEPT ![op.to] = ledger[op.id]] EXCEPT ![op.id] = Absent]
    BY <1>1, <1>2, <1>12 DEF refused, begins, Set, Count
  <2>2. op.to # op.id
    BY <2>1
  <2>3. ledger' \in [SessionIds -> Seq(Entries) \cup {Absent}] /\ ledger'[op.id] = Absent /\ ledger'[op.to] = ledger[op.id]
        /\ \A i \in SessionIds : i # op.id /\ i # op.to => ledger'[i] = ledger[i]
    BY <1>1, <1>2, <2>1, <2>2 DEF SessionsTyped
  <2>4. SessionsTyped' /\ OthersAreAtRest'
    BY <1>8, <2>1, <2>3
  <2>5. counted' \in Nat
    BY <1>1, <1>2, <2>1 DEF SessionsTyped, NoMeta, Torn
  <2>6. sessionCrashes' = 0 => counted' = Len(ledger'[op.to])
    BY <1>1, <1>2, <1>5, <2>1, <2>3 DEF AtRest
  <2>7. MidWay'
    BY <1>1, <1>12, <2>1, <2>2, <2>3, <2>5, <2>6 DEF MidWay
  <2>8. KeptHasAHome'
    BY <1>1, <1>2, <1>6, <1>12, <2>1, <2>3 DEF KeptHasAHome, HomeOf
  <2> QED
    BY <2>4, <2>7, <2>8 DEF SessionsInv
<1> QED
  BY <1>3, <1>9, <1>10, <1>11, <1>12

LEMMA OperationEndsStep == ASSUME SessionsInv, ends PROVE SessionsInv'
<1>1. SessionsTyped /\ done > 0 /\ done' = 0 /\ queue' = Tail(queue) /\ counted' = 0 /\ UNCHANGED <<ledger, appended, sessionCrashes>>
  BY DEF SessionsInv, ends
<1>2. queue # <<>>
  BY <1>1 DEF SessionsInv, MidWay
<1>3. op \in Operation_ /\ op.id \in SessionIds /\ op.to \in SessionIds /\ WellMade(op)
      /\ Tail(queue) \in Seq(Operation_) /\ \A k \in DOMAIN Tail(queue) : WellMade(Tail(queue)[k])
  BY <1>1, <1>2, Dequeued
<1>4. op.kind \in {"create", "append", "delete", "renameId"}
  BY <1>3 DEF Operation_
<1>5. meta \in [SessionIds -> Int] /\ kept \subseteq Entries
  BY <1>1 DEF SessionsTyped
<1>6. \A e \in kept : \E i \in SessionIds : e \in ToSet(ledger[i]) /\ (meta[i] # NoMeta \/ (op.kind = "renameId" /\ i = op.to))
  BY <1>1 DEF SessionsInv, KeptHasAHome, HomeOf
<1>7. sessionCrashes = 0 => \A i \in SessionIds : i # op.id /\ i # op.to => AtRest(i)
  BY <1>1 DEF SessionsInv, OthersAreAtRest
<1>8. ASSUME NEW m \in [SessionIds -> Int], meta' = m,
             \A i \in SessionIds : m[i] >= -2,
             kept' \subseteq Entries,
             \A i \in SessionIds : i # op.id /\ i # op.to => m[i] = meta[i],
             sessionCrashes = 0 => \A i \in {op.id, op.to} : IF ledger[i] = Absent THEN m[i] = NoMeta ELSE m[i] = Len(ledger[i]),
             \A e \in kept' : \E i \in SessionIds : e \in ToSet(ledger[i]) /\ m[i] # NoMeta
      PROVE SessionsInv'
  <2>1. SessionsTyped'
    BY <1>1, <1>3, <1>8 DEF SessionsTyped
  <2>2. MidWay'
    BY <1>1 DEF MidWay
  <2>3. OthersAreAtRest'
    BY <1>1, <1>7, <1>8 DEF OthersAreAtRest, AtRest
  <2>4. KeptHasAHome'
    BY <1>1, <1>8 DEF KeptHasAHome, HomeOf
  <2> QED
    BY <2>1, <2>2, <2>3, <2>4 DEF SessionsInv
<1>9. \A i \in SessionIds : meta[i] >= -2
  BY <1>1 DEF SessionsTyped
<1>10. CASE op.kind = "create"
  <2>1. op.to = op.id /\ ledger[op.id] = <<>> /\ meta' = [meta EXCEPT ![op.id] = 0] /\ kept' = kept
    BY <1>1, <1>3, <1>10 DEF WellMade, SessionsInv, MidWay, ends, Set
  <2>2. meta' \in [SessionIds -> Int] /\ meta'[op.id] = 0 /\ (\A i \in SessionIds : i # op.id => meta'[i] = meta[i])
        /\ \A i \in SessionIds : meta'[i] >= -2
    BY <1>3, <1>5, <1>9, <2>1
  <2>3. ledger[op.id] # Absent /\ Len(ledger[op.id]) = 0
    BY <2>1, AbsentHoldsNothing
  <2>4. \A e \in kept' : \E i \in SessionIds : e \in ToSet(ledger[i]) /\ meta'[i] # NoMeta
    BY <1>3, <1>6, <1>10, <2>1, <2>2 DEF NoMeta
  <2>5. /\ sessionCrashes = 0 => \A i \in {op.id, op.to} : IF ledger[i] = Absent THEN meta'[i] = NoMeta ELSE meta'[i] = Len(ledger[i])
        /\ \A i \in SessionIds : i # op.id /\ i # op.to => meta'[i] = meta[i]
        /\ kept' \subseteq Entries
    BY <1>5, <2>1, <2>2, <2>3
  <2> QED
    BY <1>8, <2>2, <2>4, <2>5
<1>11. CASE op.kind = "append"
  <2>1. /\ op.to = op.id /\ ledger[op.id] # Absent /\ op.entry \in ToSet(ledger[op.id]) /\ counted \in Nat
        /\ sessionCrashes = 0 => counted + 1 = Len(ledger[op.id])
        /\ meta' = [meta EXCEPT ![op.id] = counted + 1] /\ kept' = kept \cup {op.entry} /\ op.entry \in Entries
    BY <1>1, <1>3, <1>11 DEF WellMade, SessionsInv, MidWay, ends, Set
  <2>2. meta' \in [SessionIds -> Int] /\ meta'[op.id] = counted + 1 /\ (\A i \in SessionIds : i # op.id => meta'[i] = meta[i])
        /\ \A i \in SessionIds : meta'[i] >= -2
    BY <1>3, <1>5, <1>9, <2>1
  <2>3. meta'[op.id] # NoMeta
    BY <2>1, <2>2 DEF NoMeta
  <2>4. \A e \in kept' : \E i \in SessionIds : e \in ToSet(ledger[i]) /\ meta'[i] # NoMeta
    BY <1>3, <1>6, <1>11, <2>1, <2>2, <2>3
  <2>5. /\ sessionCrashes = 0 => \A i \in {op.id, op.to} : IF ledger[i] = Absent THEN meta'[i] = NoMeta ELSE meta'[i] = Len(ledger[i])
        /\ \A i \in SessionIds : i # op.id /\ i # op.to => meta'[i] = meta[i]
        /\ kept' \subseteq Entries
    BY <1>5, <2>1, <2>2, <2>3
  <2> QED
    BY <1>8, <2>2, <2>4, <2>5
<1>12. CASE op.kind = "delete"
  <2>1. op.to = op.id /\ ledger[op.id] = Absent /\ meta' = [meta EXCEPT ![op.id] = NoMeta] /\ kept' = kept
    BY <1>1, <1>3, <1>12 DEF WellMade, SessionsInv, MidWay, ends, Set
  <2>2. meta' \in [SessionIds -> Int] /\ meta'[op.id] = NoMeta /\ (\A i \in SessionIds : i # op.id => meta'[i] = meta[i])
        /\ \A i \in SessionIds : meta'[i] >= -2
    BY <1>3, <1>5, <1>9, <2>1 DEF NoMeta
  <2>3. \A e \in kept' : \E i \in SessionIds : e \in ToSet(ledger[i]) /\ meta'[i] # NoMeta
    <3> SUFFICES ASSUME NEW e \in kept PROVE \E i \in SessionIds : e \in ToSet(ledger[i]) /\ meta'[i] # NoMeta
      BY <2>1
    <3>1. PICK i \in SessionIds : e \in ToSet(ledger[i]) /\ meta[i] # NoMeta
      BY <1>6, <1>12
    <3>2. e \in Entries
      BY <1>5
    <3>3. i # op.id
      BY <3>1, <3>2, <2>1, AbsentHoldsNothing
    <3> QED
      BY <3>1, <3>3, <2>2
  <2>4. /\ sessionCrashes = 0 => \A i \in {op.id, op.to} : IF ledger[i] = Absent THEN meta'[i] = NoMeta ELSE meta'[i] = Len(ledger[i])
        /\ \A i \in SessionIds : i # op.id /\ i # op.to => meta'[i] = meta[i]
        /\ kept' \subseteq Entries
    BY <1>5, <2>1, <2>2
  <2> QED
    BY <1>8, <2>2, <2>3, <2>4
<1>13. CASE op.kind = "renameId"
  <2>1. /\ op.to # op.id /\ ledger[op.id] = Absent /\ counted \in Nat /\ kept' = kept
        /\ sessionCrashes = 0 => ledger[op.to] # Absent /\ counted = Len(ledger[op.to])
        /\ meta' = [[meta EXCEPT ![op.to] = counted] EXCEPT ![op.id] = NoMeta]
    BY <1>1, <1>3, <1>13 DEF SessionsInv, MidWay, ends, Set
  <2>2. meta' \in [SessionIds -> Int] /\ meta'[op.id] = NoMeta /\ meta'[op.to] = counted
        /\ (\A i \in SessionIds : i # op.id /\ i # op.to => meta'[i] = meta[i])
        /\ \A i \in SessionIds : meta'[i] >= -2
    <3>1. NoMeta \in Int /\ NoMeta >= -2 /\ counted \in Int /\ counted >= -2
      BY <2>1 DEF NoMeta
    <3>2. meta \in [SessionIds -> Int] /\ op.id \in SessionIds /\ op.to \in SessionIds /\ op.to # op.id
          /\ \A i \in SessionIds : meta[i] >= -2
      BY <1>3, <1>5, <1>9, <2>1
    <3> QED
      BY <2>1, <3>1, <3>2, SetTwice
  <2>3. \A e \in kept' : \E i \in SessionIds : e \in ToSet(ledger[i]) /\ meta'[i] # NoMeta
    <3> SUFFICES ASSUME NEW e \in kept PROVE \E i \in SessionIds : e \in ToSet(ledger[i]) /\ meta'[i] # NoMeta
      BY <2>1
    <3>1. PICK i \in SessionIds : e \in ToSet(ledger[i]) /\ (meta[i] # NoMeta \/ i = op.to)
      BY <1>6
    <3>2. e \in Entries
      BY <1>5
    <3>3. i # op.id
      BY <3>1, <3>2, <2>1, AbsentHoldsNothing
    <3>4. meta'[i] # NoMeta
      BY <3>1, <3>3, <2>1, <2>2 DEF NoMeta
    <3> QED
      BY <3>1, <3>4
  <2>4. /\ sessionCrashes = 0 => \A i \in {op.id, op.to} : IF ledger[i] = Absent THEN meta'[i] = NoMeta ELSE meta'[i] = Len(ledger[i])
        /\ \A i \in SessionIds : i # op.id /\ i # op.to => meta'[i] = meta[i]
        /\ kept' \subseteq Entries
    BY <1>5, <2>1, <2>2
  <2> QED
    BY <1>8, <2>2, <2>3, <2>4
<1> QED
  BY <1>4, <1>10, <1>11, <1>12, <1>13

\* A session at rest counts its entries, and an acknowledged entry is in a
\* ledger until somebody deletes it.
THEOREM TranscriptsAreAlwaysWhole == SessionsSpec => []TranscriptsAreWhole
<1>1. SessionsInit => SessionsInv
  BY SessionsStart
<1>2. SessionsInv /\ [SessionsNext]_sessionsVars => SessionsInv'
  <2> SUFFICES ASSUME SessionsInv, [SessionsNext]_sessionsVars PROVE SessionsInv'
    OBVIOUS
  <2>1. CASE call
    <3>1. PICK i \in SessionIds, j \in SessionIds, kind \in {"create", "delete", "renameId", "append"}, e \in Nat :
            /\ enqueue(kind, i, j, e) /\ appended' \in Nat
            /\ (kind # "renameId" => j = i) /\ (kind = "append" => e = appended + 1)
      BY <2>1 DEF call, SessionsInv, SessionsTyped
    <3>2. PICK o : o = [kind |-> kind, id |-> i, to |-> j, entry |-> e, count |-> meta[i]]
      OBVIOUS
    <3>3. WellMade(o)
      BY <3>1, <3>2 DEF WellMade, Operation_, SessionsInv, SessionsTyped, Entries
    <3>4. queue' = Append(queue, o) /\ UNCHANGED <<ledger, meta, done, counted, kept, sessionCrashes>>
      BY <2>1, <3>1, <3>2 DEF call, enqueue
    <3> QED
      BY <3>1, <3>3, <3>4, EnqueueStep
  <2>2. CASE restoreSession
    <3>1. PICK i \in SessionIds : enqueue("create", i, i, 0)
      BY <2>2 DEF restoreSession
    <3>2. PICK o : o = [kind |-> "create", id |-> i, to |-> i, entry |-> 0, count |-> meta[i]]
      OBVIOUS
    <3>3. WellMade(o)
      BY <3>2 DEF WellMade, Operation_, SessionsInv, SessionsTyped
    <3>4. queue' = Append(queue, o) /\ UNCHANGED <<ledger, meta, done, counted, kept, appended, sessionCrashes>>
      BY <2>2, <3>1, <3>2 DEF restoreSession, enqueue
    <3>5. appended' \in Nat
      BY <3>4 DEF SessionsInv, SessionsTyped
    <3> QED
      BY <3>3, <3>4, <3>5, EnqueueStep
  <2>3. CASE UNCHANGED sessionsVars
    BY <2>3 DEF sessionsVars, SessionsInv, SessionsTyped, MidWay, OthersAreAtRest, AtRest, KeptHasAHome, HomeOf, op
  <2> QED
    BY <2>1, <2>2, <2>3, RejectsStep, BeginsStep, SidecarStep, OperationEndsStep, CrashStep DEF SessionsNext
<1>3. SessionsInv => TranscriptsAreWhole
  BY DEF SessionsInv, OthersAreAtRest, AtRest, KeptHasAHome, HomeOf, TranscriptsAreWhole
<1> QED
  BY <1>1, <1>2, <1>3, PTL DEF SessionsSpec

-----------------------------------------------------------------------------
\* The adapters

StepKind == {"throw", "create", "wait", "publish", "post", "token", "quota"}
Platforms == {"meta", "tiktok", "pinterest", "twitter", "linkedin"}
NeedsWait(r) == r.kind \notin {"instagram.image", "threads.text"}

\* What a plan has to be: it publishes or posts once, as its last step, if nothing throws
\* before; a container is published by Meta alone, and where it needs processing the step
\* before waits for it.
IsPlan(s, r) ==
  /\ s \in Seq(StepKind) /\ Len(s) \in Nat \ {0}
  /\ \A i \in 1 .. Len(s) :
       /\ s[i] \in {"publish", "post"} => i = Len(s)
       /\ s[i] = "publish" => /\ Platform(r) = "meta"
                              /\ NeedsWait(r) => i > 1 /\ s[i - 1] = "wait"
  /\ s[Len(s)] \in {"publish", "post", "throw"}

\* A plan that ends in a publish is a beginning, which creates or throws, and the wait.
LEMMA PublishIsPlan ==
  ASSUME NEW r, Platform(r) = "meta", NEW c \in Seq({"create", "throw"})
  PROVE IsPlan(c \o <<"wait", "publish">>, r)
<1>1. PICK s : s = c \o <<"wait", "publish">>
  OBVIOUS
<1>2. <<"wait", "publish">> \in Seq(StepKind) /\ c \in Seq(StepKind) /\ Len(c) \in Nat
  <2>1. c \in Seq(StepKind)
    BY DEF StepKind
  <2> QED
    BY <2>1 DEF StepKind
<1>3. s \in Seq(StepKind) /\ Len(s) = Len(c) + 2
  BY <1>1, <1>2
<1>4. /\ \A i \in 1 .. Len(c) : s[i] = c[i]
      /\ s[Len(c) + 1] = "wait" /\ s[Len(c) + 2] = "publish"
  BY <1>1, <1>2
<1>5. \A i \in 1 .. Len(c) : c[i] \in {"create", "throw"}
  BY ElementOfSeq
<1>6. \A i \in 1 .. Len(s) : i \in 1 .. Len(c) \/ i = Len(c) + 1 \/ i = Len(c) + 2
  BY <1>2, <1>3
<1>7. IsPlan(s, r)
  BY <1>2, <1>3, <1>4, <1>5, <1>6 DEF IsPlan
<1> QED
  BY <1>1, <1>7


\* What can be asked of whom.
LEMMA Asked_ ==
  ASSUME NEW r \in Requests
  PROVE /\ Platform(r) \in Platforms
        /\ Platform(r) = "meta" <=> r \in InstagramRequests \cup ThreadsRequests \cup FacebookRequests
        /\ \/ r \in InstagramRequests /\ Steps(r) = instagramSteps(r)
           \/ r \in ThreadsRequests /\ Steps(r) = threadsSteps(r)
           \/ r \in FacebookRequests /\ Steps(r) = facebookSteps(r)
           \/ r \in TikTokRequests /\ Steps(r) = tiktokSteps(r)
           \/ r \in PinterestRequests /\ Steps(r) = pinterestSteps(r)
           \/ r \in TwitterRequests /\ Steps(r) = twitterAdapter(r)
           \/ r \in LinkedInRequests /\ Steps(r) = linkedinAdapter(r)
<1>1. /\ r \in InstagramRequests => r.kind \in {"instagram.image", "instagram.video", "instagram.carousel"}
      /\ r \in ThreadsRequests => r.kind \in {"threads.text", "threads.image"}
      /\ r \in FacebookRequests => r.kind \in {"facebook.post", "facebook.empty", "facebook.comment"}
      /\ r \in TikTokRequests => r.kind = "tiktok.publish"
      /\ r \in PinterestRequests => r.kind \in {"pinterest.board", "pinterest.pin"}
      /\ r \in TwitterRequests => r.kind = "twitter.publish"
      /\ r \in LinkedInRequests => r.kind = "linkedin.publish"
  BY DEF InstagramRequests, ThreadsRequests, FacebookRequests, TikTokRequests, PinterestRequests,
         TwitterRequests, LinkedInRequests, Request
<1> QED
  BY <1>1 DEF Requests, Platform, Platforms, Steps

LEMMA CarouselSteps ==
  ASSUME NEW r \in Requests, r.kind = "instagram.carousel"
  PROVE carouselSteps(r) \in Seq({"create", "throw"})
<1>1. \E n \in Nat : r.child \in [1 .. n -> BOOLEAN]
  BY PublishingAssumption DEF Requests, InstagramRequests, ThreadsRequests, FacebookRequests, TikTokRequests,
         PinterestRequests, TwitterRequests, LinkedInRequests, Request, Children
<1>2. r.child \in Seq(BOOLEAN) /\ Len(r.child) \in Nat
  BY <1>1
<1>3. <<"throw">> \in Seq({"create", "throw"}) /\ <<"create">> \in Seq({"create", "throw"})
  OBVIOUS
<1>4. [i \in 1 .. Len(r.child) |-> IF r.child[i] THEN "create" ELSE "throw"] \in Seq({"create", "throw"})
  BY <1>2
<1>5. [i \in 1 .. Len(r.child) |-> IF r.child[i] THEN "create" ELSE "throw"] \o <<"create">> \in Seq({"create", "throw"})
  BY <1>3, <1>4
<1> QED
  BY <1>3, <1>5 DEF carouselSteps

LEMMA StepsArePlans == \A r \in Requests : IsPlan(Steps(r), r)
<1> SUFFICES ASSUME NEW r \in Requests PROVE IsPlan(Steps(r), r)
  OBVIOUS
<1>1. /\ r \in InstagramRequests => r.kind \in {"instagram.image", "instagram.video", "instagram.carousel"}
      /\ r \in ThreadsRequests => r.kind \in {"threads.text", "threads.image"}
  BY DEF InstagramRequests, ThreadsRequests, Request
<1>2. CASE Steps(r) = <<"throw">>
  BY <1>2 DEF IsPlan, StepKind
<1>3. CASE Steps(r) = <<"post">>
  BY <1>3 DEF IsPlan, StepKind
<1>4. CASE Steps(r) \in {<<"token", "post">>, <<"token", "quota", "post">>, <<"token", "throw">>}
  <2>1. CASE Steps(r) = <<"token", "post">>
    BY <2>1 DEF IsPlan, StepKind
  <2>3. CASE Steps(r) = <<"token", "quota", "post">>
    BY <2>3 DEF IsPlan, StepKind
  <2>2. CASE Steps(r) = <<"token", "throw">>
    BY <2>2 DEF IsPlan, StepKind
  <2> QED
    BY <1>4, <2>1, <2>2, <2>3
<1>5. CASE Steps(r) = <<"create", "publish">> /\ ~NeedsWait(r) /\ Platform(r) = "meta"
  BY <1>5 DEF IsPlan, StepKind
<1>6. CASE Steps(r) = <<"create", "wait", "publish">> /\ Platform(r) = "meta"
  BY <1>6 DEF IsPlan, StepKind
<1>7. CASE r \in InstagramRequests /\ r.kind = "instagram.carousel" /\ Platform(r) = "meta"
           /\ Steps(r) = carouselSteps(r) \o <<"wait", "publish">>
  BY <1>7, CarouselSteps, PublishIsPlan
<1>8. \/ Steps(r) \in {<<"throw">>, <<"post">>, <<"token", "post">>, <<"token", "quota", "post">>, <<"token", "throw">>}
      \/ Platform(r) = "meta" /\ ~NeedsWait(r) /\ Steps(r) = <<"create", "publish">>
      \/ Platform(r) = "meta" /\ Steps(r) = <<"create", "wait", "publish">>
      \/ Platform(r) = "meta" /\ r \in InstagramRequests /\ r.kind = "instagram.carousel"
           /\ Steps(r) = carouselSteps(r) \o <<"wait", "publish">>
  BY <1>1, Asked_ DEF instagramSteps, threadsSteps, facebookSteps, tiktokSteps, pinterestSteps, twitterAdapter,
     linkedinAdapter, NeedsWait
<1> QED
  BY <1>2, <1>3, <1>4, <1>5, <1>6, <1>7, <1>8

\* What the dispatchers make of an answer.
LEMMA Outcomes_ ==
  ASSUME NEW p \in Platforms, NEW said \in Answers
  PROVE /\ Outcome(p, said) \in {"id", "noId", "transient", "permanent"}
        /\ Outcome(p, said) = "id" => said = "ok"
        /\ p = "meta" /\ Outcome(p, said) = "noId" => said \in Success
        /\ Outcome(p, said) = "transient" => said \in {"okBusy", "tooMany", "server"}
<1>1. CASE p = "meta"
  <2>1. Dispatcher(p) = metaDispatcher
    BY <1>1 DEF Dispatcher
  <2>2. metaDispatcher.request[said] = metaRequest(said) /\ (said \in metaDispatcher.retried <=> isTransientMetaError(said))
    BY DEF metaDispatcher
  <2> QED
    BY <2>1, <2>2, <1>1 DEF Outcome, metaRequest, isTransientMetaError, isTransientHttp, Success, Answers
<1>2. CASE p = "tiktok"
  <2>1. Dispatcher(p) = tiktokDispatcher
    BY <1>2 DEF Dispatcher
  <2>2. tiktokDispatcher.request[said] = tiktokRequest(said) /\ (said \in tiktokDispatcher.retried <=> isTransientTikTokError(said))
    BY DEF tiktokDispatcher
  <2> QED
    BY <2>1, <2>2, <1>2 DEF Outcome, tiktokRequest, isTransientTikTokError, isTransientHttp, Success, Answers
<1>3. CASE p = "pinterest"
  <2>1. Dispatcher(p) = pinterestDispatcher
    BY <1>3 DEF Dispatcher
  <2>2. /\ pinterestDispatcher.request[said] = pinterestRequest(said)
        /\ (said \in pinterestDispatcher.retried <=> isTransientPinterestError(said))
    BY DEF pinterestDispatcher
  <2> QED
    BY <2>1, <2>2, <1>3 DEF Outcome, pinterestRequest, isTransientPinterestError, isTransientHttp, Success, Answers
<1>4. CASE p = "twitter"
  <2>1. Dispatcher(p) = twitterDispatcher
    BY <1>4 DEF Dispatcher
  <2>2. /\ twitterDispatcher.request[said] = twitterRequest(said)
        /\ (said \in twitterDispatcher.retried <=> isTransientTwitterError(said))
    BY DEF twitterDispatcher
  <2> QED
    BY <2>1, <2>2, <1>4 DEF Outcome, twitterRequest, isTransientTwitterError, isTransientHttp, Success, Answers
<1>5. CASE p = "linkedin"
  <2>1. Dispatcher(p) = linkedinDispatcher
    BY <1>5 DEF Dispatcher
  <2>2. /\ linkedinDispatcher.request[said] = linkedinRequest(said)
        /\ (said \in linkedinDispatcher.retried <=> isTransientLinkedInError(said))
    BY DEF linkedinDispatcher
  <2> QED
    BY <2>1, <2>2, <1>5 DEF Outcome, linkedinRequest, isTransientLinkedInError, isTransientHttp, Success, Answers
<1> QED
  BY <1>1, <1>2, <1>3, <1>4, <1>5 DEF Platforms


\* The run of a call keeps to the plan of its request.
RunIsOnPlan ==
  /\ req \in Requests /\ step \in 1 .. Len(Steps(req))
  /\ attempts \in Nat /\ posted \in Nat /\ blurred \in Nat /\ lost \in BOOLEAN
  /\ at \in {"new", "calling", "done", "failed"}
  /\ at = "calling" => attempts < MaxAttempts /\ Current \in {"create", "publish", "post"}
  /\ Current = "publish" /\ NeedsWait(req) => container \in Ready

\* What is out while the call goes on was blurred by an error of the server's.
PostsAreBlurred ==
  /\ at \in {"new", "calling"} => posted <= blurred
  /\ at # "done" /\ posted > 0 => lost = TRUE

\* The dead letter of the dispatch that failed.
Letters ==
  /\ dlq = <<>> \/ (dlq = <<attempts>> /\ attempts <= MaxAttempts /\ at = "failed")
  /\ at = "failed" /\ dlq = <<>> =>
       Current \in {"throw", "token", "quota", "wait"} \/ (Current = "post" /\ requiresId(Platform(req)) /\ attempts > 0)

PublishInv == /\ RunIsOnPlan /\ PostsAreBlurred /\ Letters
              /\ ReportsAreTrue /\ NothingUnreadyIsPublished

LEMMA PlanOf ==
  ASSUME RunIsOnPlan
  PROVE /\ Platform(req) \in Platforms /\ Current \in StepKind /\ IsPlan(Steps(req), req)
        /\ Len(Steps(req)) \in Nat \ {0} /\ step \in Nat
        /\ Current \in {"publish", "post"} => ~More
        /\ Current = "publish" => Platform(req) = "meta"
        /\ ~More => Current \in {"publish", "post", "throw"}
<1>1. req \in Requests /\ step \in 1 .. Len(Steps(req))
  BY DEF RunIsOnPlan
<1>2. IsPlan(Steps(req), req) /\ Platform(req) \in Platforms
  BY <1>1, StepsArePlans, Asked_
<1>3. Steps(req) \in Seq(StepKind) /\ Len(Steps(req)) \in Nat \ {0}
  BY <1>2 DEF IsPlan
<1>4. Current \in StepKind
  BY <1>1, <1>3, ElementOfSeq DEF Current
<1>5. Current \in {"publish", "post"} => step = Len(Steps(req))
  BY <1>1, <1>2 DEF IsPlan, Current
<1>6. step = Len(Steps(req)) => Current \in {"publish", "post", "throw"}
  BY <1>2 DEF IsPlan, Current
<1>7. Current = "publish" => Platform(req) = "meta"
  BY <1>1, <1>2 DEF IsPlan, Current
<1> QED
  BY <1>1, <1>2, <1>3, <1>4, <1>5, <1>6, <1>7 DEF More

\* The next step of the plan is a publish that needs its container ready only if this
\* one waited for it.
LEMMA AdvanceToNext ==
  ASSUME RunIsOnPlan, Advance, Current # "throw", UNCHANGED req,
         Current = "wait" => container \in Ready /\ UNCHANGED container,
         Current = "publish" /\ container \in Ready => container' \in Ready
  PROVE /\ step' \in 1 .. Len(Steps(req')) /\ at' \in {"new", "done"}
        /\ at' = "done" <=> Current \in {"publish", "post"}
        /\ Current' = "publish" /\ NeedsWait(req') => container' \in Ready
<1>1. /\ Current \in StepKind /\ IsPlan(Steps(req), req) /\ Len(Steps(req)) \in Nat \ {0} /\ step \in Nat
      /\ Current \in {"publish", "post"} => ~More
      /\ ~More => Current \in {"publish", "post", "throw"}
  BY PlanOf
<1>2. step \in 1 .. Len(Steps(req)) /\ Steps(req') = Steps(req)
  BY DEF RunIsOnPlan
<1>3. CASE More
  <2>1. at' = "new" /\ step' = step + 1 /\ step + 1 \in 1 .. Len(Steps(req)) /\ Current \notin {"publish", "post"}
    BY <1>1, <1>2, <1>3 DEF Advance, More
  <2>2. Current' = Steps(req)[step + 1]
    BY <1>2, <2>1 DEF Current
  <2>3. Current' = "publish" /\ NeedsWait(req) => Steps(req)[(step + 1) - 1] = "wait"
    BY <1>1, <2>1, <2>2 DEF IsPlan
  <2>4. Current' = "publish" /\ NeedsWait(req) => Current = "wait"
    BY <1>1, <2>3 DEF Current
  <2> QED
    BY <1>2, <2>1, <2>4
<1>4. CASE ~More
  <2>1. at' = "done" /\ step' = step /\ Current' = Current /\ Current \in {"publish", "post"}
    BY <1>1, <1>2, <1>4 DEF Advance, Current
  <2> QED
    BY <1>2, <2>1 DEF RunIsOnPlan
<1> QED
  BY <1>3, <1>4


LEMMA PublishStart == PublishInit => PublishInv
<1> SUFFICES ASSUME PublishInit PROVE PublishInv
  OBVIOUS
<1>1. IsPlan(Steps(req), req) /\ Len(Steps(req)) \in Nat \ {0}
  BY StepsArePlans DEF PublishInit, IsPlan
<1>2. Current = "publish" => ~NeedsWait(req)
  BY <1>1 DEF PublishInit, IsPlan, Current
<1>3. RunIsOnPlan
  <2>1. step \in 1 .. Len(Steps(req)) /\ at = "new"
    <3>1. step = 1 /\ at = "new"
      BY DEF PublishInit
    <3>2. PICK n \in Nat \ {0} : n = Len(Steps(req))
      BY <1>1
    <3>3. 1 \in 1 .. n
      OBVIOUS
    <3> QED
      BY <3>1, <3>2, <3>3
  <2>2. lost \in BOOLEAN
    BY DEF PublishInit
  <2> QED
    BY <1>2, <2>1, <2>2 DEF PublishInit, RunIsOnPlan
<1> QED
  BY <1>3 DEF PublishInit, PublishInv, PostsAreBlurred, Letters, ReportsAreTrue, NothingUnreadyIsPublished

\* The properties that a step leaves alone, and what is left to be shown of one.
LEMMA FailStep ==
  ASSUME PublishInv, at \in {"new", "calling"}, Fail, UNCHANGED <<req, container>>,
         attempts' \in Nat, posted' \in Nat, blurred' \in Nat, lost' \in BOOLEAN,
         posted' <= 1 + blurred', posted' > 0 => lost' = TRUE,
         Letters', NothingUnreadyIsPublished'
  PROVE PublishInv'
<1>1. at' = "failed" /\ step' = step /\ Current' = Current
  BY DEF Fail, Current
<1>2. RunIsOnPlan'
  BY <1>1 DEF PublishInv, RunIsOnPlan
<1> QED
  BY <1>1, <1>2 DEF PublishInv, PostsAreBlurred, ReportsAreTrue

LEMMA ThrowsStep == ASSUME PublishInv, throws PROVE PublishInv'
<1>1. Letters'
  BY DEF PublishInv, Letters, throws, Fail, Current
<1>2. /\ at = "new" /\ Fail /\ UNCHANGED <<req, container>> /\ attempts' \in Nat /\ posted' \in Nat
      /\ blurred' \in Nat /\ lost' \in BOOLEAN /\ posted' <= 1 + blurred' /\ (posted' > 0 => lost' = TRUE)
      /\ NothingUnreadyIsPublished'
  BY DEF PublishInv, RunIsOnPlan, PostsAreBlurred, ReportsAreTrue, NothingUnreadyIsPublished, throws
<1> QED
  BY <1>1, <1>2, FailStep

\* A step that goes on without a call.
LEMMA GoesOnStep ==
  ASSUME PublishInv, at = "new", Advance, Current \in {"token", "quota", "wait"},
         Current = "wait" => container \in Ready,
         UNCHANGED <<req, attempts, container, posted, dlq, blurred, lost, asked>>
  PROVE PublishInv'
<1>1. RunIsOnPlan
  BY DEF PublishInv
<1>2. /\ step' \in 1 .. Len(Steps(req')) /\ at' = "new"
      /\ Current' = "publish" /\ NeedsWait(req') => container' \in Ready
  BY <1>1, AdvanceToNext
<1>3. RunIsOnPlan'
  BY <1>1, <1>2 DEF RunIsOnPlan
<1>4. dlq = <<>>
  BY DEF PublishInv, Letters
<1> QED
  BY <1>2, <1>3, <1>4 DEF PublishInv, PostsAreBlurred, Letters, ReportsAreTrue, NothingUnreadyIsPublished

LEMMA TokenStep == ASSUME PublishInv, getOAuth \/ quotaGuard PROVE PublishInv'
<1>1. CASE Advance
  BY <1>1, GoesOnStep DEF getOAuth, quotaGuard
<1>2. CASE Fail
  <2>1. Letters'
    BY <1>2 DEF PublishInv, Letters, getOAuth, quotaGuard, Fail, Current
  <2>2. /\ at = "new" /\ Fail /\ UNCHANGED <<req, container>> /\ attempts' \in Nat /\ posted' \in Nat
        /\ blurred' \in Nat /\ lost' \in BOOLEAN /\ posted' <= 1 + blurred' /\ (posted' > 0 => lost' = TRUE)
        /\ NothingUnreadyIsPublished'
    BY <1>2 DEF PublishInv, RunIsOnPlan, PostsAreBlurred, ReportsAreTrue, NothingUnreadyIsPublished, getOAuth,
                quotaGuard
  <2> QED
    BY <2>1, <2>2, FailStep
<1> QED
  BY <1>1, <1>2 DEF getOAuth, quotaGuard

LEMMA DispatchStep == ASSUME PublishInv, dispatch PROVE PublishInv'
<1>0. MaxAttempts \in Nat \ {0}
  BY PublishingAssumption
<1>1. CASE at' = "calling" /\ UNCHANGED <<step, dlq>>
  <2>1. Current' = Current
    BY <1>1 DEF dispatch, Current
  <2>2. RunIsOnPlan'
    BY <1>0, <1>1, <2>1 DEF dispatch, PublishInv, RunIsOnPlan
  <2>3. dlq = <<>>
    BY DEF dispatch, PublishInv, Letters
  <2> QED
    BY <1>1, <2>2, <2>3 DEF dispatch, PublishInv, PostsAreBlurred, Letters, ReportsAreTrue, NothingUnreadyIsPublished
<1>2. CASE Fail /\ dlq' = Append(dlq, 0)
  <2>1. dlq = <<>> /\ attempts' = 0 /\ dlq' = <<0>> /\ at' = "failed"
    BY <1>2 DEF dispatch, PublishInv, Letters, Fail
  <2>2. Letters'
    BY <1>0, <2>1 DEF Letters
  <2>3. /\ at = "new" /\ Fail /\ UNCHANGED <<req, container>> /\ attempts' \in Nat /\ posted' \in Nat
        /\ blurred' \in Nat /\ lost' \in BOOLEAN /\ posted' <= 1 + blurred' /\ (posted' > 0 => lost' = TRUE)
        /\ NothingUnreadyIsPublished'
    BY <1>2, <2>1 DEF PublishInv, RunIsOnPlan, PostsAreBlurred, ReportsAreTrue, NothingUnreadyIsPublished, dispatch
  <2> QED
    BY <2>2, <2>3, FailStep
<1> QED
  BY <1>1, <1>2 DEF dispatch

LEMMA WaitStep == ASSUME PublishInv, waitForContainer PROVE PublishInv'
<1>1. CASE Fail
  <2>1. Letters'
    BY <1>1 DEF PublishInv, Letters, waitForContainer, Fail, Current
  <2>2. /\ at = "new" /\ Fail /\ UNCHANGED <<req, container>> /\ attempts' \in Nat /\ posted' \in Nat
        /\ blurred' \in Nat /\ lost' \in BOOLEAN /\ posted' <= 1 + blurred' /\ (posted' > 0 => lost' = TRUE)
        /\ NothingUnreadyIsPublished'
    BY <1>1 DEF PublishInv, RunIsOnPlan, PostsAreBlurred, ReportsAreTrue, NothingUnreadyIsPublished, waitForContainer
  <2> QED
    BY <2>1, <2>2, FailStep
<1>2. CASE container \in Ready /\ Advance
  BY <1>2, GoesOnStep DEF waitForContainer
<1>3. CASE UNCHANGED <<step, at>>
  <2>1. Current' = Current
    BY <1>3 DEF waitForContainer, Current
  <2> QED
    BY <1>3, <2>1 DEF waitForContainer, PublishInv, RunIsOnPlan, PostsAreBlurred, Letters, ReportsAreTrue,
                      NothingUnreadyIsPublished
<1> QED
  BY <1>1, <1>2, <1>3 DEF waitForContainer

LEMMA ProcessesStep == ASSUME PublishInv, processes PROVE PublishInv'
<1>1. Current' = Current /\ container \notin Ready
  BY DEF processes, Current, Ready
<1> QED
  BY <1>1 DEF processes, PublishInv, RunIsOnPlan, PostsAreBlurred, Letters, ReportsAreTrue, NothingUnreadyIsPublished

LEMMA RetriesStep == ASSUME PublishInv, outboxRetries PROVE PublishInv'
<1>1. /\ IsPlan(Steps(req), req) /\ Len(Steps(req)) \in Nat \ {0} /\ Platform(req) # "meta"
      /\ step' = 1 /\ req' = req /\ Current' = Steps(req)[1]
  BY PlanOf DEF PublishInv, outboxRetries, adapters, Current
<1>2. Current' # "publish"
  BY <1>1 DEF IsPlan
<1>3. RunIsOnPlan'
  <2>1. step' \in 1 .. Len(Steps(req')) /\ at' = "new"
    <3>1. step' = 1 /\ at' = "new" /\ Len(Steps(req')) = Len(Steps(req))
      BY <1>1 DEF outboxRetries
    <3>2. PICK n \in Nat \ {0} : n = Len(Steps(req))
      BY <1>1
    <3>3. 1 \in 1 .. n
      OBVIOUS
    <3> QED
      BY <3>1, <3>2, <3>3
  <2>3. lost' \in BOOLEAN
    BY DEF outboxRetries
  <2>2. req' \in Requests /\ attempts' \in Nat /\ posted' \in Nat /\ blurred' \in Nat
    BY DEF outboxRetries, PublishInv, RunIsOnPlan
  <2> QED
    BY <1>2, <2>1, <2>2, <2>3 DEF RunIsOnPlan
<1> QED
  BY <1>3 DEF outboxRetries, PublishInv, PostsAreBlurred, Letters, ReportsAreTrue, NothingUnreadyIsPublished


\* What an attempt does, whatever its answer.
LEMMA AttemptEffect ==
  ASSUME PublishInv, NEW said \in Answers, NEW applied \in BOOLEAN, attempt(said, applied)
  PROVE /\ at = "calling" /\ Current \in {"create", "publish", "post"} /\ dlq = <<>>
        /\ attempts' = attempts + 1 /\ attempts' <= MaxAttempts /\ attempts' \in Nat \ {0}
        /\ posted' \in {posted, posted + 1} /\ blurred' \in {blurred, blurred + 1}
        /\ UNCHANGED <<req, round>> /\ Current # "wait"
        /\ (posted' = posted + 1 => applied = TRUE /\ Current # "create")
        /\ (applied = TRUE /\ Current # "create" => posted' = posted + 1)
        /\ (applied = TRUE => said \in MayApply) /\ (applied = FALSE => said \in MayNotApply)
        /\ (blurred' = IF applied = TRUE /\ said = "server" THEN blurred + 1 ELSE blurred)
        /\ (Current = "publish" /\ container \in Ready => container' \in Ready)
        /\ (Current = "publish" => container' \in {container, "PUBLISHED"})
<1>1. RunIsOnPlan /\ at = "calling" /\ MaxAttempts \in Nat
  BY PublishingAssumption DEF PublishInv, attempt
<1>2. /\ Current \in {"create", "publish", "post"} /\ dlq = <<>> /\ attempts \in Nat /\ attempts < MaxAttempts
      /\ posted \in Nat /\ blurred \in Nat
  BY <1>1 DEF PublishInv, RunIsOnPlan, Letters
<1>3. attempts' = attempts + 1 /\ UNCHANGED <<req, round>>
  BY DEF attempt
<1>4. blurred' = IF applied = TRUE /\ said = "server" THEN blurred + 1 ELSE blurred
  BY DEF attempt
<1>5. CASE applied = TRUE
  <2>1. /\ said \in MayApply
        /\ IF Current = "create" /\ said = "noId" THEN container' = "unknown" /\ UNCHANGED posted ELSE Applies
    BY <1>5 DEF attempt
  <2>2. CASE Current = "create"
    <3>1. UNCHANGED posted
      BY <2>1, <2>2 DEF Applies
    <3> QED
      BY <1>1, <1>2, <1>3, <1>4, <1>5, <2>1, <2>2, <3>1
  <2>3. CASE Current = "publish"
    <3>1. container' = "PUBLISHED" /\ posted' = posted + 1
      BY <2>1, <2>3 DEF Applies
    <3> QED
      BY <1>1, <1>2, <1>3, <1>4, <1>5, <2>1, <2>3, <3>1 DEF Ready
  <2>4. CASE Current = "post"
    <3>1. posted' = posted + 1 /\ UNCHANGED container
      BY <2>1, <2>4 DEF Applies
    <3> QED
      BY <1>1, <1>2, <1>3, <1>4, <1>5, <2>1, <2>4, <3>1
  <2> QED
    BY <1>2, <2>2, <2>3, <2>4
<1>6. CASE applied = FALSE
  <2>1. said \in MayNotApply /\ UNCHANGED <<container, posted>>
    BY <1>6 DEF attempt
  <2> QED
    BY <1>1, <1>2, <1>3, <1>4, <1>6, <2>1
<1> QED
  BY <1>5, <1>6

LEMMA OkIsId == ASSUME NEW p \in Platforms PROVE Outcome(p, "ok") = "id"
<1>1. "ok" \in Answers
  BY DEF Answers, Success
<1>2. CASE p = "meta"
  BY <1>1, <1>2 DEF Outcome, Dispatcher, metaDispatcher, metaRequest
<1>3. CASE p = "tiktok"
  BY <1>1, <1>3 DEF Outcome, Dispatcher, tiktokDispatcher, tiktokRequest
<1>4. CASE p = "pinterest"
  BY <1>1, <1>4 DEF Outcome, Dispatcher, pinterestDispatcher, pinterestRequest
<1>5. CASE p = "twitter"
  BY <1>1, <1>5 DEF Outcome, Dispatcher, twitterDispatcher, twitterRequest
<1>6. CASE p = "linkedin"
  BY <1>1, <1>6 DEF Outcome, Dispatcher, linkedinDispatcher, linkedinRequest
<1> QED
  BY <1>2, <1>3, <1>4, <1>5, <1>6 DEF Platforms

LEMMA AttemptStep ==
  ASSUME PublishInv, NEW said \in Answers, NEW applied \in BOOLEAN, attempt(said, applied) PROVE PublishInv'
<1>1. PICK outcome : outcome = Outcome(Platform(req), said)
  OBVIOUS
<1>2. /\ Platform(req) \in Platforms /\ (Current = "publish" => Platform(req) = "meta")
      /\ (Current \in {"publish", "post"} => ~More)
  BY PlanOf DEF PublishInv
<1>3. /\ outcome \in {"id", "noId", "transient", "permanent"}
      /\ outcome = "id" => said = "ok"
      /\ Platform(req) = "meta" /\ outcome = "noId" => said \in Success
      /\ outcome = "transient" => said \in {"okBusy", "tooMany", "server"}
  BY <1>1, <1>2, Outcomes_
<1>4. /\ at = "calling" /\ Current \in {"create", "publish", "post"} /\ dlq = <<>>
      /\ attempts' = attempts + 1 /\ attempts' <= MaxAttempts /\ attempts' \in Nat \ {0}
      /\ posted' \in {posted, posted + 1} /\ blurred' \in {blurred, blurred + 1}
      /\ req' = req /\ Current # "wait"
      /\ (posted' = posted + 1 => applied = TRUE /\ Current # "create")
      /\ (applied = TRUE /\ Current # "create" => posted' = posted + 1)
      /\ (applied = TRUE => said \in MayApply) /\ (applied = FALSE => said \in MayNotApply)
      /\ (blurred' = IF applied = TRUE /\ said = "server" THEN blurred + 1 ELSE blurred)
      /\ (Current = "publish" /\ container \in Ready => container' \in Ready)
      /\ (Current = "publish" => container' \in {container, "PUBLISHED"})
  BY AttemptEffect
<1>5. /\ RunIsOnPlan /\ posted \in Nat /\ blurred \in Nat /\ posted <= blurred /\ (posted > 0 => lost = TRUE)
      /\ lost \in BOOLEAN /\ req \in Requests
  BY <1>4 DEF PublishInv, RunIsOnPlan, PostsAreBlurred
<1>6. posted' \in Nat /\ blurred' \in Nat /\ posted' <= 1 + blurred'
  BY <1>4, <1>5
<1>7. lost' \in BOOLEAN /\ (lost = TRUE => lost' = TRUE) /\ (applied = TRUE /\ Current # "create" /\ said # "ok" => lost' = TRUE)
  BY <1>5 DEF attempt
<1>8. posted' > 0 /\ said # "ok" => lost' = TRUE
  BY <1>4, <1>5, <1>7
<1>9. NothingUnreadyIsPublished'
  <2>1. asked' = IF Current = "publish" THEN asked \cup {container} ELSE asked
    BY DEF attempt
  <2>2. Current = "publish" /\ NeedsWait(req) => container \in Ready
    BY <1>5 DEF RunIsOnPlan
  <2>3. NeedsWait(req) => asked \subseteq Ready
    BY DEF PublishInv, NothingUnreadyIsPublished, NeedsWait
  <2>4. NeedsWait(req) => asked' \subseteq Ready
    BY <2>1, <2>2, <2>3
  <2> QED
    BY <1>4, <2>4 DEF NothingUnreadyIsPublished, NeedsWait
<1>10. CASE outcome \in {"id", "noId"}
  <2>1. accept(outcome) /\ UNCHANGED dlq
    BY <1>1, <1>10 DEF attempt
  <2>2. CASE Current = "post" /\ outcome = "noId" /\ requiresId(Platform(req))
    <3>1. Fail
      BY <2>1, <2>2 DEF accept
    <3>2. at' = "failed" /\ Current' = Current /\ dlq' = <<>>
      BY <1>4, <2>1, <3>1 DEF Fail, Current
    <3>3. said # "ok"
      <4>1. Outcome(Platform(req), "ok") = "id"
        BY <1>2, OkIsId
      <4> QED
        BY <1>1, <2>2, <4>1
    <3>4. Letters'
      BY <1>4, <2>2, <3>2 DEF Letters
    <3>5. RunIsOnPlan'
      <4>1. step' = step
        BY <3>1 DEF Fail
      <4>2. Current' = Current /\ Current # "publish"
        BY <3>2, <2>2
      <4> QED
        BY <1>4, <1>5, <1>6, <1>7, <3>2, <4>1, <4>2 DEF RunIsOnPlan
    <3>6. PostsAreBlurred' /\ ReportsAreTrue'
      BY <1>6, <1>8, <3>2, <3>3 DEF PostsAreBlurred, ReportsAreTrue
    <3> QED
      BY <1>9, <3>4, <3>5, <3>6 DEF PublishInv
  <2>3. CASE ~(Current = "post" /\ outcome = "noId" /\ requiresId(Platform(req)))
    <3>1. Advance
      BY <2>1, <2>3 DEF accept
    <3>2. /\ step' \in 1 .. Len(Steps(req')) /\ at' \in {"new", "done"}
          /\ at' = "done" <=> Current \in {"publish", "post"}
          /\ Current' = "publish" /\ NeedsWait(req') => container' \in Ready
      BY <1>4, <1>5, <3>1, AdvanceToNext
    <3>3. RunIsOnPlan'
      BY <1>4, <1>5, <1>6, <1>7, <3>2 DEF RunIsOnPlan
    <3>4. Letters'
      BY <1>4, <2>1, <3>2 DEF Letters
    <3>5. CASE Current = "create"
      <4>1. at' = "new" /\ posted' = posted /\ blurred' >= blurred
        BY <1>4, <1>5, <3>2, <3>5
      <4>2. posted' <= blurred'
        BY <1>5, <1>6, <4>1
      <4>3. posted' > 0 => lost' = TRUE
        BY <1>5, <1>7, <4>1
      <4>4. PostsAreBlurred' /\ ReportsAreTrue'
        BY <1>6, <4>1, <4>2, <4>3 DEF PostsAreBlurred, ReportsAreTrue
      <4> QED
        BY <1>9, <3>3, <3>4, <4>4 DEF PublishInv
    <3>6. CASE Current \in {"publish", "post"}
      <4>1. said \in Success
        BY <1>2, <1>3, <1>10, <2>3, <3>6 DEF requiresId, Success
      <4>2. applied = TRUE
        BY <1>4, <4>1 DEF MayNotApply
      <4>3. posted' > 0 /\ at' = "done"
        BY <1>4, <1>5, <3>2, <3>6, <4>2
      <4> QED
        BY <1>6, <1>9, <3>3, <3>4, <4>3 DEF PublishInv, PostsAreBlurred, ReportsAreTrue
    <3> QED
      BY <1>4, <3>5, <3>6
  <2> QED
    BY <2>2, <2>3
<1>11. CASE outcome \in {"transient", "permanent"}
  <2>1. retry(outcome)
    BY <1>1, <1>11 DEF attempt
  <2>2. said # "ok"
    <3>1. Outcome(Platform(req), "ok") = "id"
      BY <1>2, OkIsId
    <3> QED
      BY <1>1, <1>11, <3>1
  <2>3. CASE outcome = "transient" /\ attempts + 1 < MaxAttempts
    <3>1. UNCHANGED <<step, at, dlq>> /\ Current' = Current
      BY <1>4, <2>1, <2>3 DEF retry, Current
    <3>2. RunIsOnPlan'
      <4>1. Current' = "publish" /\ NeedsWait(req') => container' \in Ready
        BY <1>4, <1>5, <3>1 DEF RunIsOnPlan
      <4>2. at' = "calling" => attempts' < MaxAttempts /\ Current' \in {"create", "publish", "post"}
        BY <1>4, <2>3, <3>1
      <4> QED
        BY <1>4, <1>5, <1>6, <1>7, <3>1, <4>1, <4>2 DEF RunIsOnPlan
    <3>3. Letters'
      BY <1>4, <3>1 DEF Letters
    <3>4. posted' <= blurred'
      <4>1. applied = TRUE => said = "server"
        BY <1>3, <1>4, <2>3 DEF MayApply, Success
      <4> QED
        BY <1>4, <1>5, <4>1
    <3>5. PostsAreBlurred' /\ ReportsAreTrue'
      BY <1>4, <1>6, <1>8, <2>2, <3>1, <3>4 DEF PostsAreBlurred, ReportsAreTrue
    <3> QED
      BY <1>9, <3>2, <3>3, <3>5 DEF PublishInv
  <2>4. CASE ~(outcome = "transient" /\ attempts + 1 < MaxAttempts)
    <3>1. Fail /\ land(attempts')
      BY <2>1, <2>4 DEF retry
    <3>2. at' = "failed" /\ step' = step /\ Current' = Current /\ dlq' = Append(<<>>, attempts')
      BY <1>4, <3>1 DEF Fail, land, Current
    <3>3. dlq' = <<attempts'>>
      BY <3>2
    <3>4. RunIsOnPlan'
      <4>1. Current' = "publish" /\ NeedsWait(req') => container' \in Ready
        BY <1>4, <1>5, <3>2 DEF RunIsOnPlan
      <4> QED
        BY <1>4, <1>5, <1>6, <1>7, <3>2, <4>1 DEF RunIsOnPlan
    <3>5. Letters'
      BY <1>4, <3>2, <3>3 DEF Letters
    <3>6. PostsAreBlurred' /\ ReportsAreTrue'
      BY <1>6, <1>8, <2>2, <3>2 DEF PostsAreBlurred, ReportsAreTrue
    <3> QED
      BY <1>9, <3>4, <3>5, <3>6 DEF PublishInv
  <2> QED
    BY <2>3, <2>4
<1> QED
  BY <1>3, <1>10, <1>11

\* For any attempts, polls, carousels and rounds, and whatever the platform applies and
\* answers: reports are true but for named answers, a failed dispatch leaves one dead
\* letter, and no container is published that may not be ready.
THEOREM PublishesAreAlwaysAccounted == PublishSpec => []PublishesAreAccounted
<1>1. PublishInv /\ [PublishNext]_publishVars => PublishInv'
  <2> SUFFICES ASSUME PublishInv, [PublishNext]_publishVars PROVE PublishInv'
    OBVIOUS
  <2>1. CASE UNCHANGED publishVars
    BY <2>1 DEF publishVars, PublishInv, RunIsOnPlan, PostsAreBlurred, Letters, ReportsAreTrue,
                NothingUnreadyIsPublished, Current
  <2> QED
    BY <2>1, ThrowsStep, TokenStep, DispatchStep, WaitStep, ProcessesStep, RetriesStep, AttemptStep DEF PublishNext
<1>2. PublishInv => PublishesAreAccounted
  <2> SUFFICES ASSUME PublishInv PROVE FailuresLand
    BY DEF PublishInv, PublishesAreAccounted
  <2>1. CASE dlq = <<>>
    BY <2>1 DEF PublishInv, Letters, FailuresLand
  <2>2. CASE dlq = <<attempts>> /\ attempts <= MaxAttempts /\ at = "failed"
    <3>1. Len(dlq) = 1 /\ DOMAIN dlq = {1} /\ dlq[1] = attempts /\ dlq # <<>>
      BY <2>2
    <3> QED
      BY <2>2, <3>1 DEF FailuresLand
  <2> QED
    BY <2>1, <2>2 DEF PublishInv, Letters
<1> QED
  BY <1>1, <1>2, PublishStart, PTL DEF PublishSpec

-----------------------------------------------------------------------------
\* The pages

\* The views, page by page.
OpsOf(p) == CASE p = "outbox"     -> outboxOperations
              [] p = "calendar"   -> calendarOperations \cup outboxOperations
              [] p = "inbox"      -> inboxOperations("a") \cup inboxOperations("b")
              [] p = "contacts"   -> crmOperations
              [] p = "auto-reply" -> autoReplyOperations
              [] p = "analytics"  -> analyticsOperations
              [] p = "quota"      -> quotaOperations

ReadsOf(p, thread) == CASE p = "outbox"     -> outboxReads
                        [] p = "calendar"   -> {<<"outbox", "list">>}
                        [] p = "inbox"      -> {<<"inbox", "threads">>} \cup (IF thread = "none" THEN {} ELSE {<<"inbox", "thread", thread>>})
                        [] p = "contacts"   -> crmReads
                        [] p = "auto-reply" -> autoReplyReads
                        [] p = "analytics"  -> analyticsReads
                        [] p = "quota"      -> quotaReads

Rulebook == <<"auto-reply", "rulebook">>
Picks == {"none", "a", "b"}

LEMMA ViewsByPage ==
  ASSUME page \in Pages
  PROVE Shown.operations = OpsOf(page) /\ Shown.reads = ReadsOf(page, picked)
<1>1. CASE page = "outbox"
  BY <1>1 DEF Shown, OutboxView, View, OpsOf, ReadsOf
<1>2. CASE page = "calendar"
  BY <1>2 DEF Shown, CalendarView, View, OpsOf, ReadsOf
<1>3. CASE page = "inbox"
  BY <1>3 DEF Shown, InboxView, View, OpsOf, ReadsOf
<1>4. CASE page = "contacts"
  BY <1>4 DEF Shown, ContactsView, View, OpsOf, ReadsOf
<1>5. CASE page = "auto-reply"
  BY <1>5 DEF Shown, AutoReplyView, View, OpsOf, ReadsOf
<1>6. CASE page = "analytics"
  BY <1>6 DEF Shown, AnalyticsView, View, OpsOf, ReadsOf
<1>7. CASE page = "quota"
  BY <1>7 DEF Shown, TwitterQuotaPanel, View, OpsOf, ReadsOf
<1> QED
  BY <1>1, <1>2, <1>3, <1>4, <1>5, <1>6, <1>7 DEF Pages

LEMMA PrefixIf ==
  ASSUME NEW S, NEW s \in Seq(S), NEW t \in Seq(S), Len(s) <= Len(t), \A i \in 1 .. Len(s) : s[i] = t[i]
  PROVE IsPrefix(s, t)
<1>1. PICK n \in Nat : n = Len(s)
  OBVIOUS
<1>2. /\ SubSeq(s, 1, n) \in Seq(S) /\ SubSeq(t, 1, n) \in Seq(S)
      /\ Len(SubSeq(s, 1, n)) = n /\ Len(SubSeq(t, 1, n)) = n
      /\ \A i \in 1 .. n : SubSeq(s, 1, n)[i] = SubSeq(t, 1, n)[i]
  BY <1>1
<1>3. SubSeq(s, 1, n) = SubSeq(t, 1, n)
  BY <1>1, <1>2, SeqEqual
<1> QED
  BY <1>1, <1>3 DEF IsPrefix

LEMMA Heads == ASSUME NEW a, NEW b PROVE IsPrefix(<<a>>, <<a, b>>)
<1>1. PICK s, t : s = <<a>> /\ t = <<a, b>>
  OBVIOUS
<1>2. s \in Seq({a, b}) /\ t \in Seq({a, b}) /\ Len(s) = 1 /\ Len(t) = 2 /\ s[1] = t[1]
  BY <1>1
<1>3. IsPrefix(s, t)
  BY <1>2, PrefixIf
<1> QED
  BY <1>1, <1>3

LEMMA Itself == ASSUME NEW a, NEW b PROVE IsPrefix(<<a, b>>, <<a, b>>)
  BY DEF IsPrefix

LEMMA ItselfThree == ASSUME NEW a, NEW b, NEW c PROVE IsPrefix(<<a, b, c>>, <<a, b, c>>)
  BY DEF IsPrefix

LEMMA ReadsAreQueries ==
  ASSUME page \in Pages, picked \in Picks
  PROVE Shown.reads \subseteq Queries
<1>1. CASE page \in {"outbox", "calendar"}
  BY <1>1, ViewsByPage DEF ReadsOf, Queries, Pages, outboxReads
<1>2. CASE page = "inbox"
  BY <1>2, ViewsByPage DEF ReadsOf, Queries, Pages, Picks, inboxReads
<1>3. CASE page \in {"contacts", "auto-reply", "analytics", "quota"}
  BY <1>3, ViewsByPage DEF ReadsOf, Queries, Pages
<1> QED
  BY <1>1, <1>2, <1>3 DEF Pages

\* What an operation changes of what is on screen, its event invalidates.
LEMMA EventsAreHeard ==
  ASSUME page \in Pages \ {"inbox", "quota"}, picked \in Picks, NEW o \in OpsOf(page), o.event # "none"
  PROVE o.changes \cap Shown.reads \subseteq Under(Shown.hears[o.event])
<1>1. Shown.reads \subseteq Queries
  BY ReadsAreQueries
<1>2. CASE page = "outbox"
  <2>1. o.event \in OUTBOX_EVENTS /\ Shown.hears[o.event] = useOutbox(o.event) \cup useOutboxDlq(o.event)
    BY <1>2 DEF Shown, OutboxView, View, OpsOf, outboxOperations, OUTBOX_EVENTS, Operation
  <2>2. <<"outbox">> \in Shown.hears[o.event]
    BY <2>1 DEF useOutbox
  <2>3. \A q \in Shown.reads : IsPrefix(<<"outbox">>, q)
    BY <1>2, ViewsByPage, Heads DEF ReadsOf, outboxReads
  <2> QED
    BY <1>1, <2>2, <2>3 DEF Under
<1>3. CASE page = "calendar"
  <2>1. o.event \in OUTBOX_EVENTS /\ Shown.hears[o.event] = useOutbox(o.event)
    BY <1>3 DEF Shown, CalendarView, View, OpsOf, outboxOperations, calendarOperations, OUTBOX_EVENTS, Operation
  <2>2. <<"outbox">> \in Shown.hears[o.event]
    BY <2>1 DEF useOutbox
  <2>3. \A q \in Shown.reads : IsPrefix(<<"outbox">>, q)
    BY <1>3, ViewsByPage, Heads DEF ReadsOf
  <2> QED
    BY <1>1, <2>2, <2>3 DEF Under
<1>4. CASE page = "contacts"
  <2>1. o.event = "crm:merge" /\ Shown.hears[o.event] = useContacts(o.event)
    BY <1>4 DEF Shown, ContactsView, View, OpsOf, crmOperations, Operation
  <2>2. <<"crm">> \in Shown.hears[o.event]
    BY <2>1 DEF useContacts
  <2>3. \A q \in Shown.reads : IsPrefix(<<"crm">>, q)
    BY <1>4, ViewsByPage, Heads DEF ReadsOf, crmReads
  <2> QED
    BY <1>1, <2>2, <2>3 DEF Under
<1>5. CASE page = "auto-reply"
  <2>1. /\ o.event \in {"autoReply:sent", "autoReply:queued", "autoReply:rejected"}
        /\ Shown.hears[o.event] = useAuditLog(o.event) /\ o.changes = {<<"auto-reply", "audit">>}
    BY <1>5 DEF Shown, AutoReplyView, View, OpsOf, autoReplyOperations, useSaveRulebook, Operation
  <2>2. <<"auto-reply", "audit">> \in Shown.hears[o.event]
    BY <2>1 DEF useAuditLog
  <2> QED
    BY <1>1, <2>1, <2>2, Itself DEF Under
<1>6. CASE page = "analytics"
  <2>1. o.event = "analytics:updated" /\ Shown.hears[o.event] = useAnalyticsLiveRefresh(o.event)
    BY <1>6 DEF Shown, AnalyticsView, View, OpsOf, analyticsOperations, Operation
  <2>2. <<"analytics">> \in Shown.hears[o.event]
    BY <2>1 DEF useAnalyticsLiveRefresh
  <2>3. \A q \in Shown.reads : IsPrefix(<<"analytics">>, q)
    BY <1>6, ViewsByPage, Heads DEF ReadsOf, analyticsReads
  <2> QED
    BY <1>1, <2>2, <2>3 DEF Under
<1> QED
  BY <1>2, <1>3, <1>4, <1>5, <1>6 DEF Pages

\* What a request of the page's own changes, its answer invalidates, unless it is a save.
LEMMA AnswersInvalidate ==
  ASSUME page \in Pages \ {"inbox"}, NEW o \in OpsOf(page), o.after # {}
  PROVE o.changes \cap Queries \subseteq Under(o.after)
<1>1. CASE page \in {"outbox", "calendar"}
  <2>1. <<"outbox">> \in o.after
    BY <1>1 DEF OpsOf, outboxOperations, calendarOperations, useInvalidateOutbox, Operation
  <2>2. \A q \in Queries : IsPrefix(<<"outbox">>, q)
    BY <1>1, Heads DEF Queries, outboxReads
  <2> QED
    BY <2>1, <2>2 DEF Under
<1>2. CASE page = "contacts"
  <2>1. <<"crm">> \in o.after
    BY <1>2 DEF OpsOf, crmOperations, Operation
  <2>2. \A q \in Queries : IsPrefix(<<"crm">>, q)
    BY <1>2, Heads DEF Queries, crmReads
  <2> QED
    BY <2>1, <2>2 DEF Under
<1>3. CASE page = "auto-reply"
  <2>1. <<"auto-reply", "audit">> \in o.after /\ o.changes = {<<"auto-reply", "audit">>}
    BY <1>3 DEF OpsOf, autoReplyOperations, useSaveRulebook, useResolveAudit, Operation
  <2> QED
    BY <2>1, Itself DEF Under
<1>4. CASE page \in {"analytics", "quota"}
  BY <1>4 DEF OpsOf, analyticsOperations, quotaOperations, Operation
<1> QED
  BY <1>1, <1>2, <1>3, <1>4 DEF Pages

\* The thread a reply goes to, and the list.
LEMMA InboxChanges ==
  ASSUME page = "inbox", NEW t \in {"a", "b"}, NEW o \in inboxOperations(t)
  PROVE o.changes \subseteq {<<"inbox", "threads">>, <<"inbox", "thread", t>>}
        /\ \A k \in Picks : {<<"inbox", "threads">>, <<"inbox", "thread", k>>} \cap Queries
                              \subseteq Under({<<"inbox", "thread", k>>, <<"inbox", "threads">>})
<1>1. o.changes \subseteq {<<"inbox", "threads">>, <<"inbox", "thread", t>>}
  BY DEF inboxOperations, Operation
<1> QED
  BY <1>1, Itself, ItselfThree DEF Under


\* A save is of the auto-reply page, is not announced, and no announced change touches what
\* it changes.
LEMMA SavesAreSilent ==
  ASSUME page \in Pages, NEW o \in OpsOf(page)
  PROVE /\ o = useSaveRulebook => page = "auto-reply"
        /\ page = "auto-reply" /\ o.event # "none" => Rulebook \notin o.changes
        /\ page = "quota" => o.after = {}
<1>0. Rulebook \in useSaveRulebook.changes /\ Rulebook[1] = "auto-reply"
  BY DEF useSaveRulebook, Rulebook, Operation
<1>1. CASE page \in {"outbox", "calendar"}
  <2>1. \A q \in o.changes : q[1] = "outbox"
    BY <1>1 DEF OpsOf, outboxOperations, calendarOperations, Operation, outboxReads
  <2> QED
    BY <1>0, <1>1, <2>1
<1>2. CASE page = "inbox"
  <2>1. \A q \in o.changes : q[1] = "inbox"
    BY <1>2 DEF OpsOf, inboxOperations, Operation
  <2> QED
    BY <1>0, <1>2, <2>1
<1>3. CASE page = "contacts"
  <2>1. \A q \in o.changes : q[1] = "crm"
    BY <1>3 DEF OpsOf, crmOperations, crmReads, Operation
  <2> QED
    BY <1>0, <1>3, <2>1
<1>4. CASE page = "auto-reply"
  BY <1>4 DEF OpsOf, autoReplyOperations, useSaveRulebook, Rulebook, Operation
<1>5. CASE page = "analytics"
  <2>1. \A q \in o.changes : q[1] = "analytics"
    BY <1>5 DEF OpsOf, analyticsOperations, analyticsReads, Operation
  <2> QED
    BY <1>0, <1>5, <2>1
<1>6. CASE page = "quota"
  <2>1. o.after = {} /\ \A q \in o.changes : q[1] = "twitter"
    BY <1>6 DEF OpsOf, quotaOperations, quotaReads, Operation
  <2> QED
    BY <1>0, <1>6, <2>1
<1> QED
  BY <1>1, <1>2, <1>3, <1>4, <1>5, <1>6 DEF Pages

-----------------------------------------------------------------------------
(* The invariant.                                                           *)

OnScreen == IF opened THEN ReadsOf(page, picked) ELSE {}

Version == [Queries -> Nat]

LiveTyped ==
  /\ page \in Pages /\ opened \in BOOLEAN /\ picked \in Picks
  /\ serverAt \in Version /\ told \in [Queries -> Int] /\ shown \in [Queries -> Int]
  /\ reading \in [Queries -> [at : {"idle", "asked", "answered"}, version : Nat]]
  /\ wire \in Seq([op : OpsOf(page), version : Version])
  /\ ask \in [at : {"none", "sent", "done"}, op : OpsOf(page) \cup {useSaveRulebook}, thread : Picks, version : Version]

\* What an event carries has happened, and the events of one table come in its order.
WireTells ==
  \A i \in 1 .. Len(wire) :
    /\ wire[i].op.event # "none"
    /\ \A q \in Queries : /\ wire[i].version[q] <= serverAt[q]
                          /\ page = "quota" => told[q] <= wire[i].version[q]
                          /\ \A j \in i .. Len(wire) : wire[i].version[q] <= wire[j].version[q]

\* The window's own request is one of its page, and its answer is what the server has done.
AskTells ==
  ask.at # "none" =>
    /\ ask.op \in OpsOf(page)
    /\ ask.op = useSaveRulebook \/ ask.op.after # {}
    /\ page = "inbox" => ask.thread \in {"a", "b"} /\ ask.op \in inboxOperations(ask.thread)
    /\ ask.at = "done" =>
         \A q \in Queries : /\ ask.version[q] <= serverAt[q]
                            /\ ask.op = useSaveRulebook /\ q \in ask.op.changes => told[q] <= ask.version[q]

\* What is on screen is new enough, known to be wrong, or to be read again; a read that
\* was answered before something newer was told has been given up.
Fresh(q) == \/ shown[q] >= told[q]
            \/ q \in errored
            \/ q \in invalid /\ (Busy(q) \/ q \notin OnScreen)

ViewsAreFresh ==
  \A q \in Queries : /\ told[q] <= serverAt[q]
                     /\ Fresh(q)
                     /\ reading[q].at = "answered" => reading[q].version >= told[q]
                     /\ Busy(q) => q \in OnScreen

LiveInv == LiveTyped /\ WireTells /\ AskTells /\ ViewsAreFresh

LEMMA ObservedIsOnScreen == ASSUME page \in Pages PROVE Observed = OnScreen
  BY ViewsByPage DEF Observed, OnScreen

LEMMA LiveStart == LiveInit => LiveInv
<1> SUFFICES ASSUME LiveInit PROVE LiveInv
  OBVIOUS
<1>1. /\ page \in Pages /\ opened = TRUE /\ picked = "none" /\ wire = <<>> /\ ask = NoRequest
      /\ serverAt = [q \in Queries |-> 0] /\ told = [q \in Queries |-> -1] /\ shown = [q \in Queries |-> -1]
      /\ reading = [q \in Queries |-> IF q \in OnScreen THEN Asked ELSE Idle]
  BY ViewsByPage DEF LiveInit, Providers, OnScreen
<1>2. LiveTyped
  BY <1>1 DEF LiveTyped, Version, NoRequest, Picks, Asked, Idle
<1>3. WireTells /\ AskTells
  BY <1>1 DEF WireTells, AskTells, NoRequest
<1>4. ViewsAreFresh
  BY <1>1 DEF ViewsAreFresh, Fresh, Busy, Asked, Idle
<1> QED
  BY <1>2, <1>3, <1>4 DEF LiveInv

\* What the server does is newer than all that was told before it.
LEMMA Executes ==
  ASSUME LiveInv, NEW o \in OpsOf(page), Executed(o), UNCHANGED <<page, told>>
  PROVE /\ Queries' = Queries
        /\ serverAt' \in Version /\ \A q \in Queries : serverAt'[q] >= serverAt[q]
        /\ wire' \in Seq([op : OpsOf(page), version : Version])
        /\ WireTells'
<1>1. Queries' = Queries
  BY DEF Queries
<1>2. serverAt' \in Version /\ \A q \in Queries : serverAt'[q] >= serverAt[q]
  BY DEF Executed, LiveInv, LiveTyped, Version
<1>3. CASE wire' = wire
  <2>1. wire \in Seq([op : OpsOf(page), version : Version])
    BY DEF LiveInv, LiveTyped
  <2>2. ASSUME NEW i \in 1 .. Len(wire), NEW q \in Queries PROVE wire[i].version[q] <= serverAt'[q]
    <3>1. wire[i].version \in Version
      <4>1. wire[i] \in [op : OpsOf(page), version : Version]
        BY <2>1, ElementOfSeq
      <4> QED
        BY <4>1
    <3>2. wire[i].version[q] \in Nat /\ serverAt[q] \in Nat /\ serverAt'[q] \in Nat /\ serverAt'[q] >= serverAt[q]
      BY <1>2, <3>1 DEF Version, LiveInv, LiveTyped
    <3>3. wire[i].version[q] <= serverAt[q]
      BY DEF LiveInv, WireTells
    <3> QED
      BY <3>2, <3>3
  <2> QED
    BY <1>1, <1>2, <1>3, <2>1, <2>2 DEF LiveInv, WireTells
<1>4. CASE o.event # "none" /\ wire' = Append(wire, [op |-> o, version |-> serverAt'])
  <2>1. PICK n \in Nat : n = Len(wire)
    BY DEF LiveInv, LiveTyped
  <2>2. [op |-> o, version |-> serverAt'] \in [op : OpsOf(page), version : Version]
    BY <1>2
  <2>3. /\ wire' \in Seq([op : OpsOf(page), version : Version]) /\ Len(wire') = n + 1
        /\ \A i \in 1 .. n : wire'[i] = wire[i]
        /\ wire'[n + 1] = [op |-> o, version |-> serverAt']
    BY <1>4, <2>1, <2>2 DEF LiveInv, LiveTyped
  <2>4. \A i \in 1 .. n : wire[i].version \in Version
    <3>1. wire \in Seq([op : OpsOf(page), version : Version])
      BY DEF LiveInv, LiveTyped
    <3>2. \A i \in 1 .. n : wire[i] \in [op : OpsOf(page), version : Version]
      BY <2>1, <3>1, ElementOfSeq
    <3> QED
      BY <3>2
  <2>5. ASSUME NEW i \in 1 .. n + 1, NEW q \in Queries
        PROVE /\ wire'[i].version[q] <= serverAt'[q]
              /\ page = "quota" => told[q] <= wire'[i].version[q]
              /\ \A j \in i .. n + 1 : wire'[i].version[q] <= wire'[j].version[q]
    <3>1. CASE i = n + 1
      <4>1. wire'[i].version = serverAt' /\ wire'[i].op = o
        BY <2>3, <3>1
      <4>2. serverAt'[q] \in Nat /\ serverAt[q] \in Nat /\ told[q] \in Int /\ told[q] <= serverAt[q]
        BY <1>2 DEF Version, LiveInv, LiveTyped, ViewsAreFresh
      <4>3. \A j \in i .. n + 1 : j = i
        BY <3>1
      <4>4. wire'[i].version[q] = serverAt'[q] /\ told[q] <= serverAt'[q]
        <5>1. told[q] <= serverAt'[q]
          BY <1>2, <4>2
        <5> QED
          BY <4>1, <5>1
      <4> QED
        BY <4>2, <4>3, <4>4
    <3>2. CASE i \in 1 .. n
      <4>1. wire'[i] = wire[i] /\ wire[i].version[q] \in Nat /\ serverAt'[q] \in Nat /\ serverAt[q] \in Nat
        BY <1>2, <2>3, <2>4, <3>2 DEF Version, LiveInv, LiveTyped
      <4>2. /\ wire[i].version[q] <= serverAt[q]
            /\ page = "quota" => told[q] <= wire[i].version[q]
            /\ \A j \in i .. n : wire[i].version[q] <= wire[j].version[q]
        BY <2>1, <3>2 DEF LiveInv, WireTells
      <4>3. wire'[n + 1].version[q] = serverAt'[q]
        BY <2>3
      <4>4. \A j \in i .. n + 1 : (j \in i .. n /\ j \in 1 .. n) \/ j = n + 1
        BY <3>2
      <4> QED
        BY <1>2, <2>3, <4>1, <4>2, <4>3, <4>4
    <3> QED
      BY <2>5, <3>1, <3>2
  <2>6. WireTells'
    <3>1. page' = page /\ told' = told /\ 1 .. Len(wire') = 1 .. n + 1 /\ Len(wire') = n + 1
      BY <2>3
    <3>2. ASSUME NEW i \in 1 .. n + 1 PROVE wire'[i].op.event # "none"
      <4>1. CASE i = n + 1
        BY <1>4, <2>3, <4>1
      <4>2. CASE i \in 1 .. n
        BY <2>1, <2>3, <4>2 DEF LiveInv, WireTells
      <4> QED
        BY <4>1, <4>2
    <3> QED
      BY <1>1, <2>5, <3>1, <3>2 DEF WireTells
  <2> QED
    BY <1>1, <1>2, <2>3, <2>6
<1> QED
  BY <1>1, <1>2, <1>3, <1>4 DEF Executed


-----------------------------------------------------------------------------
(* The steps.                                                               *)

LEMMA ViewsStay ==
  ASSUME LiveInv, UNCHANGED <<page, opened, picked, shown, reading, invalid, errored, told>>,
         serverAt' \in Version, \A q \in Queries : serverAt'[q] >= serverAt[q]
  PROVE ViewsAreFresh'
<1>1. Queries' = Queries /\ OnScreen' = OnScreen
  BY DEF Queries, OnScreen
<1>2. \A q \in Queries : told[q] \in Int /\ serverAt[q] \in Int /\ serverAt'[q] \in Int
  BY DEF LiveInv, LiveTyped, Version
<1> QED
  BY <1>1, <1>2 DEF LiveInv, ViewsAreFresh, Fresh, Busy

LEMMA AskStays ==
  ASSUME LiveInv, UNCHANGED <<page, ask, told>>,
         serverAt' \in Version, \A q \in Queries : serverAt'[q] >= serverAt[q]
  PROVE AskTells'
<1>1. Queries' = Queries
  BY DEF Queries
<1>2. \A q \in Queries : ask.version[q] \in Int /\ serverAt[q] \in Int /\ serverAt'[q] \in Int
  BY DEF LiveInv, LiveTyped, Version
<1>3. \A q \in Queries : ask.version[q] <= serverAt[q] => ask.version[q] <= serverAt'[q]
  BY <1>2
<1> QED
  BY <1>1, <1>3 DEF LiveInv, AskTells

LEMMA WireStays == ASSUME LiveInv, UNCHANGED <<page, wire, serverAt, told>> PROVE WireTells'
<1>1. Queries' = Queries
  BY DEF Queries
<1> QED
  BY <1>1 DEF LiveInv, WireTells

LEMMA ServerStep == ASSUME LiveInv, SomeoneElse \/ serve PROVE LiveInv'
<1>1. PICK o \in OpsOf(page) : /\ Executed(o)
                               /\ UNCHANGED <<page, shown, reading, invalid, errored, opened, picked, online, told, drops>>
                               /\ \/ UNCHANGED ask
                                  \/ ask.at = "sent" /\ o = ask.op /\ ask' = [ask EXCEPT !.at = "done", !.version = serverAt']
  <2>1. CASE SomeoneElse
    BY <2>1, ViewsByPage DEF SomeoneElse, LiveInv, LiveTyped
  <2>2. CASE serve
    BY <2>2 DEF serve, LiveInv, AskTells
  <2> QED
    BY <2>1, <2>2
<1>2. /\ Queries' = Queries
      /\ serverAt' \in Version /\ \A q \in Queries : serverAt'[q] >= serverAt[q]
      /\ wire' \in Seq([op : OpsOf(page), version : Version])
      /\ WireTells' /\ Version' = Version
  BY <1>1, Executes DEF Version
<1>3. ViewsAreFresh'
  BY <1>1, <1>2, ViewsStay
<1>4. LiveTyped'
  BY <1>1, <1>2 DEF LiveInv, LiveTyped
<1>5. AskTells'
  <2>1. CASE UNCHANGED ask
    BY <1>1, <1>2, <2>1, AskStays
  <2>2. CASE ask.at = "sent" /\ o = ask.op /\ ask' = [ask EXCEPT !.at = "done", !.version = serverAt']
    <3>1. /\ ask'.at = "done" /\ ask'.op = ask.op /\ ask'.thread = ask.thread /\ ask'.version = serverAt'
      BY <2>2 DEF LiveInv, LiveTyped
    <3>2. \A q \in Queries : serverAt'[q] <= serverAt'[q] /\ told[q] <= serverAt'[q]
      BY <1>2 DEF LiveInv, LiveTyped, ViewsAreFresh, Version
    <3> QED
      BY <1>1, <1>2, <2>2, <3>1, <3>2 DEF LiveInv, AskTells
  <2> QED
    BY <1>1, <2>1, <2>2
<1> QED
  BY <1>2, <1>3, <1>4, <1>5 DEF LiveInv

LEMMA AskStep == ASSUME LiveInv, mutate \/ refuse PROVE LiveInv'
<1>1. /\ UNCHANGED <<page, serverAt, shown, reading, invalid, errored, opened, picked, online, wire, told, drops>>
      /\ Queries' = Queries /\ Version' = Version
  BY DEF mutate, refuse, Queries, Version
<1>2. /\ \A q \in Queries : serverAt'[q] >= serverAt[q]
      /\ serverAt' \in Version
  BY <1>1 DEF LiveInv, LiveTyped, Version
<1>3. ViewsAreFresh' /\ WireTells'
  BY <1>1, <1>2, ViewsStay, WireStays
<1>4. /\ ask' \in [at : {"none", "sent", "done"}, op : OpsOf(page) \cup {useSaveRulebook}, thread : Picks, version : Version]
      /\ AskTells'
  <2>1. CASE mutate
    <3>1. PICK o \in OpsOf(page) :
            /\ o.after # {} \/ o = useSaveRulebook
            /\ page = "inbox" => picked # "none" /\ o \in inboxOperations(picked)
            /\ ask' = [NoRequest EXCEPT !.at = "sent", !.op = o, !.thread = picked]
      BY <2>1, ViewsByPage DEF mutate, LiveInv, LiveTyped
    <3>2. ask' = [at |-> "sent", op |-> o, thread |-> picked, version |-> [q \in Queries |-> 0]]
      BY <3>1 DEF NoRequest
    <3> QED
      BY <1>1, <3>1, <3>2 DEF LiveInv, LiveTyped, AskTells, Picks, Version
  <2>2. CASE refuse
    BY <1>1, <2>2 DEF refuse, NoRequest, AskTells, Picks, Version
  <2> QED
    BY <2>1, <2>2
<1>5. LiveTyped'
  BY <1>1, <1>4 DEF LiveInv, LiveTyped
<1> QED
  BY <1>3, <1>4, <1>5 DEF LiveInv

LEMMA SocketStep == ASSUME LiveInv, disconnect \/ connect PROVE LiveInv'
<1>1. /\ UNCHANGED <<page, serverAt, shown, reading, invalid, errored, opened, picked, ask, told>>
      /\ Queries' = Queries /\ Version' = Version
      /\ wire' = wire \/ wire' = <<>>
  BY DEF disconnect, connect, Queries, Version
<1>2. /\ \A q \in Queries : serverAt'[q] >= serverAt[q]
      /\ serverAt' \in Version
  BY <1>1 DEF LiveInv, LiveTyped, Version
<1>3. ViewsAreFresh' /\ AskTells'
  BY <1>1, <1>2, ViewsStay, AskStays
<1>4. WireTells'
  <2>1. CASE wire' = <<>>
    BY <2>1 DEF WireTells
  <2> QED
    BY <1>1, <2>1, WireStays
<1>5. LiveTyped'
  <2>1. wire' \in Seq([op : OpsOf(page), version : Version])
    <3>1. wire \in Seq([op : OpsOf(page), version : Version])
      BY DEF LiveInv, LiveTyped
    <3>2. \A S : <<>> \in Seq(S)
      OBVIOUS
    <3> QED
      BY <1>1, <3>1, <3>2
  <2> QED
    BY <1>1, <2>1 DEF LiveInv, LiveTyped
<1> QED
  BY <1>3, <1>4, <1>5 DEF LiveInv

\* A read, and its answer or its failure.
LEMMA ReadStep == ASSUME LiveInv, readServer \/ readArrives \/ readFails PROVE LiveInv'
<1>1. PICK q \in Queries :
        /\ UNCHANGED <<page, serverAt, opened, picked, wire, ask, told>>
        /\ \/ /\ reading[q].at = "asked"
              /\ reading' = [reading EXCEPT ![q] = [at |-> "answered", version |-> serverAt[q]]]
              /\ UNCHANGED <<shown, invalid, errored>>
           \/ /\ reading[q].at = "answered"
              /\ shown' = [shown EXCEPT ![q] = reading[q].version] /\ reading' = [reading EXCEPT ![q] = Idle]
              /\ invalid' = invalid \ {q} /\ errored' = errored \ {q}
           \/ /\ reading' = [reading EXCEPT ![q] = Idle] /\ errored' = errored \cup {q}
              /\ UNCHANGED <<shown, invalid>>
  BY DEF readServer, readArrives, readFails
<1>2. /\ Queries' = Queries /\ Version' = Version /\ OnScreen' = OnScreen
      /\ \A r \in Queries : serverAt'[r] >= serverAt[r]
      /\ serverAt' \in Version
  <2>1. Queries' = Queries /\ OnScreen' = OnScreen
    BY <1>1 DEF Queries, OnScreen
  <2> QED
    BY <1>1, <2>1 DEF LiveInv, LiveTyped, Version
<1>3. WireTells' /\ AskTells'
  BY <1>1, <1>2, WireStays, AskStays
<1>4. LiveTyped'
  <2>1. serverAt[q] \in Nat /\ reading[q].version \in Nat
    BY DEF LiveInv, LiveTyped, Version
  <2>2. shown' \in [Queries -> Int]
    BY <1>1, <2>1 DEF LiveInv, LiveTyped
  <2>3. reading' \in [Queries -> [at : {"idle", "asked", "answered"}, version : Nat]]
    <3> DEFINE R == [at : {"idle", "asked", "answered"}, version : Nat]
    <3>1. [at |-> "answered", version |-> serverAt[q]] \in R /\ Idle \in R
      BY <2>1 DEF Idle
    <3>2. reading \in [Queries -> R]
      BY DEF LiveInv, LiveTyped
    <3> HIDE DEF R
    <3>3. reading' \in [Queries -> R]
      BY <1>1, <3>1, <3>2
    <3> QED
      BY <3>3 DEF R
  <2> QED
    BY <1>1, <1>2, <2>2, <2>3 DEF LiveInv, LiveTyped
<1>5. ASSUME NEW r \in Queries
      PROVE /\ told'[r] <= serverAt'[r] /\ Fresh(r)'
            /\ reading'[r].at = "answered" => reading'[r].version >= told'[r]
            /\ reading'[r].at # "idle" => r \in OnScreen
  <2>1. /\ told[r] <= serverAt[r] /\ Fresh(r)
        /\ reading[r].at = "answered" => reading[r].version >= told[r]
        /\ reading[r].at # "idle" => r \in OnScreen
    BY DEF LiveInv, ViewsAreFresh, Busy
  <2>2. CASE r # q
    <3>1. reading'[r] = reading[r] /\ shown'[r] = shown[r] /\ (r \in invalid' <=> r \in invalid)
          /\ (r \in errored' <=> r \in errored)
      BY <1>1, <2>2 DEF LiveInv, LiveTyped
    <3> QED
      BY <1>1, <1>2, <2>1, <3>1 DEF Fresh, Busy
  <2>3. CASE r = q
    <3>1. /\ serverAt[q] \in Nat /\ told[q] \in Int /\ reading[q].version \in Nat
      BY DEF LiveInv, LiveTyped, Version
    <3> QED
      BY <1>1, <1>2, <2>1, <2>3, <3>1 DEF Fresh, Busy, Idle, LiveInv, LiveTyped
  <2> QED
    BY <2>2, <2>3
<1>6. ViewsAreFresh'
  BY <1>2, <1>5 DEF ViewsAreFresh, Busy
<1> QED
  BY <1>3, <1>4, <1>6 DEF LiveInv

\* Queries that come on screen or leave it.
LEMMA MountStep == ASSUME LiveInv, handleSelect \/ leave \/ comeBack PROVE LiveInv'
<1>1. /\ UNCHANGED <<page, serverAt, shown, invalid, errored, wire, ask, told>>
      /\ opened' \in BOOLEAN /\ picked' \in Picks
  BY DEF handleSelect, leave, comeBack, Picks, LiveInv, LiveTyped
<1>2. \E aged \in BOOLEAN : Mounted(OnScreen', aged)
  <2>1. CASE handleSelect
    BY <2>1 DEF handleSelect, OnScreen, ReadsOf
  <2>2. CASE leave
    BY <2>2 DEF leave, OnScreen
  <2>3. CASE comeBack
    BY <2>3, ViewsByPage DEF comeBack, OnScreen, LiveInv, LiveTyped
  <2> QED
    BY <2>1, <2>2, <2>3
<1>3. PICK aged \in BOOLEAN :
        reading' = [q \in Queries |-> IF q \notin OnScreen' THEN Idle
                                      ELSE IF q \in OnScreen THEN reading[q]
                                      ELSE IF shown[q] < 0 \/ q \in invalid \/ aged THEN Asked ELSE Idle]
  BY <1>2, ObservedIsOnScreen DEF Mounted, LiveInv, LiveTyped
<1>4. /\ Queries' = Queries /\ Version' = Version
      /\ \A r \in Queries : serverAt'[r] >= serverAt[r]
      /\ serverAt' \in Version
  <2>1. Queries' = Queries
    BY <1>1 DEF Queries
  <2> QED
    BY <1>1, <2>1 DEF LiveInv, LiveTyped, Version
<1>5. WireTells' /\ AskTells'
  BY <1>1, <1>4, WireStays, AskStays
<1>6. LiveTyped'
  BY <1>1, <1>3, <1>4 DEF LiveInv, LiveTyped, Idle, Asked
<1>7. ViewsAreFresh'
  BY <1>1, <1>3, <1>4 DEF LiveInv, ViewsAreFresh, Fresh, Busy, Idle, Asked
<1> QED
  BY <1>5, <1>6, <1>7 DEF LiveInv


\* What invalidating does to one query.
LEMMA Invalidates ==
  ASSUME LiveInv, NEW P, Invalidated(P), UNCHANGED <<page, opened, picked>>
  PROVE /\ reading' \in [Queries -> [at : {"idle", "asked", "answered"}, version : Nat]]
        /\ \A q \in Queries :
             /\ q \in invalid => q \in invalid'
             /\ q \in Under(P) => q \in invalid'
             /\ reading'[q] = reading[q] \/ (reading'[q] = Asked /\ q \in OnScreen)
             /\ q \in Under(P) \cap OnScreen /\ (shown[q] >= 0 \/ ~Busy(q)) => reading'[q] = Asked
<1>1. Observed = OnScreen
  BY ObservedIsOnScreen DEF LiveInv, LiveTyped
<1> QED
  BY <1>1 DEF Invalidated, LiveInv, LiveTyped, Asked

\* What was told is shown, or is read again.
LEMMA TellStep ==
  ASSUME LiveInv, NEW P, Invalidated(P),
         UNCHANGED <<page, opened, picked, shown, serverAt, errored>>,
         NEW news \in SUBSET Queries, NEW version \in Version,
         \A q \in Queries : version[q] <= serverAt[q],
         \A q \in news : q \in Under(P) /\ ~(Busy(q) /\ shown[q] < 0),
         told' = [q \in Queries |-> IF q \in news THEN Newer(q, version[q]) ELSE told[q]]
  PROVE /\ Queries' = Queries /\ told' \in [Queries -> Int]
        /\ reading' \in [Queries -> [at : {"idle", "asked", "answered"}, version : Nat]]
        /\ ViewsAreFresh'
<1>1. Queries' = Queries /\ OnScreen' = OnScreen
  BY DEF Queries, OnScreen
<1>2. \A q \in Queries : told[q] \in Int /\ version[q] \in Nat /\ serverAt[q] \in Nat /\ shown[q] \in Int
  BY DEF LiveInv, LiveTyped, Version
<1>3. told' \in [Queries -> Int]
  BY <1>2 DEF Newer
<1>4. reading' \in [Queries -> [at : {"idle", "asked", "answered"}, version : Nat]]
  BY Invalidates
<1>5. ASSUME NEW q \in Queries
      PROVE /\ told'[q] <= serverAt[q] /\ Fresh(q)'
            /\ reading'[q].at = "answered" => reading'[q].version >= told'[q]
            /\ reading'[q].at # "idle" => q \in OnScreen
  <2>1. /\ told[q] <= serverAt[q] /\ Fresh(q)
        /\ reading[q].at = "answered" => reading[q].version >= told[q]
        /\ reading[q].at # "idle" => q \in OnScreen
    BY DEF LiveInv, ViewsAreFresh, Busy
  <2>2. /\ q \in invalid => q \in invalid'
        /\ q \in Under(P) => q \in invalid'
        /\ reading'[q] = reading[q] \/ (reading'[q] = Asked /\ q \in OnScreen)
        /\ q \in Under(P) \cap OnScreen /\ (shown[q] >= 0 \/ ~Busy(q)) => reading'[q] = Asked
    BY Invalidates
  <2>3. Asked.at = "asked"
    BY DEF Asked
  <2>4. CASE q \notin news
    BY <1>1, <1>2, <2>1, <2>2, <2>3, <2>4 DEF Fresh, Busy
  <2>5. CASE q \in news
    <3>1. told'[q] <= serverAt[q]
      BY <1>2, <2>1, <2>5 DEF Newer
    <3>2. q \in invalid' /\ (q \in OnScreen => reading'[q] = Asked)
      BY <1>2, <2>2, <2>5
    <3>3. q \notin OnScreen => reading'[q].at = "idle"
      BY <2>1, <2>2
    <3> QED
      BY <1>1, <2>3, <3>1, <3>2, <3>3 DEF Fresh, Busy
  <2> QED
    BY <2>4, <2>5
<1>6. ViewsAreFresh'
  BY <1>1, <1>5 DEF ViewsAreFresh, Busy
<1> QED
  BY <1>1, <1>3, <1>4, <1>6

LEMMA AnswerStep == ASSUME LiveInv, answer PROVE LiveInv'
<1>1. /\ ask.at = "done" /\ ask' = NoRequest
      /\ UNCHANGED <<page, serverAt, errored, opened, picked, online, wire, drops>>
      /\ Queries' = Queries /\ Version' = Version /\ OnScreen' = OnScreen
  BY DEF answer, Queries, Version, OnScreen
<1>2. /\ ask.op \in OpsOf(page) /\ ask.version \in Version
      /\ ask.op = useSaveRulebook \/ ask.op.after # {}
      /\ \A q \in Queries : /\ ask.version[q] <= serverAt[q] /\ ask.version[q] \in Nat /\ told[q] \in Int
                            /\ shown[q] \in Int /\ serverAt[q] \in Nat
                            /\ ask.op = useSaveRulebook /\ q \in ask.op.changes => told[q] <= ask.version[q]
  BY <1>1 DEF LiveInv, LiveTyped, AskTells, Version
<1>3. AskTells' /\ ask' \in [at : {"none", "sent", "done"}, op : OpsOf(page) \cup {useSaveRulebook}, thread : Picks, version : Version]
  BY <1>1 DEF AskTells, NoRequest, Picks, Version
<1>4. page # "quota"
  BY <1>2, SavesAreSilent DEF LiveInv, LiveTyped
<1>5. WireTells'
  BY <1>1, <1>4 DEF WireTells, LiveInv
<1>6. /\ shown' \in [Queries -> Int] /\ told' \in [Queries -> Int] /\ ViewsAreFresh'
      /\ reading' \in [Queries -> [at : {"idle", "asked", "answered"}, version : Nat]]
  <2>1. CASE ask.op = useSaveRulebook
    <3>1. /\ shown' = [q \in Queries |-> IF q \in ask.op.changes THEN ask.version[q] ELSE shown[q]]
          /\ invalid' = invalid \ ask.op.changes /\ UNCHANGED reading
      BY <2>1 DEF answer
    <3>2. \A q \in Queries : /\ told'[q] = told[q] \/ (told'[q] = Newer(q, ask.version[q]) /\ q \in ask.op.changes /\ ~Busy(q))
                             /\ told'[q] \in Int
      BY <1>2, <2>1 DEF answer, Newer
    <3>3. told' \in [Queries -> Int] /\ shown' \in [Queries -> Int]
      BY <1>2, <3>1, <3>2 DEF answer
    <3>4. ASSUME NEW q \in Queries
          PROVE /\ told'[q] <= serverAt[q] /\ Fresh(q)'
                /\ reading[q].at = "answered" => reading[q].version >= told'[q]
                /\ reading[q].at # "idle" => q \in OnScreen
      <4>1. /\ told[q] <= serverAt[q] /\ Fresh(q)
            /\ reading[q].at = "answered" => reading[q].version >= told[q]
            /\ reading[q].at # "idle" => q \in OnScreen
        BY DEF LiveInv, ViewsAreFresh, Busy
      <4>2. CASE q \in ask.op.changes
        BY <1>2, <2>1, <3>1, <3>2, <4>1, <4>2 DEF Fresh, Busy, Newer
      <4>3. CASE q \notin ask.op.changes
        BY <1>1, <3>1, <3>2, <4>1, <4>3 DEF Fresh, Busy
      <4> QED
        BY <4>2, <4>3
    <3>5. ViewsAreFresh'
      BY <1>1, <3>1, <3>4 DEF ViewsAreFresh, Busy
    <3> QED
      BY <3>1, <3>3, <3>5 DEF LiveInv, LiveTyped
  <2>2. CASE ask.op # useSaveRulebook
    <3>1. Invalidated(onSuccess) /\ UNCHANGED shown
      BY <2>2 DEF answer
    <3> DEFINE news == {q \in Queries : ~(\/ q \notin ask.op.changes
                                          \/ Busy(q) /\ shown[q] < 0
                                          \/ page = "inbox" /\ picked # ask.thread /\ q = <<"inbox", "thread", ask.thread>>)}
    <3>2. told' = [q \in Queries |-> IF q \in news THEN Newer(q, ask.version[q]) ELSE told[q]]
      BY <2>2 DEF answer
    <3>3. ASSUME NEW q \in news PROVE q \in Under(onSuccess)
      <4>1. CASE page # "inbox"
        BY <1>2, <2>2, <4>1, AnswersInvalidate DEF onSuccess, LiveInv, LiveTyped
      <4>2. CASE page = "inbox"
        <5>1. ask.thread \in {"a", "b"} /\ ask.op \in inboxOperations(ask.thread)
          BY <1>1, <4>2 DEF LiveInv, AskTells
        <5>2. q \in {<<"inbox", "threads">>, <<"inbox", "thread", picked>>} \cap Queries
          BY <4>2, <5>1, InboxChanges
        <5> QED
          BY <4>2, <5>1, <5>2, InboxChanges DEF onSuccess, useSendReply, LiveInv, LiveTyped
      <4> QED
        BY <4>1, <4>2
    <3>4. \A q \in news : q \in Under(onSuccess) /\ ~(Busy(q) /\ shown[q] < 0)
      BY <3>3
    <3>5. news \in SUBSET Queries
      OBVIOUS
    <3> HIDE DEF news
    <3> QED
      BY <1>1, <1>2, <3>1, <3>2, <3>4, <3>5, TellStep DEF LiveInv, LiveTyped
  <2> QED
    BY <2>1, <2>2
<1>7. LiveTyped'
  BY <1>1, <1>3, <1>6 DEF LiveInv, LiveTyped
<1> QED
  BY <1>3, <1>5, <1>6, <1>7 DEF LiveInv


\* The events behind the first one.
LEMMA Dequeues ==
  ASSUME LiveInv, wire # <<>>, wire' = Tail(wire), UNCHANGED <<page, serverAt>>,
         page = "quota" => \A q \in Queries : told'[q] = told[q] \/ told'[q] = Newer(q, Head(wire).version[q])
  PROVE /\ Head(wire) \in [op : OpsOf(page), version : Version] /\ Head(wire).op.event # "none"
        /\ \A q \in Queries : /\ Head(wire).version[q] <= serverAt[q]
                              /\ page = "quota" => told[q] <= Head(wire).version[q]
        /\ wire' \in Seq([op : OpsOf(page), version : Version])
        /\ WireTells'
<1>1. PICK n \in Nat : n + 1 = Len(wire)
  <2>1. PICK S : wire \in Seq(S)
    BY DEF LiveInv, LiveTyped
  <2>2. Len(wire) \in Nat /\ Len(wire) # 0
    BY <2>1
  <2> QED
    BY <2>2
<1>2. /\ Head(wire) = wire[1] /\ wire' \in Seq([op : OpsOf(page), version : Version])
      /\ Len(wire') = n /\ \A i \in 1 .. n : wire'[i] = wire[i + 1]
  <2>1. PICK S : S = [op : OpsOf(page), version : Version] /\ wire \in Seq(S)
    BY DEF LiveInv, LiveTyped
  <2>2. /\ Head(wire) = wire[1] /\ wire' \in Seq(S)
        /\ Len(wire') = n /\ \A i \in 1 .. n : wire'[i] = wire[i + 1]
    BY <1>1, <2>1
  <2> QED
    BY <2>1, <2>2
<1>3. \A i \in 1 .. n + 1 : wire[i] \in [op : OpsOf(page), version : Version]
  <2>1. wire \in Seq([op : OpsOf(page), version : Version])
    BY DEF LiveInv, LiveTyped
  <2> QED
    BY <1>1, <2>1, ElementOfSeq
<1>4. \A i \in 1 .. n + 1 :
        /\ wire[i].op.event # "none"
        /\ \A q \in Queries : /\ wire[i].version[q] <= serverAt[q]
                              /\ page = "quota" => told[q] <= wire[i].version[q]
                              /\ \A j \in i .. n + 1 : wire[i].version[q] <= wire[j].version[q]
  BY <1>1 DEF LiveInv, WireTells
<1>5. Queries' = Queries
  BY DEF Queries
<1>6. ASSUME NEW i \in 1 .. n
      PROVE /\ wire'[i].op.event # "none"
            /\ \A q \in Queries : /\ wire'[i].version[q] <= serverAt[q]
                                  /\ page = "quota" => told'[q] <= wire'[i].version[q]
                                  /\ \A j \in i .. n : wire'[i].version[q] <= wire'[j].version[q]
  <2>1. i + 1 \in 1 .. n + 1 /\ wire'[i] = wire[i + 1] /\ i + 1 \in 1 .. n + 1 /\ 1 \in 1 .. n + 1
    BY <1>2
  <2>2. ASSUME NEW q \in Queries, page = "quota" PROVE told'[q] <= wire'[i].version[q]
    <3>1. told[q] <= wire[i + 1].version[q] /\ wire[1].version[q] <= wire[i + 1].version[q]
      BY <1>4, <2>1, <2>2
    <3> QED
      BY <1>2, <2>1, <2>2, <3>1 DEF Newer
  <2>3. ASSUME NEW q \in Queries, NEW j \in i .. n PROVE wire'[i].version[q] <= wire'[j].version[q]
    <3>1. j \in 1 .. n /\ j + 1 \in i + 1 .. n + 1 /\ wire'[j] = wire[j + 1]
      BY <1>2
    <3> QED
      BY <1>4, <2>1, <3>1
  <2> QED
    BY <1>4, <2>1, <2>2, <2>3
<1>7. WireTells'
  <2>1. page' = page /\ serverAt' = serverAt /\ Len(wire') = n
    BY <1>2
  <2>2. \A i \in 1 .. n :
          /\ wire'[i].op.event # "none"
          /\ \A q \in Queries : /\ wire'[i].version[q] <= serverAt'[q]
                                /\ page' = "quota" => told'[q] <= wire'[i].version[q]
                                /\ \A j \in i .. n : wire'[i].version[q] <= wire'[j].version[q]
    BY <1>6, <2>1
  <2>3. 1 .. Len(wire') = 1 .. n /\ \A i \in 1 .. n : i .. Len(wire') = i .. n
    BY <2>1
  <2> QED
    BY <1>5, <2>2, <2>3 DEF WireTells
<1>8. 1 \in 1 .. n + 1
  OBVIOUS
<1> QED
  BY <1>2, <1>3, <1>4, <1>7, <1>8

LEMMA EventStep == ASSUME LiveInv, event PROVE LiveInv'
<1> DEFINE e == Head(wire)
<1> DEFINE news == {q \in Queries : ~(\/ ~opened \/ q \notin e.op.changes \cap Observed
                                      \/ Busy(q) /\ (page = "quota" \/ shown[q] < 0)
                                      \/ page = "inbox" /\ q \notin Under(Shown.hears[e.op.event]))}
<1>1. /\ wire # <<>> /\ wire' = Tail(wire)
      /\ UNCHANGED <<page, serverAt, errored, opened, picked, online, ask, drops>>
      /\ told' = [q \in Queries |-> IF q \in news THEN Newer(q, e.version[q]) ELSE told[q]]
  BY DEF event
<1>2. /\ Queries' = Queries /\ Version' = Version /\ OnScreen' = OnScreen /\ Observed = OnScreen
  BY <1>1, ObservedIsOnScreen DEF Queries, Version, OnScreen, LiveInv, LiveTyped
<1>3. /\ e \in [op : OpsOf(page), version : Version] /\ e.op.event # "none"
      /\ \A q \in Queries : e.version[q] <= serverAt[q] /\ (page = "quota" => told[q] <= e.version[q])
      /\ wire' \in Seq([op : OpsOf(page), version : Version])
      /\ WireTells'
  <2>1. \A q \in Queries : told'[q] = told[q] \/ told'[q] = Newer(q, Head(wire).version[q])
    BY <1>1
  <2> HIDE DEF news
  <2> QED
    BY <1>1, <2>1, Dequeues
<1>4. \A q \in Queries : e.version[q] \in Nat /\ told[q] \in Int /\ shown[q] \in Int /\ serverAt[q] \in Nat
  BY <1>3 DEF Version, LiveInv, LiveTyped
<1>5. told' \in [Queries -> Int]
  BY <1>1, <1>4 DEF Newer
<1>6. AskTells'
  <2>1. ASSUME NEW q \in Queries, ask.at = "done", ask.op = useSaveRulebook, q \in ask.op.changes PROVE told'[q] = told[q]
    <3>1. page = "auto-reply" /\ q = Rulebook
      <4>1. page \in Pages /\ ask.op \in OpsOf(page)
        BY <2>1 DEF LiveInv, LiveTyped, AskTells
      <4>2. useSaveRulebook.changes = {Rulebook}
        BY DEF useSaveRulebook, Operation, Rulebook
      <4> QED
        BY <2>1, <4>1, <4>2, SavesAreSilent
    <3>2. q \notin e.op.changes
      BY <1>3, <3>1, SavesAreSilent DEF LiveInv, LiveTyped
    <3> QED
      BY <1>1, <3>2
  <2> HIDE DEF news
  <2> QED
    BY <1>1, <1>2, <2>1 DEF LiveInv, AskTells
<1>7. /\ shown' \in [Queries -> Int] /\ ViewsAreFresh'
      /\ reading' \in [Queries -> [at : {"idle", "asked", "answered"}, version : Nat]]
  <2>1. CASE ~opened
    <3>1. UNCHANGED <<shown, reading, invalid>> /\ told' = told
      BY <1>1, <2>1 DEF event, LiveInv, LiveTyped
    <3> QED
      BY <1>1, <3>1, ViewsStay DEF LiveInv, LiveTyped, Version
  <2>2. CASE opened /\ page = "quota"
    <3>1. /\ shown' = [q \in Queries |-> IF q \in e.op.changes THEN e.version[q] ELSE shown[q]]
          /\ UNCHANGED <<reading, invalid>>
      BY <2>2 DEF event
    <3>2. ASSUME NEW q \in Queries
          PROVE /\ told'[q] <= serverAt[q] /\ Fresh(q)'
                /\ reading[q].at = "answered" => reading[q].version >= told'[q]
                /\ reading[q].at # "idle" => q \in OnScreen
      <4>1. /\ told[q] <= serverAt[q] /\ Fresh(q)
            /\ reading[q].at = "answered" => reading[q].version >= told[q]
            /\ reading[q].at # "idle" => q \in OnScreen
        BY DEF LiveInv, ViewsAreFresh, Busy
      <4>2. CASE q \in e.op.changes
        BY <1>1, <1>3, <1>4, <2>2, <3>1, <4>1, <4>2 DEF Fresh, Busy, Newer
      <4>3. CASE q \notin e.op.changes
        BY <1>1, <1>2, <3>1, <4>1, <4>3 DEF Fresh, Busy
      <4> QED
        BY <4>2, <4>3
    <3>3. ViewsAreFresh'
      BY <1>1, <1>2, <3>1, <3>2 DEF ViewsAreFresh, Busy
    <3>4. shown' \in [Queries -> Int]
      BY <1>4, <3>1
    <3> QED
      BY <3>1, <3>3, <3>4 DEF LiveInv, LiveTyped
  <2>3. CASE opened /\ page # "quota"
    <3>1. Invalidated(Shown.hears[e.op.event]) /\ UNCHANGED shown
      BY <2>3 DEF event
    <3>2. ASSUME NEW q \in news PROVE q \in Under(Shown.hears[e.op.event]) /\ ~(Busy(q) /\ shown[q] < 0)
      <4>1. CASE page = "inbox"
        BY <4>1
      <4>2. CASE page # "inbox"
        <5>1. q \in e.op.changes \cap Shown.reads
          BY DEF Observed
        <5> QED
          BY <1>3, <2>3, <4>2, <5>1, EventsAreHeard DEF LiveInv, LiveTyped
      <4> QED
        BY <4>1, <4>2
    <3>3. news \in SUBSET Queries
      OBVIOUS
    <3>4. e.version \in Version
      BY <1>3
    <3> HIDE DEF news
    <3> QED
      BY <1>1, <1>3, <3>1, <3>2, <3>3, <3>4, TellStep DEF LiveInv, LiveTyped
  <2> QED
    BY <2>1, <2>2, <2>3 DEF LiveInv, LiveTyped
<1>8. LiveTyped'
  <2> HIDE DEF news, e
  <2> QED
    BY <1>1, <1>2, <1>3, <1>5, <1>7 DEF LiveInv, LiveTyped
<1> QED
  BY <1>3, <1>6, <1>7, <1>8 DEF LiveInv

\* Whatever order reads, events and answers come in, with reads that fail, a socket that
\* drops what it carries and a page that is left: what is on screen with no read under way
\* is never older than what this window has been told.
THEOREM AlwaysShowsWhatItWasTold == LiveSpec => []ShowsWhatItWasTold
<1>1. LiveInv /\ [LiveNext]_liveVars => LiveInv'
  <2> SUFFICES ASSUME LiveInv, [LiveNext]_liveVars PROVE LiveInv'
    OBVIOUS
  <2>1. CASE UNCHANGED liveVars
    <3>1. Queries' = Queries /\ Version' = Version /\ OnScreen' = OnScreen
      BY <2>1 DEF liveVars, Queries, Version, OnScreen
    <3> QED
      BY <2>1, <3>1 DEF liveVars, LiveInv, LiveTyped, WireTells, AskTells, ViewsAreFresh, Fresh, Busy
  <2> QED
    BY <2>1, ServerStep, AskStep, SocketStep, ReadStep, MountStep, AnswerStep, EventStep DEF LiveNext
<1>2. LiveInv => ShowsWhatItWasTold
  BY ObservedIsOnScreen DEF LiveInv, LiveTyped, ViewsAreFresh, Fresh, ShowsWhatItWasTold, Settled
<1> QED
  BY <1>1, <1>2, LiveStart, PTL DEF LiveSpec

-----------------------------------------------------------------------------
\* The rulebook

(* What normalizing a list gives: the fold of Keep over the list, as a      *)
(* recursion over the sets of its positions that the fold is defined by.   *)

Texts == {"", "act now", "Act now for a discount", "New hours on Monday"}
Phrases == [text : Texts, form : Forms]

KeptOf(seq, g, s) == IF s = {} THEN <<>> ELSE Keep(g[s \ {Max(s)}], seq[Max(s)])
FoldsUp(seq, S, g) == g = [s \in SUBSET S |-> KeptOf(seq, g, s)]
Norm(seq) == FoldLeft(Keep, <<>>, seq)

LEMMA SmallerByMax ==
  ASSUME NEW s \in SUBSET Nat, IsFiniteSet(s), s # {}
  PROVE  /\ s \ {Max(s)} \in SUBSET s /\ Cardinality(s) \in Nat /\ Cardinality(s \ {Max(s)}) \in Nat
         /\ Cardinality(s) = Cardinality(s \ {Max(s)}) + 1
<1>1. PICK p : p = Max(s)
  OBVIOUS
<1>2. p \in s
  BY <1>1, MaxIsGreatest
<1>3. IsFiniteSet(s \ {p}) /\ Cardinality(s \ {p}) = Cardinality(s) - 1
  BY <1>2, FS_RemoveElement
<1>4. Cardinality(s) \in Nat /\ Cardinality(s \ {p}) \in Nat
  BY <1>3, FS_CardinalityType
<1> QED
  BY <1>1, <1>3, <1>4

LEMMA FoldsExist ==
  ASSUME NEW seq, NEW S \in SUBSET Nat, IsFiniteSet(S)
  PROVE  \E g : FoldsUp(seq, S, g)
<1> DEFINE Small(k) == {s \in SUBSET S : Cardinality(s) <= k}
           Solved == {k \in Nat : \E g : g = [s \in Small(k) |-> KeptOf(seq, g, s)]}
<1>0. \A s \in SUBSET S : IsFiniteSet(s) /\ Cardinality(s) \in Nat /\ Cardinality(s) <= Cardinality(S)
  BY FS_Subset, FS_CardinalityType
<1>1. 0 \in Solved
  <2>1. Small(0) = {{}}
    BY <1>0, FS_EmptySet
  <2>2. PICK g : g = [s \in Small(0) |-> <<>>]
    OBVIOUS
  <2>3. g = [s \in Small(0) |-> KeptOf(seq, g, s)]
    BY <2>1, <2>2 DEF KeptOf
  <2> QED
    BY <2>3
<1>2. ASSUME NEW k \in Nat, k \in Solved PROVE k + 1 \in Solved
  <2>1. PICK g : g = [s \in Small(k) |-> KeptOf(seq, g, s)]
    BY <1>2
  <2>2. PICK h : h = [s \in Small(k + 1) |-> KeptOf(seq, g, s)]
    OBVIOUS
  <2>3. ASSUME NEW s \in Small(k + 1) PROVE KeptOf(seq, g, s) = KeptOf(seq, h, s)
    <3>1. CASE s = {}
      BY <3>1 DEF KeptOf
    <3>2. CASE s # {}
      <4>1. PICK t : t = s \ {Max(s)}
        OBVIOUS
      <4>2. t \in SUBSET s /\ Cardinality(s) = Cardinality(t) + 1 /\ Cardinality(t) \in Nat
        BY <1>0, <3>2, <4>1, SmallerByMax
      <4>3. t \in Small(k) /\ t \in Small(k + 1)
        BY <4>2
      <4>4. g[t] = KeptOf(seq, g, t) /\ h[t] = KeptOf(seq, g, t)
        BY <2>1, <2>2, <4>3
      <4> QED
        BY <3>2, <4>1, <4>4 DEF KeptOf
    <3> QED
      BY <3>1, <3>2
  <2>4. h = [s \in Small(k + 1) |-> KeptOf(seq, h, s)]
    BY <2>2, <2>3
  <2> HIDE DEF Small
  <2> QED
    BY <2>4
<1>3. Cardinality(S) \in Nat
  BY FS_CardinalityType
<1>4. Small(Cardinality(S)) = SUBSET S
  BY <1>0
<1> HIDE DEF Solved
<1>5. Nat \subseteq Solved
  BY <1>1, <1>2, InductiveSet
<1> QED
  BY <1>3, <1>4, <1>5 DEF Solved, FoldsUp

\* The list after each of its elements.
LEMMA NormByElement ==
  ASSUME NEW seq, NEW len \in Nat, DOMAIN seq = 1 .. len
  PROVE  \E N : /\ N[0] = <<>> /\ Norm(seq) = N[len]
                /\ \A n \in Nat : n < len => N[n + 1] = Keep(N[n], seq[n + 1])
<1>1. 1 .. len \in SUBSET Nat /\ IsFiniteSet(1 .. len)
  BY FS_Interval
<1>2. PICK g : FoldsUp(seq, 1 .. len, g) /\ Norm(seq) = g[1 .. len]
  <2>1. Norm(seq) = (CHOOSE g : FoldsUp(seq, 1 .. len, g))[1 .. len]
    BY DEF Norm, FoldLeft, MapThenFoldSet, FoldsUp, KeptOf
  <2>2. FoldsUp(seq, 1 .. len, CHOOSE g : FoldsUp(seq, 1 .. len, g))
    BY <1>1, FoldsExist
  <2> QED
    BY <2>1, <2>2
<1>3. PICK N : N = [n \in 0 .. len |-> g[1 .. n]]
  OBVIOUS
<1>4. N[0] = <<>>
  <2>1. 1 .. 0 = {} /\ {} \in SUBSET (1 .. len)
    OBVIOUS
  <2> QED
    BY <1>2, <1>3, <2>1 DEF FoldsUp, KeptOf
<1>5. N[len] = Norm(seq)
  BY <1>2, <1>3
<1>6. ASSUME NEW n \in Nat, n < len PROVE N[n + 1] = Keep(N[n], seq[n + 1])
  <2>1. PICK s, m : s = 1 .. n + 1 /\ m = n + 1
    OBVIOUS
  <2>2. s \in SUBSET (1 .. len) /\ s # {} /\ s \in SUBSET Nat /\ IsFiniteSet(s) /\ m \in s /\ \A k \in s : k <= m
    <3>1. IsFiniteSet(1 .. n + 1)
      BY FS_Interval
    <3> QED
      BY <1>6, <2>1, <3>1
  <2>3. Max(s) = m
    <3>1. Max(s) \in s /\ \A k \in s : k <= Max(s)
      BY <2>2, MaxIsGreatest
    <3>2. Max(s) \in Nat /\ m \in Nat
      BY <2>1, <2>2, <3>1
    <3> QED
      BY <2>2, <3>1, <3>2
  <2>4. s \ {m} = 1 .. n
    BY <2>1
  <2>5. g[s] = KeptOf(seq, g, s)
    BY <1>2, <2>2 DEF FoldsUp
  <2>6. N[n + 1] = g[s] /\ N[n] = g[1 .. n]
    BY <1>3, <1>6, <2>1
  <2> QED
    BY <2>1, <2>2, <2>3, <2>4, <2>5, <2>6 DEF KeptOf
<1> QED
  BY <1>4, <1>5, <1>6

-----------------------------------------------------------------------------
(* What is in a normalized list.                                            *)

KeysOf(s) == {key(s[i]) : i \in {j \in DOMAIN s : s[j].text # ""}}

\* No blank element, and no two that differ in case alone.
Normal(s) ==
  /\ s \in Seq(Phrases)
  /\ \A i \in 1 .. Len(s) : s[i].text # ""
  /\ \A i, j \in 1 .. Len(s) : i # j => key(s[i]) # key(s[j])

LEMMA KeepStep ==
  ASSUME NEW s, Normal(s), NEW e \in Phrases
  PROVE  /\ Normal(Keep(s, e))
         /\ ToSet(Keep(s, e)) \subseteq ToSet(s) \cup {e}
         /\ KeysOf(Keep(s, e)) = KeysOf(s) \cup (IF e.text = "" THEN {} ELSE {key(e)})
<1>0. s \in Seq(Phrases)
  BY DEF Normal
<1>1. PICK n \in Nat : n = Len(s) /\ DOMAIN s = 1 .. n
  BY <1>0
<1>2. CASE Keep(s, e) = s /\ (e.text = "" \/ \E i \in 1 .. n : key(s[i]) = key(e))
  BY <1>1, <1>2 DEF Normal, KeysOf
<1>3. CASE Keep(s, e) = Append(s, e) /\ e.text # "" /\ ~\E i \in 1 .. n : key(s[i]) = key(e)
  <2>1. PICK t : t = Append(s, e)
    OBVIOUS
  <2>2. /\ t \in Seq(Phrases) /\ Len(t) = n + 1 /\ DOMAIN t = 1 .. n + 1
        /\ t[n + 1] = e /\ \A i \in 1 .. n : t[i] = s[i]
    BY <1>0, <1>1, <2>1
  <2>3. Normal(t)
    <3>1. \A i \in 1 .. n : s[i].text # "" /\ key(s[i]) # key(e)
      BY <1>1, <1>3 DEF Normal
    <3>2. \A i \in 1 .. n + 1 : i \in 1 .. n \/ i = n + 1
      OBVIOUS
    <3>3. \A i \in 1 .. n + 1 : t[i].text # ""
      BY <1>3, <2>2, <3>1, <3>2
    <3>4. ASSUME NEW i \in 1 .. n + 1, NEW j \in 1 .. n + 1, i # j PROVE key(t[i]) # key(t[j])
      <4>1. CASE i = n + 1
        BY <2>2, <3>1, <3>2, <3>4, <4>1
      <4>2. CASE j = n + 1
        BY <2>2, <3>1, <3>2, <3>4, <4>2
      <4>3. CASE i \in 1 .. n /\ j \in 1 .. n
        BY <1>1, <2>2, <3>4, <4>3 DEF Normal
      <4> QED
        BY <3>2, <4>1, <4>2, <4>3
    <3> QED
      BY <2>2, <3>3, <3>4 DEF Normal
  <2>4. ToSet(t) \subseteq ToSet(s) \cup {e}
    BY <1>1, <2>2 DEF ToSet
  <2>5. KeysOf(t) = {key(t[i]) : i \in 1 .. n + 1} /\ KeysOf(s) = {key(s[i]) : i \in 1 .. n}
    BY <1>1, <2>2, <2>3 DEF KeysOf, Normal
  <2>6. KeysOf(t) = KeysOf(s) \cup {key(e)}
    BY <2>2, <2>5
  <2> QED
    BY <1>3, <2>1, <2>3, <2>4, <2>6
<1> QED
  BY <1>1, <1>2, <1>3 DEF Keep

\* Normalizing keeps every key, and nothing that was not there.
LEMMA Normalizes ==
  ASSUME NEW seq \in Seq(Phrases)
  PROVE  Normal(Norm(seq)) /\ ToSet(Norm(seq)) \subseteq ToSet(seq) /\ KeysOf(Norm(seq)) = KeysOf(seq)
<1>1. PICK len \in Nat : len = Len(seq) /\ DOMAIN seq = 1 .. len
  OBVIOUS
<1>2. PICK N : /\ N[0] = <<>> /\ Norm(seq) = N[len]
               /\ \A n \in Nat : n < len => N[n + 1] = Keep(N[n], seq[n + 1])
  BY <1>1, NormByElement
<1> DEFINE KeysTo(n) == {key(seq[i]) : i \in {j \in 1 .. n : seq[j].text # ""}}
           Fine(n) == /\ Normal(N[n])
                      /\ ToSet(N[n]) \subseteq {seq[i] : i \in 1 .. n}
                      /\ KeysOf(N[n]) = KeysTo(n)
           Good == {n \in Nat : n <= len => Fine(n)}
<1> HIDE DEF Fine, KeysTo
<1>3. Fine(0)
  <2>1. Normal(<<>>) /\ ToSet(<<>>) = {} /\ KeysOf(<<>>) = {} /\ KeysTo(0) = {}
    BY DEF Normal, ToSet, KeysOf, KeysTo
  <2> QED
    BY <1>2, <2>1 DEF Fine
<1>4. ASSUME NEW n \in Nat, Fine(n), n < len PROVE Fine(n + 1)
  <2>1. Normal(N[n]) /\ ToSet(N[n]) \subseteq {seq[i] : i \in 1 .. n} /\ KeysOf(N[n]) = KeysTo(n)
    BY <1>4 DEF Fine
  <2>2. PICK e : e = seq[n + 1]
    OBVIOUS
  <2>3. n + 1 \in 1 .. len /\ e \in Phrases /\ N[n + 1] = Keep(N[n], e)
    <3>1. n + 1 \in 1 .. len /\ len = Len(seq)
      BY <1>1, <1>4
    <3>2. \A S : \A t \in Seq(S) : \A k \in 1 .. Len(t) : t[k] \in S
      OBVIOUS
    <3>3. seq[n + 1] \in Phrases
      BY <3>1, <3>2
    <3> QED
      BY <1>2, <1>4, <2>2, <3>1, <3>3
  <2>4. /\ Normal(N[n + 1]) /\ ToSet(N[n + 1]) \subseteq ToSet(N[n]) \cup {e}
        /\ KeysOf(N[n + 1]) = KeysOf(N[n]) \cup (IF e.text = "" THEN {} ELSE {key(e)})
    <3>1. PICK s : s = N[n]
      OBVIOUS
    <3>2. Normal(s)
      BY <2>1, <3>1
    <3>3. N[n + 1] = Keep(s, e) /\ e \in Phrases
      BY <2>3, <3>1
    <3>4. /\ Normal(Keep(s, e)) /\ ToSet(Keep(s, e)) \subseteq ToSet(s) \cup {e}
          /\ KeysOf(Keep(s, e)) = KeysOf(s) \cup (IF e.text = "" THEN {} ELSE {key(e)})
      BY <3>2, <3>3, KeepStep
    <3> QED
      BY <3>1, <3>3, <3>4
  <2>5. {seq[i] : i \in 1 .. n} \cup {e} \subseteq {seq[i] : i \in 1 .. n + 1}
    BY <2>2
  <2>6. KeysTo(n + 1) = KeysTo(n) \cup (IF e.text = "" THEN {} ELSE {key(e)})
    <3>1. {j \in 1 .. n + 1 : seq[j].text # ""} = {j \in 1 .. n : seq[j].text # ""} \cup (IF e.text = "" THEN {} ELSE {n + 1})
      <4>1. 1 .. n + 1 = 1 .. n \cup {n + 1}
        OBVIOUS
      <4> QED
        BY <2>2, <4>1
    <3> QED
      BY <2>2, <3>1 DEF KeysTo
  <2> QED
    BY <2>1, <2>4, <2>5, <2>6 DEF Fine
<1>5. 0 \in Good /\ \A n \in Nat : n \in Good => n + 1 \in Good
  BY <1>3, <1>4
<1> HIDE DEF Good
<1>6. Fine(len)
  <2>1. len \in Good
    BY <1>5, InductiveSet
  <2> QED
    BY <2>1 DEF Good
<1>7. KeysOf(seq) = KeysTo(len) /\ ToSet(seq) = {seq[i] : i \in 1 .. len}
  BY <1>1 DEF KeysOf, ToSet, KeysTo
<1>8. Normal(N[len]) /\ ToSet(N[len]) \subseteq {seq[i] : i \in 1 .. len} /\ KeysOf(N[len]) = KeysTo(len)
  BY <1>6 DEF Fine
<1> QED
  BY <1>2, <1>7, <1>8

\* A normal list has one element for each of its keys.
LEMMA NormalLength ==
  ASSUME NEW s, Normal(s)
  PROVE  /\ KeysOf(s) = {key(e) : e \in ToSet(s)} /\ IsFiniteSet(KeysOf(s)) /\ Len(s) \in Nat
         /\ Cardinality(KeysOf(s)) = Len(s)
<1>0. s \in Seq(Phrases)
  BY DEF Normal
<1>1. PICK n \in Nat : n = Len(s) /\ DOMAIN s = 1 .. n
  BY <1>0
<1>2. KeysOf(s) = {key(s[i]) : i \in 1 .. n}
  BY <1>1 DEF Normal, KeysOf
<1>3. {key(e) : e \in ToSet(s)} = {key(s[i]) : i \in 1 .. n}
  BY <1>1 DEF ToSet
<1>4. PICK f : f = [i \in 1 .. n |-> key(s[i])]
  OBVIOUS
<1>5. f \in Bijection(1 .. n, KeysOf(s))
  <2>1. \A i, j \in 1 .. n : i # j => f[i] # f[j]
    BY <1>1, <1>4 DEF Normal
  <2>2. f \in [1 .. n -> KeysOf(s)] /\ \A k \in KeysOf(s) : \E i \in 1 .. n : f[i] = k
    BY <1>2, <1>4
  <2> QED
    BY <2>1, <2>2 DEF Bijection, Injection, Surjection, IsInjective
<1>6. IsFiniteSet(1 .. n) /\ Cardinality(1 .. n) = n
  BY FS_Interval
<1>7. ExistsBijection(1 .. n, KeysOf(s))
  BY <1>5 DEF ExistsBijection
<1> QED
  BY <1>1, <1>2, <1>3, <1>6, <1>7, FS_Bijection

-----------------------------------------------------------------------------
(* The rulebook.                                                            *)

Book == [tone : Tones \cup {""}, bannedWords : Seq(Phrases), exemplars : Seq(Phrases)]

VoiceInv == book \in Book /\ Normal(book.exemplars) /\ RulebookIsAsTold

LEMMA InputsAreLists ==
  /\ \A list \in Lists(Exemplars \cup {Blank}) : list \in Seq(Phrases)
  /\ \A list \in Lists(BannedWords \cup {Blank}) : list \in Seq(Phrases)
  /\ \A list \in Lists(Exemplars) \cup Lists(BannedWords) : list \in Seq(Phrases)
<1>1. Exemplars \subseteq Phrases /\ BannedWords \subseteq Phrases /\ Blank \in Phrases
  <2>1. \A t \in Texts, f \in Forms : Entry(t, f) \in Phrases
    BY DEF Entry, Phrases
  <2>2. {"plain", "upper", "spaced"} = Forms /\ {"", "act now", "Act now for a discount", "New hours on Monday"} = Texts
    BY DEF Forms, Texts
  <2> QED
    BY <2>1, <2>2 DEF Exemplars, BannedWords, Blank
<1>2. ASSUME NEW S, S \subseteq Phrases, NEW list \in Lists(S) PROVE list \in Seq(Phrases)
  <2>1. PICK n \in Nat : list \in [1 .. n -> S]
    BY BrandVoiceAssumption DEF Lists
  <2>2. list \in [1 .. n -> Phrases]
    BY <1>2, <2>1
  <2> QED
    BY <2>2
<1> QED
  BY <1>1, <1>2

LEMMA SaveStep ==
  ASSUME NEW input \in Book, NEW who, save(input, who)
  PROVE  /\ book' \in Book /\ writer' = who /\ Normal(book'.exemplars) /\ Normal(book'.bannedWords)
         /\ book'.exemplars = Norm(input.exemplars) /\ book'.bannedWords = Norm(input.bannedWords)
<1>1. book' = [tone |-> input.tone, bannedWords |-> Norm(input.bannedWords), exemplars |-> Norm(input.exemplars)] /\ writer' = who
  BY DEF save, normalizeRulebook, Norm
<1>2. input.exemplars \in Seq(Phrases) /\ input.bannedWords \in Seq(Phrases) /\ input.tone \in Tones \cup {""}
  BY DEF Book
<1>3. Normal(Norm(input.exemplars)) /\ Normal(Norm(input.bannedWords))
  BY <1>2, Normalizes
<1> QED
  BY <1>1, <1>2, <1>3, ZenonT(40) DEF Book, Normal

\* What a merge reports as new is what the list of examples grows by.
LEMMA MergeStep ==
  ASSUME VoiceInv, NEW incoming \in Book, mergeBrandVoice(incoming)
  PROVE  VoiceInv'
<1>1. PICK old, new : old = book.exemplars /\ new = incoming.exemplars
  OBVIOUS
<1>2. old \in Seq(Phrases) /\ new \in Seq(Phrases) /\ Normal(old)
  BY <1>1 DEF VoiceInv, Book
<1>3. PICK all : all = old \o new
  OBVIOUS
<1>4. mergedBookOf(incoming) \in Book /\ mergedBookOf(incoming).exemplars = all
  <2>1. \A s, t \in Seq(Phrases) : s \o t \in Seq(Phrases)
    OBVIOUS
  <2> QED
    BY <1>1, <1>3, <2>1 DEF mergedBookOf, VoiceInv, Book
<1>5. /\ book' \in Book /\ writer' = "merge" /\ Normal(book'.exemplars)
      /\ book'.exemplars = Norm(all)
  BY <1>4, SaveStep DEF mergeBrandVoice
<1>6. added' = [before |-> Len(old), new |-> countAdded(old, new)]
  BY <1>1 DEF mergeBrandVoice
<1>7. PICK a, b \in Nat : a = Len(old) /\ b = Len(new)
  BY <1>2
<1>8. /\ all \in Seq(Phrases) /\ DOMAIN all = 1 .. a + b /\ DOMAIN old = 1 .. a /\ DOMAIN new = 1 .. b
      /\ \A i \in 1 .. a : all[i] = old[i]
      /\ \A i \in 1 .. b : all[a + i] = new[i]
  BY <1>2, <1>3, <1>7
<1>9. KeysOf(all) = KeysOf(old) \cup KeysOf(new)
  <2>1. \A i \in 1 .. a + b : i \in 1 .. a \/ (i - a \in 1 .. b /\ i = a + (i - a))
    OBVIOUS
  <2>2. KeysOf(all) \subseteq KeysOf(old) \cup KeysOf(new)
    <3> SUFFICES ASSUME NEW i \in 1 .. a + b, all[i].text # "" PROVE key(all[i]) \in KeysOf(old) \cup KeysOf(new)
      BY <1>8 DEF KeysOf
    <3>1. CASE i \in 1 .. a
      BY <1>8, <3>1 DEF KeysOf
    <3>2. CASE i - a \in 1 .. b /\ i = a + (i - a)
      <4>1. PICK j \in 1 .. b : i = a + j
        BY <3>2
      <4>2. all[i] = new[j]
        BY <1>8, <4>1
      <4> QED
        BY <1>8, <4>2 DEF KeysOf
    <3> QED
      BY <2>1, <3>1, <3>2
  <2>3. KeysOf(old) \subseteq KeysOf(all)
    <3>1. \A i \in 1 .. a : i \in 1 .. a + b
      OBVIOUS
    <3> QED
      BY <1>8, <3>1 DEF KeysOf
  <2>4. KeysOf(new) \subseteq KeysOf(all)
    <3>1. \A i \in 1 .. b : a + i \in 1 .. a + b
      OBVIOUS
    <3> QED
      BY <1>8, <3>1 DEF KeysOf
  <2> QED
    BY <2>2, <2>3, <2>4
<1>10. KeysOf(Norm(all)) = KeysOf(old) \cup KeysOf(new)
  BY <1>8, <1>9, Normalizes
<1>11. /\ IsFiniteSet(KeysOf(old)) /\ Cardinality(KeysOf(old)) = a /\ KeysOf(old) = {key(e) : e \in ToSet(old)}
       /\ IsFiniteSet(KeysOf(Norm(all))) /\ Cardinality(KeysOf(Norm(all))) = Len(Norm(all))
  BY <1>2, <1>5, <1>7, NormalLength
<1>12. KeysOf(new) = {key(e) : e \in {x \in ToSet(new) : x.text # ""}}
  BY <1>8 DEF KeysOf, ToSet
<1>13. countAdded(old, new) = Cardinality(KeysOf(new) \ KeysOf(old))
  BY <1>11, <1>12 DEF countAdded
<1>14. Len(Norm(all)) = a + countAdded(old, new)
  <2>1. PICK J, K : J = KeysOf(old) /\ K = KeysOf(new) \ KeysOf(old)
    OBVIOUS
  <2>2. J \cup K = KeysOf(Norm(all)) /\ J \cap K = {} /\ K \subseteq KeysOf(Norm(all))
    BY <1>10, <2>1
  <2>3. IsFiniteSet(J) /\ IsFiniteSet(K)
    BY <1>11, <2>1, <2>2, FS_Subset
  <2>4. Cardinality(J \cup K) = Cardinality(J) + Cardinality(K) - Cardinality(J \cap K)
    BY <2>3, FS_Union
  <2>5. Cardinality({}) = 0 /\ Cardinality(K) \in Nat
    BY <2>3, FS_EmptySet, FS_CardinalityType
  <2>6. Cardinality(J \cup K) = a + Cardinality(K)
    <3>1. Cardinality(J) = a /\ Cardinality(J \cap K) = 0
      BY <1>11, <2>1, <2>2, <2>5
    <3>2. Cardinality(K) \in Nat
      BY <2>5
    <3> QED
      BY <2>4, <3>1, <3>2
  <2> QED
    BY <1>11, <1>13, <2>1, <2>2, <2>6
<1>15. AddedIsGrowth'
  BY <1>5, <1>6, <1>7, <1>14 DEF AddedIsGrowth
<1>16. EditorMirrorsProfiler'
  BY <1>5 DEF EditorMirrorsProfiler
<1> QED
  BY <1>5, <1>15, <1>16 DEF VoiceInv, RulebookIsAsTold

\* What the editor accepted it accepts again, and the profiler does not veto.
LEMMA EditStep == ASSUME VoiceInv, saveEdits PROVE VoiceInv'
<1>1. PICK tone \in Tones, words \in Lists(BannedWords \cup {Blank}), exemplars \in Lists(Exemplars) :
        /\ validateRulebook(words, exemplars)
        /\ save(Import(tone, words, exemplars), "editor")
        /\ UNCHANGED added
  BY DEF saveEdits
<1>2. words \in Seq(Phrases) /\ exemplars \in Seq(Phrases) /\ tone \in Tones \cup {""}
  BY InputsAreLists
<1>3. Import(tone, words, exemplars) \in Book
  BY <1>2 DEF Import, Book
<1>4. /\ book' \in Book /\ writer' = "editor" /\ Normal(book'.exemplars) /\ Normal(book'.bannedWords)
      /\ book'.exemplars = Norm(exemplars) /\ book'.bannedWords = Norm(words)
  BY <1>1, <1>3, SaveStep DEF Import
<1>5. ToSet(book'.exemplars) \subseteq ToSet(exemplars) /\ ToSet(book'.bannedWords) \subseteq ToSet(words)
  BY <1>2, <1>4, Normalizes
<1>6. PICK w, e : w = book'.bannedWords /\ e = book'.exemplars
  OBVIOUS
<1>7. \A x \in ToSet(w), y \in ToSet(e) : ~Occurs(x, y)
  BY <1>1, <1>5, <1>6 DEF validateRulebook, Matches
<1>8. \A y \in ToSet(e) : scoreVoice(y, book') = "scored"
  BY <1>6, <1>7 DEF scoreVoice, findBannedHits
<1>9. \A i, j \in DOMAIN w : i # j => w[i].text # w[j].text
  <2> SUFFICES ASSUME NEW i \in DOMAIN w, NEW j \in DOMAIN w, i # j PROVE w[i].text # w[j].text
    OBVIOUS
  <2>1. w \in Seq(Phrases)
    BY <1>4, <1>6 DEF Normal
  <2>2. i \in 1 .. Len(w) /\ j \in 1 .. Len(w)
    BY <2>1
  <2>3. key(w[i]) # key(w[j])
    BY <1>4, <1>6, <2>2 DEF Normal
  <2>4. w[i] \in ToSet(words) /\ w[j] \in ToSet(words)
    BY <1>5, <1>6 DEF ToSet
  <2>5. PICK k, m \in DOMAIN words : words[k] = w[i] /\ words[m] = w[j]
    BY <2>4 DEF ToSet
  <2>6. k # m
    BY <2>3, <2>5
  <2> QED
    BY <1>1, <2>5, <2>6 DEF validateRulebook
<1>10. Blank \notin ToSet(w)
  BY <1>1, <1>5, <1>6 DEF validateRulebook
<1>11. validateRulebook(w, e)
  BY <1>7, <1>9, <1>10 DEF validateRulebook, Matches
<1>12. AddedIsGrowth' /\ EditorMirrorsProfiler'
  BY <1>4, <1>6, <1>8, <1>11 DEF AddedIsGrowth, EditorMirrorsProfiler
<1> QED
  BY <1>4, <1>12 DEF VoiceInv, RulebookIsAsTold

LEMMA PutStep == ASSUME VoiceInv, putRulebook PROVE VoiceInv'
<1>1. PICK words \in Lists(BannedWords), exemplars \in Lists(Exemplars) :
        save(Import("warm", words, exemplars), "client") /\ UNCHANGED added
  BY DEF putRulebook
<1>2. words \in Seq(Phrases) /\ exemplars \in Seq(Phrases)
  BY InputsAreLists
<1>3. Import("warm", words, exemplars) \in Book
  BY <1>2 DEF Import, Book, Tones
<1>4. book' \in Book /\ writer' = "client" /\ Normal(book'.exemplars)
  BY <1>1, <1>3, SaveStep
<1> QED
  BY <1>4 DEF VoiceInv, RulebookIsAsTold, AddedIsGrowth, EditorMirrorsProfiler

\* For imports of any length: a merge reports as new what the stored list grew by, and the
\* editor stores nothing that the profiler would veto or that it would not accept again.
THEOREM RulebookIsAlwaysAsTold == VoiceSpec => []RulebookIsAsTold
<1>1. VoiceInit => VoiceInv
  <2> SUFFICES ASSUME VoiceInit PROVE VoiceInv
    OBVIOUS
  <2>1. book = EMPTY_RULEBOOK /\ book.exemplars = <<>> /\ writer = "nobody"
    BY DEF VoiceInit, EMPTY_RULEBOOK
  <2>2. <<>> \in Seq(Phrases)
    OBVIOUS
  <2>3. book \in Book /\ Normal(<<>>)
    <3>1. Normal(<<>>)
      BY <2>2 DEF Normal
    <3>2. book \in Book
      BY <2>1, <2>2 DEF EMPTY_RULEBOOK, Book
    <3> QED
      BY <3>1, <3>2
  <2> QED
    BY <2>1, <2>3 DEF VoiceInv, RulebookIsAsTold, AddedIsGrowth, EditorMirrorsProfiler
<1>2. VoiceInv /\ [VoiceNext]_voiceVars => VoiceInv'
  <2> SUFFICES ASSUME VoiceInv, [VoiceNext]_voiceVars PROVE VoiceInv'
    OBVIOUS
  <2>1. CASE UNCHANGED voiceVars
    BY <2>1 DEF voiceVars, VoiceInv, RulebookIsAsTold, AddedIsGrowth, EditorMirrorsProfiler
  <2>2. CASE applyRecipe
    <3>1. PICK recipe \in STARTER_RECIPES : mergeBrandVoice(recipe)
      BY <2>2 DEF applyRecipe
    <3>2. recipe \in Book
      <4>1. /\ Entry("act now", "plain") \in Phrases /\ Entry("New hours on Monday", "plain") \in Phrases
        BY DEF Entry, Phrases, Texts, Forms
      <4>2. \A x \in Phrases : <<x>> \in Seq(Phrases)
        OBVIOUS
      <4>3. <<>> \in Seq(Phrases)
        OBVIOUS
      <4> QED
        <5>1. \/ recipe = Import("warm", <<Entry("act now", "plain")>>, <<Entry("New hours on Monday", "plain")>>)
              \/ recipe = Import("polished", <<>>, <<>>)
          BY <3>1 DEF STARTER_RECIPES
        <5>2. \A tone \in Tones : \A w, e \in Seq(Phrases) : Import(tone, w, e) \in Book
          BY DEF Import, Book
        <5>3. "warm" \in Tones /\ "polished" \in Tones
          BY DEF Tones
        <5>4. /\ <<Entry("act now", "plain")>> \in Seq(Phrases)
              /\ <<Entry("New hours on Monday", "plain")>> \in Seq(Phrases)
          BY <4>1, <4>2
        <5> QED
          BY <4>3, <5>1, <5>2, <5>3, <5>4
    <3> QED
      BY <2>1, <3>1, <3>2, MergeStep
  <2>3. CASE importBrandVoice
    <3>1. PICK incoming \in parseBrandVoiceImport : mergeBrandVoice(incoming)
      BY <2>3 DEF importBrandVoice
    <3>2. incoming \in Book
      <4>1. <<>> \in Seq(Phrases)
        OBVIOUS
      <4> QED
        <5>1. \A tone \in Tones \cup {""} : \A w, e \in Seq(Phrases) : Import(tone, w, e) \in Book
          BY DEF Import, Book
        <5>2. \/ \E list \in Lists(Exemplars \cup {Blank}) : incoming = Import("", <<>>, list)
              \/ \E tone \in Tones \cup {""}, banned \in Lists(BannedWords \cup {Blank}) : incoming = Import(tone, banned, <<>>)
          BY <3>1 DEF parseBrandVoiceImport
        <5> QED
          BY <4>1, <5>1, <5>2, InputsAreLists
    <3> QED
      BY <3>1, <3>2, MergeStep
  <2>4. CASE saveEdits
    BY <2>4, EditStep
  <2>5. CASE putRulebook
    BY <2>5, PutStep
  <2> QED
    BY <2>1, <2>2, <2>3, <2>4, <2>5 DEF VoiceNext
<1>3. VoiceInv => RulebookIsAsTold
  BY DEF VoiceInv
<1> QED
  BY <1>1, <1>2, <1>3, PTL DEF VoiceSpec

-----------------------------------------------------------------------------
\* Analytics

EngagementSum(T) == MapThenSumSet(LAMBDA t : t.engagement, T)

IsTotals(T) ==
  /\ IsFiniteSet(T)
  /\ \A t \in T : t.objectId \in Int /\ t.engagement \in Nat
  /\ \A t \in T, u \in T : t.platform = u.platform /\ t.objectId = u.objectId => t = u
OfOnePlatform(T) == \A t \in T, u \in T : t.platform = u.platform

LEMMA SumIsTotal == ASSUME NEW T PROVE EngagementSum(T) = Total([t \in T |-> t.engagement], T)
  BY ZenonT(40) DEF EngagementSum, MapThenSumSet, MapThenFoldSet, FoldFunctionOnSet, Total

LEMMA TotalsCarry == ASSUME NEW T, IsTotals(T), NEW S \in SUBSET T PROVE IsTotals(S) /\ (OfOnePlatform(T) => OfOnePlatform(S))
  BY FS_Subset DEF IsTotals, OfOnePlatform

\* The posts of one platform have the ranks from 1 on, each one post.
LEMMA RanksNumber ==
  ASSUME NEW T, IsTotals(T), OfOnePlatform(T)
  PROVE  /\ Cardinality(T) \in Nat
         /\ \E rank \in Bijection(T, 1 .. Cardinality(T)) :
               \A t \in T : rank[t] = 1 + Cardinality({u \in T : Better(u, t)})
<1> DEFINE Above(t) == {u \in T : Better(u, t)}
<1>1. PICK c : c = Cardinality(T)
  OBVIOUS
<1>2. IsFiniteSet(T) /\ c \in Nat /\ IsFiniteSet(1 .. c) /\ Cardinality(1 .. c) = c
  BY <1>1, FS_CardinalityType, FS_Interval DEF IsTotals
<1>3. \A t \in T : t.objectId \in Int /\ t.engagement \in Nat
  BY DEF IsTotals
<1>4. \A t \in T, u \in T : t # u => t.objectId # u.objectId
  BY DEF IsTotals, OfOnePlatform
<1>5. ASSUME NEW t \in T
      PROVE  IsFiniteSet(Above(t)) /\ Cardinality(Above(t)) \in Nat /\ Cardinality(Above(t)) < c
  <2>1. Above(t) \in SUBSET T
    OBVIOUS
  <2>2. t \notin Above(t)
    BY <1>3 DEF Better
  <2> HIDE DEF Above
  <2> QED
    BY <1>1, <1>2, <2>1, <2>2, FS_Subset, FS_CardinalityType
<1>6. ASSUME NEW t \in T, NEW u \in T, Better(t, u) PROVE Cardinality(Above(t)) < Cardinality(Above(u))
  <2>1. \A x \in T : Better(x, t) => Better(x, u)
    BY <1>3, <1>6 DEF Better
  <2>2. ~ Better(t, t)
    BY <1>3 DEF Better
  <2>3. Above(t) \in SUBSET Above(u) /\ t \in Above(u) /\ t \notin Above(t)
    BY <1>6, <2>1, <2>2
  <2> HIDE DEF Above
  <2> QED
    BY <1>5, <2>3, FS_Subset
<1>7. \A t \in T, u \in T : t # u => Better(t, u) \/ Better(u, t)
  BY <1>3, <1>4 DEF Better
<1>8. PICK rank : rank = [t \in T |-> 1 + Cardinality(Above(t))]
  OBVIOUS
<1> HIDE DEF Above
<1>9. rank \in [T -> 1 .. c]
  BY <1>2, <1>5, <1>8
<1>10. ASSUME NEW t \in T, NEW u \in T, rank[t] = rank[u] PROVE t = u
  <2> SUFFICES ASSUME t # u PROVE FALSE
    OBVIOUS
  <2>1. Cardinality(Above(t)) = Cardinality(Above(u))
    BY <1>5, <1>8, <1>10
  <2> QED
    BY <1>5, <1>6, <1>7, <2>1
<1>11. rank \in Injection(T, 1 .. c)
  BY <1>9, <1>10 DEF Injection, IsInjective
<1>12. rank \in Surjection(T, 1 .. c)
  BY <1>1, <1>2, <1>11, FS_Injection
<1>13. rank \in Bijection(T, 1 .. c)
  BY <1>11, <1>12 DEF Bijection
<1>14. \A t \in T : rank[t] = 1 + Cardinality({u \in T : Better(u, t)})
  BY <1>8 DEF Above
<1> QED
  BY <1>1, <1>2, <1>13, <1>14

\* What a leaderboard says of the posts it was made of.
LEMMA RankedIsRight ==
  ASSUME NEW T, IsTotals(T), OfOnePlatform(T), NEW limit \in Nat \ {0}, NEW b, b = Ranked(T, limit)
  PROVE  /\ {t.rank : t \in b} = 1 .. Cardinality(b)
         /\ EngagementSum(b) <= EngagementSum(T)
         /\ Cardinality(b) < limit => EngagementSum(b) = EngagementSum(T)
<1>1. PICK n : n = Cardinality(T) /\ n \in Nat
  BY RanksNumber
<1>2. PICK rank \in Bijection(T, 1 .. n) : \A t \in T : rank[t] = 1 + Cardinality({u \in T : Better(u, t)})
  BY <1>1, RanksNumber
<1>3. rank \in [T -> 1 .. n] /\ \A t \in T, u \in T : rank[t] = rank[u] => t = u
  BY <1>2 DEF Bijection, Injection, IsInjective
<1>4. \A k \in 1 .. n : \E t \in T : rank[t] = k
  BY <1>2 DEF Bijection, Surjection
<1>5. PICK row : row = [t \in T |-> [platform |-> t.platform, externalId |-> t.objectId,
                                     engagement |-> t.engagement, rank |-> rank[t]]]
  OBVIOUS
<1>6. PICK B : B = {t \in T : rank[t] <= limit}
  OBVIOUS
<1>7. b = {row[t] : t \in B}
  <2>1. {[platform |-> t.platform, externalId |-> t.objectId, engagement |-> t.engagement,
          rank |-> 1 + Cardinality({u \in T : Better(u, t)})] : t \in T} = {row[t] : t \in T}
    BY <1>2, <1>5
  <2>2. b = {r \in {row[t] : t \in T} : r.rank <= limit}
    BY <2>1 DEF Ranked
  <2>3. \A t \in T : row[t].rank = rank[t]
    BY <1>5
  <2> QED
    BY <1>6, <2>2, <2>3
<1>8. PICK h : h = [t \in B |-> row[t]]
  OBVIOUS
<1>9. h \in Bijection(B, b)
  <2>1. \A t \in B, u \in B : h[t] = h[u] => t.platform = u.platform /\ t.objectId = u.objectId
    BY <1>5, <1>6, <1>8
  <2>2. \A t \in B, u \in B : h[t] = h[u] => t = u
    BY <1>6, <2>1 DEF IsTotals
  <2>3. h \in [B -> b] /\ \A r \in b : \E t \in B : h[t] = r
    BY <1>7, <1>8
  <2> QED
    BY <2>2, <2>3 DEF Bijection, Injection, IsInjective, Surjection
<1>10. PICK m \in Nat : m = IF n <= limit THEN n ELSE limit
  BY <1>1
<1>11. PICK low : low = [t \in B |-> rank[t]]
  OBVIOUS
<1>12. low \in Bijection(B, 1 .. m)
  <2>1. \A t \in B : low[t] = rank[t] /\ rank[t] \in 1 .. n /\ rank[t] <= limit
    BY <1>3, <1>6, <1>11
  <2>2. low \in [B -> 1 .. m]
    BY <1>1, <1>10, <1>11, <2>1
  <2>3. \A k \in 1 .. m : k \in 1 .. n /\ k <= limit
    BY <1>1, <1>10
  <2>4. \A k \in 1 .. m : \E t \in B : low[t] = k
    BY <1>4, <1>6, <1>11, <2>3
  <2>5. \A t \in B, u \in B : low[t] = low[u] => t = u
    BY <1>3, <1>6, <1>11
  <2> QED
    BY <2>2, <2>4, <2>5 DEF Bijection, Injection, IsInjective, Surjection
<1>13. IsFiniteSet(T) /\ B \in SUBSET T /\ IsFiniteSet(B)
  BY <1>6, FS_Subset DEF IsTotals
<1>14. Cardinality(b) = m
  <2>1. Cardinality(b) = Cardinality(B)
    BY <1>9, <1>13, FS_Bijection DEF ExistsBijection
  <2>2. Cardinality(1 .. m) = Cardinality(B)
    BY <1>12, <1>13, FS_Bijection DEF ExistsBijection
  <2>3. Cardinality(1 .. m) = m
    BY <1>10, FS_Interval
  <2> QED
    BY <2>1, <2>2, <2>3
<1>15. {t.rank : t \in b} = 1 .. m
  <2>1. \A t \in B : row[t].rank = low[t]
    BY <1>5, <1>6, <1>11
  <2>2. {t.rank : t \in b} = {low[t] : t \in B}
    BY <1>7, <2>1
  <2>3. (\A t \in B : low[t] \in 1 .. m) /\ \A k \in 1 .. m : \E t \in B : low[t] = k
    BY <1>12 DEF Bijection, Injection, Surjection
  <2> QED
    BY <2>2, <2>3
<1>16. PICK f, g : f = [t \in T |-> t.engagement] /\ g = [r \in b |-> r.engagement]
  OBVIOUS
<1>17. \A t \in T : f[t] \in Nat
  BY <1>16 DEF IsTotals
<1>18. EngagementSum(b) = Total(f, B)
  <2>1. \A t \in B : g[h[t]] = f[t]
    BY <1>5, <1>6, <1>7, <1>8, <1>16
  <2>2. \A t \in B : f[t] \in Nat
    BY <1>6, <1>17
  <2>3. Total(f, B) = Total(g, b)
    BY <1>9, <1>13, <2>1, <2>2, TotalRenamed
  <2> QED
    BY <1>16, <2>3, SumIsTotal
<1>19. EngagementSum(T) = Total(f, T)
  BY <1>16, SumIsTotal
<1>20. Total(f, B) <= Total(f, T)
  BY <1>13, <1>17, TotalOfPart
<1>21. m < limit => B = T
  BY <1>1, <1>3, <1>6, <1>10
<1> QED
  BY <1>14, <1>15, <1>18, <1>19, <1>20, <1>21

-----------------------------------------------------------------------------
(* What is aggregated.                                                      *)

ReadingsTyped == IsFiniteSet(raw) /\ \A r \in raw : r.value \in Nat /\ r.objectId \in Int

LEMMA MetricsSum ==
  ASSUME NEW seen, NEW p, NEW i, NEW M
  PROVE  sumMetrics(seen, p, i, M) = Total([m \in M |-> Max(Readings(seen, p, i, m) \cup {0})], M)
  BY ZenonT(40) DEF sumMetrics, MapThenSumSet, MapThenFoldSet, FoldFunctionOnSet, Total

LEMMA MetricsSumIsNat ==
  ASSUME NEW seen, IsFiniteSet(seen), \A r \in seen : r.value \in Nat, NEW p, NEW i
  PROVE  sumMetrics(seen, p, i, ENGAGEMENT_METRICS) \in Nat
<1>1. IsFiniteSet(ENGAGEMENT_METRICS)
  <2>1. ENGAGEMENT_METRICS = ((({"likes"} \cup {"comments"}) \cup {"replies"}) \cup {"retweets"}) \cup {"saved"}
    BY DEF ENGAGEMENT_METRICS
  <2> QED
    BY <2>1, FS_Singleton, FS_Union
<1>2. PICK f : f = [m \in ENGAGEMENT_METRICS |-> Max(Readings(seen, p, i, m) \cup {0})]
  OBVIOUS
<1>3. ASSUME NEW m \in ENGAGEMENT_METRICS PROVE f[m] \in Nat
  <2>1. PICK S : S = {s \in seen : s.platform = p /\ s.objectId = i /\ s.metric = m}
    OBVIOUS
  <2>2. IsFiniteSet(S)
    BY <2>1, FS_Subset
  <2>3. PICK v : v = [r \in S |-> r.value]
    OBVIOUS
  <2>4. Readings(seen, p, i, m) = {v[r] : r \in S}
    BY <2>1, <2>3 DEF Readings
  <2>5. IsFiniteSet(Readings(seen, p, i, m) \cup {0})
    <3>1. IsFiniteSet(Readings(seen, p, i, m))
      BY <2>2, <2>4, FiniteImage
    <3> QED
      BY <3>1, FS_AddElement
  <2>6. Readings(seen, p, i, m) \cup {0} \in SUBSET Nat
    BY <2>1, <2>3, <2>4
  <2>7. Max(Readings(seen, p, i, m) \cup {0}) \in Readings(seen, p, i, m) \cup {0}
    BY <2>5, <2>6, MaxIsGreatest
  <2> QED
    BY <1>2, <2>6, <2>7
<1> QED
  BY <1>1, <1>2, <1>3, MetricsSum, TotalIsNat

LEMMA Aggregates ==
  ASSUME ReadingsTyped, NEW t, NEW days
  PROVE  IsTotals(aggregatePostMetrics(raw, t, days))
<1>1. PICK seen : seen = {r \in raw : /\ r.objectType \in POST_LIKE_OBJECT_TYPES
                                      /\ withinWindow(r.capturedFor, t, days)
                                      /\ r.metric \in ENGAGEMENT_METRICS \cup IMPRESSION_METRICS}
  OBVIOUS
<1>2. IsFiniteSet(seen) /\ \A r \in seen : r.value \in Nat /\ r.objectId \in Int
  BY <1>1, FS_Subset DEF ReadingsTyped
<1>3. PICK e : e = [r \in seen |-> <<r.platform, r.objectId>>]
  OBVIOUS
<1>4. PICK keys : keys = {e[r] : r \in seen}
  OBVIOUS
<1>5. IsFiniteSet(keys)
  BY <1>2, <1>4, FiniteImage
<1>6. \A k \in keys : \E r \in seen : k = <<r.platform, r.objectId>>
  BY <1>3, <1>4
<1>7. PICK total : total = [k \in keys |-> [platform |-> k[1], objectId |-> k[2],
                               engagement |-> sumMetrics(seen, k[1], k[2], ENGAGEMENT_METRICS),
                               impressions |-> sumMetrics(seen, k[1], k[2], IMPRESSION_METRICS)]]
  OBVIOUS
<1>8. PICK T : T = {total[k] : k \in keys}
  OBVIOUS
<1>9. aggregatePostMetrics(raw, t, days) = T
  <2>1. keys = {<<r.platform, r.objectId>> : r \in seen}
    BY <1>3, <1>4
  <2>2. T = {[platform |-> k[1], objectId |-> k[2],
              engagement |-> sumMetrics(seen, k[1], k[2], ENGAGEMENT_METRICS),
              impressions |-> sumMetrics(seen, k[1], k[2], IMPRESSION_METRICS)] : k \in keys}
    BY <1>7, <1>8
  <2> QED
    BY <1>1, <2>1, <2>2 DEF aggregatePostMetrics
<1>10. IsFiniteSet(T)
  BY <1>5, <1>8, FiniteImage
<1>11. ASSUME NEW x \in T PROVE x.objectId \in Int /\ x.engagement \in Nat
  <2>1. PICK k \in keys : x = total[k]
    BY <1>8
  <2>2. PICK r \in seen : k = <<r.platform, r.objectId>>
    BY <1>6
  <2>3. sumMetrics(seen, k[1], k[2], ENGAGEMENT_METRICS) \in Nat
    BY <1>2, MetricsSumIsNat
  <2> QED
    BY <1>2, <1>7, <2>1, <2>2, <2>3
<1>12. ASSUME NEW x \in T, NEW y \in T, x.platform = y.platform, x.objectId = y.objectId PROVE x = y
  <2>1. PICK k \in keys : x = total[k]
    BY <1>8
  <2>2. PICK l \in keys : y = total[l]
    BY <1>8
  <2>3. k[1] = l[1] /\ k[2] = l[2]
    BY <1>7, <1>12, <2>1, <2>2
  <2>4. k = l
    BY <1>6, <2>3
  <2> QED
    BY <2>1, <2>2, <2>4
<1> QED
  BY <1>9, <1>10, <1>11, <1>12 DEF IsTotals

PostsOf(totals, p) == {t \in totals : t.platform = p}

LEMMA OnePlatforms == ASSUME NEW totals, IsTotals(totals), NEW p
                      PROVE  IsTotals(PostsOf(totals, p)) /\ OfOnePlatform(PostsOf(totals, p))
<1>1. PostsOf(totals, p) \in SUBSET totals
  BY DEF PostsOf
<1>2. IsTotals(PostsOf(totals, p))
  BY <1>1, TotalsCarry
<1> QED
  BY <1>2 DEF PostsOf, OfOnePlatform

Row(T, t) == [platform |-> t.platform, externalId |-> t.objectId, engagement |-> t.engagement,
              rank |-> 1 + Cardinality({u \in T : Better(u, t)})]

\* The rows of a leaderboard are its posts', each with its rank.
LEMMA RankedRows ==
  ASSUME NEW T, NEW limit
  PROVE  /\ \A r \in Ranked(T, limit) : \E t \in T : r = Row(T, t) /\ r.rank <= limit
         /\ \A t \in T : Row(T, t).rank <= limit => Row(T, t) \in Ranked(T, limit)
<1>1. Ranked(T, limit) = {r \in {Row(T, t) : t \in T} : r.rank <= limit}
  BY DEF Ranked, Row
<1> QED
  BY <1>1

LEMMA TopOfPlatform ==
  ASSUME NEW insights, NEW t, NEW days, NEW limit, NEW p
  PROVE  {r \in topPosts(insights, t, days, limit) : r.platform = p}
            = Ranked(PostsOf(aggregatePostMetrics(insights, t, days), p), limit)
<1>1. PICK T : T = aggregatePostMetrics(insights, t, days)
  OBVIOUS
<1>2. topPosts(insights, t, days, limit) = UNION {Ranked(PostsOf(T, q), limit) : q \in {x.platform : x \in T}}
  BY <1>1 DEF topPosts, PostsOf
<1>3. \A q : \A r \in Ranked(PostsOf(T, q), limit) : r.platform = q /\ q \in {x.platform : x \in T}
  <2> SUFFICES ASSUME NEW q, NEW r \in Ranked(PostsOf(T, q), limit)
               PROVE  r.platform = q /\ q \in {x.platform : x \in T}
    OBVIOUS
  <2>1. PICK x \in PostsOf(T, q) : r = Row(PostsOf(T, q), x)
    BY RankedRows
  <2>2. x \in T /\ x.platform = q
    BY <2>1 DEF PostsOf
  <2> QED
    BY <2>1, <2>2 DEF Row
<1> QED
  BY <1>1, <1>2, <1>3

-----------------------------------------------------------------------------
(* The invariant.                                                           *)

TablesArePast == \A r \in rollup \cup board : r.capturedFor \in 0 .. utcDayKey(now)

\* Of every stored figure of engagement there are posts that it adds up, and
\* the leaderboard beside it ranks them.
BoardOf(r, T) == /\ IsTotals(T) /\ OfOnePlatform(T)
                 /\ r.value = EngagementSum(T)
                 /\ BoardOn(r.capturedFor, r.windowDays, r.platform) = Ranked(T, TopLimit)
BoardsAreTheirs == \A r \in rollup : r.metric = "engagement" => \E T : BoardOf(r, T)

DigestIsPlaced ==
  /\ digest = [at |-> digest.at, channels |-> digest.channels, tried |-> digest.tried]
  /\ digest.at \in {"idle", "telegram", "email", "done"} /\ digest.channels \subseteq {"telegram", "email"}
  /\ digest.at = "telegram" => digest.tried = {}
  /\ digest.at = "email" => digest.tried = {"telegram"} \cap digest.channels
  /\ digest.at = "done" => digest.tried = digest.channels

FiguresInv == now \in Nat /\ ReadingsTyped /\ TablesArePast /\ BoardsAreTheirs /\ DigestIsPlaced

LEMMA FiguresStart == AnalyticsInit => FiguresInv
<1> SUFFICES ASSUME AnalyticsInit PROVE FiguresInv
  OBVIOUS
<1>1. now \in Nat /\ TablesArePast /\ BoardsAreTheirs
  BY DEF AnalyticsInit, TablesArePast, BoardsAreTheirs
<1>2. ReadingsTyped
  BY FS_EmptySet DEF AnalyticsInit, ReadingsTyped
<1>3. DigestIsPlaced
  BY DEF AnalyticsInit, DigestIsPlaced
<1> QED
  BY <1>1, <1>2, <1>3 DEF FiguresInv

LEMMA HalfDays == ASSUME NEW n \in Nat PROVE n \div 2 \in Int /\ 2 * (n \div 2) <= n /\ n < 2 * (n \div 2) + 2
<1>1. n \div 2 \in Int /\ n % 2 \in 0 .. 1 /\ n % 2 = n - 2 * (n \div 2)
  OBVIOUS
<1>2. PICK q \in Int, r \in Int : q = n \div 2 /\ r = n % 2
  BY <1>1
<1>3. r \in 0 .. 1 /\ r = n - 2 * q
  BY <1>1, <1>2
<1>4. 2 * q <= n /\ n < 2 * q + 2
  BY <1>2, <1>3
<1> QED
  BY <1>2, <1>4

LEMMA TablesStay ==
  ASSUME FiguresInv, UNCHANGED <<rollup, board>>, now' \in Nat, now <= now'
  PROVE  TablesArePast' /\ BoardsAreTheirs'
<1>1. TablesArePast'
  <2>1. utcDayKey(now) \in Int /\ utcDayKey(now') \in Int /\ utcDayKey(now) <= utcDayKey(now')
    <3>1. PICK m, n \in Nat : m = now /\ n = now' /\ m <= n
      BY DEF FiguresInv
    <3>2. PICK p, q \in Int : p = m \div 2 /\ q = n \div 2
      BY HalfDays
    <3>3. 2 * p <= m /\ n < 2 * q + 2
      BY <3>2, HalfDays
    <3>4. m <= n
      BY <3>1
    <3>5. p <= q
      BY <3>3, <3>4
    <3> QED
      BY <3>1, <3>2, <3>5 DEF utcDayKey, DAY
  <2>2. TablesArePast
    BY DEF FiguresInv
  <2> QED
    BY <2>1, <2>2 DEF TablesArePast
<1>2. BoardsAreTheirs'
  <2>1. BoardsAreTheirs
    BY DEF FiguresInv
  <2> QED
    BY <2>1 DEF BoardsAreTheirs, BoardOf, BoardOn
<1> QED
  BY <1>1, <1>2

LEMMA FiguresOfPlatform == ASSUME NEW totals, NEW p PROVE engagementOf(totals, p) = EngagementSum(PostsOf(totals, p))
  BY DEF engagementOf, EngagementSum, PostsOf

LEMMA RollupRow ==
  ASSUME NEW r \in rollupEngagement(raw, posts, now)
  PROVE  /\ r.capturedFor = utcDayKey(now)
         /\ r.windowDays \in ROLLUP_WINDOWS
         /\ r.metric = "engagement" =>
               r.value = engagementOf(aggregatePostMetrics(raw, now, r.windowDays), r.platform)
<1>1. PICK w \in ROLLUP_WINDOWS : r \in windowRows(raw, posts, now, w)
  BY DEF rollupEngagement
<1>2. PICK k : r = [platform |-> k[1], windowDays |-> w, metric |-> k[2],
                    value |-> figure(aggregatePostMetrics(raw, now, w), followersByPlatform(raw, now, w, k[1]), k[1], k[2]),
                    capturedFor |-> utcDayKey(now)]
  BY <1>1 DEF windowRows
<1>3. r.metric = "engagement" => r.value = engagementOf(aggregatePostMetrics(raw, now, w), k[1])
  BY <1>2 DEF figure
<1> QED
  BY <1>1, <1>2, <1>3

LEMMA AggregationStep == ASSUME FiguresInv, runAggregation PROVE FiguresInv'
<1>1. PICK day, rows, boards :
        /\ day = utcDayKey(now) /\ rows = rollupEngagement(raw, posts, now)
        /\ boards = UNION {{[post |-> t, windowDays |-> w, capturedFor |-> day] : t \in topPosts(raw, now, w, TopLimit)} :
                              w \in ROLLUP_WINDOWS}
  OBVIOUS
<1>2. /\ rollup' = {r \in rollup : r.capturedFor # day} \cup rows
      /\ board' = {r \in board : r.capturedFor # day} \cup boards
      /\ UNCHANGED <<now, zone, raw, posts, digest>>
  BY <1>1 DEF runAggregation, writeSnapshot, Replace
<1>3. now' \in Nat /\ ReadingsTyped' /\ DigestIsPlaced'
  BY <1>2 DEF FiguresInv, ReadingsTyped, DigestIsPlaced
<1>4. day \in Nat
  BY <1>1 DEF FiguresInv, utcDayKey, DAY
<1>5. TablesArePast'
  <2>1. \A r \in rows : r.capturedFor = day
    BY <1>1, RollupRow
  <2>2. \A r \in boards : r.capturedFor = day
    BY <1>1
  <2> QED
    BY <1>1, <1>2, <1>4, <2>1, <2>2 DEF FiguresInv, TablesArePast
<1>6. ASSUME NEW r \in rollup', r.metric = "engagement" PROVE (\E T : BoardOf(r, T))'
  <2>1. CASE r \in rollup /\ r.capturedFor # day
    <3>1. PICK T : BoardOf(r, T)
      BY <1>6, <2>1 DEF FiguresInv, BoardsAreTheirs
    <3>2. \A x \in boards : x.capturedFor = day
      BY <1>1
    <3>3. {x \in board' : x.capturedFor = r.capturedFor /\ x.windowDays = r.windowDays /\ x.post.platform = r.platform}
            = {x \in board : x.capturedFor = r.capturedFor /\ x.windowDays = r.windowDays /\ x.post.platform = r.platform}
      BY <1>2, <2>1, <3>2
    <3>4. BoardOn(r.capturedFor, r.windowDays, r.platform)' = BoardOn(r.capturedFor, r.windowDays, r.platform)
      BY <3>3 DEF BoardOn
    <3> QED
      BY <3>1, <3>4 DEF BoardOf
  <2>2. CASE r \in rows
    <3>1. PICK w, p : w = r.windowDays /\ p = r.platform
      OBVIOUS
    <3>2. w \in ROLLUP_WINDOWS /\ r.capturedFor = day /\ r.value = engagementOf(aggregatePostMetrics(raw, now, w), p)
      BY <1>1, <1>6, <2>2, <3>1, RollupRow
    <3>3. PICK T : T = PostsOf(aggregatePostMetrics(raw, now, w), p)
      OBVIOUS
    <3>4. IsTotals(T) /\ OfOnePlatform(T)
      BY <3>3, Aggregates, OnePlatforms DEF FiguresInv
    <3>5. r.value = EngagementSum(T)
      BY <3>2, <3>3, FiguresOfPlatform
    <3>6. {x \in board' : x.capturedFor = day /\ x.windowDays = w /\ x.post.platform = p}
            = {x \in boards : x.windowDays = w /\ x.post.platform = p}
      BY <1>1, <1>2
    <3>7. {x.post : x \in {y \in boards : y.windowDays = w /\ y.post.platform = p}}
            = {t \in topPosts(raw, now, w, TopLimit) : t.platform = p}
      <4>1. \A t, v : v \in ROLLUP_WINDOWS /\ t \in topPosts(raw, now, v, TopLimit) =>
               [post |-> t, windowDays |-> v, capturedFor |-> day] \in boards
        BY <1>1
      <4>2. \A x \in boards : x.post \in topPosts(raw, now, x.windowDays, TopLimit)
        BY <1>1
      <4>3. ASSUME NEW t \in topPosts(raw, now, w, TopLimit), t.platform = p
            PROVE  t \in {x.post : x \in {y \in boards : y.windowDays = w /\ y.post.platform = p}}
        <5>1. PICK x : x = [post |-> t, windowDays |-> w, capturedFor |-> day]
          OBVIOUS
        <5>2. x \in boards /\ x.post = t /\ x.windowDays = w
          BY <3>2, <4>1, <5>1
        <5> QED
          BY <4>3, <5>2
      <4> QED
        BY <4>2, <4>3
    <3>8. BoardOn(r.capturedFor, r.windowDays, r.platform)' = Ranked(T, TopLimit)
      BY <3>1, <3>2, <3>3, <3>6, <3>7, TopOfPlatform DEF BoardOn
    <3>9. BoardOf(r, T)'
      BY <3>4, <3>5, <3>8 DEF BoardOf
    <3> QED
      BY <3>9
  <2> QED
    BY <1>2, <2>1, <2>2
<1>7. BoardsAreTheirs'
  BY <1>6 DEF BoardsAreTheirs
<1> QED
  BY <1>3, <1>5, <1>7 DEF FiguresInv

LEMMA ReadingsStep == ASSUME FiguresInv, record \/ erase PROVE FiguresInv'
<1>1. UNCHANGED <<now, rollup, board, digest>>
  BY DEF record, erase
<1>2. now' \in Nat /\ now <= now' /\ DigestIsPlaced'
  BY <1>1 DEF FiguresInv, DigestIsPlaced
<1>3. TablesArePast' /\ BoardsAreTheirs'
  BY <1>1, <1>2, TablesStay
<1>4. CASE record
  <2>1. PICK m \in Meters, v \in 1 .. MaxValue, stays \in SUBSET raw, on \in {utcDayKey(now), Token} :
          raw' = stays \cup {[platform |-> m.platform, objectType |-> m.objectType, objectId |-> m.objectId,
                             metric |-> m.metric, value |-> v, capturedFor |-> on]}
    BY <1>4 DEF record
  <2>2. PICK x : x = [platform |-> m.platform, objectType |-> m.objectType, objectId |-> m.objectId,
                      metric |-> m.metric, value |-> v, capturedFor |-> on]
    OBVIOUS
  <2>3. x.value \in Nat /\ x.objectId \in Int
    BY <2>2, AnalyticsAssumption
  <2>4. IsFiniteSet(stays) /\ \A r \in stays : r.value \in Nat /\ r.objectId \in Int
    BY FS_Subset DEF FiguresInv, ReadingsTyped
  <2>5. IsFiniteSet(stays \cup {x})
    BY <2>4, FS_AddElement
  <2>6. ReadingsTyped'
    BY <2>1, <2>2, <2>3, <2>4, <2>5 DEF ReadingsTyped
  <2> QED
    BY <1>2, <1>3, <2>6 DEF FiguresInv
<1>5. CASE erase
  <2>1. raw' \in SUBSET raw
    BY <1>5 DEF erase
  <2>2. ReadingsTyped'
    BY <2>1, FS_Subset DEF FiguresInv, ReadingsTyped
  <2> QED
    BY <1>2, <1>3, <2>2 DEF FiguresInv
<1> QED
  BY <1>4, <1>5

LEMMA DigestGoesOn ==
  ASSUME runDigest
  PROVE  /\ digest.at \in {"telegram", "email"}
         /\ digest' = [digest EXCEPT !.tried = @ \cup ({digest.at} \cap digest.channels),
                                     !.at = IF @ = "telegram" THEN "email" ELSE "done"]
         /\ UNCHANGED <<now, raw, rollup, board>>
<1>1. PICK ok \in BOOLEAN :
        /\ digest.at \in {"telegram", "email"}
        /\ digest' = [digest EXCEPT !.tried = @ \cup ({digest.at} \cap digest.channels),
                                    !.at = IF @ = "telegram" THEN afterTelegram(ok) ELSE "done"]
        /\ UNCHANGED <<now, zone, raw, posts, rollup, heatmap, board>>
  BY Zenon DEF runDigest
<1>2. afterTelegram(ok) = "email"
  BY DEF afterTelegram
<1> QED
  BY <1>1, <1>2

LEMMA DigestStep == ASSUME FiguresInv, digestTick \/ runDigest \/ digestDone PROVE FiguresInv'
<1>1. UNCHANGED <<now, raw, rollup, board>>
  <2>1. CASE digestTick
    BY <2>1 DEF digestTick
  <2>2. CASE runDigest
    BY <2>2, DigestGoesOn
  <2>3. CASE digestDone
    BY <2>3 DEF digestDone
  <2> QED
    BY <2>1, <2>2, <2>3
<1>2. now' \in Nat /\ now <= now' /\ ReadingsTyped'
  BY <1>1 DEF FiguresInv, ReadingsTyped
<1>3. TablesArePast' /\ BoardsAreTheirs'
  BY <1>1, <1>2, TablesStay
<1>4. CASE digestTick \/ digestDone
  <2>1. DigestIsPlaced'
    BY <1>4 DEF digestTick, digestDone, DigestIsPlaced
  <2> QED
    BY <1>2, <1>3, <2>1 DEF FiguresInv
<1>5. CASE runDigest
  <2>1. PICK a, c, t : a = digest.at /\ c = digest.channels /\ t = digest.tried
    OBVIOUS
  <2>2. /\ digest = [at |-> a, channels |-> c, tried |-> t] /\ a \in {"telegram", "email"} /\ c \subseteq {"telegram", "email"}
        /\ a = "telegram" => t = {}
        /\ a = "email" => t = {"telegram"} \cap c
    BY <1>5, <2>1, DigestGoesOn DEF FiguresInv, DigestIsPlaced
  <2>3. digest' = [at |-> IF a = "telegram" THEN "email" ELSE "done", channels |-> c, tried |-> t \cup ({a} \cap c)]
    <3>1. digest' = [digest EXCEPT !.tried = t \cup ({a} \cap c), !.at = IF a = "telegram" THEN "email" ELSE "done"]
      BY <1>5, <2>1, DigestGoesOn
    <3> QED
      BY <2>2, <3>1
  <2>4. DigestIsPlaced'
    BY <2>2, <2>3 DEF DigestIsPlaced
  <2> QED
    BY <1>2, <1>3, <2>4 DEF FiguresInv
<1> QED
  BY <1>4, <1>5

LEMMA FiguresStep == FiguresInv /\ [AnalyticsNext]_analyticsVars => FiguresInv'
<1> SUFFICES ASSUME FiguresInv, [AnalyticsNext]_analyticsVars PROVE FiguresInv'
  OBVIOUS
<1>1. CASE publish \/ Tick \/ UNCHANGED analyticsVars
  <2>1. UNCHANGED <<raw, rollup, board, digest>> /\ now' \in Nat /\ now <= now'
    BY <1>1 DEF FiguresInv, publish, Tick, analyticsVars
  <2>2. ReadingsTyped' /\ DigestIsPlaced'
    BY <2>1 DEF FiguresInv, ReadingsTyped, DigestIsPlaced
  <2> QED
    BY <2>1, <2>2, TablesStay DEF FiguresInv
<1> QED
  BY <1>1, AggregationStep, ReadingsStep, DigestStep DEF AnalyticsNext

-----------------------------------------------------------------------------
(* What follows from it.                                                    *)

LEMMA BoardsRank ==
  ASSUME FiguresInv, NEW r \in rollup, r.metric = "engagement", NEW b, b = BoardOn(r.capturedFor, r.windowDays, r.platform)
  PROVE  /\ {t.rank : t \in b} = 1 .. Cardinality(b)
         /\ EngagementSum(b) <= r.value
         /\ Cardinality(b) < TopLimit => EngagementSum(b) = r.value
<1>1. PICK T : BoardOf(r, T)
  BY DEF FiguresInv, BoardsAreTheirs
<1>2. TopLimit \in Nat \ {0}
  BY AnalyticsAssumption
<1> QED
  BY <1>1, <1>2, RankedIsRight DEF BoardOf

LEMMA CardsAreLastPoints ==
  ASSUME FiguresInv, rollup # {}, NEW w
  PROVE  pivotEngagement(w, Max({r.capturedFor : r \in rollup})) = Card(w, "engagement")
<1>1. PICK D, day : D = {r.capturedFor : r \in rollup} /\ day = Max(D)
  OBVIOUS
<1>2. utcDayKey(now) \in Nat
  BY DEF FiguresInv, utcDayKey, DAY
<1>3. D \in SUBSET Nat /\ D # {} /\ \A d \in D : d <= utcDayKey(now)
  BY <1>1, <1>2 DEF FiguresInv, TablesArePast
<1>4. IsFiniteSet(D)
  BY <1>2, <1>3, FS_BoundedSetOfNaturals
<1>5. day \in D /\ \A d \in D : d <= day
  BY <1>1, <1>3, <1>4, MaxIsGreatest
<1>6. \A r \in rollup : r.capturedFor = day <=> \A s \in rollup : s.capturedFor <= r.capturedFor
  <2> SUFFICES ASSUME NEW r \in rollup PROVE r.capturedFor = day <=> \A s \in rollup : s.capturedFor <= r.capturedFor
    OBVIOUS
  <2>1. \A s \in rollup : s.capturedFor \in D
    BY <1>1
  <2>2. PICK s \in rollup : s.capturedFor = day
    BY <1>1, <1>5
  <2>3. r.capturedFor \in Nat /\ day \in Nat /\ r.capturedFor <= day
    BY <1>3, <1>5, <2>1
  <2>4. ASSUME r.capturedFor = day, NEW x \in rollup PROVE x.capturedFor <= r.capturedFor
    BY <1>5, <2>1, <2>4
  <2>5. ASSUME \A x \in rollup : x.capturedFor <= r.capturedFor PROVE r.capturedFor = day
    <3>1. day <= r.capturedFor
      BY <2>2, <2>5
    <3> QED
      BY <2>3, <3>1
  <2> QED
    BY <2>4, <2>5
<1>7. {r \in getEngagementSeries(w) : r.capturedFor = day} = {r \in getSummary(w) : r.metric = "engagement"}
  BY <1>6 DEF getEngagementSeries, getSummary, Latest
<1> QED
  BY <1>1, <1>7 DEF pivotEngagement, Card

\* The leaderboards of a day on which the figures count anything are of that day.
LEMMA OldBoardsCountNothing ==
  ASSUME FiguresInv, NEW b \in Latest(board), NEW r \in Latest(rollup),
         b.capturedFor < r.capturedFor, r.metric = "engagement"
  PROVE  r.value = 0
<1>1. r \in rollup /\ b \in board /\ \A s \in board : s.capturedFor <= b.capturedFor
  BY DEF Latest
<1>2. ASSUME NEW s \in board PROVE s.capturedFor # r.capturedFor
  <2>1. utcDayKey(now) \in Nat
    BY DEF FiguresInv, utcDayKey, DAY
  <2>2. s.capturedFor \in Nat /\ b.capturedFor \in Nat /\ r.capturedFor \in Nat
    BY <1>1, <2>1 DEF FiguresInv, TablesArePast
  <2> QED
    BY <1>1, <2>2
<1>3. BoardOn(r.capturedFor, r.windowDays, r.platform) = {}
  BY <1>2 DEF BoardOn
<1>4. EngagementSum({}) = 0
  BY SumIsTotal, TotalOfNothing
<1>5. Cardinality({}) = 0 /\ TopLimit \in Nat \ {0}
  BY FS_EmptySet, AnalyticsAssumption
<1>6. Cardinality(BoardOn(r.capturedFor, r.windowDays, r.platform)) < TopLimit =>
        EngagementSum(BoardOn(r.capturedFor, r.windowDays, r.platform)) = r.value
  BY <1>1, BoardsRank
<1>7. Cardinality({}) < TopLimit
  BY <1>5
<1> QED
  BY <1>3, <1>4, <1>6, <1>7

LEMMA HighlightsAreRanked ==
  ASSUME FiguresInv, NEW t \in composeWeeklyDigest(raw, now).top, t.rank <= TopLimit
  PROVE  \E u \in topPosts(raw, now, Week, TopLimit) : u.externalId = t.externalId /\ u.rank <= t.rank
<1>1. PICK T : T = aggregatePostMetrics(raw, now, Week)
  OBVIOUS
<1>2. IsTotals(T)
  BY <1>1, Aggregates DEF FiguresInv
<1>3. PICK x \in T : t = Row(T, x)
  BY <1>1, RankedRows DEF composeWeeklyDigest
<1>4. PICK P : P = PostsOf(T, x.platform)
  OBVIOUS
<1>5. x \in P /\ P \in SUBSET T
  BY <1>4 DEF PostsOf
<1>6. Cardinality({u \in P : Better(u, x)}) <= Cardinality({u \in T : Better(u, x)})
      /\ Cardinality({u \in P : Better(u, x)}) \in Nat /\ Cardinality({u \in T : Better(u, x)}) \in Nat
  <2>1. PICK A, B : A = {u \in P : Better(u, x)} /\ B = {u \in T : Better(u, x)}
    OBVIOUS
  <2>2. A \in SUBSET B /\ B \in SUBSET T
    BY <1>5, <2>1
  <2>3. IsFiniteSet(B)
    BY <1>2, <2>2, FS_Subset DEF IsTotals
  <2>4. IsFiniteSet(A) /\ Cardinality(A) <= Cardinality(B)
    BY <2>2, <2>3, FS_Subset
  <2> QED
    BY <2>1, <2>3, <2>4, FS_CardinalityType
<1>7. TopLimit \in Nat
  BY AnalyticsAssumption
<1>8. Row(P, x).externalId = t.externalId /\ Row(P, x).rank <= t.rank /\ Row(P, x).rank <= TopLimit
  BY <1>3, <1>6, <1>7 DEF Row
<1>9. Row(P, x) \in Ranked(P, TopLimit)
  BY <1>5, <1>8, RankedRows
<1>10. Row(P, x) \in topPosts(raw, now, Week, TopLimit)
  BY <1>1, <1>4, <1>9, TopOfPlatform
<1> QED
  BY <1>8, <1>10

LEMMA TotalsAreOfReadings ==
  ASSUME NEW insights, NEW t, NEW days, NEW x \in aggregatePostMetrics(insights, t, days)
  PROVE  \E r \in insights : r.platform = x.platform
<1>1. PICK seen \in SUBSET insights :
        seen = {r \in insights : /\ r.objectType \in POST_LIKE_OBJECT_TYPES
                                 /\ withinWindow(r.capturedFor, t, days)
                                 /\ r.metric \in ENGAGEMENT_METRICS \cup IMPRESSION_METRICS}
  OBVIOUS
<1>2. PICK k \in {<<r.platform, r.objectId>> : r \in seen} : x.platform = k[1]
  BY <1>1, SMTT(30) DEF aggregatePostMetrics
<1>3. PICK r \in seen : k = <<r.platform, r.objectId>>
  BY <1>2
<1> QED
  BY <1>2, <1>3

LEMMA DeltasAreFigures ==
  ASSUME NEW d \in composeWeeklyDigest(raw, now).deltas
  PROVE  \E r \in rollupEngagement(raw, posts, now) :
            <<r.platform, r.windowDays, r.metric, r.value>> = <<d.platform, Week, "engagement", d.thisWeek>>
<1>1. PICK this, last : /\ this = aggregatePostMetrics(raw, now, Week)
                        /\ last = aggregatePostMetrics(raw, now - Week * DAY, Week)
  OBVIOUS
<1>2. d \in {[platform |-> p, thisWeek |-> engagementOf(this, p), lastWeek |-> engagementOf(last, p)] :
               p \in {t.platform : t \in this \cup last}}
  BY <1>1 DEF composeWeeklyDigest, weekOverWeekDeltas
<1>3. PICK p \in {t.platform : t \in this \cup last} : d.platform = p /\ d.thisWeek = engagementOf(this, p)
  BY <1>2
<1>4. p \in {x.platform : x \in raw \cup posts}
  BY <1>1, <1>3, TotalsAreOfReadings
<1>5. Week \in ROLLUP_WINDOWS
  BY AnalyticsAssumption
<1>6. PICK k : k = <<p, "engagement">>
  OBVIOUS
<1>7. k \in {x.platform : x \in raw \cup posts} \X {"engagement", "posts", "impressions", "followers"}
  BY <1>4, <1>6
<1>8. [platform |-> p, windowDays |-> Week, metric |-> "engagement", value |-> engagementOf(this, p),
       capturedFor |-> utcDayKey(now)] \in windowRows(raw, posts, now, Week)
  <2>1. \A followers : figure(this, followers, k[1], k[2]) = engagementOf(this, p)
    BY <1>6 DEF figure
  <2>2. [platform |-> k[1], windowDays |-> Week, metric |-> k[2],
         value |-> figure(this, followersByPlatform(raw, now, Week, k[1]), k[1], k[2]),
         capturedFor |-> utcDayKey(now)] \in windowRows(raw, posts, now, Week)
    BY <1>1, <1>7 DEF windowRows
  <2> QED
    BY <1>6, <2>1, <2>2
<1>9. windowRows(raw, posts, now, Week) \subseteq rollupEngagement(raw, posts, now)
  BY <1>5 DEF rollupEngagement
<1> QED
  BY <1>3, <1>8, <1>9

LEMMA FiguresFollow == FiguresInv => FiguresAgreeAndArrive
<1> SUFFICES ASSUME FiguresInv PROVE FiguresAgreeAndArrive
  OBVIOUS
<1>1. ASSUME NEW r \in rollup, r.metric = "engagement"
      PROVE  LET b == BoardOn(r.capturedFor, r.windowDays, r.platform)
                 sum == MapThenSumSet(LAMBDA t : t.engagement, b)
             IN  /\ {t.rank : t \in b} = 1 .. Cardinality(b)
                 /\ sum <= r.value
                 /\ Cardinality(b) < TopLimit => sum = r.value
  BY <1>1, BoardsRank DEF EngagementSum
<1>2. rollup # {} => \A w \in ROLLUP_WINDOWS :
          pivotEngagement(w, Max({r.capturedFor : r \in rollup})) = Card(w, "engagement")
  BY CardsAreLastPoints
<1>3. SnapshotAgrees
  BY <1>1, <1>2, OldBoardsCountNothing, HighlightsAreRanked, DeltasAreFigures DEF SnapshotAgrees
<1>4. EveryChannelIsTried
  BY DEF FiguresInv, DigestIsPlaced, EveryChannelIsTried
<1> QED
  BY <1>3, <1>4 DEF FiguresAgreeAndArrive

\* However often a day is aggregated, the leaderboards, the cards and the digest
\* agree, and the digest reaches every channel there is.
THEOREM FiguresAlwaysAgree == AnalyticsSpec => []FiguresAgreeAndArrive
<1>1. AnalyticsSpec => []FiguresInv
  BY FiguresStart, FiguresStep, PTL DEF AnalyticsSpec
<1> QED
  BY <1>1, FiguresFollow, PTL

-----------------------------------------------------------------------------
\* Webhooks

USE WebhooksAssumption

\* The id of an event whose handler has begun is in the table, and only those are.
TableIsStarted ==
  \A i \in Ids : i \in webhook_events <=> \E e \in Events : IdOf(e) = i /\ started[e] > 0

\* HandledOnce is not inductive: that a second delivery finds its id in the table
\* rests on TableIsStarted.
WebhooksInv == TypeOK /\ TableIsStarted /\ HandledOnce /\ DuplicateWasStarted

LEMMA WebhooksStart == Init => WebhooksInv
<1> SUFFICES ASSUME Init PROVE WebhooksInv
  OBVIOUS
<1>1. TypeOK
  <2>1. \E e \in Events : TRUE
    OBVIOUS
  <2>2. (CHOOSE e \in Events : TRUE) \in Events
    BY <2>1, Zenon
  <2>3. [at |-> "new", event |-> CHOOSE e \in Events : TRUE] \in Delivery
    BY <2>2 DEF Delivery
  <2>4. delivery \in [Deliveries -> Delivery]
    BY <2>3 DEF Init
  <2>5. started \in [Events -> Nat] /\ crashes \in 0 .. MaxCrashes
    BY DEF Init
  <2>6. webhook_events \subseteq Ids /\ handled \subseteq Events
    BY DEF Init
  <2> QED
    BY <2>4, <2>5, <2>6 DEF TypeOK
<1>2. TableIsStarted
  BY DEF Init, TableIsStarted
<1>3. HandledOnce
  BY DEF Init, HandledOnce
<1>4. DuplicateWasStarted
  BY DEF Init, DuplicateWasStarted
<1> QED
  BY <1>1, <1>2, <1>3, <1>4 DEF WebhooksInv

\* A delivery that is refused or dismissed changes its own entry only.
LEMMA AnsweredStep ==
  ASSUME WebhooksInv, NEW d \in Deliveries, NEW e \in Events, NEW how \in {"refused", "duplicate"},
         how = "duplicate" => IdOf(e) \in webhook_events,
         delivery' = [delivery EXCEPT ![d] = [at |-> how, event |-> e]],
         UNCHANGED <<webhook_events, started, handled, crashes>>
  PROVE  WebhooksInv'
<1> USE DEF WebhooksInv
<1>1. TypeOK'
  BY DEF TypeOK, Delivery, Answer
<1>2. TableIsStarted' /\ HandledOnce'
  BY DEF TableIsStarted, HandledOnce
<1>3. DuplicateWasStarted'
  <2> SUFFICES ASSUME NEW c \in Deliveries, delivery'[c].at = "duplicate"
               PROVE  \E f \in Events : IdOf(f) = IdOf(delivery'[c].event) /\ started[f] > 0
    BY DEF DuplicateWasStarted
  <2>1. CASE c = d
    <3>1. delivery'[c] = [at |-> how, event |-> e]
      BY <2>1 DEF TypeOK
    <3>2. IdOf(e) \in webhook_events /\ IdOf(e) \in Ids
      BY <3>1 DEF TypeOK
    <3> QED
      BY <3>1, <3>2 DEF TableIsStarted
  <2>2. CASE c # d
    BY <2>2 DEF TypeOK, DuplicateWasStarted
  <2> QED
    BY <2>1, <2>2
<1> QED
  BY <1>1, <1>2, <1>3

\* The first accepted delivery of an id records it and starts the handler.
LEMMA StartedStep ==
  ASSUME WebhooksInv, NEW d \in Deliveries, NEW e \in Events,
         isNew(e), recordIfNew(e),
         delivery' = [delivery EXCEPT ![d] = [at |-> "handling", event |-> e]],
         started' = [started EXCEPT ![e] = @ + 1],
         UNCHANGED <<handled, crashes>>
  PROVE  WebhooksInv'
<1> USE DEF WebhooksInv
<1>1. /\ started'[e] = started[e] + 1 /\ started[e] \in Nat
      /\ \A f \in Events : f # e => started'[f] = started[f]
  BY DEF TypeOK
<1>2. webhook_events' = webhook_events \cup ({IdOf(e)} \ {NoId})
  BY DEF recordIfNew
<1>3. IdOf(e) \in Ids => \A f \in Events : IdOf(f) = IdOf(e) => ~(started[f] > 0)
  BY DEF isNew, TableIsStarted
<1>4. TypeOK'
  BY <1>2 DEF TypeOK, Delivery
<1>5. TableIsStarted'
  <2> SUFFICES ASSUME NEW i \in Ids
               PROVE  i \in webhook_events' <=> \E f \in Events : IdOf(f) = i /\ started'[f] > 0
    BY DEF TableIsStarted
  <2>1. CASE i = IdOf(e)
    <3>1. i \in webhook_events' /\ started'[e] > 0
      BY <1>1, <1>2, <2>1
    <3> QED
      BY <2>1, <3>1
  <2>2. CASE i # IdOf(e)
    <3>1. \A f \in Events : IdOf(f) = i => started'[f] = started[f]
      BY <1>1, <2>2
    <3>2. i \in webhook_events' <=> i \in webhook_events
      BY <1>2, <2>2
    <3> QED
      BY <3>1, <3>2 DEF TableIsStarted
  <2> QED
    BY <2>1, <2>2
<1>6. HandledOnce'
  <2> SUFFICES ASSUME NEW f \in Events, NEW g \in Events,
                      IdOf(f) = IdOf(g), IdOf(f) # NoId, started'[f] > 0, started'[g] > 0
               PROVE  f = g /\ started'[f] = 1
    BY DEF HandledOnce
  <2>1. CASE IdOf(f) = IdOf(e)
    <3>1. \A h \in Events : IdOf(h) = IdOf(e) => ~(started[h] > 0)
      BY <1>3, <2>1
    <3>2. f = e /\ g = e
      BY <1>1, <2>1, <3>1
    <3>3. started[e] = 0
      BY <1>1, <3>1
    <3> QED
      BY <1>1, <3>2, <3>3
  <2>2. CASE IdOf(f) # IdOf(e)
    BY <1>1, <2>2 DEF HandledOnce
  <2> QED
    BY <2>1, <2>2
<1>7. DuplicateWasStarted'
  <2> SUFFICES ASSUME NEW c \in Deliveries, delivery'[c].at = "duplicate"
               PROVE  \E f \in Events : IdOf(f) = IdOf(delivery'[c].event) /\ started'[f] > 0
    BY DEF DuplicateWasStarted
  <2>1. c # d /\ delivery'[c] = delivery[c]
    BY DEF TypeOK
  <2>2. PICK f \in Events : IdOf(f) = IdOf(delivery[c].event) /\ started[f] > 0
    BY <2>1 DEF DuplicateWasStarted
  <2>3. started'[f] > 0
    BY <1>1, <2>2
  <2> QED
    BY <2>1, <2>2, <2>3
<1> QED
  BY <1>4, <1>5, <1>6, <1>7

\* The end of a handler, or of the process, dismisses nothing.
LEMMA EndsStep ==
  ASSUME WebhooksInv, handled' \subseteq Events, crashes' \in 0 .. MaxCrashes,
         UNCHANGED <<webhook_events, started>>,
         delivery' \in [Deliveries -> Delivery],
         \A d \in Deliveries : delivery'[d].at = "duplicate" => delivery'[d] = delivery[d]
  PROVE  WebhooksInv'
  BY DEF WebhooksInv, TypeOK, TableIsStarted, HandledOnce, DuplicateWasStarted

LEMMA WebhooksStep == WebhooksInv /\ [Next]_vars => WebhooksInv'
<1> SUFFICES ASSUME WebhooksInv, [Next]_vars PROVE WebhooksInv'
  OBVIOUS
<1>0. TypeOK
  BY DEF WebhooksInv
<1>1. ASSUME NEW d \in Deliveries, NEW e \in Events, NEW accepted \in BOOLEAN, receive(d, e, accepted)
      PROVE  WebhooksInv'
  <2>1. CASE ~accepted
    BY <1>1, <2>1, AnsweredStep DEF receive
  <2>2. CASE accepted /\ ~isNew(e)
    <3>1. IdOf(e) \in webhook_events
      BY <2>2 DEF isNew
    <3> QED
      BY <1>1, <2>2, <3>1, AnsweredStep DEF receive
  <2>3. CASE accepted /\ isNew(e)
    BY <1>1, <2>3, StartedStep DEF receive
  <2> QED
    BY <2>1, <2>2, <2>3
<1>2. ASSUME NEW d \in Deliveries, NEW how \in {"ok", "error"},
             delivery' = [delivery EXCEPT ![d].at = how]
      PROVE  /\ delivery' \in [Deliveries -> Delivery]
             /\ \A c \in Deliveries : delivery'[c].at = "duplicate" => delivery'[c] = delivery[c]
  <2>1. delivery'[d] = [at |-> how, event |-> delivery[d].event]
    BY <1>0, <1>2 DEF TypeOK, Delivery
  <2>2. \A c \in Deliveries \ {d} : delivery'[c] = delivery[c]
    BY <1>0, <1>2 DEF TypeOK
  <2>3. delivery'[d] \in Delivery
    BY <1>0, <2>1 DEF TypeOK, Delivery, Answer
  <2> QED
    BY <1>0, <1>2, <2>1, <2>2, <2>3 DEF TypeOK
<1>3. ASSUME NEW d \in Deliveries, handleReturns(d) PROVE WebhooksInv'
  <2>1. delivery[d].event \in Events
    BY <1>0 DEF TypeOK, Delivery
  <2> QED
    BY <1>0, <1>2, <1>3, <2>1, EndsStep DEF handleReturns, TypeOK
<1>4. ASSUME NEW d \in Deliveries, handleThrows(d) PROVE WebhooksInv'
  BY <1>0, <1>2, <1>4, EndsStep DEF handleThrows, TypeOK
<1>5. CASE crash
  <2>1. \A d \in Deliveries :
          delivery'[d] \in {delivery[d], [at |-> "cut", event |-> delivery[d].event]}
    BY <1>0, <1>5 DEF crash, TypeOK, Delivery
  <2>2. delivery' \in [Deliveries -> Delivery]
    BY <1>0, <1>5, <2>1 DEF crash, TypeOK, Delivery, Answer
  <2>3. \A d \in Deliveries : delivery'[d].at = "duplicate" => delivery'[d] = delivery[d]
    BY <2>1
  <2>4. crashes' \in 0 .. MaxCrashes
    BY <1>0, <1>5 DEF crash, TypeOK
  <2> QED
    BY <1>0, <1>5, <2>2, <2>3, <2>4, EndsStep DEF crash, TypeOK
<1>6. CASE UNCHANGED vars
  BY <1>6 DEF vars, WebhooksInv, TypeOK, TableIsStarted, HandledOnce, DuplicateWasStarted
<1> QED
  BY <1>1, <1>3, <1>4, <1>5, <1>6 DEF Next

LEMMA WebhooksAlways == Spec => []WebhooksInv
  BY WebhooksStart, WebhooksStep, PTL DEF Spec

\* A connector's handler begins at most once per event id, however often the platform
\* delivers and wherever the process dies.
THEOREM EventsAreHandledOnce == Spec => []HandledOnce
<1>1. WebhooksInv => HandledOnce
  BY DEF WebhooksInv
<1> QED
  BY <1>1, WebhooksAlways, PTL

\* A refused request uses no id up: the table holds the ids of handlers begun, no more.
THEOREM RefusalsLeaveNoTrace == Spec => []RefusalLeavesNoTrace
<1>1. WebhooksInv => RefusalLeavesNoTrace
  BY DEF WebhooksInv, TypeOK, TableIsStarted, RefusalLeavesNoTrace
<1> QED
  BY <1>1, WebhooksAlways, PTL

\* Nothing is dismissed as a replay before a handler of that id has begun.
THEOREM DismissedOnlyAfterStart == Spec => []DuplicateWasStarted
<1>1. WebhooksInv => DuplicateWasStarted
  BY DEF WebhooksInv
<1> QED
  BY <1>1, WebhooksAlways, PTL

\* The table of ids is the history of what was begun.
THEOREM TableIsHistory == Spec => []TableTellsWhatBegan
  BY EventsAreHandledOnce, RefusalsLeaveNoTrace, DismissedOnlyAfterStart, PTL
  DEF TableTellsWhatBegan
=============================================================================
