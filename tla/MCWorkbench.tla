---------------------------- MODULE MCWorkbench -----------------------------
(* The server with what runs in it and the pages in front of it, one at a   *)
(* time: each part keeps its own state and its own environment, so a        *)
(* behaviour is one of any of them, the others resting in one of their      *)
(* initial states.                                                          *)
EXTENDS Webhooks, Publishing, LiveViews, SetupWizard, BrandVoice, ModelSelection, Onboarding,
        MCAnalytics, Server, Sessions, TwitterQuota, TLC

CONSTANTS e1, e2, e3, e4, i1, i2

\* Webhooks: an id is made of the account and the second of the event
\* (src/connectors/meta/webhook-handler.ts:54): e1 and e2 share one, e4 has none.
Id == (e1 :> i1) @@ (e2 :> i1) @@ (e3 :> i2) @@ (e4 :> NoId)
SecondIdOf(e) == Id[e]

\* Models: three machines.
Machine(gib, daemon, hasKey) == [gib |-> gib, daemon |-> daemon, installed |-> {}, key |-> hasKey]
SomeHosts == {Machine(7, "down", FALSE), Machine(8, "current", TRUE), Machine(16, "outdated", TRUE)}

VARIABLE part

Parts == {"webhooks", "publishing", "live", "setup", "voice", "model", "onboarding", "analytics",
          "server", "sessions", "quota"}

pageVars == <<liveVars, setupVars, voiceVars, modelVars, onboardVars>>
backVars == <<vars, publishVars, analyticsVars, serverVars, sessionsVars, quotaVars>>

\* The parts that begin in several ways are at rest in one of them.
WorkbenchInit ==
  /\ part \in Parts
  /\ Init /\ VoiceInit /\ OnboardInit /\ SessionsInit /\ QuotaInit
  /\ PublishInit /\ (part # "publishing" => req = CHOOSE r \in Requests : TRUE)
  /\ LiveInit /\ (part # "live" => page = CHOOSE p \in Pages : TRUE)
  /\ SetupInit /\ (part # "setup" => storage)
  /\ ModelInit /\ (part # "model" => host = CHOOSE h \in Hosts : TRUE)
  /\ AnalyticsInit /\ (part # "analytics" => zone)
  /\ ServerInit /\ (part # "server" => config = {})

WorkbenchNext ==
  /\ UNCHANGED part
  /\ \/ /\ part = "webhooks" /\ Next
        /\ UNCHANGED <<pageVars, publishVars, analyticsVars, serverVars, sessionsVars, quotaVars>>
     \/ /\ part = "publishing" /\ PublishNext
        /\ UNCHANGED <<pageVars, vars, analyticsVars, serverVars, sessionsVars, quotaVars>>
     \/ /\ part = "live" /\ LiveNext
        /\ UNCHANGED <<backVars, setupVars, voiceVars, modelVars, onboardVars>>
     \/ /\ part = "setup" /\ SetupNext
        /\ UNCHANGED <<backVars, liveVars, voiceVars, modelVars, onboardVars>>
     \/ /\ part = "voice" /\ VoiceNext
        /\ UNCHANGED <<backVars, liveVars, setupVars, modelVars, onboardVars>>
     \/ /\ part = "model" /\ ModelNext
        /\ UNCHANGED <<backVars, liveVars, setupVars, voiceVars, onboardVars>>
     \/ /\ part = "onboarding" /\ OnboardNext
        /\ UNCHANGED <<backVars, liveVars, setupVars, voiceVars, modelVars>>
     \/ /\ part = "analytics" /\ AnalyticsNext
        /\ UNCHANGED <<pageVars, vars, publishVars, serverVars, sessionsVars, quotaVars>>
     \/ /\ part = "server" /\ ServerNext
        /\ UNCHANGED <<pageVars, vars, publishVars, analyticsVars, sessionsVars, quotaVars>>
     \/ /\ part = "sessions" /\ SessionsNext
        /\ UNCHANGED <<pageVars, vars, publishVars, analyticsVars, serverVars, quotaVars>>
     \/ /\ part = "quota" /\ QuotaNext
        /\ UNCHANGED <<pageVars, vars, publishVars, analyticsVars, serverVars, sessionsVars>>

WorkbenchSpec == WorkbenchInit /\ [][WorkbenchNext]_<<part, pageVars, backVars>>
=============================================================================
