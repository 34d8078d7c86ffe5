------------------------------- MODULE Server -------------------------------
(***************************************************************************)
(* The process: startServer in its order, what may run while it boots and   *)
(* while it closes (requests, scheduler ticks, alerts), and shutdown on     *)
(* SIGINT or SIGTERM (src/server.ts, src/server/index.ts, app.ts).          *)
(***************************************************************************)
EXTENDS Integers, Sequences, FiniteSets

CONSTANTS Features,       \* the parts a configuration may enable
          Wanted,          \* the routes clients ask for
          MaxAlerts

ASSUME ServerAssumption == MaxAlerts \in Nat

VARIABLES config,       \* the enabled parts
          phase,           \* the step startServer or close has reached
          platform,     \* the connectors in the registries
          publishers,   \* the connectors captured for the outbox
          quotaSink,    \* the sinks that are set: "emit", "alert"
          armed,        \* the schedulers started
          ticking,      \* the schedulers with a tick under way
          telegram,     \* "none", "polling" or "stopped"
          inFlight,     \* the routes with a request under way
          db, process,
          alarms        \* alerts raised, and those the sink took

serverVars == <<config, phase, platform, publishers, quotaSink, armed, ticking, telegram, inFlight, db, process, alarms>>

Connectors == {"meta", "linkedin", "pinterest", "tiktok", "twitter"}
Boot == <<"meta", "linkedin", "pinterest", "tiktok", "twitter", "build", "listen", "schedule", "telegram", "analytics", "up">>
After(s) == Boot[1 + CHOOSE i \in DOMAIN Boot : Boot[i] = s]

\* Only these two are kept for buildOutboxDispatch.
Captured == {"linkedin", "twitter"}
Alive == process = "running"

ServerInit == /\ config \in SUBSET Features /\ phase = "meta"
              /\ platform = {} /\ publishers = {} /\ quotaSink = {} /\ armed = {} /\ ticking = {}
              /\ telegram = "none" /\ inFlight = {} /\ db = "open" /\ process = "running"
              /\ alarms = [raised |-> 0, taken |-> 0]

-----------------------------------------------------------------------------
(* startServer.                                                             *)

\* A connector that fails is logged and skipped; what it had registered before
\* it failed stays.
register == /\ Alive /\ phase \in Connectors /\ phase' = After(phase)
            /\ \/ /\ phase \in config
                  /\ platform' = platform \cup {phase}
                  /\ publishers' = publishers \cup ({phase} \cap Captured)
               \/ /\ phase \in config /\ platform' \in {platform, platform \cup {phase}} /\ UNCHANGED publishers
               \/ /\ phase \notin config /\ UNCHANGED <<platform, publishers>>
            /\ UNCHANGED <<config, quotaSink, armed, ticking, telegram, inFlight, db, process, alarms>>

\* The routers that are always there, and those a setting adds.
mounted == {"health", "ready", "metrics", "setup", "connections", "inbox", "outbox", "auto-reply", "analytics", "contacts",
            "model", "social-setup", "onboarding", "youtube", "backup"} \cup ({"oauth", "webhooks", "twitter"} \cap config)

\* createApp and createSocketServer, then the sink.
withEmit(sinks) == sinks \cup {"emit"}
build == /\ Alive /\ phase = "build" /\ phase' = After(phase) /\ quotaSink' = withEmit(quotaSink)
         /\ UNCHANGED <<config, platform, publishers, armed, ticking, telegram, inFlight, db, process, alarms>>

\* From here requests come in.
listen == /\ Alive /\ phase = "listen" /\ phase' = After(phase)
          /\ UNCHANGED <<config, platform, publishers, quotaSink, armed, ticking, telegram, inFlight, db, process, alarms>>

\* The start is in the audit log, then the outbox and the retention start.
schedule == /\ Alive /\ phase = "schedule" /\ phase' = After(phase)
            /\ armed' = armed \cup (config \cap {"outbox", "retention"})
            /\ UNCHANGED <<config, platform, publishers, quotaSink, ticking, telegram, inFlight, db, process, alarms>>

\* Waits for the vault and for the bot's start; a failure leaves no channel.
startTelegram == /\ Alive /\ phase = "telegram" /\ phase' = After(phase)
                 /\ \/ /\ "telegram" \in config /\ telegram' = "polling" /\ quotaSink' = quotaSink \cup {"alert"}
                    \/ UNCHANGED <<telegram, quotaSink>>
                 /\ UNCHANGED <<config, platform, publishers, armed, ticking, inFlight, db, process, alarms>>

startAnalytics == /\ Alive /\ phase = "analytics" /\ phase' = After(phase)
                  /\ armed' = armed \cup (config \cap {"analytics"})
                  /\ UNCHANGED <<config, platform, publishers, quotaSink, ticking, telegram, inFlight, db, process, alarms>>

-----------------------------------------------------------------------------
(* What runs meanwhile.                                                     *)

listening == phase \notin Connectors \cup {"build", "listen", "io.close", "httpServer.close", "closeDb", "exit"}

request == /\ Alive /\ listening
           /\ \E route \in Wanted \cap mounted : inFlight' = inFlight \cup {route}
           /\ UNCHANGED <<config, phase, platform, publishers, quotaSink, armed, ticking, telegram, db, process, alarms>>

respond == /\ Alive /\ \E route \in inFlight : inFlight' = inFlight \ {route}
           /\ UNCHANGED <<config, phase, platform, publishers, quotaSink, armed, ticking, telegram, db, process, alarms>>

checkReadiness == [db |-> db = "open", config |-> TRUE, vault |-> TRUE]

tick == \E s \in armed \ ticking :
    /\ Alive /\ ticking' = ticking \cup {s}
    /\ UNCHANGED <<config, phase, platform, publishers, quotaSink, armed, telegram, inFlight, db, process, alarms>>

\* The outbox's tick is the one that waits; it may raise an alert on its way,
\* which is lost where the sink is not set.
tickEnds == \E s \in ticking :
    /\ Alive /\ ticking' = ticking \ {s}
    /\ \/ /\ s = "outbox" /\ "twitter" \in publishers /\ alarms.raised < MaxAlerts
          /\ alarms' = [raised |-> alarms.raised + 1,
                        taken |-> alarms.taken + (IF "alert" \in quotaSink THEN 1 ELSE 0)]
       \/ UNCHANGED alarms
    /\ UNCHANGED <<config, phase, platform, publishers, quotaSink, armed, telegram, inFlight, db, process>>

-----------------------------------------------------------------------------
(* Shutdown.                                                                *)

\* Before startServer returns nobody handles the signal.  The second signal
\* finds `closed` set: close returns at once, and the process exits.
shutdown == /\ Alive
            /\ CASE phase = "up" -> /\ phase' = "telegram.stop" /\ armed' = {} /\ UNCHANGED process
                 [] phase \in {"telegram.stop", "io.close", "httpServer.close", "closeDb"} ->
                        process' = "exited" /\ UNCHANGED <<phase, armed>>
                 [] OTHER -> process' = "killed" /\ UNCHANGED <<phase, armed>>
            /\ UNCHANGED <<config, platform, publishers, quotaSink, ticking, telegram, inFlight, db, alarms>>

closing == {"telegram.stop", "io.close", "httpServer.close", "closeDb"}
NextStep_DbFirst(s) == CASE s = "telegram.stop" -> "closeDb" [] s = "closeDb" -> "io.close"
                         [] s = "io.close" -> "httpServer.close" [] s = "httpServer.close" -> "exit"
NextStep(s) == CASE s = "telegram.stop" -> "io.close" [] s = "io.close" -> "httpServer.close"
                 [] s = "httpServer.close" -> "closeDb" [] s = "closeDb" -> "exit"

\* io.close closes the HTTP server with it and waits for its requests.
close == /\ Alive /\ phase \in closing /\ phase' = NextStep(phase)
         /\ phase = "io.close" => inFlight = {}
         /\ telegram' = IF phase = "telegram.stop" /\ telegram = "polling" THEN "stopped" ELSE telegram
         /\ db' = IF phase = "closeDb" THEN "closed" ELSE db
         /\ UNCHANGED <<config, platform, publishers, quotaSink, armed, ticking, inFlight, process, alarms>>

exit == /\ Alive /\ phase = "exit" /\ process' = "exited"
        /\ UNCHANGED <<config, phase, platform, publishers, quotaSink, armed, ticking, telegram, inFlight, db, alarms>>

ServerNext == \/ register \/ build \/ listen \/ schedule \/ startTelegram \/ startAnalytics
              \/ request \/ respond \/ tick \/ tickEnds \/ shutdown \/ close \/ exit

ServerSpec == ServerInit /\ [][ServerNext]_serverVars

-----------------------------------------------------------------------------
(* Properties.                                                              *)

\* Whatever order requests, ticks, failures of parts and the signals come in:
\* a request under way and a scheduler that may tick find the database open
\* and the socket's sink set; once the database is closed nothing takes work;
\* and a publisher is there for the outbox only when its connector is
\* registered.
ServerIsWhole == Alive =>
    /\ (inFlight \ {"health"} # {} \/ armed # {}) => checkReadiness.db /\ "emit" \in quotaSink
    /\ db = "closed" => armed = {} /\ inFlight = {} /\ telegram # "polling"
    /\ publishers \subseteq platform
=============================================================================
