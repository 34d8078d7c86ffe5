--------------------------- MODULE Conversations ----------------------------
(* Chats with a language model: the sessions in memory, the router that     *)
(* chooses between the local and a cloud provider, the privacy switch, and  *)
(* the streams of the providers.  Nothing keeps a session from being sent   *)
(* to while an earlier send of it is being answered.                        *)
EXTENDS Integers, Sequences, SequencesExt, FiniteSets

CONSTANTS Chats,
          MaxSends,      \* the calls of send(), in the order they are made
          cloudThresholdTokens,
          MaxChunks,     \* bound on the chunks of an answer
          MaxSwitches    \* bound on the changes of the privacy mode

ASSUME ConversationsAssumption == {MaxSends, cloudThresholdTokens, MaxChunks, MaxSwitches} \subseteq Nat

PrivacyModes == {"off", "session", "global"}

\* The local provider, and the kinds of the others.
Local == "ollama"
Providers == {Local, "openai", "anthropic", "copilot"}

Sends == 1 .. MaxSends

VARIABLES privacy,    \* the mode
          cloud,      \* the configured cloud provider, or "none"
          chats,      \* the sessions: messages and token counters
          sends,      \* the calls of send(): how far they are, and what the provider was sent
          switches,
          crowded,    \* history: sessions with two sends at a time
          uneven      \* history: sessions that were told a total other than its parts

conversationVars == <<privacy, cloud, chats, sends, switches, crowded, uneven>>

ConversationInit ==
  /\ privacy \in PrivacyModes
  /\ cloud \in {"none"} \cup (Providers \ {Local}) /\ (privacy = "global" => cloud = "none")
  /\ chats = [s \in Chats |-> [at |-> "absent", messages |-> <<>>, prompt |-> 0, completion |-> 0, total |-> 0]]
  /\ sends = [x \in Sends |-> [at |-> "new"]]
  /\ switches = 0 /\ crowded = {} /\ uneven = {}

create(s) ==
  /\ chats[s].at = "absent"
  /\ \E messages \in {<<>>, <<[role |-> "system"]>>} :
       chats' = [chats EXCEPT ![s].at = "kept", ![s].messages = messages]
  /\ UNCHANGED <<privacy, cloud, sends, switches, crowded, uneven>>

\* A send that is being answered keeps the row it found.
deleteChat(s) ==
  /\ chats[s].at = "kept" /\ chats' = [chats EXCEPT ![s].at = "deleted"]
  /\ UNCHANGED <<privacy, cloud, sends, switches, crowded, uneven>>

setPrivacyMode(mode) ==
  /\ switches < MaxSwitches /\ switches' = switches + 1
  /\ privacy # mode /\ privacy' = mode
  /\ UNCHANGED <<cloud, chats, sends, crowded, uneven>>

forcesLocal_Global(mode) == mode = "global"
forcesLocal(mode) == mode # "off"

\* Every message counts for one token of the estimate.
route(messages) ==
  IF forcesLocal(privacy) \/ cloud = "none" \/ Len(messages) <= cloudThresholdTokens THEN Local ELSE cloud

Called == {x \in Sends : sends[x].at \in {"opening", "streaming"}}

over(x, at, usage) == [at |-> at, chat |-> sends[x].chat, usage |-> usage]

\* The prompt is stored, the provider chosen (by the caller, or by the router; the
\* global mode stops a choice of the cloud) and called.  A provider over HTTP takes the
\* messages as they are; the Copilot client opens a session of its own before it reads them.
send(x, s, given) ==
  /\ sends[x].at = "new" /\ (x > 1 => sends[x - 1].at # "new") /\ chats[s].at = "kept"
  /\ LET messages == Append(chats[s].messages, [role |-> "user", of |-> x])
         to == IF given = "none" THEN route(messages) ELSE given
         blocked == given = "none" /\ to # Local /\ privacy = "global"
     IN  /\ chats' = [chats EXCEPT ![s].messages = messages]
         /\ sends' = [sends EXCEPT ![x] =
              IF blocked THEN [at |-> "failed", chat |-> s, usage |-> 0]
              ELSE [at |-> IF to = "copilot" THEN "opening" ELSE "streaming", chat |-> s, usage |-> 0,
                    to |-> to, given |-> given, chosen |-> privacy, since |-> switches,
                    mode |-> privacy, read |-> switches, chunks |-> 0,
                    seen |-> IF to = "copilot" THEN <<>> ELSE messages]]
         /\ crowded' = IF \A y \in Called : sends[y].chat # s THEN crowded ELSE crowded \cup {s}
  /\ UNCHANGED <<privacy, cloud, switches, uneven>>

\* Whatever the mode is by then.
opened(x) ==
  /\ sends[x].at = "opening"
  /\ sends' = [sends EXCEPT ![x].at = "streaming", ![x].seen = chats[sends[x].chat].messages,
                            ![x].mode = privacy, ![x].read = switches]
  /\ UNCHANGED <<privacy, cloud, chats, switches, crowded, uneven>>

estimated(c) == [c EXCEPT !.completion = @ + 1, !.total = c.prompt + c.completion + 1]

\* Every chunk counts for one token until the provider says how many there were.
chunk(x) ==
  /\ sends[x].at = "streaming" /\ sends[x].chunks < MaxChunks
  /\ sends' = [sends EXCEPT ![x].chunks = @ + 1]
  /\ chats' = [chats EXCEPT ![sends[x].chat] = estimated(@)]
  /\ UNCHANGED <<privacy, cloud, switches, crowded, uneven>>

\* Anthropic states a usage in every answer, OpenAI in some, Copilot in none.  A figure
\* that is left out is a nought, and OpenAI's total is a figure of its own.
Usages(x) ==
  LET n == Len(sends[x].seen)
      k == sends[x].chunks + 1
      told == [stated : {TRUE}, prompt : {0, n}, completion : {0, k}, total : {0, n + k}]
      none == [stated |-> FALSE, prompt |-> 0, completion |-> 0, total |-> 0]
  IN  CASE sends[x].to = "anthropic" -> {[u EXCEPT !.total = u.prompt + u.completion] : u \in told}
        [] sends[x].to = "copilot" -> {none}
        [] OTHER -> told \cup {none}

counted(c, usage) ==
  [c EXCEPT !.prompt = @ + usage.prompt, !.completion = usage.completion, !.total = c.prompt + usage.total]

\* The stream ends: the estimate gives way to what the provider counted, if it did,
\* and the answer is stored.
complete(x) ==
  /\ sends[x].at = "streaming"
  /\ \E usage \in Usages(x) :
       /\ sends' = [sends EXCEPT ![x] = over(x, "done", usage.prompt)]
       /\ LET s == sends[x].chat
              row == IF usage.stated THEN counted(chats[s], usage) ELSE chats[s]
          IN  /\ chats' = [chats EXCEPT ![s] = [row EXCEPT !.messages = Append(@, [role |-> "assistant", of |-> x])]]
              /\ uneven' = IF usage.total = usage.prompt + usage.completion THEN uneven ELSE uneven \cup {s}
  /\ UNCHANGED <<privacy, cloud, switches, crowded>>

\* The provider refuses or breaks off, or the caller aborts: the prompt stays.
sendFails(x) ==
  /\ sends[x].at \in {"opening", "streaming"}
  /\ sends' = [sends EXCEPT ![x] = over(x, "failed", 0)]
  /\ UNCHANGED <<privacy, cloud, chats, switches, crowded, uneven>>

ConversationNext ==
  \/ \E s \in Chats : create(s) \/ deleteChat(s)
  \/ \E mode \in PrivacyModes : setPrivacyMode(mode)
  \/ \E x \in Sends : \/ opened(x) \/ chunk(x) \/ complete(x) \/ sendFails(x)
                      \/ \E s \in Chats, given \in {"none", "openai"} : send(x, s, given)

ConversationSpec == ConversationInit /\ [][ConversationNext]_conversationVars

-----------------------------------------------------------------------------
(* Properties.                                                             *)

Begun == {x \in Sends : sends[x].at # "new"}

\* A cloud provider is chosen, and gets a conversation, only while the privacy mode is
\* off, however the mode changes between and during the sends of it, unless the caller of
\* send() passes the provider: the guard meant so that "callers can't bypass the router"
\* (src/copilot/privacy.ts:45) asks for the router's decision alone.  Copilot alone may get
\* one in another mode, when that was switched on while its session was being opened.
CloudOnlyWhenOff ==
  \A x \in Called : sends[x].to # Local /\ sends[x].given = "none" =>
    /\ sends[x].chosen = "off"
    /\ sends[x].mode = "off" \/ (sends[x].to = "copilot" /\ sends[x].since < sends[x].read)

\* A provider is asked for the prompt it answers, and the answer stands behind that
\* prompt, also after sends that failed and left theirs; unless the session was sent to
\* while it was being answered: then answers stand in the order they ended in.
AnswersFollowPrompts ==
  \A s \in Chats \ crowded :
    LET m == chats[s].messages IN
    /\ \A i \in DOMAIN m : m[i].role = "assistant" => i > 1 /\ m[i - 1] = [role |-> "user", of |-> m[i].of]
    /\ \A x \in Called : sends[x].chat = s /\ sends[x].at = "streaming" =>
         Last(sends[x].seen) = [role |-> "user", of |-> x]

\* Sends that overlap lose no tokens of a prompt; and as long as the session was told no
\* total other than that of its parts, which the provider states on its own, the total is
\* the sum of the two counters: no answer is counted from a total of before another.
TokensAddUp ==
  \A s \in Chats :
    /\ s \notin uneven => chats[s].total = chats[s].prompt + chats[s].completion
    /\ chats[s].prompt = FoldFunctionOnSet(+, 0, [x \in Begun |-> sends[x].usage], {x \in Begun : sends[x].chat = s})

ConversationIsKept == CloudOnlyWhenOff /\ AnswersFollowPrompts /\ TokensAddUp
=============================================================================
