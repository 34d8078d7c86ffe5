----------------------------- MODULE InboxRules -----------------------------
(***************************************************************************)
(* The stored rules of the inbox (src/inbox/rules/repository.ts) behind    *)
(* the routes of src/server/inbox/router.ts: clients create, edit and      *)
(* delete them while messages come in, every firing is recorded in the     *)
(* same transaction as the thread state it explains, and the record        *)
(* outlives the rule.  Every operation is synchronous, hence one step.     *)
(***************************************************************************)
EXTENDS Rules

CONSTANTS
  RuleThreads,   \* ids of threads
  Incoming,      \* the messages that rules are applied to
  ThreadOf,      \* per message, its thread
  FactsOf,       \* per message, [message, contact, thread] as stored
  RuleInputs,    \* the bodies clients send
  MaxRules,      \* bound on the ids that inbox_rules hands out
  MaxFirings,    \* bound on the recorded firings
  NoRule         \* there is no such row

\* A body that parseRuleInput() lets through has a number, booleans and actions.
ASSUME InboxRulesAssumption ==
  /\ ThreadOf \in [Incoming -> RuleThreads] /\ MaxRules \in Nat /\ MaxFirings \in Nat
  /\ \A input \in RuleInputs : input.named => /\ input.sortOrder \in Int
                                             /\ input.enabled \in BOOLEAN /\ input.actions.flag \in BOOLEAN

VARIABLES
  inboxRules,   \* inbox_rules by id, [name, enabled, sortOrder, condition, actions]
  lastRuleId,
  firings,      \* inbox_rule_firings: [ruleId, message, actions], oldest first
  threadState   \* priority and flagged of inbox_thread_state, or NoRule

rulesVars == <<inboxRules, lastRuleId, firings, threadState>>

RuleIds == 1 .. MaxRules
Deleted == 0   \* rule_id of a firing whose rule is gone

RulesInit ==
  /\ inboxRules = [i \in RuleIds |-> NoRule]
  /\ lastRuleId = 0
  /\ firings = <<>>
  /\ threadState = [t \in RuleThreads |-> NoRule]

\* parseRuleInput(), then validateCondition() and validateActions().
wellFormed(input) ==
  /\ input.named
  /\ validateCondition(input.condition)
  /\ input.actions.priority \in ToSet(PRIORITIES) \cup {NoPriority}

\* enabled unless the client says false; sort_order 0 unless it says a number.
stored(input, id) ==
  [id |-> id, enabled |-> input.enabled, sortOrder |-> input.sortOrder,
   condition |-> input.condition, actions |-> input.actions]

exists(id) == id \in RuleIds /\ inboxRules[id] # NoRule

ASSUME NoRuleIsNoRow ==
  /\ \A input \in RuleInputs, id \in RuleIds : input.named => stored(input, id) # NoRule
  /\ \A p \in ToSet(PRIORITIES), f \in BOOLEAN : NoRule # [priority |-> p, flagged |-> f]

\* The answers of the routes; an id that is no positive integer reads as 0, and
\* a body is parsed before its rule is looked up, its structs after.
createStatus(input) == IF wellFormed(input) THEN 201 ELSE 400
updateStatus(id, input) ==
  IF id = 0 \/ ~input.named THEN 400
  ELSE IF ~exists(id) THEN 404 ELSE IF wellFormed(input) THEN 200 ELSE 400
deleteRuleStatus(id) == IF id = 0 THEN 400 ELSE IF exists(id) THEN 200 ELSE 404

createRule(input) ==
  /\ createStatus(input) = 201 /\ lastRuleId < MaxRules
  /\ lastRuleId' = lastRuleId + 1
  /\ inboxRules' = [inboxRules EXCEPT ![lastRuleId + 1] = stored(input, lastRuleId + 1)]
  /\ UNCHANGED <<firings, threadState>>

updateRule(id, input) ==
  /\ updateStatus(id, input) = 200
  /\ inboxRules' = [inboxRules EXCEPT ![id] = stored(input, id)]
  /\ UNCHANGED <<lastRuleId, firings, threadState>>

afterDelete_Cascade(id) == SelectSeq(firings, LAMBDA f : f.ruleId # id)

\* ON DELETE SET NULL.
afterDelete(id) ==
  [n \in DOMAIN firings |-> IF firings[n].ruleId = id THEN [firings[n] EXCEPT !.ruleId = Deleted]
                            ELSE firings[n]]

deleteRule(id) ==
  /\ deleteRuleStatus(id) = 200
  /\ inboxRules' = [inboxRules EXCEPT ![id] = NoRule]
  /\ firings' = afterDelete(id)
  /\ UNCHANGED <<lastRuleId, threadState>>

\* list(): ORDER BY sort_order ASC, id ASC.
list(includeDisabled) ==
  LET rows == {r \in {inboxRules[i] : i \in {j \in RuleIds : exists(j)}} : includeDisabled \/ r.enabled}
      Before(r, q) == r.sortOrder < q.sortOrder \/ (r.sortOrder = q.sortOrder /\ r.id < q.id)
  IN  CHOOSE s \in [1 .. Cardinality(rows) -> rows] : \A m, n \in DOMAIN s : m < n => Before(s[m], s[n])

factsOf(m) == buildFacts(FactsOf[m].message, FactsOf[m].contact, FactsOf[m].thread)
evaluation(m) == evaluateRules(list(FALSE), factsOf(m))

\* The upsert: the newest priority, normal when there is none; a flag stays.
upsertThreadState(t, result) ==
  [priority |-> IF result.priority = NoPriority THEN "normal" ELSE result.priority,
   flagged |-> result.flagged \/ (threadState[t] # NoRule /\ threadState[t].flagged)]

applyToMessage(m) ==
  LET result == evaluation(m)
      t == ThreadOf[m]
  IN  /\ Len(firings) + Len(result.fired) <= MaxFirings
      /\ firings' = firings \o [n \in DOMAIN result.fired |->
           [ruleId |-> result.fired[n], message |-> m, actions |-> inboxRules[result.fired[n]].actions]]
      /\ threadState' = IF result.priority # NoPriority \/ result.flagged
                        THEN [threadState EXCEPT ![t] = upsertThreadState(t, result)] ELSE threadState
      /\ UNCHANGED <<inboxRules, lastRuleId>>

RulesNext ==
  \/ \E input \in RuleInputs : createRule(input)
  \/ \E id \in 0 .. MaxRules, input \in RuleInputs : updateRule(id, input)
  \/ \E id \in 0 .. MaxRules : deleteRule(id)
  \/ \E m \in Incoming : applyToMessage(m)

RulesSpec == RulesInit /\ [][RulesNext]_rulesVars

-----------------------------------------------------------------------------
(* Properties.                                                             *)

\* The outcome of the rules on a message does not depend on their order, but
\* for the route: the highest priority of the rules that match, all of their
\* tags, a flag if one of them flags; a rule a client turned off never takes
\* part, and neither does a malformed one.
OutcomeIsAggregate ==
  \A m \in Incoming :
    LET result == evaluation(m)
        matching == {r \in ToSet(list(TRUE)) : r.enabled /\ evaluateCondition(r.condition, factsOf(m))}
    IN  /\ ToSet(result.fired) = {r.id : r \in matching}
        /\ result.flagged <=> \E r \in matching : r.actions.flag
        /\ result.tags = UNION {r.actions.tags : r \in matching}
        /\ \A r \in matching : /\ wellFormed([named |-> TRUE, condition |-> r.condition, actions |-> r.actions])
                               /\ r.actions.priority # NoPriority =>
                                    priorityRank(result.priority) >= priorityRank(r.actions.priority)
        /\ result.priority # NoPriority => \E r \in matching : r.actions.priority = result.priority

\* "Every rule firing is recorded in an append-only audit trail, so you can always see
\* exactly which rule acted on a message and why" (docs/USER_GUIDE.md:276): a recorded
\* firing is never removed nor rewritten, but for the id of a rule that is deleted, and
\* a thread changes its priority or its flag only with firings that say why.  The
\* priority is the highest any of them sets; only where none sets one does a flag bring
\* it back to normal, whatever it was.  A flag is never taken back.
TrailExplainsState ==
  [][ /\ Len(firings') >= Len(firings)
      /\ \A n \in DOMAIN firings :
           /\ firings'[n].message = firings[n].message /\ firings'[n].actions = firings[n].actions
           /\ firings'[n].ruleId # firings[n].ruleId =>
                firings'[n].ruleId = Deleted /\ inboxRules'[firings[n].ruleId] = NoRule
      /\ \A t \in RuleThreads : threadState'[t] # threadState[t] =>
           LET new == {firings'[n] : n \in Len(firings) + 1 .. Len(firings')}
               setting == {f \in new : f.actions.priority # NoPriority}
           IN
           /\ \A f \in new : ThreadOf[f.message] = t
           /\ IF setting = {} THEN threadState'[t].priority = "normal" /\ \E f \in new : f.actions.flag
              ELSE /\ \E f \in setting : f.actions.priority = threadState'[t].priority
                   /\ \A f \in setting : priorityRank(threadState'[t].priority) >= priorityRank(f.actions.priority)
           /\ threadState'[t].flagged <=>
                \/ \E f \in new : f.actions.flag
                \/ (threadState[t] # NoRule /\ threadState[t].flagged) ]_rulesVars
=============================================================================
