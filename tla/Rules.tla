------------------------------- MODULE Rules --------------------------------
(***************************************************************************)
(* The declarative rules of the inbox: their validation                    *)
(* (src/inbox/rules/repository.ts) and their evaluation over the facts of  *)
(* a message (src/inbox/rules/engine.ts), pure functions.  A value is a    *)
(* text (a sequence of letters), a number or a boolean.                    *)
(***************************************************************************)
EXTENDS Integers, Sequences, SequencesExt, FiniteSetsExt

CONSTANT MaxDepth   \* MAX_CONDITION_DEPTH

NaN == -1
\* A text and the number it reads as, or NaN.
Str(letters, number) == [type |-> "string", text |-> letters, number |-> number]
Num(n) == [type |-> "number", text |-> <<"0">>, number |-> n]
Absent == [type |-> "undefined", text |-> <<>>, number |-> NaN]
List(items) == [type |-> "array", text |-> items, number |-> NaN]

\* A condition is a tree of nodes by their paths: the root's is <<>>, and the n-th
\* child of p has the path p with n appended.
Branch(shape, children) ==
  [p \in {<<>>} \cup UNION {{<<n>> \o q : q \in DOMAIN children[n]} : n \in DOMAIN children} |->
     IF p = <<>> THEN [shape |-> shape] ELSE children[Head(p)][Tail(p)]]
AllOf(children) == Branch("all", children)
AnyOf(children) == Branch("any", children)
NotOf(child) == Branch("not", <<child>>)
Leaf(field, op, value) == [p \in {<<>>} |-> [shape |-> "leaf", field |-> field, op |-> op, value |-> value]]

Children(c, p) == {q \in DOMAIN c : q # <<>> /\ Front(q) = p}

COMPARISON_OPS == {"eq", "neq", "gt", "gte", "lt", "lte", "contains", "startsWith", "in", "exists"}

PRIORITIES == <<"low", "normal", "high", "urgent">>
priorityRank(p) == CHOOSE n \in DOMAIN PRIORITIES : PRIORITIES[n] = p

\* Every node is of one of the four shapes and not too deep; a leaf has a known
\* operator and a value that it can compare.
validateCondition(c) ==
  \A p \in DOMAIN c :
    /\ Len(p) <= MaxDepth
    /\ \/ c[p].shape \in {"all", "any", "not"}
       \/ c[p].shape = "leaf" /\ c[p].op \in COMPARISON_OPS /\ (c[p].op # "exists" => c[p].value.type # "undefined")

-----------------------------------------------------------------------------
(* Evaluation.                                                             *)

asNumber(v) == v.number
HasText(v) == v.type \in {"string", "number"}
Lower == [A |-> "a", B |-> "b", a |-> "a", b |-> "b"] @@ [x \in {"0"} |-> "0"]
toLowerCase(v) == [n \in DOMAIN v.text |-> Lower[v.text[n]]]
Same(v, w) == v.type = w.type /\ v.text = w.text /\ v.number = w.number

fact(facts, field) == IF field \in DOMAIN facts THEN facts[field] ELSE Absent

compareNumbers(op, a, b) ==
  /\ a # NaN /\ b # NaN
  /\ CASE op = "gt" -> a > b [] op = "gte" -> a >= b [] op = "lt" -> a < b [] OTHER -> a <= b

includes(hay, needle) == \E n \in 0 .. Len(hay) : IsPrefix(needle, SubSeq(hay, n + 1, Len(hay)))

\* A comparison with a missing fact is false, except neq.
evaluateComparison(c, facts) ==
  LET actual == fact(facts, c.field) IN
  CASE c.op = "exists" -> actual.type # "undefined"
    [] c.op = "eq" -> Same(actual, c.value)
    [] c.op = "neq" -> ~Same(actual, c.value)
    [] c.op \in {"gt", "gte", "lt", "lte"} -> compareNumbers(c.op, asNumber(actual), asNumber(c.value))
    [] c.op = "contains" -> HasText(actual) /\ HasText(c.value)
                              /\ includes(toLowerCase(actual), toLowerCase(c.value))
    [] c.op = "startsWith" -> HasText(actual) /\ HasText(c.value)
                              /\ IsPrefix(toLowerCase(c.value), toLowerCase(actual))
    [] c.op = "in" -> c.value.type = "array" /\ \E n \in DOMAIN c.value.text : Same(c.value.text[n], actual)
    [] OTHER -> FALSE

\* Each node from its children, the root last.
evaluateCondition(c, facts) ==
  LET holds[p \in DOMAIN c] ==
        CASE c[p].shape = "all" -> \A q \in Children(c, p) : holds[q]
          [] c[p].shape = "any" -> \E q \in Children(c, p) : holds[q]
          [] c[p].shape = "not" -> \A q \in Children(c, p) : ~holds[q]
          [] OTHER -> evaluateComparison(c[p], facts)
  IN  holds[<<>>]

\* The facts of a message, its contact and its thread; a missing one has no key.
buildFacts(message, contact, thread) ==
  LET all == ("platform" :> message.platform) @@ ("kind" :> message.kind)
               @@ ("message.body" :> message.body)
               @@ ("author.followerCount" :> contact.followers)
               @@ ("thread.subject" :> thread.subject)
      present == {f \in DOMAIN all : all[f].type # "undefined"}
  IN  [f \in present |-> all[f]]

NoPriority == "none"
higherPriority_Last(a, b) == IF b = NoPriority THEN a ELSE b

higherPriority(a, b) ==
  IF a = NoPriority THEN b ELSE IF b = NoPriority THEN a
  ELSE IF priorityRank(b) > priorityRank(a) THEN b ELSE a

NoRoute == "none"
NothingFired == [fired |-> <<>>, priority |-> NoPriority, tags |-> {}, route |-> NoRoute, flagged |-> FALSE]

\* One more rule that matched: the highest priority, all tags, the last route.
aggregate(rule, result) ==
  [fired |-> Append(result.fired, rule.id),
   priority |-> higherPriority(result.priority, rule.actions.priority),
   tags |-> result.tags \cup rule.actions.tags,
   route |-> IF rule.actions.route # NoRoute THEN rule.actions.route ELSE result.route,
   flagged |-> result.flagged \/ rule.actions.flag]

\* rules: the enabled ones and the others, in the order of sort_order and id.
evaluateRules(rules, facts) ==
  FoldLeft(LAMBDA result, rule :
             IF rule.enabled /\ evaluateCondition(rule.condition, facts)
             THEN aggregate(rule, result) ELSE result,
           NothingFired, rules)
=============================================================================
