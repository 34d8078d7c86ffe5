----------------------------- MODULE LeadScore ------------------------------
(***************************************************************************)
(* The lead scorer of src/crm/lead-score.ts: a pure function of a          *)
(* contact's engagement, of the sentiment of its recent messages and of    *)
(* its audience.  Signals are in hundredths and weights in tenths, so a    *)
(* score is in thousandths; logarithms are rounded down.                   *)
(***************************************************************************)
EXTENDS Integers, Sequences, FiniteSetsExt, SequencesExt

\* A text is the number of its words in the positive and negative lexicon.
Text(positive, negative) == [positive |-> positive, negative |-> negative]

\* LeadScoreWeights.
Weights(target, followers) ==
  [engagementTarget |-> target, followerTarget |-> followers,
   engagement |-> 7, sentiment |-> 1, follower |-> 2,
   top |-> 750, high |-> 500, medium |-> 250]

clamp01(n) == IF n < 0 THEN 0 ELSE IF n > 100 THEN 100 ELSE n

\* Neutral without a word of either lexicon, else the positive share.
scoreSentiment(texts) ==
  LET positive == MapThenSumSet(LAMBDA n : texts[n].positive, DOMAIN texts)
      negative == MapThenSumSet(LAMBDA n : texts[n].negative, DOMAIN texts)
      total == positive + negative
  IN  IF total = 0 THEN 50 ELSE clamp01(50 + (50 * (positive - negative)) \div total)

Log2(n) == Max({k \in 0 .. 20 : 2 ^ k <= n})

followerSignal(followers, w) ==
  LET target == IF w.followerTarget > 0 THEN w.followerTarget ELSE 1
  IN  clamp01((100 * Log2(1 + followers)) \div Log2(1 + target))

engagementSignal(count, w) ==
  LET target == IF w.engagementTarget > 0 THEN w.engagementTarget ELSE 1
  IN  clamp01((100 * count) \div target)

bucketFor(score, w) ==
  IF score >= w.top THEN "top" ELSE IF score >= w.high THEN "high"
  ELSE IF score >= w.medium THEN "medium" ELSE "low"

scoreLead(input, w) ==
  LET score == w.engagement * engagementSignal(input.engagementCount, w)
               + w.sentiment * scoreSentiment(input.recentMessages)
               + w.follower * followerSignal(input.followerCount, w)
  IN  [score |-> score, bucket |-> bucketFor(score, w)]
=============================================================================
