----------------------------- MODULE BrandVoice -----------------------------
(***************************************************************************)
(* The brand-voice rulebook: its single row (src/personality), the starter  *)
(* recipes and imports that merge into it (src/server/onboarding), the      *)
(* editor that replaces it (ui/components/auto-reply, PUT /rulebook) and    *)
(* the profiler that scores drafts against it.                              *)
(*                                                                          *)
(* An entry is a text with its form: how it is cased and spaced.  The       *)
(* server tells entries apart by the trimmed, lowercased text, the editor   *)
(* and the profiler also collapse the spaces inside.                        *)
(***************************************************************************)
EXTENDS Integers, FiniteSets, SequencesExt

CONSTANT MaxImport    \* entries in an import

ASSUME BrandVoiceAssumption == MaxImport \in Nat

VARIABLES book,       \* the row
          writer,     \* who wrote it last
          added       \* what the last merge reported, and what was there before

voiceVars == <<book, writer, added>>

Forms == {"plain", "upper", "spaced"}
Entry(text, form) == [text |-> text, form |-> form]
Blank == Entry("", "plain")

\* The phrases, the example posts, and which post contains which phrase.
BannedWords == {Entry("act now", f) : f \in Forms}
Exemplars   == {Entry("Act now for a discount", "plain"), Entry("Act now for a discount", "upper"),
                Entry("New hours on Monday", "plain")}
Contained   == {<<"act now", "Act now for a discount">>}
Tones       == {"warm", "polished"}

EMPTY_RULEBOOK == [tone |-> "", bannedWords |-> <<>>, exemplars |-> <<>>]

-----------------------------------------------------------------------------
(* The repository.                                                          *)

\* trim().toLowerCase()
key(e) == <<e.text, e.form = "spaced">>

Keep(values, e) == IF e.text = "" \/ \E i \in DOMAIN values : key(values[i]) = key(e)
                   THEN values ELSE Append(values, e)

normalizeRulebook(input) ==
    [tone |-> input.tone, bannedWords |-> FoldLeft(Keep, <<>>, input.bannedWords),
     exemplars |-> FoldLeft(Keep, <<>>, input.exemplars)]

save(input, who) == book' = normalizeRulebook(input) /\ writer' = who

-----------------------------------------------------------------------------
(* Recipes and imports.                                                     *)

Import(tone, banned, exemplars) == [tone |-> tone, bannedWords |-> banned, exemplars |-> exemplars]

STARTER_RECIPES == {Import("warm", <<Entry("act now", "plain")>>, <<Entry("New hours on Monday", "plain")>>),
                    Import("polished", <<>>, <<>>)}

Lists(S) == UNION {[1 .. n -> S] : n \in 0 .. MaxImport}

\* A JSON document may have any field; a CSV is one example per line, and a
\* line of quotes alone is blank.  Malformed documents are refused.
parseBrandVoiceImport ==
    {Import("", <<>>, list) : list \in Lists(Exemplars \cup {Blank})}
        \cup UNION {{Import(tone, banned, <<>>) : banned \in Lists(BannedWords \cup {Blank})} : tone \in Tones \cup {""}}

mergedBookOf(incoming) == [tone |-> IF incoming.tone = "" THEN book.tone ELSE incoming.tone,
                           bannedWords |-> book.bannedWords \o incoming.bannedWords,
                           exemplars |-> book.exemplars \o incoming.exemplars]

countAdded_Each(before, incoming) ==
    Cardinality({i \in DOMAIN incoming : incoming[i].text # "" /\ ~\E e \in ToSet(before) : key(e) = key(incoming[i])})

\* How many examples are new, each counted once.
countAdded(before, incoming) ==
    Cardinality({key(e) : e \in {e \in ToSet(incoming) : e.text # ""}} \ {key(e) : e \in ToSet(before)})

mergeBrandVoice(incoming) ==
    /\ save(mergedBookOf(incoming), "merge")
    /\ added' = [before |-> Len(book.exemplars), new |-> countAdded(book.exemplars, incoming.exemplars)]

applyRecipe == \E recipe \in STARTER_RECIPES : mergeBrandVoice(recipe)

importBrandVoice == \E incoming \in parseBrandVoiceImport :
    /\ incoming.exemplars # <<>> \/ incoming.bannedWords # <<>> \/ incoming.tone # ""
    /\ mergeBrandVoice(incoming)

-----------------------------------------------------------------------------
(* The profiler and the editor.                                             *)

\* Both match a phrase anywhere in a text, lowercased and with its spaces
\* collapsed.
Occurs(word, e) == <<word.text, e.text>> \in Contained

findBannedHits(draft, words) == {w \in ToSet(words) : w.text # "" /\ Occurs(w, draft)}

\* A hit vetoes the score, whatever the tone.
scoreVoice(draft, rulebook) ==
    IF findBannedHits(draft, rulebook.bannedWords) # {} THEN "vetoed" ELSE "scored"

Matches(word, e) == Occurs(word, e)

\* No blank line, no phrase twice, no example that holds a phrase.
validateRulebook(words, exemplars) ==
    /\ Blank \notin ToSet(words)
    /\ \A i, j \in DOMAIN words : i # j => words[i].text # words[j].text
    /\ \A w \in ToSet(words), e \in ToSet(exemplars) : ~Matches(w, e)

\* The form drops blank examples and refuses what does not validate.
saveEdits == \E tone \in Tones, words \in Lists(BannedWords \cup {Blank}), exemplars \in Lists(Exemplars) :
    /\ validateRulebook(words, exemplars)
    /\ save(Import(tone, words, exemplars), "editor")
    /\ UNCHANGED added

\* PUT /rulebook itself checks only the types.
putRulebook == \E words \in Lists(BannedWords), exemplars \in Lists(Exemplars) :
    /\ save(Import("warm", words, exemplars), "client")
    /\ UNCHANGED added

VoiceInit == book = EMPTY_RULEBOOK /\ writer = "nobody" /\ added = [before |-> 0, new |-> 0]

VoiceNext == applyRecipe \/ importBrandVoice \/ saveEdits \/ putRulebook

VoiceSpec == VoiceInit /\ [][VoiceNext]_voiceVars

-----------------------------------------------------------------------------
(* Properties.                                                              *)

\* The number of new examples a merge reports is the number the stored
\* rulebook grew by, although one is counted on the parsed document and the
\* other results from the normalisation of the whole list.
AddedIsGrowth == writer = "merge" => Len(book.exemplars) = added.before + added.new

\* The editor's check mirrors the profiler: no example that the editor accepted
\* would be vetoed as a draft, and what it stored it accepts again.
EditorMirrorsProfiler ==
    writer = "editor" => /\ \A e \in ToSet(book.exemplars) : scoreVoice(e, book) = "scored"
                         /\ validateRulebook(book.bannedWords, book.exemplars)

\* What the two writers of the rulebook tell the user of it is true of what is stored.
RulebookIsAsTold == AddedIsGrowth /\ EditorMirrorsProfiler
=============================================================================
