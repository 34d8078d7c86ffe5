--------------------------- MODULE ModelSelection ---------------------------
(***************************************************************************)
(* The active language model: the panel that picks and pulls one            *)
(* (ui/components/onboarding/model-panel.tsx), the routes of                *)
(* src/server/model/router.ts, the file that keeps the choice               *)
(* (selection-store.ts: a temporary file renamed over it) and the local     *)
(* Ollama daemon (src/copilot/providers/ollama.ts).                         *)
(*                                                                          *)
(* A request holds its file open from the moment it opened it: a rename     *)
(* moves the file under it.  Two requests share the temporary file's name.  *)
(***************************************************************************)
EXTENDS Integers, FiniteSets, Sequences

CONSTANTS Hosts,          \* machines: memory, daemon, installed models, key
          MaxSelects,     \* choices made
          SelectsAtOnce   \* of them at a time

\* Best first.
GEMMA4_VARIANTS == <<"gemma4:12b", "gemma4:e4b", "gemma4:e2b">>
Variants == {GEMMA4_VARIANTS[i] : i \in DOMAIN GEMMA4_VARIANTS}

ASSUME ModelAssumption ==
  /\ MaxSelects \in Nat /\ SelectsAtOnce \in Nat \ {0}
  /\ Hosts \subseteq [gib : Nat, daemon : {"down", "current", "outdated"}, installed : SUBSET Variants, key : BOOLEAN]

VARIABLES host,       \* the daemon: its memory class, version and models
          disk,       \* the contents of model.json and of model.json.tmp
          selects,    \* the select requests
          chosen,     \* what may be read: the last choice and those in flight
          panel       \* the model chosen in the panel, "" while it loads

modelVars == <<host, disk, selects, chosen, panel>>

Chosen == Variants \cup {"openai"}
SelectSlots == 1 .. SelectsAtOnce
Unasked == [at |-> "none", want |-> "", fd |-> "", alone |-> TRUE]

\* One variant for each class of memory, in GiB.
pickGemma4Variant == CASE host.gib < 8 -> "gemma4:e2b"
                       [] host.gib \in 8 .. 15 -> "gemma4:e4b"
                       [] host.gib >= 16 -> "gemma4:12b"

\* The best installed variant.
pickInstalledGemma4 == IF host.installed = {} THEN ""
                       ELSE GEMMA4_VARIANTS[CHOOSE i \in DOMAIN GEMMA4_VARIANTS :
                                /\ GEMMA4_VARIANTS[i] \in host.installed
                                /\ \A j \in 1 .. i - 1 : GEMMA4_VARIANTS[j] \notin host.installed]

probeOllama == IF host.daemon # "down" THEN pickInstalledGemma4 ELSE ""

\* The persisted choice, or none: a file that does not parse is none.
get == IF disk.file \in Chosen THEN disk.file ELSE "none"

ModelInit ==
    /\ host \in Hosts
    /\ disk = [file |-> "absent", tmp |-> "absent"]
    /\ selects = [i \in SelectSlots |-> Unasked]
    /\ chosen = [last |-> {"none"}, count |-> 0, clash |-> FALSE]
    /\ panel = ""

-----------------------------------------------------------------------------
(* The panel.                                                               *)

\* GET /status: the model chosen, else the best installed, else the
\* recommended.  A provider chosen by its key names no model: the panel goes on
\* offering local ones.
load == /\ panel' = CASE get \in Variants -> get
                      [] get \notin Variants /\ probeOllama # "" -> probeOllama
                      [] get \notin Variants /\ probeOllama = "" -> pickGemma4Variant
        /\ panel # panel'
        /\ UNCHANGED <<host, disk, selects, chosen>>

setChoice == /\ panel # "" /\ panel' \in Variants
             /\ UNCHANGED <<host, disk, selects, chosen>>

\* POST /pull.  An old daemon refuses the largest variant.
pullModel == /\ panel \in Variants \ host.installed /\ host.daemon # "down"
             /\ ~(host.daemon = "outdated" /\ panel = "gemma4:12b")
             /\ host' = [host EXCEPT !.installed = host.installed \cup {panel}]
             /\ UNCHANGED <<disk, selects, chosen, panel>>

-----------------------------------------------------------------------------
(* POST /select.                                                            *)

InFlight == {i \in SelectSlots : selects[i].at # "none"}

\* While a choice is in flight, either it or the last acknowledged may be read.
select(i, want) ==
    /\ selects[i].at = "none" /\ chosen.count < MaxSelects
    /\ want = "openai" => host.key
    /\ selects' = [j \in SelectSlots |-> IF j = i THEN [at |-> "mkdir", want |-> want, fd |-> "", alone |-> InFlight = {}]
                                   ELSE [selects[j] EXCEPT !.alone = FALSE]]
    /\ chosen' = [last |-> chosen.last \cup {want}, count |-> chosen.count + 1,
                  clash |-> chosen.clash \/ InFlight # {}]
    /\ UNCHANGED <<host, disk, panel>>

\* The panel chooses local models only; other clients may choose a configured
\* key, without a model.
chooseModel == \E i \in SelectSlots : panel # "" /\ select(i, panel)
selectProvider == \E i \in SelectSlots : select(i, "openai")

Proceed(i, at) == selects' = [selects EXCEPT ![i].at = at]

set_InPlace == "file"
set == "tmp"

openFile == \E i \in SelectSlots :
    /\ selects[i].at = "mkdir"
    /\ disk' = [disk EXCEPT ![set] = "garbled"]
    /\ selects' = [selects EXCEPT ![i].at = "open", ![i].fd = set]
    /\ UNCHANGED <<host, chosen, panel>>

\* Over what another request wrote into the same file, the bytes may mix.
writeFile == \E i \in SelectSlots :
    /\ selects[i].at = "open"
    /\ IF selects[i].fd = "gone" THEN UNCHANGED disk
       ELSE \E bytes \in {selects[i].want} \cup (IF selects[i].alone THEN {} ELSE {"garbled"}) :
                disk' = [disk EXCEPT ![selects[i].fd] = bytes]
    /\ Proceed(i, "written")
    /\ UNCHANGED <<host, chosen, panel>>

\* The files other requests hold open move with their names.
Moved(fd) == CASE fd = "tmp" -> "file" [] fd = "file" -> "gone" [] fd \in {"", "gone"} -> fd

rename == \E i \in SelectSlots :
    /\ selects[i].at = "written" /\ disk[set] # "absent"
    /\ disk' = IF set = "tmp" THEN [file |-> disk.tmp, tmp |-> "absent"] ELSE disk
    /\ selects' = [j \in SelectSlots |-> IF j = i THEN Unasked ELSE [selects[j] EXCEPT !.fd = Moved(selects[j].fd)]]
    /\ chosen' = IF selects[i].alone THEN [chosen EXCEPT !.last = {selects[i].want}, !.clash = FALSE] ELSE chosen
    /\ UNCHANGED <<host, panel>>

\* The other request has renamed the file: a 500, though the choice is written.
renameFails == \E i \in SelectSlots : /\ selects[i].at = "written" /\ disk[set] = "absent"
                                      /\ selects' = [selects EXCEPT ![i] = Unasked]
                                      /\ UNCHANGED <<host, disk, chosen, panel>>

restart == /\ InFlight # {}
           /\ selects' = [i \in SelectSlots |-> Unasked] /\ panel' = ""
           /\ UNCHANGED <<host, disk, chosen>>

ModelNext == \/ load \/ setChoice \/ pullModel \/ chooseModel \/ selectProvider
             \/ openFile \/ writeFile \/ rename \/ renameFails \/ restart

ModelSpec == ModelInit /\ [][ModelNext]_modelVars

-----------------------------------------------------------------------------
(* Properties.                                                              *)

\* What a read finds is the last acknowledged choice or one made since, even if
\* the process ends between any two steps of a write; never an older one and
\* never a file cut short, unless two choices overlapped and none was made
\* alone since.
SelectionIsKept == ~chosen.clash => get \in chosen.last
=============================================================================
