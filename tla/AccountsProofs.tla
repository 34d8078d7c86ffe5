--------------------------- MODULE AccountsProofs ---------------------------
(***************************************************************************)
(* Proofs about the components around the connected accounts, for any      *)
(* values of their constants: Connecting, Vault, TokenRefresh, Backup,     *)
(* Telegram and OAuth, each on its own.                                    *)
(***************************************************************************)
EXTENDS Connecting, Vault, TokenRefresh, Backup, Telegram, OAuth, ApprovalQueueProofs

-----------------------------------------------------------------------------
\* Connecting a provider

Exchange == [at : {"none", "refused", "short", "long", "storing", "stored"}, app : Nat,
             token : {"none", "short", "long"}, life : {"unstated", "short", "long"}]

\* An exchange about to be stored has the token its connector promises; until it has
\* the long-lived one it does not have that one's life.
ExchangeIsWhole ==
  /\ exchange.at \in {"long", "storing"} =>
       \/ exchange.token = "long"
       \/ (exchange.token = "short" /\ exchange.life # "long")
  /\ exchange.at = "storing" /\ ExchangerOf.upgrade => exchange.token = "long"

CredIsWhole ==
  connected => \/ cred.token = "long"
               \/ (cred.token = "short" /\ cred.life # "long" /\ ~ExchangerOf.upgrade)

ConnectInv == app \in Nat /\ exchange \in Exchange /\ ExchangeIsWhole /\ CredIsWhole

LEMMA ConnectStart == ConnectInit => ConnectInv
  BY DEF ConnectInit, ConnectInv, Exchange, ExchangeIsWhole, CredIsWhole, NoExchange, NoCred, connected

LEMMA ConnectStep == ConnectInv /\ [ConnectNext]_connectVars => ConnectInv'
<1> SUFFICES ASSUME ConnectInv, [ConnectNext]_connectVars PROVE ConnectInv'
  OBVIOUS
<1> USE DEF ConnectInv
<1>1. UNCHANGED site => ExchangerOf' = ExchangerOf
  BY DEF ExchangerOf
<1>2. CASE /\ UNCHANGED <<site, cred>> /\ app' \in Nat
           /\ exchange' = exchange \/ (exchange' \in Exchange /\ exchange'.at \in {"none", "refused", "short"})
  BY <1>1, <1>2 DEF ExchangeIsWhole, CredIsWhole, connected
<1>3. Refused => exchange' \in Exchange /\ exchange'.at = "refused"
  BY DEF Refused, Exchange
<1>4. CASE restart
  BY <1>2, <1>4 DEF restart, NoExchange, Exchange
<1>5. CASE saveApp \/ openWizard
  BY <1>2, <1>5 DEF saveApp, openWizard
<1>6. CASE exchangeCode
  BY <1>2, <1>3, <1>6 DEF exchangeCode, Exchange
<1>7. CASE requestFails
  BY <1>2, <1>3, <1>7 DEF requestFails
<1>8. CASE shortToken
  <2>1. UNCHANGED <<site, app, cred>>
    BY <1>8 DEF shortToken
  <2>2. CASE Refused
    BY <1>2, <1>3, <2>1, <2>2
  <2>3. CASE ~Refused
    <3>1. PICK life \in {"short", "unstated"} :
            exchange' = [exchange EXCEPT !.at = IF ExchangerOf.upgrade THEN "long" ELSE "storing",
                                         !.token = "short", !.life = life]
      BY <1>8, <2>3 DEF shortToken, Answers
    <3>2. exchange' \in Exchange /\ exchange'.token = "short" /\ exchange'.life # "long"
      BY <3>1 DEF Exchange
    <3>3. exchange'.at = "storing" => ~ExchangerOf.upgrade
      BY <3>1 DEF Exchange
    <3> QED
      BY <1>1, <2>1, <3>2, <3>3 DEF ExchangeIsWhole, CredIsWhole, connected
  <2> QED
    BY <2>2, <2>3
<1>9. CASE longToken
  <2>1. UNCHANGED <<site, app, cred>>
    BY <1>9 DEF longToken
  <2>2. CASE Refused
    BY <1>2, <1>3, <2>1, <2>2
  <2>3. CASE ~Refused
    <3>1. PICK answer \in Answers : exchange' = upgraded(answer.life)
      BY <1>9, <2>3 DEF longToken
    <3>2. exchange' \in Exchange /\ exchange'.token = "long"
      BY <3>1 DEF upgraded, Exchange
    <3> QED
      BY <1>1, <2>1, <3>2 DEF ExchangeIsWhole, CredIsWhole, connected
  <2> QED
    BY <2>2, <2>3
<1>10. CASE setOAuth
  <2>1. exchange.at = "storing" /\ UNCHANGED <<site, app>>
    BY <1>10 DEF setOAuth
  <2>2. CASE Refused /\ UNCHANGED cred
    BY <1>2, <1>3, <2>1, <2>2
  <2>3. CASE /\ cred' = [token |-> exchange.token, life |-> exchange.life, app |-> exchange.app,
                         redirect |-> code.redirect]
             /\ exchange' = [exchange EXCEPT !.at = "stored"]
    <3>1. exchange' \in Exchange /\ exchange'.at = "stored"
      BY <2>3 DEF Exchange
    <3>2. CredIsWhole'
      BY <1>1, <2>1, <2>3 DEF ExchangeIsWhole, CredIsWhole, connected
    <3> QED
      BY <2>1, <3>1, <3>2 DEF ExchangeIsWhole
  <2> QED
    BY <1>10, <2>2, <2>3 DEF setOAuth
<1>11. CASE UNCHANGED connectVars
  BY <1>2, <1>11 DEF connectVars
<1> QED
  BY <1>4, <1>5, <1>6, <1>7, <1>8, <1>9, <1>10, <1>11 DEF ConnectNext

\* Whichever requests and writes failed on the way, a platform that is shown as
\* connected has the token its connector promises, for any number of tries.
THEOREM ConnectionsAreWhole == ConnectSpec => []ConnectedTokenIsWhole
<1>1. ConnectInv => ConnectedTokenIsWhole
  BY DEF ConnectInv, CredIsWhole, ConnectedTokenIsWhole
<1> QED
  BY <1>1, ConnectStart, ConnectStep, PTL DEF ConnectSpec

-----------------------------------------------------------------------------
\* The credential vault

\* The new and the loading calls have no file yet; a call that writes has a whole vault
\* to write, and the two names are of two files.
CallsArePlaced ==
  /\ tmp # None => tmp # file
  /\ \A o \in Ops :
       /\ op[o].at \in {"new", "reading", "read", "loaded"} => o # file /\ o # tmp
       /\ op[o].at = "reading" => file # None
       /\ op[o].at \in {"loaded", "opened", "written", "renamed"} => op[o].kind # "get" /\ op[o].seen \in Content
       /\ op[o].at \in {"opened", "written"} => op[o].fd \in Ops

\* Unless two writers met there, the temporary file belongs to one of them.
TmpIsOwned ==
  ~clashed => \A o \in AtTmp :
    /\ AtTmp = {o}
    /\ tmp = op[o].fd
    /\ inode[tmp] = IF op[o].at = "opened" THEN Empty ELSE op[o].seen

WriterIsAlone == ~met => ~clashed /\ \A o \in Writing : UnderWay = {o}

\* Unless a call was under way together with a writer, every call works on what is stored,
\* and a writer changes one key of it.
CallsSeeWhatIsStored ==
  ~met =>
    /\ \A o \in Ops :
         /\ op[o].at = "read" => op[o].seen = Stored
         /\ op[o].at \in {"loaded", "opened", "written"} =>
              /\ op[o].seen = [Stored EXCEPT ![op[o].key] = op[o].value]
              /\ op[o].value \in unsure[op[o].key]
         /\ op[o].at = "renamed" => op[o].seen = Stored /\ Stored[op[o].key] = op[o].value
    /\ cache # None => cache = Stored \/ \E o \in Ops : op[o].at = "renamed"

VaultInv ==
  /\ VaultTypeOK /\ CallsArePlaced /\ TmpIsOwned /\ WriterIsAlone /\ CallsSeeWhatIsStored
  /\ FileIsWhole /\ AckedIsStored

\* What a step notes about the calls under way when it is done.
Histories ==
  /\ met' = (met \/ \E o \in Writing' : UnderWay' # {o})
  /\ clashed' = (clashed \/ \E o, p \in AtTmp' : o # p)

LEMMA WholeContent == \A c \in Content : c \notin Broken /\ c # None
  BY VaultAssumption DEF Content, Broken

LEMMA EmptyVault == EMPTY_VAULT \in Content
  BY DEF EMPTY_VAULT, Content

\* One call moves, the others stay where they are.
LEMMA OneCallMoves ==
  ASSUME VaultTypeOK, NEW o \in Ops, NEW e \in Op, op' = [op EXCEPT ![o] = e]
  PROVE  op' \in [Ops -> Op] /\ op'[o] = e /\ \A p \in Ops \ {o} : op'[p] = op[p]
  BY DEF VaultTypeOK

LEMMA GoesMoves ==
  ASSUME VaultTypeOK, NEW o \in Ops, NEW at \in Phase, Goes(o, at)
  PROVE  /\ op' \in [Ops -> Op]
         /\ op'[o].at = at /\ op'[o].kind = op[o].kind /\ op'[o].key = op[o].key
         /\ op'[o].value = op[o].value /\ op'[o].seen = op[o].seen /\ op'[o].fd = op[o].fd
         /\ \A p \in Ops \ {o} : op'[p] = op[p]
<1> DEFINE e == [op[o] EXCEPT !.at = at]
<1>1. op[o] \in Op
  BY DEF VaultTypeOK
<1>2. /\ e \in Op /\ e.at = at /\ e.kind = op[o].kind /\ e.key = op[o].key
      /\ e.value = op[o].value /\ e.seen = op[o].seen /\ e.fd = op[o].fd
  BY <1>1 DEF Op
<1>3. op' = [op EXCEPT ![o] = e]
  BY DEF Goes, VaultTypeOK
<1> HIDE DEF e
<1> QED
  BY <1>2, <1>3, OneCallMoves

\* That two writers or a reader and a writer met is noted when it happens.
LEMMA HistoryStep ==
  ASSUME WriterIsAlone, CallsArePlaced', Histories
  PROVE  WriterIsAlone'
<1> SUFFICES ASSUME ~met' PROVE ~clashed' /\ \A o \in Writing' : UnderWay' = {o}
  BY DEF WriterIsAlone
<1>1. \A o \in Writing' : UnderWay' = {o}
  BY DEF Histories
<1>2. AtTmp' \subseteq Writing'
  BY DEF CallsArePlaced, AtTmp, Writing, UnderWay
<1>3. \A o, p \in AtTmp' : o = p
  BY <1>1, <1>2 DEF Writing
<1> QED
  BY <1>1, <1>3 DEF Histories, WriterIsAlone

LEMMA StoredIsWhole ==
  ASSUME VaultTypeOK, FileIsWhole, ~clashed
  PROVE  Stored \in Content
  BY EmptyVault DEF VaultTypeOK, FileIsWhole, Stored

LEMMA VaultStart == VaultInit => VaultInv
<1> SUFFICES ASSUME VaultInit PROVE VaultInv
  OBVIOUS
<1>1. VaultTypeOK
  <2>1. (CHOOSE k \in Keys : TRUE) \in Keys
    <3>1. \E k \in Keys : TRUE
      BY VaultAssumption
    <3> QED
      BY <3>1, Zenon
  <2>2. [at |-> "new", kind |-> "get", key |-> CHOOSE k \in Keys : TRUE,
         value |-> Unset, seen |-> Empty, fd |-> None] \in Op
    BY <2>1 DEF Op, Phase, Kinds, Broken
  <2>3. op \in [Ops -> Op]
    BY <2>2 DEF VaultInit
  <2>4. /\ inode \in [Ops -> Content \cup Broken] /\ file \in Ops \cup {None} /\ tmp \in Ops \cup {None}
        /\ cache \in Content \cup {None} /\ acked \in Content
    BY EmptyVault DEF VaultInit, Broken
  <2>5. /\ unsure \in [Keys -> SUBSET (Values \cup {Unset})] /\ met \in BOOLEAN /\ clashed \in BOOLEAN
    BY DEF VaultInit
  <2>6. crashes \in 0 .. MaxCrashes
    <3>1. MaxCrashes \in Nat
      BY VaultAssumption, Zenon
    <3> QED
      BY <3>1 DEF VaultInit
  <2> QED
    BY <2>3, <2>4, <2>5, <2>6 DEF VaultTypeOK
<1>2. CallsArePlaced
  BY VaultAssumption DEF VaultInit, CallsArePlaced
<1>3. TmpIsOwned /\ WriterIsAlone
  BY DEF VaultInit, TmpIsOwned, AtTmp, WriterIsAlone, Writing, UnderWay
<1>4. CallsSeeWhatIsStored
  BY DEF VaultInit, CallsSeeWhatIsStored
<1>5. FileIsWhole /\ AckedIsStored
  BY DEF VaultInit, FileIsWhole, AckedIsStored, Stored, EMPTY_VAULT
<1> QED
  BY <1>1, <1>2, <1>3, <1>4, <1>5 DEF VaultInv

\* A call goes on without touching the files: what it is now decides.
LEMMA QuietStep ==
  ASSUME VaultInv, Histories, NEW o \in Ops, NEW e \in Op, op' = [op EXCEPT ![o] = e],
         UNCHANGED <<inode, file, tmp, acked, crashes>>,
         op[o].at \in {"new", "reading", "read"}, e.at \in {"reading", "read", "loaded", "done", "failed"},
         e.at = "reading" => file # None,
         e.at = "loaded" => e.kind # "get" /\ e.seen \in Content,
         \A k \in Keys : unsure[k] \subseteq unsure'[k],
         unsure' \in [Keys -> SUBSET (Values \cup {Unset})],
         cache' \in Content \cup {None},
         ~met /\ ~met' =>
           /\ e.at = "read" => e.seen = Stored
           /\ e.at = "loaded" => e.seen = [Stored EXCEPT ![e.key] = e.value] /\ e.value \in unsure'[e.key]
           /\ cache' # None => cache' = Stored \/ \E p \in Ops : op[p].at = "renamed"
  PROVE  VaultInv'
<1> USE DEF VaultInv
<1>1. op' \in [Ops -> Op] /\ op'[o] = e /\ \A p \in Ops \ {o} : op'[p] = op[p]
  BY OneCallMoves
<1>2. VaultTypeOK'
  BY <1>1 DEF VaultTypeOK, Histories
<1>3. CallsArePlaced'
  BY <1>1 DEF CallsArePlaced
<1>4. WriterIsAlone'
  BY <1>3, HistoryStep
<1>5. ~met' => ~met
  BY DEF Histories
<1>6. ~clashed' => ~clashed
  BY DEF Histories
<1>7. Stored' = Stored
  BY DEF Stored
<1>8. AtTmp' = AtTmp
  BY <1>1 DEF AtTmp
<1>9. TmpIsOwned'
  BY <1>1, <1>6, <1>8 DEF TmpIsOwned, AtTmp
<1>10. FileIsWhole'
  BY <1>6 DEF FileIsWhole
<1>11. AckedIsStored'
  BY <1>5, <1>7 DEF AckedIsStored
<1>12. CallsSeeWhatIsStored'
  <2> SUFFICES ASSUME ~met'
               PROVE  /\ \A p \in Ops :
                           /\ op'[p].at = "read" => op'[p].seen = Stored
                           /\ op'[p].at \in {"loaded", "opened", "written"} =>
                                /\ op'[p].seen = [Stored EXCEPT ![op'[p].key] = op'[p].value]
                                /\ op'[p].value \in unsure'[op'[p].key]
                           /\ op'[p].at = "renamed" => op'[p].seen = Stored /\ Stored[op'[p].key] = op'[p].value
                      /\ cache' # None => cache' = Stored \/ \E p \in Ops : op'[p].at = "renamed"
    BY <1>7 DEF CallsSeeWhatIsStored
  <2>1. ~met
    BY <1>5
  <2>2. \A p \in Ops : op[p].key \in Keys
    BY DEF VaultTypeOK, Op
  <2>3. \A p \in Ops : op[p].at = "renamed" => op'[p] = op[p]
    BY <1>1
  <2>0. /\ e.at = "read" => e.seen = Stored
        /\ e.at = "loaded" => /\ e.seen = [Stored EXCEPT ![e.key] = e.value]
                              /\ e.value \in unsure'[e.key]
        /\ cache' # None => cache' = Stored \/ \E p \in Ops : op[p].at = "renamed"
    BY <2>1, Zenon
  <2>4. cache' # None => cache' = Stored \/ \E p \in Ops : op'[p].at = "renamed"
    BY <2>0, <2>3
  <2>5. ASSUME NEW p \in Ops
        PROVE  /\ op'[p].at = "read" => op'[p].seen = Stored
               /\ op'[p].at \in {"loaded", "opened", "written"} =>
                    /\ op'[p].seen = [Stored EXCEPT ![op'[p].key] = op'[p].value]
                    /\ op'[p].value \in unsure'[op'[p].key]
               /\ op'[p].at = "renamed" => op'[p].seen = Stored /\ Stored[op'[p].key] = op'[p].value
    <3>1. CASE p = o
      BY <1>1, <2>0, <3>1
    <3>2. CASE p # o
      <4>1. op'[p] = op[p] /\ unsure[op[p].key] \subseteq unsure'[op[p].key]
        BY <1>1, <2>2, <3>2
      <4>2. /\ op[p].at = "read" => op[p].seen = Stored
            /\ op[p].at \in {"loaded", "opened", "written"} =>
                 /\ op[p].seen = [Stored EXCEPT ![op[p].key] = op[p].value]
                 /\ op[p].value \in unsure[op[p].key]
            /\ op[p].at = "renamed" => op[p].seen = Stored /\ Stored[op[p].key] = op[p].value
        BY <2>1 DEF CallsSeeWhatIsStored
      <4> QED
        BY <4>1, <4>2
    <3> QED
      BY <3>1, <3>2
  <2> QED
    BY <2>4, <2>5
<1> QED
  BY <1>2, <1>3, <1>4, <1>9, <1>10, <1>11, <1>12

\* What a call does with the vault it found, in the cache or in the file.
LEMMA LoadStep ==
  ASSUME VaultInv, Histories, NEW o \in Ops, NEW entry \in Op, NEW vault \in Content,
         op[o].at \in {"new", "read"}, Loads(o, entry, vault),
         UNCHANGED <<inode, file, tmp, acked, crashes>>,
         ~met => vault = Stored \/ (op[o].at = "new" /\ cache = vault)
  PROVE  VaultInv'
<1> USE DEF VaultInv
<1>1. entry.key \in Keys /\ entry.value \in Values \cup {Unset}
  BY DEF Op
<1>2. CASE ReturnsEarly(entry, vault)
  <2> DEFINE e == [entry EXCEPT !.at = "done"]
  <2>1. e \in Op /\ e.at = "done"
    BY DEF Op, Phase
  <2>2. op' = [op EXCEPT ![o] = e] /\ cache' = vault /\ UNCHANGED unsure
    BY <1>2 DEF Loads
  <2>3. ~met => vault = Stored \/ \E p \in Ops : op[p].at = "renamed"
    BY WholeContent DEF CallsSeeWhatIsStored
  <2> HIDE DEF e
  <2> QED
    BY <2>1, <2>2, <2>3, QuietStep DEF VaultTypeOK
<1>3. CASE ~ReturnsEarly(entry, vault)
  <2> DEFINE seen == [vault EXCEPT ![entry.key] = entry.value]
             e == [entry EXCEPT !.at = "loaded", !.seen = seen]
  <2>1. seen \in Content
    BY <1>1 DEF Content
  <2>2. /\ op' = [op EXCEPT ![o] = e] /\ cache' = vault
        /\ unsure' = [unsure EXCEPT ![entry.key] = @ \cup {entry.value}]
    BY <1>3 DEF Loads
  <2> HIDE DEF seen
  <2>3. e \in Op /\ e.at = "loaded" /\ e.seen = seen /\ e.key = entry.key /\ e.value = entry.value
        /\ e.kind = entry.kind
    BY <2>1 DEF Op, Phase
  <2> HIDE DEF e
  <2>4. e.kind # "get"
    BY <1>3, <2>3 DEF ReturnsEarly
  <2>5. /\ \A k \in Keys : unsure[k] \subseteq unsure'[k]
        /\ unsure' \in [Keys -> SUBSET (Values \cup {Unset})]
        /\ e.value \in unsure'[e.key]
    BY <1>1, <2>2, <2>3 DEF VaultTypeOK
  <2>6. ~met /\ ~met' => vault = Stored
    <3> SUFFICES ASSUME ~met, ~met', vault # Stored PROVE FALSE
      OBVIOUS
    <3>1. PICK p \in Ops : op[p].at = "renamed"
      BY WholeContent DEF CallsSeeWhatIsStored
    <3>2. op'[o] = e /\ op'[p] = op[p] /\ p # o
      BY <2>2, <2>3, <3>1, OneCallMoves
    <3>3. o \in Writing' /\ p \in UnderWay'
      BY <2>3, <2>4, <3>1, <3>2 DEF Writing, UnderWay
    <3> QED
      BY <3>2, <3>3 DEF Histories
  <2>7. ~met /\ ~met' => e.seen = [Stored EXCEPT ![e.key] = e.value] /\ cache' = Stored
    BY <2>2, <2>3, <2>6 DEF seen
  <2> QED
    BY <2>1, <2>2, <2>3, <2>4, <2>5, <2>7, QuietStep
<1> QED
  BY <1>2, <1>3

LEMMA CallStep ==
  ASSUME VaultInv, Histories, NEW o \in Ops, NEW kind \in Kinds, NEW key \in Keys,
         NEW value \in Values \cup {Unset}, call(o, kind, key, value)
  PROVE  VaultInv'
<1> USE DEF VaultInv
<1> DEFINE entry == [op[o] EXCEPT !.kind = kind, !.key = key, !.value = value]
<1>1. entry \in Op
  BY ZenonT(40) DEF VaultTypeOK, Op
<1>2. /\ op[o].at = "new" /\ UNCHANGED <<inode, file, tmp, acked, crashes>>
      /\ IF cache # None THEN Loads(o, entry, cache)
         ELSE IF file = None THEN Loads(o, entry, EMPTY_VAULT)
         ELSE op' = [op EXCEPT ![o] = [entry EXCEPT !.at = "reading"]] /\ UNCHANGED <<cache, unsure>>
  BY DEF call
<1> HIDE DEF entry
<1>3. CASE cache # None
  BY <1>1, <1>2, <1>3, LoadStep DEF VaultTypeOK
<1>4. CASE cache = None /\ file = None
  BY <1>1, <1>2, <1>4, EmptyVault, LoadStep DEF Stored
<1>5. CASE cache = None /\ file # None
  <2> DEFINE e == [entry EXCEPT !.at = "reading"]
  <2>1. e \in Op /\ e.at = "reading"
    BY <1>1 DEF Op, Phase
  <2>2. op' = [op EXCEPT ![o] = e] /\ UNCHANGED <<cache, unsure>>
    BY <1>2, <1>5
  <2> HIDE DEF e
  <2> QED
    BY <1>2, <1>5, <2>1, <2>2, QuietStep DEF VaultTypeOK
<1> QED
  BY <1>3, <1>4, <1>5

LEMMA ReadStep ==
  ASSUME VaultInv, Histories, NEW o \in Ops, reads(o) \/ loads(o)
  PROVE  VaultInv'
<1> USE DEF VaultInv
<1>1. op[o] \in Op
  BY DEF VaultTypeOK
<1>2. CASE reads(o)
  <2> DEFINE e == [op[o] EXCEPT !.at = "read", !.seen = inode[file]]
  <2>1. file \in Ops
    BY <1>2 DEF reads, CallsArePlaced, VaultTypeOK
  <2>2. e \in Op /\ e.at = "read" /\ e.seen = inode[file]
    BY <1>1, <2>1 DEF Op, Phase, VaultTypeOK
  <2>3. /\ op' = [op EXCEPT ![o] = e] /\ op[o].at = "reading"
        /\ UNCHANGED <<inode, file, tmp, cache, acked, unsure, crashes>>
    BY <1>2 DEF reads, VaultTypeOK
  <2>4. Stored = inode[file]
    BY <2>1, VaultAssumption DEF Stored
  <2> HIDE DEF e
  <2> QED
    BY <2>2, <2>3, <2>4, QuietStep DEF VaultTypeOK, CallsSeeWhatIsStored
<1>3. CASE loads(o)
  <2>1. op[o].at = "read" /\ UNCHANGED <<inode, file, tmp, acked, crashes>>
    BY <1>3 DEF loads
  <2>2. CASE op[o].seen \in Broken
    <3> DEFINE e == [op[o] EXCEPT !.at = "failed"]
    <3>1. e \in Op /\ e.at = "failed"
      BY <1>1 DEF Op, Phase
    <3>2. op' = [op EXCEPT ![o] = e] /\ UNCHANGED <<cache, unsure>>
      BY <1>3, <2>2 DEF loads, Goes, VaultTypeOK
    <3> HIDE DEF e
    <3> QED
      BY <2>1, <3>1, <3>2, QuietStep DEF VaultTypeOK, CallsSeeWhatIsStored
  <2>3. CASE op[o].seen \notin Broken
    <3>1. op[o].seen \in Content
      BY <1>1, <2>3 DEF Op
    <3>2. Loads(o, op[o], op[o].seen)
      BY <1>3, <2>3 DEF loads
    <3>3. ~met => op[o].seen = Stored
      BY <2>1 DEF CallsSeeWhatIsStored
    <3> QED
      BY <1>1, <2>1, <3>1, <3>2, <3>3, LoadStep
  <2> QED
    BY <2>2, <2>3
<1> QED
  BY <1>2, <1>3

\* A writer is at the temporary file: as long as no other was, the vault file is not
\* touched.
LEMMA TmpStep ==
  ASSUME VaultInv, Histories, NEW o \in Ops, NEW f \in Ops, NEW at \in {"opened", "written", "failed"},
         ~clashed' => f # file /\ \A p \in AtTmp : p = o,
         op[o].at \in {"loaded", "opened"}, op' \in [Ops -> Op],
         op'[o].at = at /\ op'[o].kind = op[o].kind /\ op'[o].key = op[o].key,
         op'[o].value = op[o].value /\ op'[o].seen = op[o].seen /\ op'[o].fd = f,
         \A p \in Ops \ {o} : op'[p] = op[p],
         NEW c \in Content \cup Broken, inode' = [inode EXCEPT ![f] = c],
         tmp' = tmp \/ (op[o].at = "loaded" /\ tmp' = f /\ f = o), at # "failed" /\ ~clashed' => tmp' = f,
         at = "opened" => c = Empty, at = "written" /\ ~clashed' => c = op[o].seen,
         UNCHANGED <<file, cache, acked, unsure, crashes>>
  PROVE  VaultInv'
<1> USE DEF VaultInv
<1>1. VaultTypeOK'
  BY DEF VaultTypeOK, Histories
<1>2. CallsArePlaced'
  BY DEF CallsArePlaced
<1>3. WriterIsAlone'
  BY <1>2, HistoryStep
<1>4. (~clashed' => Stored' = Stored) /\ FileIsWhole'
  BY DEF Stored, FileIsWhole, VaultTypeOK, Histories
<1>5. (~met' => ~met /\ ~clashed') /\ (~clashed' => ~clashed)
  BY <1>3 DEF Histories, WriterIsAlone
<1>6. TmpIsOwned'
  BY <1>5 DEF TmpIsOwned, AtTmp, VaultTypeOK, Histories
<1>7. AckedIsStored'
  BY <1>4, <1>5 DEF AckedIsStored
<1>8. CallsSeeWhatIsStored'
  BY <1>4, <1>5 DEF CallsSeeWhatIsStored
<1> QED
  BY <1>1, <1>2, <1>3, <1>4, <1>6, <1>7, <1>8

LEMMA OpenStep == ASSUME VaultInv, Histories, NEW o \in Ops, opens(o) PROVE VaultInv'
<1> USE DEF VaultInv
<1> DEFINE f == IF tmp # None THEN tmp ELSE o
           e == [op[o] EXCEPT !.at = "opened", !.fd = f]
<1>1. /\ op[o].at = "loaded" /\ inode' = [inode EXCEPT ![f] = Empty] /\ tmp' = f
      /\ op' = [op EXCEPT ![o] = e] /\ UNCHANGED <<file, cache, acked, unsure, crashes>>
  BY DEF opens, VaultTypeOK
<1>2. f \in Ops /\ f # file /\ (tmp' = tmp \/ f = o)
  BY <1>1 DEF VaultTypeOK, CallsArePlaced
<1>3. PICK g \in Ops : g = f
  BY <1>2
<1>4. /\ e \in Op /\ e.at = "opened" /\ e.kind = op[o].kind /\ e.key = op[o].key
      /\ e.value = op[o].value /\ e.seen = op[o].seen /\ e.fd = g
  BY <1>2, <1>3 DEF VaultTypeOK, Op, Phase
<1>5. op' \in [Ops -> Op] /\ op'[o] = e /\ \A p \in Ops \ {o} : op'[p] = op[p]
  BY <1>1, <1>4, OneCallMoves
<1>6. inode' = [inode EXCEPT ![g] = Empty] /\ tmp' = g /\ g # file /\ (tmp' = tmp \/ g = o)
  BY <1>1, <1>2, <1>3
<1> HIDE DEF e, f
<1>7. ~clashed' => \A p \in AtTmp : p = o
  BY <1>4, <1>5 DEF AtTmp, Histories
<1>8. PICK at \in {"opened", "written", "failed"} :
        /\ at = "opened"
        /\ op'[o].at = at /\ op'[o].kind = op[o].kind /\ op'[o].key = op[o].key
        /\ op'[o].value = op[o].value /\ op'[o].seen = op[o].seen /\ op'[o].fd = g
  BY <1>4, <1>5
<1>9. PICK c \in Content \cup Broken : c = Empty
  BY DEF Broken
<1>10. tmp' = tmp \/ (op[o].at = "loaded" /\ tmp' = g /\ g = o)
  BY <1>1, <1>6
<1>11. /\ ~clashed' => g # file /\ \A p \in AtTmp : p = o
       /\ op[o].at \in {"loaded", "opened"} /\ inode' = [inode EXCEPT ![g] = c]
       /\ UNCHANGED <<file, cache, acked, unsure, crashes>>
       /\ at # "failed" /\ ~clashed' => tmp' = g
       /\ at = "written" /\ ~clashed' => c = op[o].seen
       /\ at = "opened" => c = Empty
  BY <1>1, <1>6, <1>7, <1>8, <1>9
<1> QED
  BY <1>5, <1>8, <1>10, <1>11, TmpStep

LEMMA WritesStep == ASSUME VaultInv, Histories, NEW o \in Ops, writes(o) \/ writeFails(o) PROVE VaultInv'
<1> USE DEF VaultInv
<1>1. /\ op[o].at = "opened" /\ UNCHANGED <<file, tmp, cache, acked, unsure, crashes>>
      /\ \/ /\ Goes(o, "written")
            /\ \/ inode' = [inode EXCEPT ![op[o].fd] = op[o].seen]
               \/ inode[op[o].fd] # Empty /\ inode' = [inode EXCEPT ![op[o].fd] = Garbage]
         \/ Goes(o, "failed") /\ inode' = [inode EXCEPT ![op[o].fd] = Garbage]
  BY DEF writes, writeFails
<1>2. PICK f \in Ops : f = op[o].fd
  BY <1>1 DEF CallsArePlaced
<1>3. ~clashed' => ~clashed
  BY DEF Histories
<1>4. o \in AtTmp
  BY <1>1 DEF AtTmp
<1>5. ~clashed' => (\A p \in AtTmp : p = o) /\ tmp = f /\ inode[f] = Empty
  BY <1>1, <1>2, <1>3, <1>4 DEF TmpIsOwned
<1>6. op[o].seen \in Content
  BY <1>1 DEF CallsArePlaced
<1>7. PICK at \in {"written", "failed"}, c \in {op[o].seen, Garbage} :
        /\ Goes(o, at) /\ inode' = [inode EXCEPT ![f] = c]
        /\ at = "written" /\ ~clashed' => c = op[o].seen
  BY <1>1, <1>2, <1>5
<1>8. /\ op' \in [Ops -> Op]
      /\ op'[o].at = at /\ op'[o].kind = op[o].kind /\ op'[o].key = op[o].key
      /\ op'[o].value = op[o].value /\ op'[o].seen = op[o].seen /\ op'[o].fd = f
      /\ \A p \in Ops \ {o} : op'[p] = op[p]
  BY <1>2, <1>7, GoesMoves DEF Phase
<1>9. c \in Content \cup Broken
  BY <1>6 DEF Broken
<1>10. ~clashed' => f # file
  BY <1>1, <1>2, <1>3, <1>5, VaultAssumption DEF CallsArePlaced, VaultTypeOK
<1> QED
  BY <1>1, <1>5, <1>7, <1>8, <1>9, <1>10, TmpStep

\* The vault file becomes the one the writer made: it differs from what was stored in the
\* key of the call only.
LEMMA RenameStep == ASSUME VaultInv, Histories, NEW o \in Ops, renames(o) PROVE VaultInv'
<1> USE DEF VaultInv
<1>1. /\ op[o].at = "written" /\ UNCHANGED <<inode, cache, acked, unsure, crashes>>
      /\ \/ tmp = None /\ Goes(o, "failed") /\ UNCHANGED <<file, tmp>>
         \/ tmp # None /\ file' = tmp /\ tmp' = None /\ Goes(o, "renamed")
  BY DEF renames
<1>2. PICK at \in {"failed", "renamed"} :
        /\ Goes(o, at) /\ tmp' = None
        /\ \/ at = "failed" /\ tmp = None /\ file' = file
           \/ at = "renamed" /\ tmp # None /\ file' = tmp
  BY <1>1
<1>3. /\ op' \in [Ops -> Op]
      /\ op'[o].at = at /\ op'[o].kind = op[o].kind /\ op'[o].key = op[o].key
      /\ op'[o].value = op[o].value /\ op'[o].seen = op[o].seen /\ op'[o].fd = op[o].fd
      /\ \A p \in Ops \ {o} : op'[p] = op[p]
  BY <1>2, GoesMoves DEF Phase
<1>4. /\ op[o].key \in Keys /\ op[o].seen \in Content /\ op[o].kind # "get" /\ op[o].fd \in Ops
  BY <1>1 DEF VaultTypeOK, Op, CallsArePlaced
<1>5. VaultTypeOK'
  BY <1>1, <1>3 DEF VaultTypeOK, Histories
<1>6. CallsArePlaced'
  <2>1. \A p \in Ops \ {o} : op'[p] = op[p] /\ (op[p].at \in {"new", "reading", "read", "loaded"} => p # file')
    BY <1>2, <1>3 DEF CallsArePlaced
  <2>2. op[o].seen \in Content /\ op[o].kind # "get" /\ (file # None => file' # None)
    BY <1>2, <1>4
  <2> QED
    BY <1>2, <1>3, <2>1, <2>2, VaultAssumption DEF CallsArePlaced
<1>7. WriterIsAlone'
  BY <1>6, HistoryStep
<1>8. (~met' => ~met /\ ~clashed') /\ (~clashed' => ~clashed)
  BY <1>7 DEF Histories, WriterIsAlone
<1>9. o \in AtTmp
  BY <1>1 DEF AtTmp
<1>10. ~clashed => AtTmp = {o} /\ tmp = op[o].fd /\ tmp # None /\ inode[tmp] = op[o].seen
  BY <1>1, <1>4, <1>9, VaultAssumption DEF TmpIsOwned
<1>11. ~clashed' => file' = op[o].fd /\ inode[file'] = op[o].seen /\ op'[o].at = "renamed" /\ AtTmp' = {}
  BY <1>1, <1>2, <1>3, <1>8, <1>10 DEF AtTmp
<1>12. TmpIsOwned'
  BY <1>8, <1>11 DEF TmpIsOwned
<1>13. FileIsWhole'
  BY <1>1, <1>4, <1>8, <1>11, WholeContent DEF FileIsWhole
<1>14. ASSUME ~met' PROVE AckedIsStored' /\ CallsSeeWhatIsStored'
  <2>1. /\ ~met /\ file' # None /\ Stored' = op[o].seen /\ op'[o].at = "renamed"
        /\ Stored \in Content
    BY <1>1, <1>4, <1>8, <1>11, <1>14, StoredIsWhole, VaultAssumption DEF Stored
  <2>2. op[o].seen = [Stored EXCEPT ![op[o].key] = op[o].value] /\ op[o].value \in unsure[op[o].key]
    BY <1>1, <2>1 DEF CallsSeeWhatIsStored
  <2>3. AckedIsStored'
    BY <1>1, <1>4, <2>1, <2>2 DEF AckedIsStored, Content
  <2>4. \A p \in Ops \ {o} : op'[p].at \in {"new", "done", "failed"}
    BY <1>3, <1>4, <1>14, <2>1 DEF Histories, Writing, UnderWay
  <2>5. Stored'[op[o].key] = op[o].value
    BY <1>4, <2>1, <2>2 DEF Content
  <2> QED
    BY <1>3, <2>1, <2>3, <2>4, <2>5 DEF CallsSeeWhatIsStored
<1>15. AckedIsStored' /\ CallsSeeWhatIsStored'
  BY <1>14 DEF AckedIsStored, CallsSeeWhatIsStored
<1> QED
  BY <1>5, <1>6, <1>7, <1>12, <1>13, <1>15

LEMMA ReturnStep == ASSUME VaultInv, Histories, NEW o \in Ops, returns(o) PROVE VaultInv'
<1> USE DEF VaultInv
<1>1. /\ op[o].at = "renamed" /\ Goes(o, "done") /\ UNCHANGED <<inode, file, tmp, crashes>>
      /\ cache' = op[o].seen /\ acked' = [acked EXCEPT ![op[o].key] = op[o].value]
      /\ unsure' = [unsure EXCEPT ![op[o].key] =
                      {op[p].value : p \in {q \in Writing \ {o} : op[q].key = op[o].key}}]
  BY DEF returns
<1>2. /\ op' \in [Ops -> Op]
      /\ op'[o].at = "done" /\ op'[o].kind = op[o].kind /\ op'[o].key = op[o].key
      /\ op'[o].value = op[o].value /\ op'[o].seen = op[o].seen /\ op'[o].fd = op[o].fd
      /\ \A p \in Ops \ {o} : op'[p] = op[p]
  BY <1>1, GoesMoves DEF Phase
<1>3. /\ op[o].key \in Keys /\ op[o].seen \in Content /\ op[o].kind # "get"
      /\ \A p \in Ops : op[p].value \in Values \cup {Unset}
  BY <1>1 DEF VaultTypeOK, Op, CallsArePlaced
<1>4. VaultTypeOK'
  <2>1. acked' \in Content
    BY <1>1, <1>3 DEF VaultTypeOK, Content
  <2>2. unsure' \in [Keys -> SUBSET (Values \cup {Unset})]
    BY <1>1, <1>3 DEF VaultTypeOK, Writing, UnderWay
  <2> QED
    BY <1>1, <1>2, <1>3, <2>1, <2>2 DEF VaultTypeOK, Histories
<1>5. CallsArePlaced'
  BY <1>1, <1>2 DEF CallsArePlaced
<1>6. WriterIsAlone'
  BY <1>5, HistoryStep
<1>7. (~met' => ~met) /\ (~clashed' => ~clashed) /\ Stored' = Stored /\ AtTmp' = AtTmp
  BY <1>1, <1>2 DEF Histories, Stored, AtTmp
<1>8. TmpIsOwned' /\ FileIsWhole'
  BY <1>1, <1>2, <1>7 DEF TmpIsOwned, FileIsWhole, AtTmp
<1>9. ASSUME ~met PROVE AckedIsStored' /\ CallsSeeWhatIsStored'
  <2>1. op[o].seen = Stored /\ Stored[op[o].key] = op[o].value
    BY <1>1, <1>9 DEF CallsSeeWhatIsStored
  <2>2. AckedIsStored'
    BY <1>1, <1>3, <1>7, <1>9, <2>1 DEF AckedIsStored, VaultTypeOK, Content
  <2>3. UnderWay = {o}
    BY <1>1, <1>3, <1>9 DEF WriterIsAlone, Writing, UnderWay
  <2>4. \A p \in Ops : op'[p].at \in {"new", "done", "failed"}
    BY <1>2, <2>3 DEF UnderWay
  <2> QED
    BY <1>1, <1>7, <2>1, <2>2, <2>4 DEF CallsSeeWhatIsStored
<1> QED
  BY <1>4, <1>5, <1>6, <1>7, <1>8, <1>9 DEF AckedIsStored, CallsSeeWhatIsStored

\* The process dies: whatever was under way is over, and the files are as they were.
LEMMA CrashStep == ASSUME VaultInv, Histories, crash PROVE VaultInv'
<1> USE DEF VaultInv
<1>1. /\ crashes < MaxCrashes /\ crashes' = crashes + 1 /\ cache' = None
      /\ op' = [o \in Ops |-> IF o \in UnderWay THEN [op[o] EXCEPT !.at = "failed"] ELSE op[o]]
      /\ UNCHANGED <<inode, file, tmp, acked, unsure>>
  BY DEF crash
<1>2. \A o \in Ops : op'[o] \in Op /\ op'[o].at \in {"new", "done", "failed"} /\ (op'[o].at = "new" => op[o].at = "new")
  <2> SUFFICES ASSUME NEW o \in Ops
               PROVE  op'[o] \in Op /\ op'[o].at \in {"new", "done", "failed"} /\ (op'[o].at = "new" => op[o].at = "new")
    OBVIOUS
  <2>1. op[o] \in Op
    BY DEF VaultTypeOK
  <2> QED
    BY <1>1, <2>1 DEF Op, Phase, UnderWay
<1>3. VaultTypeOK'
  <2>1. crashes' \in 0 .. MaxCrashes
    <3>1. MaxCrashes \in Nat
      BY VaultAssumption, Zenon
    <3> QED
      BY <1>1, <3>1 DEF VaultTypeOK
  <2>2. op' \in [Ops -> Op]
    BY <1>1, <1>2
  <2> QED
    BY <1>1, <2>1, <2>2 DEF VaultTypeOK, Histories
<1>4. CallsArePlaced'
  BY <1>1, <1>2 DEF CallsArePlaced
<1>5. AtTmp' = {} /\ UnderWay' = {}
  BY <1>2 DEF AtTmp, UnderWay
<1>6. WriterIsAlone' /\ TmpIsOwned'
  BY <1>4, <1>5, HistoryStep DEF TmpIsOwned
<1>7. (~met' => ~met) /\ (~clashed' => ~clashed) /\ Stored' = Stored
  BY <1>1 DEF Histories, Stored
<1>8. FileIsWhole' /\ AckedIsStored' /\ CallsSeeWhatIsStored'
  BY <1>1, <1>2, <1>7 DEF FileIsWhole, AckedIsStored, CallsSeeWhatIsStored
<1> QED
  BY <1>3, <1>4, <1>6, <1>8

LEMMA VaultStep == VaultInv /\ [VaultNext]_vaultVars => VaultInv'
<1> SUFFICES ASSUME VaultInv, [VaultNext]_vaultVars PROVE VaultInv'
  OBVIOUS
<1>1. CASE UNCHANGED vaultVars
  BY <1>1 DEF vaultVars, VaultInv, VaultTypeOK, CallsArePlaced, TmpIsOwned, WriterIsAlone, CallsSeeWhatIsStored,
       FileIsWhole, AckedIsStored, Stored, AtTmp, Writing, UnderWay
<1>2. CASE VaultNext
  <2>1. Histories /\ Step
    BY <1>2 DEF VaultNext, Histories
  <2> QED
    BY <2>1, CallStep, ReadStep, OpenStep, WritesStep, RenameStep, ReturnStep, CrashStep DEF Step, Kinds
<1> QED
  BY <1>1, <1>2

\* The vault keeps its word for any calls, keys and values, any interleaving of their
\* awaits and any number of crashes and failed writes: the file is one whole vault until
\* two writers meet at the temporary file, and no confirmed credential is lost, nor the
\* cache another than the file, until a call meets a writer.
THEOREM VaultIsKept == VaultSpec => []VaultKeepsItsWord
<1>1. VaultInv => VaultKeepsItsWord
  <2> SUFFICES ASSUME VaultInv PROVE VaultKeepsItsWord
    OBVIOUS
  <2>1. CacheIsFile
    BY DEF VaultInv, CacheIsFile, CallsSeeWhatIsStored, UnderWay
  <2> QED
    BY <2>1 DEF VaultInv, VaultKeepsItsWord
<1> QED
  BY <1>1, VaultStart, VaultStep, PTL DEF VaultSpec

-----------------------------------------------------------------------------
\* Token refresh

Credential == [token : Nat, refreshable : BOOLEAN, expiresAt : Int, needsReconsent : BOOLEAN]
Granted == [token : Nat, refresh : BOOLEAN, expiresAt : Int]
Tick == [at : {"idle", "scanning", "refreshing", "updating", "marking"},
         all : [OAuthPlatforms -> Credential \cup {NoToken}], todo : SUBSET OAuthPlatforms,
         platform : OAuthPlatforms \cup {NoToken}, result : Granted \cup {NoToken}]

\* The credentials, the ticks and the platforms keep their shape; a tick is at a
\* platform exactly while it works on it, and has then taken it off its list.
RefreshTypeOK ==
  /\ clockNow \in Nat
  /\ accounts \in [OAuthPlatforms -> Credential \cup {NoToken}]
  /\ ticks \in [Ticks -> Tick]
  /\ grants \in [OAuthPlatforms -> Nat]
  /\ blamed \in [OAuthPlatforms -> SUBSET Nat]
  /\ touched \subseteq OAuthPlatforms

TickIsPlaced ==
  \A k \in Ticks :
    /\ ticks[k].at \in {"idle", "scanning"} => ticks[k].platform = NoToken
    /\ ticks[k].at \notin {"idle", "scanning"} =>
         /\ ticks[k].platform \in OAuthPlatforms \ ticks[k].todo
         /\ ticks[k].all[ticks[k].platform] \in Credential
    /\ \A p \in ticks[k].todo : ticks[k].all[p] \in Credential
    /\ ticks[k].at \in {"refreshing", "updating"} => ticks[k].all[ticks[k].platform].refreshable
    /\ ticks[k].at = "updating" => ticks[k].result \in Granted

\* A tick's copy of a credential that nobody touched meanwhile is the stored one; if
\* the platform has answered, it honours the new token, else the failure is recorded.
CopyIsCurrent ==
  \A k \in Ticks, p \in OAuthPlatforms :
    k \in Holding(p) /\ p \notin touched =>
      /\ ticks[k].all[p] = accounts[p]
      /\ ticks[k].at = "updating" /\ ticks[k].platform = p =>
           ticks[k].result.token = grants[p] /\ accounts[p].token # grants[p]
      /\ ticks[k].at = "marking" /\ ticks[k].platform = p => accounts[p].token \in blamed[p]

RefreshInv == RefreshTypeOK /\ TickIsPlaced /\ CopyIsCurrent /\ TokensAreHonoured

LEMMA RefreshStart == RefreshInit => RefreshInv
<1> SUFFICES ASSUME RefreshInit PROVE RefreshInv
  OBVIOUS
<1>1. Tick0 \in Tick
  BY DEF Tick0, Tick
<1>2. RefreshTypeOK
  BY <1>1 DEF RefreshInit, RefreshTypeOK
<1>3. TickIsPlaced
  BY DEF RefreshInit, TickIsPlaced, Tick0
<1>4. CopyIsCurrent
  BY DEF RefreshInit, CopyIsCurrent, Holding, Tick0
<1>5. TokensAreHonoured
  BY DEF RefreshInit, TokensAreHonoured
<1> QED
  BY <1>2, <1>3, <1>4, <1>5 DEF RefreshInv

\* The user's steps: a tick that holds a copy of the credential does not have the new one.
LEMMA AccountStep ==
  ASSUME RefreshInv, NEW p \in OAuthPlatforms,
         disconnect(p) \/ \E refreshable \in BOOLEAN : connect(p, refreshable)
  PROVE  RefreshInv'
<1> USE TokenRefreshAssumption DEF RefreshInv
<1>1. UNCHANGED <<clockNow, ticks, blamed>> /\ Touch(p, Holding(p))
  BY DEF connect, disconnect
<1>2. touched \subseteq touched' /\ (Holding(p) # {} => p \in touched')
  BY <1>1 DEF Touch
<1>3. \A q \in OAuthPlatforms : Holding(q)' = Holding(q)
  BY <1>1 DEF Holding
<1> DEFINE Becomes(c) ==
        /\ accounts' = [accounts EXCEPT ![p] = c]
        /\ c # NoToken => c.token = grants'[p] /\ ~c.needsReconsent
        /\ \A q \in OAuthPlatforms \ {p} : grants'[q] = grants[q]
        /\ grants' \in [OAuthPlatforms -> Nat]
<1>4. PICK c \in Credential \cup {NoToken} : Becomes(c)
  <2>1. CASE disconnect(p)
    <3>1. Becomes(NoToken)
      BY <2>1 DEF disconnect, RefreshTypeOK
    <3> QED
      BY <3>1
  <2>2. ASSUME NEW refreshable \in BOOLEAN, connect(p, refreshable)
        PROVE  \E c \in Credential \cup {NoToken} : Becomes(c)
    <3> DEFINE new == Cred(grants[p] + 1, refreshable, clockNow + Life)
    <3>1. new \in Credential
      BY DEF Cred, Credential, RefreshTypeOK
    <3>2. new.token = grants[p] + 1 /\ ~new.needsReconsent
      BY DEF Cred
    <3>3. accounts' = [accounts EXCEPT ![p] = new] /\ grants' = [grants EXCEPT ![p] = @ + 1]
      BY <2>2 DEF connect
    <3>4. Becomes(new)
      BY <3>2, <3>3 DEF RefreshTypeOK
    <3> QED
      BY <3>1, <3>4
  <2> QED
    BY <2>1, <2>2
<1>5. RefreshTypeOK'
  BY <1>1, <1>4 DEF RefreshTypeOK, Touch
<1>6. TickIsPlaced'
  BY <1>1 DEF TickIsPlaced
<1>7. CopyIsCurrent'
  BY <1>1, <1>2, <1>3, <1>4 DEF CopyIsCurrent, RefreshTypeOK
<1>8. TokensAreHonoured'
  BY <1>1, <1>2, <1>3, <1>4 DEF TokensAreHonoured, RefreshTypeOK
<1> QED
  BY <1>5, <1>6, <1>7, <1>8

LEMMA PassStep == ASSUME RefreshInv, Pass PROVE RefreshInv'
  BY DEF RefreshInv, Pass, RefreshTypeOK, TickIsPlaced, CopyIsCurrent, TokensAreHonoured, Holding

\* A tick begins: it copies what is stored, whoever else is at work.
LEMMA TickStep == ASSUME RefreshInv, NEW k \in Ticks, tick(k) PROVE RefreshInv'
<1> USE DEF RefreshInv
<1> DEFINE listed == {p \in OAuthPlatforms : accounts[p] # NoToken}
<1>1. /\ ticks' = [ticks EXCEPT ![k].at = "scanning", ![k].all = accounts, ![k].todo = listed]
      /\ UNCHANGED <<clockNow, accounts, grants, blamed, touched>> /\ ticks[k].at = "idle"
  BY DEF tick
<1>2. /\ ticks' \in [Ticks -> Tick] /\ \A j \in Ticks \ {k} : ticks'[j] = ticks[j]
      /\ ticks'[k].at = "scanning" /\ ticks'[k].all = accounts /\ ticks'[k].todo = listed
      /\ ticks'[k].platform = ticks[k].platform
  <2> DEFINE t == [ticks[k] EXCEPT !.at = "scanning", !.all = accounts, !.todo = listed]
  <2>1. ticks' = [ticks EXCEPT ![k] = t]
    BY <1>1 DEF RefreshTypeOK
  <2>2. ticks[k] \in Tick /\ accounts \in [OAuthPlatforms -> Credential \cup {NoToken}]
    BY DEF RefreshTypeOK
  <2>3. t \in Tick /\ t.at = "scanning" /\ t.all = accounts /\ t.todo = listed
        /\ t.platform = ticks[k].platform
    BY <2>2 DEF Tick
  <2> HIDE DEF t
  <2> QED
    BY <2>1, <2>3 DEF RefreshTypeOK
<1>3. RefreshTypeOK'
  BY <1>1, <1>2 DEF RefreshTypeOK
<1>4. TickIsPlaced'
  BY <1>1, <1>2 DEF TickIsPlaced, RefreshTypeOK
<1>5. CopyIsCurrent'
  BY <1>1, <1>2 DEF CopyIsCurrent, Holding
<1>6. TokensAreHonoured'
  BY <1>1, <1>2 DEF TokensAreHonoured, Holding
<1> QED
  BY <1>3, <1>4, <1>5, <1>6

\* The steps of a tick that leave the vault and the platforms alone: it may go on to
\* another platform of its list, drop one, or end.
LEMMA LoopStep ==
  ASSUME RefreshInv, NEW k \in Ticks,
         tickEnds(k) \/ markFails(k) \/ \E p \in OAuthPlatforms : scan(k, p)
  PROVE  RefreshInv'
<1> USE DEF RefreshInv
<1>1. /\ UNCHANGED <<clockNow, accounts, grants, touched>>
      /\ ticks[k].at \in {"scanning", "marking"}
  BY DEF tickEnds, markFails, scan
<1>2. CASE tickEnds(k) \/ markFails(k)
  <2>1. ticks' = [ticks EXCEPT ![k] = Tick0] /\ UNCHANGED blamed
    BY <1>2 DEF tickEnds, markFails
  <2>2. Tick0 \in Tick /\ Tick0.at = "idle" /\ Tick0.todo = {} /\ Tick0.platform = NoToken
    BY DEF Tick0, Tick
  <2>3. RefreshTypeOK'
    BY <1>1, <2>1, <2>2 DEF RefreshTypeOK
  <2>4. TickIsPlaced'
    BY <1>1, <2>1, <2>2 DEF TickIsPlaced, RefreshTypeOK
  <2>5. CopyIsCurrent'
    BY <1>1, <2>1, <2>2 DEF CopyIsCurrent, Holding, RefreshTypeOK
  <2>6. TokensAreHonoured'
    BY <1>1, <2>1, <2>2 DEF TokensAreHonoured, Holding, RefreshTypeOK
  <2> QED
    BY <2>3, <2>4, <2>5, <2>6
<1>3. ASSUME NEW p \in OAuthPlatforms, scan(k, p) PROVE RefreshInv'
  <2>1. /\ ticks[k].at = "scanning" /\ p \in ticks[k].todo
        /\ ticks[k].all[p] \in Credential /\ ticks[k].platform = NoToken
    BY <1>3 DEF scan, TickIsPlaced
  <2>2. \/ /\ UNCHANGED blamed
           /\ ticks' = [ticks EXCEPT ![k].todo = @ \ {p}]
        \/ /\ blamed' = [blamed EXCEPT ![p] = @ \cup {ticks[k].all[p].token}]
           /\ Handling(k, p, "marking")
        \/ /\ UNCHANGED blamed /\ ticks[k].all[p].refreshable
           /\ Handling(k, p, "refreshing")
    BY <1>3 DEF scan
  <2>3. /\ ticks' \in [Ticks -> Tick] /\ \A j \in Ticks \ {k} : ticks'[j] = ticks[j]
        /\ ticks'[k].all = ticks[k].all /\ ticks'[k].todo = ticks[k].todo \ {p}
        /\ \/ ticks'[k].at = "scanning" /\ ticks'[k].platform = NoToken
           \/ /\ ticks'[k].at = "marking" /\ ticks'[k].platform = p
              /\ ticks[k].all[p].token \in blamed'[p]
           \/ /\ ticks'[k].at = "refreshing" /\ ticks'[k].platform = p
              /\ ticks[k].all[p].refreshable
    <3>1. PICK at \in {"scanning", "marking", "refreshing"}, q \in {p, NoToken} :
            /\ ticks' = [ticks EXCEPT ![k] = [ticks[k] EXCEPT !.at = at, !.platform = q, !.todo = @ \ {p}]]
            /\ (at = "scanning") <=> (q = NoToken)
            /\ at = "marking" => ticks[k].all[p].token \in blamed'[p]
            /\ at = "refreshing" => ticks[k].all[p].refreshable
      <4>1. ticks[k] \in Tick /\ blamed \in [OAuthPlatforms -> SUBSET Nat] /\ p # NoToken
        BY TokenRefreshAssumption DEF RefreshTypeOK
      <4>2. CASE ticks' = [ticks EXCEPT ![k].todo = @ \ {p}]
        <5>1. [ticks[k] EXCEPT !.todo = @ \ {p}]
              = [ticks[k] EXCEPT !.at = "scanning", !.platform = NoToken, !.todo = @ \ {p}]
          BY <2>1, <4>1 DEF Tick
        <5> QED
          BY <4>1, <4>2, <5>1
      <4>3. ASSUME NEW at \in {"marking", "refreshing"}, Handling(k, p, at)
            PROVE  ticks' = [ticks EXCEPT ![k] = [ticks[k] EXCEPT !.at = at, !.platform = p, !.todo = @ \ {p}]]
        BY <4>3 DEF Handling, RefreshTypeOK
      <4> QED
        BY <2>2, <4>1, <4>2, <4>3
    <3> DEFINE t == [ticks[k] EXCEPT !.at = at, !.platform = q, !.todo = @ \ {p}]
    <3>2. ticks[k] \in Tick
      BY DEF RefreshTypeOK
    <3>3. /\ t \in Tick /\ t.at = at /\ t.platform = q /\ t.all = ticks[k].all
          /\ t.todo = ticks[k].todo \ {p}
      BY <3>2 DEF Tick
    <3>4. ticks' = [ticks EXCEPT ![k] = t]
      BY <3>1
    <3> HIDE DEF t
    <3> QED
      BY <3>1, <3>3, <3>4 DEF RefreshTypeOK
  <2>4. /\ blamed' \in [OAuthPlatforms -> SUBSET Nat]
        /\ \A q \in OAuthPlatforms : blamed[q] \subseteq blamed'[q]
    BY <2>1, <2>2 DEF RefreshTypeOK, Credential
  <2>5. RefreshTypeOK'
    BY <1>1, <2>3, <2>4 DEF RefreshTypeOK
  <2>6. TickIsPlaced'
    BY <1>1, <2>1, <2>3 DEF TickIsPlaced, RefreshTypeOK
  <2>7. CopyIsCurrent'
    BY <1>1, <2>1, <2>3, <2>4 DEF CopyIsCurrent, Holding, RefreshTypeOK
  <2>8. TokensAreHonoured'
    BY <1>1, <2>1, <2>3, <2>4 DEF TokensAreHonoured, Holding, RefreshTypeOK
  <2> QED
    BY <2>5, <2>6, <2>7, <2>8
<1> QED
  BY <1>2, <1>3

\* The platform answers, or the refresh fails: the copy stays, and the platform
\* honours another token only if the one of the copy was honoured.
LEMMA AnswerStep ==
  ASSUME RefreshInv, NEW k \in Ticks, handler(k) \/ handlerFails(k) \/ updateFails(k)
  PROVE  RefreshInv'
<1> USE DEF RefreshInv
<1> DEFINE p == ticks[k].platform
           token == ticks[k].all[p].token
<1>1. /\ UNCHANGED <<clockNow, accounts, touched>>
      /\ ticks[k].at \in {"refreshing", "updating"}
  BY DEF handler, handlerFails, updateFails
<1>2. /\ p \in OAuthPlatforms /\ p \notin ticks[k].todo
      /\ ticks[k].all[p] \in Credential /\ ticks[k].all[p].refreshable /\ token \in Nat
  BY <1>1 DEF TickIsPlaced, Credential
<1>3. /\ \/ UNCHANGED grants
         \/ token = grants[p] /\ grants' = [grants EXCEPT ![p] = @ + 1] /\ ticks[k].at = "refreshing"
      /\ \E t \in Tick :
           /\ ticks' = [ticks EXCEPT ![k] = t]
           /\ t.all = ticks[k].all /\ t.todo = ticks[k].todo /\ t.platform = p
           /\ \/ /\ t.at = "updating" /\ t.result \in Granted /\ t.result.token = grants'[p]
                 /\ token = grants[p] /\ grants'[p] # grants[p] /\ UNCHANGED blamed
              \/ /\ t.at = "marking"
                 /\ blamed' = [blamed EXCEPT ![p] = @ \cup {token}]
  <2>1. ticks[k] \in Tick
    BY DEF RefreshTypeOK
  <2>2. CASE handler(k)
    <3>1. PICK expiresAt \in {NoExpiry, clockNow + Life}, rotated \in BOOLEAN :
            ticks' = [ticks EXCEPT ![k].at = "updating",
                        ![k].result = [token |-> grants[p] + 1, refresh |-> rotated, expiresAt |-> expiresAt]]
      BY <2>2 DEF handler
    <3> DEFINE r == [token |-> grants[p] + 1, refresh |-> rotated, expiresAt |-> expiresAt]
               t == [ticks[k] EXCEPT !.at = "updating", !.result = r]
    <3>2. grants[p] \in Nat /\ clockNow + Life \in Int /\ NoExpiry \in Int
      BY <1>2, TokenRefreshAssumption DEF RefreshTypeOK, NoExpiry
    <3>3. r \in Granted /\ r.token = grants[p] + 1
      BY <3>2 DEF Granted
    <3>4. ticks' = [ticks EXCEPT ![k] = t]
      BY <3>1 DEF RefreshTypeOK
    <3> HIDE DEF r
    <3>5. /\ t \in Tick /\ t.at = "updating" /\ t.result = r /\ t.all = ticks[k].all
          /\ t.todo = ticks[k].todo /\ t.platform = p
      BY <2>1, <3>3 DEF Tick
    <3>6. /\ token = grants[p] /\ grants' = [grants EXCEPT ![p] = @ + 1] /\ ticks[k].at = "refreshing"
          /\ UNCHANGED blamed
      BY <2>2 DEF handler
    <3>7. grants'[p] = grants[p] + 1 /\ grants'[p] # grants[p]
      BY <1>2, <3>2, <3>6 DEF RefreshTypeOK
    <3> HIDE DEF t, token, p
    <3> QED
      BY <3>3, <3>4, <3>5, <3>6, <3>7
  <2>3. CASE handlerFails(k) \/ updateFails(k)
    <3> DEFINE t == [ticks[k] EXCEPT !.at = "marking"]
    <3>1. ticks' = [ticks EXCEPT ![k] = t]
      BY <2>3 DEF handlerFails, updateFails, RefreshTypeOK
    <3>2. /\ t \in Tick /\ t.at = "marking" /\ t.all = ticks[k].all
          /\ t.todo = ticks[k].todo /\ t.platform = p
      BY <2>1 DEF Tick
    <3>3. /\ blamed' = [blamed EXCEPT ![p] = @ \cup {token}]
          /\ \/ UNCHANGED grants
             \/ token = grants[p] /\ grants' = [grants EXCEPT ![p] = @ + 1] /\ ticks[k].at = "refreshing"
      BY <2>3 DEF handlerFails, updateFails
    <3> HIDE DEF t, token, p
    <3> QED
      BY <3>1, <3>2, <3>3
  <2> QED
    BY <2>2, <2>3
<1>4. PICK t \in Tick :
        /\ ticks' = [ticks EXCEPT ![k] = t]
        /\ t.all = ticks[k].all /\ t.todo = ticks[k].todo /\ t.platform = p
        /\ \/ /\ t.at = "updating" /\ t.result \in Granted /\ t.result.token = grants'[p]
              /\ token = grants[p] /\ grants'[p] # grants[p] /\ UNCHANGED blamed
           \/ /\ t.at = "marking"
              /\ blamed' = [blamed EXCEPT ![p] = @ \cup {token}]
  BY <1>3
<1>5. /\ ticks' \in [Ticks -> Tick] /\ ticks'[k] = t
      /\ \A j \in Ticks \ {k} : ticks'[j] = ticks[j]
  BY <1>4 DEF RefreshTypeOK
<1>6. k \in Holding(p)
  BY <1>1 DEF Holding
<1>7. /\ \A q \in OAuthPlatforms : Holding(q)' = Holding(q) /\ blamed[q] \subseteq blamed'[q]
      /\ \A q \in OAuthPlatforms \ {p} : grants'[q] = grants[q]
  BY <1>1, <1>2, <1>3, <1>4, <1>5, SMTT(20) DEF Holding, RefreshTypeOK
<1>8. RefreshTypeOK'
  BY <1>1, <1>2, <1>3, <1>4, <1>5, SMTT(20) DEF RefreshTypeOK
<1>9. TickIsPlaced'
  BY <1>1, <1>2, <1>4, <1>5 DEF TickIsPlaced
<1>10. CopyIsCurrent'
  <2> SUFFICES ASSUME NEW j \in Ticks, NEW q \in OAuthPlatforms, j \in Holding(q), q \notin touched
               PROVE  /\ ticks'[j].all[q] = accounts[q]
                      /\ ticks'[j].at = "updating" /\ ticks'[j].platform = q =>
                           ticks'[j].result.token = grants'[q] /\ accounts[q].token # grants'[q]
                      /\ ticks'[j].at = "marking" /\ ticks'[j].platform = q =>
                           accounts[q].token \in blamed'[q]
    BY <1>1, <1>7 DEF CopyIsCurrent
  <2>1. /\ ticks[j].all[q] = accounts[q]
        /\ q = p => token = accounts[q].token
    BY <1>6 DEF CopyIsCurrent
  <2>2. CASE j = k
    <3>1. ticks'[j].at \in {"updating", "marking"} /\ ticks'[j].platform = p
      BY <1>4, <1>5, <2>2
    <3>2. token \in blamed'[p] \/ t.at = "updating"
      BY <1>2, <1>4 DEF RefreshTypeOK
    <3> QED
      BY <1>4, <1>5, <2>1, <2>2, <3>1, <3>2
  <2>3. CASE j # k
    <3>1. ticks'[j] = ticks[j]
      BY <1>5, <2>3
    <3>2. /\ ticks[j].at = "updating" /\ ticks[j].platform = q =>
               ticks[j].result.token = grants[q] /\ accounts[q].token # grants[q]
          /\ ticks[j].at = "marking" /\ ticks[j].platform = q => accounts[q].token \in blamed[q]
      BY DEF CopyIsCurrent
    <3>3. ticks[j].at = "updating" /\ ticks[j].platform = q => grants'[q] = grants[q]
      BY <1>3, <1>7, <2>1, <3>2
    <3> QED
      BY <1>7, <2>1, <3>1, <3>2, <3>3
  <2> QED
    BY <2>2, <2>3
<1>11. TokensAreHonoured'
  <2> SUFFICES ASSUME NEW q \in OAuthPlatforms, accounts[q] # NoToken, q \notin touched
               PROVE  /\ accounts[q].needsReconsent => accounts[q].token \in blamed'[q]
                      /\ \/ accounts[q].token = grants'[q] \/ accounts[q].token \in blamed'[q]
                         \/ \E j \in Ticks : ticks'[j].at = "updating" /\ ticks'[j].platform = q
    BY <1>1, <1>7 DEF TokensAreHonoured
  <2>1. /\ accounts[q].needsReconsent => accounts[q].token \in blamed[q]
        /\ \/ accounts[q].token = grants[q] \/ accounts[q].token \in blamed[q]
           \/ \E j \in Ticks : ticks[j].at = "updating" /\ ticks[j].platform = q
    BY DEF TokensAreHonoured
  <2>2. CASE q = p
    <3>1. accounts[q].token = token
      BY <1>6, <2>2 DEF CopyIsCurrent
    <3>2. t.at = "updating" \/ token \in blamed'[q]
      BY <1>2, <1>4, <2>2 DEF RefreshTypeOK
    <3> QED
      BY <1>4, <1>5, <1>7, <2>1, <2>2, <3>1, <3>2
  <2>3. CASE q # p
    <3>1. \A j \in Ticks : ticks[j].platform = q => ticks'[j] = ticks[j]
      BY <1>5, <2>3
    <3>2. grants'[q] = grants[q] /\ blamed[q] \subseteq blamed'[q]
      BY <1>7, <2>3
    <3> QED
      BY <2>1, <3>1, <3>2
  <2> QED
    BY <2>2, <2>3
<1> QED
  BY <1>8, <1>9, <1>10, <1>11

\* The tick writes to the vault: the new token, or that consent is needed again.  Another
\* tick that holds a copy of the credential makes it a touched one.
LEMMA WriteStep ==
  ASSUME RefreshInv, NEW k \in Ticks, update(k) \/ markExpired(k)
  PROVE  RefreshInv'
<1> USE DEF RefreshInv
<1>1. ticks[k].at \in {"updating", "marking"}
  BY DEF update, markExpired
<1>2. PICK p \in OAuthPlatforms :
        /\ ticks[k].platform = p /\ p \notin ticks[k].todo
        /\ ticks[k].at = "updating" => ticks[k].result \in Granted
  BY <1>1 DEF TickIsPlaced
<1>3. /\ UNCHANGED <<clockNow, grants, blamed>> /\ Touch(p, Holding(p) \ {k}) /\ Continue(k)
      /\ ticks[k].at \in {"updating", "marking"}
  BY <1>2 DEF update, markExpired
<1>4. touched \subseteq touched' /\ touched' \subseteq touched \cup {p}
      /\ (p \notin touched' => Holding(p) \subseteq {k})
  BY <1>3 DEF Touch
<1>5. PICK c \in Credential \cup {NoToken} :
        /\ accounts' = [accounts EXCEPT ![p] = c]
        /\ accounts[p] = NoToken => c = NoToken
        /\ accounts[p] # NoToken /\ ticks[k].at = "updating" =>
             c.token = ticks[k].result.token /\ ~c.needsReconsent
        /\ accounts[p] # NoToken /\ ticks[k].at = "marking" => c.token = accounts[p].token
  <2>1. accounts \in [OAuthPlatforms -> Credential \cup {NoToken}]
    BY DEF RefreshTypeOK
  <2>2. CASE accounts[p] = NoToken
    <3>1. UNCHANGED accounts
      BY <1>2, <2>2 DEF update, markExpired
    <3>2. accounts = [accounts EXCEPT ![p] = NoToken]
      BY <1>2, <2>1, <2>2
    <3> QED
      BY <2>2, <3>1, <3>2
  <2>3. CASE accounts[p] # NoToken /\ update(k)
    <3> DEFINE c == refreshed(accounts[p], ticks[k].all[p], ticks[k].result)
    <3>1. accounts' = [accounts EXCEPT ![p] = c] /\ ticks[k].at = "updating"
      BY <1>2, <2>3 DEF update, refreshed
    <3>2. /\ accounts[p] \in Credential /\ ticks[k].result \in Granted
          /\ ticks[k].all[p] \in Credential
      BY <1>2, <2>1, <2>3, <3>1 DEF TickIsPlaced
    <3>3. c \in Credential /\ c.token = ticks[k].result.token /\ ~c.needsReconsent
      BY <3>2 DEF refreshed, Credential, Granted
    <3> HIDE DEF c
    <3> QED
      BY <2>3, <3>1, <3>3
  <2>4. CASE accounts[p] # NoToken /\ markExpired(k)
    <3> DEFINE c == [accounts[p] EXCEPT !.needsReconsent = TRUE]
    <3>1. accounts' = [accounts EXCEPT ![p] = c] /\ ticks[k].at = "marking"
      BY <1>2, <2>1, <2>4 DEF markExpired
    <3>2. c \in Credential /\ c.token = accounts[p].token
      BY <1>2, <2>1, <2>4 DEF Credential
    <3> HIDE DEF c
    <3> QED
      BY <2>4, <3>1, <3>2
  <2> QED
    BY <2>2, <2>3, <2>4
<1>6. PICK t \in Tick :
        /\ ticks' = [ticks EXCEPT ![k] = t]
        /\ t.at = "scanning" /\ t.platform = NoToken /\ t.all = ticks[k].all /\ t.todo = ticks[k].todo
  <2> DEFINE t == [ticks[k] EXCEPT !.at = "scanning", !.platform = NoToken, !.result = NoToken]
  <2>1. ticks[k] \in Tick
    BY DEF RefreshTypeOK
  <2>2. ticks' = [ticks EXCEPT ![k] = t]
    BY <1>3 DEF Continue, RefreshTypeOK
  <2>3. /\ t \in Tick /\ t.at = "scanning" /\ t.platform = NoToken
        /\ t.all = ticks[k].all /\ t.todo = ticks[k].todo
    BY <2>1 DEF Tick
  <2> HIDE DEF t
  <2> QED
    BY <2>2, <2>3
<1>7. /\ ticks' \in [Ticks -> Tick] /\ ticks'[k] = t
      /\ \A j \in Ticks \ {k} : ticks'[j] = ticks[j]
  BY <1>6 DEF RefreshTypeOK
<1>8. RefreshTypeOK'
  BY <1>3, <1>2, <1>4, <1>5, <1>7 DEF RefreshTypeOK
<1>9. TickIsPlaced'
  BY <1>3, <1>2, <1>6, <1>7 DEF TickIsPlaced
<1>10. (\A q \in OAuthPlatforms : Holding(q)' \subseteq Holding(q)) /\ k \notin Holding(p)'
  BY <1>3, <1>2, <1>6, <1>7, TokenRefreshAssumption DEF Holding
<1>11. p \notin touched' => Holding(p)' = {}
  BY <1>2, <1>4, <1>10
<1>12. \A q \in OAuthPlatforms \ {p} : accounts'[q] = accounts[q]
  BY <1>5 DEF RefreshTypeOK
<1>13. CopyIsCurrent'
  <2> SUFFICES ASSUME NEW j \in Ticks, NEW q \in OAuthPlatforms, j \in Holding(q)', q \notin touched'
               PROVE  /\ ticks'[j].all[q] = accounts'[q]
                      /\ ticks'[j].at = "updating" /\ ticks'[j].platform = q =>
                           ticks'[j].result.token = grants'[q] /\ accounts'[q].token # grants'[q]
                      /\ ticks'[j].at = "marking" /\ ticks'[j].platform = q =>
                           accounts'[q].token \in blamed'[q]
    BY DEF CopyIsCurrent
  <2>1. q # p /\ j \in Holding(q) /\ q \notin touched
    BY <1>4, <1>10, <1>11
  <2> QED
    BY <1>3, <1>6, <1>7, <1>12, <2>1 DEF CopyIsCurrent
<1>14. TokensAreHonoured'
  <2> SUFFICES ASSUME NEW q \in OAuthPlatforms, accounts'[q] # NoToken, q \notin touched'
               PROVE  /\ accounts'[q].needsReconsent => accounts'[q].token \in blamed[q]
                      /\ \/ accounts'[q].token = grants[q] \/ accounts'[q].token \in blamed[q]
                         \/ \E j \in Ticks : ticks'[j].at = "updating" /\ ticks'[j].platform = q
    BY <1>3 DEF TokensAreHonoured
  <2>1. q \notin touched
    BY <1>4
  <2>2. CASE q = p
    <3>1. accounts'[p] = c /\ c # NoToken /\ accounts[p] # NoToken
      BY <1>2, <1>5, <2>2 DEF RefreshTypeOK
    <3>2. k \in Holding(p)
      BY <1>2, <1>3 DEF Holding
    <3>3. /\ ticks[k].at = "updating" => ticks[k].result.token = grants[p]
          /\ ticks[k].at = "marking" => accounts[p].token \in blamed[p]
      BY <1>2, <2>1, <2>2, <3>2 DEF CopyIsCurrent
    <3> QED
      BY <1>3, <1>5, <2>2, <3>1, <3>3
  <2>3. CASE q # p
    <3>1. \A j \in Ticks : ticks[j].platform = q => ticks'[j] = ticks[j]
      BY <1>2, <1>7, <2>3
    <3>2. accounts'[q] = accounts[q]
      BY <1>12, <2>3
    <3> QED
      BY <2>1, <3>1, <3>2 DEF TokensAreHonoured
  <2> QED
    BY <2>2, <2>3
<1> QED
  BY <1>8, <1>9, <1>13, <1>14

LEMMA RefreshStep == RefreshInv /\ [RefreshNext]_refreshVars => RefreshInv'
<1> SUFFICES ASSUME RefreshInv, [RefreshNext]_refreshVars PROVE RefreshInv'
  OBVIOUS
<1>1. CASE UNCHANGED refreshVars
  BY <1>1 DEF refreshVars, RefreshInv, RefreshTypeOK, TickIsPlaced, CopyIsCurrent, TokensAreHonoured, Holding
<1> QED
  BY <1>1, PassStep, AccountStep, TickStep, LoopStep, AnswerStep, WriteStep DEF RefreshNext

LEMMA RefreshAlways == RefreshSpec => []RefreshInv
  BY RefreshStart, RefreshStep, PTL DEF RefreshSpec

\* Only connecting again takes the refresh token from an account: a tick has a
\* refreshable copy before it asks the platform, and never updates from another.
LEMMA RefreshKeeps ==
  ASSUME RefreshInv, RefreshNext, NEW p \in OAuthPlatforms,
         accounts[p] # NoToken, accounts'[p] # NoToken, accounts[p].refreshable, ~accounts'[p].refreshable
  PROVE  accounts'[p].token = grants[p] + 1 /\ accounts'[p].expiresAt = clockNow + Life
<1> USE DEF RefreshInv
<1>1. accounts \in [OAuthPlatforms -> Credential \cup {NoToken}] /\ accounts' # accounts
  BY DEF RefreshTypeOK
<1>2. ASSUME NEW q \in OAuthPlatforms, NEW refreshable \in BOOLEAN, connect(q, refreshable)
      PROVE  accounts'[p].token = grants[p] + 1 /\ accounts'[p].expiresAt = clockNow + Life
  BY <1>1, <1>2 DEF connect, Cred
<1>3. ASSUME NEW q \in OAuthPlatforms, disconnect(q) PROVE FALSE
  BY <1>1, <1>3 DEF disconnect
<1>4. ASSUME NEW k \in Ticks, markExpired(k) PROVE FALSE
  <2>1. accounts' = [accounts EXCEPT ![ticks[k].platform] = [@ EXCEPT !.needsReconsent = TRUE]]
    BY <1>1, <1>4 DEF markExpired
  <2>2. accounts[p] \in Credential
    BY <1>1
  <2> QED
    BY <1>1, <2>1, <2>2 DEF Credential
<1>5. ASSUME NEW k \in Ticks, update(k) PROVE FALSE
  <2> DEFINE q == ticks[k].platform
  <2>1. accounts' = [accounts EXCEPT ![q] = refreshed(accounts[q], ticks[k].all[q], ticks[k].result)]
    BY <1>1, <1>5 DEF update, refreshed
  <2>2. p = q
    BY <1>1, <2>1
  <2>3. ticks[k].all[q].refreshable /\ accounts[q] \in Credential
    BY <1>1, <1>5, <2>2 DEF update, TickIsPlaced
  <2>4. accounts'[p] = refreshed(accounts[q], ticks[k].all[q], ticks[k].result)
    BY <1>1, <2>1, <2>2
  <2>5. refreshed(accounts[q], ticks[k].all[q], ticks[k].result).refreshable
    BY <2>3 DEF refreshed, Credential
  <2> QED
    BY <2>4, <2>5
<1> QED
  BY <1>1, <1>2, <1>3, <1>4, <1>5
     DEF RefreshNext, Pass, tick, tickEnds, handler, handlerFails, updateFails, markFails, scan

\* Nobody is asked to consent again without cause, and no refresh costs an account its
\* refresh token, for any ticks, platforms, clock and windows.
THEOREM RefreshesAreFaithful == RefreshSpec => RefreshIsFaithful
<1>1. RefreshInv => TokensAreHonoured
  BY DEF RefreshInv
<1>2. RefreshInv /\ [RefreshNext]_refreshVars =>
        [\A p \in OAuthPlatforms :
           /\ accounts[p] # NoToken /\ accounts'[p] # NoToken /\ accounts[p].refreshable /\ ~accounts'[p].refreshable
           => accounts'[p].token = grants[p] + 1 /\ accounts'[p].expiresAt = clockNow + Life]_refreshVars
  BY RefreshKeeps
<1> QED
  BY <1>1, <1>2, RefreshAlways, PTL DEF RefreshSpec, RefreshIsFaithful, RefreshTokenIsKept

-----------------------------------------------------------------------------
\* Backup and restore

BundleOf(d, v) == [db |-> d, vault |-> v]
Bytes == (SUBSET Creds) \cup {Truncated}
Meetings == {"mixed", "replaced", "stale"}
Entries(Schemas) == [at : Stage, schema : Schemas, vault : Bytes, named : BOOLEAN, met : SUBSET Meetings]

FirstStage(i) == /\ import[i].at \in {"new", "vault"} => import[i].named
                 /\ import[i].at = "new" => import[i].vault = {}

\* The cache holds a vault, while files and bundles may hold one that was cut off; the
\* file of a restore that has not begun to write it is the vault's.
VaultsAreWhole ==
  /\ vaultFile \in Bytes
  /\ vaultCache \in (SUBSET Creds) \cup {Nothing}
  /\ bundle # Nothing => \E d : \E v \in Bytes \cup {Nothing} : bundle = BundleOf(d, v)
  /\ \E Schemas : import \in [Imports -> Entries(Schemas)]
  /\ \A i \in Imports : FirstStage(i)

\* The parts of RestoredVaultIsKept.
RestoredIsKept == \A i \in Written : import[i].named /\ import[i].met = {} => import[i].vault \subseteq vaultFile
CutOffIsKnown ==
  vaultFile = Truncated =>
    \E i \in Imports : i \in WithFile \/ "mixed" \in import[i].met \/ import[i].vault = Truncated

BackupInv == VaultsAreWhole /\ RestoredIsKept /\ CutOffIsKnown

LEMMA NotTruncated == /\ \A s \in SUBSET Creds : s # Truncated /\ s # Nothing
                      /\ Truncated # Nothing
  BY BackupAssumption DEF Truncated

LEMMA BackupStart == BackupInit => BackupInv
<1> SUFFICES ASSUME BackupInit PROVE BackupInv
  OBVIOUS
<1>1. import \in [Imports -> Entries({<<>>})]
  BY DEF BackupInit, Entries, Stage, Bytes
<1>2. \A i \in Imports : import[i].at = "new" /\ import[i].named /\ import[i].vault = {}
  BY DEF BackupInit
<1>3. VaultsAreWhole
  <2>1. vaultFile \in Bytes /\ vaultCache \in (SUBSET Creds) \cup {Nothing} /\ bundle = Nothing
    BY DEF BackupInit, Bytes
  <2> QED
    BY <1>1, <1>2, <2>1 DEF VaultsAreWhole, FirstStage
<1>4. RestoredIsKept
  BY <1>2 DEF RestoredIsKept, Written
<1>5. CutOffIsKnown
  BY NotTruncated DEF BackupInit, CutOffIsKnown
<1> QED
  BY <1>3, <1>4, <1>5 DEF BackupInv

\* Steps that leave the restores alone.
LEMMA RestoreRests ==
  ASSUME BackupInv, UNCHANGED <<vaultFile, import>>, vaultCache' \in (SUBSET Creds) \cup {Nothing},
         bundle' # Nothing => \E d : \E v \in Bytes \cup {Nothing} : bundle' = BundleOf(d, v)
  PROVE  BackupInv'
  BY DEF BackupInv, VaultsAreWhole, FirstStage, RestoredIsKept, CutOffIsKnown, Written, WithFile

LEMMA SetCredentialStep == ASSUME BackupInv, NEW c \in Creds, setCredential(c) PROVE BackupInv'
<1> PICK Schemas : import \in [Imports -> Entries(Schemas)]
  BY DEF BackupInv, VaultsAreWhole
<1>1. loadVault \in SUBSET Creds
  BY DEF setCredential, loadVault, BackupInv, VaultsAreWhole, Bytes
<1>2. /\ vaultFile' = loadVault \cup {c} /\ vaultCache' = loadVault \cup {c} /\ UNCHANGED bundle
      /\ import' = [i \in Imports |->
                     IF i \in WithFile THEN [import[i] EXCEPT !.named = FALSE]
                     ELSE IF i \in Written /\ ~(import[i].vault \subseteq loadVault)
                          THEN [import[i] EXCEPT !.met = @ \cup {"stale"}]
                          ELSE import[i]]
  BY DEF setCredential
<1>3. vaultFile' \in SUBSET Creds /\ vaultFile' \in Bytes /\ vaultCache' \in (SUBSET Creds) \cup {Nothing}
  BY <1>1, <1>2 DEF Bytes
<1>4. \A i \in Imports : /\ import'[i] \in Entries(Schemas)
                         /\ import'[i].at = import[i].at /\ import'[i].vault = import[i].vault
                         /\ import'[i].at \in {"new", "vault"} => import'[i].named = import[i].named
                         /\ i \in Written => \/ "stale" \in import'[i].met
                                             \/ import[i].vault \subseteq loadVault
  <2> SUFFICES ASSUME NEW i \in Imports
               PROVE  /\ import'[i] \in Entries(Schemas)
                      /\ import'[i].at = import[i].at /\ import'[i].vault = import[i].vault
                      /\ import'[i].at \in {"new", "vault"} => import'[i].named = import[i].named
                      /\ i \in Written => \/ "stale" \in import'[i].met
                                          \/ import[i].vault \subseteq loadVault
    OBVIOUS
  <2>1. import[i] \in Entries(Schemas)
    OBVIOUS
  <2>2. CASE i \in WithFile
    BY <1>2, <2>1, <2>2 DEF Entries, WithFile, Written
  <2>3. CASE i \notin WithFile /\ i \in Written /\ ~(import[i].vault \subseteq loadVault)
    BY <1>2, <2>1, <2>3 DEF Entries, Meetings
  <2> QED
    BY <1>2, <2>1, <2>2, <2>3
<1>5. VaultsAreWhole'
  <2>1. import' \in [Imports -> Entries(Schemas)]
    BY <1>2, <1>4
  <2>2. bundle' # Nothing => \E d : \E v \in Bytes \cup {Nothing} : bundle' = BundleOf(d, v)
    BY <1>2 DEF BackupInv, VaultsAreWhole, FirstStage
  <2>3. \A i \in Imports : FirstStage(i)'
    BY <1>4 DEF BackupInv, VaultsAreWhole, FirstStage
  <2> QED
    BY <1>3, <2>1, <2>2, <2>3 DEF VaultsAreWhole
<1>6. RestoredIsKept'
  BY <1>2, <1>4 DEF RestoredIsKept, Written
<1>7. CutOffIsKnown'
  BY <1>3, NotTruncated DEF CutOffIsKnown
<1> QED
  BY <1>5, <1>6, <1>7 DEF BackupInv

LEMMA RebootStep == ASSUME BackupInv, reboot PROVE BackupInv'
<1> PICK Schemas : import \in [Imports -> Entries(Schemas)]
  BY DEF BackupInv, VaultsAreWhole
<1>1. /\ UNCHANGED vaultFile /\ vaultCache' = Nothing /\ bundle' \in {bundle, Nothing}
      /\ import' = [i \in Imports |->
                     IF import[i].at \in {"new", "done", "failed"} THEN import[i]
                     ELSE [import[i] EXCEPT !.at = "killed", !.named = i \in WithFile]]
  BY DEF reboot
<1>2. \A i \in Imports :
        /\ import'[i] \in Entries(Schemas)
        /\ import'[i].vault = import[i].vault /\ import'[i].met = import[i].met
        /\ \/ import'[i] = import[i]
           \/ import'[i].at = "killed" /\ import'[i].named = (i \in WithFile)
        /\ i \in WithFile => import'[i].at \in {"writing", "killed"} /\ import'[i].named
  <2> SUFFICES ASSUME NEW i \in Imports
               PROVE  /\ import'[i] \in Entries(Schemas)
                      /\ import'[i].vault = import[i].vault /\ import'[i].met = import[i].met
                      /\ \/ import'[i] = import[i]
                         \/ import'[i].at = "killed" /\ import'[i].named = (i \in WithFile)
                      /\ i \in WithFile => import'[i].at \in {"writing", "killed"} /\ import'[i].named
    OBVIOUS
  <2>1. import[i] \in Entries(Schemas)
    OBVIOUS
  <2>2. CASE import[i].at \in {"new", "done", "failed"}
    BY <1>1, <2>1, <2>2 DEF WithFile
  <2>3. CASE import[i].at \notin {"new", "done", "failed"}
    <3>1. import'[i] = [import[i] EXCEPT !.at = "killed", !.named = i \in WithFile]
      BY <1>1, <2>3
    <3>2. (i \in WithFile) \in BOOLEAN
      OBVIOUS
    <3> HIDE DEF WithFile
    <3> QED
      BY <2>1, <3>1, <3>2 DEF Entries, Stage
  <2> QED
    BY <2>2, <2>3
<1>3. VaultsAreWhole'
  <2>1. import' \in [Imports -> Entries(Schemas)]
    BY <1>1, <1>2
  <2>2. bundle' # Nothing => \E d : \E v \in Bytes \cup {Nothing} : bundle' = BundleOf(d, v)
    BY <1>1 DEF BackupInv, VaultsAreWhole
  <2>3. \A i \in Imports : FirstStage(i)'
    BY <1>2 DEF BackupInv, VaultsAreWhole, FirstStage
  <2>4. vaultFile' \in Bytes /\ vaultCache' \in (SUBSET Creds) \cup {Nothing}
    BY <1>1 DEF BackupInv, VaultsAreWhole
  <2> QED
    BY <2>1, <2>2, <2>3, <2>4 DEF VaultsAreWhole
<1>4. RestoredIsKept'
  <2>1. \A i \in Imports : import'[i].at \in {"database", "dropping", "done", "failed"} => import'[i] = import[i]
    BY <1>2
  <2> QED
    BY <1>1, <2>1 DEF BackupInv, RestoredIsKept, Written
<1>5. CutOffIsKnown'
  BY <1>1, <1>2 DEF BackupInv, CutOffIsKnown, WithFile
<1> QED
  BY <1>3, <1>4, <1>5 DEF BackupInv

\* One restore goes on without touching the file: what it has written, or has had no
\* credential to write, stays written.
LEMMA ImportGoesOn ==
  ASSUME BackupInv, NEW i \in Imports, NEW to \in {"database", "dropping", "done", "failed"},
         import' = [import EXCEPT ![i].at = to], UNCHANGED <<vaultFile, vaultCache, bundle>>,
         i \in Written \/ (import[i].at = "vault" /\ import[i].vault = {})
  PROVE  BackupInv'
<1> PICK Schemas : import \in [Imports -> Entries(Schemas)]
  BY DEF BackupInv, VaultsAreWhole
<1>1. import' \in [Imports -> Entries(Schemas)]
  BY DEF Entries, Stage
<1>2. \A j \in Imports : /\ import'[j].vault = import[j].vault /\ import'[j].named = import[j].named
                         /\ import'[j].met = import[j].met
                         /\ import'[j].at = IF j = i THEN to ELSE import[j].at
  BY DEF Entries
<1>3. VaultsAreWhole'
  BY <1>1, <1>2 DEF BackupInv, VaultsAreWhole, FirstStage
<1>4. RestoredIsKept'
  BY <1>2 DEF BackupInv, RestoredIsKept, Written
<1>5. CutOffIsKnown'
  BY <1>2 DEF BackupInv, CutOffIsKnown, WithFile, Written
<1> QED
  BY <1>3, <1>4, <1>5 DEF BackupInv

LEMMA TruncateStep == ASSUME BackupInv, NEW i \in Imports, truncateVault(i) PROVE BackupInv'
<1> PICK Schemas : import \in [Imports -> Entries(Schemas)]
  BY DEF BackupInv, VaultsAreWhole
<1>1. /\ import[i].at = "vault" /\ vaultFile' = Truncated /\ UNCHANGED <<vaultCache, bundle>>
      /\ import' = [j \in Imports |->
                     IF j = i THEN [import[i] EXCEPT !.at = "writing"]
                     ELSE IF j \in Written THEN [import[j] EXCEPT !.met = @ \cup {"replaced"}]
                     ELSE import[j]]
  BY DEF truncateVault
<1>2. import[i].named
  BY <1>1 DEF BackupInv, VaultsAreWhole, FirstStage
<1>3. /\ import'[i] \in Entries(Schemas) /\ import'[i].at = "writing" /\ import'[i].named
  <2>1. import[i] \in Entries(Schemas) /\ import'[i] = [import[i] EXCEPT !.at = "writing"]
    BY <1>1
  <2> QED
    BY <1>2, <2>1 DEF Entries, Stage
<1>4. \A j \in Imports \ {i} :
        /\ import'[j] \in Entries(Schemas)
        /\ import'[j].at = import[j].at /\ import'[j].named = import[j].named
        /\ import'[j].vault = import[j].vault
        /\ j \in Written => "replaced" \in import'[j].met
  <2> SUFFICES ASSUME NEW j \in Imports \ {i}
               PROVE  /\ import'[j] \in Entries(Schemas)
                      /\ import'[j].at = import[j].at /\ import'[j].named = import[j].named
                      /\ import'[j].vault = import[j].vault
                      /\ j \in Written => "replaced" \in import'[j].met
    OBVIOUS
  <2>1. import[j] \in Entries(Schemas)
    OBVIOUS
  <2>2. CASE j \in Written
    <3>1. import'[j] = [import[j] EXCEPT !.met = @ \cup {"replaced"}]
      BY <1>1, <2>2
    <3> QED
      BY <2>1, <3>1 DEF Entries, Meetings
  <2> QED
    BY <1>1, <2>1, <2>2
<1>5. VaultsAreWhole'
  <2>1. import' \in [Imports -> Entries(Schemas)]
    BY <1>1, <1>3, <1>4
  <2>2. \A j \in Imports : FirstStage(j)'
    BY <1>3, <1>4 DEF BackupInv, VaultsAreWhole, FirstStage
  <2>3. vaultFile' \in Bytes
    BY <1>1 DEF Bytes
  <2> QED
    BY <1>1, <2>1, <2>2, <2>3 DEF BackupInv, VaultsAreWhole
<1>6. RestoredIsKept'
  BY <1>3, <1>4 DEF RestoredIsKept, Written
<1>7. CutOffIsKnown'
  BY <1>3 DEF CutOffIsKnown, WithFile
<1> QED
  BY <1>5, <1>6, <1>7 DEF BackupInv

LEMMA WriteVaultStep == ASSUME BackupInv, NEW i \in Imports, writeVault(i) PROVE BackupInv'
<1> PICK Schemas : import \in [Imports -> Entries(Schemas)]
  BY DEF BackupInv, VaultsAreWhole
<1>1. /\ import[i].at = "writing" /\ restoreVault(i) /\ UNCHANGED <<vaultCache, bundle>>
      /\ import' = [j \in Imports |->
                     IF j = i THEN [import[i] EXCEPT !.at = "database"]
                     ELSE IF ~import[i].named THEN import[j]
                     ELSE IF j \in WithFile THEN [import[j] EXCEPT !.met = @ \cup {"mixed"}]
                     ELSE IF j \in Written THEN [import[j] EXCEPT !.met = @ \cup {"replaced"}]
                     ELSE import[j]]
  BY DEF writeVault
<1>2. /\ import'[i] \in Entries(Schemas) /\ import'[i].at = "database" /\ import'[i].named = import[i].named
      /\ import'[i].vault = import[i].vault /\ import'[i].met = import[i].met
  <2>1. import[i] \in Entries(Schemas) /\ import'[i] = [import[i] EXCEPT !.at = "database"]
    BY <1>1
  <2> QED
    BY <2>1 DEF Entries, Stage
<1>3. \A j \in Imports \ {i} :
        /\ import'[j] \in Entries(Schemas)
        /\ import'[j].at = import[j].at /\ import'[j].named = import[j].named
        /\ import'[j].vault = import[j].vault /\ import[j].met \subseteq import'[j].met
        /\ import[i].named /\ j \in Written => "replaced" \in import'[j].met
        /\ ~import[i].named => import'[j] = import[j]
  <2> SUFFICES ASSUME NEW j \in Imports \ {i}
               PROVE  /\ import'[j] \in Entries(Schemas)
                      /\ import'[j].at = import[j].at /\ import'[j].named = import[j].named
                      /\ import'[j].vault = import[j].vault /\ import[j].met \subseteq import'[j].met
                      /\ import[i].named /\ j \in Written => "replaced" \in import'[j].met
                      /\ ~import[i].named => import'[j] = import[j]
    OBVIOUS
  <2>1. import[j] \in Entries(Schemas)
    OBVIOUS
  <2>2. CASE import[i].named /\ j \in WithFile
    <3>1. import'[j] = [import[j] EXCEPT !.met = @ \cup {"mixed"}]
      BY <1>1, <2>2
    <3>2. j \notin Written
      BY <2>2 DEF WithFile, Written
    <3> QED
      BY <2>1, <2>2, <3>1, <3>2 DEF Entries, Meetings
  <2>3. CASE import[i].named /\ j \notin WithFile /\ j \in Written
    <3>1. import'[j] = [import[j] EXCEPT !.met = @ \cup {"replaced"}]
      BY <1>1, <2>3
    <3> QED
      BY <2>1, <2>3, <3>1 DEF Entries, Meetings
  <2>4. CASE ~import[i].named \/ (j \notin WithFile /\ j \notin Written)
    <3>1. import'[j] = import[j]
      BY <1>1, <2>4
    <3> QED
      BY <2>1, <2>4, <3>1
  <2> QED
    BY <2>2, <2>3, <2>4
<1>4. /\ import[i].vault \in Bytes /\ vaultFile' \in Bytes
  BY <1>1 DEF BackupInv, VaultsAreWhole, restoreVault, Bytes, Entries
<1>5. VaultsAreWhole'
  <2>1. import' \in [Imports -> Entries(Schemas)]
    BY <1>1, <1>2, <1>3
  <2>2. \A j \in Imports : FirstStage(j)'
    BY <1>2, <1>3 DEF BackupInv, VaultsAreWhole, FirstStage
  <2> QED
    BY <1>1, <1>4, <2>1, <2>2 DEF BackupInv, VaultsAreWhole
<1>6. CASE import[i].named
  <2>1. \/ vaultFile' = import[i].vault
        \/ "mixed" \in import[i].met /\ vaultFile' = Truncated
    BY <1>1, <1>6 DEF restoreVault
  <2>2. RestoredIsKept'
    BY <1>2, <1>3, <1>6, <2>1 DEF RestoredIsKept, Written
  <2>3. CutOffIsKnown'
    BY <1>2, <2>1 DEF CutOffIsKnown
  <2> QED
    BY <1>5, <2>2, <2>3 DEF BackupInv
<1>7. CASE ~import[i].named
  <2>1. UNCHANGED vaultFile
    BY <1>1, <1>7 DEF restoreVault
  <2>2. RestoredIsKept'
    BY <1>2, <1>3, <1>7, <2>1 DEF BackupInv, RestoredIsKept, Written
  <2>3. CutOffIsKnown'
    BY <1>2, <1>3, <1>7, <2>1 DEF BackupInv, CutOffIsKnown, WithFile
  <2> QED
    BY <1>5, <2>2, <2>3 DEF BackupInv
<1> QED
  BY <1>6, <1>7

LEMMA DecryptStep == ASSUME BackupInv, NEW i \in Imports, NEW parts \in Uploads, decrypt(i, parts) PROVE BackupInv'
<1> PICK Schemas : import \in [Imports -> Entries(Schemas)]
  BY DEF BackupInv, VaultsAreWhole
<1>1. /\ import[i].at = "new" /\ bundle # Nothing /\ bundle.vault # Nothing
      /\ UNCHANGED <<vaultFile, vaultCache, bundle>>
      /\ import' = [import EXCEPT ![i] = [@ EXCEPT !.at = "vault", !.schema = bundle.db, !.vault = bundle.vault]]
  BY DEF decrypt, Complete
<1>2. bundle.vault \in Bytes
  <2>1. PICK d : \E v \in Bytes \cup {Nothing} : bundle = BundleOf(d, v)
    BY <1>1 DEF BackupInv, VaultsAreWhole
  <2> QED
    BY <1>1, <2>1 DEF BundleOf
<1> DEFINE More == Schemas \cup {bundle.db}
<1>3. import' \in [Imports -> Entries(More)]
  BY <1>1, <1>2 DEF Entries, Stage
<1>4. /\ import'[i].at = "vault" /\ import'[i].named
      /\ \A j \in Imports \ {i} : import'[j] = import[j]
      /\ import'[i].met = import[i].met
  <2>1. import[i].named /\ import[i] \in Entries(Schemas)
    BY <1>1 DEF BackupInv, VaultsAreWhole, FirstStage
  <2> QED
    BY <1>1, <2>1 DEF Entries
<1>5. VaultsAreWhole'
  <2>1. \A j \in Imports : FirstStage(j)'
    BY <1>4 DEF BackupInv, VaultsAreWhole, FirstStage
  <2> QED
    BY <1>1, <1>3, <2>1 DEF BackupInv, VaultsAreWhole
<1>6. RestoredIsKept'
  BY <1>1, <1>4 DEF BackupInv, RestoredIsKept, Written
<1>7. CutOffIsKnown'
  <2> SUFFICES ASSUME vaultFile = Truncated
               PROVE  \E j \in Imports : (j \in WithFile)' \/ "mixed" \in import'[j].met \/ import'[j].vault = Truncated
    BY <1>1 DEF CutOffIsKnown
  <2>1. PICK j \in Imports : j \in WithFile \/ "mixed" \in import[j].met \/ import[j].vault = Truncated
    BY DEF BackupInv, CutOffIsKnown
  <2>2. j = i => "mixed" \in import[j].met
    BY <1>1, <2>1, NotTruncated DEF WithFile, BackupInv, VaultsAreWhole, FirstStage
  <2> QED
    BY <1>4, <2>1, <2>2 DEF WithFile
<1> QED
  BY <1>5, <1>6, <1>7 DEF BackupInv

LEMMA BackupStep == BackupInv /\ [BackupNext]_backupVars => BackupInv'
<1> SUFFICES ASSUME BackupInv, [BackupNext]_backupVars PROVE BackupInv'
  OBVIOUS
<1>1. CASE UNCHANGED backupVars
  BY <1>1, RestoreRests DEF backupVars, BackupInv, VaultsAreWhole
<1>2. CASE getCredential
  BY <1>2, RestoreRests DEF getCredential, loadVault, BackupInv, VaultsAreWhole, Bytes
<1>3. CASE createBackup
  <2>1. bundle' = BundleOf(sqlDump, Nothing)
    BY <1>3 DEF createBackup, BundleOf
  <2> QED
    BY <1>3, <2>1, RestoreRests DEF createBackup, BackupInv, VaultsAreWhole
<1>4. CASE readVaultBytes
  <2>1. PICK bytes \in Bytes : bundle' = [bundle EXCEPT !.vault = bytes]
    BY <1>4 DEF readVaultBytes, BackupInv, VaultsAreWhole, Bytes
  <2>2. PICK d : \E v \in Bytes \cup {Nothing} : bundle = BundleOf(d, v)
    BY <1>4 DEF readVaultBytes, BackupInv, VaultsAreWhole
  <2>3. bundle' = BundleOf(d, bytes)
    BY <2>1, <2>2 DEF BundleOf
  <2> QED
    BY <1>4, <2>3, RestoreRests DEF readVaultBytes, BackupInv, VaultsAreWhole
<1>5. ASSUME NEW i \in Imports, skipVault(i) \/ dropTable(i) \/ replayDump(i) PROVE BackupInv'
  <2>1. /\ UNCHANGED <<vaultFile, vaultCache, bundle>>
        /\ i \in Written \/ (import[i].at = "vault" /\ import[i].vault = {})
    BY <1>5 DEF skipVault, dropTable, replayDump, Restoring, Written
  <2>2. PICK to \in {"database", "dropping", "done", "failed"} : import' = [import EXCEPT ![i].at = to]
    BY <1>5 DEF skipVault, dropTable, replayDump
  <2> QED
    BY <2>1, <2>2, ImportGoesOn
<1> QED
  BY <1>1, <1>2, <1>3, <1>4, <1>5, SetCredentialStep, RebootStep, TruncateStep, WriteVaultStep, DecryptStep DEF BackupNext

\* Whatever restores overlap, however one was killed and whatever the server stored
\* meanwhile, a restored credential is lost only where a file was renamed over the one that
\* the restore had open, a second restore took the file, or a cache older than the restore
\* was stored; and a file that was cut off is never cached.
THEOREM RestoresKeepVault == BackupSpec => []RestoredVaultIsKept
<1>1. BackupInv => RestoredVaultIsKept
  BY NotTruncated DEF BackupInv, RestoredVaultIsKept, RestoredIsKept, CutOffIsKnown, VaultsAreWhole
<1> QED
  BY <1>1, BackupStart, BackupStep, PTL DEF BackupSpec

-----------------------------------------------------------------------------
\* The Telegram channel

\* Where the channel keeps track of a keyboard it has shown: while it still pushes the
\* request in its local refs, afterwards in `sent', or among the edits to come.
Tracked(r) == IF todo[r] # {} THEN todo[r] \cup refs[r] ELSE pushed[r] \cup editing[r]

KeyboardsAreTracked ==
  \A r \in Requests :
    /\ todo[r] # {} => pushed[r] = {} /\ editing[r] = {}
    /\ \A c \in Chats : message[r][c] = "keyboard" => c \in Tracked(r) \cup failed[r]

\* The channel knows nothing of a request before it is made.
NewIsUnknown ==
  \A r \in Requests : outcome[r] = "new" =>
    /\ todo[r] = {} /\ pushed[r] = {} /\ editing[r] = {}
    /\ \A c \in Chats : message[r][c] = "none"

EditsFollowDecision ==
  \A r \in Requests :
    /\ editing[r] # {} => outcome[r] \in OutcomeDecision
    /\ \A c \in Chats : message[r][c] = "outcome" => outcome[r] \in OutcomeDecision

ChannelInv ==
  /\ QueueInv /\ ChannelTypeOK
  /\ \A e \in entries : e.id = e.req
  /\ KeyboardsAreTracked /\ NewIsUnknown /\ EditsFollowDecision

LEMMA ChannelStart == ChannelInit => ChannelInv
<1> SUFFICES ASSUME ChannelInit PROVE ChannelInv
  OBVIOUS
<1>1. QueueInv
  BY QueueStart DEF ChannelInit
<1>2. ChannelTypeOK
  BY <1>1 DEF ChannelInit, ChannelTypeOK, QueueInv, Shown
<1>3. \A e \in entries : e.id = e.req
  BY DEF ChannelInit, QueueInit
<1>4. KeyboardsAreTracked /\ NewIsUnknown /\ EditsFollowDecision
  BY DEF ChannelInit, KeyboardsAreTracked, NewIsUnknown, EditsFollowDecision
<1> QED
  BY <1>1, <1>2, <1>3, <1>4 DEF ChannelInv

LEMMA NewRequestStep ==
  ASSUME ChannelInv, NEW r \in Requests, NEW timed \in BOOLEAN, newRequest(r, timed)
  PROVE  ChannelInv'
<1> USE DEF ChannelInv
<1>1. request(r, r, timed) /\ r \in Ids
  BY TelegramAssumption DEF newRequest
<1>2. QueueInv'
  BY <1>1, RequestStep
<1>3. /\ outcome[r] = "new" /\ outcome' = [outcome EXCEPT ![r] = "waiting"]
      /\ entries' = entries \cup {[id |-> r, req |-> r]}
  BY <1>1 DEF request
<1>4. /\ UNCHANGED <<refs, pushed, editing, message, listening, failed>>
      /\ todo' \in {todo, [todo EXCEPT ![r] = Chats]}
  BY DEF newRequest
<1>5. ChannelTypeOK'
  BY <1>2, <1>4, SMTT(20) DEF ChannelTypeOK, QueueInv
<1>6. \A e \in entries' : e.id = e.req
  BY <1>3
<1>7. outcome \in [Requests -> {"new", "waiting"} \cup OutcomeDecision]
  BY DEF QueueInv, QueueTypeOK
<1>8. KeyboardsAreTracked'
  BY <1>3, <1>4, ZenonT(40) DEF KeyboardsAreTracked, NewIsUnknown, Tracked, ChannelTypeOK
<1>9. NewIsUnknown'
  BY <1>3, <1>4, <1>7 DEF NewIsUnknown, ChannelTypeOK
<1>10. EditsFollowDecision'
  BY <1>3, <1>4, <1>7 DEF NewIsUnknown, EditsFollowDecision
<1> QED
  BY <1>2, <1>5, <1>6, <1>8, <1>9, <1>10

\* A push returns or fails, an edit returns or fails, or Telegram shows a keyboard: the
\* queue is left alone.
LEMMA ChannelCallStep ==
  ASSUME ChannelInv, NEW r \in Requests, NEW c \in Chats,
         \/ telegramShows(r, c) \/ pushReturns(r, c) \/ pushFails(r, c)
         \/ editReturns(r, c) \/ editFails(r, c)
  PROVE  ChannelInv'
<1> USE DEF ChannelInv
<1>1. UNCHANGED <<queueVars, listening>>
  BY DEF telegramShows, pushReturns, pushFails, afterSend, editReturns, editFails
<1>2. QueueInv' /\ (\A e \in entries' : e.id = e.req) /\ UNCHANGED outcome
  BY <1>1 DEF queueVars, QueueInv, QueueTypeOK, PendingIffWaiting, TimerIsOwn
<1>3. ChannelTypeOK'
  <2>1. CASE telegramShows(r, c)
    BY <1>1, <1>2, <2>1 DEF ChannelTypeOK, QueueInv, Shown, telegramShows
  <2>2. CASE pushReturns(r, c) \/ pushFails(r, c)
    <3>1. ASSUME NEW newRefs \in SUBSET Chats, NEW newFailed \in SUBSET Chats,
                 afterSend(r, c, newRefs), failed' = [failed EXCEPT ![r] = newFailed]
          PROVE  ChannelTypeOK'
      BY <1>1, <1>2, <3>1 DEF ChannelTypeOK, QueueInv, afterSend
    <3>2. CASE pushReturns(r, c)
      <4>1. afterSend(r, c, refs[r] \cup {c}) /\ failed' = [failed EXCEPT ![r] = failed[r]]
        BY <2>2, <3>2 DEF pushReturns, ChannelTypeOK
      <4> QED
        BY <3>1, <4>1 DEF ChannelTypeOK
    <3>3. CASE pushFails(r, c)
      <4>1. afterSend(r, c, refs[r]) /\ failed' = [failed EXCEPT ![r] = failed[r] \cup {c}]
        BY <3>3 DEF pushFails
      <4>2. refs[r] \in SUBSET Chats /\ failed[r] \cup {c} \in SUBSET Chats
        BY DEF ChannelTypeOK
      <4> QED
        BY <3>1, <4>1, <4>2
    <3> QED
      BY <2>2, <3>2, <3>3
  <2>3. CASE editReturns(r, c) \/ editFails(r, c)
    <3>1. UNCHANGED <<todo, refs, pushed, listening>> /\ editing' \in [Requests -> SUBSET Chats]
      BY <2>3 DEF editReturns, editFails, ChannelTypeOK
    <3>2. message' \in [Requests -> [Chats -> Shown]]
      BY <2>3, SMTT(20) DEF editReturns, editFails, ChannelTypeOK, Shown
    <3>3. failed' \in [Requests -> SUBSET Chats]
      BY <2>3 DEF editReturns, editFails, ChannelTypeOK
    <3> QED
      BY <1>2, <3>1, <3>2, <3>3 DEF ChannelTypeOK, QueueInv
  <2> QED
    BY <2>1, <2>2, <2>3
<1>4. outcome[r] # "new"
  BY DEF NewIsUnknown, telegramShows, pushReturns, pushFails, InFlight, editReturns, editFails
<1>5. KeyboardsAreTracked'
  <2>1. CASE telegramShows(r, c)
    <3>1. /\ c \in todo[r] /\ UNCHANGED <<todo, refs, pushed, editing, failed>>
          /\ \A q \in Requests, b \in Chats :
               message'[q][b] = IF q = r /\ b = c THEN "keyboard" ELSE message[q][b]
      BY <2>1 DEF telegramShows, ChannelTypeOK
    <3> QED
      BY <3>1 DEF KeyboardsAreTracked, Tracked
  <2>2. CASE pushReturns(r, c)
    BY <2>2 DEF pushReturns, afterSend, KeyboardsAreTracked, Tracked, ChannelTypeOK, InFlight
  <2>3. CASE pushFails(r, c)
    <3>1. /\ todo' = [todo EXCEPT ![r] = @ \ {c}] /\ failed' = [failed EXCEPT ![r] = @ \cup {c}]
          /\ UNCHANGED <<refs, editing, message>>
          /\ pushed' \in {pushed, [pushed EXCEPT ![r] = refs[r]]}
          /\ todo[r] # {c} => UNCHANGED pushed
          /\ todo[r] = {c} /\ refs[r] # {} => pushed' = [pushed EXCEPT ![r] = refs[r]]
          /\ c \in todo[r]
      BY <2>3 DEF pushFails, afterSend, ChannelTypeOK
    <3>2. ASSUME NEW q \in Requests
          PROVE  /\ todo'[q] # {} => pushed'[q] = {} /\ editing'[q] = {}
                 /\ \A b \in Chats : message'[q][b] = "keyboard" => b \in Tracked(q)' \cup failed'[q]
      <4>1. CASE q # r
        BY <3>1, <4>1 DEF KeyboardsAreTracked, Tracked, ChannelTypeOK
      <4>2. CASE q = r /\ todo[r] # {c}
        BY <3>1, <4>2, SMTT(20) DEF KeyboardsAreTracked, Tracked, ChannelTypeOK
      <4>3. CASE q = r /\ todo[r] = {c}
        BY <3>1, <4>3 DEF KeyboardsAreTracked, Tracked, ChannelTypeOK
      <4> QED
        BY <4>1, <4>2, <4>3
    <3> QED
      BY <3>2 DEF KeyboardsAreTracked
  <2>4. CASE editReturns(r, c)
    BY <2>4, SMTT(20) DEF editReturns, KeyboardsAreTracked, Tracked, ChannelTypeOK
  <2>5. CASE editFails(r, c)
    BY <2>5 DEF editFails, KeyboardsAreTracked, Tracked, ChannelTypeOK
  <2> QED
    BY <2>1, <2>2, <2>3, <2>4, <2>5
<1>6. NewIsUnknown'
  <2> SUFFICES ASSUME NEW q \in Requests, outcome[q] = "new"
               PROVE  /\ todo'[q] = {} /\ pushed'[q] = {} /\ editing'[q] = {}
                      /\ \A b \in Chats : message'[q][b] = "none"
    BY <1>2 DEF NewIsUnknown
  <2>1. q # r
    BY <1>4
  <2>2. todo'[q] = todo[q] /\ pushed'[q] = pushed[q] /\ editing'[q] = editing[q] /\ message'[q] = message[q]
    BY <2>1 DEF ChannelTypeOK, telegramShows, pushReturns, pushFails, afterSend, editReturns, editFails
  <2> QED
    BY <2>2 DEF NewIsUnknown
<1>7. EditsFollowDecision'
  <2>1. CASE telegramShows(r, c)
    BY <1>2, <2>1 DEF EditsFollowDecision, ChannelTypeOK, telegramShows
  <2>2. CASE pushReturns(r, c) \/ pushFails(r, c)
    BY <1>2, <2>2 DEF EditsFollowDecision, pushReturns, pushFails, afterSend
  <2>3. CASE editReturns(r, c)
    BY <1>2, <2>3 DEF EditsFollowDecision, ChannelTypeOK, editReturns
  <2>4. CASE editFails(r, c)
    BY <1>2, <2>4 DEF EditsFollowDecision, ChannelTypeOK, editFails
  <2> QED
    BY <2>1, <2>2, <2>3, <2>4
<1> QED
  BY <1>2, <1>3, <1>5, <1>6, <1>7

\* A decision, from a button or elsewhere, or a timeout settles the request and hands the
\* messages in `sent' over to the edits in the same step.
LEMMA OutcomeStep ==
  ASSUME ChannelInv, NEW r \in Requests, NEW e \in entries, NEW d \in OutcomeDecision,
         e.id = r, settle(e, d), renderOutcome(r), UNCHANGED <<todo, refs, message, listening, failed>>
  PROVE  ChannelInv'
<1> USE DEF ChannelInv
<1>1. QueueInv'
  BY SettleStep
<1>2. /\ outcome[r] = "waiting" /\ outcome' = [outcome EXCEPT ![r] = d]
      /\ outcome \in [Requests -> {"new", "waiting"} \cup OutcomeDecision]
      /\ entries' \subseteq entries
  BY DEF settle, QueueInv, PendingIffWaiting, QueueTypeOK
<1>3. /\ \A q \in Requests \ {r} : pushed'[q] = pushed[q] /\ editing'[q] = editing[q]
      /\ \/ pushed'[r] = {} /\ editing'[r] = pushed[r] /\ pushed[r] # {}
         \/ pushed'[r] = pushed[r] /\ editing'[r] = editing[r]
      /\ pushed' \in [Requests -> SUBSET Chats] /\ editing' \in [Requests -> SUBSET Chats]
  BY ZenonT(40) DEF ChannelTypeOK, renderOutcome
<1>4. editing[r] = {}
  BY <1>2 DEF EditsFollowDecision, OutcomeDecision, Decision
<1>5. ChannelTypeOK'
  BY <1>1, <1>3 DEF ChannelTypeOK, QueueInv
<1>6. \A f \in entries' : f.id = f.req
  BY <1>2
<1>7. KeyboardsAreTracked'
  <2> SUFFICES ASSUME NEW q \in Requests
               PROVE  /\ todo[q] # {} => pushed'[q] = {} /\ editing'[q] = {}
                      /\ \A c \in Chats : message[q][c] = "keyboard" =>
                           \/ c \in failed[q]
                           \/ c \in IF todo[q] # {} THEN todo[q] \cup refs[q] ELSE pushed'[q] \cup editing'[q]
    BY DEF KeyboardsAreTracked, Tracked
  <2>1. /\ todo[q] # {} => pushed[q] = {} /\ editing[q] = {}
        /\ \A c \in Chats : message[q][c] = "keyboard" =>
             \/ c \in failed[q]
             \/ c \in IF todo[q] # {} THEN todo[q] \cup refs[q] ELSE pushed[q] \cup editing[q]
    BY DEF KeyboardsAreTracked, Tracked
  <2> QED
    BY <1>3, <1>4, <2>1
<1>8. NewIsUnknown'
  BY <1>2, <1>3 DEF NewIsUnknown, OutcomeDecision, Decision
<1>9. EditsFollowDecision'
  BY <1>2, <1>3 DEF EditsFollowDecision
<1> QED
  BY <1>1, <1>5, <1>6, <1>7, <1>8, <1>9

LEMMA ChannelStep == ChannelInv /\ [ChannelNext]_telegramVars => ChannelInv'
<1> SUFFICES ASSUME ChannelInv, [ChannelNext]_telegramVars PROVE ChannelInv'
  OBVIOUS
<1>1. ASSUME NEW r \in Requests, NEW d \in Decision, decideElsewhere(r, d) PROVE ChannelInv'
  BY <1>1, OutcomeStep DEF decideElsewhere, decide, OutcomeDecision
<1>2. ASSUME NEW r \in Requests, NEW c \in Chats, NEW d \in Decision, pressButton(r, c, d) PROVE ChannelInv'
  <2>1. CASE outcome[r] = "waiting"
    BY <1>2, <2>1, OutcomeStep DEF pressButton, decide, OutcomeDecision
  <2>2. CASE outcome[r] # "waiting"
    <3>1. /\ message' = [message EXCEPT ![r][c] = "bare"] /\ message[r][c] = "keyboard"
          /\ UNCHANGED <<queueVars, todo, refs, pushed, editing, listening, failed>>
      BY <1>2, <2>2 DEF pressButton
    <3> USE DEF ChannelInv
    <3>2. QueueInv' /\ \A e \in entries' : e.id = e.req
      BY <3>1 DEF queueVars, QueueInv, QueueTypeOK, PendingIffWaiting, TimerIsOwn
    <3>3. ChannelTypeOK'
      BY <3>1, <3>2 DEF ChannelTypeOK, QueueInv, Shown
    <3>4. \A q \in Requests, b \in Chats : message'[q][b] = IF q = r /\ b = c THEN "bare" ELSE message[q][b]
      BY <3>1 DEF ChannelTypeOK
    <3>5. KeyboardsAreTracked'
      BY <3>1, <3>4 DEF KeyboardsAreTracked, Tracked
    <3>6. NewIsUnknown' /\ EditsFollowDecision'
      BY <3>1, <3>4 DEF NewIsUnknown, EditsFollowDecision, queueVars
    <3> QED
      BY <3>2, <3>3, <3>5, <3>6
  <2> QED
    BY <2>1, <2>2
<1>3. ASSUME NEW r \in Requests, timesOut(r) PROVE ChannelInv'
  BY <1>3, OutcomeStep DEF timesOut, expire, OutcomeDecision
<1>4. CASE stop \/ UNCHANGED telegramVars
  <2> USE DEF ChannelInv
  <2>1. UNCHANGED <<entries, timers, outcome, todo, refs, pushed, editing, message, failed>> /\ listening' \in BOOLEAN
    BY <1>4 DEF stop, telegramVars, channelVars, queueVars, ChannelTypeOK
  <2>2. QueueInv' /\ \A e \in entries' : e.id = e.req
    BY <2>1 DEF QueueInv, QueueTypeOK, PendingIffWaiting, TimerIsOwn
  <2>3. ChannelTypeOK'
    BY <2>1, <2>2 DEF ChannelTypeOK, QueueInv
  <2>4. KeyboardsAreTracked' /\ NewIsUnknown' /\ EditsFollowDecision'
    BY <2>1 DEF KeyboardsAreTracked, Tracked, NewIsUnknown, EditsFollowDecision
  <2> QED
    BY <2>2, <2>3, <2>4
<1> QED
  BY <1>1, <1>2, <1>3, <1>4, NewRequestStep, ChannelCallStep DEF ChannelNext

\* No edit runs ahead of the decision, and no keyboard outlives it without a named
\* cause, for any chats, requests and order of pushes, presses and timeouts.
THEOREM ChatsAlwaysFollow == ChannelSpec => []ChatsFollowDecision
<1>1. ChannelInv => ChatsFollowDecision
  <2> SUFFICES ASSUME ChannelInv PROVE ChatsFollowDecision
    OBVIOUS
  <2>1. OutcomeShownIsReal
    BY DEF ChannelInv, OutcomeShownIsReal, EditsFollowDecision
  <2>2. KeyboardAccounted
    BY DEF ChannelInv, KeyboardAccounted, KeyboardsAreTracked, Tracked
  <2> QED
    BY <2>1, <2>2 DEF ChatsFollowDecision
<1> QED
  BY <1>1, ChannelStart, ChannelStep, PTL DEF ChannelSpec

-----------------------------------------------------------------------------
\* The OAuth callback

USE OAuthAssumption

\* The exchange of a callback has begun.
Exchanged == {"exchanging", "storing", "connected", "502", "failed"}

\* Times lie in the past, and only a connector's callback gets as far as an exchange.
PastInv ==
  /\ \A s \in States : issued[s].time <= now
  /\ \A c \in Callbacks : callback[c].time <= now
  /\ \A c \in Callbacks : callback[c].at \in Exchanged => callback[c].platform \in Connectors

\* A state that was not issued, or can still be consumed, has started no exchange.
UseInv ==
  \A s \in States :
    /\ exchanges[s] <= 1
    /\ issued[s].platform = NoPlatform => exchanges[s] = 0 /\ s \notin records["callback"]
    /\ s \in records["callback"] => exchanges[s] = 0

-----------------------------------------------------------------------------
(* Types and times.                                                        *)

LEMMA OAuthStart == Init => TypeOK /\ PastInv /\ UseInv /\ ExchangeWasAsked
<1> SUFFICES ASSUME Init PROVE TypeOK /\ PastInv /\ UseInv /\ ExchangeWasAsked
  OBVIOUS
<1>1. (CHOOSE p \in Platforms : TRUE) \in Platforms /\ (CHOOSE s \in States : TRUE) \in States
  <2>1. (\E p \in Platforms : TRUE) /\ \E s \in States : TRUE
    OBVIOUS
  <2> QED
    BY <2>1, Zenon
<1> DEFINE thePlatform == CHOOSE p \in Platforms : TRUE
           theState == CHOOSE s \in States : TRUE
<1>2. callback = [c \in Callbacks |->
                    [at |-> "new", platform |-> thePlatform, state |-> theState, time |-> 0]]
  BY DEF Init
<1>3. thePlatform \in Platforms /\ theState \in States
  BY <1>1
<1> HIDE DEF thePlatform, theState
<1>4. callback \in [Callbacks -> Callback]
  BY <1>2, <1>3 DEF Callback
<1>5. issued \in [States -> [platform : Platforms \cup {NoPlatform}, time : 0 .. MaxTime]]
  BY DEF Init
<1>6. TypeOK
  <2>1. now \in 0 .. MaxTime /\ records \in [Stores -> SUBSET States]
    BY DEF Init
  <2>2. exchanges \in [States -> Nat] /\ oauth \subseteq Connectors
    BY DEF Init
  <2> QED
    BY <1>4, <1>5, <2>1, <2>2 DEF TypeOK
<1>7. \A c \in Callbacks : callback[c].at = "new" /\ callback[c].time = 0
  BY <1>2
<1>8. PastInv
  <2>1. now = 0 /\ \A s \in States : issued[s].time = 0
    BY DEF Init
  <2> QED
    BY <1>7, <2>1 DEF PastInv, Exchanged
<1>9. UseInv
  BY DEF Init, UseInv, Stores
<1>10. ExchangeWasAsked
  BY <1>7 DEF ExchangeWasAsked
<1> QED
  BY <1>6, <1>8, <1>9, <1>10

\* What arrives() does, for each of its ends.
Arrival == {"404", "400 state", "400 code", "exchanging"}

ArrivesAt(c, p, s, at) ==
  /\ callback[c].at = "new"
  /\ callback' = [callback EXCEPT ![c] = [at |-> at, platform |-> p, state |-> s, time |-> now]]
  /\ at = "404" => UNCHANGED records
  /\ at # "404" => p \in Connectors /\ records' = [records EXCEPT !["callback"] = @ \ {s}]
  /\ at = "400 state" => ~Consumable(p, s)
  /\ at = "exchanging" => Consumable(p, s) /\ exchanges' = [exchanges EXCEPT ![s] = @ + 1]
  /\ at # "exchanging" => UNCHANGED exchanges
  /\ UNCHANGED <<now, issued, oauth>>

LEMMA ArrivesEffect ==
  ASSUME NEW c \in Callbacks, NEW p \in Platforms, NEW s \in States,
         NEW hasCode \in BOOLEAN, arrives(c, p, s, hasCode)
  PROVE  \E at \in Arrival : ArrivesAt(c, p, s, at)
<1> USE DEF Arrival, ArrivesAt
<1>1. CASE p \notin Connectors
  BY <1>1 DEF arrives
<1>2. CASE p \in Connectors /\ ~Consumable(p, s)
  BY <1>2 DEF arrives, delete
<1>3. CASE p \in Connectors /\ Consumable(p, s) /\ ~hasCode
  BY <1>3 DEF arrives, delete
<1>4. CASE p \in Connectors /\ Consumable(p, s) /\ hasCode
  BY <1>4 DEF arrives, delete
<1> QED
  BY <1>1, <1>2, <1>3, <1>4

\* A callback that goes on changes its phase only, from exchanging or storing.
GoesOn(c) ==
  /\ callback[c].at \in {"exchanging", "storing"}
  /\ callback'[c].at \in {"storing", "502", "connected", "failed"}
  /\ callback'[c].platform = callback[c].platform
  /\ callback'[c].state = callback[c].state
  /\ callback'[c].time = callback[c].time
  /\ \A d \in Callbacks \ {c} : callback'[d] = callback[d]
  /\ callback' \in [Callbacks -> Callback]
  /\ oauth' \in {oauth, oauth \cup {callback[c].platform}}
  /\ UNCHANGED <<now, issued, records, exchanges>>

LEMMA GoesOnEffect ==
  ASSUME TypeOK, NEW c \in Callbacks, exchangeReturns(c) \/ stores(c)
  PROVE  GoesOn(c)
<1>1. ASSUME NEW at \in {"storing", "502", "connected", "failed"},
             callback' = [callback EXCEPT ![c].at = at]
      PROVE  /\ callback'[c].at = at
             /\ callback'[c].platform = callback[c].platform
             /\ callback'[c].state = callback[c].state
             /\ callback'[c].time = callback[c].time
             /\ \A d \in Callbacks \ {c} : callback'[d] = callback[d]
             /\ callback' \in [Callbacks -> Callback]
  <2>1. callback[c] \in Callback
    BY DEF TypeOK
  <2>2. callback'[c] = [callback[c] EXCEPT !.at = at]
    BY <1>1 DEF TypeOK
  <2>3. \A d \in Callbacks \ {c} : callback'[d] = callback[d]
    BY <1>1 DEF TypeOK
  <2>4. /\ callback'[c].at = at
        /\ callback'[c].platform = callback[c].platform
        /\ callback'[c].state = callback[c].state
        /\ callback'[c].time = callback[c].time
        /\ callback'[c] \in Callback
    BY <2>1, <2>2 DEF Callback
  <2>5. callback' \in [Callbacks -> Callback]
    BY <1>1, <2>3, <2>4 DEF TypeOK
  <2> QED
    BY <2>3, <2>4, <2>5
<1>2. CASE exchangeReturns(c)
  BY <1>1, <1>2 DEF exchangeReturns, GoesOn
<1>3. CASE stores(c)
  BY <1>1, <1>3 DEF stores, GoesOn
<1> QED
  BY <1>2, <1>3

\* What the types say of the parts the arithmetic is about.
LEMMA Typed ==
  ASSUME TypeOK
  PROVE  /\ now \in Int
         /\ \A s \in States : issued[s].time \in Int
         /\ \A c \in Callbacks : /\ callback[c].time \in Int
                                /\ callback[c].platform \in Platforms
                                /\ callback[c].state \in States
<1>1. \A r \in Callback : r.time \in 0 .. MaxTime /\ r.platform \in Platforms /\ r.state \in States
  BY DEF Callback
<1>2. \A c \in Callbacks : callback[c] \in Callback
  BY DEF TypeOK
<1>3. \A r \in [platform : Platforms \cup {NoPlatform}, time : 0 .. MaxTime] : r.time \in 0 .. MaxTime
  OBVIOUS
<1>4. \A s \in States : issued[s] \in [platform : Platforms \cup {NoPlatform}, time : 0 .. MaxTime]
  BY DEF TypeOK
<1>5. now \in 0 .. MaxTime
  BY DEF TypeOK
<1>6. \A n \in 0 .. MaxTime : n \in Int
  OBVIOUS
<1> QED
  BY <1>1, <1>2, <1>3, <1>4, <1>5, <1>6

\* SingleUse and ExchangeWasAsked with what makes them inductive: a state's uses are
\* counted where its record is, and times and platforms of exchanges are settled.
OAuthInv == TypeOK /\ PastInv /\ UseInv /\ ExchangeWasAsked

LEMMA AuthorizeStep ==
  ASSUME OAuthInv, NEW p \in Platforms, NEW s \in States, authorize(p, s)
  PROVE  OAuthInv'
<1> USE DEF OAuthInv
<1>1. /\ issued'[s] = [platform |-> p, time |-> now]
      /\ \A t \in States \ {s} : issued'[t] = issued[t]
      /\ issued' \in [States -> [platform : Platforms \cup {NoPlatform}, time : 0 .. MaxTime]]
  BY DEF authorize, TypeOK
<1>2. /\ records' \in [Stores -> SUBSET States]
      /\ \A t \in States \ {s} : t \in records'["callback"] => t \in records["callback"]
  BY DEF authorize, TypeOK, Stores, WizardStore
<1>3. TypeOK'
  BY <1>1, <1>2 DEF authorize, TypeOK
<1>4. PastInv'
  <2>1. now \in Int
    BY Typed
  <2>2. issued'[s].time = now
    BY <1>1
  <2> QED
    BY <1>1, <2>1, <2>2 DEF authorize, PastInv
<1>5. UseInv'
  <2> SUFFICES ASSUME NEW t \in States
               PROVE  /\ exchanges[t] <= 1
                      /\ issued'[t].platform = NoPlatform =>
                           exchanges[t] = 0 /\ t \notin records'["callback"]
                      /\ t \in records'["callback"] => exchanges[t] = 0
    BY DEF UseInv, authorize
  <2>1. CASE t = s
    BY <1>1, <2>1 DEF UseInv, authorize
  <2>2. CASE t # s
    BY <1>1, <1>2, <2>2 DEF UseInv
  <2> QED
    BY <2>1, <2>2
<1>6. ExchangeWasAsked'
  <2> SUFFICES ASSUME NEW c \in Callbacks, callback[c].at \in Exchanged
               PROVE  /\ issued'[callback[c].state].platform = callback[c].platform
                      /\ issued'[callback[c].state].time <= callback[c].time
                      /\ callback[c].time < issued'[callback[c].state].time + Ttl
    BY DEF ExchangeWasAsked, Exchanged, authorize
  <2>1. callback[c].platform \in Platforms /\ callback[c].state \in States
    BY Typed
  <2>2. issued[callback[c].state].platform = callback[c].platform
    BY DEF ExchangeWasAsked, Exchanged
  <2>3. callback[c].state # s
    BY <2>1, <2>2 DEF authorize
  <2>4. issued'[callback[c].state] = issued[callback[c].state]
    BY <1>1, <2>1, <2>3
  <2> QED
    BY <2>4 DEF ExchangeWasAsked, Exchanged
<1> QED
  BY <1>3, <1>4, <1>5, <1>6

LEMMA ArrivesStep ==
  ASSUME OAuthInv, NEW c \in Callbacks, NEW p \in Platforms, NEW s \in States,
         NEW at \in Arrival, ArrivesAt(c, p, s, at)
  PROVE  OAuthInv'
<1> USE DEF OAuthInv
<1>1. /\ at \in {"404", "400 state", "400 code", "exchanging"}
      /\ callback[c].at = "new"
      /\ callback' = [callback EXCEPT ![c] =
          [at |-> at, platform |-> p, state |-> s, time |-> now]]
      /\ at = "404" => UNCHANGED records
      /\ at # "404" => p \in Connectors /\ records' = [records EXCEPT !["callback"] = @ \ {s}]
      /\ at = "400 state" => ~Consumable(p, s)
      /\ at = "exchanging" => Consumable(p, s) /\ exchanges' = [exchanges EXCEPT ![s] = @ + 1]
      /\ at # "exchanging" => UNCHANGED exchanges
      /\ UNCHANGED <<now, issued, oauth>>
  BY DEF Arrival, ArrivesAt
<1>0. callback'[c] = [at |-> at, platform |-> p, state |-> s, time |-> now]
  BY <1>1 DEF TypeOK
<1>2. /\ callback'[c].at = at /\ callback'[c].platform = p
      /\ callback'[c].state = s /\ callback'[c].time = now
      /\ \A d \in Callbacks \ {c} : callback'[d] = callback[d]
  BY <1>0, <1>1 DEF TypeOK
<1>3. /\ \A t \in States : t \in records'["callback"] => t \in records["callback"]
      /\ at = "exchanging" => s \notin records'["callback"]
      /\ records' \in [Stores -> SUBSET States]
  <2>1. CASE at = "404"
    BY <1>1, <2>1 DEF TypeOK
  <2>2. CASE at # "404"
    <3>1. records' = [records EXCEPT !["callback"] = @ \ {s}]
      BY <1>1, <2>2
    <3> QED
      BY <3>1 DEF TypeOK, Stores
  <2> QED
    BY <2>1, <2>2
<1>4. TypeOK'
  <2>1. callback'[c] \in Callback
    <3>1. now \in 0 .. MaxTime
      BY DEF TypeOK
    <3>2. at \in {"new", "exchanging", "404", "400 state", "400 code"}
      BY <1>1
    <3>3. [at |-> at, platform |-> p, state |-> s, time |-> now] \in Callback
      BY <3>1, <3>2 DEF Callback
    <3> QED
      BY <1>0, <3>3
  <2>2. callback' \in [Callbacks -> Callback]
    BY <1>1, <1>2, <2>1 DEF TypeOK
  <2>3. exchanges' \in [States -> Nat]
    <3>1. CASE at = "exchanging"
      BY <1>1, <3>1 DEF TypeOK
    <3>2. CASE at # "exchanging"
      BY <1>1, <3>2 DEF TypeOK
    <3> QED
      BY <3>1, <3>2
  <2> QED
    BY <1>1, <1>3, <2>2, <2>3 DEF TypeOK
<1>5. PastInv'
  <2>1. now \in Int
    BY Typed
  <2>2. \A d \in Callbacks : callback'[d].time <= now
    <3>1. ASSUME NEW d \in Callbacks, d # c PROVE callback'[d].time <= now
      BY <1>2, <3>1 DEF PastInv
    <3>2. callback'[c].time <= now
      BY <1>2, <2>1
    <3> QED
      BY <3>1, <3>2
  <2>3. \A d \in Callbacks : callback'[d].at \in Exchanged => callback'[d].platform \in Connectors
    BY <1>1, <1>2 DEF PastInv, Exchanged
  <2> QED
    BY <1>1, <2>2, <2>3 DEF PastInv
<1>6. UseInv'
  <2>1. CASE at # "exchanging"
    BY <1>1, <1>3, <2>1 DEF UseInv
  <2>2. CASE at = "exchanging"
    <3>1. s \in records["callback"] /\ issued[s].platform = p
      BY <1>1, <2>2 DEF Consumable
    <3>2. exchanges'[s] = 1 /\ \A t \in States \ {s} : exchanges'[t] = exchanges[t]
      BY <1>1, <2>2, <3>1 DEF UseInv, TypeOK
    <3> QED
      BY <1>1, <1>3, <2>2, <3>1, <3>2 DEF UseInv
  <2> QED
    BY <2>1, <2>2
<1>7. ExchangeWasAsked'
  <2> SUFFICES ASSUME NEW d \in Callbacks, callback'[d].at \in Exchanged
               PROVE  /\ issued[callback'[d].state].platform = callback'[d].platform
                      /\ issued[callback'[d].state].time <= callback'[d].time
                      /\ callback'[d].time < issued[callback'[d].state].time + Ttl
    BY <1>1 DEF ExchangeWasAsked, Exchanged
  <2>1. CASE d = c
    <3>1. at = "exchanging"
      BY <1>1, <1>2, <2>1 DEF Exchanged
    <3>2. issued[s].platform = p /\ ~(issued[s].time + Ttl <= now)
      BY <1>1, <3>1 DEF Consumable, Expired
    <3>3. issued[s].time <= now /\ issued[s].time \in Int /\ now \in Int
      BY Typed DEF PastInv
    <3>4. now < issued[s].time + Ttl
      BY <3>2, <3>3
    <3> QED
      BY <1>2, <2>1, <3>2, <3>3, <3>4
  <2>2. CASE d # c
    BY <1>2, <2>2 DEF ExchangeWasAsked, Exchanged
  <2> QED
    BY <2>1, <2>2
<1> QED
  BY <1>4, <1>5, <1>6, <1>7

LEMMA GoesOnStep == ASSUME OAuthInv, NEW c \in Callbacks, GoesOn(c) PROVE OAuthInv'
<1> USE DEF OAuthInv
<1>1. callback[c].at \in Exchanged
  BY DEF GoesOn, Exchanged
<1>2. callback[c].platform \in Connectors
  BY <1>1 DEF PastInv
<1>3. TypeOK'
  BY <1>2 DEF GoesOn, TypeOK
<1>4. PastInv'
  <2>1. \A d \in Callbacks : callback'[d].time = callback[d].time
    BY DEF GoesOn
  <2>2. \A d \in Callbacks : callback'[d].at \in Exchanged => callback'[d].platform \in Connectors
    BY <1>2 DEF GoesOn, PastInv
  <2> QED
    BY <2>1, <2>2 DEF GoesOn, PastInv
<1>5. UseInv'
  BY DEF GoesOn, UseInv
<1>6. ExchangeWasAsked'
  <2> SUFFICES ASSUME NEW d \in Callbacks, callback'[d].at \in Exchanged
               PROVE  /\ issued[callback'[d].state].platform = callback'[d].platform
                      /\ issued[callback'[d].state].time <= callback'[d].time
                      /\ callback'[d].time < issued[callback'[d].state].time + Ttl
    BY DEF GoesOn, ExchangeWasAsked, Exchanged
  <2>1. callback[d].at \in Exchanged
    BY <1>1 DEF GoesOn
  <2>2. /\ callback'[d].platform = callback[d].platform
        /\ callback'[d].state = callback[d].state
        /\ callback'[d].time = callback[d].time
    BY DEF GoesOn
  <2> QED
    BY <2>1, <2>2 DEF ExchangeWasAsked, Exchanged
<1> QED
  BY <1>3, <1>4, <1>5, <1>6

LEMMA PruneStep == ASSUME OAuthInv, NEW store \in Stores, prune(store) PROVE OAuthInv'
<1> USE DEF OAuthInv
<1>1. records' \in [Stores -> SUBSET States]
  BY DEF prune, TypeOK
<1>2. \A t \in States : t \in records'["callback"] => t \in records["callback"]
  BY DEF prune, TypeOK, Stores
<1>3. TypeOK'
  BY <1>1 DEF prune, TypeOK
<1>4. PastInv' /\ ExchangeWasAsked'
  BY DEF prune, PastInv, ExchangeWasAsked
<1>5. UseInv'
  BY <1>2 DEF prune, UseInv
<1> QED
  BY <1>3, <1>4, <1>5

LEMMA ClockStep == ASSUME OAuthInv, clock PROVE OAuthInv'
<1> USE DEF OAuthInv
<1>1. TypeOK'
  BY DEF clock, TypeOK
<1>2. PastInv'
  <2>1. now \in Int /\ now' = now + 1
    BY Typed DEF clock
  <2>2. \A s \in States : issued[s].time \in Int
    BY Typed
  <2>3. \A c \in Callbacks : callback[c].time \in Int
    BY Typed
  <2> QED
    BY <2>1, <2>2, <2>3 DEF clock, PastInv
<1>3. UseInv' /\ ExchangeWasAsked'
  BY DEF clock, UseInv, ExchangeWasAsked
<1> QED
  BY <1>1, <1>2, <1>3

LEMMA OAuthStep == OAuthInv /\ [Next]_vars => OAuthInv'
<1> SUFFICES ASSUME OAuthInv, [Next]_vars PROVE OAuthInv'
  OBVIOUS
<1>1. ASSUME NEW c \in Callbacks, exchangeReturns(c) \/ stores(c) PROVE OAuthInv'
  BY <1>1, GoesOnEffect, GoesOnStep DEF OAuthInv
<1>4. ASSUME NEW c \in Callbacks, NEW p \in Platforms, NEW s \in States,
             NEW hasCode \in BOOLEAN, arrives(c, p, s, hasCode)
      PROVE  OAuthInv'
  BY <1>4, ArrivesEffect, ArrivesStep
<1>2. CASE UNCHANGED vars
  BY <1>2 DEF vars, OAuthInv, TypeOK, PastInv, UseInv, ExchangeWasAsked
<1>3. CASE Next
  BY <1>1, <1>3, <1>4, AuthorizeStep, PruneStep, ClockStep DEF Next
<1> QED
  BY <1>2, <1>3

LEMMA OAuthAlways == Spec => []OAuthInv
<1>1. Init => OAuthInv
  BY OAuthStart DEF OAuthInv
<1> QED
  BY <1>1, OAuthStep, PTL DEF Spec

\* A state starts one exchange at most: replays, mixed-up platforms and housekeeping
\* included, and whether or not the routers share a store.
THEOREM StatesAreUsedOnce == Spec => []SingleUse
<1>1. OAuthInv => SingleUse
  BY DEF OAuthInv, UseInv, SingleUse
<1> QED
  BY <1>1, OAuthAlways, PTL

\* A code is exchanged only for the platform the user asked for, within the lifetime.
THEOREM ExchangesWereAsked == Spec => []ExchangeWasAsked
<1>1. OAuthInv => ExchangeWasAsked
  BY DEF OAuthInv
<1> QED
  BY <1>1, OAuthAlways, PTL

-----------------------------------------------------------------------------
(* The stores of the server: one of each router's own.                      *)

\* Nothing comes of any callback.
NothingConnects == oauth = {} /\ \A c \in Callbacks : callback[c].at \in {"new", "404", "400 state"}

StoresApart == OAuthInv /\ records["callback"] = {} /\ NothingConnects

LEMMA ApartStep == ~SharedStore /\ StoresApart /\ [Next]_vars => StoresApart'
<1> SUFFICES ASSUME ~SharedStore, StoresApart, [Next]_vars PROVE StoresApart'
  OBVIOUS
<1>1. OAuthInv'
  BY OAuthStep DEF StoresApart
<1>2. /\ records \in [Stores -> SUBSET States] /\ WizardStore = "wizard" /\ WizardStore # "callback"
      /\ \A p \in Platforms, s \in States : ~Consumable(p, s)
  BY DEF StoresApart, OAuthInv, TypeOK, WizardStore, Consumable
<1>3. ASSUME NEW p \in Platforms, NEW s \in States, authorize(p, s) PROVE records'["callback"] = {} /\ NothingConnects'
  BY <1>2, <1>3 DEF authorize, StoresApart, NothingConnects, Stores
<1>4. ASSUME NEW c \in Callbacks, NEW p \in Platforms, NEW s \in States, NEW hasCode \in BOOLEAN,
             arrives(c, p, s, hasCode)
      PROVE  records'["callback"] = {} /\ NothingConnects'
  <2>1. UNCHANGED records \/ records' = [records EXCEPT !["callback"] = @ \ {s}]
    BY <1>4 DEF arrives, delete
  <2>2. PICK at \in {"404", "400 state"} :
          callback' = [callback EXCEPT ![c] = [at |-> at, platform |-> p, state |-> s, time |-> now]]
    BY <1>2, <1>4 DEF arrives
  <2>3. oauth' = oauth
    BY <1>4 DEF arrives
  <2>4. records'["callback"] = {}
    BY <1>2, <2>1 DEF StoresApart, Stores
  <2>5. ASSUME NEW d \in Callbacks PROVE callback'[d].at \in {"new", "404", "400 state"}
    <3>2. CASE d = c
      BY <2>2, <3>2 DEF StoresApart, OAuthInv, TypeOK
    <3>3. CASE d # c
      BY <2>2, <3>3 DEF StoresApart, OAuthInv, TypeOK, NothingConnects
    <3> QED
      BY <3>2, <3>3
  <2> QED
    BY <2>3, <2>4, <2>5 DEF StoresApart, NothingConnects
<1>5. ASSUME NEW c \in Callbacks PROVE ~exchangeReturns(c) /\ ~stores(c)
  BY DEF exchangeReturns, stores, StoresApart, NothingConnects
<1>6. ASSUME NEW store \in Stores, prune(store) PROVE records'["callback"] = {} /\ NothingConnects'
  BY <1>2, <1>6 DEF prune, StoresApart, NothingConnects, Stores
<1>7. ASSUME clock \/ UNCHANGED vars PROVE records'["callback"] = {} /\ NothingConnects'
  BY <1>7 DEF clock, vars, StoresApart, NothingConnects
<1> QED
  BY <1>1, <1>3, <1>4, <1>5, <1>6, <1>7 DEF Next, StoresApart

\* As the server wires them, with a store for each router, no consent a user gives is
\* ever exchanged: whatever the browser does, and however it is repeated, every callback
\* that reaches a connector is refused for its state.
THEOREM StoresNeverMeet == ASSUME ~SharedStore PROVE Spec => []NothingConnects
<1>1. Init => StoresApart
  <2> SUFFICES ASSUME Init PROVE StoresApart
    OBVIOUS
  <2>1. OAuthInv
    BY OAuthStart DEF OAuthInv
  <2>2. records["callback"] = {} /\ oauth = {}
    BY DEF Init, Stores
  <2>3. \A c \in Callbacks : callback[c].at = "new"
    BY DEF Init
  <2> QED
    BY <2>1, <2>2, <2>3 DEF StoresApart, NothingConnects
<1>2. StoresApart => NothingConnects
  BY DEF StoresApart
<1> QED
  BY <1>1, <1>2, ApartStep, PTL DEF Spec

\* Whatever the browser repeats or mixes up, an exchange answers one request of the user.
THEOREM ExchangesAnswerOneRequest == Spec => []ExchangeIsAskedOnce
  BY StatesAreUsedOnce, ExchangesWereAsked, PTL DEF ExchangeIsAskedOnce
=============================================================================
