-------------------------------- MODULE Crm ---------------------------------
(***************************************************************************)
(* The light CRM: identities over the platform accounts that connectors    *)
(* store (src/crm/repository.ts), the addresses found for them             *)
(* (src/crm/email.ts) and the right to delete (src/crm/gdpr.ts), behind    *)
(* the routes of src/server/crm/router.ts.  Every handler is synchronous,  *)
(* so each is one step; what interleaves are the requests of clients and   *)
(* the ingestion of the connectors.  Reads that change nothing are         *)
(* operators; those that begin with sync() are steps.                      *)
(***************************************************************************)
EXTENDS LeadScore, FiniteSets

CONSTANTS
  Mails,        \* mail addresses, without their spelling
  Accounts,     \* ids of social_contacts rows, in the order of their creation
  Messages,     \* platform messages, in the order in which they were sent
  Author,       \* per message, the account it belongs to
  MailIn,       \* per message, the address in its body, or NoMail
  WordsIn,      \* per message, its words of the sentiment lexicons
  Window,       \* the messages of the last engagementWindowDays
  RecentLimit,  \* how many recent bodies are scored
  Profiles,     \* [bio, followers] a connector may store as metadata
  EngagementTarget, FollowerTarget,
  MaxContacts,  \* bound on the ids that crm_contacts ever hands out
  MaxRecords,   \* bound on the metrics and draft decisions kept at once
  NoMail,
  NoRow         \* there is no such row

\* An address has one spelling in lower case and one with capitals.
Mail(name, capitals) == [name |-> name, capitals |-> capitals]
Spelled == [name : Mails, capitals : BOOLEAN]
Address == Spelled \cup {NoMail}

ASSUME CrmAssumption ==
  /\ Accounts \subseteq Nat /\ IsFiniteSet(Accounts)
  /\ Messages \subseteq Nat /\ IsFiniteSet(Messages)
  /\ Author \in [Messages -> Accounts] /\ MailIn \in [Messages -> Address]
  /\ Profiles \subseteq [bio : Address, followers : Nat]
  /\ WordsIn \in [Messages -> [positive : Nat, negative : Nat]]
  /\ EngagementTarget \in Nat \ {0} /\ FollowerTarget \in Nat \ {0}
  /\ RecentLimit \in Nat /\ MaxContacts \in Nat
  /\ NoMail \notin Spelled /\ NoRow \notin [bio : Address, followers : Nat]
  /\ NoRow \notin [email : Address, followers : Nat]

VARIABLES
  social,     \* social_contacts, by id
  messages,   \* social_messages
  insights,   \* platform_insights_raw: the accounts a metric was captured for
  contacts,   \* crm_contacts, by id
  lastId,     \* the last id of crm_contacts
  links,      \* crm_contact_links: the identity of an account, 0: none
  merges,     \* crm_contact_merges: [survivor, source]
  decisions,  \* auto_reply_audit: the contact_id texts in it
  erased      \* history: identities deleted on request

crmVars == <<social, messages, insights, contacts, lastId, links, merges, decisions, erased>>

ContactIds == 1 .. MaxContacts
NoProfile == [bio |-> NoMail, followers |-> 0]

\* config.crm.leadScore.
weights == Weights(EngagementTarget, FollowerTarget)

\* auto_reply_audit.contact_id is TEXT.  A client sends the id as it reads,
\* "5"; SQLite turns the number the driver binds into "5.0".
IdText(id) == [id |-> id, as |-> "5"]
BoundNumber(id) == [id |-> id, as |-> "5.0"]

CrmInit ==
  /\ social = [a \in Accounts |-> NoRow]
  /\ messages = {}
  /\ insights = {}
  /\ contacts = [i \in ContactIds |-> NoRow]
  /\ lastId = 0
  /\ links = [a \in Accounts |-> 0]
  /\ merges = {}
  /\ decisions = {}
  /\ erased = {}

Live(i) == contacts[i] # NoRow
linkedAccounts(i) == {a \in Accounts : links[a] = i}

\* Every message of every linked account, in the order it was sent.
timeline(i) == SetToSortSeq({m \in messages : links[Author[m]] = i}, <)

-----------------------------------------------------------------------------
(* Ingestion by the connectors (SocialBrainRepository).                    *)

crmUnchanged == UNCHANGED <<contacts, lastId, links, merges, erased>>

\* The metadata of an upsert replaces the stored one, unless it has none.
upsertContact(a, profile) ==
  /\ social' = [social EXCEPT ![a] = IF @ # NoRow /\ profile = NoProfile THEN @ ELSE profile]
  /\ UNCHANGED <<messages, insights, decisions>> /\ crmUnchanged

upsertMessage(m) ==
  /\ social[Author[m]] # NoRow
  /\ messages' = messages \cup {m}
  /\ UNCHANGED <<social, insights, decisions>> /\ crmUnchanged

HasRoom == Cardinality(insights) + Cardinality(decisions) < MaxRecords

captureInsight(a) ==
  /\ social[a] # NoRow /\ HasRoom
  /\ insights' = insights \cup {a}
  /\ UNCHANGED <<social, messages, decisions>> /\ crmUnchanged

\* A draft was decided for a thread of this contact (AutoReply).
decideDraft(i) ==
  /\ Live(i) /\ HasRoom
  /\ decisions' = decisions \cup {IdText(i)}
  /\ UNCHANGED <<social, messages, insights>> /\ crmUnchanged

-----------------------------------------------------------------------------
(* Identities.                                                             *)

normalizeEmail(mail) == IF mail = NoMail THEN NoMail ELSE [mail EXCEPT !.capitals = FALSE]

\* The first address of the metadata, else the one of the newest message.
discoverEmail(a) ==
  LET withMail == {m \in messages : Author[m] = a /\ MailIn[m] # NoMail}
  IN  normalizeEmail(IF social[a].bio # NoMail THEN social[a].bio
                     ELSE IF withMail = {} THEN NoMail
                     ELSE MailIn[Max(withMail)])

discoverFollowerCount(a) == social[a].followers

unlinkedSocialContacts == {a \in Accounts : social[a] # NoRow /\ links[a] = 0}

\* The id a new identity gets: they are created in the order of the accounts.
IdFor(a) == lastId + Cardinality({b \in unlinkedSocialContacts : b <= a})

\* Every account without an identity gets one, in one transaction;
\* listContacts() and suggestedMerges() begin with it.
sync ==
  LET new == unlinkedSocialContacts IN
  /\ new # {} /\ lastId + Cardinality(new) <= MaxContacts
  /\ contacts' = [i \in ContactIds |->
       IF \E a \in new : i = IdFor(a)
       THEN LET a == CHOOSE a \in new : i = IdFor(a)
            IN  [email |-> discoverEmail(a), followers |-> discoverFollowerCount(a)]
       ELSE contacts[i]]
  /\ links' = [a \in Accounts |-> IF a \in new THEN IdFor(a) ELSE links[a]]
  /\ lastId' = lastId + Cardinality(new)
  /\ UNCHANGED <<social, messages, insights, merges, decisions, erased>>

\* The pairs in one group of equal addresses.
suggestedMerges ==
  {pair \in ContactIds \X ContactIds :
     /\ pair[1] < pair[2] /\ Live(pair[1]) /\ Live(pair[2])
     /\ contacts[pair[1]].email = contacts[pair[2]].email
     /\ contacts[pair[1]].email # NoMail}

Merged_Survivor(survivor, source) == contacts[survivor]

\* The survivor keeps its address, or takes the source's.
Merged(survivor, source) ==
  LET kept == normalizeEmail(contacts[survivor].email)
      taken == normalizeEmail(contacts[source].email)
  IN  [email |-> IF kept # NoMail THEN kept ELSE taken,
       followers |-> Max({contacts[survivor].followers, contacts[source].followers})]

\* The answer to POST /merge: ids are positive, and an identity that is gone,
\* or the same one twice, is a MergeError.
mergeStatus(survivor, source) ==
  IF survivor = 0 \/ source = 0 THEN 422
  ELSE IF survivor = source \/ ~Live(survivor) \/ ~Live(source) THEN 409 ELSE 200

merge(survivor, source) ==
  /\ mergeStatus(survivor, source) = 200
  /\ links' = [a \in Accounts |-> IF links[a] = source THEN survivor ELSE links[a]]
  /\ contacts' = [contacts EXCEPT ![survivor] = Merged(survivor, source), ![source] = NoRow]
  /\ merges' = merges \cup {[survivor |-> survivor, source |-> source]}
  /\ UNCHANGED <<social, messages, insights, lastId, decisions, erased>>

-----------------------------------------------------------------------------
(* Lead scores: one contact at a time, or a page of contacts at once.      *)

engagementCount(i) == Cardinality({m \in messages \cap Window : links[Author[m]] = i})

newestFirst(sent) == [n \in 1 .. Cardinality(sent) |->
                        CHOOSE m \in sent : Cardinality({q \in sent : q >= m}) = n]

recentBodies(i) ==
  LET newest == newestFirst({m \in messages \cap Window : links[Author[m]] = i})
  IN  [n \in {k \in DOMAIN newest : k <= RecentLimit} |-> WordsIn[newest[n]]]

scoreContact(i) ==
  scoreLead([engagementCount |-> engagementCount(i), followerCount |-> contacts[i].followers,
             recentMessages |-> recentBodies(i)], weights)

\* getContactDetail(): the score with the linked accounts and the timeline.
getContactDetail(i) ==
  [score |-> scoreContact(i), linkedAccounts |-> linkedAccounts(i),
   engagementCount |-> engagementCount(i), timeline |-> timeline(i),
   mergeCount |-> Cardinality({m \in merges : m.survivor = i})]

\* The join of links and messages in the window, of which the page is made.
pageRows == {r \in ContactIds \X (messages \cap Window) : links[Author[r[2]]] = r[1]}

\* ROW_NUMBER() numbers the messages of each contact, newest first.
rowNumber(rows, r) == Cardinality({q \in rows : q[1] = r[1] /\ q[2] >= r[2]})

\* The bodies of each contact by their numbers.
bodiesOf(rows) ==
  [i \in ContactIds |->
     [n \in {rowNumber(rows, r) : r \in {q \in rows : q[1] = i}} |->
        WordsIn[(CHOOSE r \in rows : r[1] = i /\ rowNumber(rows, r) = n)[2]]]]

batchRecentBodies_OneLimit(rows) ==
  bodiesOf({r \in rows : Cardinality({q \in rows : q[2] >= r[2]}) <= RecentLimit})

batchRecentBodies(rows) == bodiesOf({r \in rows : rowNumber(rows, r) <= RecentLimit})

\* What listContacts() returns after its sync(), for every identity.
listContacts ==
  LET bodies == batchRecentBodies(pageRows)
      count(i) == Cardinality({r \in pageRows : r[1] = i})
  IN  [i \in {j \in ContactIds : Live(j)} |->
         [score |-> scoreLead([engagementCount |-> count(i), followerCount |-> contacts[i].followers,
                               recentMessages |-> bodies[i]], weights),
          linkedAccounts |-> linkedAccounts(i), engagementCount |-> count(i)]]

-----------------------------------------------------------------------------
(* The right to delete.                                                    *)

HasMergeHistory(i) == \E m \in merges : m.survivor = i

NeedsCascade_Never(i) == FALSE

\* The identity is the survivor of a merge.
NeedsCascade(i) == HasMergeHistory(i)

\* The answer to DELETE /:id.
deleteStatus(i, cascade) ==
  IF i = 0 THEN 422 ELSE IF ~Live(i) THEN 404
  ELSE IF NeedsCascade(i) /\ ~cascade THEN 409 ELSE 200

\* One transaction; the foreign key of crm_contact_links takes the links along.
deleteContact(i, cascade) ==
  /\ deleteStatus(i, cascade) = 200
  /\ messages' = {m \in messages : Author[m] \notin linkedAccounts(i)}
  /\ insights' = insights \ linkedAccounts(i)
  /\ decisions' = decisions \ {BoundNumber(i)}
  /\ merges' = IF cascade THEN {m \in merges : m.survivor # i} ELSE merges
  /\ contacts' = [contacts EXCEPT ![i] = NoRow]
  /\ links' = [a \in Accounts |-> IF links[a] = i THEN 0 ELSE links[a]]
  /\ erased' = erased \cup {i}
  /\ UNCHANGED <<social, lastId>>

CrmNext ==
  \/ \E a \in Accounts, p \in Profiles \cup {NoProfile} : upsertContact(a, p)
  \/ \E m \in Messages : upsertMessage(m)
  \/ \E a \in Accounts : captureInsight(a)
  \/ sync
  \/ \E i \in ContactIds : decideDraft(i)
  \/ \E i, j \in 0 .. MaxContacts : merge(i, j)
  \/ \E i \in 0 .. MaxContacts, cascade \in BOOLEAN : deleteContact(i, cascade)

CrmSpec == CrmInit /\ [][CrmNext]_crmVars

-----------------------------------------------------------------------------
(* Properties.                                                             *)

CrmTypeOK ==
  /\ social \in [Accounts -> Profiles \cup {NoProfile, NoRow}]
  /\ messages \subseteq Messages /\ insights \subseteq Accounts
  /\ \A i \in ContactIds : Live(i) => contacts[i].email \in Address /\ contacts[i].followers \in Nat
  /\ lastId \in 0 .. MaxContacts
  /\ links \in [Accounts -> 0 .. MaxContacts]
  /\ merges \subseteq [survivor : ContactIds, source : ContactIds]
  /\ erased \subseteq ContactIds

\* An identity lives exactly as long as an account is linked to it, so no
\* merge or deletion leaves an identity without a person or a person with an
\* identity that is gone; a folded or deleted identity never comes back.
IdentityHasAccount ==
  /\ \A i \in ContactIds : Live(i) <=> linkedAccounts(i) # {}
  /\ \A m \in merges : ~Live(m.source)
  /\ \A i \in erased : ~Live(i) /\ ~HasMergeHistory(i)

\* The list scores a contact as its detail does: the batched queries give each
\* contact its own engagement and its own newest messages.
ListAgreesWithDetail ==
  \A i \in DOMAIN listContacts :
    LET detail == getContactDetail(i) IN
    \A f \in DOMAIN listContacts[i] : listContacts[i][f] = detail[f]

\* A contact with engagementTarget engagements and no unfriendly words is in the
\* top bucket, whatever its audience: the boundary is inclusive.
BusyIsTop ==
  \A i \in ContactIds :
    /\ Live(i) /\ engagementCount(i) >= EngagementTarget
    /\ scoreSentiment(recentBodies(i)) >= 50
    => scoreContact(i).bucket = "top"

\* The scores a client sees.
ScoresAreRight == ListAgreesWithDetail /\ BusyIsTop

\* Two identities whose addresses differ in capitals only are suggested for a
\* merge, whether the address came from a profile, a message or a merge.
SuggestionsAreComplete ==
  CrmTypeOK /\
  \A i, j \in ContactIds :
    /\ i < j /\ Live(i) /\ Live(j)
    /\ contacts[i].email # NoMail /\ contacts[j].email # NoMail
    /\ contacts[i].email.name = contacts[j].email.name
    => <<i, j>> \in suggestedMerges

\* Accounts of one person stay together, with the address and the audience
\* found for any of them, until the person is deleted; the deletion takes
\* every message and metric of every account along.
PersonIsWhole ==
  [][ \A a, b \in Accounts :
        /\ links[a] # 0 /\ links[a] = links[b] => links'[a] = links'[b]
        /\ links[a] # 0 /\ links'[a] # 0 =>
             /\ contacts[links[a]].email # NoMail => contacts'[links'[a]].email # NoMail
             /\ contacts'[links'[a]].followers >= contacts[links[a]].followers
        /\ links[a] # 0 /\ links'[a] = 0 =>
             /\ a \notin insights'
             /\ \A m \in messages' : Author[m] # a ]_crmVars

\* "All AI draft decisions associated with this contact" are deleted with it
\* (docs/USER_GUIDE.md:410).
DecisionsAreErased == \A d \in decisions : d.id \notin erased

\* The contact pages, the list and the suggestions, tell what the tables hold.
PagesAreRight == ScoresAreRight /\ SuggestionsAreComplete
=============================================================================
