------------------------------ MODULE Assistant ------------------------------
(***************************************************************************)
(* The language models behind the assistant and the reviews: settings      *)
(* pages (settings.Service over the tables llm_providers and the older     *)
(* llm_settings), the hot-swapped ai.Provider with its fallback chain, and *)
(* the review reports written through it.                                  *)
(*                                                                         *)
(* A client is what BuildClient makes of an entry; base URLs and models    *)
(* are those of the entry's kind.  A chain is a sequence of clients; the   *)
(* empty one is the disabled assistant, one of length one is the client    *)
(* itself.                                                                 *)
(***************************************************************************)
EXTENDS Integers, FiniteSets, Lists

CONSTANTS
  Page,        \* browsers with the settings page open, one request at a time
  Report,      \* calls of Generate
  Key,         \* API keys
  NoKey,
  Older,       \* what is ever sent to the older route: records [entry, keep]
  ConfigChain, \* the chain the configuration file gives
  Room,        \* clients whose names fit into the column review_reports.llm
  MaxId,       \* bound: provider rows ever created
  Faulty       \* whether database calls may fail

Client == [kind : {"mock", "remote"}, key : Key \cup {NoKey}]
Entry  == [kind : {"mock", "remote"}, key : Key \cup {NoKey}, enabled : BOOLEAN]

ASSUME OlderAssumption  == Older \subseteq [entry : Entry, keep : BOOLEAN]
ASSUME ConfigAssumption == ConfigChain \in Seq(Client)
ASSUME MaxIdAssumption  == MaxId \in Nat

VARIABLES
  table,      \* llm_providers: rows [id, priority, entry]
  rowId,      \* the next id llm_providers gives
  legacy,     \* llm_settings: its one row, if there is one
  provider,   \* Provider.cur
  shown,      \* shown[p]: the rows page p displays
  view,       \* view[p]: where p's request is
  asked,      \* asked[p]: the entries p's request will write, each with the key
              \* of the row that p kept, NoKey if it kept none
  wrote,      \* wrote[r]: how far report r is, with the chain it took
  reports,    \* review_reports
  crossed,    \* two of their requests were under way at once since the start
  unread      \* the last start could not read the table

settings == <<table, rowId, legacy, provider, shown, view, asked, crossed, unread>>
assistVars == <<settings, wrote, reports>>

Idle == [at |-> "idle", chain |-> <<>>, next |-> 1, by |-> 0, label |-> <<>>, alive |-> TRUE]

----------------------------------------------------------------------------
(* Chains *)

(* BuildClient: only a mock needs no key. *)
Buildable(e) == e.kind = "mock" \/ e.key # NoKey

(* applyChain: entries that are off or cannot be built are left out. *)
ChainOf(entries) ==
  LET usable == Sublist(entries, {i \in DOMAIN entries :
                                    entries[i].enabled /\ Buildable(entries[i])})
  IN [i \in DOMAIN usable |-> [kind |-> usable[i].kind, key |-> usable[i].key]]

(* ORDER BY priority: rows of one priority come in any order. *)
Listings ==
  {s \in SetToSeqs(table) : \A i, j \in DOMAIN s : i < j => s[i].priority <= s[j].priority}

Entries(rows) == [i \in DOMAIN rows |-> rows[i].entry]

(* The legacy row becomes a row of the table. *)
Migrated(e) == [id |-> rowId, priority |-> 0, entry |-> e]

----------------------------------------------------------------------------
(* Start and restart: the table, else the legacy row, else the config *)

Loaded(found) ==
  \/ /\ found # <<>>
     /\ provider' = ChainOf(Entries(found))
     /\ UNCHANGED <<table, rowId>>
  \/ /\ found = <<>> /\ rowId <= MaxId
     /\ \E e \in legacy : table' = {Migrated(e)} /\ provider' = ChainOf(<<e>>)
     /\ rowId' = rowId + 1
  \/ /\ found = <<>> /\ (legacy = {} \/ Faulty)
     /\ provider' = ConfigChain
     /\ UNCHANGED <<table, rowId>>

AssistInit ==
  /\ table = {} /\ rowId = 1
  /\ legacy \in {{}, {[kind |-> "mock", key |-> NoKey, enabled |-> TRUE]}}
  /\ provider = ConfigChain
  /\ shown = [p \in Page |-> <<>>]
  /\ view = [p \in Page |-> "booting"]
  /\ asked = [p \in Page |-> <<>>]
  /\ wrote = [r \in Report |-> Idle]
  /\ reports = {}
  /\ crossed = FALSE /\ unread = FALSE

(* LoadChainOnStart, before the server serves; what ran before is gone. *)
LoadChainOnStart ==
  /\ \/ \E found \in Listings : Loaded(found) /\ unread' = FALSE
     \/ Faulty /\ provider' = ConfigChain /\ unread' = TRUE /\ UNCHANGED <<table, rowId>>
  /\ view' = [p \in Page |-> "idle"]
  /\ asked' = [p \in Page |-> <<>>]
  /\ wrote' = [r \in Report |-> IF wrote[r].at = "done" THEN wrote[r] ELSE Idle]
  /\ crossed' = FALSE
  /\ UNCHANGED <<legacy, shown, reports>>

----------------------------------------------------------------------------
(* The settings pages *)

Turn(p, there) == view' = [view EXCEPT ![p] = there]

Enter(p, there) ==
  /\ view[p] = "idle"
  /\ Turn(p, there)
  /\ crossed' = (crossed \/ \E o \in Page \ {p} : view[o] # "idle")

(* GET: GetChain alone. *)
GetProviders(p) ==
  /\ Enter(p, "listing")
  /\ UNCHANGED <<table, rowId, legacy, provider, shown, asked, unread, wrote, reports>>

(* What the page can send: some of its rows, kept or switched, and new ones. *)
Keeping(row, on) ==
  [id |-> row.id, kind |-> row.entry.kind, key |-> NoKey, enabled |-> on,
   keep |-> row.entry.key # NoKey, kept |-> row.entry.key]
Fresh(kind, k) ==
  [id |-> 0, kind |-> kind, key |-> k, enabled |-> TRUE, keep |-> FALSE, kept |-> NoKey]

Fields(p) ==
  {Keeping(row, on) : row \in Range(shown[p]), on \in BOOLEAN}
  \cup {Fresh("remote", k) : k \in Key} \cup {Fresh("mock", NoKey)}

Inputs(p) == {<<>>} \cup {<<f>> : f \in Fields(p)} \cup {<<f, g>> : f, g \in Fields(p)}

(* Mutant: the secret kept is that of the row now in the input's place. *)
SecretOfPlace(f, prior) ==
  IF \E row \in prior : f.keep /\ row.priority = 0
  THEN (CHOOSE row \in prior : row.priority = 0).entry.key ELSE f.key

(* existing[in.ID], which is empty for an id no row has any more. *)
SecretOf(f, prior) ==
  IF f.keep /\ \E row \in prior : row.id = f.id
  THEN (CHOOSE row \in prior : row.id = f.id).entry.key ELSE f.key

(* PUT: SaveChain reads the secrets (and goes on without them) and validates. *)
SaveChain(p, inputs) ==
  \E prior \in {table} \cup (IF Faulty THEN {{}} ELSE {}) :
    LET write == [i \in DOMAIN inputs |->
                    [kept  |-> inputs[i].kept,
                     entry |-> [kind |-> inputs[i].kind, key |-> SecretOf(inputs[i], prior),
                                enabled |-> inputs[i].enabled]]]
    IN /\ \A w \in Range(write) : w.entry.enabled => Buildable(w.entry)
       /\ Enter(p, "replacing")
       /\ asked' = [asked EXCEPT ![p] = write]
       /\ UNCHANGED <<table, rowId, legacy, provider, shown, unread, wrote, reports>>

(* Mutant: the transaction only adds. *)
ReplaceAdding(p) ==
  /\ view[p] = "replacing"
  /\ rowId + Len(asked[p]) <= MaxId + 1
  /\ table' = table \cup {[id |-> rowId + i - 1, priority |-> i - 1, entry |-> asked[p][i].entry] :
                            i \in DOMAIN asked[p]}
  /\ rowId' = rowId + Len(asked[p])
  /\ Turn(p, "swapping")
  /\ UNCHANGED <<legacy, provider, shown, asked, crossed, unread, wrote, reports>>

(* The transaction: all rows are deleted, the new ones created; or nothing. *)
Replace(p) ==
  /\ view[p] = "replacing"
  /\ rowId + Len(asked[p]) <= MaxId + 1
  /\ table' = {[id |-> rowId + i - 1, priority |-> i - 1, entry |-> asked[p][i].entry] :
                 i \in DOMAIN asked[p]}
  /\ rowId' = rowId + Len(asked[p])
  /\ Turn(p, "swapping")
  /\ UNCHANGED <<legacy, provider, shown, asked, crossed, unread, wrote, reports>>

ReplaceFails(p) ==
  /\ Faulty
  /\ view[p] = "replacing"
  /\ Turn(p, "idle")
  /\ asked' = [asked EXCEPT ![p] = <<>>]
  /\ UNCHANGED <<table, rowId, legacy, provider, shown, crossed, unread, wrote, reports>>

(* applyChain; the answer is then read from the table. *)
Swap(p) ==
  /\ view[p] = "swapping"
  /\ provider' = ChainOf(Entries(asked[p]))
  /\ asked' = [asked EXCEPT ![p] = <<>>]
  /\ unread' = FALSE
  /\ Turn(p, "listing")
  /\ UNCHANGED <<table, rowId, legacy, shown, crossed, wrote, reports>>

(* loadProviderRows: what the table has, ... *)
LoadProviderRows(p) ==
  /\ view[p] = "listing"
  /\ \/ /\ table # {}
        /\ \E rows \in Listings : shown' = [shown EXCEPT ![p] = rows]
        /\ Turn(p, "idle")
     \/ table = {} /\ Turn(p, "migrating") /\ UNCHANGED shown
     \/ Faulty /\ Turn(p, "idle") /\ UNCHANGED shown
  /\ UNCHANGED <<table, rowId, legacy, provider, asked, crossed, unread, wrote, reports>>

(* ... and, if that was nothing, the legacy row, which is stored. *)
Migrate(p) ==
  /\ view[p] = "migrating"
  /\ \/ /\ rowId <= MaxId /\ rowId' = rowId + 1
        /\ \E e \in legacy :
             /\ table' = table \cup {Migrated(e)}
             /\ shown' = [shown EXCEPT ![p] = <<Migrated(e)>>]
     \/ /\ legacy = {} \/ Faulty
        /\ shown' = [shown EXCEPT ![p] = <<>>]
        /\ UNCHANGED <<table, rowId>>
  /\ Turn(p, "idle")
  /\ UNCHANGED <<legacy, provider, asked, crossed, unread, wrote, reports>>

(***************************************************************************)
(* PUT /llm, the older route: the one row is read, validated and saved,    *)
(* then the provider is swapped, whatever llm_providers holds.             *)
(***************************************************************************)
SaveLegacy(p) ==
  \E in \in Older :
    LET stored == IF legacy = {} THEN NoKey ELSE (CHOOSE e \in legacy : TRUE).key
        entry == IF in.keep /\ in.entry.key = NoKey
                 THEN [in.entry EXCEPT !.key = stored] ELSE in.entry
    IN /\ entry.enabled => Buildable(entry)
       /\ Enter(p, "saving legacy")
       /\ asked' = [asked EXCEPT ![p] = <<[kept |-> NoKey, entry |-> entry]>>]
       /\ UNCHANGED <<table, rowId, legacy, provider, shown, unread, wrote, reports>>

WriteLegacy(p) ==
  /\ view[p] = "saving legacy"
  /\ \/ legacy' = {asked[p][1].entry} /\ Turn(p, "applying legacy") /\ UNCHANGED asked
     \/ /\ Faulty /\ Turn(p, "idle") /\ asked' = [asked EXCEPT ![p] = <<>>]
        /\ UNCHANGED legacy
  /\ UNCHANGED <<table, rowId, provider, shown, crossed, unread, wrote, reports>>

ApplyLegacy(p) ==
  /\ view[p] = "applying legacy"
  /\ provider' = ChainOf(Entries(asked[p]))
  /\ asked' = [asked EXCEPT ![p] = <<>>]
  /\ Turn(p, "idle")
  /\ UNCHANGED <<table, rowId, legacy, shown, crossed, unread, wrote, reports>>

----------------------------------------------------------------------------
(* A review report *)

(* Generate has its data; Provider.Summarize takes the chain of the moment. *)
Generate(r) ==
  /\ wrote[r].at = "idle"
  /\ \A p \in Page : view[p] # "booting"
  /\ wrote' = [wrote EXCEPT ![r].chain = provider,
                            ![r].at = IF provider = <<>> THEN "persisting" ELSE "asking"]
  /\ UNCHANGED <<settings, reports>>

(* Mutant: only the head of the chain is asked. *)
AskHead(r) ==
  /\ wrote[r].at = "asking"
  /\ wrote[r].alive
  /\ \/ wrote' = [wrote EXCEPT ![r].by = wrote[r].next, ![r].at = "naming"]
     \/ wrote' = [wrote EXCEPT ![r].next = @ + 1, ![r].at = "persisting"]
  /\ UNCHANGED <<settings, reports>>

(* One backend answers, or fails or says nothing and the next one is asked. *)
Ask(r) ==
  /\ wrote[r].at = "asking"
  /\ wrote[r].alive
  /\ \/ wrote' = [wrote EXCEPT ![r].by = wrote[r].next, ![r].at = "naming"]
     \/ wrote' = [wrote EXCEPT ![r].next = @ + 1,
                               ![r].at = IF wrote[r].next < Len(wrote[r].chain)
                                         THEN "asking" ELSE "persisting"]
  /\ UNCHANGED <<settings, reports>>

(* The context ends: no further backend is asked. *)
Expire(r) ==
  /\ wrote[r].at \in {"asking", "naming", "persisting"}
  /\ wrote[r].alive
  /\ wrote' = [wrote EXCEPT ![r].alive = FALSE,
                            ![r].at = IF @ = "asking" THEN "persisting" ELSE @]
  /\ UNCHANGED <<settings, reports>>

(* Provider.Name, of the chain that is live by now. *)
NameProvider(r) ==
  /\ wrote[r].at = "naming"
  /\ wrote' = [wrote EXCEPT ![r].label = provider, ![r].at = "persisting"]
  /\ UNCHANGED <<settings, reports>>

(* Create: refused when the label is longer than its column. *)
PersistReport(r) ==
  /\ wrote[r].at = "persisting"
  /\ wrote' = [wrote EXCEPT ![r].at = "done"]
  /\ \/ /\ wrote[r].alive /\ Len(wrote[r].label) <= Room
        /\ reports' = reports \cup {r}
     \/ /\ Faulty \/ ~wrote[r].alive \/ Len(wrote[r].label) > Room
        /\ UNCHANGED reports
  /\ UNCHANGED settings

AssistNext ==
  \/ LoadChainOnStart
  \/ \E p \in Page :
       \/ GetProviders(p)
       \/ \E inputs \in Inputs(p) : SaveChain(p, inputs)
       \/ Replace(p) \/ ReplaceFails(p) \/ Swap(p) \/ LoadProviderRows(p) \/ Migrate(p)
       \/ SaveLegacy(p) \/ WriteLegacy(p) \/ ApplyLegacy(p)
  \/ \E r \in Report : Generate(r) \/ Ask(r) \/ Expire(r) \/ NameProvider(r) \/ PersistReport(r)

AssistSpec == AssistInit /\ [][AssistNext]_assistVars

----------------------------------------------------------------------------
(* Properties *)

ProviderRow == [id : 1..MaxId, priority : Nat, entry : Entry]

Asked == [kept : Key \cup {NoKey}, entry : Entry]

Progress ==
  [at : {"idle", "asking", "naming", "persisting", "done"}, chain : Seq(Client),
   next : Nat \ {0}, by : Nat, label : Seq(Client), alive : BOOLEAN]

AssistTypeOK ==
  /\ table \subseteq ProviderRow
  /\ rowId \in 1..(MaxId + 1)
  /\ legacy \subseteq Entry /\ Cardinality(legacy) <= 1
  /\ provider \in Seq(Client)
  /\ shown \in [Page -> Seq(ProviderRow)]
  /\ view \in [Page -> {"booting", "idle", "listing", "migrating", "replacing", "swapping",
                        "saving legacy", "applying legacy"}]
  /\ asked \in [Page -> Seq(Asked)]
  /\ wrote \in [Report -> Progress]
  /\ reports \subseteq Report
  /\ crossed \in BOOLEAN /\ unread \in BOOLEAN

Quiet == \A p \in Page : view[p] = "idle"

(***************************************************************************)
(* A page that keeps a stored secret (KeepKey) never switches the provider *)
(* on with another one: not after edits and reorders, not when the rows it *)
(* shows were replaced or a read fails behind its back.  What it meant is  *)
(* written, or nothing is.                                                 *)
(***************************************************************************)
KeptKeyIsShown ==
  \A p \in Page : \A w \in Range(asked[p]) :
    w.kept # NoKey /\ w.entry.enabled /\ w.entry.kind = "remote" => w.entry.key = w.kept

(***************************************************************************)
(* "Replace-all in a transaction so a partial write can't leave a          *)
(* half-updated chain" and "hot-swaps the live Provider": where the older  *)
(* route was never used, whatever of the table's providers can be built is *)
(* what the assistant asks, in the order of their priorities, whenever no  *)
(* request is under way and none overlapped since the last start.          *)
(***************************************************************************)
LiveIsTable ==
  Quiet /\ ~crossed /\ ~unread /\ legacy = {} /\ table # {} =>
    \E rows \in Listings : provider = ChainOf(Entries(rows))

(***************************************************************************)
(* "It falls back to the structured data block" only without an LLM or on  *)
(* error: a report whose context lives has asked every backend of the      *)
(* chain that was live when it began before it goes without a narrative,   *)
(* whatever is swapped in meanwhile.                                       *)
(***************************************************************************)
FallsThrough ==
  \A r \in Report :
    wrote[r].at \in {"persisting", "done"} /\ wrote[r].alive /\ wrote[r].by = 0 =>
      wrote[r].next > Len(wrote[r].chain)

(***************************************************************************)
(* "The llm_providers table is the canonical runtime config" (service.go): *)
(* after any sequence of saves that took turns, what is asked is what the  *)
(* table has.                                                              *)
(***************************************************************************)
CanonicalTable ==
  Quiet /\ ~crossed /\ ~unread /\ table # {} =>
    \E rows \in Listings : provider = ChainOf(Entries(rows))
=============================================================================
