------------------------------- MODULE Catalog -------------------------------
(***************************************************************************)
(* The public Store's catalog as Admin serves it: one short snapshot per   *)
(* interface language, refreshed one at a time, and the icon cache         *)
(* (chat/catalog/store.rs), and the bounded pages a browser joins into one *)
(* catalog (chat/assets.rs, frontend/src/lib/assistants/api.js).           *)
(*                                                                         *)
(* A read is cut at each await: the wait for the refresh, the Store's      *)
(* answer, and, for the browser, each of its calls.  A publication is its  *)
(* identities and whether its texts are admissible; a digest stands for    *)
(* the contents it is taken of.                                            *)
(***************************************************************************)
EXTENDS Selections, FiniteSets, SequencesExt, FiniteSetsExt

CONSTANTS
  Locales,       \* interface languages; PLANNING_LOCALE among them
  PLANNING_LOCALE,
  Publications,  \* what the Store answers in turn: each its locale, version and publications
  PageReads,     \* the reads made together: each of a catalog's pages or of an Assistant's icon
  PAGE_BYTES, MAX_ASSISTANTS, MAX_ACTIONS, MAX_ITEMS,
  MAX_CACHED_ICONS, MAX_CACHED_ICON_BYTES, MAX_ICON_BYTES,
  MAX_CATALOG_RESTARTS,
  Failures       \* bound: answers of the Store that are lost or not admissible as such

VARIABLES
  store,   \* how far the Store is in Publications
  entries, \* StoreCatalog.entries: the snapshot of each locale, and whether its time is over
  refresh, \* the read that holds StoreCatalog.refresh, or 0
  icons,   \* IconCache: the keys in order, the contents kept, their bytes
  reads,   \* each read
  failed   \* bound

catalogVars == <<store, entries, refresh, icons, reads, failed>>

(* The Store's answers are JSON of some publications, each with an id; the bounds are      *)
(* numbers, 0 is nobody's read, and a page asks in a language Admin has.                   *)
CatalogShaped ==
  /\ {MAX_CACHED_ICONS, MAX_CACHED_ICON_BYTES, MAX_ICON_BYTES} \subseteq Nat
  /\ PLANNING_LOCALE \in Locales /\ Len(Publications) \in Nat \ {0}
  /\ \A n \in 1..Len(Publications), l \in Locales :
       LET items == Publications[n][l].items
       IN items \in Seq({items[k] : k \in DOMAIN items}) /\ \A k \in DOMAIN items : items[k].id \in Nat
  /\ \A asked \in PageReads : 0 \notin DOMAIN asked /\ \A r \in DOMAIN asked : asked[r].kind # "icon" => asked[r].locale \in Locales
ASSUME CatalogAssumption == CatalogShaped

Unavailable == [ok |-> FALSE, items |-> <<>>]
NoEntry == [kept |-> Unavailable, fresh |-> FALSE]
NoRead(ask) == [ask |-> ask, at |-> "new", snap |-> Unavailable, got |-> <<>>, next |-> 0, digest |-> <<>>, restarts |-> 0]

-----------------------------------------------------------------------------
(* What a snapshot must be.                                                                *)

Distinct(s, most) == Len(s) <= most /\ IsInjective(s)
Ascending(s) == \A n \in 1..Len(s) - 1 : s[n] < s[n + 1]

(* stored_inputs, integrations.                                                            *)
StoredInputsValid(s) == Distinct(s, MAX_ITEMS)
IntegrationListValid(s) == Len(s) <= MAX_ITEMS /\ Ascending(s)

(* action: one gate at most among the human requests it may make.                          *)
GATE_KINDS == {"approval", "auth:password", "auth:totp", "auth:passkey"}
ActionValid(a) ==
  /\ Distinct(a.requests, MAX_ITEMS)
  /\ Cardinality({n \in DOMAIN a.requests : a.requests[n] \in GATE_KINDS}) <= 1

(* actions: some, and no two of one id.                                                    *)
ActionsValid(s) ==
  /\ Len(s) \in 1..MAX_ACTIONS
  /\ \A n \in DOMAIN s : ActionValid(s[n])
  /\ IsInjective([n \in DOMAIN s |-> s[n].id])

AssistantValid(p) ==
  p.texts /\ ActionsValid(p.actions) /\ IntegrationListValid(p.integrations) /\ StoredInputsValid(p.inputs)

(* A bug: publications may repeat an id.                                                   *)
ValidateUnordered(raw, locale) ==
  IF raw.locale = locale /\ Len(raw.items) <= MAX_ASSISTANTS /\ \A n \in DOMAIN raw.items : AssistantValid(raw.items[n])
  THEN [ok |-> TRUE, items |-> raw.items] ELSE Unavailable

(* validate_catalog: in exactly this locale, in ascending order of ids, or nothing of it.  *)
ValidateCatalog(raw, locale) ==
  IF /\ raw.locale = locale /\ Len(raw.items) <= MAX_ASSISTANTS
     /\ \A n \in DOMAIN raw.items : AssistantValid(raw.items[n])
     /\ Ascending([n \in DOMAIN raw.items |-> raw.items[n].id])
  THEN [ok |-> TRUE, items |-> raw.items] ELSE Unavailable

-----------------------------------------------------------------------------
(* The snapshots.                                                                          *)

LocaleOf(r) == IF reads[r].ask.kind = "icon" THEN PLANNING_LOCALE ELSE reads[r].ask.locale
IsFresh(locale) == entries[locale].fresh

(* The Store publishes.                                                                    *)
StorePublishes ==
  /\ store < Len(Publications) /\ store' = store + 1
  /\ UNCHANGED <<entries, refresh, icons, reads, failed>>

(* CATALOG_TTL is over.                                                                    *)
Outdated(locale) ==
  /\ IsFresh(locale) /\ entries' = [entries EXCEPT ![locale].fresh = FALSE]
  /\ UNCHANGED <<store, refresh, icons, reads, failed>>

(* get: a fresh snapshot, a failed load included, or a wait for the refresh.               *)
Get(r) ==
  /\ reads[r].at = "new"
  /\ reads' = [reads EXCEPT ![r].at = IF IsFresh(LocaleOf(r)) THEN "have" ELSE "wait",
                            ![r].snap = entries[LocaleOf(r)].kept]
  /\ UNCHANGED <<store, entries, refresh, icons, failed>>

(* A bug: who waited loads the catalog again.                                              *)
RefreshAgain(r) ==
  /\ reads[r].at = "wait" /\ refresh = 0
  /\ refresh' = r /\ reads' = [reads EXCEPT ![r].at = "fetch"]
  /\ UNCHANGED <<store, entries, icons, failed>>

(* The refresh is this read's; another may have loaded the snapshot meanwhile.             *)
Refresh(r) ==
  /\ reads[r].at = "wait" /\ refresh = 0
  /\ IF IsFresh(LocaleOf(r))
     THEN reads' = [reads EXCEPT ![r].at = "have", ![r].snap = entries[LocaleOf(r)].kept] /\ UNCHANGED refresh
     ELSE reads' = [reads EXCEPT ![r].at = "fetch"] /\ refresh' = r
  /\ UNCHANGED <<store, entries, icons, failed>>

(* fetch_catalog answers: what the Store publishes by now, or nothing; kept for its time.  *)
Fetched(r) ==
  /\ reads[r].at = "fetch"
  /\ \E loaded \in {ValidateCatalog(Publications[store][LocaleOf(r)], LocaleOf(r)), Unavailable} :
       /\ failed' = IF loaded = Unavailable THEN failed + 1 ELSE failed
       /\ failed' <= Failures
       /\ entries' = [entries EXCEPT ![LocaleOf(r)] = [kept |-> loaded, fresh |-> TRUE]]
       /\ reads' = [reads EXCEPT ![r].at = "have", ![r].snap = loaded]
  /\ refresh' = 0
  /\ UNCHANGED <<store, icons>>

-----------------------------------------------------------------------------
(* Pages.                                                                                  *)

(* The digest of what every entry shows: entries that show the same have the same.         *)
Digest(snap) == snap.items

(* catalog_page: whether the entry at n fits a page that starts after first.               *)
Fitting(items, first, n) ==
  FoldFunctionOnSet(+, 0, [i \in 1..Len(items) |-> items[i].size + 1], first + 1..n - 1) + items[n].size < PAGE_BYTES

(* Where that page ends; nothing when not even one entry fits.                             *)
PageEnd(items, first) == Max({n \in first..Len(items) : \A m \in first + 1..n : Fitting(items, first, m)})

(* A bug: a cursor is a place in whatever catalog there is.                                *)
StartAnywhere(read) == read.next >= Len(read.snap.items)

(* start: a cursor of another catalog is refused.                                          *)
Start(read) == read.next # 0 /\ read.digest # Digest(read.snap)

(* catalogPages: a catalog that changed is read again from its start, so many times.       *)
Again(r) ==
  reads' = [reads EXCEPT ![r] =
    IF @.restarts = MAX_CATALOG_RESTARTS THEN [@ EXCEPT !.at = "failed"]
    ELSE [NoRead(reads[r].ask) EXCEPT !.restarts = reads[r].restarts + 1]]

(* One page is read and joined; the next is asked for until there is none.                 *)
CatalogPage(r) ==
  /\ reads[r].at = "have" /\ reads[r].ask.kind = "pages"
  /\ LET read == reads[r]
         items == read.snap.items
         end == PageEnd(items, read.next)
     IN CASE ~read.snap.ok -> reads' = [reads EXCEPT ![r].at = "failed"]
          [] read.snap.ok /\ Start(read) -> Again(r)
          [] read.snap.ok /\ ~Start(read) ->
               reads' = [reads EXCEPT ![r] =
                 IF end = read.next /\ end < Len(items) THEN [read EXCEPT !.at = "failed"]
                 ELSE [read EXCEPT !.at = IF end < Len(items) THEN "new" ELSE "done",
                                   !.got = @ \o SubSeq(items, read.next + 1, end),
                                   !.next = end, !.digest = Digest(read.snap)]]
  /\ UNCHANGED <<store, entries, refresh, icons, failed>>

-----------------------------------------------------------------------------
(* Icons.                                                                                  *)

(* The bytes of so many contents.                                                          *)
IconBytes(keys) == Cardinality(UNION {{key} \X (1..key.size) : key \in keys})

(* VecDeque::retain: the keys but one.                                                     *)
But(order, key) == Select(order, LAMBDA k : k # key)

WithinBounds(cache) == Cardinality(cache.kept) <= MAX_CACHED_ICONS /\ cache.bytes <= MAX_CACHED_ICON_BYTES

(* The n oldest keys taken off, and what is kept of them.                                  *)
WithoutOldest(cache, n) ==
  LET oldest == {cache.order[i] : i \in 1..n}
  IN [order |-> SubSeq(cache.order, n + 1, Len(cache.order)), kept |-> cache.kept \ oldest,
      bytes |-> cache.bytes - IconBytes(cache.kept \cap oldest)]

(* As many are as it takes.                                                                *)
Evicted(cache) ==
  WithoutOldest(cache, Min({n \in 0..Len(cache.order) : WithinBounds(WithoutOldest(cache, n)) \/ n = Len(cache.order)}))

(* IconCache::remember: in place of what the key had, the oldest evicted.                  *)
Remember(cache, key) ==
  Evicted([order |-> Append(IF key \in cache.kept THEN But(cache.order, key) ELSE cache.order, key),
           kept |-> cache.kept \cup {key},
           bytes |-> IF key \in cache.kept THEN cache.bytes ELSE cache.bytes + key.size])

(* icon: the Assistant in the planning catalog, its icon kept or fetched.                  *)
Icon(r) ==
  /\ reads[r].at = "have" /\ reads[r].ask.kind = "icon"
  /\ LET read == reads[r]
         found == {n \in DOMAIN read.snap.items : read.snap.items[n].id = reads[r].ask.id}
         key == read.snap.items[Min(found)].icon
     IN IF ~read.snap.ok \/ found = {}
        THEN reads' = [reads EXCEPT ![r].at = "failed"] /\ UNCHANGED icons
        ELSE /\ reads' = [reads EXCEPT ![r].at = IF key \in icons.kept THEN "done" ELSE "icon", ![r].got = <<key>>]
             /\ icons' = IF key \notin icons.kept THEN icons
                         ELSE [icons EXCEPT !.order = Append(But(@, key), key)]
  /\ UNCHANGED <<store, entries, refresh, failed>>

(* fetch_icon: the contents the digest names, within the bound, or nothing.                *)
FetchedIcon(r) ==
  /\ reads[r].at = "icon"
  /\ LET key == reads[r].got[1]
     IN \/ /\ key.size \in 1..MAX_ICON_BYTES
           /\ icons' = Remember(icons, key) /\ reads' = [reads EXCEPT ![r].at = "done"]
           /\ UNCHANGED failed
        \/ /\ failed' = IF key.size \in 1..MAX_ICON_BYTES THEN failed + 1 ELSE failed
           /\ failed' <= Failures
           /\ reads' = [reads EXCEPT ![r].at = "failed"] /\ UNCHANGED icons
  /\ UNCHANGED <<store, entries, refresh>>
-----------------------------------------------------------------------------
CatalogInit ==
  /\ store = 1 /\ entries = [l \in Locales |-> NoEntry] /\ refresh = 0
  /\ icons = [order |-> <<>>, kept |-> {}, bytes |-> 0]
  /\ failed = 0
  /\ \E asked \in PageReads : reads = [r \in DOMAIN asked |-> NoRead(asked[r])]

CatalogNext ==
  \/ StorePublishes \/ \E l \in Locales : Outdated(l)
  \/ \E r \in DOMAIN reads : Get(r) \/ Refresh(r) \/ Fetched(r) \/ CatalogPage(r) \/ Icon(r) \/ FetchedIcon(r)

CatalogSpec == CatalogInit /\ [][CatalogNext]_catalogVars

-----------------------------------------------------------------------------
(* A catalog joined from pages is one the Store published, whole and in order, whatever    *)
(* was published between its pages (assets.rs, api.js).                                    *)
JoinedIsPublished ==
  \A r \in DOMAIN reads :
    reads[r].ask.kind = "pages" /\ reads[r].at = "done" =>
      \E n \in 1..store : Publications[n][reads[r].ask.locale].items = reads[r].got

(* What is shown names each Assistant once (store.rs).                                     *)
ShownOnce ==
  \A r \in DOMAIN reads :
    LET got == reads[r].got
    IN reads[r].ask.kind = "pages" =>
         \A m, n \in DOMAIN got : m # n => got[m].id # got[n].id

(* The Store is asked for a catalog only while Admin has none that is fresh, and by one    *)
(* read at a time (store.rs: "refreshed one at a time").                                   *)
AskedWhenStale ==
  \A r \in DOMAIN reads : reads[r].at = "fetch" => refresh = r /\ ~IsFresh(LocaleOf(r))

(* The icon cache is within its bounds and counts exactly the contents it keeps, each      *)
(* once in the order they were used, whichever fetches of one icon cross (store.rs).       *)
IconsAccounted ==
  /\ ToSet(icons.order) = icons.kept /\ IsInjective(icons.order)
  /\ icons.bytes = IconBytes(icons.kept)
  /\ WithinBounds(icons)

(* A catalog is whole, its Assistants shown once, its icons counted, and the Store asked    *)
(* when it is stale.                                                                       *)
CatalogWhole == JoinedIsPublished /\ ShownOnce /\ AskedWhenStale /\ IconsAccounted
=============================================================================
