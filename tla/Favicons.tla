----------------------------- MODULE Favicons ------------------------------
(***************************************************************************)
(* Icons of the item list: FaviconManager, which keeps the icons of web    *)
(* sites in memory and on disk and asks providers one after the other for  *)
(* those it has not, IconProvider, and the icon each row of                *)
(* VaultItemListModel holds from the moment the row is made.  Answers come *)
(* in any order, rows come and go meanwhile, and the program restarts.     *)
(***************************************************************************)
EXTENDS Naturals

CONSTANTS
  Rows,         \* items of the list
  Names,        \* custom icons of login items, and what is taken for domains
  Domain,       \* extractDomain: the domain of a name (mostly itself)
  FileOf,       \* the cache file of a domain, which its lower case decides
  Providers     \* how many providers there are

ASSUME IconsAssumption ==
  /\ Domain \in [Names -> Names] /\ DOMAIN FileOf = Names
  /\ Providers \in Nat \ {0}

VARIABLES
  faviconCache, \* per domain: nothing, a null icon (being loaded), or its icon
  disk,         \* the cache files
  replies,      \* per domain and provider: answers awaited
  asked,        \* per domain: requests sent since the program started
  items         \* the rows: of which site (or none), and the icon shown
iconVars == <<faviconCache, disk, replies, asked, items>>

NoName == "none"                    \* an item without a custom icon
Attempts == 0..(Providers - 1)

IconsInit ==
  /\ faviconCache = [d \in Names |-> "absent"]
  /\ disk = {}
  /\ replies = [d \in Names |-> [a \in Attempts |-> 0]]
  /\ asked = [d \in Names |-> 0]
  /\ items = <<>>

-----------------------------------------------------------------------------
OnDisk(d) == FileOf[d] \in disk

\* What the memory holds once the icons of these domains were asked for: the
\* file's icon, or the null icon that keeps a second load from starting.
GetCachedIcon(cache, domains) ==
  [d \in Names |-> IF d \notin domains \/ cache[d] # "absent" THEN cache[d]
                   ELSE IF OnDisk(d) THEN "icon" ELSE "loading"]

LoadIconForDomain(cache, waiting, domains) ==
  LET starts == {d \in domains : cache[d] = "absent" /\ ~OnDisk(d)} IN
  /\ faviconCache' = GetCachedIcon(cache, domains)
  /\ replies' = [d \in Names |-> IF d \in starts
                                 THEN [waiting[d] EXCEPT ![0] = @ + 1]
                                 ELSE waiting[d]]
  /\ asked' = [d \in Names |-> asked[d] + IF d \in starts THEN 1 ELSE 0]

\* A domain that is being loaded shows the default icon.
GetItemIcon(cache, name) ==
  IF name # NoName /\ cache[Domain[name]] = "icon" THEN "site" ELSE "default"

\* The domains whose icons the items of these names ask for.
GetFaviconForUrl(given) ==
  {Domain[given[i]] : i \in {j \in DOMAIN given : given[j] # NoName}}

\* Rows made, or made anew, for items whose custom icons are given.
ShowRows(given, cache, waiting) ==
  /\ LoadIconForDomain(cache, waiting, GetFaviconForUrl(given))
  /\ items' = [i \in DOMAIN items \cup DOMAIN given |->
                 IF i \in DOMAIN given
                 THEN [name |-> given[i],
                       icon |-> GetItemIcon(faviconCache', given[i])]
                 ELSE items[i]]

ClearItems ==
  /\ items # <<>>
  /\ items' = <<>>
  /\ UNCHANGED <<faviconCache, disk, replies, asked>>

\* The list is set into a model that was cleared before.
SetItems ==
  /\ items = <<>>
  /\ \E some \in SUBSET Rows \ {{}} :
       \E given \in [some -> Names \cup {NoName}] :
         ShowRows(given, faviconCache, replies)
  /\ UNCHANGED disk

\* A new item, or one whose site an edit has changed.
AddOrUpdateItem(i, name) ==
  /\ items # <<>>
  /\ ShowRows([j \in {i} |-> name], faviconCache, replies)
  /\ UNCHANGED disk

-----------------------------------------------------------------------------
Answered(d, a) == [replies EXCEPT ![d][a] = @ - 1]

\* The rows that are drawn anew: those whose custom icon is the domain itself.
OnIconUpdated(d) == [i \in {j \in DOMAIN items : items[j].name = d} |-> d]

\* Mutant of IconLoaded: the rows are told before the icon is kept.
IconLoadedAfter(d, a) ==
  /\ replies[d][a] > 0
  /\ replies' = Answered(d, a)
  /\ faviconCache' = [faviconCache EXCEPT ![d] = "icon"]
  /\ disk' = disk \cup {FileOf[d]}
  /\ UNCHANGED <<asked, items>>

\* An icon came: it is kept, saved if its file can be written, and the rows
\* whose custom icon is this domain get theirs again.
IconLoaded(d, a) ==
  /\ replies[d][a] > 0
  /\ ShowRows(OnIconUpdated(d), [faviconCache EXCEPT ![d] = "icon"],
              Answered(d, a))
  /\ disk' \in {disk, disk \cup {FileOf[d]}}

\* An error, or no picture: the next provider is asked, if there is one.
FetchIcon(d, a) ==
  /\ replies[d][a] > 0
  /\ IF a + 1 < Providers
       THEN /\ replies' = [Answered(d, a) EXCEPT ![d][a + 1] = @ + 1]
            /\ asked' = [asked EXCEPT ![d] = @ + 1]
       ELSE replies' = Answered(d, a) /\ UNCHANGED asked
  /\ UNCHANGED <<faviconCache, disk, items>>

\* The memory and the awaited answers are gone, the files stay unless the
\* system empties its cache.
Restart ==
  /\ faviconCache' = [d \in Names |-> "absent"]
  /\ replies' = [d \in Names |-> [a \in Attempts |-> 0]]
  /\ asked' = [d \in Names |-> 0]
  /\ items' = <<>>
  /\ disk' \in SUBSET disk

IconsNext ==
  \/ ClearItems \/ SetItems \/ Restart
  \/ \E i \in Rows, name \in Names \cup {NoName} : AddOrUpdateItem(i, name)
  \/ \E d \in Names, a \in Attempts : IconLoaded(d, a) \/ FetchIcon(d, a)

IconsSpec == IconsInit /\ [][IconsNext]_iconVars

-----------------------------------------------------------------------------
OneLoad(d) ==
  \E a \in Attempts : \A b \in Attempts : replies[d][b] = IF a = b THEN 1 ELSE 0

\* Whatever order rows, edits and answers come in, a row shows the site's
\* icon as soon as the program has it, and the default one only while exactly
\* one load of it is under way or every provider was asked; and no domain is
\* asked for more often than there are providers.  (Of a name that is not its
\* own domain, "www.www.", the rows are never told: they are left out.)
RowsShowIcons ==
  /\ \A d \in Names : asked[d] <= Providers
  /\ \A i \in DOMAIN items :
       LET d == items[i].name IN
       d # NoName /\ Domain[d] = d =>
         IF items[i].icon = "site" THEN faviconCache[d] = "icon"
         ELSE /\ faviconCache[d] = "loading"
              /\ OneLoad(d) \/ asked[d] = Providers
=============================================================================
