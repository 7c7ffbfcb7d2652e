---------------------------- MODULE CloudDirectory ----------------------------
(***************************************************************************)
(* The device directory of the cloud client, api.py, on top of the account *)
(* session: the paged list that leads from a MAC to the vendor's internal  *)
(* id, the id kept for later calls, and the detail that must prove number  *)
(* and ownership before a status is shown or a POST leaves.                *)
(*                                                                         *)
(* Only rows of the configured MAC are here; rows of other devices move    *)
(* them between pages.  The vendor's records are external: they change     *)
(* between any two requests, two pages of one list included.               *)
(***************************************************************************)
EXTENDS CloudSession, Sequences

CONSTANTS
  Ids,         \* the vendor's internal ids
  Books,       \* what its records may be
  MaxPages,    \* MAX_PAGES
  MaxChanges   \* bound: changes of the records

(* The rows of the MAC on each page, with the account each names, and what *)
(* the detail of each id says: whose number it is, which account owns it.  *)
Users == {"mine", "guest", "absent"}
Row == [id : Ids, user : Users]
Detail == [number : {"ours", "other"}, user : Users]
Book == [pages : Seq(SUBSET Row), detail : [Ids -> Detail]]

ASSUME DirectoryConstants ==
  /\ None \notin Ids /\ MaxPages \in Nat /\ MaxChanges \in Nat
  /\ \A b \in Books : b \in Book /\ \A k \in DOMAIN b.pages : IsFiniteSet(b.pages[k])

VARIABLES
  book,       \* the vendor's records (external)
  changes,    \* how often they have changed
  candidate,  \* the id that _devices has for the MAC
  fetch,      \* the list or detail each call is about
  proven      \* history: the ids whose detail showed each call they are ours

directory == <<book, changes, candidate, fetch, proven>>
dirVars == <<vars, directory>>

(* page is the number of the page asked for, rows and total its answer;    *)
(* found are the ids the pages before it gave, id is the one resolved.     *)
(* steady is a history field: neither the records nor the session have     *)
(* changed since the list was begun.                                       *)
NoFetch == [page |-> 1, rows |-> {}, total |-> 0, found |-> {}, id |-> None, steady |-> TRUE]

DirInit ==
  /\ Init
  /\ book \in Books /\ changes = 0
  /\ candidate \in IF cached THEN Ids ELSE {None}
  /\ fetch = [a \in Activities |-> NoFetch]
  /\ proven = [a \in Activities |-> {}]

-----------------------------------------------------------------------------
(* The cloud (external).                                                   *)

Unsteady == [a \in Activities |-> [fetch[a] EXCEPT !.steady = FALSE]]

RecordsChange ==
  /\ changes < MaxChanges
  /\ book' \in Books \ {book} /\ changes' = changes + 1
  /\ fetch' = Unsteady
  /\ UNCHANGED <<vars, candidate, proven>>

PageOf(k) == IF k \in DOMAIN book.pages THEN book.pages[k] ELSE {}

ServesPage(a) ==
  /\ Reads(a, "list") /\ ServesRead(a)
  /\ act'[a].reply # "foreign"
  /\ fetch' = IF act'[a].reply = "ok"
              THEN [fetch EXCEPT ![a].rows = PageOf(fetch[a].page), ![a].total = Len(book.pages)]
              ELSE fetch
  /\ UNCHANGED <<book, changes, candidate, proven>>

Ours(d) == d.number = "ours" /\ d.user = "mine"

(* Faulty variant: the number alone is proof.                              *)
AcceptsNumber(d) == d.number = "ours"

(* What _device_detail and _owned_device ask of a detail.                  *)
Accepts(d) == d.number = "ours" /\ d.user = "mine"

ServesDetail(a) ==
  LET d == book.detail[fetch[a].id]
      answered == act'[a].reply \in {"ok", "foreign"} IN
  /\ Reads(a, "detail") /\ ServesRead(a)
  /\ answered => act'[a].reply = IF Accepts(d) THEN "ok" ELSE "foreign"
  /\ proven' = IF answered /\ Ours(d) THEN [proven EXCEPT ![a] = @ \cup {fetch[a].id}]
               ELSE proven
  /\ UNCHANGED <<book, changes, candidate, fetch>>

-----------------------------------------------------------------------------
(* _fetch_device_pages.                                                    *)

(* A row that names another account is passed over.  While another call    *)
(* renews the session no account is known, and any name is another's.      *)
Kept(row) == row.user = "absent" \/ (row.user = "mine" /\ owner)

FoundWith(a) == fetch[a].found \cup {row.id : row \in {x \in fetch[a].rows : Kept(x)}}

HasPage(a) == Reads(a, "list") /\ act[a].reply = "ok" /\ fetch[a].total <= MaxPages

(* Faulty variant: rows of different pages are not compared.               *)
ConflictInPage(a) == Cardinality({row.id : row \in {x \in fetch[a].rows : Kept(x)}}) > 1

Conflict(a) == Cardinality(FoundWith(a)) > 1

(* Faulty variant: the pages are counted from nought.                      *)
LastPageFromNought(a) == fetch[a].page + 1 >= fetch[a].total

LastPage(a) == fetch[a].page >= fetch[a].total

NextPage(a) ==
  /\ HasPage(a) /\ ~Conflict(a) /\ ~LastPage(a)
  /\ act' = [act EXCEPT ![a] = LogsIn(@, "list")]
  /\ fetch' = [fetch EXCEPT ![a].page = @ + 1, ![a].found = FoundWith(a),
                            ![a].rows = {}, ![a].total = 0]
  /\ UNCHANGED <<session, locks, cloud, waited, book, changes, candidate, proven>>

(* More pages than supported, or two ids for the MAC: what _devices holds  *)
(* stays.                                                                  *)
ListRefused(a) ==
  /\ Reads(a, "list") /\ act[a].reply = "ok"
  /\ ~HasPage(a) \/ Conflict(a)
  /\ Raises(a)
  /\ fetch' = [fetch EXCEPT ![a] = NoFetch]
  /\ UNCHANGED <<session, cloud, waited, book, changes, candidate, proven>>

(* The end of the list is stored in _devices, with the MAC or without.     *)
NotFound(a) ==
  /\ HasPage(a) /\ LastPage(a) /\ FoundWith(a) = {}
  /\ Raises(a)
  /\ cached' = FALSE /\ candidate' = None
  /\ fetch' = [fetch EXCEPT ![a] = NoFetch]
  /\ UNCHANGED <<token, owner, generation, failure, cloud, waited, book, changes, proven>>

Found(a) ==
  /\ HasPage(a) /\ ~Conflict(a) /\ LastPage(a) /\ FoundWith(a) # {}
  /\ Listed(a)
  /\ candidate' \in FoundWith(a)
  /\ fetch' = [fetch EXCEPT ![a] = [NoFetch EXCEPT !.id = candidate']]
  /\ UNCHANGED <<book, changes, proven>>

-----------------------------------------------------------------------------
(* The rest of _resolve and of the session.                                *)

(* With the lock: the id at hand, or the first page is asked for.          *)
Resolves(a) ==
  /\ TakesDevicesLock(a)
  /\ fetch' = [fetch EXCEPT ![a] = [NoFetch EXCEPT !.id = candidate]]
  /\ UNCHANGED <<book, changes, candidate, proven>>

(* A login clears _devices, also while another call lists them.            *)
LoginForgets(a) ==
  /\ LoginBegins(a)
  /\ candidate' = None
  /\ fetch' = Unsteady
  /\ UNCHANGED <<book, changes, proven>>

SessionStep(a) ==
  /\ \/ Begin(a) \/ TakesCommandLock(a) \/ UsesSession(a) \/ SharesFailure(a)
     \/ LoginSucceeds(a) \/ LoginFails(a)
     \/ Detailed(a) \/ ReadRefused(a) \/ ReadFails(a)
     \/ Posted(a) \/ PostFails(a) \/ ServesPost(a) \/ Cancelled(a)
  /\ fetch' = IF act'[a].pc = "done" THEN [fetch EXCEPT ![a] = NoFetch] ELSE fetch
  /\ UNCHANGED <<book, changes, candidate, proven>>

DirNext ==
  \/ \E a \in Activities :
       \/ SessionStep(a) \/ LoginForgets(a) \/ Resolves(a)
       \/ ServesPage(a) \/ ServesDetail(a)
       \/ NextPage(a) \/ ListRefused(a) \/ NotFound(a) \/ Found(a)
  \/ RecordsChange
  \/ \E t \in Tokens : Expires(t) /\ UNCHANGED directory
  \/ Terminated /\ UNCHANGED directory

DirSpec == DirInit /\ [][DirNext]_dirVars

-----------------------------------------------------------------------------
(* Properties.                                                             *)

(* What the cloud carries out concerns an id whose detail has shown, to    *)
(* the same call, our number and our account: neither an id kept from an   *)
(* older session, nor one that has since been given to another device or   *)
(* to a guest, nor one a list stored after a login had cleared the cache.  *)
PostsToOwn ==
  [][\A a \in Activities : applied'[a] # applied[a] => fetch[a].id \in proven[a]]_dirVars

Listing(a) == {row \in UNION {PageOf(k) : k \in DOMAIN book.pages} : row.user # "guest"}

(* While neither records nor session change, the MAC is reported as not    *)
(* found only if no page has it, wherever other devices have pushed it.    *)
OwnedIsFound ==
  [][\A a \in Activities : NotFound(a) /\ fetch[a].steady => Listing(a) = {}]_dirVars

(* The id a steady list settles on is the only one of the MAC on any page. *)
IdIsUnambiguous ==
  [][\A a \in Activities :
       Found(a) /\ fetch[a].steady =>
         {row.id : row \in Listing(a)} = {candidate'}]_dirVars
=============================================================================
