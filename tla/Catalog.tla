------------------------------ MODULE Catalog -------------------------------
(***************************************************************************)
(* The instances of a hub's families: of(template).create and destroy, and *)
(* list(template), the scan of the storage that hub.ts makes page by page  *)
(* while its consumer takes one instance after the other and channels come *)
(* and go.  What Hub shows about creation under way is not repeated: here  *)
(* a create or a destroy is one step.                                      *)
(***************************************************************************)
EXTENDS Routes, Storage

CONSTANTS Channel,       \* the first segment of the key of every instance
          HostKeys,      \* keys the host keeps in the same storage
          Handles,       \* records [route, params] that of(template) is called with
          Listed,        \* routes whose instances are listed
          PageLimit      \* entries a storage hands out at once, if nobody says otherwise

\* Strings and keys are what they say they are.  A storage that hands out pages hands out
\* something on each.  The host keeps its own keys out of the prefixes of the templates,
\* and calls a handle with the parameters its type has (PathToParams).
ASSUME CatalogAssumption ==
  /\ Slash \in Nat /\ Channel \in Seq(Nat) /\ Templates \in Seq(Seq(Nat))
  /\ None \notin Seq(Nat) \cup Seq(Seq(Nat))
  /\ \A t \in DOMAIN Templates : None \notin [route : {t}, params : [Names(t) -> Seq(Nat)]]
  /\ PageLimit = None \/ PageLimit \in Nat \ {0}
  /\ IsFiniteSet(HostKeys) /\ HostKeys \subseteq Seq(Seq(Nat))
  /\ \A k \in HostKeys, t \in DOMAIN Templates : ~HasPrefix(k, <<Channel, Templates[t]>>)
  /\ Listed \subseteq DOMAIN Templates
  /\ \A h \in Handles :
       /\ h.route \in DOMAIN Templates
       /\ h.params \in [Names(h.route) -> Seq(Nat)]

VARIABLES
  store,      \* the keys of the storage
  scan,       \* list(template): its route, and page and cursor; None when none runs
  yielded,    \* what it has yielded
  kept, seen  \* history: the keys present since it began; those present at any moment of it

vars == <<store, scan, yielded, kept, seen>>

\* The URIs that the handles' parameters make, and what the routes make of them.
UriOf == [h \in Handles |-> Resolve(h.route, h.params)]

Addressed == {UriOf[h] : h \in Handles}
               \cup {Templates[t] : t \in {s \in DOMAIN Templates : Singleton(s)}}

Hit == [u \in Addressed \ {None} |-> Match(u)]

Routed == {u \in DOMAIN Hit : Hit[u] # None}

\* The key of an instance, which is looked up by its URI alone.
KeyOf == [u \in Routed |-> <<Channel, Templates[Hit[u].route], u>>]

Init ==
  /\ store = HostKeys
  /\ scan = None /\ yielded = << >> /\ kept = {} /\ seen = {}

Write(keys) ==
  /\ store' = keys
  /\ IF scan = None THEN UNCHANGED <<kept, seen>> ELSE kept' = kept \cap keys /\ seen' = seen \cup keys
  /\ UNCHANGED <<scan, yielded>>

\* A URI that no route matches, or that exists, is refused; a singleton always exists.
Create(h) ==
  LET uri == UriOf[h] IN
  /\ uri \in Routed
  /\ ~Singleton(Hit[uri].route) /\ KeyOf[uri] \notin store
  /\ Write(store \cup {KeyOf[uri]})

\* The first operation on a singleton stores it.
Touch(t) ==
  /\ Singleton(t) /\ KeyOf[Templates[t]] \notin store
  /\ Write(store \cup {KeyOf[Templates[t]]})

Destroy(h) ==
  LET uri == UriOf[h] IN
  /\ uri \in Routed /\ KeyOf[uri] \in store
  /\ Write(store \ {KeyOf[uri]})

\* Reads the next page of this scan.
Fetch(t, cursor) ==
  LET page == MemoryPage(store, <<Channel, Templates[t]>>, None, cursor, PageLimit)
  IN  [route |-> t, keys |-> page.keys, cursor |-> page.cursor]

\* The first next().
BeginList(t) ==
  /\ scan = None
  /\ scan' = Fetch(t, None)
  /\ yielded' = << >> /\ kept' = store /\ seen' = store
  /\ UNCHANGED store

\* next(): the rest of the page at hand first ...
Yield ==
  /\ scan # None /\ scan.keys # << >>
  /\ LET uri == Head(scan.keys)[3]
     IN  yielded' = Append(yielded, [uri |-> uri, params |-> Hit[uri].params])
  /\ scan' = [scan EXCEPT !.keys = Tail(@)]
  /\ UNCHANGED <<store, kept, seen>>

\* ... then the page after its cursor.
NextPage ==
  /\ scan # None /\ scan.keys = << >> /\ scan.cursor # None
  /\ scan' = Fetch(scan.route, scan.cursor)
  /\ UNCHANGED <<store, yielded, kept, seen>>

Ended == scan # None /\ scan.keys = << >> /\ scan.cursor = None

EndList ==
  /\ Ended
  /\ scan' = None /\ yielded' = << >> /\ kept' = {} /\ seen' = {}
  /\ UNCHANGED store

Next ==
  \/ \E h \in Handles : Create(h) \/ Destroy(h)
  \/ \E t \in DOMAIN Templates : Touch(t)
  \/ \E t \in Listed : BeginList(t)
  \/ Yield \/ NextPage \/ EndList

Spec == Init /\ [][Next]_vars

-----------------------------------------------------------------------------
InstancesOf(t, keys) == {k[3] : k \in {l \in keys : HasPrefix(l, <<Channel, Templates[t]>>)}}

Uris(s) == {s[i].uri : i \in DOMAIN s}

\* A scan that channels are created and destroyed under yields each instance at most once
\* and in the order of the keys, none that did not exist at some moment of the scan, and
\* in the end every one that existed all along.
ScanIsComplete ==
  scan # None =>
    /\ \A i, j \in DOMAIN yielded : i < j => Before(yielded[i].uri, yielded[j].uri)
    /\ Uris(yielded) \subseteq InstancesOf(scan.route, seen)
    /\ Ended => InstancesOf(scan.route, kept) \subseteq Uris(yielded)

\* The handle of a template lists what it has created, with the parameters it was created
\* with: as long as no earlier template matches the same URI, and no value has a slash.
HandleFindsItsOwn ==
  Ended =>
    \A h \in Handles :
      LET uri == UriOf[h] IN
      /\ h.route = scan.route /\ uri \in Routed
      /\ \A n \in DOMAIN h.params : Len(Segments(h.params[n])) = 1
      /\ \A s \in 1..(h.route - 1) : ~Matches(s, Segments(uri))
      /\ KeyOf[uri] \in kept
      => \E i \in DOMAIN yielded : yielded[i] = [uri |-> uri, params |-> h.params]

AllKeys == HostKeys \cup {KeyOf[u] : u \in Routed}

ScannedPrefixes == {<< >>} \cup {SubSeq(k, 1, n) : k \in AllKeys, n \in 1..2}

\* No limit, some that are not positive, and every one up to the number of keys.
Limits == {None} \cup -2..Cardinality(AllKeys)

\* README.md:879: both storages satisfy one contract.  Whatever was stored, a page of the
\* SQLite storage is the page of the memory storage: for every prefix, every start under
\* it or cursor (of a key that may be gone), and no limit or a positive one.  For any
\* other limit they differ: SQLite refuses it, and the memory storage answers a page.
PagesAgree ==
  scan = None =>
    \A prefix \in ScannedPrefixes, limit \in Limits :
      LET Expected(start, cursor) ==
            IF limit = None \/ limit >= 1
            THEN MemoryPage(store, prefix, start, cursor, limit) ELSE None
      IN  \A place \in {None} \cup {k \in AllKeys : HasPrefix(k, prefix)} :
            /\ SqlitePage(store, prefix, place, None, limit) = Expected(place, None)
            /\ SqlitePage(store, prefix, None, place, limit) = Expected(None, place)
=============================================================================
