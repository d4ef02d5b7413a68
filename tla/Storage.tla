------------------------------ MODULE Storage -------------------------------
(***************************************************************************)
(* The prefix scan of storage.ts, and the same scan as sqlite.ts makes it  *)
(* with one text column.  A store is the set of its keys; a key is a       *)
(* sequence of strings.                                                    *)
(***************************************************************************)
EXTENDS Strings, Integers

CONSTANTS Base, Width   \* a code unit is written with Width digits of this base

\* hasPrefix
HasPrefix(key, prefix) ==
  Len(key) >= Len(prefix) /\ SubSeq(key, 1, Len(prefix)) = prefix

\* compareKeys: segment by segment, and a key before its own extensions.
KeyBefore(k, l) ==
  \E i \in 1..Len(l) :
    /\ i <= Len(k) + 1
    /\ \A j \in 1..(i - 1) : k[j] = l[j]
    /\ i <= Len(k) => Before(k[i], l[i])

\* slice(0, limit): a negative limit counts from the end.
Sliced(keys, limit) ==
  SubSeq(keys, 1, IF limit < 0 THEN Len(keys) + limit
                  ELSE IF limit > Len(keys) THEN Len(keys) ELSE limit)

\* A page of a scan: of the keys in order, as many as the limit allows, and the last of
\* them, if there is one, as a cursor when there are more.
PageOf(keys, limit) ==
  LET page == IF limit = None THEN keys ELSE Sliced(keys, limit)
  IN  [keys   |-> page,
       cursor |-> IF page # << >> /\ Len(page) < Len(keys) THEN page[Len(page)] ELSE None]

\* Mutant: a page begins with the key the one before it has ended with.
MemoryPageInclusive(store, prefix, start, cursor, limit) ==
  PageOf(Sorted({k \in store : /\ HasPrefix(k, prefix)
                               /\ cursor = None \/ ~KeyBefore(k, cursor)
                               /\ start = None \/ ~KeyBefore(k, start)}, KeyBefore), limit)

\* MemoryStorage.list takes any limit: with 0 it hands out an empty page and no cursor.
MemoryPage(store, prefix, start, cursor, limit) ==
  PageOf(Sorted({k \in store : /\ HasPrefix(k, prefix)
                               /\ cursor = None \/ KeyBefore(cursor, k)
                               /\ start = None \/ ~KeyBefore(k, start)}, KeyBefore), limit)

-----------------------------------------------------------------------------
\* Characters of a sort key, by their place in ASCII: "!", the digits, "~".
Mark     == 0
Digit(d) == 1 + d
Tilde    == Base + 1

DigitAt(unit, place) == (unit \div Base ^ place) % Base

\* Mutant: leading zeros are left out.
EncodedShort(unit) ==
  LET used == {p \in 1..Width : unit \div Base ^ (p - 1) > 0} \cup {1}
  IN  [i \in 1..Cardinality(used) |-> Digit(DigitAt(unit, Cardinality(used) - i))]

\* toString(16).padStart(4, "0")
Encoded(unit) == [i \in 1..Width |-> Digit(DigitAt(unit, Width - i))]

\* sortKey
SortKey(key) ==
  FlattenSeq([i \in DOMAIN key |->
                FlattenSeq([j \in DOMAIN key[i] |-> Encoded(key[i][j])]) \o <<Mark>>])

\* SqliteStorage.list: its WHERE, its ORDER BY, and one row more than the limit.  A limit
\* that is not positive is refused with a RangeError (here None, and no page); so is one
\* that is not an integer, which is not modelled.
SqlitePage(store, prefix, start, cursor, limit) ==
  LET from  == SortKey(prefix)
      rows  == {k \in store :
                  LET row == SortKey(k) IN
                  /\ ~Before(row, from) /\ Before(row, Append(from, Tilde))
                  /\ start = None \/ ~Before(row, SortKey(start))
                  /\ cursor = None \/ Before(SortKey(cursor), row)}
      Less(k, l) == Before(SortKey(k), SortKey(l))
      found == Sorted(rows, Less)
  IN  IF limit # None /\ limit < 1 THEN None
      ELSE PageOf(IF limit = None THEN found ELSE Sliced(found, limit + 1), limit)
=============================================================================
