------------------------------ MODULE Strings -------------------------------
(***************************************************************************)
(* JavaScript's strings, as far as routes and storage keys depend on them: *)
(* sequences of code units, compared unit by unit, split and joined at the *)
(* slash.                                                                  *)
(***************************************************************************)
EXTENDS Naturals, FiniteSets, SequencesExt

CONSTANTS Slash, Colon,  \* the code units of "/" and ":"
          None           \* no string: no match, no cursor

\* The operator <.
Before(s, t) ==
  \E i \in 1..Len(t) :
    /\ i <= Len(s) + 1
    /\ \A j \in 1..(i - 1) : s[j] = t[j]
    /\ i <= Len(s) => s[i] < t[i]

\* The elements of a finite set, by a strict order.
Sorted(S, Less(_, _)) ==
  [i \in 1..Cardinality(S) |-> CHOOSE x \in S : Cardinality({y \in S : Less(y, x)}) = i - 1]

\* split("/")
Segments(s) ==
  LET cuts == Sorted({0, Len(s) + 1} \cup {i \in DOMAIN s : s[i] = Slash}, <)
  IN  [i \in 1..(Len(cuts) - 1) |-> SubSeq(s, cuts[i] + 1, cuts[i + 1] - 1)]

\* join("/")
Joined(segments) ==
  FoldLeft(LAMBDA s, t : s \o <<Slash>> \o t, Head(segments), Tail(segments))
=============================================================================
