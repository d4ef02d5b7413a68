----------------------------- MODULE MCCatalog ------------------------------
(***************************************************************************)
(* An instance of Catalog for TLC: two families that overlap, one of which *)
(* reverses the names of the other, and a singleton.  Code units have      *)
(* three binary digits where JavaScript's have four hexadecimal ones.      *)
(***************************************************************************)
EXTENDS Catalog

slash == 1
colon == 2
a == 3      \* one digit less than x, without its leading zero
x == 5

Map == << <<a, slash, colon, x>>, <<colon, x, slash, colon, a>>, <<a>> >>   \* "a/:x", ":x/:a", "a"

channel == <<a>>

\* A key whose first segment begins like those of the instances, and its extension.
OwnKeys == {<<<<a, x>>, << >>>>, <<<<a, x>>, << >>, <<a>>>>}

One(value) == [route |-> 1, params |-> [n \in {<<x>>} |-> value]]
Two(left, right) ==
  [route |-> 2, params |-> [n \in {<<x>>, <<a>>} |-> IF n = <<x>> THEN left ELSE right]]

\* Among them one that the first template catches, an empty value, and a slash.
Calls ==
  {One(<<x>>), One(<<a>>), One(<<a, x>>), One(<< >>), One(<<x, slash, x>>),
   Two(<<a>>, <<x>>), Two(<<x>>, <<a>>), Two(<<a, x>>, <<x>>)}
=============================================================================
