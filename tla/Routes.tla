------------------------------- MODULE Routes -------------------------------
(***************************************************************************)
(* routes.ts: templates, and how a URI finds its route.  A template is the *)
(* sequence of its segments; one that starts with a colon is a parameter.  *)
(***************************************************************************)
EXTENDS Strings

CONSTANT Templates   \* the templates of a route map, in the order they were added

IsParam(segment) == segment # << >> /\ segment[1] = Colon
NameOf(segment) == Tail(segment)

Shape == [t \in DOMAIN Templates |-> Segments(Templates[t])]

\* Positions of the parameters of a template.
Params(t) == {i \in DOMAIN Shape[t] : IsParam(Shape[t][i])}

Names(t) == {NameOf(Shape[t][i]) : i \in Params(t)}

\* isSingleton
Singleton(t) == Params(t) = {}

\* route() refuses a template that is there already.
ASSUME NoDuplicates ==
  \A s, t \in DOMAIN Templates : Templates[s] = Templates[t] => s = t

\* Whether one template matches: literals as they are, parameters anything but nothing.
Matches(t, segments) ==
  /\ Len(Shape[t]) = Len(segments)
  /\ \A i \in DOMAIN segments :
       IF i \in Params(t) THEN segments[i] # << >> ELSE Shape[t][i] = segments[i]

\* What the parameters are bound to; of two with one name, the last counts.
Bound(t, segments) ==
  [n \in Names(t) |->
     LET at == {i \in Params(t) : NameOf(Shape[t][i]) = n}
     IN  segments[CHOOSE i \in at : \A j \in at : j <= i]]

\* Mutant: a later template wins over an earlier one.
MatchLast(uri) ==
  LET hits == {t \in DOMAIN Templates : Matches(t, Segments(uri))}
  IN  IF hits = {} THEN None
      ELSE LET t == CHOOSE t \in hits : \A s \in hits : s <= t
           IN  [route |-> t, params |-> Bound(t, Segments(uri))]

\* matchRoute: the first template that matches.
Match(uri) ==
  LET hits == {t \in DOMAIN Templates : Matches(t, Segments(uri))}
  IN  IF hits = {} THEN None
      ELSE LET t == CHOOSE t \in hits : \A s \in hits : t <= s
           IN  [route |-> t, params |-> Bound(t, Segments(uri))]

\* resolveUri: the template with its parameters filled in, whatever they contain.
Resolve(t, params) ==
  IF \E n \in Names(t) : n \notin DOMAIN params \/ params[n] = << >> THEN None
  ELSE Joined([i \in DOMAIN Shape[t] |->
                 IF i \in Params(t) THEN params[NameOf(Shape[t][i])] ELSE Shape[t][i]])
=============================================================================
