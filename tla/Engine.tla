------------------------------- MODULE Engine -------------------------------
(***************************************************************************)
(* webProject/miniweb/miniweb.go: the groups of an engine.  A group has a  *)
(* prefix, which the routes and the groups made with it get, and           *)
(* middlewares; ServeHTTP collects those of every group whose prefix, as   *)
(* text, the path begins with.                                             *)
(*                                                                         *)
(* A text is the sequence of its parts.  A middleware is known by the      *)
(* group that uses it and its place there.                                 *)
(***************************************************************************)
EXTENDS Router

CONSTANTS
  GroupPrefixes, \* the prefixes Group is called with
  Begins,        \* the pairs of parts of which the first is the beginning of the second
  MaxGroups,     \* bound: how many groups there are, the engine's own included
  MaxUses        \* bound: how many middlewares are used

ASSUME EngineAssumption ==
  /\ GroupPrefixes \subseteq Seq(Names \cup Colons) \ {<<>>}
  /\ Begins \subseteq Names \X Names
  /\ MaxGroups \in Nat
  /\ MaxUses \in Nat

VARIABLES
  groups, \* engine.groups; parent is the place of the parent, 0 for the engine's own
  owner   \* history: the group each route was added with

engineVars == <<vars, groups, owner>>

NewGroup(parent, prefix) == [parent |-> parent, prefix |-> prefix, middlewares |-> <<>>]

Uses == Len(FlattenSeq([g \in DOMAIN groups |-> groups[g].middlewares]))

\* strings.HasPrefix on the texts.
HasPrefix(parts, prefix) ==
  \/ prefix = <<>>
  \/ /\ Len(prefix) <= Len(parts)
     /\ IsPrefix(Front(prefix), parts)
     /\ LET part == parts[Len(prefix)]
        IN  part = Last(prefix) \/ <<Last(prefix), part>> \in Begins

-----------------------------------------------------------------------------
\* Injected bug: the prefix of the parent is left out.
GroupOnTop(g, prefix) ==
  /\ Len(groups) < MaxGroups
  /\ groups' = Append(groups, NewGroup(g, prefix))
  /\ UNCHANGED <<vars, owner>>

Group(g, prefix) ==
  /\ Len(groups) < MaxGroups
  /\ groups' = Append(groups, NewGroup(g, groups[g].prefix \o prefix))
  /\ UNCHANGED <<vars, owner>>

Use(g) ==
  /\ Uses < MaxUses
  /\ groups' = [groups EXCEPT ![g].middlewares = Append(@, <<g, Len(@) + 1>>)]
  /\ UNCHANGED <<vars, owner>>

\* GET, POST, ... of a group.
AddTo(g, verb, pattern) ==
  /\ IsPrefix(groups[g].prefix, pattern)
  /\ AddRoute(verb, pattern)
  /\ owner' = Append(owner, g)
  /\ UNCHANGED groups

\* The middlewares of a request: those of the groups, one after the other.
ServeHTTP(parts) ==
  LET collected[n \in 0 .. Len(groups)] ==
        IF n = 0 THEN <<>>
        ELSE IF HasPrefix(parts, groups[n].prefix) THEN collected[n - 1] \o groups[n].middlewares
        ELSE collected[n - 1]
  IN  collected[Len(groups)]

-----------------------------------------------------------------------------
EngineInit ==
  /\ Init
  /\ groups = <<NewGroup(0, <<>>)>>
  /\ owner = <<>>

EngineNext ==
  \E g \in DOMAIN groups :
    \/ \E prefix \in GroupPrefixes : Group(g, prefix)
    \/ Use(g)
    \/ \E verb \in Verbs, pattern \in Patterns : AddTo(g, verb, pattern)

EngineSpec == EngineInit /\ [][EngineNext]_engineVars

-----------------------------------------------------------------------------
(* Properties *)

\* The middlewares of a group and of those it was made in, the outermost first.
Enclosing(g) ==
  LET all[h \in DOMAIN groups] ==
        IF groups[h].parent = 0 THEN groups[h].middlewares
                                ELSE all[groups[h].parent] \o groups[h].middlewares
  IN  all[g]

Static(prefix) == \A i \in DOMAIN prefix : prefix[i] \notin Wild

\* The list has everything that is in the other, once and in its order.
Within(sublist, list) ==
  /\ ToSet(sublist) \subseteq ToSet(list)
  /\ \A i, j \in DOMAIN sublist, k, l \in DOMAIN list :
       sublist[i] = list[k] /\ sublist[j] = list[l] => (i < j <=> k < l)

\* A request that a route answers runs through the middlewares of all the groups
\* around the route, the outermost first and each once, in whatever order groups,
\* middlewares and routes were set up and whichever other groups' middlewares it
\* runs through as well; but not if the prefix has a wildcard, which no path has.
GroupsEnclose ==
  \A k \in DOMAIN routes, parts \in Paths :
    LET method == Registered(routes[k][1]) IN
      /\ Clean(method)
      /\ GetRoute(method, parts) = routes[k][2]
      /\ Static(groups[owner[k]].prefix)
      => Within(Enclosing(owner[k]), ServeHTTP(parts))
=============================================================================
