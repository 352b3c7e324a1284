------------------------------- MODULE Router -------------------------------
(***************************************************************************)
(* webProject/miniweb/router.go and trie.go: which handler a path gets.    *)
(*                                                                         *)
(* Every method has a tree.  A pattern is inserted by its parts: at each   *)
(* level the first child that has the part, or that is a wildcard, is      *)
(* taken, and only if there is none a child is added.  A path is searched  *)
(* depth first, through all children that fit, and the first node with a   *)
(* pattern wins.                                                           *)
(*                                                                         *)
(* A pattern or a path is the sequence of its parts, as parsePattern       *)
(* returns it: nothing stands behind a star.                               *)
(***************************************************************************)
EXTENDS Integers, Sequences, SequencesExt

CONSTANTS
  Verbs,     \* the methods of RouterGroup that the application calls
  Names,     \* parts that stand for themselves
  Colons,    \* parts like :name, for any one part of a path
  Stars,     \* parts like *name, for all that is left of a path
  NoPattern, \* the empty string
  MaxParts,  \* bound: length of a pattern
  MaxRoutes  \* bound: how many routes are added

ASSUME RouterAssumption ==
  /\ Verbs \subseteq {"GET", "POST", "PUT", "PATCH", "DELETE"}
  /\ MaxParts \in Nat
  /\ MaxRoutes \in Nat

VARIABLES
  roots,    \* the nodes of the tree of each method, in the order they were added
  handlers, \* the handler for a method and a pattern, named by verb and pattern
  routes    \* history: the routes that were added, in order

vars == <<roots, handlers, routes>>

Methods == Verbs \cup {"PUT"}

Wild == Colons \cup Stars

Patterns ==
  {p \in BoundedSeq(Names \cup Wild, MaxParts) :
     \A i \in DOMAIN p : p[i] \in Stars => i = Len(p)}

Paths == BoundedSeq(Names, MaxParts + 1)

\* A pattern begins with a slash.
ASSUME PatternAssumption == NoPattern \notin Patterns

-----------------------------------------------------------------------------
(* The tree.  A node is known by the parts of the nodes down to it, since   *)
(* children of one node differ in their parts; the first node is the root. *)

Children(nodes, n) ==
  {c \in DOMAIN nodes : nodes[c].path # <<>> /\ Front(nodes[c].path) = nodes[n].path}

\* Injected bug: wildcards are tried only if no child has the part itself.
MatchChildrenExactly(nodes, n, part) ==
  LET exact == {c \in Children(nodes, n) : Last(nodes[c].path) = part}
  IN  IF exact # {} THEN exact ELSE {c \in Children(nodes, n) : Last(nodes[c].path) \in Wild}

MatchChildren(nodes, n, part) ==
  {c \in Children(nodes, n) : Last(nodes[c].path) \in {part} \cup Wild}

IsStar(node) == node.path # <<>> /\ Last(node.path) \in Stars

First(S) == CHOOSE x \in S : \A y \in S : x <= y

Root == [path |-> <<>>, pattern |-> NoPattern]

AddChild(tree, part) ==
  LET child == [path |-> Append(tree.nodes[tree.at].path, part), pattern |-> NoPattern]
  IN  [nodes |-> Append(tree.nodes, child), at |-> Len(tree.nodes) + 1]

\* Injected bug: what lies below a star is put at the star.
StepAboveStars(tree, part) ==
  LET children == MatchChildren(tree.nodes, tree.at, part)
  IN  IF IsStar(tree.nodes[tree.at])
        THEN tree
      ELSE IF children # {}
        THEN [tree EXCEPT !.at = First(children)]
        ELSE AddChild(tree, part)

\* One level of node.insert.
Step(tree, part) ==
  LET children == MatchChildren(tree.nodes, tree.at, part)
  IN  IF children # {}
        THEN [tree EXCEPT !.at = First(children)]
        ELSE AddChild(tree, part)

Insert(nodes, pattern) ==
  LET tree[i \in 0 .. Len(pattern)] ==
        IF i = 0 THEN [nodes |-> nodes, at |-> 1] ELSE Step(tree[i - 1], pattern[i])
      last == tree[Len(pattern)]
  IN  [last.nodes EXCEPT ![last.at].pattern = pattern]

\* node.search from the root: the node found, or 0.
Search(nodes, parts) ==
  LET found[n \in DOMAIN nodes] ==
        LET height == Len(nodes[n].path)
        IN  IF Len(parts) = height \/ IsStar(nodes[n])
              THEN IF nodes[n].pattern = NoPattern THEN 0 ELSE n
              ELSE LET hits == {c \in MatchChildren(nodes, n, parts[height + 1]) : found[c] # 0}
                   IN  IF hits = {} THEN 0 ELSE found[First(hits)]
  IN  found[1]

-----------------------------------------------------------------------------
(* The router *)

\* The method a function of RouterGroup passes to addRoute.
Registered(verb) == IF verb = "DELETE" THEN "PUT" ELSE verb

AddRoute(verb, pattern) ==
  LET method == Registered(verb)
      nodes == IF roots[method] = <<>> THEN <<Root>> ELSE roots[method]
      key == <<method, pattern>>
  IN  /\ Len(routes) < MaxRoutes
      /\ roots' = [roots EXCEPT ![method] = Insert(nodes, pattern)]
      /\ handlers' = [k \in DOMAIN handlers \cup {key} |->
                        IF k = key THEN <<verb, pattern>> ELSE handlers[k]]
      /\ routes' = Append(routes, <<verb, pattern>>)

\* The pattern router.handle finds for a request, or NoPattern, and a 404.
GetRoute(method, parts) ==
  IF roots[method] = <<>> \/ Search(roots[method], parts) = 0
    THEN NoPattern
    ELSE roots[method][Search(roots[method], parts)].pattern

Init ==
  /\ roots = [m \in Methods |-> <<>>]
  /\ handlers = <<>>
  /\ routes = <<>>

Next == \E verb \in Verbs, pattern \in Patterns : AddRoute(verb, pattern)

Spec == Init /\ [][Next]_vars

-----------------------------------------------------------------------------
(* What a pattern means, without the tree *)

Fits(pattern, parts) ==
  /\ \A i \in DOMAIN pattern : i <= Len(parts) /\ pattern[i] \in {parts[i]} \cup Wild
  /\ Len(pattern) < Len(parts) => pattern # <<>> /\ Last(pattern) \in Stars

\* The places of the routes of a method among all routes.
RoutesOf(method) == {k \in DOMAIN routes : Registered(routes[k][1]) = method}

\* Both patterns have the same first n parts.
Agree(p, q, n) == n <= Len(p) /\ n <= Len(q) /\ SubSeq(p, 1, n) = SubSeq(q, 1, n)

\* No pattern of the method has another part where an earlier one has a
\* wildcard, as insertion would take one for the other.
Clean(method) ==
  \A j, k \in RoutesOf(method) : j < k =>
    LET p == routes[j][2]  q == routes[k][2]
    IN  \A i \in DOMAIN p :
          Agree(p, q, i - 1) /\ i <= Len(q) /\ p[i] \in Wild => p[i] = q[i]

-----------------------------------------------------------------------------
(* Properties *)

\* The routes a request of that method fits.
Candidates(method, parts) == {routes[k][2] : k \in {j \in RoutesOf(method) : Fits(routes[j][2], parts)}}

\* A request is answered by a route that fits it whenever there is one, although
\* the search may have to come back from a branch that leads nowhere.
RoutesExact ==
  \A method \in Methods : Clean(method) =>
    \A parts \in Paths :
      LET pattern == GetRoute(method, parts) IN
        IF Candidates(method, parts) = {}
          THEN pattern = NoPattern
          ELSE pattern \in Candidates(method, parts)

\* Whatever patterns were merged, a request is given a handler that was
\* registered for the pattern found, and the parameters of that pattern are
\* parts the path has: router.handle calls no nil handler and getRoute does not
\* index past the end.
ServesSafely ==
  \A method \in Methods, parts \in Paths :
    LET pattern == GetRoute(method, parts) IN
      pattern # NoPattern =>
        /\ <<method, pattern>> \in DOMAIN handlers
        /\ \A i \in DOMAIN pattern : pattern[i] \in Wild => i <= Len(parts)

\* A route that was added with the function of a method answers requests of that
\* method ("DELETE defines the method to add DELETE request").
VerbIsServed ==
  \A k \in DOMAIN routes :
    \A parts \in Paths :
      routes[k][2] = parts => GetRoute(routes[k][1], parts) # NoPattern
=============================================================================
